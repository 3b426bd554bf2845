\* one issue whose contract reads a file that its fingerprint does not have
SPECIFICATION Spec
CONSTANTS
    p1 = p1 p2 = p2
    Proc = {p1}
    Issue = {119}
    Work = {1}
    Priority <- TouchPriority
    IssuesOf <- TouchIssues
    File = {"activity", "overlay"} Version = {0, 1}
    MaxEvents = 1
    MaxHour = 0
    None = None Unread = Unread Closed = Closed
INVARIANTS BlockedIsUnchanged
