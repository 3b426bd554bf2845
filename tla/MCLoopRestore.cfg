\* one issue, and a file that is edited and restored while its contract runs
SPECIFICATION Spec
CONSTANTS
    p1 = p1 p2 = p2
    Proc = {p1}
    Issue = {119}
    Work = {1}
    Priority <- TouchPriority
    IssuesOf <- TouchIssues
    File = {"activity"} Version = {0, 1}
    MaxEvents = 2
    MaxHour = 0
    None = None Unread = Unread Closed = Closed
INVARIANTS PassIsNeverOfOthers
