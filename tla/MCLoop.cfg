\* two overlapping invocations, an edit, two hours
SPECIFICATION Spec
CONSTANTS
    p1 = p1 p2 = p2
    Proc = {p1, p2}
    Issue = {102, 104}
    Work = {1, 2}
    Priority <- PriorityValue
    IssuesOf <- IssuesOfValue
    File = {"prepare"} Version = {0, 1}
    MaxEvents = 2
    MaxHour = 1
    None = None Unread = Unread Closed = Closed
SYMMETRY Symmetry
INVARIANTS TypeOK NoUnchangedRerun PassIsOfTheseBytes StallNeedsTwoHours
PROPERTIES SavesKeepOthers
