\* two shells that refresh, package and audit while the sources are edited
SPECIFICATION Spec
CONSTANTS
    s1 = s1 s2 = s2
    Shell = {s1, s2}
    Platform = {"ios", "tvos", "macos"}
    MaxEdits = 2
    None = None
INVARIANT PassedIsAccepted
PROPERTY ListsWhatWasLinked
SYMMETRY Shells
