\* what a strict pass of the Android signals is said to require
SPECIFICATION ReadersSpec
CONSTANTS
    MaxRows = 0
    MaxTime = 3
    TimeStep <- MCSteps
    Countdown = 1
    InputFrames = 3
    MaxLogs = 2
    MaxSamples = 3
    MaxCount = 1
    Byte = {0, 1}
    Sizes = {8, 10, 20}
    Stored = {8, 10}
    Yaz <- MCYaz
    Courses = 2
    MaxGhosts = 3
    Natives <- MCNatives
    MaxRaceTime = 2
    MaxFrames = 4
    MaxLost = 1
    Unseen = Unseen
    MaxLines = 2
    Declared <- MCDeclared
    MaxPatchLines = 5
INVARIANT MatrixIsOneCycle
CHECK_DEADLOCK FALSE
