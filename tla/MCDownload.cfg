\* two executions that may overlap, and any three faults
SPECIFICATION FairSpec
CONSTANTS
    E1 = E1 E2 = E2
    Exec = {E1, E2}
    Size = 4
    MaxFaults = 3
    Absent = Absent None = None
INVARIANT TypeOK
PROPERTIES SoundWhenAlone EventuallyInstalled
CHECK_DEADLOCK FALSE
