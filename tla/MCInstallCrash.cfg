\* two faults anywhere: what no interrupted install may ever break
SPECIFICATION Spec
CONSTANTS
    T1 = T1 T2 = T2 E1 = E1 E2 = E2 S0 = S0 S1 = S1
    Chooser = Chooser Game = Game
    Token = {T1, T2}
    Exec = {E1, E2}
    Opener = {Chooser, Game}
    Launcher = {Chooser}
    Save = {S0, S1}
    OldSave = {S0}
    MaxFaults = 2
    None = None Absent = Absent
INVARIANTS TypeOK ActiveIsWhole NothingLost LiveStagingKept
PROPERTY SuccessMeansReady
SYMMETRY Interchangeable
CHECK_DEADLOCK FALSE
