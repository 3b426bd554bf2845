\* three faults: a restoration that is not recoverable at the next startup
SPECIFICATION Spec
CONSTANTS
    T1 = T1 T2 = T2 E1 = E1 E2 = E2 S0 = S0 S1 = S1
    Chooser = Chooser Game = Game
    Token = {T1, T2}
    Exec = {E1, E2}
    Opener = {Chooser}
    Launcher = {Chooser}
    Save = {S0, S1}
    OldSave = {S0}
    MaxFaults = 3
    None = None Absent = Absent
PROPERTY FailedRestoreRecoverable
CHECK_DEADLOCK FALSE
