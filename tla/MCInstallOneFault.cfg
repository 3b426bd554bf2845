\* a single fault: RetroPack is implemented, the lease returned, the pack comes back
SPECIFICATION FairSpec
CONSTANTS
    T1 = T1 T2 = T2 E1 = E1 E2 = E2 S0 = S0 S1 = S1
    Chooser = Chooser Game = Game
    Token = {T1, T2}
    Exec = {E1, E2}
    Opener = {Chooser}
    Launcher = {Chooser}
    Save = {S0}
    OldSave = {S0}
    MaxFaults = 1
    None = None Absent = Absent
PROPERTIES ReplacesAtomically LeaseReturned PackComesBack
CHECK_DEADLOCK FALSE
