\* a stopped execution against its successor: bytes of the partial are lost
SPECIFICATION Spec
CONSTANTS
    E1 = E1 E2 = E2
    Exec = {E1, E2}
    Size = 2
    MaxFaults = 2
    Absent = Absent None = None
PROPERTY LossKeepsPartial
CHECK_DEADLOCK FALSE
