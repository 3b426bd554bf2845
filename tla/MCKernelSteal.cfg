\* three threads that sleep and suspend themselves or another
SPECIFICATION Spec
CONSTANTS
    A = A  B = B  C = C  Q = Q  None = None
    Thread = {A, B, C}
    WaitQueue = {Q}
    Base <- MCBase
    Calls = {"sleepTicks", "suspend"}
    MaxSuspend = 1
    MaxDisable = 0
    MaxNest = 1
INVARIANTS ForeignSuspensionKept
