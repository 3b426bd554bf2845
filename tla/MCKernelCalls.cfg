\* two threads of different priorities that may call everything
SPECIFICATION Spec
CONSTANTS
    A = A  B = B  C = C  Q = Q  None = None
    Thread = {A, B}
    WaitQueue = {Q}
    Base <- MCBase
    Calls = {"sleepTicks", "sleepThread", "wakeup", "suspend", "resume",
             "yield", "disable", "callback"}
    MaxSuspend = 2
    MaxDisable = 1
    MaxNest = 2
INVARIANTS TypeOK KernelSound
PROPERTY Urgency
