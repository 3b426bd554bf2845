\* two threads that suspend themselves or each other, also with the scheduler
\* disabled, and block
SPECIFICATION Spec
CONSTANTS
    A = A  B = B  C = C  Q = Q  None = None
    Thread = {A, B}
    WaitQueue = {Q}
    Base <- MCBase
    Calls = {"sleepThread", "suspend", "resume", "disable"}
    MaxSuspend = 1
    MaxDisable = 1
    MaxNest = 0
INVARIANTS NeverTorn
