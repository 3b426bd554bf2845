\* three equal threads that sleep
SPECIFICATION FairSpec
CONSTANTS
    A = A  B = B  C = C  Q = Q  None = None
    Thread = {A, B, C}
    WaitQueue = {Q}
    Base <- MCEqual
    Calls = {"sleepTicks"}
    MaxSuspend = 1
    MaxDisable = 0
    MaxNest = 1
PROPERTY SleeperAWakes
