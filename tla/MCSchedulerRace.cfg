\* two runners, hosts that resume running threads
SPECIFICATION Spec
CONSTANTS
    A = A  B = B  C = C  Q = Q  None = None
    R1 = R1 R2 = R2
    Id = {A, B}
    Queue = {Q}
    Runner = {R1, R2}
    Prio <- MCPrio
    MaxDelay = 1
    MaxPeriod = 1
    ResumeRunning = TRUE
INVARIANTS TypeOK RunningHasRunner JoinTargetAlive NoRunnableAfterShutdown
PROPERTY EndedStaysEnded
