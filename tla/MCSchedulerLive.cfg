\* two runners that keep calling RunOne, hosts that resume no running thread
SPECIFICATION FairSpec
CONSTANTS
    A = A  B = B  C = C  Q = Q  None = None
    R1 = R1 R2 = R2
    Id = {A, B, C}
    Queue = {Q}
    Runner = {R1, R2}
    Prio <- MCPrio
    MaxDelay = 1
    MaxPeriod = 0
    ResumeRunning = FALSE
INVARIANT StepExclusive
PROPERTIES SleeperWakes RoundRobin
