SPECIFICATION FairSpec
CONSTANTS
    Clients = {c1}
    Acks <- MCAcks
    Stale <- MCStale
    RecvCap = 1
    TaskCap = 1
    IntMax = 15
    MaxSends = 3
CHECK_DEADLOCK FALSE
INVARIANTS WholeRequestUnderstood TasksHaveOneOwner
PROPERTIES WorkerReturns
