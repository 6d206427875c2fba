SPECIFICATION FairSpec
CONSTANTS
    Conns = {a, b}
    NoConn = NoConn
    Fds = {f1, f2}
    BadFd = BadFd
    SendCap = 1
    RecvCap = 1
    MaxBcasts = 1
    MaxFails = 1
CHECK_DEADLOCK FALSE
INVARIANTS ListedUnlessRaced NoGhosts
PROPERTIES OnlyClosedGoAstray BroadcastEnds ConnectsServed
