SPECIFICATION FairSpec
CONSTANTS
    Conns = {a, b}
    NoConn = NoConn
    Fds = {f1, f2}
    BadFd = BadFd
    SendCap = 1
    RecvCap = 1
    MaxBcasts = 1
    MaxFails = 0
CHECK_DEADLOCK FALSE
PROPERTIES BroadcastReturns
