SPECIFICATION Spec
CONSTANTS
    Conns = {a, b}
    NoConn = NoConn
    Fds = {f1}
    BadFd = BadFd
    SendCap = 1
    RecvCap = 1
    MaxBcasts = 0
    MaxFails = 0
CHECK_DEADLOCK FALSE
PROPERTIES RightRecipient
