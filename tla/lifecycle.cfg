SPECIFICATION Spec
CONSTANTS
    Channels = {"ignition", "binlift"}
    Masked = {"binlift"}
    Handlers = {"clr", "ack"}
    RecvCap = 1
    SendCap = 1
    MaxListed = 2
    Loggers = {"io", "worker", "ack"}
    MaxSize = 4
    OldSizes = {0, 2, 4}
    MaxLost = 9
CHECK_DEADLOCK FALSE
INVARIANTS BiasAgrees ObjectsOutliveUsers LogIsBounded RecordsAreWhole
PROPERTIES OperatorConfigKept ShutdownEnds
