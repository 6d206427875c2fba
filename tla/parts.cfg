SPECIFICATION PartsSpec
CONSTANTS
    Clients = {c1}
    MaxBin = 3
    Faults = {"read", "write"}
    EnableLevels = {0, 1}
    Hold = TRUE
    MaxEdges = 3
    Nodes = {1, 2, 3, 4}
    Keys = {"bias"}
    NoKey = "-"
    Kinds = {"object"}
    Containers = {"object"}
    Trees <- MCTrees
    Sizes = {0, 1, 2, 3, 5, 7, 8, 9, 10, 13, 16, 24, 32, 64, 256}
    DefaultSize = 256
    IntMax = 600
    NestingLimit = 3
    MaxAllocs = 60
    FileMax = 512
CHECK_DEADLOCK FALSE
INVARIANTS CountInv VisibleIsDurable MonitorInv EveryLiftCounted ReverseFollowsInput
INVARIANTS ListsAreLinked DeleteFreesAll PrintIsExact RoundTrip PartNeverParses ParseLeaksNothing CompareIsEquality
PROPERTIES LiftIdsFresh ClearAgrees ListsAreSequences
