SPECIFICATION FairSpec
CONSTANTS
    Cap = 2
    NoItem = NoItem
    Items = {x, y}
    Pushers = {p1, p2}
    TimedPushers = {}
    Poppers = {c1, c2}
    TimedPoppers = {}
INVARIANTS RingInv NotFullWakeups NotEmptyWakeups
PROPERTIES FullDrains
