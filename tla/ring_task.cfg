SPECIFICATION FairSpec
CONSTANTS
    Cap = 2
    NoItem = NoItem
    Items = {x, y}
    Pushers = {p1}
    TimedPushers = {w1}
    Poppers = {c2}
    TimedPoppers = {c1}
PROPERTIES ImplementsQueue TimedCallsReturn
