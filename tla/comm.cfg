SPECIFICATION FairSpec
CONSTANTS
    Clients = {c1}
    MaxBin = 1
    Faults = {}
    MAX_RETRIES = 1
    TIMEOUT_SEC = 1
    MaxLag = 0
    SendCap = 1
    AckCap = 1
    MaxAdds = 2
PROPERTIES CallbackReturns ListDrains
VIEW Present
