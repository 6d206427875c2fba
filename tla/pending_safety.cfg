SPECIFICATION Spec
CONSTANTS
    Clients = {c1, c2}
    Keys = {1, 2}
    MAX_RETRIES = 2
    TIMEOUT_SEC = 1
    MaxLag = 1
    SendCap = 1
    AckCap = 1
    MaxAdds = 3
SYMMETRY ClientSymmetry
INVARIANTS PendingInv ResendBudget
PROPERTIES NoStaleResend
