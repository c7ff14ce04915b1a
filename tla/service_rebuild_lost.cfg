SPECIFICATION Spec
CONSTANTS
    Worker = {w1, w2}
    Client = {a, b}
    NoEntry = NoEntry
    CanFail = FALSE
    OwlAsks = {TRUE, FALSE}
    OwlFails = FALSE
    MaxAsks = 2
    MaxDisturbances = 1
PROPERTIES NoQueuedRebuildLost
CHECK_DEADLOCK FALSE
