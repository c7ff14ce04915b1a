SPECIFICATION Spec
CONSTANTS
    Worker = {w1, w2}
    Client = {a, b}
    NoEntry = NoEntry
    CanFail = TRUE
    OwlAsks = {TRUE, FALSE}
    OwlFails = TRUE
    MaxAsks = 2
    MaxDisturbances = 1
INVARIANTS ServiceTypeOK OneWarm QueuedBehindCheck FailureIsOfLastWarm
CHECK_DEADLOCK FALSE
