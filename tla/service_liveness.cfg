SPECIFICATION FairSpec
CONSTANTS
    Worker = {w1}
    Client = {a, b}
    NoEntry = NoEntry
    CanFail = TRUE
    OwlAsks = {TRUE}
    OwlFails = FALSE
    MaxAsks = 2
    MaxDisturbances = 1
PROPERTIES PollsEnd WarmsEnd OutdatedIsReplaced
CHECK_DEADLOCK FALSE
