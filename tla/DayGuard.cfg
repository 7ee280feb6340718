SPECIFICATION Spec
CONSTANTS
    LastDay = 2
    Pnls <- MCPnls
    EnvLimit = 2
    LiveLimits = {4}
    Highest = 4
    NoLimit = NoLimit
    MaxTrades = 3
    MaxFaults = 1
CHECK_DEADLOCK FALSE
INVARIANT
    BooksAgree
    PeakIsNoticed
PROPERTY
    BlockedStaysBlocked
