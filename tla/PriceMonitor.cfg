\* A BUY in the range 10..12 with its first target at 20.
CONSTANTS
    Action = "BUY"
    EntryLow = 10
    EntryHigh = 12
    T1 = 20
    Prices <- MCPrices
    Margin = 5
    MaxFaults = 2
SPECIFICATION Spec
CHECK_DEADLOCK FALSE
INVARIANTS ExpiredMeansCancelled TouchIsKept
PROPERTIES KnownFillIsSpared MissedEntryExpires
