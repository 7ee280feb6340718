SPECIFICATION Spec
CONSTANTS
    Action = "BUY"
    Target = 12
    Stop = 2
    Tol = 1
    Fills <- MCFills
    MaxFaults = 2
CHECK_DEADLOCK FALSE
INVARIANT
    FinishedIsBooked
PROPERTY
    ClosedStaysClosed
    ImplementsTradeLife
    EntryIsSeen
    ExitIsSeen
