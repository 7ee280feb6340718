SPECIFICATION Spec
CONSTANTS
    Action = "BUY"
    Target = 12
    Stop = 2
    Tol = 1
    Fills <- MCPlainFills
    MaxFaults = 0
CHECK_DEADLOCK FALSE
INVARIANT
    PnlIsStored
