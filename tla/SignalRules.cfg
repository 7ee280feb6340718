SPECIFICATION Spec
CONSTANTS
    Signals <- MCSignals
    Profile = "SAFE"
    DryRun = FALSE
    MaxMoves = 2
CHECK_DEADLOCK FALSE
INVARIANT
    ExactEntryIsBracketed
    RatioOutlivesBuffers
    EnteredInTime
