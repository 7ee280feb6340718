SPECIFICATION Spec
CONSTANTS
    Goals <- MCGoals
    QueueCap = 4
    MaxFaults = 2
INVARIANTS
    PnlIsOwn
PROPERTIES
    ExitIsFinal
    ExitReachesRow
    DeadEntryIsSeen
