SPECIFICATION MSpec
CONSTANTS
    Action = "BUY"
    Target = 12
    Stop = 2
    Tol = 1
    Fills <- MCFills
    MaxFaults = 1
    r1 = r1
    r2 = r2
    Requests = {r1}
    MaxRetry = 2
    Default = 2
CHECK_DEADLOCK FALSE
INVARIANT
    BookedOnce
    CleanAnswerMeansDead
    SoleExitNeverReverses
