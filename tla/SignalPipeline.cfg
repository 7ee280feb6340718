SPECIFICATION PSpec
CONSTANTS
    m1 = m1
    m2 = m2
    h1 = h1
    p1 = p1
    NoMsg = NoMsg
    Msgs = {m1, m2}
    Hashes = {h1}
    HashOf <- MCHashOf
    Malformed = {}
    MaxRetry = 1
    QueueCap = 4
    BatchSize = 2
    Raises = {"other"}
    MaxFaults = 1
    Posts = {p1}
    PostOf <- MCPostOf
    Forgets <- MCForgets
CHECK_DEADLOCK FALSE
INVARIANT
    OncePerMark
    SignalIsKept
PROPERTY
    SignalIsDecided
    CallIsSettled
    StaleIsExpired
