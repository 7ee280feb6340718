SPECIFICATION Spec
CONSTANTS
    m1 = m1
    m2 = m2
    m3 = m3
    h1 = h1
    h2 = h2
    NoMsg = NoMsg
    Msgs = {m1, m2, m3}
    Hashes = {h1}
    HashOf <- MCHashOf
    Malformed = {m3}
    MaxRetry = 2
    QueueCap = 4
    BatchSize = 2
    Raises = {}
    MaxFaults = 0
CHECK_DEADLOCK FALSE
PROPERTY
    FailedIsRetried
