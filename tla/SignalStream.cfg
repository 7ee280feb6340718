\* One signal posted twice, with another one between that does not parse when
\* published, and a sorted set that holds the two members of one post.
CONSTANTS
    h1 = h1
    h2 = h2
    NPosts = 3
    Hashes = {h1, h2}
    HashOf <- MCHashOf
    Malformed = {2}
    SeenMax = 2
    BatchSize = 2
    MaxRetry = 2
    QueueCap = 1
    MaxFaults = 1
    MaxCrashes = 1
SPECIFICATION Spec
CHECK_DEADLOCK FALSE
INVARIANTS PublishedOnce OneOrder OrderIsBooked
PROPERTIES ImplementsEntryLog BacklogIsHandled
