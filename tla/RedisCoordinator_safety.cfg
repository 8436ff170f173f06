SPECIFICATION Spec
CONSTANTS
    c1 = c1
    c2 = c2
    c3 = c3
    r1 = r1
    r2 = r2
    r3 = r3
    global = global
    user = user
    pool = pool
    Callers <- MCCallers
    Ids <- MCIds
    IdsOf <- MCIdsOf
    Keys <- MCKeys
    FifoKeys <- MCFifoKeys
    KeysOf <- MCKeysOf
    Limit <- MCLimit
    Offers <- MCOffers
    Lease = 2
    StatusTTL = 1
    QueueTimeout = 1
    Beat = 1
    MaxRun = 4
    MaxFaults = 1
INVARIANTS
    HoldersCounted
    HoldersWithinLimit
    WaitersKeepPlace
    CountedOnRecord
    NothingLeaked
PROPERTY
    Implements
