SPECIFICATION FairSpec
CONSTANTS
    h1 = h1
    h2 = h2
    d1 = d1
    d2 = d2
    l1 = l1
    Hops <- twoHops
    Data <- twoData
    Lsus <- oneLsu
    MaxRequests = 2
    CacheLife = 1
INVARIANTS
    TypeOK
    NumMatchesThread
    QueuedIsOwned
    StaleOnlyBeforeFinish
PROPERTIES
    EveryPacketEnds
    GiveUpAfterAllRequests
    ImplementsDelivery
