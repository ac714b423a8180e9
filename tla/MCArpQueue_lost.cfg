SPECIFICATION Spec
CONSTANTS
    h1 = h1
    h2 = h2
    d1 = d1
    d2 = d2
    l1 = l1
    Hops <- oneHop
    Data <- twoData
    Lsus <- oneLsu
    MaxRequests = 5
    CacheLife = 3
INVARIANTS
    NothingLost
