SPECIFICATION FairSpec
CONSTANTS
    o = o
    a = a
    b = b
    c = c
    Routers <- routers
    Origin = o
    Links <- links
    SlowLinks <- slow
    InitTtl = 4
    SeqSpace = 3
    MaxVersion = 1
    MaxFaults = 2
    MaxInFlight = 1
INVARIANTS
    TypeOK
PROPERTIES
    Converges
