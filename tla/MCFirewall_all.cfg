SPECIFICATION FairSpec
CONSTANTS
    a1 = a1
    a2 = a2
    b1 = b1
    b2 = b2
    ra = ra
    rb = rb
    all = all
    nowhere = nowhere
    in = in
    out = out
    Packets <- everything
    External <- external
    Internal <- internal
    Own <- own
    AllRouters = all
    Route <- route
    NoRoute = NoRoute
    Rules <- someRules
    VersionWord = 69
    TtlIncrement = 1
    MaxUpdates = 1
    MaxFtSize = 2
INVARIANTS
    TypeOK
    SizeAndEntriesAgree
PROPERTIES
    AdmittedWasOpened
    RefusedOnlyWhenFull
    Closes
