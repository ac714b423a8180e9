SPECIFICATION FairSpec
CONSTANTS
    h1 = h1
    h2 = h2
    Hops <- hops
    Main = Main
    Beat = Beat
    NoOne = NoOne
    MaxNbrs = 2
INVARIANTS
    TypeOK
    OwnerIsInside
    NoWaitCycle
PROPERTIES
    ThreadsComeToRest
