SPECIFICATION Spec
CONSTANTS
    e0 = e0
    e1 = e1
    e2 = e2
    hA = hA
    hB = hB
    Unset = Unset
    s1 = s1
    s2 = s2
    NoIf = NoIf
    Junk = Junk
    Width = 4
    Octet = 2
    MaxQueue = 2
    IfList <- ifList
    Mac <- mac
    Ip <- ip
    Hops <- hops
    HopMac <- hopMac
    Neighbors <- neighbors
    Tables <- tables
    Static <- static
    Packets <- packets
    Requests <- requests
CHECK_DEADLOCK FALSE
INVARIANTS
    TypeOK
    WellFormedLeaves
    FramesGoWhereTheyShould
PROPERTIES
    RouteIsLongestMatch
