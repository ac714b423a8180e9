SPECIFICATION FairSpec
CONSTANTS
    eth0 = eth0
    eth1 = eth1
    eth2 = eth2
    vrhost = vrhost
    vhost1 = vhost1
    Eth0 = eth0
    Blank = Blank
    Bad = Bad
    Garbage <- garbage
    Missing = Missing
    VrHost = vrhost
    Hosts <- hosts
    RtFiles <- rtFiles
    OldTables <- oldTables
    SentTables <- sentTables
    HwInfos <- hwInfos
    MaxStream = 2
CHECK_DEADLOCK FALSE
INVARIANTS
    TypeOK
    StartsInOrder
    RoutesHaveInterfaces
PROPERTIES
    CloseIsObeyed
