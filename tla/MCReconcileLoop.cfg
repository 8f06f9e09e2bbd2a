CONSTANTS
    leaf = leaf
    fw = fw
    c1 = c1
    c2 = c2
    None = None
    Device <- MCDevice
    Firewall <- MCFirewall
    Checksum <- MCChecksum
    FirewallEvery = 3
    MayRaise = TRUE
SPECIFICATION FairSpec
INVARIANTS
    TypeOK
    FirewallKeepsItsCadence
    FirstPushIsConfirmedNext
PROPERTIES
    RequestIsKept
    RequestComparesEverything
    EveryDeviceComesRound
