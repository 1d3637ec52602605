SPECIFICATION Spec
CONSTANTS
    a = a
    b = b
    c = c
    west = west
    east = east
    router = router
    broadcast = broadcast
    ETHERNET_BROADCAST = broadcast
    PendingTTL = 1
    MappingTTL = 1
    AddressBits = 4
    Interfaces = {a, b, c, west, east}
    Hosts = {a, b, c}
    TapHosts = {b}
    Node <- MCNode
    Lan <- MCLan
    Overhearing = {c}
    Ip <- MCIp
    NextHop <- MCNextHop
    Routes <- MCRoutes
    Config <- MCConfig
    Packets <- MCPackets
    MaxDatagrams = 2
    MaxTicks <- MCMaxTicks
INVARIANTS
    TypeOK
    FramesGoToTheirNextHop
    NothingWaitsForAKnownAddress
    OnePlaceAtATime
    ArrivesAsSent
    PicksTheLongestPrefix
PROPERTIES
    AsksAreSpaced
CHECK_DEADLOCK FALSE
