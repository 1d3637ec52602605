SPECIFICATION ReceiverSpec
CONSTANTS
    M = 8
    MaxWindow = 3
    RecvCapacity = 4
    PeerTotal = 12
    PeerIsn = 6
INVARIANTS
    ReceiverTypeOK
    EveryByteInPlace
    WindowIsHonoured
PROPERTIES
    PromisesAreKept
