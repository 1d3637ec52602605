SPECIFICATION Spec
CONSTANTS
    Client = Client
    Server = Server
    M = 16
    MaxPayload = 1
    MaxWindow = 3
    SendCapacity = 2
    RecvCapacity = 3
    MaxInFlight <- OneAndTwo
    Resets = {Client}
    Isn <- IsnBeforeWrap
    Total <- TwoAndNone
INVARIANTS
    TypeOK
    DeliveredWasSent
    AckedIsDelivered
    ClosedIsComplete
    CleanEndIsComplete
CHECK_DEADLOCK FALSE
