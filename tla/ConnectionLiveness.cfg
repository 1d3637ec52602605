SPECIFICATION FairSpec
CONSTANTS
    Client = Client
    Server = Server
    M = 16
    MaxPayload = 1
    MaxWindow = 2
    SendCapacity = 2
    RecvCapacity = 1
    MaxInFlight <- OneInFlight
    Resets = {}
    Isn <- IsnBeforeWrap
    Total <- TwoAndNone
PROPERTIES
    EverythingArrives
CHECK_DEADLOCK FALSE
