SPECIFICATION Spec
CONSTANTS
    Client = Client
    Server = Server
    M = 16
    MaxPayload = 1
    MaxWindow = 2
    SendCapacity = 2
    RecvCapacity = 2
    MaxInFlight <- TwoAndOne
    Resets = {}
    Isn <- IsnBeforeWrap
    Total <- TwoAndNone
PROPERTIES
    NothingBeyondTheWindow
CHECK_DEADLOCK FALSE
