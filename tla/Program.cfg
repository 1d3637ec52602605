SPECIFICATION FairSpec
CONSTANTS
    PairCapacity = 1
    RemoteWindow = 1
    SendCapacity = 1
    RecvCapacity = 2
    CopyCapacity = 1
    Typed = 1
    Sent = 2
    ClientInput = "pipe"
    ServerInput = "file"
    OutputFails = {"full", "broken"}
    MayReset = TRUE
INVARIANTS
    TypeOK
    DiesOnlyOfAnError
    CleanEnd
PROPERTIES
    NothingAfterClose
    Terminates
CHECK_DEADLOCK FALSE
