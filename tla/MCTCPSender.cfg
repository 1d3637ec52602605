SPECIFICATION FairSpec
CONSTANTS
    M = 16
    MaxPayload = 2
    Capacity = 3
    Total = 4
    Isn = 13
    LargestWindow = 5
    Windows = {0, 2, 5}
    InitialRTO = 2
    Ticks = {1}
    MaxRetx = 1
INVARIANTS
    TypeOK
    OutstandingIsUnacked
    MessagesFollowStream
    ReadyIsAccountedFor
    BackoffFollowsRetransmissions
    LoopsMatch
PROPERTIES
    WindowAndAcksRespected
    OldestIsRetransmitted
