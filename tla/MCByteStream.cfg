SPECIFICATION Spec
CONSTANTS
    Capacity = 4
    MaxString = 3
    MaxBytes = 6
INVARIANTS
    TypeOK
    BufferIsUnread
    OutIsARun
    PopAndReadFollowTheLoops
PROPERTIES
    ImplementsStream
