SPECIFICATION Spec
CONSTANTS
    Capacity = 6
    Total = 7
INVARIANTS
    ListIsNormal
    NothingLost
    ClosedWhenComplete
PROPERTIES
    ImplementsAssembly
