SPECIFICATION Spec
CONSTANTS
    Writer <- MCWriter
    RouterIn <- MCRouterIn
    RouterOut <- MCRouterOut
    Reader <- MCReader
    Source <- MCSource
    Destination <- MCDestination
    Segments <- MCSegments
    ARPMessages <- MCARPMessages
    Options <- MCOptions
    MaxPadding = 3
INVARIANTS
    ReadsWhatWasWritten
\* One message is written and read.
CHECK_DEADLOCK FALSE
