SPECIFICATION Spec
CONSTANTS
    Header <- MCHeader
    IntSize <- MCIntSize
    Calls <- MCCalls
INVARIANTS
    TypeOK
    ReceivedAsSent
    Placement
    MisfitsFail
PROPERTIES
    Ends
    ArrivesIfSent
CHECK_DEADLOCK FALSE
