CONSTANTS
    Limit = 3
    MaxRequests = 7
    Requests <- AllRequests
SPECIFICATION FairSpec
INVARIANTS
    TypeOK
    NoOverlappingOps
    QueueBounded
    WriteHasItem
    InOrder
    NoStall
    NothingAfterClose
    EofOnce
    IInv
PROPERTIES
    Answered
    Released
CHECK_DEADLOCK FALSE
