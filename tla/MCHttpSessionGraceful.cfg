CONSTANTS
    Limit = 3
    MaxRequests = 4
    Requests <- AllRequests
SPECIFICATION Spec
INVARIANT GracefulClose
CHECK_DEADLOCK FALSE
