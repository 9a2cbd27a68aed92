CONSTANTS
    Limit = 3
    MaxRequests = 4
    Requests <- AllRequests
SPECIFICATION Spec
PROPERTY QuietAfterClose
CHECK_DEADLOCK FALSE
