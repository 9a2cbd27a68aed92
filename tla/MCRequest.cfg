CONSTANTS
    Requests <- AllRequests
    DocRoots <- TwoRoots
    MimeLines <- Lines
    Default = "application/octet-stream"
    MaxParams = 3
    MinParts = 2
    MaxParts = 3
    MaxInserts = 2
    RandMin = 2
    RandMax = 3
SPECIFICATION Spec
INVARIANTS
    TypeOK
    PathInRoot
    ServedAs
    FormUrl
    SectionsOwnHeaders
    ParamLimit
    TokenRandom
    TokenRouted
