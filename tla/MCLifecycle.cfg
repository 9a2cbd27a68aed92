CONSTANTS
    p1 = p1
    p2 = p2
    p3 = p3
    None = None
    Pids <- ThreePids
    Configs <- AllConfigs
    Starters <- MixedStarts
    Serial = TRUE
SPECIFICATION Spec
SYMMETRY Interchangeable
INVARIANTS
    TypeOK
    SingleServer
    PidFileNamesServer
    IInv
