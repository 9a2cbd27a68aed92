CONSTANTS
    p1 = p1
    p2 = p2
    p3 = p3
    None = None
    Pids <- ThreePids
    Configs <- OnlyForeground
    Starters <- RootStarts
    Serial = FALSE
SPECIFICATION Spec
SYMMETRY Interchangeable
INVARIANT SingleServer
