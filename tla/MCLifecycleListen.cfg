CONSTANTS
    p1 = p1
    p2 = p2
    p3 = p3
    None = None
    Pids <- ThreePids
    Configs <- OnlyForeground
    Starters <- RootStarts
    Serial = TRUE
SPECIFICATION Spec
SYMMETRY Interchangeable
INVARIANT ServerListens
