CONSTANTS
    w1 = w1
    w2 = w2
    t1 = t1
    t2 = t2
    u1 = u1
    u2 = u2
    u3 = u3
    None = None
    Fallback = Fallback
    Workers <- TwoWorkers
    Tokens <- TwoTokens
    Urls <- TwoUrls
    CStr <- NoCut
SPECIFICATION Spec
PROPERTY GoesTo
