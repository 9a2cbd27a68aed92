CONSTANTS
    w1 = w1
    w2 = w2
    t1 = t1
    t2 = t2
    u1 = u1
    u2 = u2
    u3 = u3
    None = None
    Fallback = Fallback
    Workers <- TwoWorkers
    Tokens <- TwoTokens
    Urls <- ThreeUrls
    CStr <- CutU3
SPECIFICATION FairSpec
INVARIANTS
    TypeOK
    Injective
    ToldStored
    FreshPage
    RedirectTrue
    NoLockLeak
    OneReply
    IInv
PROPERTIES
    ImplementsMap
    Completes
