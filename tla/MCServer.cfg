CONSTANTS
    c1 = c1
    c2 = c2
    None = None
    Clients <- TwoClients
    Configs <- SomeConfigs
    Width = 3
    ThreadLimit = 2
    Descriptors = 1
    MaxRuns = 3
SPECIFICATION Spec
INVARIANTS
    TypeOK
    AcceptLoopAlive
    DescriptorsBalanced
    SessionExclusive
    ThreadsAsConfigured
PROPERTIES
    ClientsAccepted
    StopCompletes
