\* A service whose name is part of another's.
CONSTANTS
    a = a
    b = b
    c1 = c1
    NoSpec = NoSpec
    Clients <- OneClient
    Services <- TwoServices
    Contains <- Nested
    ClientOps <- UpdatesOnly
    Flushers <- LoopOnly
    MaxObs = 2
SPECIFICATION StoreSpec
INVARIANT UpdateAddsSamples
