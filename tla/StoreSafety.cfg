\* One client with every operation, the flush loop and close().
CONSTANTS
    a = a
    b = b
    c1 = c1
    Services <- TwoServices
    Contains <- Distinct
    NoSpec = NoSpec
    Clients <- OneClient
    ClientOps <- AllOps
    Flushers <- LoopAndCloser
    MaxObs = 2
SYMMETRY Symmetry
SPECIFICATION StoreSpec
INVARIANTS
    TypeOK
    NothingForgotten
    PrefixDurable
    SavedUnlessRaced
