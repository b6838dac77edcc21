\* One name part of the other: updates and the flush loop alone, with kills and failing writes.
CONSTANTS
    a = a
    b = b
    c1 = c1
    NoSpec = NoSpec
    Clients <- OneClient
    Services <- TwoServices
    Contains <- Nested
    ClientOps <- UpdatesOnly
    Flushers <- LoopOnly
    MaxObs = 2
SPECIFICATION FairStoreSpec
PROPERTIES
    DiskNeverRegresses
    EventuallyDurable
