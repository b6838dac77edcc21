\* Two threads in hooks and a queue of two that drops, both sinks.
CONSTANTS
    p1 = p1
    p2 = p2
    Producers <- TwoProducers
    QueueMax = 2
    DropWhenFull = TRUE
    WriteSpecs = TRUE
    HasWriter = TRUE
    MaxCalls = 3
SPECIFICATION FairSpec
INVARIANTS
    TypeOK
    Conservation
    SpecFirst
    ErrorsExplainGaps
PROPERTIES
    ImplementsLog
    EventuallyProcessed
