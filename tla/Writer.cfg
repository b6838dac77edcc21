\* One producer, a queue of two that drops, batches of two.
CONSTANTS
    p1 = p1
    Producers <- OneProducer
    QueueMax = 2
    BatchSize = 2
    DropWhenFull = TRUE
    MaxCalls = 3
SPECIFICATION FairSpec
INVARIANTS
    TypeOK
    Conservation
    OnceInOrder
    FlushSound
PROPERTIES
    ExitsDrained
    ImplementsLog
    EventuallySettled
