\* The proxy from the hook to both files, and its exit.
CONSTANTS
    Producers <- OneProducer
    QueueMax = 1
    DropWhenFull = TRUE
    WriteSpecs = TRUE
    HasWriter = TRUE
    WriterQueueMax = 1
    Flushers <- LoopAndMain
    WriterBatchSize = 2
    MaxCalls = 2
CHECK_DEADLOCK FALSE
SPECIFICATION FairSysSpec
INVARIANTS
    SysTypeOK
    EndToEnd
    EveryCaptureCounted
    RowsHaveSpecs
    HandedIsSettled
PROPERTIES
    EventuallyStored
