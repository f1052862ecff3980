SPECIFICATION FairSpec
CONSTANTS
    Key = {k1, k2}
    RunOf <- OneRunEach
    FileOf <- OneFile
    Before <- BothPut
    Attempts = 2
    MaxCalls = 4
    MaxFaults = 2
    None = None
    OnDisk = OnDisk
    NotFound = NotFound
    Failed = Failed
CHECK_DEADLOCK FALSE
INVARIANTS
    PrefetchEntries
    PromisedIsRead
    StoppedIsClean
PROPERTIES
    CallsAnswered
