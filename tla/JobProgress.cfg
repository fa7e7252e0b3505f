SPECIFICATION FairSpec
CONSTANTS
    Main = main
    f1 = f1
    f2 = f2
    Full = {f1, f2}
    NoJob = NoJob
    PoolSize = 3
    MaxDependents = 4
    CounterSize = 3
    MaxJobs <- OneJobCreates
    Uses = {"child", "link", "mainWait"}
INVARIANT
    TypeOK
PROPERTIES
    MainWaitReturns
    FullQueuesDrain
