SPECIFICATION FairSpec
CONSTANTS
    Main = main
    f1 = f1
    f2 = f2
    Full = {f1, f2}
    NoJob = NoJob
    PoolSize = 3
    MaxDependents = 4
    CounterSize = 256
    MaxJobs <- OneEach
    Uses = {"jobWait"}
PROPERTY
    JobWaitReturns
