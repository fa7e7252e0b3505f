SPECIFICATION Spec
CONSTANTS
    Main = main
    f1 = f1
    f2 = f2
    Full = {f1, f2}
    NoJob = NoJob
    PoolSize = 3
    MaxDependents = 4
    CounterSize = 256
    MaxJobs <- MainCreates3
    Uses = {"lightweight", "child", "link"}
SYMMETRY FullSymmetry
INVARIANTS
    AtMostOnce
    StartsAfterDependences
    LinkedNotLost
PROPERTIES
    ImplementsTasks
