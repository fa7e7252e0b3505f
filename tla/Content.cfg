SPECIFICATION ContentSpec
CONSTANTS
    NoTask = NoTask
    Perms = {plain, broken}
    Broken = {broken}
    Clients = {main, helper}
    Pollers = {main}
    Compilations = {t1, t2}
    Nobody = Nobody
    Task = {t1, t2, t3}
    Loads = {t3}
    Paths = {texture, missing}
    Missing = {missing}
    Requests = {r1, r2}
    Objects = {o1, o2}
    Null = Null
    NoEntry = NoEntry
    NoPath = NoPath
    NoRequest = NoRequest
    AssetUses = {}
    MainThread = main
    WorkerCount = 1
INVARIANTS
    ContentTypeOK
    HandleKeepsAsset
    CountMatches
    UnloadedWhenUnreferenced
    PendingIsInFlight
    UnavailableIsPending
    UsesComplete
PROPERTIES
    PollEnds
    AsyncCompletes
