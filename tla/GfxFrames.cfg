SPECIFICATION Spec
CONSTANTS
    Main = main
    Helpers = {h1}
    Resources = {r1}
    RenderPasses = {}
    NoList = NoList
    max_frames_in_flight = 2
    max_lifetime = 1
    MaxLists = 1
    Uses = {}
INVARIANTS
    PendingIntact
    FenceReady
    NoLostSubmission
PROPERTY KeepsLifetimes
\* the device may be destroyed
CHECK_DEADLOCK FALSE
