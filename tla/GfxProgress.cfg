SPECIFICATION FairSpec
CONSTANTS
    Main = main
    Helpers = {}
    Resources = {r1}
    RenderPasses = {p1, p2}
    NoList = NoList
    max_frames_in_flight = 2
    max_lifetime = 1
    MaxLists = 1
    Uses = {}
INVARIANTS
    TypeOK
    NoUseAfterFree
PROPERTIES
    FramesStart
    ExpiredAreFreed
\* the device may be destroyed
CHECK_DEADLOCK FALSE
