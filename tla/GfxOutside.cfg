SPECIFICATION Spec
CONSTANTS
    Main = main
    Helpers = {}
    Resources = {r1}
    RenderPasses = {p1}
    NoList = NoList
    max_frames_in_flight = 2
    max_lifetime = 1
    MaxLists = 1
    Uses = {"outside"}
INVARIANT NoLostSubmission
\* the device may be destroyed
CHECK_DEADLOCK FALSE
