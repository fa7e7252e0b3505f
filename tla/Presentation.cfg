SPECIFICATION PresentationSpec
CONSTANTS
    FramesInFlight = 2
    MaxLifetime = 4
    SetsPerPool = 2
    v1 = v1
    v2 = v2
    Views = {v1, v2}
    Framebuffers = {f1, f2, f3}
    Sets = {s1, s2}
    Null = Null
    Scopes <- DrawOrBind
    Images = {i1, i2, i3}
    NoImage = NoImage
    WindowScopes <- Window
INVARIANTS
    PresentationTypeOK
    FramebuffersExist
    SetsIntact
    FoundIsCurrent
    LayoutKnown
PROPERTY
    PresentedIsDrawn
CHECK_DEADLOCK FALSE
