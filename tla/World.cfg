SPECIFICATION LoopSpec
CONSTANTS
    MaxEntities = 3
    MaxChunks = 2
    Classes = {position, motion}
    ClassSize <- OneByte
    ChunkSize = 2
    v1 = v1
    v2 = v2
    Values = {v1, v2}
    None = None
    Position = position
    Motion = motion
    PositionOf <- Swap
    WorldUses = {}
    movement = movement
    object = object
    late = late
    mute = mute
    Tickables = {movement, object, late, mute}
    TickFlags <- SingleFlags
    CanTick = {movement, object, late}
    TickUses = {}
    System = movement
    Scopes <- EachInTurn
INVARIANTS
    LoopTypeOK
    FreeChunkHasRoom
    TickablesLive
    CalledOncePerFrame
PROPERTIES
    KeepsComponents
    EveryoneTicks
