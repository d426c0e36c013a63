CONSTANTS
    OrdinalSpan = 16
    FirstOrdinal = 14
    EventCapacity = 2
    ListRoom = 2
    MaxMessages = 2
    MaxClears = 1
    MaxTeardowns = 2
    MaxStops = 2
    CHUNK_UNITS = 2
    WriteUnits = {1, 3}
    CaptureRoom = 2
    OUTBOUND_RING_ITEM_COUNT = 1
    MaxUnits = 3
    MaxEvents = 3
    MaxOpenings = 2
    MaxPeers = 2
    MaxCleanups = 1
    Depths <- MCDepths
SPECIFICATION AudioSpec
INVARIANTS
    AwaitingIsCurrent
    HoldMatchesStream
    StoppedIsClosed
    SourceSafe
PROPERTIES
    WritesOnlyWhileOpenOrTornDown
    StopReturns
    NothingIsKept
CHECK_DEADLOCK FALSE
