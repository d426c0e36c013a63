CONSTANTS
    OrdinalSpan = 16
    FirstOrdinal = 14
    EventCapacity = 8
    ListRoom = 3
    MaxMessages = 2
    MaxClears = 0
    MaxTeardowns = 1
    MaxStops = 0
SPECIFICATION Spec
INVARIANTS
    WritesOnlyWhileOpen
