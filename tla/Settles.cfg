CONSTANTS
    OrdinalSpan = 16
    FirstOrdinal = 14
    EventCapacity = 8
    ListRoom = 3
    MaxMessages = 3
    MaxClears = 0
    MaxTeardowns = 1
    MaxStops = 1
SPECIFICATION FairSpec
PROPERTIES
    ListenerSettles
    HeaderWaitEnds
