CONSTANTS
    OrdinalSpan = 16
    FirstOrdinal = 14
    EventCapacity = 8
    ListRoom = 2
    MaxMessages = 4
    MaxClears = 1
    MaxTeardowns = 0
    MaxStops = 0
SPECIFICATION Spec
INVARIANTS
    WritesOnlyWhileOpen
PROPERTIES
    NoAudioOfAnEndedStream
    PlaysAcknowledged
    SeekSparesNewAudio
