CONSTANTS
    MaxTime = 1
    MaxStates = 3
    MaxTeardowns = 2
    MaxStops = 1
    NoState = NoState
SPECIFICATION FairSpec
INVARIANTS
    TypeOK
    ShownIsCurrent
    StoppedIsCleared
PROPERTIES
    KeepsPromise
    Settles
