CONSTANTS
    Channels = {1}
    Gated = {1}
    Parts = {0, 2}
    MaxTurns = 3
    MarkerMayFail = FALSE
    ExtraFrameDone = FALSE
    MaxBoundaries = 2
    MaxFrames = 1
SPECIFICATION RolesSpec
INVARIANTS
    RolesSafe
PROPERTIES
    NothingStays
CHECK_DEADLOCK FALSE
