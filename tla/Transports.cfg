CONSTANTS
  MaxCalls = 2
  MaxPeers = 2
  Mixes <- MCMixes
  MaxStarts = 2
  AcceptSlots = 1
  REAPING_CAPACITY = 1
  MAX_ADMITTED = 1
  BurstSize = 2
  MaxFrames = 4
  TagSpan = 3
  TicketSpan = 7
  MaxReproofs = 1
  MaxStalled = 1
SPECIFICATION TransportsSpec
INVARIANTS TransportsSafe
PROPERTIES StopAwaitsNoConnect NothingWaits HoldEnds
CHECK_DEADLOCK FALSE
