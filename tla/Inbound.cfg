CONSTANTS
  RingUnits = 13
  ItemLengths = {1, 2, 5}
  Slots = {0, 1}
  QuotaLimit = 1
  MaxAcquires = 3
  MaxBoundaries = 1
  MAX_ITEMS_PER_TICK = 1
  MaxMessages = 3
SPECIFICATION InboundPathSpec
INVARIANTS InboundSafe
PROPERTIES KeepsQueue HandsOverInOrder RoomComesBack MessagesInOrder EveryMessageProcessed
CHECK_DEADLOCK FALSE
