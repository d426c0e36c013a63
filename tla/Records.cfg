CONSTANTS
  Psks <- MCPsks
  Left <- MCLeft
  MaxRecords = 2
  MaxOpen = 1
  Free = Free
  MaxChanges = 2
  MaxFaults = 1
SPECIFICATION MCStoreSpec
INVARIANTS StoreInv
PROPERTIES KeepsBook OwedIsWritten
CHECK_DEADLOCK FALSE
