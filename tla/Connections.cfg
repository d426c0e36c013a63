CONSTANTS
  PAIRING_ROUND_LIMIT = 2
  WINDOW_FAILED_ATTEMPT_LIMIT = 2
  CodeMethods = {"dynamic", "static"}
  StopInCallback = FALSE
  MaxHandshakes = 2
  MaxActivations = 2
  MaxRounds = 3
  MaxNotes = 2
  RoleNames = {"player", "metadata"}
  ClockedRoles = {"player"}
  MaxSnapshots = 3
SPECIFICATION ConnectionsSpec
INVARIANTS ConnectionsSafe
PROPERTIES SidsFresh CodeWithdrawn HeldIsSent
CHECK_DEADLOCK FALSE
