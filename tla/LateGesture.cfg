CONSTANTS
  PAIRING_ROUND_LIMIT = 2
  WINDOW_FAILED_ATTEMPT_LIMIT = 2
  CodeMethods = {"dynamic", "static"}
  StopInCallback = FALSE
  MaxHandshakes = 2
  MaxActivations = 2
  MaxRounds = 3
  MaxNotes = 2
SPECIFICATION PairingSpec
PROPERTIES OnlyTheHandshake
CHECK_DEADLOCK FALSE
