CONSTANTS
  Sessions = {1, 2, 3, 4, 5, 6}
  MaxTransports = 1
  MaxFailures = 1
  Faults = {"down_in_handoff"}
SPECIFICATION LiveSpec
CHECK_DEADLOCK FALSE
PROPERTIES
  HandoffKeepsConnected
