CONSTANTS
  Sessions = {1, 2, 3, 4, 5, 6}
  MaxTransports = 2
  MaxFailures = 1
  Faults = {"close", "reopen"}
SPECIFICATION Spec
CHECK_DEADLOCK FALSE
INVARIANTS
  RefreshPlanned
