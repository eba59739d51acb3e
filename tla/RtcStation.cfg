CONSTANTS
  Sessions = {1, 2, 3, 4, 5, 6, 7}
  MaxTransports = 1
  MaxFailures = 5
  Faults = {"close"}
SPECIFICATION LiveSpec
CHECK_DEADLOCK FALSE
INVARIANTS
  TypeOK
  ConnectedWorks
  NoLeakedSession
  NotStranded
  RefreshPlanned
PROPERTIES
  Reconnects
