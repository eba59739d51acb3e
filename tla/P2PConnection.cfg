CONSTANTS
  MaxFailures = 3
  Faults = {"close", "late_end", "slow_renewal"}
SPECIFICATION LiveSpec
CHECK_DEADLOCK FALSE
INVARIANTS
  TypeOK
  NotStranded
PROPERTIES
  StaysClosed
  LossNoticed
  Reconnects
