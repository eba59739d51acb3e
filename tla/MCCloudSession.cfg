SPECIFICATION Spec
CONSTANTS
  Locks = {l1, l2}
  Faults = {}
  Bounds <- MCBounds
INVARIANTS TypeOK CloudShown PushOnce LocksServed
CHECK_DEADLOCK FALSE
