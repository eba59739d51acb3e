SPECIFICATION Spec
CONSTANTS
  Menus <- AllMenus
  Unserved <- KnownGaps
  MaxRequests = 2
  MaxChanges = 1
INVARIANTS TypeOK ShownIsActual Served Distinct
PROPERTY Contract
CHECK_DEADLOCK FALSE
