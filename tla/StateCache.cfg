SPECIFICATION Spec
CONSTANTS
  Entity = {e1, e2}
  MaxTime = 5
  MaxConn = 2
INVARIANTS TypeOK Follows
PROPERTIES NoEntryGoesBack RightEntryStays LossEndsReady
CHECK_DEADLOCK FALSE
