SPECIFICATION Spec
CONSTANTS
  Count = 2
  Timeout = {3, 5, 100}
  MaxTime = 5
  MaxDue = 2
  None = None
CHECK_DEADLOCK FALSE
INVARIANTS
  TypeOK
  Ages
  NothingLingers
PROPERTIES
  NotEarly
