SPECIFICATION Spec
CONSTANTS
  Capacity = 3
  ReadSize = 1
  MaxInput = 3
  MaxWrites = 3
INVARIANTS NoLostWakeup Alternates
PROPERTIES BothMove
CHECK_DEADLOCK FALSE
