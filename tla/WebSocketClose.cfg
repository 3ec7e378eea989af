SPECIFICATION Spec
CONSTANTS
  Sends = 2
  Connections = 2
INVARIANTS
  CloseTakesOriginal
CHECK_DEADLOCK FALSE
