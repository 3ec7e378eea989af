\* The shipped mock socket, which always borrows the handle.
SPECIFICATION Spec
CONSTANTS
  Attempts = 2
  MaxPushes = 1
  MaxHeads = 0
  Builds <- MCShippedBuilds
PROPERTIES
  DestroyTakesOriginal
CHECK_DEADLOCK FALSE
