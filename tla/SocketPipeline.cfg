SPECIFICATION Spec
CONSTANTS
  MaxWrites = 3
  MaxHeads = 2
  MaxPushes = 3
INVARIANTS
  CallbackOnce
  PassedOnComplete
  ListenersFirst
PROPERTIES
  CallbacksCome
\* A socket that is destroyed, or whose request is over, has nothing left to do.
CHECK_DEADLOCK FALSE
