\* Three addresses: two replacements of the handle; three pushes are enough to
\* tell one "connect" listener from a growing number of them.
SPECIFICATION Spec
CONSTANTS
  Attempts = 3
  MaxPushes = 3
  MaxHeads = 2
  Builds <- MCBuilds
INVARIANTS
  TypeOK
  OwnerKeepsHandle
  FaultsNeedTheAlias
  ListenersBounded
  NoOrphanHandle
  ErrorTakesOriginal
PROPERTIES
  DestroyIsAcknowledged
  CloseReachesConsumer
\* A socket that is closed has nothing left to do.
CHECK_DEADLOCK FALSE
