\* Two uses show a reuse after either outcome, and two chunks repeat "progress".
SPECIFICATION Spec
CONSTANTS
  MaxSends = 2
  MaxChunks = 2
INVARIANTS
  NativeStaysOut
  EventOrder
  AnnouncedAsAnswered
PROPERTIES
  EverySendEnds
\* A request that is over, and cannot be used again, has nothing left to do.
CHECK_DEADLOCK FALSE
