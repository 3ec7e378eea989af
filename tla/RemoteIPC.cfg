\* Two requests of one child: their answers may overtake each other.
SPECIFICATION Spec
CONSTANTS
  Children = {c1}
  Requests = {r1, r2}
  ChildOf <- MCChildOf
  MaxAttached = 2
INVARIANTS
  CrashNeedsTwoAnswers
PROPERTIES
  ImplementsRemoteRequest
  EveryRequestIsAnswered
\* Once the child is gone nothing has to happen.
CHECK_DEADLOCK FALSE
