\* Four calls: a redirect away, back, and away again.
SPECIFICATION Spec
CONSTANTS
  Origins = {home, other}
  MaxCalls = 4
INVARIANTS
  CredentialsStay
PROPERTIES
  EveryCallSettles
\* A fetch() that has settled is over.
CHECK_DEADLOCK FALSE
