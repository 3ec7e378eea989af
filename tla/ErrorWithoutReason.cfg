SPECIFICATION Spec
CONSTANTS
  r1 = r1
  r2 = r2
  l1 = l1
  Requests <- MCRequests
  Listeners <- MCListeners
  Answers = {"response", "nothing"}
  Throwables = {"exception"}
  ExceptionListeners = 0
INVARIANTS
  ErrorWithIsHonoured
CHECK_DEADLOCK FALSE
