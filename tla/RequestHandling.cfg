SPECIFICATION Spec
CONSTANTS
  r1 = r1
  r2 = r2
  l1 = l1
  Requests <- MCRequests
  Listeners <- MCListeners
  Answers = {"response", "nothing"}
  Throwables = {"interceptorError", "exception"}
  ExceptionListeners = 1
INVARIANTS
  TypeOK
  UndefinedMeansAllReturned
  SentinelsAccountedFor
  AnswerDecides
PROPERTIES
  AnsweredRequestsWakeUp
  EveryRequestSettles
CHECK_DEADLOCK FALSE
