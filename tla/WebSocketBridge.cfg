SPECIFICATION Spec
CONSTANTS
  Sends = 2
  Connections = 2
INVARIANTS
  TypeOK
  AppMessagesInOrder
  AppMessagesSentOnce
  MockMessagesInOrder
  QuietAfterClose
  LoneOriginalCloses
  ServerCloseIsQuiet
PROPERTIES
  ImplementsClientSocket
CHECK_DEADLOCK FALSE
