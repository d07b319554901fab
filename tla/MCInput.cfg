CONSTANTS
  Client <- MCClient
  Groups <- MCGroups
  Mode <- MCMode
  Parts <- MCParts
  SocketRoom = 3
CHECK_DEADLOCK FALSE
SPECIFICATION FairInputSpec
INVARIANTS
  InputWhole
PROPERTIES
  ServedThoughTerminalFull
  SentIsDelivered
