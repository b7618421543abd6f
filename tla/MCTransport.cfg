SPECIFICATION Spec
CONSTANTS
  Conns = {c1, c2, c3}
  None = None
  Limit <- MCLimit
  WebSocketLimit = 3
  SseLimit = 2
  MaxCalls = 4
INVARIANTS
  TransportTypeOK
  NeverStranded
  NoLeakedConnection
  StatusIsTrue
PROPERTIES
  ImplementsLadder
  AttemptsSettle
CHECK_DEADLOCK FALSE
