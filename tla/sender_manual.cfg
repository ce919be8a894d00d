SPECIFICATION Spec
CONSTANTS
  Req = {r1, r2}
  Svc = {}
  MsgIds = {1, 2, 3, 4, 5, 6, 7, 8}
  Ack = Ack
  None = None
  Infinity = Infinity
  AutoReconnect = FALSE
  ErrorHandler = FALSE
  FreshKey = FALSE
  ServerAcks = FALSE
  MayDisconnect = TRUE
  MayConnect = FALSE
  RequestRetries = 2
  ReconnectRetries = Infinity
  ConnectionRetries = Infinity
  MaximumLength = 1
  MaxPacket = 2
  MaxFaults = 2
INVARIANTS
  SentIsAnswerable
SYMMETRY RequestSymmetry
CHECK_DEADLOCK FALSE
