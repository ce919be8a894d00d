SPECIFICATION Spec
CONSTANTS
  Req = {r1, r2}
  Svc = {s1}
  MsgIds = {1, 2, 3, 4, 5, 6, 7, 8, 9, 10, 11, 12}
  Ack = Ack
  None = None
  Infinity = Infinity
  AutoReconnect = TRUE
  ErrorHandler = FALSE
  FreshKey = FALSE
  ServerAcks = TRUE
  MayDisconnect = FALSE
  MayConnect = FALSE
  RequestRetries = 1
  ReconnectRetries = Infinity
  ConnectionRetries = Infinity
  MaximumLength = 1
  MaxPacket = 1
  MaxFaults = 1
INVARIANTS
  SentIsTracked
SYMMETRY RequestSymmetry
