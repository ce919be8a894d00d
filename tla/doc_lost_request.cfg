SPECIFICATION Spec
CONSTANTS
  Req = {r1, r2}
  Svc = {}
  MsgIds = {1, 2, 3, 4, 5, 6, 7, 8}
  Ack = Ack
  None = None
  Infinity = Infinity
  AutoReconnect = TRUE
  ErrorHandler = FALSE
  FreshKey = FALSE
  ServerAcks = FALSE
  MayDisconnect = FALSE
  MayConnect = FALSE
  RequestRetries = 1
  ReconnectRetries = Infinity
  ConnectionRetries = Infinity
  MaximumLength = 1
  MaxPacket = 1
  MaxFaults = 2
INVARIANTS
  TakenIsTracked
