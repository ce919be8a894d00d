SPECIFICATION FairSpec
CONSTANTS
  Req = {r1}
  Svc = {}
  MsgIds = {1, 2, 3, 4, 5, 6, 7, 8}
  Ack = Ack
  None = None
  Infinity = Infinity
  AutoReconnect = TRUE
  ErrorHandler = TRUE
  FreshKey = TRUE
  ServerAcks = FALSE
  MayDisconnect = TRUE
  MayConnect = TRUE
  RequestRetries = 1
  ReconnectRetries = 1
  ConnectionRetries = 2
  MaximumLength = 1
  MaxPacket = 1
  MaxFaults = 3
PROPERTIES
  RejectedKeyReplaced
  StaysDown
  ReconnectEnds
CHECK_DEADLOCK FALSE
