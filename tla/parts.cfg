SPECIFICATION PartsSpec
CONSTANTS
  Dcs = {2, 4}
  DefaultDc = 2
  Tasks = {a, b}
  MaxKeys = 4
  MaxCrashes = 2
  MaxId = 4
  BufferSize = 2
  MaxDeliveries = 2
  MarkedIds = {"p1", "p2", "p3"}
  Capacity = 2
  Ttl = 1
  MaxTime = 3
  States = {1, 2, 3, 4, 5}
  Ordered = {1, 2, 3}
  Service = {4}
  Binds = {5}
  MaximumLength = 1
  MaxClock = 2
  MaxOffset = 1
  MaxFaults = 2
  UserNumbers = {1, 2}
  ChatNumbers = {1}
  ChannelNumbers = {1}
  SelfNumber = 2
  MaxSeen = 2
  MaxNames = 1
INVARIANTS
  OrderIsKept
  ReceivedOnce
  IterationIsExact
  EventsAreTold
  LeastUsedGoes
  KeysAgree
  KeysFitDcs
  ReadsBack
  ResponsesMatch
  EntitiesMatch
CHECK_DEADLOCK FALSE
