SPECIFICATION FairSpec
CONSTANTS
  TotalParts = 3
  Purges = 1
  StartWindow = 1
  MaxWindow = 1
  MaxSessions = 2
  RemoveAfterTimeouts = 2
  Ring = 2
  RequestRetries = 2
  MaxFaults = 2
  Limits = {2, 3}
  Empty = {2}
INVARIANTS
  ChargesAccount
  WaitersHaveWaker
PROPERTIES
  FileSpec
  TransferEnds
CHECK_DEADLOCK FALSE
