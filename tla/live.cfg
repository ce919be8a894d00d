SPECIFICATION LiveSpec
CONSTANTS
  StartPts = 1
  LastPts = 3
  Fetchers = {1, 2}
  MaxFaults = 2
  BodyLength = 2
  Steps = 2
  Retries = 3
  MaxFrames = 4
  MaxFailures = 2
  PhoneIsFunction = TRUE
  MaxTries = 2
INVARIANTS
  FramesWhole
  RetryIsClean
  SignsIn
  ChannelIsWatched
PROPERTIES
  RecvEnds
  AskersSettle
  ScanIsNoticed
  GapCloses
CHECK_DEADLOCK FALSE
