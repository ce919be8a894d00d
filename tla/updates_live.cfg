SPECIFICATION FairSpec
CONSTANTS
  StartPts = 1
  Events <- TwoEvents
  PtsCount <- TwoCounts
  Numbered <- TwoNumbered
  Fetchers = {f1, f2}
  MayRestart = FALSE
  MaxFaults = 2
PROPERTIES
  GapCloses
