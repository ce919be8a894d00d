SPECIFICATION Spec
CONSTANTS
  StartPts = 1
  Events <- ThreeEvents
  PtsCount <- ThreeCounts
  Numbered <- ThreeNumbered
  Fetchers = {f1, f2}
  MayRestart = TRUE
  MaxFaults = 1
INVARIANTS
  TypeOK
  LossIsAtRisk
  RecoveryScheduled
SYMMETRY FetcherSymmetry
