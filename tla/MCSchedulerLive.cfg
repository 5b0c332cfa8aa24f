CONSTANTS
  ItemCount = 2
  PageMax = 2
  Tokens = {t1, t2}
  NoToken = NoToken
  Providers = {p1}
  NoProvider = NoProvider
  MaxBatches = 1
  MaxAttempts = 1
  MaxPositions = 2
  MaxGeneration = 2
  MaxFaults = 1
SPECIFICATION FairSpec
INVARIANTS
  PlannedPageIsTheHead
PROPERTIES
  LedgerSpec
  OnlyFreshJobsAreCancelled
  RequestsCoverTheLease
  AnalysisEnds
CHECK_DEADLOCK FALSE
