CONSTANTS
  ItemCount = 4
  PageMax = 3
  Tokens = {t1, t2}
  NoToken = NoToken
  Providers = {p1}
  NoProvider = NoProvider
  MaxBatches = 3
  MaxAttempts = 1
  MaxPositions = 5
  MaxGeneration = 2
SPECIFICATION LedgerSpec
INVARIANTS
  LedgerFrontier
  StatusMatchesCoverage
  WorklistIsAccepted
PROPERTIES
  SettledKept
  OutcomesComeFromTheLease
CHECK_DEADLOCK FALSE
