CONSTANTS
  ItemCount = 2
  PageMax = 2
  Tokens = {t1, t2, t3}
  NoToken = NoToken
  Providers = {p1}
  NoProvider = NoProvider
  MaxBatches = 2
  MaxAttempts = 1
  MaxPositions = 2
  MaxGeneration = 2
  MaxFaults = 1
SPECIFICATION Spec
PROPERTIES
  ExhaustedGenerationContinues
SYMMETRY TokenSymmetry
CHECK_DEADLOCK FALSE
