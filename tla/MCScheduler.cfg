CONSTANTS
  ItemCount = 2
  PageMax = 1
  Tokens = {t1, t2}
  NoToken = NoToken
  Providers = {p1}
  NoProvider = NoProvider
  MaxBatches = 2
  MaxAttempts = 2
  MaxPositions = 2
  MaxGeneration = 2
  MaxFaults = 1
SPECIFICATION Spec
INVARIANTS
  SchedTypeOK
  OnePaidRequest
  RequestsAreCharged
SYMMETRY TokenSymmetry
CHECK_DEADLOCK FALSE
