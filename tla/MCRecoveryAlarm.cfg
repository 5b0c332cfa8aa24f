CONSTANTS
  RowCount = 2
  ChunkMax = 1
  Tokens = {t1}
  NoToken = NoToken
  MaxEdits = 0
  MaxCrashes = 1
  MaxErrors = 0
SPECIFICATION Spec
INVARIANTS
  NextWakeArmed
CHECK_DEADLOCK FALSE
