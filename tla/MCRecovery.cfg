CONSTANTS
  RowCount = 3
  ChunkMax = 2
  Tokens = {t1}
  NoToken = NoToken
  MaxEdits = 1
  MaxCrashes = 1
  MaxErrors = 1
SPECIFICATION FairSpec
INVARIANTS
  RecoveryTypeOK
  AgentKeepsOut
  ChunksInOrder
  StatusMatchesRows
PROPERTIES
  PauseKept
  DecidedByReview
  ApplyEnds
CHECK_DEADLOCK FALSE
