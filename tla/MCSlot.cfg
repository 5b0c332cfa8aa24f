CONSTANTS
  Pages = {g1, g2}
  NoPage = NoPage
  Jobs = {j1, j2}
  NoJob = NoJob
  MaxRevision = 5
  MaxFaults = 2
SPECIFICATION Spec
INVARIANTS
  SlotTypeOK
  OwnersHaveSessions
PROPERTIES
  OnlyTheOwnerCommands
CHECK_DEADLOCK FALSE
