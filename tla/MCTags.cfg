CONSTANTS
  Devices = {d1, d2}
  NoDevice = NoDevice
  Gists = {g1, g2, g3}
  NoGist = NoGist
  Edits = {"addAgentTags", "upsertMeta"}
  MaxTime = 2
  MaxJobs = 2
  MaxFaults = 1
SPECIFICATION FairSyncSpec
INVARIANTS
  SyncTypeOK
  UnsentIsDirty
PROPERTIES
  SkippedPushHadNothing
  PullGoesForward
  JobsLeaveTheQueue
CHECK_DEADLOCK FALSE
