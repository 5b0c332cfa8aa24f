CONSTANTS
  Accounts = {a1, a2}
  NoAccount = none
  Busy = {a1}
  Unscoped = {a2}
  Threads = {t1, t2}
  PageSize = 1
  BatchPages = 1
  RestartLimit = 1
  MaxVersion = 3
  MaxSwitches = 0
  MaxUses = 1
  MaxFaults = 0
SPECIFICATION WatchSpec
PROPERTIES
  SweptThreadsAreGone
