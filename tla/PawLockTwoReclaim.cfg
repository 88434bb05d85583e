SPECIFICATION LockSpec
CONSTANTS
  p1 = p1
  p2 = p2
  p3 = p3
  Procs <- MCProcs
  Host <- OneHost
  Refreshers <- NoRefreshers
  MaxAttempts = 5
  MayExpire = FALSE
  MaxCrashes = 1
  NoLock = NoLock
INVARIANT
  MutualExclusion
CHECK_DEADLOCK FALSE
