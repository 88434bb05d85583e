SPECIFICATION FairLockSpec
CONSTANTS
  p1 = p1
  p2 = p2
  p3 = p3
  Procs <- MCProcs
  Host <- TwoHosts
  Refreshers <- MCRefreshers
  MaxAttempts = 5
  MayExpire = TRUE
  MaxCrashes = 2
  NoLock = NoLock
INVARIANTS
  LockTypeOK
  ExclusiveUnlessRaced
  NoOrphanLock
PROPERTIES
  AcquireReturns
  DeadLockReclaimed
