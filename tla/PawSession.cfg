SPECIFICATION SessionSpec
CONSTANTS
  p1 = p1
  p2 = p2
  s1 = s1
  s2 = s2
  Procs <- TwoProcs
  Host <- OneHost
  Refreshers <- NoRefreshers
  MaxAttempts = 2
  MayExpire = TRUE
  MaxCrashes = 1
  NoLock = NoLock
  SliceIds <- TwoSlices
  Plans <- TwoSlicePlan
  BlockedCodes <- MCBlockedCodes
  NoSlice = NoSlice
  NoReason = NoReason
  WorkerChanges <- BothChanges
  NoJob = NoJob
INVARIANTS
  JournalBeforeReview
  ReportOnlyWhenAllDone
  EvidenceNotAhead
PROPERTY
  AtomicUnlessRaced
CONSTRAINT
  NotRacedYet
SYMMETRY
  ProcSymmetry
