SPECIFICATION AgentSpec
CONSTANTS
  t1 = t1
  t2 = t2
  t3 = t3
  Texts = {t1, t2, t3}
  d1 = d1
  d2 = d2
  Drivers = {d1, d2}
  None = None
  SteeringMode = "one-at-a-time"
  FollowUpMode = "all"
  CallCounts = {2}
  MaxTurns = 2
  MaxRetries = 1
  MaxBash = 1
CONSTRAINT ThirdTextAlone
SYMMETRY AgentSymmetry
INVARIANTS
  QueuedNotStranded
  DeliveredOnce
  AloneRequestWellFormed
  
  RetryCounterSettles
  MirrorMatchesQueues
CHECK_DEADLOCK FALSE
