SPECIFICATION BuildSpec
CONSTANTS
  s1 = s1
  s2 = s2
  SliceIds <- TwoSlices
  Plans <- TwoSlicePlan
  BlockedCodes <- MCBlockedCodes
  NoSlice = NoSlice
  NoReason = NoReason
  MaxSteps <- MCMaxSteps
  MaxLoops = 2
  MaxMeddling <- MCMaxMeddling
  MaxCrashes = 0
INVARIANTS
  NoFalseDone
CHECK_DEADLOCK FALSE
