SPECIFICATION Spec
CONSTANTS
  s1 = s1
  s2 = s2
  s3 = s3
  SliceIds <- MCSliceIds
  Plans <- MCPlans
  BlockedCodes <- MCBlockedCodes
  NoSlice = NoSlice
  NoReason = NoReason
INVARIANTS
  TypeOK
  HandBuiltRecordsAreValid
  SliceOrderConserved
  CurrentIffInSlice
  FinalReportMeansAllDone
  CompletedPassedEveryStage
PROPERTIES
  CompletedNeverRedone
  BlockingLosesNothing
SYMMETRY SliceSymmetry
