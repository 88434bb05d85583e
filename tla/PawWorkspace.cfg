SPECIFICATION WorkspaceSpec
CONSTANTS
  NumFiles = 2
  Changes <- MCChanges
  MaxSlices = 2
  MaxCheckpoints = 1
  MaxEdits = 1
  MaxPasses = 2
  MaxCrashes = 1
INVARIANTS
  LostOnlyWhenRaced
  
  
  RefusedOnlyIfWritten
CHECK_DEADLOCK FALSE
