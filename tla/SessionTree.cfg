SPECIFICATION TreeSpec
CONSTANTS
  MaxEntries = 5
  MaxMoves = 1
  MaxTears = 1
INVARIANTS
  
  
  FileHoldsSession
  
CHECK_DEADLOCK FALSE
