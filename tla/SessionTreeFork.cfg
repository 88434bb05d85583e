SPECIFICATION TreeSpec
CONSTANTS
  MaxEntries = 6
  MaxMoves = 1
  MaxTears = 0
INVARIANTS
  ForkKeepsContext
CHECK_DEADLOCK FALSE
