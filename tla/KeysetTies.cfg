SPECIFICATION Spec
CONSTANTS
  Ids = {1, 2, 3}
  Values = {0, 1}
  Limits = {1, 2}
  MaxMoves = 0
  MaxRestarts = 0
  MaxSeen = 8
INVARIANT WalkIsComplete
CHECK_DEADLOCK FALSE
