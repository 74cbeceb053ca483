SPECIFICATION FairSpec
CONSTANTS
  Ids = {1, 2, 3}
  Values = {0, 1}
  Limits = {1, 2}
  MaxMoves = 2
  MaxRestarts = 1
  MaxSeen = 6
INVARIANTS
  StableRowsSeenOnce
  DefaultOrder
  HandedOutCursorsAccepted
PROPERTY
  WalkEnds
CHECK_DEADLOCK FALSE
