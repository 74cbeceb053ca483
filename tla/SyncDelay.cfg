SPECIFICATION Spec
CONSTANTS
  a = a
  b = b
  x = x
  c = c
  old = old
  new = new
  Ids = {a, b, x, c}
  Versions = {old, new}
  Catalogues <- MCCatalogues
  Identified <- MCIdentified
  PageSize = 2
  Concurrency = 2
  StartSlots = {2, 3}
  MaxBatch = 3
  MaxChanges = 1
  MaxFaults = 1
  None = None
INVARIANT NextMondayIsWithinAWeek
CHECK_DEADLOCK FALSE
