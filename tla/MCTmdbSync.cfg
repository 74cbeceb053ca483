SPECIFICATION FairSpec
CONSTANTS
  a = a
  b = b
  x = x
  c = c
  old = old
  new = new
  Ids = {a, b, x, c}
  Versions = {old, new}
  Catalogues <- MCCatalogues
  Identified <- MCIdentified
  PageSize = 2
  Concurrency = 2
  StartSlots = {2}
  MaxBatch = 3
  MaxChanges = 1
  MaxFaults = 1
  None = None
INVARIANTS
  TypeOK
  NoWorkerOutlivesSync
  FirstSyncOnMonday
PROPERTIES
  SteadyDiscoveryIsComplete
  SuccessMeansStored
  SyncEnds
  CatchesUpWithTmdb
CHECK_DEADLOCK FALSE
