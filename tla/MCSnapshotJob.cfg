SPECIFICATION FairSpec
CONSTANTS
  Movies = {1, 2}
  Fingerprints = {f1}
  Categories = {solo}
  ReleaseDays = {0, 1}
  MonthDays = 1
  Voted = {1}
  MaxDay = 2
  MaxFaults = 2
  TestMode = TRUE
  None = None
INVARIANTS
  TypeOK
  RowsTrailTallies
PROPERTIES
  RowsOnlyGrow
  CompletedRunCoversMonth
  MonthGetsSnapshotted
