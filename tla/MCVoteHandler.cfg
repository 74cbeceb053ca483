SPECIFICATION Spec
CONSTANTS
  Movies = {m1}
  Fingerprints = {f1, f2}
  Categories = {solo, couple}
  Requests = {r1, r2}
  ReleaseDays = {0, 1}
  VotingDays = 1
  MaxDay = 2
  MaxFaults = 1
  None = None
  Invalid = Invalid
SYMMETRY Symmetric
INVARIANTS
  TypeOK
  TalliesTrailVotes
  TalliesExactWithoutFaults
  AcknowledgedOnceAndCounted
  AnswersMatchDatabase
PROPERTIES
  SealedResultIsFinal
  LedgerSpec
