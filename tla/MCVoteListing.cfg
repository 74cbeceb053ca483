SPECIFICATION ListingSpec
CONSTANTS
  Movies = {m1}
  Fingerprints = {f1, f2}
  Categories = {solo}
  Requests = {r1, r2}
  Readers = {q1}
  Viewers = {}
  SharedCache = FALSE
  Keys = {f1, None}
  ReleaseDays = {0}
  VotingDays = 1
  MonthDays = 1
  MaxDay = 0
  MaxFaults = 1
  None = None
  Invalid = Invalid
SYMMETRY Symmetric
INVARIANTS
  ListingTypeOK
  FreshUnlessOvertaken
  StaleOnlyByOmission
