SPECIFICATION Spec
CONSTANTS
  Movies = {m1}
  Fingerprints = {f1, f2}
  Categories = {solo}
  Requests = {r1, r2}
  ReleaseDays = {0}
  VotingDays = 1
  MaxDay = 0
  MaxFaults = 1
  None = None
  Invalid = Invalid
INVARIANT RecordedVotesAreCounted
