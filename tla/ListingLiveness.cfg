SPECIFICATION FairListingSpec
CONSTANTS
  Movies = {m1}
  Fingerprints = {f1, f2}
  Categories = {solo}
  Requests = {r1}
  Readers = {q1}
  Viewers = {v1}
  SharedCache = TRUE
  Keys = {f1}
  ReleaseDays = {0}
  VotingDays = 1
  MonthDays = 1
  MaxDay = 1
  MaxFaults = 1
  None = None
  Invalid = Invalid
INVARIANTS
  ShownChoiceIsCounted
  FreshUnlessOvertaken
PROPERTIES
  CacheConverges
  EveryRequestAnswered
  CountersCatchUp
