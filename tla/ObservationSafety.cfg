SPECIFICATION Spec
CONSTANTS
  q1 = q1
  q2 = q2
  h1 = h1
  h2 = h2
  v1 = v1
  v2 = v2
  p1 = p1
  s1 = s1
  s2 = s2
  s3 = s3
  Query = {q1, q2}
  Home = {h1, h2}
  Version = {v1, v2}
  Person = {p1}
  Search = {s1, s2, s3}
  OwnerOf <- Owners
  ScopeOf <- Scopes
  Wants <- Wanted
  Rank <- Ranks
  Datasets <- Results
  Cap = 1
  Retention = 1
  MaxRuns = 3
  MaxDays = 2
  MaxCrashes = 1
  MaxEdits = 1
INVARIANTS
  TypeOK
  SilenceIsSettledAtStart
  NewsOnlyOnce
  OneAlertPerEvent
  CapHolds
PROPERTIES
  ReplaySaysTheSame
  ProcessedIsAnswered
CHECK_DEADLOCK FALSE
