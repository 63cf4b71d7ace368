SPECIFICATION FairSpec
CONSTANTS
  q1 = q1
  q2 = q2
  Query = {q1}
  Threshold = 2
  Cooldown = 1
  Interval = 2
  Hour = 1
  LeaseTime = 1
  MaxStarts = 2
  MaxFailures = 2
  MaxCrashes = 2
  MaxFaults = 2
  None = None
PROPERTIES
  PaidRunsAreProcessed
  OutageIsTold
  ProbeResolvesUncrashed
