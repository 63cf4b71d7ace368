SPECIFICATION Spec
CONSTANTS
  q1 = q1
  q2 = q2
  Query = {q1, q2}
  Threshold = 2
  Cooldown = 1
  Interval = 2
  Hour = 1
  LeaseTime = 1
  MaxStarts = 2
  MaxFailures = 2
  MaxCrashes = 1
  MaxFaults = 1
  None = None
SYMMETRY Queries
INVARIANTS
  TypeOK
PROPERTIES
  NoStartWhileOpen
  RecoveryIsNews
  KeepsPromise
