SPECIFICATION Spec
CONSTANTS
  City = {c1, c2}
  Budget = 5
  MaxPages = 2
  MaxCrashes = 0
  MaxEdits = 0
  NoCity = NoCity
  NoPool = NoPool
  NoMeta = NoMeta
INVARIANT FailureStopsDelivery
CHECK_DEADLOCK FALSE
