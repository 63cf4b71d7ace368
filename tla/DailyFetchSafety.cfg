SPECIFICATION Spec
CONSTANTS
  City = {c1, c2}
  Budget = 5
  MaxPages = 2
  MaxCrashes = 2
  MaxEdits = 2
  NoCity = NoCity
  NoPool = NoPool
  NoMeta = NoMeta
INVARIANTS
  TypeOK
  BudgetHolds
  UnitsAreNotLost
  SweepsAreBounded
  CompleteIsHonest
CHECK_DEADLOCK FALSE
