SPECIFICATION Spec
CONSTANTS
  i1 = i1
  i2 = i2
  h1 = h1
  h2 = h2
  ann = ann
  bob = bob
  Id = {i1, i2}
  Listing = {h1, h2}
  Person = {ann, bob}
  MaxParts = 2
  MaxUpsets = 3
  MaxTurns = 2
  None = None
SYMMETRY Symmetry
INVARIANTS
  TypeOK
  
  EditsStopThePush
  RepeatsAreForgotten
  EnrolmentFollowsThePerson
CHECK_DEADLOCK FALSE
