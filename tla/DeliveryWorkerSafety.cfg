SPECIFICATION Spec
CONSTANTS
  w1 = w1
  w2 = w2
  h1 = h1
  r1 = r1
  r2 = r2
  Worker = {w1, w2}
  Row = {r1, r2}
  Listing = {h1}
  IdentityOf <- SameIdentity
  MaxAttempts = 2
  MaxMessages = 2
  RetryBase = 1
  MaxDelay = 1
  RetryAfters = {1}
  StaleAfter = 1
  QuietLeft = 1
  MaxCount = 2
  MaxCrashes = 1
  MaxEdits = 2
  MaxFaults = 1
  NoOne = NoOne
  NoRow = NoRow
  Peer = Peer
SYMMETRY Symmetry
INVARIANTS
  TypeOK
  AtMostOneCopy
  ReceiptsAreEarned
  LastLookHolds
  ReceiptGuardsListing
PROPERTIES
  OnlyOrphansAreStale
  KeepsPromise
CHECK_DEADLOCK FALSE
