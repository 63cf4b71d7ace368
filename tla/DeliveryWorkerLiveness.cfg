SPECIFICATION FairSpec
CONSTANTS
  w1 = w1
  w2 = w2
  h1 = h1
  r1 = r1
  r2 = r2
  Worker = {w1}
  Row = {r1}
  Listing = {h1}
  IdentityOf <- OneRow
  MaxAttempts = 2
  MaxMessages = 2
  RetryBase = 1
  MaxDelay = 2
  RetryAfters = {2}
  StaleAfter = 1
  QuietLeft = 1
  MaxCount = 3
  MaxCrashes = 1
  MaxEdits = 2
  MaxFaults = 1
  NoOne = NoOne
  NoRow = NoRow
  Peer = Peer
PROPERTIES
  BankCatchesUp
  OrphansSurface
  AlertsDrain
CHECK_DEADLOCK FALSE
