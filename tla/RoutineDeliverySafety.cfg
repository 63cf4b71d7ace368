SPECIFICATION Spec
CONSTANTS
  m1 = m1
  m2 = m2
  h1 = h1
  h2 = h2
  Message = {m1, m2}
  Listing = {h1}
  Announces <- Reworded
  Notice = Notice
  Outage = Outage
  MaxDay = 2
  Established = FALSE
  WantsNotices = FALSE
  Peers = {"test"}
  MaxCrashes = 1
  MaxFaults = 1
  MaxEdits = 2
  Nothing = Nothing
INVARIANTS
  TypeOK
  OneCopyPerAttempt
  LastLookHolds
  LedgerIsEarned
PROPERTIES
  KeepsPromise
CHECK_DEADLOCK FALSE
