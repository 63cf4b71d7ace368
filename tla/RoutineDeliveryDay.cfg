SPECIFICATION Spec
CONSTANTS
  m1 = m1
  m2 = m2
  h1 = h1
  h2 = h2
  Message = {m1, m2}
  Listing = {h1, h2}
  Announces <- Distinct
  Notice = Notice
  Outage = Outage
  MaxDay = 1
  Established = TRUE
  WantsNotices = TRUE
  Peers = {"test", "incremental"}
  MaxCrashes = 1
  MaxFaults = 1
  MaxEdits = 0
  Nothing = Nothing
INVARIANTS
  OnePushADay
CHECK_DEADLOCK FALSE
