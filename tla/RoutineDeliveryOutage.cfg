SPECIFICATION Spec
CONSTANTS
  m1 = m1
  m2 = m2
  h1 = h1
  h2 = h2
  Message = {m1}
  Listing = {h1}
  Announces <- Single
  Notice = Notice
  Outage = Outage
  MaxDay = 1
  Established = TRUE
  WantsNotices = TRUE
  Peers = {"test", "incremental"}
  MaxCrashes = 0
  MaxFaults = 0
  MaxEdits = 0
  Nothing = Nothing
INVARIANTS
  OutageLeavesDayOpen
CHECK_DEADLOCK FALSE
