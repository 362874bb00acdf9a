SPECIFICATION FairSpec

CONSTANTS
  Entries = {1}
  Dispatchers = {d1}
  Poison = {}
  BatchSize = 2
  LogCallRaises = TRUE
  DbFails = FALSE
  MaxAttempts = 1
  MaxFaults = 0
  None = None

CHECK_DEADLOCK FALSE

PROPERTIES
  EventuallyMailed
