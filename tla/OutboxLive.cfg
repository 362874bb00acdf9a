SPECIFICATION FairSpec

CONSTANTS
  Entries = {1, 2, 3}
  Dispatchers = {d1}
  Poison = {2}
  BatchSize = 2
  LogCallRaises = FALSE
  DbFails = FALSE
  MaxAttempts = 2
  MaxFaults = 1
  None = None

CHECK_DEADLOCK FALSE

PROPERTIES
  EventuallyProcessed
