SPECIFICATION Spec

CONSTANTS
  Entries = {1, 2, 3}
  Dispatchers = {d1, d2}
  Poison = {2}
  BatchSize = 2
  LogCallRaises = FALSE
  DbFails = TRUE
  MaxAttempts = 2
  MaxFaults = 1
  None = None

CHECK_DEADLOCK FALSE
SYMMETRY Symmetry

INVARIANTS
  TypeOK
  ProcessedWasMailed

PROPERTIES
  DeliversAtLeastOnce
