SPECIFICATION FairSpec

CONSTANTS
  Requests = {r1, r2, r3}
  MaxRetries = 3
  Capacity = 2

CHECK_DEADLOCK FALSE

INVARIANTS
  TypeOK
  StopsClean
  OneEngine
  NoUseAfterClose

PROPERTIES
  HandlerGetsOn
  StartsAndStops
