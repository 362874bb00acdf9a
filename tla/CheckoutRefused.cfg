SPECIFICATION Spec

CONSTANTS
  Calls = {c1, c2, c3}
  Baskets <- MCBaskets
  DefaultAtInsert = TRUE
  None = None

SYMMETRY Symmetry
CHECK_DEADLOCK FALSE

INVARIANTS
  NewIsDraft
