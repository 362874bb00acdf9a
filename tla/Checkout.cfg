SPECIFICATION Spec

CONSTANTS
  Calls = {c1, c2, c3, c4}
  Baskets <- MCBaskets
  DefaultAtInsert = FALSE
  None = None

SYMMETRY Symmetry
CHECK_DEADLOCK FALSE

INVARIANTS
  TypeOK
  StoredIsTrue
  AnswerHolds
  QueryAgrees

PROPERTIES
  CancellationKept
