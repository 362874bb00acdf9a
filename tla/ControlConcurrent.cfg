SPECIFICATION Spec

CONSTANTS
  Customers = {c1}
  Invoices = {i1, i2}
  Keys = {k1, k2}
  Requests = {r1, r2, r3, r4}
  None = None
  MaxInFlight = 4

SYMMETRY Symmetry
CHECK_DEADLOCK FALSE

INVARIANTS
  TypeOK
  IssuedWasMailed
  DraftIsUnbilled
  BooksBalance
  OneCallPerKey
  AnswersHold
