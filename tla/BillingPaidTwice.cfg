SPECIFICATION Spec

CONSTANTS
  Customers = {c1}
  Invoices = {i1}
  Keys = {k1, k2}
  Requests = {r1, r2, r3, r4}
  None = None
  MaxInFlight = 2

CHECK_DEADLOCK FALSE
SYMMETRY Symmetry

INVARIANT
  NotPaidTwice
