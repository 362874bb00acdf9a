SPECIFICATION Spec

CONSTANTS
  Customers = {c1}
  Invoices = {i1, i2}
  Keys = {k1, k2}
  Requests = {r1, r2, r3, r4, r5}
  None = None
  MaxInFlight = 5

SYMMETRY Symmetry
CHECK_DEADLOCK FALSE

INVARIANTS
  TypeOK
  SucceededIsCharged
  ChargeHasAttempt
  OneCallPerKey
  ChargedWasIssued
  PaidEventPerSuccess

PROPERTIES
  AttemptIsFinal
