----------------------------- MODULE MCBilling -----------------------------
(* Billing on small instances.  Requests are interchangeable, and so are     *)
(* idempotency keys: no formula names one.                                   *)
EXTENDS Billing, TLC

Symmetry == Permutations(Requests) \cup Permutations(Keys)
=============================================================================
