----------------------------- MODULE MCControl -----------------------------
(* Control on small instances.  Requests are interchangeable, and so are     *)
(* idempotency keys: no formula names one.                                   *)
EXTENDS Control, TLC

Symmetry == Permutations(Requests) \cup Permutations(Keys)
=============================================================================
