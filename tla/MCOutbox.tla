------------------------------ MODULE MCOutbox ------------------------------
(* Outbox on small instances.  Dispatchers are interchangeable; entries are  *)
(* ordered.                                                                   *)
EXTENDS Outbox, TLC

Symmetry == Permutations(Dispatchers)
=============================================================================
