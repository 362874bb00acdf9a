------------------------------ MODULE Delivery ------------------------------
(***************************************************************************)
(* What the outbox promises for each event: recorded with the change it    *)
(* announces, acted on at least once, and only then set aside, for good.   *)
(***************************************************************************)
CONSTANT Entries

VARIABLE stage   \* stage[e]: how far the event has come

Stages == {"absent", "recorded", "mailed", "done"}

DInit == stage = [e \in Entries |-> "absent"]

Move(e, from, to) ==
  /\ stage[e] = from
  /\ stage' = [stage EXCEPT ![e] = to]

Record(e) == Move(e, "absent", "recorded")
Mail(e)   == Move(e, "recorded", "mailed")

\* A transaction sets aside any number of events together.
SetAside ==
  \E E \in SUBSET Entries :
    /\ \A e \in E : stage[e] = "mailed"
    /\ stage' = [e \in Entries |-> IF e \in E THEN "done" ELSE stage[e]]

DNext == SetAside \/ \E e \in Entries : Record(e) \/ Mail(e)

DSpec == DInit /\ [][DNext]_stage
=============================================================================
