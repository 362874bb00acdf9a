------------------------------ MODULE OneCall ------------------------------
(***************************************************************************)
(* What a service may rely on when it calls a provider once through an     *)
(* HTTP client, however often the client tries: the provider acts at most  *)
(* once as far as the answer can tell, an answer that states an outcome    *)
(* states the outcome there was, and an error says nothing about it.       *)
(***************************************************************************)
CONSTANT None    \* no answer yet

VARIABLES
  effect,  \* what the provider did: "none", "ok" or "declined"
  answer   \* what the client returned or raised

Failures == {"unavailable", "provider_error", "rejected",
             "rate_limited", "auth", "unreadable"}

CInit == effect = "none" /\ answer = None

Act(outcome) ==
  /\ effect = "none"
  /\ effect' = outcome
  /\ UNCHANGED answer

Answer(a) ==
  /\ answer = None
  /\ a = "succeeded" => effect = "ok"
  /\ a = "failed" => effect = "declined"
  /\ answer' = a
  /\ UNCHANGED effect

CNext ==
  \/ \E outcome \in {"ok", "declined"} : Act(outcome)
  \/ \E a \in {"succeeded", "failed"} \cup Failures : Answer(a)

CSpec == CInit /\ [][CNext]_<<effect, answer>>
=============================================================================
