------------------------------ MODULE HttpCall ------------------------------
(***************************************************************************)
(* One call of an HTTP client to its provider, with the retries of         *)
(* BaseHTTPClient._request: the payment and the e-mail client of           *)
(* "evals/run 1/test/app/clients", and the OpenAI client of the            *)
(* python-external-client skill, which retries by other rules.             *)
(*                                                                         *)
(* A request that timed out may still be executed, before or after the     *)
(* next try; its reply goes nowhere.  A provider that is sent an           *)
(* idempotency key acts once and answers every later request alike.        *)
(***************************************************************************)
EXTENDS Integers

CONSTANTS
  MaxRetries,  \* BaseHTTPClientConfig.MAX_RETRIES
  None         \* no reply, no answer

Outcomes == {"ok", "declined"}
Refusals == {"3xx", "401", "4xx", "429"}   \* a redirect is not followed
Unclear  == {"5xx", "undecodable"}         \* whether it was executed or not
Replies  == Outcomes \cup Refusals \cup Unclear \cup {"garbage"}
Answers  == {"succeeded", "failed", "unavailable", "provider_error", "rejected",
             "rate_limited", "auth", "unreadable"}

ASSUME HttpCallAssumption ==
  /\ MaxRetries \in Nat
  /\ None \notin Replies \cup Answers

VARIABLES
  client,   \* which client makes the call
  pc,       \* the client: about to send, waiting for a reply, done or cancelled
  tries,    \* the requests it has sent
  current,  \* the requests it waits for that are still on their way: 1 or 0
  late,     \* the requests it gave up that are still on their way
  effect,   \* what the provider did
  acts,     \* how often
  reply,    \* the reply on its way back
  answer    \* what the caller got: a result, or an exception

vars == <<client, pc, tries, current, late, effect, acts, reply, answer>>
wire == <<current, late>>
provider == <<effect, acts>>

Clients == {"payment", "email", "openai"}

\* stop_after_attempt(MAX_RETRIES) makes one attempt even when it is 0; the
\* skill's client counts MAX_RETRIES from the second attempt.
AppTries == IF MaxRetries = 0 THEN 1 ELSE MaxRetries
SkillTries == 1 + MaxRetries
Tries == IF client = "openai" THEN SkillTries ELSE AppTries

TypeOK ==
  /\ client \in Clients
  /\ pc \in {"ready", "waiting", "ended", "gone"}
  /\ tries \in 0..Tries
  /\ current \in 0..1
  /\ late \in 0..Tries
  /\ effect \in {"none"} \cup Outcomes
  /\ acts \in 0..Tries
  /\ reply \in Replies \cup {None}
  /\ answer \in Answers \cup {None}

Init ==
  /\ client \in Clients
  /\ pc = "ready" /\ tries = 0
  /\ current = 0 /\ late = 0
  /\ effect = "none" /\ acts = 0
  /\ reply = None /\ answer = None

----------------------------------------------------------------------------
(* The client. *)

Send ==
  /\ pc = "ready"
  /\ pc' = "waiting"
  /\ tries' = tries + 1
  /\ current' = 1
  /\ UNCHANGED <<client, late, provider, reply, answer>>

\* The request the client stops waiting for is lost, or arrives later.
Abandon ==
  /\ current' = 0
  /\ late' \in {late, late + current}
  /\ reply' = None

\* _is_retryable_http_error in the service, _is_transient in the skill.
AppRetries == {"lost", "5xx"}
SkillRetries == AppRetries \cup {"429"}

\* A transport error fails the call at once.
MayRetry_NotTransport(failure) == failure = "5xx" /\ tries < Tries

\* One try too many.
MayRetry_OffByOne(failure) ==
  /\ failure \in IF client = "openai" THEN SkillRetries ELSE AppRetries
  /\ tries <= Tries

MayRetry(failure) ==
  /\ failure \in IF client = "openai" THEN SkillRetries ELSE AppRetries
  /\ tries < Tries

\* A 2xx reply as the client reads it: the e-mail client does not.
Read_StatusOnly(r) == "succeeded"

Read(r) ==
  CASE client = "email" \/ r = "ok" -> "succeeded"
    [] client # "email" /\ r = "declined" -> "failed"
    [] client # "email" /\ r = "garbage" -> "unreadable"

\* The exception a failure becomes: "unavailable" is PaymentProviderException
\* and OpenAIUnavailableException, "provider_error" is EmailProviderException
\* and the base OpenAIException.
Raised(failure) ==
  CASE failure = "429" -> "rate_limited"
    [] failure \in AppRetries \cup {"undecodable"} /\ client # "email" -> "unavailable"
    [] failure = "3xx" /\ client = "payment" -> "unavailable"
    [] failure \in {"401", "4xx"} /\ client = "payment" -> "rejected"
    [] failure = "401" /\ client = "openai" -> "auth"
    [] OTHER -> "provider_error"

Fail(failure) ==
  \/ MayRetry(failure) /\ pc' = "ready" /\ UNCHANGED answer
  \/ ~MayRetry(failure) /\ pc' = "ended" /\ answer' = Raised(failure)

Receive ==
  /\ pc = "waiting"
  /\ reply # None
  /\ reply' = None
  /\ \/ /\ reply \in Outcomes \cup {"garbage"}
        /\ pc' = "ended"
        /\ answer' = Read(reply)
     \/ reply \in Refusals \cup Unclear /\ Fail(reply)
  /\ UNCHANGED <<client, tries, wire, provider>>

\* Without a time-out: only a reply cut off is noticed.
Lose_NoTimeout ==
  /\ pc = "waiting"
  /\ reply # None
  /\ Abandon
  /\ Fail("lost")
  /\ UNCHANGED <<client, tries, provider>>

\* A transport error: no connection, a time-out, a reply cut off.
Lose ==
  /\ pc = "waiting"
  /\ Abandon
  /\ Fail("lost")
  /\ UNCHANGED <<client, tries, provider>>

\* The caller's task is cancelled, or its process dies.
Cancel ==
  /\ pc \in {"ready", "waiting"}
  /\ pc' = "gone"
  /\ Abandon
  /\ UNCHANGED <<client, tries, provider, answer>>

----------------------------------------------------------------------------
(* External: the provider. *)

\* The clients that send an Idempotency-Key.
Keyed_PaymentOnly == {"payment"}

Keyed == {"payment", "email"}

\* Only a payment can be declined.
Executes(outcome) ==
  /\ client # "payment" => outcome = "ok"
  /\ \/ client \in Keyed /\ effect = outcome /\ UNCHANGED provider
     \/ /\ client \notin Keyed \/ effect = "none"
        /\ effect' = outcome
        /\ acts' = acts + 1

\* A 5xx and a body that cannot be read may follow an execution; a refusal may answer
\* the second try of a request whose first was executed.
Responds ==
  /\ current = 1
  /\ current' = 0
  /\ \/ \E outcome \in Outcomes :
          Executes(outcome) /\ reply' \in {outcome, "garbage"} \cup Unclear
     \/ reply' \in Refusals \cup Unclear /\ UNCHANGED provider
  /\ UNCHANGED <<client, pc, tries, late, answer>>

ExecutesLate ==
  /\ late > 0
  /\ late' = late - 1
  /\ \E outcome \in Outcomes : Executes(outcome)
  /\ UNCHANGED <<client, pc, tries, current, reply, answer>>

Next == Send \/ Receive \/ Lose \/ Cancel \/ Responds \/ ExecutesLate

Spec == Init /\ [][Next]_vars

\* The event loop runs what is ready; httpx's timeout ends every wait.
FairSpec == Spec /\ WF_vars(Send) /\ WF_vars(Receive \/ Lose)

----------------------------------------------------------------------------
(* Properties. *)

\* However often the client tries, and whenever an abandoned request arrives,
\* a payment is executed once and a message is mailed once.
ActsOnce == client \in {"payment", "email"} => acts <= 1

\* A failure that may pass is not handed to the service while tries are left: the
\* payment client gives up on a lost reply or a 5xx, and the OpenAI client on a 429
\* too, only after the last.  A redirect and a body that does not decode are raised
\* under the same name at once: they are HTTPErrors that neither rule retries.
GivesUpLast ==
  [][answer = None /\ (answer' = "unavailable" \/ (client = "openai" /\ answer' = "rate_limited"))
       => tries = Tries \/ reply \in {"3xx", "undecodable"}]_vars

\* The retrying client implements a single call, whose answer tells the truth.
CallOnce == INSTANCE OneCall

AnswersTruly == CallOnce!CSpec

\* Every call ends.
EveryCallEnds == pc \in {"ready", "waiting"} ~> pc \in {"ended", "gone"}
=============================================================================
