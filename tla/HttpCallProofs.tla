--------------------------- MODULE HttpCallProofs ---------------------------
(***************************************************************************)
(* Theorems about HttpCall, for every MAX_RETRIES and each of the three    *)
(* clients.                                                                *)
(***************************************************************************)
EXTENDS HttpCall, TLAPS

----------------------------------------------------------------------------
(* The inductive invariant. *)

\* Every request was sent by a try: executed, given up, or waited for.
Counted ==
  /\ acts + late + current <= tries
  /\ pc = "ready" => tries < Tries

\* Where the client is and what it holds.
Place ==
  /\ answer # None <=> pc = "ended"
  /\ current = 1 \/ reply # None => pc = "waiting"
  /\ reply # None => current = 0

\* A key was executed once if at all.
Once == client \in Keyed => acts = IF effect = "none" THEN 0 ELSE 1

\* A reply that states an outcome states the outcome there was.
Honest ==
  /\ reply \in Outcomes => effect = reply
  /\ reply = "garbage" => effect # "none"
  /\ client # "payment" => effect # "declined"

IInv == TypeOK /\ Counted /\ Place /\ Once /\ Honest

LEMMA TriesPositive == ASSUME client \in Clients PROVE Tries \in Nat \ {0}
  BY HttpCallAssumption DEF Tries, AppTries, SkillTries

\* The numbers of a state.
LEMMA Numbers ==
  ASSUME IInv
  PROVE  /\ Tries \in Nat /\ tries \in Nat /\ late \in Nat /\ acts \in Nat
         /\ current \in Nat /\ current <= 1
         /\ acts + late + current <= tries
         /\ tries <= Tries
         /\ pc = "ready" => tries < Tries
<1>1. Tries \in Nat \ {0}
  BY TriesPositive DEF IInv, TypeOK
<1>2. tries \in 0..Tries /\ late \in 0..Tries /\ acts \in 0..Tries /\ current \in 0..1
  BY DEF IInv, TypeOK
<1> QED BY <1>1, <1>2 DEF IInv, Counted

\* What the arithmetic of the next state comes down to.
LEMMA NumbersNext ==
  ASSUME Tries \in Nat, Tries' = Tries, tries' \in Nat, tries' <= Tries,
         late' \in Nat, acts' \in Nat, current' \in Nat /\ current' <= 1,
         acts' + late' + current' <= tries'
  PROVE  /\ tries' \in 0..Tries' /\ late' \in 0..Tries' /\ acts' \in 0..Tries'
         /\ current' \in 0..1
<1>1. \A a, l, c, t, n \in Nat : (a + l + c <= t /\ t <= n) => a <= n /\ l <= n
  OBVIOUS
<1>2. acts' <= Tries /\ late' <= Tries
  BY <1>1
<1> QED BY <1>2

\* A request given up is late or lost.
LEMMA AbandonNumbers ==
  ASSUME IInv, current' = 0, late' \in {late, late + current},
         UNCHANGED <<client, tries, acts>>
  PROVE  /\ tries' \in 0..Tries' /\ late' \in 0..Tries' /\ acts' \in 0..Tries'
         /\ current' \in 0..1
         /\ acts' + late' + current' <= tries'
<1>1. /\ Tries \in Nat /\ tries \in Nat /\ late \in Nat /\ acts \in Nat
      /\ current \in Nat /\ acts + late + current <= tries /\ tries <= Tries
      /\ Tries' = Tries
  BY Numbers DEF Tries
<1>2. late' \in Nat /\ acts' + late' + current' <= tries'
  <2>1. CASE late' = late
    BY <1>1, <2>1
  <2>2. CASE late' = late + current
    <3>1. acts + (late + current) + 0 <= tries
      BY <1>1
    <3> QED BY <1>1, <2>2, <3>1
  <2> QED BY <2>1, <2>2
<1>3. tries' \in Nat /\ tries' <= Tries /\ acts' \in Nat /\ current' \in Nat /\ current' <= 1
  BY <1>1
<1> QED BY <1>1, <1>2, <1>3, NumbersNext

LEMMA NoneIsNew == None \notin Replies /\ None \notin Answers
  BY HttpCallAssumption

LEMMA InitInv == Init => IInv
<1> SUFFICES ASSUME Init PROVE IInv
  OBVIOUS
<1>1. Tries \in Nat \ {0}
  BY TriesPositive DEF Init
<1>2. TypeOK /\ Counted /\ Once
  BY <1>1 DEF Init, TypeOK, Counted, Once
<1>3. Place /\ Honest
  BY NoneIsNew DEF Init, Place, Honest, Replies, Answers, Outcomes
<1> QED BY <1>2, <1>3 DEF IInv

----------------------------------------------------------------------------
(* The steps.  What the client does with a failure is the same whether it  *)
(* was received or is the lack of a reply.                                 *)

LEMMA RaisedAnswer ==
  ASSUME NEW failure \in Refusals \cup Unclear \cup AppRetries
  PROVE  /\ Raised(failure) \in Answers \ {"succeeded", "failed"}
         /\ Raised(failure) = "unavailable" => failure \in AppRetries \cup {"3xx", "undecodable"}
         /\ Raised(failure) = "rate_limited" => failure = "429"
  BY DEF Raised, Refusals, Unclear, AppRetries, Answers

\* The client's own steps touch neither the provider nor the number of tries.
LEMMA FailInv ==
  ASSUME IInv, pc = "waiting", NEW failure \in Refusals \cup Unclear \cup AppRetries,
         Fail(failure), reply' = None, UNCHANGED <<client, tries, provider>>,
         current' = 0, late' \in {late, late + current}
  PROVE  IInv'
<1> USE DEF provider, wire
<1>1. /\ Tries \in Nat /\ tries \in Nat /\ late \in Nat /\ acts \in Nat
      /\ current \in Nat /\ current <= 1 /\ acts + late + current <= tries /\ tries <= Tries
      /\ Tries' = Tries
  BY Numbers DEF Tries
<1>2. answer = None
  BY DEF IInv, Place
<1>3. /\ tries' \in 0..Tries' /\ late' \in 0..Tries' /\ acts' \in 0..Tries'
      /\ current' \in 0..1
      /\ acts' + late' + current' <= tries'
  BY AbandonNumbers
<1>4. MayRetry(failure) => tries < Tries
  BY DEF MayRetry
<1>5. CASE pc' = "ready" /\ MayRetry(failure) /\ UNCHANGED answer
  <2>1. TypeOK' /\ Counted'
    <3>1. TypeOK'
      BY <1>2, <1>3, <1>5 DEF IInv, TypeOK
    <3>2. Counted'
      BY <1>1, <1>3, <1>4, <1>5 DEF Counted
    <3> QED BY <3>1, <3>2
  <2>2. Place' /\ Once' /\ Honest'
    BY <1>1, <1>2, <1>3, <1>5, NoneIsNew
       DEF IInv, Place, Once, Honest, Keyed, Outcomes, Replies, Answers
  <2> QED BY <2>1, <2>2 DEF IInv
<1>6. CASE ~MayRetry(failure) /\ pc' = "ended" /\ answer' = Raised(failure)
  <2>1. Raised(failure) \in Answers \ {"succeeded", "failed"} /\ answer' # None
    BY <1>6, RaisedAnswer, NoneIsNew
  <2>2. TypeOK' /\ Counted'
    <3>1. TypeOK'
      BY <1>3, <1>6, <2>1 DEF IInv, TypeOK
    <3>2. Counted'
      BY <1>3, <1>6 DEF Counted
    <3> QED BY <3>1, <3>2
  <2>3. Place' /\ Once' /\ Honest'
    BY <1>6, <2>1, NoneIsNew
       DEF IInv, Place, Once, Honest, Keyed, Outcomes, Replies
  <2> QED BY <2>2, <2>3 DEF IInv
<1> QED BY <1>5, <1>6 DEF Fail

\* The provider executes a request it had not executed, once per key.
LEMMA ExecutesInv ==
  ASSUME IInv, NEW outcome \in Outcomes, Executes(outcome)
  PROVE  /\ effect' = outcome
         /\ client # "payment" => outcome = "ok"
         /\ acts' \in {acts, acts + 1}
         /\ client \in Keyed => acts' = 1
         /\ effect # "none" => effect' = effect
<1>1. effect \in {"none"} \cup Outcomes /\ acts \in Nat /\ client \in Clients
  BY TriesPositive DEF IInv, TypeOK
<1>2. client \in Keyed => (effect = "none" => acts = 0) /\ (effect # "none" => acts = 1)
  BY DEF IInv, Once
<1>3. client \notin Keyed => client = "openai" /\ effect \in {"none", "ok"} /\ outcome = "ok"
  BY <1>1 DEF IInv, Honest, Executes, Keyed, Clients, Outcomes
<1> QED BY <1>1, <1>2, <1>3 DEF Executes, provider, Outcomes

LEMMA NextInv == IInv /\ [Next]_vars => IInv'
<1> SUFFICES ASSUME IInv, [Next]_vars PROVE IInv'
  OBVIOUS
<1> USE DEF provider, wire
<1>0. /\ Tries \in Nat /\ tries \in Nat /\ late \in Nat /\ acts \in Nat
      /\ current \in Nat /\ current <= 1 /\ acts + late + current <= tries /\ tries <= Tries
      /\ Tries' = Tries
  BY Numbers DEF Tries, Next, Send, Receive, Lose, Cancel, Responds, ExecutesLate, vars
<1>1. CASE Send
  <2>1. reply = None /\ answer = None /\ current = 0 /\ tries < Tries
    BY <1>1, <1>0 DEF Send, IInv, Place, Counted
  <2>2. TypeOK' /\ Counted'
    <3>1. /\ tries' \in Nat /\ tries' <= Tries /\ late' \in Nat /\ acts' \in Nat
          /\ current' \in Nat /\ current' <= 1 /\ acts' + late' + current' <= tries'
      BY <1>0, <1>1, <2>1 DEF Send, IInv
    <3>2. /\ tries' \in 0..Tries' /\ late' \in 0..Tries' /\ acts' \in 0..Tries'
          /\ current' \in 0..1
      BY <1>0, <3>1, NumbersNext
    <3> QED BY <1>0, <1>1, <2>1, <3>1, <3>2 DEF Send, IInv, TypeOK, Counted, Tries
  <2>3. Place' /\ Once' /\ Honest'
    BY <1>1, <2>1, NoneIsNew
       DEF Send, IInv, Place, Once, Honest, Keyed, Outcomes, Replies, Answers
  <2> QED BY <2>2, <2>3 DEF IInv
<1>2. CASE Receive
  <2>1. CASE /\ reply \in Outcomes \cup {"garbage"}
             /\ pc' = "ended"
             /\ answer' = Read(reply)
    <3>1. Read(reply) \in {"succeeded", "failed", "unreadable"}
      BY <2>1 DEF Read, Outcomes
    <3>2. TypeOK' /\ Counted'
      <4>1. /\ tries' \in Nat /\ tries' <= Tries /\ late' \in Nat /\ acts' \in Nat
            /\ current' \in Nat /\ current' <= 1 /\ acts' + late' + current' <= tries'
        BY <1>0, <1>2, <2>1, <3>1 DEF Receive, IInv
      <4>2. /\ tries' \in 0..Tries' /\ late' \in 0..Tries' /\ acts' \in 0..Tries'
            /\ current' \in 0..1
        BY <1>0, <4>1, NumbersNext
      <4> QED BY <1>0, <1>2, <2>1, <3>1, <4>1, <4>2 DEF Receive, IInv, TypeOK, Counted, Tries, Answers
    <3>3. Place' /\ Once' /\ Honest'
      <4>1. answer' # None /\ answer' # "unavailable" /\ answer' # "rate_limited"
        BY <2>1, <3>1, NoneIsNew DEF Answers
      <4>2. Place'
        <5>1. reply' = None /\ current' = 0
          <6>1. current = 0
            BY <1>2, <2>1, NoneIsNew DEF IInv, Place, Receive
          <6> QED BY <1>2, <6>1 DEF Receive
        <5> QED BY <2>1, <4>1, <5>1 DEF Place
      <4>3. Once' /\ Honest'
        BY <1>2, NoneIsNew DEF Receive, IInv, Once, Honest, Keyed, Outcomes, Replies
      <4> QED BY <4>2, <4>3
    <3> QED BY <3>2, <3>3 DEF IInv
  <2>2. CASE reply \in Refusals \cup Unclear /\ Fail(reply)
    <3>1. pc = "waiting" /\ reply \in Refusals \cup Unclear \cup AppRetries /\ current = 0
      BY <1>2, <2>2, NoneIsNew DEF Receive, IInv, Place, AppRetries
    <3> QED BY <3>1, <1>2, <2>2, FailInv DEF Receive
  <2> QED BY <1>2, <2>1, <2>2 DEF Receive
<1>3. CASE Lose
  <2>1. "lost" \in Refusals \cup Unclear \cup AppRetries
    BY DEF AppRetries
  <2> QED BY <1>3, <2>1, FailInv DEF Lose, Abandon
<1>4. CASE Cancel
  <2>1. answer = None
    BY <1>4 DEF Cancel, IInv, Place
  <2>2. /\ tries' \in 0..Tries' /\ late' \in 0..Tries' /\ acts' \in 0..Tries'
        /\ current' \in 0..1
        /\ acts' + late' + current' <= tries'
    BY <1>4, AbandonNumbers DEF Cancel, Abandon
  <2>3. TypeOK' /\ Counted'
    <3>1. TypeOK'
      BY <1>4, <2>2 DEF Cancel, Abandon, IInv, TypeOK
    <3>2. Counted'
      BY <1>4, <2>2 DEF Cancel, Counted
    <3> QED BY <3>1, <3>2
  <2>4. Place' /\ Once' /\ Honest'
    BY <1>4, <2>1, NoneIsNew
       DEF Cancel, Abandon, IInv, Place, Once, Honest, Keyed, Outcomes, Replies, Answers
  <2> QED BY <2>3, <2>4 DEF IInv
<1>5. CASE Responds
  <2>0. pc = "waiting" /\ current = 1 /\ current' = 0 /\ answer = None
    BY <1>0, <1>5 DEF Responds, IInv, Place
  <2>1. CASE \E outcome \in Outcomes :
               Executes(outcome) /\ reply' \in {outcome, "garbage"} \cup Unclear
    <3>1. PICK outcome \in Outcomes : Executes(outcome) /\ reply' \in {outcome, "garbage"} \cup Unclear
      BY <2>1
    <3>2. /\ effect' = outcome /\ acts' \in {acts, acts + 1}
          /\ client # "payment" => outcome = "ok"
          /\ client \in Keyed => acts' = 1
      BY <3>1, ExecutesInv
    <3>3. TypeOK' /\ Counted'
      <4>1. /\ tries' \in Nat /\ tries' <= Tries /\ late' \in Nat /\ acts' \in Nat
            /\ current' \in Nat /\ current' <= 1 /\ acts' + late' + current' <= tries'
        <5>1. acts + late + 0 <= tries /\ (acts + 1) + late + 0 <= tries
          BY <1>0, <2>0
        <5>2. late' = late /\ tries' = tries
          BY <1>5 DEF Responds
        <5>3. acts' \in Nat /\ acts' + late' + current' <= tries'
          <6>1. CASE acts' = acts
            BY <1>0, <2>0, <5>1, <5>2, <6>1
          <6>2. CASE acts' = acts + 1
            BY <1>0, <2>0, <5>1, <5>2, <6>2
          <6> QED BY <3>2, <6>1, <6>2
        <5>4. current' \in Nat /\ current' <= 1
          BY <2>0
        <5>5. tries' \in Nat /\ tries' <= Tries /\ late' \in Nat
          BY <1>0, <5>2
        <5> QED BY <5>3, <5>4, <5>5
      <4>2. /\ tries' \in 0..Tries' /\ late' \in 0..Tries' /\ acts' \in 0..Tries'
            /\ current' \in 0..1
        BY <1>0, <4>1, NumbersNext
      <4>3. TypeOK'
        BY <1>5, <3>1, <3>2, <4>2 DEF Responds, IInv, TypeOK, Replies
      <4>4. Counted'
        BY <1>5, <2>0, <4>1 DEF Responds, Counted
      <4> QED BY <4>3, <4>4
    <3>4. Place' /\ Once' /\ Honest'
      <4>1. Place'
        BY <1>5, <2>0 DEF Responds, IInv, Place
      <4>2. Once' /\ Honest'
        BY <1>5, <3>1, <3>2 DEF Responds, Once, Honest, Keyed, Outcomes, Unclear
      <4> QED BY <4>1, <4>2
    <3> QED BY <3>3, <3>4 DEF IInv
  <2>2. CASE reply' \in Refusals \cup Unclear /\ UNCHANGED provider
    <3>1. TypeOK' /\ Counted'
      <4>1. /\ tries' \in Nat /\ tries' <= Tries /\ late' \in Nat /\ acts' \in Nat
            /\ current' \in Nat /\ current' <= 1 /\ acts' + late' + current' <= tries'
        BY <1>0, <1>5, <2>0, <2>2 DEF Responds, IInv
      <4>2. /\ tries' \in 0..Tries' /\ late' \in 0..Tries' /\ acts' \in 0..Tries'
            /\ current' \in 0..1
        BY <1>0, <4>1, NumbersNext
      <4> QED BY <1>0, <1>5, <2>0, <2>2, <4>1, <4>2 DEF Responds, IInv, TypeOK, Counted, Tries, Replies
    <3>2. Place' /\ Once' /\ Honest'
      BY <1>5, <2>0, <2>2, NoneIsNew
         DEF Responds, IInv, Place, Once, Honest, Keyed, Outcomes, Refusals, Unclear, Answers
    <3> QED BY <3>1, <3>2 DEF IInv
  <2> QED BY <1>5, <2>1, <2>2 DEF Responds
<1>6. CASE ExecutesLate
  <2>1. PICK outcome \in Outcomes : Executes(outcome)
    BY <1>6 DEF ExecutesLate
  <2>2. /\ effect' = outcome /\ acts' \in {acts, acts + 1}
        /\ client # "payment" => outcome = "ok"
        /\ client \in Keyed => acts' = 1
        /\ effect # "none" => effect' = effect
    BY <2>1, ExecutesInv
  <2>3. TypeOK' /\ Counted'
    <3>1. /\ tries' \in Nat /\ tries' <= Tries /\ late' \in Nat /\ acts' \in Nat
          /\ current' \in Nat /\ current' <= 1 /\ acts' + late' + current' <= tries'
      <4>1. acts + (late - 1) + current <= tries /\ (acts + 1) + (late - 1) + current <= tries
        BY <1>0
      <4>2. late' = late - 1 /\ late' \in Nat /\ current' = current /\ tries' = tries
        BY <1>0, <1>6 DEF ExecutesLate
      <4>3. acts' \in Nat /\ acts' + late' + current' <= tries'
        <5>1. CASE acts' = acts
          BY <1>0, <4>1, <4>2, <5>1
        <5>2. CASE acts' = acts + 1
          BY <1>0, <4>1, <4>2, <5>2
        <5> QED BY <2>2, <5>1, <5>2
      <4> QED BY <1>0, <4>2, <4>3
    <3>2. /\ tries' \in 0..Tries' /\ late' \in 0..Tries' /\ acts' \in 0..Tries'
          /\ current' \in 0..1
      BY <1>0, <3>1, NumbersNext
    <3> QED BY <1>0, <1>6, <2>2, <3>1, <3>2 DEF ExecutesLate, IInv, TypeOK, Counted, Tries
  <2>4. Place' /\ Once' /\ Honest'
    <3>1. Place'
      BY <1>6 DEF ExecutesLate, IInv, Place, Tries, AppTries, SkillTries
    <3>2. Once' /\ Honest'
      BY <1>6, <2>2 DEF ExecutesLate, IInv, Once, Honest, Keyed, Outcomes
    <3> QED BY <3>1, <3>2
  <2> QED BY <2>3, <2>4 DEF IInv
<1>7. CASE UNCHANGED vars
  BY <1>7 DEF vars, IInv, TypeOK, Counted, Place, Once, Honest, Tries, AppTries, SkillTries, Keyed
<1> QED BY <1>1, <1>2, <1>3, <1>4, <1>5, <1>6, <1>7 DEF Next

\* The invariant behind the theorems: the requests add up, a key is executed
\* once, and what the provider replied is what it did.
THEOREM Inductive == Spec => []IInv
BY InitInv, NextInv, PTL DEF Spec

\* The state of a call is well-typed.
THEOREM TypeCorrect == Spec => []TypeOK
<1>1. IInv => TypeOK
  BY DEF IInv
<1> QED BY <1>1, Inductive, PTL

\* However often the client tries, a payment is executed once and a message is
\* mailed once.
THEOREM KeyedActOnce == Spec => []ActsOnce
<1>1. IInv => ActsOnce
  BY DEF IInv, Once, ActsOnce, Keyed
<1> QED BY <1>1, Inductive, PTL

\* A failure that may pass is handed to the service only after the last try: by the
\* retry rules, no other step answers with its name.
THEOREM LastGivesUp == Spec => GivesUpLast
<1> DEFINE Surfaces == answer' = "unavailable" \/ (client = "openai" /\ answer' = "rate_limited")
           Final == tries = Tries \/ reply \in {"3xx", "undecodable"}
<1>1. ASSUME IInv, NEW failure \in Refusals \cup Unclear \cup AppRetries, Fail(failure),
             answer = None, Surfaces
      PROVE  tries = Tries \/ failure \in {"3xx", "undecodable"}
  <2>1. ~MayRetry(failure) /\ answer' = Raised(failure)
    BY <1>1, NoneIsNew DEF Fail, Answers
  <2>2. failure \in AppRetries \/ (client = "openai" /\ failure = "429")
          \/ failure \in {"3xx", "undecodable"}
    BY <1>1, <2>1, RaisedAnswer
  <2>3. failure \in AppRetries \/ (client = "openai" /\ failure = "429") => ~(tries < Tries)
    BY <2>1 DEF MayRetry, SkillRetries, AppRetries
  <2>4. ~(tries < Tries) => tries = Tries
    BY <1>1, Numbers
  <2> QED
    BY <2>2, <2>3, <2>4
<1>2. ASSUME IInv, [Next]_vars, answer = None, Surfaces
      PROVE  Final
  <2>1. CASE Receive
    <3>1. CASE answer' = Read(reply) /\ reply \in Outcomes \cup {"garbage"}
      BY <1>2, <3>1 DEF Read, Outcomes
    <3>2. CASE reply \in Refusals \cup Unclear /\ Fail(reply)
      BY <1>1, <1>2, <3>2
    <3> QED
      BY <2>1, <3>1, <3>2 DEF Receive
  <2>2. CASE Lose
    <3>1. Fail("lost") /\ "lost" \in Refusals \cup Unclear \cup AppRetries
      BY <2>2 DEF Lose, AppRetries
    <3>2. tries = Tries \/ "lost" \in {"3xx", "undecodable"}
      BY <1>1, <1>2, <3>1
    <3> QED
      BY <3>2
  <2>3. CASE UNCHANGED answer
    BY <1>2, <2>3, NoneIsNew DEF Answers
  <2> QED
    BY <1>2, <2>1, <2>2, <2>3 DEF Next, Send, Cancel, Responds, ExecutesLate, vars
<1>3. IInv /\ [Next]_vars => [answer = None /\ Surfaces => Final]_vars
  BY <1>2
<1> QED
  BY <1>3, Inductive, PTL DEF Spec, GivesUpLast

----------------------------------------------------------------------------
(* The retrying client implements one call. *)

LEMMA InitAnswersTruly == Init => CallOnce!CInit
BY DEF Init, CallOnce!CInit

LEMMA StepAnswersTruly ==
  IInv /\ [Next]_vars => [CallOnce!CNext]_<<effect, answer>>
<1> SUFFICES ASSUME IInv, [Next]_vars
             PROVE  CallOnce!CNext \/ UNCHANGED <<effect, answer>>
  OBVIOUS
<1> USE DEF provider
<1>1. ASSUME NEW failure \in Refusals \cup Unclear \cup AppRetries, Fail(failure), pc = "waiting", UNCHANGED effect
      PROVE  CallOnce!CNext \/ UNCHANGED <<effect, answer>>
  <2>1. answer = None
    BY <1>1 DEF IInv, Place
  <2>2. CASE UNCHANGED answer
    BY <1>1, <2>2
  <2>3. CASE answer' = Raised(failure)
    <3>1. Raised(failure) \in CallOnce!Failures
      BY <1>1, RaisedAnswer DEF Answers, CallOnce!Failures
    <3>2. CallOnce!Answer(Raised(failure))
      BY <1>1, <2>1, <2>3, <3>1 DEF CallOnce!Answer, CallOnce!Failures
    <3> QED BY <3>1, <3>2 DEF CallOnce!CNext
  <2> QED BY <1>1, <2>2, <2>3 DEF Fail
<1>2. ASSUME NEW outcome \in Outcomes, Executes(outcome), UNCHANGED answer
      PROVE  CallOnce!CNext \/ UNCHANGED <<effect, answer>>
  <2>1. effect' = outcome /\ (effect # "none" => effect' = effect)
    BY <1>2, ExecutesInv
  <2>2. effect = "none" => CallOnce!Act(outcome)
    BY <1>2, <2>1 DEF CallOnce!Act
  <2> QED BY <1>2, <2>1, <2>2 DEF CallOnce!CNext, Outcomes
<1>3. CASE Receive
  <2>1. CASE reply \in Outcomes \cup {"garbage"} /\ answer' = Read(reply)
    <3>1. answer = None /\ UNCHANGED effect
      BY <1>3 DEF Receive, IInv, Place
    <3>2. Read(reply) \in {"succeeded", "failed", "unreadable"}
      BY <2>1 DEF Read, Outcomes
    <3>3. Read(reply) = "succeeded" => effect = "ok"
      <4>1. effect \in {"none"} \cup Outcomes
        BY DEF IInv, TypeOK
      <4>2. Read(reply) = "succeeded" => client = "email" \/ reply = "ok"
        BY <2>1 DEF Read, Outcomes
      <4> QED BY <2>1, <4>1, <4>2 DEF IInv, Honest, Outcomes
    <3>4. Read(reply) = "failed" => effect = "declined"
      <4>1. Read(reply) = "failed" => reply = "declined"
        BY <2>1 DEF Read, Outcomes
      <4> QED BY <4>1 DEF IInv, Honest, Outcomes
    <3>5. CallOnce!Answer(Read(reply))
      BY <2>1, <3>1, <3>3, <3>4 DEF CallOnce!Answer
    <3> QED BY <3>2, <3>5 DEF CallOnce!CNext, CallOnce!Failures
  <2>2. CASE reply \in Refusals \cup Unclear /\ Fail(reply)
    <3>1. pc = "waiting" /\ reply \in Refusals \cup Unclear \cup AppRetries /\ UNCHANGED effect
      BY <1>3, <2>2 DEF Receive, AppRetries
    <3> QED BY <1>1, <2>2, <3>1
  <2> QED BY <1>3, <2>1, <2>2 DEF Receive
<1>4. CASE Lose
  <2>1. pc = "waiting" /\ "lost" \in Refusals \cup Unclear \cup AppRetries /\ UNCHANGED effect
    BY <1>4 DEF Lose, AppRetries
  <2> QED BY <1>1, <1>4, <2>1 DEF Lose
<1>5. CASE Responds
  BY <1>2, <1>5 DEF Responds
<1>6. CASE ExecutesLate
  BY <1>2, <1>6 DEF ExecutesLate
<1>7. CASE Send \/ Cancel \/ UNCHANGED vars
  BY <1>7 DEF Send, Cancel, vars
<1> QED BY <1>3, <1>4, <1>5, <1>6, <1>7 DEF Next

\* The retrying client implements OneCall: an answer that states an outcome states
\* what the provider did, for any number of tries.
THEOREM CallsOnce == Spec => AnswersTruly
BY InitAnswersTruly, StepAnswersTruly, Inductive, PTL
   DEF Spec, AnswersTruly, CallOnce!CSpec
=============================================================================
