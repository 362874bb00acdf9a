--------------------------- MODULE BillingProofs ---------------------------
(***************************************************************************)
(* Theorems about Billing, for any customers, invoices, keys and requests, *)
(* and any number of them in flight.                                       *)
(***************************************************************************)
EXTENDS Billing, TLAPS

\* Where a request is on its way through collect_payment.
Paying   == {"lookup", "insert", "call", "calling", "settle", "decline", "fail"}
Recorded == {"call", "calling", "settle", "decline", "fail"}
NotYet   == {"idle", "lines", "write", "lookup", "insert"}

Announced(i) == \E e \in outbox : e.type = "InvoiceIssued" /\ e.inv = i

\* What a request has in hand at each place.
RequestInv(r) ==
  /\ pc[r] \in InFlightAt <=> session[r] # None
  /\ session[r] # None => (session[r].op = "collect" <=> session[r].key # None)
  /\ pc[r] \in Paying => session[r].op = "collect"
  /\ pc[r] \in Paying \ {"lookup"} => session[r].status = "issued"
  /\ pc[r] \in NotYet => attempt[r] = None
  /\ pc[r] \in Recorded => attempt[r] = PendingAttempt(r)
  /\ pc[r] = "settle" => ledger[session[r].key] =
       [inv |-> session[r].inv, amount |-> session[r].lines, ok |-> TRUE]

\* What is announced before a payment can be for it.
AnnouncedInv ==
  /\ \A i \in Invoices : status[i] \in {"issued", "paid"} => Announced(i)
  /\ \A r \in Requests :
       session[r] # None /\ session[r].status \in {"issued", "paid"} => Announced(session[r].inv)
  /\ \A r \in Requests : attempt[r] # None => Announced(attempt[r].inv)

\* An issue announced the lines a session had loaded, and lines only grow: whoever
\* reads the status of an issued invoice, and then its lines, loads all of them.
Covered(i, total) ==
  \E e \in outbox : e.type = "InvoiceIssued" /\ e.inv = i /\ e.total \subseteq total

CoversInv ==
  /\ \A r \in Requests : session[r] # None => session[r].lines \subseteq lines[session[r].inv]
  /\ \A e \in outbox : e.type = "InvoiceIssued" => e.total \subseteq lines[e.inv]
  /\ \A r \in Requests :
       pc[r] \in Paying /\ session[r].status \in {"issued", "paid"} =>
         Covered(session[r].inv, session[r].lines)
  /\ \A r \in Requests : attempt[r] # None => Covered(attempt[r].inv, attempt[r].amount)

UniqueAttempt ==
  \A r1, r2 \in Requests :
    (/\ attempt[r1] # None /\ attempt[r2] # None
     /\ attempt[r1].inv = attempt[r2].inv /\ attempt[r1].key = attempt[r2].key) => r1 = r2

\* Every call is the call of a recorded attempt, every charge the one of a call.
CallInv ==
  /\ \A c \in calls :
       /\ attempt[c.by] # None
       /\ attempt[c.by].inv = c.inv
       /\ attempt[c.by].key = c.key
       /\ attempt[c.by].amount = c.amount
  /\ \A k \in Keys : ledger[k] # None =>
       \E c \in calls : c.key = k /\ c.inv = ledger[k].inv /\ c.amount = ledger[k].amount

IInv ==
  /\ TypeOK
  /\ \A r \in Requests : RequestInv(r)
  /\ AnnouncedInv
  /\ CoversInv
  /\ UniqueAttempt
  /\ CallInv
  /\ SucceededIsCharged
  /\ PaidEventPerSuccess

----------------------------------------------------------------------------
(* The part of the invariant each request keeps for itself. *)

LEMMA InitIInv == Init => IInv
  BY DEF Init, IInv, TypeOK, RequestInv, AnnouncedInv, CoversInv, UniqueAttempt, CallInv,
     SucceededIsCharged, PaidEventPerSuccess, Succeeded, InFlightAt, EndedAt, Status,
     Amount, Paying, Recorded, NotYet

\* A request in flight has a session, and one that pays has an attempt to record.
LEMMA AttemptInHand ==
  ASSUME TypeOK, NEW r \in Requests, RequestInv(r)
  PROVE  /\ pc[r] \in InFlightAt => session[r] \in Session
         /\ pc[r] \in Paying => session[r].key \in Keys /\ PendingAttempt(r) \in Attempt
         /\ pc[r] \in Recorded => attempt[r] = PendingAttempt(r) /\ attempt[r] \in Attempt
<1> USE NoneAssumption DEF RequestInv
<1>1. pc[r] \in InFlightAt => session[r] \in Session
  BY DEF TypeOK
<1>2. pc[r] \in Paying => session[r].key \in Keys
  BY <1>1 DEF Session, Paying, InFlightAt
<1>3. pc[r] \in Paying => PendingAttempt(r) \in Attempt
  BY <1>1, <1>2 DEF PendingAttempt, Attempt, Session, Paying, InFlightAt
<1> QED
  BY <1>1, <1>2, <1>3 DEF Paying, Recorded

LEMMA TypeNext == IInv /\ [Next]_vars => TypeOK'
<1> SUFFICES ASSUME IInv, [Next]_vars PROVE TypeOK'
  OBVIOUS
<1> USE NoneAssumption DEF TypeOK, InFlightAt, EndedAt, Goto, End, db, provider
<1>0. TypeOK /\ \A r \in Requests : RequestInv(r)
  BY DEF IInv
<1>1. ASSUME NEW c \in Customers, CreateCustomer(c) PROVE TypeOK'
  BY <1>0, <1>1 DEF CreateCustomer
<1>2. ASSUME NEW i \in Invoices, CreateInvoice(i) PROVE TypeOK'
  BY <1>0, <1>2 DEF CreateInvoice, Status
<1>3. ASSUME NEW r \in Requests, NEW op \in {"add_line", "issue", "collect"},
             NEW i \in Invoices, NEW k \in Keys \cup {None}, LoadInvoice(r, op, i, k)
      PROVE TypeOK'
  BY <1>0, <1>3 DEF LoadInvoice, Session, Amount
<1>4. ASSUME NEW r \in Requests, Serve(r) PROVE TypeOK'
  <2> USE <1>0
  <2>0. /\ pc[r] \in InFlightAt => session[r] \in Session
        /\ pc[r] \in Paying => session[r].key \in Keys /\ PendingAttempt(r) \in Attempt
        /\ pc[r] \in Recorded => attempt[r] \in Attempt
    BY AttemptInHand
  <2>1. CASE LoadLines(r)
    <3>1. session[r] \in Session /\ session[r].inv \in Invoices
      BY <2>0, <2>1 DEF LoadLines, Session
    <3>2. [session[r] EXCEPT !.lines = lines[session[r].inv]] \in Session
      BY <3>1 DEF Session, Amount
    <3> QED
      BY <2>1, <3>2 DEF LoadLines
  <2>2. CASE AddLine(r)
    BY <2>0, <2>2 DEF AddLine, Session, Amount
  <2>3. CASE Issue(r)
    BY <2>0, <2>3 DEF Issue, Session, Event, Status
  <2>4. CASE Lookup(r)
    BY <2>4 DEF Lookup
  <2>5. CASE InsertAttempt(r)
    BY <2>0, <2>5 DEF InsertAttempt, Paying
  <2>6. CASE CallProvider(r)
    BY <2>0, <2>6 DEF CallProvider, Paying, Recorded, Attempt, Session, Call
  <2>7. CASE ReturnFromProvider(r)
    BY <2>7 DEF ReturnFromProvider
  <2>8. CASE FailAttempt(r)
    BY <2>0, <2>8 DEF FailAttempt, Recorded, Attempt
  <2>9. CASE Settle(r)
    BY <2>0, <2>9 DEF Settle, Recorded, Attempt, Session, Event, Status
  <2> QED
    BY <1>4, <2>1, <2>2, <2>3, <2>4, <2>5, <2>6, <2>7, <2>8, <2>9 DEF Serve
<1>5. ASSUME NEW r \in Requests, Abort(r) PROVE TypeOK'
  BY <1>0, <1>5 DEF Abort
<1>6. ASSUME NEW c \in calls, NEW ok \in BOOLEAN, ProviderExecutes(c, ok) PROVE TypeOK'
  BY <1>0, <1>6 DEF ProviderExecutes, Call, Charge
<1>7. CASE UNCHANGED vars
  BY <1>0, <1>7 DEF vars
<1> QED
  BY <1>1, <1>2, <1>3, <1>4, <1>5, <1>6, <1>7 DEF Next

----------------------------------------------------------------------------
(* What no step may do, whoever takes it: an event, a call and a charge    *)
(* stay; an attempt stays and is settled once.                             *)

Keeps ==
  /\ outbox \subseteq outbox'
  /\ calls \subseteq calls'
  /\ \A k \in Keys : ledger[k] # None => ledger'[k] = ledger[k]
  /\ \A q \in Requests : attempt[q] # None =>
       /\ attempt'[q] # None
       /\ attempt'[q].inv = attempt[q].inv
       /\ attempt'[q].key = attempt[q].key
       /\ attempt'[q].amount = attempt[q].amount
       /\ attempt'[q] # attempt[q] => attempt[q].status = "pending"

LEMMA NextKeeps == IInv /\ [Next]_vars => Keeps
<1> SUFFICES ASSUME IInv, [Next]_vars PROVE Keeps
  OBVIOUS
<1> USE NoneAssumption DEF Keeps, Goto, End, db, provider
<1>0. TypeOK /\ \A r \in Requests : RequestInv(r)
  BY DEF IInv
<1>1. ASSUME NEW c \in Customers, CreateCustomer(c) PROVE Keeps
  BY <1>1 DEF CreateCustomer
<1>2. ASSUME NEW i \in Invoices, CreateInvoice(i) PROVE Keeps
  BY <1>2 DEF CreateInvoice
<1>3. ASSUME NEW r \in Requests, NEW op \in {"add_line", "issue", "collect"},
             NEW i \in Invoices, NEW k \in Keys \cup {None}, LoadInvoice(r, op, i, k)
      PROVE Keeps
  BY <1>3 DEF LoadInvoice
<1>4. ASSUME NEW r \in Requests, Serve(r) PROVE Keeps
  <2>1. CASE LoadLines(r)
    BY <2>1 DEF LoadLines
  <2>2. CASE AddLine(r)
    BY <2>2 DEF AddLine
  <2>3. CASE Issue(r)
    BY <2>3 DEF Issue
  <2>4. CASE Lookup(r)
    BY <2>4 DEF Lookup
  <2>5. CASE InsertAttempt(r)
    <3>1. attempt[r] = None
      BY <1>0, <2>5 DEF InsertAttempt, RequestInv, NotYet
    <3>2. \A q \in Requests : q # r => attempt'[q] = attempt[q]
      BY <1>0, <2>5 DEF InsertAttempt, TypeOK
    <3> QED
      BY <2>5, <3>1, <3>2 DEF InsertAttempt
  <2>6. CASE CallProvider(r)
    BY <2>6 DEF CallProvider
  <2>7. CASE ReturnFromProvider(r)
    BY <2>7 DEF ReturnFromProvider
  <2>8. CASE FailAttempt(r) \/ Settle(r)
    <3>1. attempt[r] = PendingAttempt(r) /\ attempt[r] \in Attempt
      BY <1>0, <2>8, AttemptInHand DEF FailAttempt, Settle, Recorded
    <3>2. attempt' \in [Requests -> Attempt \cup {None}]
      BY <2>8, TypeNext DEF TypeOK
    <3>3. \A q \in Requests : q # r => attempt'[q] = attempt[q]
      BY <1>0, <2>8 DEF FailAttempt, Settle, TypeOK
    <3>4. \/ attempt'[r] = attempt[r]
          \/ \E o \in {"failed", "succeeded"} : attempt'[r] = [attempt[r] EXCEPT !.status = o]
      BY <1>0, <2>8 DEF FailAttempt, Settle, TypeOK
    <3>5. /\ attempt'[r] # None
          /\ attempt'[r].inv = attempt[r].inv
          /\ attempt'[r].key = attempt[r].key
          /\ attempt'[r].amount = attempt[r].amount
      BY <3>1, <3>4 DEF Attempt
    <3>6. attempt[r].status = "pending"
      BY <3>1 DEF PendingAttempt
    <3> QED
      BY <2>8, <3>3, <3>5, <3>6 DEF FailAttempt, Settle
  <2> QED
    BY <1>4, <2>1, <2>2, <2>3, <2>4, <2>5, <2>6, <2>7, <2>8 DEF Serve
<1>5. ASSUME NEW r \in Requests, Abort(r) PROVE Keeps
  BY <1>5 DEF Abort
<1>6. ASSUME NEW c \in calls, NEW ok \in BOOLEAN, ProviderExecutes(c, ok) PROVE Keeps
  BY <1>0, <1>6 DEF ProviderExecutes, TypeOK
<1>7. CASE UNCHANGED vars
  BY <1>7 DEF vars
<1> QED
  BY <1>1, <1>2, <1>3, <1>4, <1>5, <1>6, <1>7 DEF Next

----------------------------------------------------------------------------
(* A request's own part of the invariant.  A step of another request and   *)
(* one of the provider leave it alone.                                     *)

LEMMA RequestKept ==
  ASSUME IInv, [Next]_vars, NEW q \in Requests,
         pc'[q] = pc[q], session'[q] = session[q], attempt'[q] = attempt[q]
  PROVE  RequestInv(q)'
<1>1. TypeOK /\ RequestInv(q) /\ Keeps
  BY NextKeeps DEF IInv
<1>2. pc[q] = "settle" => session[q] \in Session /\ session[q].key \in Keys
  BY <1>1, AttemptInHand DEF Paying, InFlightAt
<1>3. pc[q] = "settle" =>
        [inv |-> session[q].inv, amount |-> session[q].lines, ok |-> TRUE] \in Charge
  BY <1>2 DEF Session, Charge
<1>4. pc[q] = "settle" => session[q].key \in Keys /\ ledger[session[q].key] # None
  BY <1>1, <1>2, <1>3, NoneAssumption DEF RequestInv
<1>5. pc[q] = "settle" => ledger'[session[q].key] = ledger[session[q].key]
  BY <1>1, <1>4 DEF Keeps
<1> QED
  BY <1>1, <1>5 DEF RequestInv, PendingAttempt, InFlightAt, Paying, Recorded, NotYet

\* The reply the caller gets is the reply to its own call.
LEMMA OwnReply ==
  ASSUME IInv, NEW r \in Requests, pc[r] = "calling", Replied(r, TRUE)
  PROVE  ledger[session[r].key] =
           [inv |-> session[r].inv, amount |-> session[r].lines, ok |-> TRUE]
<1>1. /\ TypeOK /\ RequestInv(r) /\ session[r].key \in Keys
      /\ attempt[r] = PendingAttempt(r) /\ attempt[r] # None
  BY AttemptInHand, NoneAssumption DEF IInv, Paying, Recorded
<1>2. PICK c \in calls : /\ c.key = session[r].key
                         /\ c.inv = ledger[session[r].key].inv
                         /\ c.amount = ledger[session[r].key].amount
  BY <1>1 DEF IInv, CallInv, Replied
<1>3. c.inv = session[r].inv /\ c.by \in Requests
  BY <1>1, <1>2 DEF Replied, TypeOK, Call
<1>4. c.by = r
  BY <1>1, <1>2, <1>3 DEF IInv, CallInv, UniqueAttempt, PendingAttempt
<1>5. c.amount = session[r].lines
  BY <1>1, <1>4 DEF IInv, CallInv, PendingAttempt
<1>6. ledger[session[r].key] \in Charge
  BY <1>1 DEF TypeOK, Replied
<1> QED
  BY <1>2, <1>5, <1>6 DEF Replied, Charge

LEMMA RequestNext == IInv /\ [Next]_vars => \A q \in Requests : RequestInv(q)'
<1> SUFFICES ASSUME IInv, [Next]_vars, NEW q \in Requests PROVE RequestInv(q)'
  OBVIOUS
<1>0. TypeOK /\ RequestInv(q) /\ TypeOK'
  BY TypeNext DEF IInv
<1>1. ASSUME NEW c \in Customers, CreateCustomer(c) PROVE RequestInv(q)'
  BY <1>1, RequestKept DEF CreateCustomer
<1>2. ASSUME NEW i \in Invoices, CreateInvoice(i) PROVE RequestInv(q)'
  BY <1>2, RequestKept DEF CreateInvoice
<1>3. ASSUME NEW r \in Requests, NEW op \in {"add_line", "issue", "collect"},
             NEW i \in Invoices, NEW k \in Keys \cup {None}, LoadInvoice(r, op, i, k)
      PROVE RequestInv(q)'
  <2>1. CASE q = r
    <3>1. attempt'[r] = None
      BY <1>0, <1>3, <2>1 DEF LoadInvoice, RequestInv, NotYet, db
    <3>2. CASE status[i] = "absent"
      BY <1>0, <1>3, <2>1, <3>1, <3>2
         DEF LoadInvoice, RequestInv, End, TypeOK, InFlightAt, Paying, Recorded
    <3>3. CASE status[i] # "absent"
      <4>1. /\ pc'[r] = "lines"
            /\ session'[r] = [op |-> op, inv |-> i, key |-> k, status |-> status[i], lines |-> {}]
        BY <1>0, <1>3, <3>3 DEF LoadInvoice, Goto, TypeOK
      <4>2. session'[r] # None
        BY <1>0, <4>1, NoneAssumption DEF TypeOK, Session, Amount
      <4> QED
        BY <1>3, <2>1, <3>1, <4>1, <4>2
           DEF LoadInvoice, RequestInv, InFlightAt, Paying, Recorded
    <3> QED
      BY <3>2, <3>3
  <2>2. CASE q # r
    BY <1>0, <1>3, <2>2, RequestKept DEF LoadInvoice, End, Goto, TypeOK, db
  <2> QED
    BY <2>1, <2>2
<1>4. ASSUME NEW r \in Requests, Serve(r) PROVE RequestInv(q)'
  <2>1. CASE q # r
    <3>1. pc'[q] = pc[q] /\ session'[q] = session[q] /\ attempt'[q] = attempt[q]
      BY <1>0, <1>4, <2>1
         DEF Serve, LoadLines, AddLine, Issue, Lookup, InsertAttempt, CallProvider,
             ReturnFromProvider, FailAttempt, Settle, End, Goto, TypeOK, db
    <3> QED
      BY <3>1, RequestKept
  <2>2. CASE q = r /\ LoadLines(r)
    BY <1>0, <2>2, NoneAssumption
       DEF LoadLines, RequestInv, End, Goto, TypeOK, Session, db, InFlightAt, Paying, Recorded, NotYet
  <2>3. CASE q = r /\ (AddLine(r) \/ Issue(r))
    BY <1>0, <2>3 DEF AddLine, Issue, RequestInv, End, TypeOK, InFlightAt, Paying, Recorded, NotYet
  <2>4. CASE q = r /\ Lookup(r)
    BY <1>0, <2>4 DEF Lookup, RequestInv, End, Goto, TypeOK, db, InFlightAt, Paying, Recorded, NotYet
  <2>5. CASE q = r /\ InsertAttempt(r)
    BY <1>0, <2>5
       DEF InsertAttempt, PendingAttempt, RequestInv, End, Goto, TypeOK, InFlightAt, Paying, Recorded, NotYet
  <2>6. CASE q = r /\ CallProvider(r)
    BY <1>0, <2>6 DEF CallProvider, PendingAttempt, RequestInv, Goto, TypeOK, db, InFlightAt, Paying, Recorded, NotYet
  <2>7. CASE q = r /\ ReturnFromProvider(r)
    <3>1. pc'[r] = "settle" => Replied(r, TRUE) /\ pc[r] = "calling"
      BY <1>0, <2>7 DEF ReturnFromProvider, End, Goto, TypeOK
    <3> QED
      BY <1>0, <2>7, <3>1, OwnReply
         DEF ReturnFromProvider, PendingAttempt, RequestInv, End, Goto, TypeOK, db, provider, InFlightAt, Paying, Recorded, NotYet
  <2>8. CASE q = r /\ (FailAttempt(r) \/ Settle(r))
    BY <1>0, <2>8 DEF FailAttempt, Settle, RequestInv, End, TypeOK, InFlightAt, Paying, Recorded, NotYet
  <2> QED
    BY <1>4, <2>1, <2>2, <2>3, <2>4, <2>5, <2>6, <2>7, <2>8 DEF Serve
<1>5. ASSUME NEW r \in Requests, Abort(r) PROVE RequestInv(q)'
  <2>1. CASE q = r
    BY <1>0, <1>5, <2>1
       DEF Abort, End, TypeOK, RequestInv, InFlightAt, Paying, Recorded, NotYet
  <2>2. CASE q # r
    BY <1>0, <1>5, <2>2, RequestKept DEF Abort, End, TypeOK, db
  <2> QED
    BY <2>1, <2>2
<1>6. ASSUME NEW c \in calls, NEW ok \in BOOLEAN, ProviderExecutes(c, ok) PROVE RequestInv(q)'
  BY <1>6, RequestKept DEF ProviderExecutes, db
<1>7. CASE UNCHANGED vars
  BY <1>7, RequestKept DEF vars
<1> QED
  BY <1>1, <1>2, <1>3, <1>4, <1>5, <1>6, <1>7 DEF Next

----------------------------------------------------------------------------
(* Where the rows come from. *)

\* An attempt appears by the INSERT of its own request, when no other holds
\* the key.
LEMMA OnlyInsert ==
  ASSUME IInv, [Next]_vars, NEW q \in Requests, attempt[q] = None, attempt'[q] # None
  PROVE  /\ pc[q] = "insert"
         /\ AttemptOf(session[q].inv, session[q].key) = {}
         /\ attempt' = [attempt EXCEPT ![q] = PendingAttempt(q)]
<1> USE DEF db, provider
<1>0. TypeOK /\ \A r \in Requests : RequestInv(r)
  BY DEF IInv
<1>1. attempt' # attempt
  OBVIOUS
<1>2. ~UNCHANGED vars
  BY <1>1 DEF vars
<1>3. PICK r \in Requests : InsertAttempt(r) \/ FailAttempt(r) \/ Settle(r)
  BY <1>1, <1>2 DEF Next, Serve, CreateCustomer, CreateInvoice, LoadInvoice, LoadLines,
     AddLine, Issue, Lookup, CallProvider, ReturnFromProvider, Abort, ProviderExecutes
<1>4. \A s \in Requests \ {r} : attempt'[s] = attempt[s]
  BY <1>0, <1>3 DEF InsertAttempt, FailAttempt, Settle, TypeOK
<1>5. r = q
  BY <1>4
<1>6. FailAttempt(r) \/ Settle(r) => attempt[r] # None
  BY <1>0, AttemptInHand, NoneAssumption DEF FailAttempt, Settle, Recorded
<1>7. InsertAttempt(q)
  BY <1>3, <1>5, <1>6
<1> QED
  BY <1>1, <1>7 DEF InsertAttempt

\* A payment succeeds by the settlement of its own request, once charged.
LEMMA OnlySettle ==
  ASSUME IInv, [Next]_vars, NEW q \in Requests, Succeeded(q)', ~Succeeded(q)
  PROVE  /\ Settle(q)
         /\ session[q].status = "issued"
         /\ attempt' = [attempt EXCEPT ![q].status = "succeeded"]
         /\ attempt[q] = PendingAttempt(q)
<1> USE DEF db, provider
<1>0. TypeOK /\ \A r \in Requests : RequestInv(r)
  BY DEF IInv
<1>1. attempt'[q] # attempt[q]
  BY DEF Succeeded
<1>2. ~UNCHANGED vars
  BY <1>1 DEF vars
<1>3. PICK r \in Requests : InsertAttempt(r) \/ FailAttempt(r) \/ Settle(r)
  BY <1>1, <1>2 DEF Next, Serve, CreateCustomer, CreateInvoice, LoadInvoice, LoadLines,
     AddLine, Issue, Lookup, CallProvider, ReturnFromProvider, Abort, ProviderExecutes
<1>4. \A s \in Requests \ {r} : attempt'[s] = attempt[s]
  BY <1>0, <1>3 DEF InsertAttempt, FailAttempt, Settle, TypeOK
<1>5. r = q
  BY <1>1, <1>4
<1>6. ~InsertAttempt(q)
  BY <1>0, <1>1 DEF InsertAttempt, PendingAttempt, Succeeded, TypeOK
<1>7. ~FailAttempt(q)
  <2> SUFFICES ASSUME FailAttempt(q) PROVE attempt'[q].status = "failed"
    BY DEF Succeeded
  <2>1. attempt[q] \in Attempt
    BY <1>0, AttemptInHand DEF FailAttempt, Recorded
  <2> QED
    BY <1>0, <2>1 DEF FailAttempt, TypeOK, Attempt
<1>8. Settle(q)
  BY <1>3, <1>5, <1>6, <1>7
<1> QED
  BY <1>0, <1>1, <1>8 DEF Settle, RequestInv, Recorded, Paying

LEMMA UniqueNext == IInv /\ [Next]_vars => UniqueAttempt'
<1> SUFFICES ASSUME IInv, [Next]_vars,
                    NEW q1 \in Requests, NEW q2 \in Requests, q1 # q2,
                    attempt'[q1] # None, attempt'[q2] # None,
                    attempt'[q1].inv = attempt'[q2].inv, attempt'[q1].key = attempt'[q2].key
             PROVE  FALSE
  BY DEF UniqueAttempt
<1>0. TypeOK /\ UniqueAttempt /\ Keeps
  BY NextKeeps DEF IInv
<1>1. ASSUME NEW a \in Requests, NEW b \in Requests, a # b, attempt[a] = None,
             attempt'[a] # None, attempt'[b] # None,
             attempt'[a].inv = attempt'[b].inv, attempt'[a].key = attempt'[b].key
      PROVE FALSE
  <2>1. /\ AttemptOf(session[a].inv, session[a].key) = {}
        /\ attempt' = [attempt EXCEPT ![a] = PendingAttempt(a)]
    BY <1>1, OnlyInsert
  <2>2. attempt'[b] = attempt[b] /\ attempt'[a] = PendingAttempt(a)
    BY <1>0, <1>1, <2>1 DEF TypeOK
  <2>3. b \in AttemptOf(session[a].inv, session[a].key)
    BY <1>1, <2>2 DEF AttemptOf, PendingAttempt
  <2> QED
    BY <2>1, <2>3
<1>2. attempt[q1] # None /\ attempt[q2] # None
  BY <1>1
<1> QED
  BY <1>0, <1>2 DEF Keeps, UniqueAttempt

\* A session changes when its request loads the invoice or the lines.
LEMMA OnlyLoads ==
  ASSUME IInv, [Next]_vars, NEW q \in Requests, session'[q] # None, session'[q] # session[q]
  PROVE  \/ LoadLines(q)
         \/ \E op \in {"add_line", "issue", "collect"}, i \in Invoices, k \in Keys \cup {None} :
              LoadInvoice(q, op, i, k)
<1> USE DEF db, provider
<1>0. TypeOK
  BY DEF IInv
<1>1. ASSUME NEW r \in Requests, LoadLines(r) \/ (\E op \in {"add_line", "issue", "collect"},
               i \in Invoices, k \in Keys \cup {None} : LoadInvoice(r, op, i, k))
      PROVE r = q
  BY <1>0, <1>1 DEF LoadLines, LoadInvoice, End, TypeOK
<1>2. ASSUME NEW r \in Requests,
             session' = session \/ session' = [session EXCEPT ![r] = None]
      PROVE FALSE
  BY <1>0, <1>2 DEF TypeOK
<1> QED
  BY <1>1, <1>2 DEF Next, Serve, CreateCustomer, CreateInvoice, AddLine, Issue, Lookup,
     InsertAttempt, CallProvider, ReturnFromProvider, FailAttempt, Settle, Abort,
     ProviderExecutes, End, vars

\* What LoadLines adds to a session that goes on.
LEMMA LinesLoaded ==
  ASSUME IInv, NEW q \in Requests, LoadLines(q), session'[q] # None
  PROVE  /\ session[q] # None /\ session[q] \in Session
         /\ session'[q].inv = session[q].inv
         /\ session'[q].status = session[q].status
         /\ session'[q].lines = lines[session[q].inv]
<1>0. TypeOK /\ RequestInv(q)
  BY DEF IInv
<1>1. session[q] \in Session /\ session[q] # None
  BY <1>0, NoneAssumption DEF LoadLines, TypeOK, RequestInv, InFlightAt
<1>2. session'[q] = [session[q] EXCEPT !.lines = lines[session[q].inv]]
  BY <1>0 DEF LoadLines, End, TypeOK
<1> QED
  BY <1>1, <1>2 DEF Session

\* A session is opened on what the invoice's row says, and keeps it.
LEMMA SessionMoves ==
  ASSUME IInv, [Next]_vars, NEW q \in Requests, session'[q] # None
  PROVE  \/ session'[q] = session[q]
         \/ /\ session[q] # None
            /\ session'[q].inv = session[q].inv
            /\ session'[q].status = session[q].status
         \/ session'[q].status = status[session'[q].inv]
<1>1. CASE LoadLines(q)
  BY <1>1, LinesLoaded
<1>2. ASSUME NEW op \in {"add_line", "issue", "collect"}, NEW i \in Invoices,
             NEW k \in Keys \cup {None}, LoadInvoice(q, op, i, k)
      PROVE session'[q].status = status[session'[q].inv]
  BY <1>2 DEF LoadInvoice, End, IInv, TypeOK
<1> QED
  BY <1>1, <1>2, OnlyLoads

LEMMA AnnouncedNext == IInv /\ [Next]_vars => AnnouncedInv'
<1> SUFFICES ASSUME IInv, [Next]_vars PROVE AnnouncedInv'
  OBVIOUS
<1> USE DEF db, provider
<1>0. /\ TypeOK /\ AnnouncedInv /\ Keeps
      /\ \A r \in Requests : RequestInv(r)
  BY NextKeeps DEF IInv
<1>1. \A i \in Invoices : Announced(i) => Announced(i)'
  BY <1>0 DEF Announced, Keeps
<1>2. ASSUME NEW r \in Requests, session[r] # None, session[r].status \in {"issued", "paid"}
      PROVE Announced(session[r].inv)
  BY <1>0, <1>2 DEF AnnouncedInv
<1>3. ASSUME NEW i \in Invoices, status'[i] \in {"issued", "paid"} PROVE Announced(i)'
  <2>1. CASE status'[i] = status[i]
    BY <1>0, <1>1, <1>3, <2>1 DEF AnnouncedInv
  <2>2. CASE status'[i] # status[i]
    <3>1. ~UNCHANGED vars /\ \A j \in Invoices : ~CreateInvoice(j)
      BY <1>0, <1>3, <2>2 DEF vars, CreateInvoice, TypeOK
    <3>2. PICK r \in Requests : Issue(r) \/ Settle(r)
      BY <2>2, <3>1 DEF Next, Serve, CreateCustomer, LoadInvoice, LoadLines, AddLine,
         Lookup, InsertAttempt, CallProvider, ReturnFromProvider, FailAttempt, Abort,
         ProviderExecutes
    <3>3. i = session[r].inv
      BY <1>0, <2>2, <3>2 DEF Issue, Settle, TypeOK
    <3>4. CASE Issue(r)
      <4> DEFINE e == [type |-> "InvoiceIssued", inv |-> session[r].inv,
                       by |-> r, total |-> session[r].lines]
      <4>1. e \in outbox' /\ e.type = "InvoiceIssued" /\ e.inv = i
        BY <3>3, <3>4 DEF Issue
      <4> QED
        BY <4>1 DEF Announced
    <3>5. CASE Settle(r)
      <4>1. session[r] # None /\ session[r].status = "issued"
        BY <1>0, <3>5 DEF Settle, RequestInv, InFlightAt, Paying
      <4> QED
        BY <1>1, <1>2, <3>3, <4>1
    <3> QED
      BY <3>2, <3>4, <3>5
  <2> QED
    BY <2>1, <2>2
<1>4. ASSUME NEW r \in Requests, session'[r] # None, session'[r].status \in {"issued", "paid"}
      PROVE Announced(session[r].inv)'
  <2>1. TypeOK'
    BY TypeNext
  <2>2. session'[r].inv \in Invoices
    BY <1>4, <2>1 DEF TypeOK, Session
  <2>3. \/ session'[r] = session[r]
        \/ /\ session[r] # None
           /\ session'[r].inv = session[r].inv
           /\ session'[r].status = session[r].status
        \/ session'[r].status = status[session'[r].inv]
    BY SessionMoves, <1>4
  <2> QED
    BY <1>0, <1>1, <1>2, <1>4, <2>2, <2>3 DEF AnnouncedInv
<1>5. ASSUME NEW r \in Requests, attempt'[r] # None PROVE Announced(attempt[r].inv)'
  <2>1. CASE attempt[r] = None
    <3>1. pc[r] = "insert" /\ attempt'[r].inv = session[r].inv
      BY <1>0, <1>5, <2>1, OnlyInsert DEF PendingAttempt, TypeOK
    <3>2. session[r] # None /\ session[r].status = "issued" /\ session[r].inv \in Invoices
      BY <1>0, <3>1, AttemptInHand, NoneAssumption DEF RequestInv, InFlightAt, Paying, Session
    <3> QED
      BY <1>1, <1>2, <3>1, <3>2
  <2>2. CASE attempt[r] # None
    <3>1. attempt[r].inv \in Invoices
      BY <1>0, <2>2 DEF TypeOK, Attempt
    <3> QED
      BY <1>0, <1>1, <2>2, <3>1 DEF Keeps, AnnouncedInv
  <2> QED
    BY <2>1, <2>2
<1> QED
  BY <1>3, <1>4, <1>5 DEF AnnouncedInv

LEMMA LinesGrow ==
  IInv /\ [Next]_vars => \A i \in Invoices : lines[i] \subseteq lines'[i]
<1> SUFFICES ASSUME IInv, [Next]_vars, NEW i \in Invoices PROVE lines[i] \subseteq lines'[i]
  OBVIOUS
<1>1. CASE \E r \in Requests : AddLine(r)
  BY <1>1 DEF AddLine, IInv, TypeOK
<1>2. CASE lines' = lines
  BY <1>2
<1> QED
  BY <1>1, <1>2 DEF Next, Serve, CreateCustomer, CreateInvoice, LoadInvoice, LoadLines, Issue,
     Lookup, InsertAttempt, CallProvider, ReturnFromProvider, FailAttempt, Settle, Abort,
     ProviderExecutes, db, vars

\* A request that pays has loaded the lines, in this step or before.
LEMMA PayingMoves ==
  ASSUME IInv, [Next]_vars, NEW q \in Requests, pc'[q] \in Paying
  PROVE  LoadLines(q) \/ (pc[q] \in Paying /\ session'[q] = session[q])
<1> USE DEF End, Goto, Paying
<1>0. TypeOK
  BY DEF IInv
<1>1. ASSUME NEW r \in Requests, NEW op \in {"add_line", "issue", "collect"},
             NEW i \in Invoices, NEW k \in Keys \cup {None}, LoadInvoice(r, op, i, k)
      PROVE  pc[q] \in Paying /\ session'[q] = session[q]
  BY <1>0, <1>1 DEF LoadInvoice, TypeOK
<1>2. ASSUME NEW r \in Requests, Serve(r) \/ Abort(r), r # q
      PROVE  pc[q] \in Paying /\ session'[q] = session[q]
  BY <1>0, <1>2 DEF Serve, Abort, LoadLines, AddLine, Issue, Lookup, InsertAttempt,
     CallProvider, ReturnFromProvider, FailAttempt, Settle, TypeOK
<1>3. CASE Serve(q) \/ Abort(q)
  BY <1>0, <1>3 DEF Serve, Abort, AddLine, Issue, Lookup, InsertAttempt, CallProvider,
     ReturnFromProvider, FailAttempt, Settle, TypeOK
<1>4. CASE UNCHANGED <<pc, session>>
  BY <1>4
<1> QED
  BY <1>1, <1>2, <1>3, <1>4 DEF Next, CreateCustomer, CreateInvoice, ProviderExecutes, vars

LEMMA CoversNext == IInv /\ [Next]_vars => CoversInv'
<1> SUFFICES ASSUME IInv, [Next]_vars PROVE CoversInv'
  OBVIOUS
<1>0. /\ TypeOK /\ CoversInv /\ AnnouncedInv /\ TypeOK'
      /\ \A r \in Requests : RequestInv(r)
      /\ \A r \in Requests : RequestInv(r)'
  BY TypeNext, RequestNext DEF IInv
<1>1. outbox \subseteq outbox' /\ \A i \in Invoices : lines[i] \subseteq lines'[i]
  BY NextKeeps, LinesGrow DEF Keeps
<1>2. ASSUME NEW r \in Requests, session'[r] # None
      PROVE  session'[r].lines \subseteq lines'[session'[r].inv]
  <2>1. session'[r].inv \in Invoices
    BY <1>0, <1>2 DEF TypeOK, Session
  <2>2. CASE session'[r] = session[r]
    BY <1>0, <1>1, <1>2, <2>1, <2>2 DEF CoversInv
  <2>3. CASE LoadLines(r)
    BY <1>1, <1>2, <2>1, <2>3, LinesLoaded
  <2>4. ASSUME NEW op \in {"add_line", "issue", "collect"}, NEW i \in Invoices,
               NEW k \in Keys \cup {None}, LoadInvoice(r, op, i, k)
        PROVE session'[r].lines = {}
    BY <1>0, <1>2, <2>4 DEF LoadInvoice, End, TypeOK
  <2> QED
    BY <1>2, <2>2, <2>3, <2>4, OnlyLoads
<1>3. ASSUME NEW e \in outbox', e.type = "InvoiceIssued"
      PROVE  e.total \subseteq lines'[e.inv]
  <2>1. CASE e \in outbox
    <3>1. e.inv \in Invoices /\ e.total \subseteq lines[e.inv]
      BY <1>0, <1>3, <2>1 DEF TypeOK, Event, CoversInv
    <3> QED
      BY <1>1, <3>1
  <2>2. CASE e \notin outbox
    <3>1. PICK r \in Requests : Issue(r) \/ Settle(r)
      BY <1>3, <2>2 DEF Next, Serve, CreateCustomer, CreateInvoice, LoadInvoice, LoadLines,
         AddLine, Lookup, InsertAttempt, CallProvider, ReturnFromProvider, FailAttempt, Abort,
         ProviderExecutes, db, vars
    <3>2. ~Settle(r)
      BY <1>3, <2>2 DEF Settle
    <3>3. Issue(r) /\ e.inv = session[r].inv /\ e.total = session[r].lines
      BY <1>3, <2>2, <3>1, <3>2 DEF Issue
    <3>4. session[r] # None
      BY <1>0, <3>3 DEF Issue, RequestInv, InFlightAt
    <3> QED
      BY <1>0, <3>3, <3>4 DEF Issue, CoversInv
  <2> QED
    BY <2>1, <2>2
<1>4. ASSUME NEW i \in Invoices, NEW total \in Amount, Covered(i, total)
      PROVE  \E e \in outbox' : e.type = "InvoiceIssued" /\ e.inv = i /\ e.total \subseteq total
  BY <1>1, <1>4 DEF Covered
<1>5. ASSUME NEW r \in Requests, pc'[r] \in Paying, session'[r].status \in {"issued", "paid"}
      PROVE  \E e \in outbox' : /\ e.type = "InvoiceIssued"
                                /\ e.inv = session'[r].inv
                                /\ e.total \subseteq session'[r].lines
  <2>1. session'[r] # None
    BY <1>0, <1>5 DEF RequestInv, Paying, InFlightAt
  <2>2. session'[r].inv \in Invoices /\ session'[r].lines \in Amount
    BY <1>0, <2>1 DEF TypeOK, Session
  <2>3. CASE pc[r] \in Paying /\ session'[r] = session[r]
    BY <1>0, <1>4, <1>5, <2>2, <2>3 DEF CoversInv
  <2>4. CASE LoadLines(r)
    <3>1. /\ session[r] # None
          /\ session'[r].inv = session[r].inv
          /\ session'[r].status = session[r].status
          /\ session'[r].lines = lines[session[r].inv]
      BY <2>1, <2>4, LinesLoaded
    <3>2. PICK e \in outbox : e.type = "InvoiceIssued" /\ e.inv = session[r].inv
      BY <1>0, <1>5, <3>1 DEF AnnouncedInv, Announced
    <3>3. e.total \subseteq lines[e.inv]
      BY <1>0, <3>2 DEF CoversInv
    <3> QED
      BY <1>1, <3>1, <3>2, <3>3
  <2> QED
    BY <1>5, <2>3, <2>4, PayingMoves
<1>6. ASSUME NEW r \in Requests, attempt'[r] # None
      PROVE  \E e \in outbox' : /\ e.type = "InvoiceIssued"
                                /\ e.inv = attempt'[r].inv
                                /\ e.total \subseteq attempt'[r].amount
  <2>1. attempt'[r].inv \in Invoices /\ attempt'[r].amount \in Amount
    BY <1>0, <1>6 DEF TypeOK, Attempt
  <2>2. CASE attempt[r] # None
    <3>1. Covered(attempt[r].inv, attempt[r].amount)
      BY <1>0, <2>2 DEF CoversInv
    <3>2. attempt'[r].inv = attempt[r].inv /\ attempt'[r].amount = attempt[r].amount
      BY <2>2, NextKeeps DEF Keeps
    <3> QED
      BY <1>4, <2>1, <3>1, <3>2
  <2>3. CASE attempt[r] = None
    <3>1. pc[r] = "insert" /\ attempt' = [attempt EXCEPT ![r] = PendingAttempt(r)]
      BY <1>6, <2>3, OnlyInsert
    <3>2. attempt'[r].inv = session[r].inv /\ attempt'[r].amount = session[r].lines
      BY <1>0, <3>1 DEF PendingAttempt, TypeOK
    <3>3. session[r].status = "issued"
      BY <1>0, <3>1 DEF RequestInv, Paying
    <3>4. Covered(session[r].inv, session[r].lines)
      BY <1>0, <3>1, <3>3 DEF CoversInv, Paying
    <3> QED
      BY <1>4, <2>1, <3>2, <3>4
  <2> QED
    BY <2>2, <2>3
<1> QED
  BY <1>2, <1>3, <1>5, <1>6 DEF CoversInv, Covered

LEMMA CallNext == IInv /\ [Next]_vars => CallInv'
<1> SUFFICES ASSUME IInv, [Next]_vars PROVE CallInv'
  OBVIOUS
<1> USE DEF db, provider
<1>0. /\ TypeOK /\ CallInv /\ Keeps
      /\ \A r \in Requests : RequestInv(r)
  BY NextKeeps DEF IInv
<1>1. ASSUME NEW c \in calls'
      PROVE  /\ attempt'[c.by] # None /\ attempt'[c.by].inv = c.inv
             /\ attempt'[c.by].key = c.key /\ attempt'[c.by].amount = c.amount
  <2>1. CASE c \in calls
    BY <1>0, <2>1 DEF CallInv, Keeps, TypeOK, Call
  <2>2. CASE c \notin calls
    <3>1. PICK r \in Requests : CallProvider(r)
      BY <1>1, <2>2 DEF Next, Serve, CreateCustomer, CreateInvoice, LoadInvoice, LoadLines,
         AddLine, Issue, Lookup, InsertAttempt, ReturnFromProvider, FailAttempt, Settle,
         Abort, ProviderExecutes, vars
    <3>2. c = [by |-> r, inv |-> session[r].inv, key |-> session[r].key,
               amount |-> attempt[r].amount]
      BY <2>2, <3>1 DEF CallProvider
    <3>3. attempt[r] = PendingAttempt(r) /\ attempt[r] # None /\ attempt'[r] = attempt[r]
      BY <1>0, <3>1, AttemptInHand, NoneAssumption DEF CallProvider, Recorded
    <3> QED
      BY <3>2, <3>3 DEF PendingAttempt
  <2> QED
    BY <2>1, <2>2
<1>2. ASSUME NEW k \in Keys, ledger'[k] # None
      PROVE  \E c \in calls' : c.key = k /\ c.inv = ledger'[k].inv /\ c.amount = ledger'[k].amount
  <2>1. CASE ledger[k] # None
    BY <1>0, <2>1 DEF CallInv, Keeps
  <2>2. CASE ledger[k] = None
    <3>1. PICK c \in calls, ok \in BOOLEAN : ProviderExecutes(c, ok)
      BY <1>2, <2>2 DEF Next, Serve, CreateCustomer, CreateInvoice, LoadInvoice, LoadLines,
         AddLine, Issue, Lookup, InsertAttempt, CallProvider, ReturnFromProvider, FailAttempt,
         Settle, Abort, vars
    <3>2. ledger' = [ledger EXCEPT ![c.key] = [inv |-> c.inv, amount |-> c.amount, ok |-> ok]]
      BY <3>1 DEF ProviderExecutes
    <3>3. c.key = k
      BY <1>0, <1>2, <2>2, <3>2 DEF TypeOK
    <3>4. ledger'[k].inv = c.inv /\ ledger'[k].amount = c.amount
      BY <1>0, <3>2, <3>3 DEF TypeOK
    <3> QED
      BY <1>0, <3>3, <3>4 DEF Keeps
  <2> QED
    BY <2>1, <2>2
<1> QED
  BY <1>1, <1>2 DEF CallInv

LEMMA ChargedNext == IInv /\ [Next]_vars => SucceededIsCharged'
<1> SUFFICES ASSUME IInv, [Next]_vars, NEW q \in Requests, Succeeded(q)'
             PROVE  ledger'[attempt'[q].key] =
                      [inv |-> attempt'[q].inv, amount |-> attempt'[q].amount, ok |-> TRUE]
  BY DEF SucceededIsCharged
<1>0. /\ TypeOK /\ SucceededIsCharged /\ Keeps
      /\ \A r \in Requests : RequestInv(r)
  BY NextKeeps DEF IInv
<1>1. CASE Succeeded(q)
  <2>1. attempt[q] \in Attempt
    BY <1>0, <1>1 DEF Succeeded, TypeOK
  <2>2. ledger[attempt[q].key] # None
    <3>1. [inv |-> attempt[q].inv, amount |-> attempt[q].amount, ok |-> TRUE] \in Charge
      BY <2>1 DEF Attempt, Charge
    <3> QED
      BY <1>0, <1>1, <3>1, NoneAssumption DEF SucceededIsCharged
  <2> QED
    BY <1>0, <1>1, <2>1, <2>2 DEF SucceededIsCharged, Keeps, Succeeded, Attempt
<1>2. CASE ~Succeeded(q)
  <2>1. /\ Settle(q)
        /\ attempt' = [attempt EXCEPT ![q].status = "succeeded"]
        /\ attempt[q] = PendingAttempt(q)
    BY <1>2, OnlySettle
  <2>2. ledger[session[q].key] =
          [inv |-> session[q].inv, amount |-> session[q].lines, ok |-> TRUE]
    BY <1>0, <2>1 DEF Settle, RequestInv
  <2>3. /\ attempt'[q].inv = session[q].inv
        /\ attempt'[q].key = session[q].key
        /\ attempt'[q].amount = session[q].lines
    BY <1>0, <2>1 DEF PendingAttempt, TypeOK
  <2> QED
    BY <2>1, <2>2, <2>3 DEF Settle, provider
<1> QED
  BY <1>1, <1>2

\* The event of a succeeded attempt.
PaidEvent(r) == [type |-> "InvoicePaid", inv |-> attempt[r].inv, by |-> r,
                 total |-> attempt[r].amount]

PaidEvents == {e \in outbox : e.type = "InvoicePaid"}

LEMMA PaidEventForm ==
  PaidEventPerSuccess <=>
    /\ \A e \in PaidEvents : \E r \in Requests : Succeeded(r) /\ e = PaidEvent(r)
    /\ \A r \in Requests : Succeeded(r) => PaidEvent(r) \in PaidEvents
  BY DEF PaidEventPerSuccess, PaidEvents, PaidEvent

LEMMA PaidEventNext == IInv /\ [Next]_vars => PaidEventPerSuccess'
<1> SUFFICES ASSUME IInv, [Next]_vars PROVE PaidEventPerSuccess'
  OBVIOUS
<1> USE DEF db, provider
<1>0. /\ TypeOK /\ PaidEventPerSuccess /\ Keeps
      /\ \A r \in Requests : RequestInv(r)
  BY NextKeeps DEF IInv
<1>1. ASSUME NEW r \in Requests, Succeeded(r)
      PROVE  Succeeded(r)' /\ PaidEvent(r)' = PaidEvent(r)
  <2>1. attempt'[r] = attempt[r]
    BY <1>0, <1>1 DEF Keeps, Succeeded
  <2> QED
    BY <1>1, <2>1 DEF Succeeded, PaidEvent
<1>2. ASSUME NEW e \in PaidEvents' PROVE \E r \in Requests : Succeeded(r)' /\ e = PaidEvent(r)'
  <2>1. CASE e \in outbox
    <3>1. PICK r \in Requests : Succeeded(r) /\ e = PaidEvent(r)
      BY <1>0, <1>2, <2>1, PaidEventForm DEF PaidEvents
    <3> QED
      BY <1>1, <3>1
  <2>2. CASE e \notin outbox
    <3>1. PICK r \in Requests : Issue(r) \/ Settle(r)
      BY <1>2, <2>2 DEF PaidEvents, Next, Serve, CreateCustomer, CreateInvoice, LoadInvoice,
         LoadLines, AddLine, Lookup, InsertAttempt, CallProvider, ReturnFromProvider,
         FailAttempt, Abort, ProviderExecutes, vars
    <3>2. ~Issue(r)
      BY <1>2, <2>2 DEF Issue, PaidEvents
    <3>3. Settle(r) /\ attempt[r] = PendingAttempt(r) /\ attempt[r] \in Attempt
      BY <1>0, <3>1, <3>2, AttemptInHand DEF Settle, Recorded
    <3>4. attempt' = [attempt EXCEPT ![r].status = "succeeded"]
      BY <1>2, <2>2, <3>3 DEF Settle, PaidEvents
    <3>5. e = [type |-> "InvoicePaid", inv |-> session[r].inv, by |-> r,
               total |-> session[r].lines]
      BY <1>2, <2>2, <3>3 DEF Settle, PaidEvents
    <3>6. attempt'[r] = [attempt[r] EXCEPT !.status = "succeeded"]
      BY <1>0, <3>4 DEF TypeOK
    <3>7. /\ attempt'[r] # None /\ attempt'[r].status = "succeeded"
          /\ attempt'[r].inv = session[r].inv /\ attempt'[r].amount = session[r].lines
      BY <3>3, <3>6, NoneAssumption DEF PendingAttempt, Attempt
    <3> QED
      BY <3>5, <3>7 DEF Succeeded, PaidEvent
  <2> QED
    BY <2>1, <2>2
<1>3. ASSUME NEW r \in Requests, Succeeded(r)' PROVE (PaidEvent(r) \in PaidEvents)'
  <2>1. CASE Succeeded(r)
    <3>1. PaidEvent(r) \in PaidEvents
      BY <1>0, <2>1, PaidEventForm
    <3> QED
      BY <1>0, <1>1, <2>1, <3>1 DEF PaidEvents, Keeps
  <2>2. CASE ~Succeeded(r)
    <3>1. /\ Settle(r) /\ session[r].status = "issued"
          /\ attempt' = [attempt EXCEPT ![r].status = "succeeded"]
          /\ attempt[r] = PendingAttempt(r)
      BY <1>3, <2>2, OnlySettle
    <3>2. attempt'[r].inv = session[r].inv /\ attempt'[r].amount = session[r].lines
      BY <1>0, <3>1 DEF PendingAttempt, TypeOK
    <3>3. [type |-> "InvoicePaid", inv |-> session[r].inv, by |-> r,
           total |-> session[r].lines] \in outbox'
      BY <3>1 DEF Settle
    <3> QED
      BY <3>2, <3>3 DEF PaidEvents, PaidEvent
  <2> QED
    BY <2>1, <2>2
<1>4. (PaidEventPerSuccess <=>
         /\ \A e \in PaidEvents : \E r \in Requests : Succeeded(r) /\ e = PaidEvent(r)
         /\ \A r \in Requests : Succeeded(r) => PaidEvent(r) \in PaidEvents)'
  BY PaidEventForm, PTL
<1> QED
  BY <1>2, <1>3, <1>4

----------------------------------------------------------------------------
(* The theorems. *)

\* What a request has in hand at each place of collect_payment, and what is on record.
THEOREM Inductive == Spec => []IInv
<1>1. Init => IInv
  BY InitIInv
<1>2. IInv /\ [Next]_vars => IInv'
  BY TypeNext, RequestNext, AnnouncedNext, CoversNext, UniqueNext, CallNext, ChargedNext,
     PaidEventNext DEF IInv
<1> QED
  BY <1>1, <1>2, PTL DEF Spec

\* The state is well-typed.
THEOREM TypeCorrect == Spec => []TypeOK
<1>1. IInv => TypeOK
  BY DEF IInv
<1> QED
  BY <1>1, Inductive, PTL

\* A succeeded attempt was charged, for its invoice and amount.
THEOREM SucceededAreCharged == Spec => []SucceededIsCharged
<1>1. IInv => SucceededIsCharged
  BY DEF IInv
<1> QED
  BY <1>1, Inductive, PTL

\* No money moves without a committed attempt to account for it.
THEOREM ChargesHaveAttempts == Spec => []ChargeHasAttempt
<1>1. IInv => ChargeHasAttempt
  <2> SUFFICES ASSUME IInv, NEW k \in Keys, ledger[k] # None
               PROVE  \E r \in Requests : /\ attempt[r] # None
                                          /\ attempt[r].key = k
                                          /\ attempt[r].inv = ledger[k].inv
                                          /\ attempt[r].amount = ledger[k].amount
    BY DEF ChargeHasAttempt
  <2>1. PICK c \in calls : c.key = k /\ c.inv = ledger[k].inv /\ c.amount = ledger[k].amount
    BY DEF IInv, CallInv
  <2>2. c.by \in Requests
    BY DEF IInv, TypeOK, Call
  <2> QED
    BY <2>1, <2>2 DEF IInv, CallInv
<1> QED
  BY <1>1, Inductive, PTL

\* However many requests retry a payment together, one call per invoice and
\* idempotency key leaves for the provider.
THEOREM OneCall == Spec => []OneCallPerKey
<1>1. IInv => OneCallPerKey
  <2> SUFFICES ASSUME IInv, NEW c1 \in calls, NEW c2 \in calls,
                      c1.inv = c2.inv, c1.key = c2.key
               PROVE  c1 = c2
    BY DEF OneCallPerKey
  <2>1. c1 \in Call /\ c2 \in Call
    BY DEF IInv, TypeOK
  <2>2. c1.by = c2.by
    BY <2>1 DEF IInv, CallInv, UniqueAttempt, Call
  <2>3. c1.amount = c2.amount
    BY <2>2 DEF IInv, CallInv
  <2> QED
    BY <2>1, <2>2, <2>3 DEF Call
<1> QED
  BY <1>1, Inductive, PTL

\* Nobody is charged for an invoice whose issue was not announced, nor less than
\* was announced.
THEOREM ChargedWereIssued == Spec => []ChargedWasIssued
<1>1. IInv => ChargedWasIssued
  <2> SUFFICES ASSUME IInv, NEW k \in Keys, ledger[k] # None
               PROVE  Covered(ledger[k].inv, ledger[k].amount)
    BY DEF ChargedWasIssued, Covered
  <2>1. PICK c \in calls : c.inv = ledger[k].inv /\ c.amount = ledger[k].amount
    BY DEF IInv, CallInv
  <2>2. c.by \in Requests
    BY DEF IInv, TypeOK, Call
  <2> QED
    BY <2>1, <2>2 DEF IInv, CallInv, CoversInv
<1> QED
  BY <1>1, Inductive, PTL

\* The InvoicePaid events are those of the succeeded attempts, one each.
THEOREM PaidEvents_Succeeded == Spec => []PaidEventPerSuccess
<1>1. IInv => PaidEventPerSuccess
  BY DEF IInv
<1> QED
  BY <1>1, Inductive, PTL

\* An attempt is settled once, and what it is for never changes.
THEOREM AttemptsAreFinal == Spec => AttemptIsFinal
<1>1. IInv /\ [Next]_vars =>
        [\A r \in Requests : attempt[r] # None =>
           /\ attempt'[r] # None
           /\ attempt'[r] # attempt[r] =>
                /\ attempt[r].status = "pending"
                /\ [attempt'[r] EXCEPT !.status = "pending"] = attempt[r]]_vars
  <2> SUFFICES ASSUME IInv, [Next]_vars, NEW r \in Requests, attempt[r] # None
               PROVE  /\ attempt'[r] # None
                      /\ attempt'[r] # attempt[r] =>
                           /\ attempt[r].status = "pending"
                           /\ [attempt'[r] EXCEPT !.status = "pending"] = attempt[r]
    OBVIOUS
  <2>1. Keeps /\ attempt[r] \in Attempt /\ attempt'[r] \in Attempt \cup {None}
    BY NextKeeps, TypeNext DEF IInv, TypeOK
  <2> QED
    BY <2>1 DEF Keeps, Attempt
<1> QED
  BY <1>1, Inductive, PTL DEF Spec, AttemptIsFinal
=============================================================================
