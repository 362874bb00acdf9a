------------------------------ MODULE Billing ------------------------------
(***************************************************************************)
(* The invoice collection service of "evals/run 1/test": BillingService,   *)
(* the Invoice aggregate, its repositories and the database they share.    *)
(*                                                                         *)
(* A request is one HTTP call with a database session of its own           *)
(* (deps/db.py).  Every action of a request is one round trip: a SELECT,   *)
(* a transaction's writes and its commit, or the call to the payment       *)
(* provider.  Between two of them any other request may run, here or in    *)
(* another process.  What a session has read stays as it was read: the     *)
(* identity map returns the loaded object, and the sessions are built with *)
(* expire_on_commit=False (db/__init__.py:29).                             *)
(*                                                                         *)
(* A line, a payment attempt and an event are named by the request that    *)
(* created them (each request creates at most one, under a fresh uuid4).   *)
(* An amount is the set of lines it adds up.                               *)
(***************************************************************************)
EXTENDS FiniteSets, Integers

CONSTANTS
  Customers, Invoices, Keys, Requests,
  None,               \* no row, no record
  MaxInFlight         \* bound: requests between their first read and their answer

ASSUME BillingAssumption == MaxInFlight \in Nat

VARIABLES
  customers,  \* the rows of customers
  status,     \* status[i]: the row of invoices, "absent" when there is none
  lines,      \* lines[i]: the rows of invoice_lines
  attempt,    \* attempt[r]: the row of payment_attempts r inserted, or None
  outbox,     \* the rows of outbox_entries
  pc,         \* pc[r]: the next round trip of request r, or how it ended
  session,    \* session[r]: what r was asked and what its session has loaded
  calls,      \* the requests that left for the payment provider
  ledger      \* the provider's record per idempotency key, or None

db == <<customers, status, lines, attempt, outbox>>
provider == <<calls, ledger>>
vars == <<customers, status, lines, attempt, outbox, pc, session, calls, ledger>>

----------------------------------------------------------------------------
(* The shape of the state. *)

Status == {"absent", "draft", "issued", "paid"}
Amount == SUBSET Requests

Attempt == [inv : Invoices, key : Keys, amount : Amount,
            status : {"pending", "succeeded", "failed"}]
Event   == [type : {"InvoiceIssued", "InvoicePaid"},
            inv : Invoices, by : Requests, total : Amount]
Call    == [by : Requests, inv : Invoices, key : Keys, amount : Amount]
Charge  == [inv : Invoices, amount : Amount, ok : BOOLEAN]
Session == [op : {"add_line", "issue", "collect"}, inv : Invoices,
            key : Keys \cup {None}, status : Status, lines : Amount]

InFlightAt == {"lines", "write", "lookup", "insert", "call", "calling",
               "settle", "decline", "fail"}
EndedAt    == {"done", "refused", "raised", "gone"}

TypeOK ==
  /\ customers \subseteq Customers
  /\ status \in [Invoices -> Status]
  /\ lines \in [Invoices -> Amount]
  /\ attempt \in [Requests -> Attempt \cup {None}]
  /\ outbox \subseteq Event
  /\ pc \in [Requests -> {"idle"} \cup InFlightAt \cup EndedAt]
  /\ session \in [Requests -> Session \cup {None}]
  /\ calls \subseteq Call
  /\ ledger \in [Keys -> Charge \cup {None}]

\* "no row" is not a row.
ASSUME NoneAssumption ==
  None \notin Keys /\ None \notin Attempt /\ None \notin Charge /\ None \notin Session

InFlight == {r \in Requests : pc[r] \in InFlightAt}

Init ==
  /\ customers = {}
  /\ status = [i \in Invoices |-> "absent"]
  /\ lines = [i \in Invoices |-> {}]
  /\ attempt = [r \in Requests |-> None]
  /\ outbox = {}
  /\ pc = [r \in Requests |-> "idle"]
  /\ session = [r \in Requests |-> None]
  /\ calls = {}
  /\ ledger = [k \in Keys |-> None]

----------------------------------------------------------------------------
(* A request answers or dies: its session is closed and forgotten. *)

Goto(r, place) == pc' = [pc EXCEPT ![r] = place]

End(r, how) ==
  /\ pc' = [pc EXCEPT ![r] = how]
  /\ session' = [session EXCEPT ![r] = None]

----------------------------------------------------------------------------
(* Customers and drafts.  Nothing deletes a customer or an invoice, so the *)
(* transaction is one step.                                                *)

CreateCustomer(c) ==
  /\ c \notin customers
  /\ customers' = customers \cup {c}
  /\ UNCHANGED <<status, lines, attempt, outbox, pc, session, provider>>

CreateInvoice(i) ==
  /\ customers # {}
  /\ status[i] = "absent"
  /\ status' = [status EXCEPT ![i] = "draft"]
  /\ UNCHANGED <<customers, lines, attempt, outbox, pc, session, provider>>

----------------------------------------------------------------------------
(* get_or_raise: SELECT the invoice, then selectinload its lines. *)

LoadInvoice(r, op, i, k) ==
  /\ pc[r] = "idle"
  /\ op = "collect" <=> k # None      \* only a payment carries a key
  /\ Cardinality(InFlight) < MaxInFlight
  /\ IF status[i] = "absent"
     THEN End(r, "refused")
     ELSE /\ session' = [session EXCEPT ![r] =
                [op |-> op, inv |-> i, key |-> k, status |-> status[i], lines |-> {}]]
          /\ Goto(r, "lines")
  /\ UNCHANGED <<db, provider>>

\* A line is added whatever the status.
MayWrite_LineAnytime(s) ==
  s.op = "issue" => s.status = "draft" /\ s.lines # {}

\* The guards of Invoice.add_line and Invoice.issue, on what was loaded.
MayWrite(s) ==
  /\ s.status = "draft"
  /\ s.op = "issue" => s.lines # {}

LoadLines(r) ==
  /\ pc[r] = "lines"
  /\ LET s == [session[r] EXCEPT !.lines = lines[session[r].inv]]
     IN  IF s.op = "collect" \/ MayWrite(s)
         THEN /\ session' = [session EXCEPT ![r] = s]
              /\ Goto(r, IF s.op = "collect" THEN "lookup" ELSE "write")
         ELSE End(r, "refused")
  /\ UNCHANGED <<db, provider>>

----------------------------------------------------------------------------
(* The commit of add_invoice_line: an INSERT of the line, no UPDATE of the *)
(* invoice.                                                                *)

AddLine(r) ==
  /\ pc[r] = "write"
  /\ session[r].op = "add_line"
  /\ lines' = [lines EXCEPT ![session[r].inv] = @ \cup {r}]
  /\ End(r, "done")
  /\ UNCHANGED <<customers, status, attempt, outbox, provider>>

(* The commit of issue_invoice: UPDATE by primary key, and the event. *)

Issue(r) ==
  /\ pc[r] = "write"
  /\ session[r].op = "issue"
  /\ status' = [status EXCEPT ![session[r].inv] = "issued"]
  /\ outbox' = outbox \cup {[type |-> "InvoiceIssued", inv |-> session[r].inv,
                             by |-> r, total |-> session[r].lines]}
  /\ End(r, "done")
  /\ UNCHANGED <<customers, lines, attempt, provider>>

----------------------------------------------------------------------------
(* collect_payment. *)

AttemptOf(i, k) ==
  {r \in Requests : attempt[r] # None /\ attempt[r].inv = i /\ attempt[r].key = k}

\* Any invoice that is not paid may be collected.
Lookup_NotPaid(r) ==
  /\ pc[r] = "lookup"
  /\ IF AttemptOf(session[r].inv, session[r].key) # {} \/ session[r].status = "paid"
     THEN End(r, "refused")
     ELSE Goto(r, "insert") /\ UNCHANGED session
  /\ UNCHANGED <<db, provider>>

\* SELECT the attempt by its idempotency key: an existing one is the answer,
\* otherwise Invoice.start_payment_attempt decides on the loaded status.
Lookup(r) ==
  /\ pc[r] = "lookup"
  /\ IF AttemptOf(session[r].inv, session[r].key) # {}
     THEN End(r, "done")
     ELSE IF session[r].status = "issued"
          THEN Goto(r, "insert") /\ UNCHANGED session
          ELSE End(r, "refused")
  /\ UNCHANGED <<db, provider>>

PendingAttempt(r) ==
  [inv |-> session[r].inv, key |-> session[r].key,
   amount |-> session[r].lines, status |-> "pending"]

\* Without the unique constraint.
InsertAttempt_NoConstraint(r) ==
  /\ pc[r] = "insert"
  /\ attempt' = [attempt EXCEPT ![r] = PendingAttempt(r)]
  /\ Goto(r, "call")
  /\ UNCHANGED <<customers, status, lines, outbox, session, provider>>

\* ON CONFLICT, the existing attempt is started again.
InsertAttempt_Upsert(r) ==
  /\ pc[r] = "insert"
  /\ LET old == AttemptOf(session[r].inv, session[r].key)
     IN  attempt' = [q \in Requests |-> IF q \in old \/ (old = {} /\ q = r)
                                       THEN PendingAttempt(r) ELSE attempt[q]]
  /\ IF attempt'[r] = None THEN End(r, "refused") ELSE Goto(r, "call") /\ UNCHANGED session
  /\ UNCHANGED <<customers, status, lines, outbox, provider>>

\* INSERT the pending attempt and commit.  The unique constraint on
\* (invoice_id, idempotency_key) turns a loser into a 409.
InsertAttempt(r) ==
  /\ pc[r] = "insert"
  /\ IF AttemptOf(session[r].inv, session[r].key) # {}
     THEN End(r, "refused") /\ UNCHANGED attempt
     ELSE /\ attempt' = [attempt EXCEPT ![r] = PendingAttempt(r)]
          /\ Goto(r, "call")
          /\ UNCHANGED session
  /\ UNCHANGED <<customers, status, lines, outbox, provider>>

\* The amount is recomputed when the call is made.
CallProvider_LateTotal(r) ==
  /\ pc[r] = "call"
  /\ calls' = calls \cup {[by |-> r, inv |-> session[r].inv, key |-> session[r].key,
                           amount |-> lines[session[r].inv]]}
  /\ Goto(r, "calling")
  /\ UNCHANGED <<db, session, ledger>>

CallProvider(r) ==
  /\ pc[r] = "call"
  /\ calls' = calls \cup {[by |-> r, inv |-> session[r].inv, key |-> session[r].key,
                           amount |-> attempt[r].amount]}
  /\ Goto(r, "calling")
  /\ UNCHANGED <<db, session, ledger>>

(* External: the provider.  It executes a key once, and may do so after    *)
(* the caller gave up.  A decline is a reply with status "failed".         *)

ProviderExecutes(c, ok) ==
  /\ ledger[c.key] = None
  /\ ledger' = [ledger EXCEPT ![c.key] = [inv |-> c.inv, amount |-> c.amount, ok |-> ok]]
  /\ UNCHANGED <<db, pc, session, calls>>

\* The reply for r's own payment; the provider answers a key it has seen
\* for another invoice with a 4xx.
Replied(r, ok) ==
  /\ ledger[session[r].key] # None
  /\ ledger[session[r].key].inv = session[r].inv
  /\ ledger[session[r].key].ok = ok

\* Any reply counts as a payment.
ReturnFromProvider_AnyReply(r) ==
  /\ pc[r] = "calling"
  /\ \/ ledger[session[r].key] # None /\ Goto(r, "settle") /\ UNCHANGED session
     \/ Goto(r, "fail") /\ UNCHANGED session
  /\ UNCHANGED <<db, provider>>

\* PaymentProviderClient.collect_payment returns or raises.  A reply can be
\* lost, so each exception may follow a charge as well as none.  Only
\* PaymentProviderException is caught: a 4xx, a 429 and a body that does not
\* parse leave the service.
ReturnFromProvider(r) ==
  /\ pc[r] = "calling"
  /\ \/ Replied(r, TRUE) /\ Goto(r, "settle") /\ UNCHANGED session
     \/ Replied(r, FALSE) /\ Goto(r, "decline") /\ UNCHANGED session
     \/ Goto(r, "fail") /\ UNCHANGED session
     \/ End(r, "raised")
  /\ UNCHANGED <<db, provider>>

\* A provider status the column does not know is stored.
FailAttempt_Processing(r) ==
  /\ pc[r] \in {"fail", "decline"}
  /\ attempt' = [attempt EXCEPT ![r].status = "processing"]
  /\ End(r, "done")
  /\ UNCHANGED <<customers, status, lines, outbox, provider>>

\* The transaction of the except branch (the exception is raised again) and
\* of a declined payment.
FailAttempt(r) ==
  /\ pc[r] \in {"fail", "decline"}
  /\ attempt' = [attempt EXCEPT ![r].status = "failed"]
  /\ End(r, IF pc[r] = "fail" THEN "raised" ELSE "done")
  /\ UNCHANGED <<customers, status, lines, outbox, provider>>

\* The event is built from the lines of now.
Settle_FreshTotal(r) ==
  /\ pc[r] = "settle"
  /\ attempt' = [attempt EXCEPT ![r].status = "succeeded"]
  /\ status' = [status EXCEPT ![session[r].inv] = "paid"]
  /\ outbox' = outbox \cup {[type |-> "InvoicePaid", inv |-> session[r].inv,
                             by |-> r, total |-> lines[session[r].inv]]}
  /\ End(r, "done")
  /\ UNCHANGED <<customers, lines, provider>>

\* The invoice stays issued.
Settle_NotMarked(r) ==
  /\ pc[r] = "settle"
  /\ attempt' = [attempt EXCEPT ![r].status = "succeeded"]
  /\ outbox' = outbox \cup {[type |-> "InvoicePaid", inv |-> session[r].inv,
                             by |-> r, total |-> session[r].lines]}
  /\ End(r, "done")
  /\ UNCHANGED <<customers, status, lines, provider>>

\* The transaction of a succeeded payment.  session.get returns the invoice
\* loaded at the start, so mark_paid tests the status read then.
Settle(r) ==
  /\ pc[r] = "settle"
  /\ IF session[r].status = "paid"
     THEN End(r, "raised") /\ UNCHANGED <<status, attempt, outbox>>
     ELSE /\ attempt' = [attempt EXCEPT ![r].status = "succeeded"]
          /\ status' = [status EXCEPT ![session[r].inv] = "paid"]
          /\ outbox' = outbox \cup {[type |-> "InvoicePaid", inv |-> session[r].inv,
                                     by |-> r, total |-> session[r].lines]}
          /\ End(r, "done")
  /\ UNCHANGED <<customers, lines, provider>>

----------------------------------------------------------------------------
\* The process stops or loses its database connection: what is not committed
\* is rolled back, what left for the provider is not called back.
Abort(r) ==
  /\ pc[r] \in InFlightAt
  /\ End(r, "gone")
  /\ UNCHANGED <<db, provider>>

Serve(r) ==
  \/ LoadLines(r) \/ AddLine(r) \/ Issue(r) \/ Lookup(r) \/ InsertAttempt(r)
  \/ CallProvider(r) \/ ReturnFromProvider(r) \/ FailAttempt(r) \/ Settle(r)

Next ==
  \/ \E c \in Customers : CreateCustomer(c)
  \/ \E i \in Invoices : CreateInvoice(i)
  \/ \E r \in Requests :
       \/ \E op \in {"add_line", "issue", "collect"}, i \in Invoices, k \in Keys \cup {None} :
            LoadInvoice(r, op, i, k)
       \/ Serve(r)
       \/ Abort(r)
  \/ \E c \in calls, ok \in BOOLEAN : ProviderExecutes(c, ok)

Spec == Init /\ [][Next]_vars

----------------------------------------------------------------------------
(* What must hold with any number of requests in flight. *)

Succeeded(r) == attempt[r] # None /\ attempt[r].status = "succeeded"

\* A succeeded attempt was charged: the provider executed its key for the same
\* invoice and amount, whoever else was paying and whoever died on the way.
SucceededIsCharged ==
  \A r \in Requests : Succeeded(r) =>
    ledger[attempt[r].key] =
      [inv |-> attempt[r].inv, amount |-> attempt[r].amount, ok |-> TRUE]

\* No money moves without a committed attempt to account for it: the attempt is
\* inserted before the provider is called, and a crash in between leaves it.
ChargeHasAttempt ==
  \A k \in Keys : ledger[k] # None =>
    \E r \in Requests : /\ attempt[r] # None
                        /\ attempt[r].key = k
                        /\ attempt[r].inv = ledger[k].inv
                        /\ attempt[r].amount = ledger[k].amount

\* However many clients retry a payment together, one request per invoice and
\* idempotency key reaches the provider: the others get the existing attempt
\* or a 409.
OneCallPerKey ==
  \A c1, c2 \in calls : (c1.inv = c2.inv /\ c1.key = c2.key) => c1 = c2

\* Nobody is charged for a draft, nor less than an issue announced: the event is
\* committed before a payment can read the status, and the status is read before
\* the lines.  (It may be more, and there may be several announcements: see
\* FollowsLifecycle.)
ChargedWasIssued ==
  \A k \in Keys : ledger[k] # None =>
    \E e \in outbox : /\ e.type = "InvoiceIssued"
                     /\ e.inv = ledger[k].inv
                     /\ e.total \subseteq ledger[k].amount

\* The transactional outbox: exactly one InvoicePaid event per succeeded attempt,
\* announcing the amount that was charged, and none without one.
PaidEventPerSuccess ==
  {e \in outbox : e.type = "InvoicePaid"} =
    {[type |-> "InvoicePaid", inv |-> attempt[r].inv, by |-> r,
      total |-> attempt[r].amount] : r \in {q \in Requests : Succeeded(q)}}

\* An attempt that succeeded or failed keeps its outcome, and what it was for
\* never changes.
AttemptIsFinal ==
  [][\A r \in Requests : attempt[r] # None =>
       /\ attempt'[r] # None
       /\ attempt'[r] # attempt[r] =>
            /\ attempt[r].status = "pending"
            /\ [attempt'[r] EXCEPT !.status = "pending"] = attempt[r]]_vars

----------------------------------------------------------------------------
(* The domain rules of the service (evals/README.md, "Domain rules").  They *)
(* hold when requests are served one at a time, as in the tests.           *)

\* "a paid invoice cannot be paid again".
NotPaidTwice ==
  \A r1, r2 \in Requests :
    (Succeeded(r1) /\ Succeeded(r2) /\ attempt[r1].inv = attempt[r2].inv) => r1 = r2

\* "once issued, an invoice cannot be modified", and it is paid once, for the total
\* that was announced: Billing implements the invoice's life cycle.
Life == INSTANCE InvoiceLifecycle WITH
  Lines <- Requests,
  bill  <- [i \in Invoices |->
              UNION {e.total : e \in {e \in outbox : e.type = "InvoiceIssued" /\ e.inv = i}}],
  paid  <- [i \in Invoices |->
              {attempt[r].amount : r \in {q \in Requests : Succeeded(q) /\ attempt[q].inv = i}}]

FollowsLifecycle == Life!LSpec
=============================================================================
