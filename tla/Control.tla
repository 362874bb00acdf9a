------------------------------ MODULE Control ------------------------------
(***************************************************************************)
(* The invoice collection service of "evals/run 1/control": one service    *)
(* class over one database session per request, an e-mail sent inside the  *)
(* request, a payment provider called once and without retries.            *)
(*                                                                         *)
(* As in Billing, an action of a request is one round trip, a session      *)
(* keeps what it has loaded (database.py:11), a line, an attempt, an event *)
(* and an e-mail are named by the request that made them, and an amount is *)
(* the set of lines it adds up.                                            *)
(***************************************************************************)
EXTENDS FiniteSets, Integers

CONSTANTS
  Customers, Invoices, Keys, Requests,
  None,               \* no row, no record
  MaxInFlight         \* bound: requests between their first read and their answer

VARIABLES
  customers,  \* the rows of customers
  status,     \* status[i]: the row of invoices, "absent" when there is none
  lines,      \* lines[i]: the rows of invoice_lines
  attempt,    \* attempt[r]: the row of payment_attempts r inserted, or None
  events,     \* the rows of events; nothing reads them
  pc,         \* pc[r]: the next round trip of request r, or how it ended
  session,    \* session[r]: what r was asked and what its session has loaded
  answer,     \* answer[r]: what r's client was shown, or None
  letters,    \* the requests that left for the e-mail provider
  mails,      \* the letters the e-mail provider accepted
  calls,      \* the requests that left for the payment provider
  ledger      \* the payment provider's record per idempotency key, or None

db == <<customers, status, lines, attempt, events>>
email == <<letters, mails>>
provider == <<calls, ledger>>
vars == <<customers, status, lines, attempt, events, pc, session, answer,
          letters, mails, calls, ledger>>

----------------------------------------------------------------------------
(* The shape of the state. *)

Status == {"absent", "draft", "issued", "paid"}
Amount == SUBSET Requests

Attempt == [inv : Invoices, key : Keys, amount : Amount,
            status : {"processing", "succeeded", "failed"}]
Event   == [type : {"invoice.issued", "invoice.paid"},
            inv : Invoices, by : Requests, total : Amount]
Letter  == [by : Requests, inv : Invoices, total : Amount]
Call    == [by : Requests, inv : Invoices, key : Keys, amount : Amount]
Charge  == [inv : Invoices, amount : Amount, ok : BOOLEAN]
Session == [op : {"read", "add_line", "issue", "collect"}, inv : Invoices,
            key : Keys \cup {None}, status : Status, lines : Amount]

InvoiceRead == [inv : Invoices, status : Status, lines : Amount]
PaymentAttemptRead == [by : Requests, status : {"processing", "succeeded", "failed"},
                       invoice_status : Status]

InFlightAt == {"lines", "write", "reload", "relines", "mail", "mailing", "lookup",
               "insert", "call", "calling", "settle", "decline", "fail"}
EndedAt    == {"done", "refused", "raised", "gone"}

TypeOK ==
  /\ customers \subseteq Customers
  /\ status \in [Invoices -> Status]
  /\ lines \in [Invoices -> Amount]
  /\ attempt \in [Requests -> Attempt \cup {None}]
  /\ events \subseteq Event
  /\ pc \in [Requests -> {"idle"} \cup InFlightAt \cup EndedAt]
  /\ session \in [Requests -> Session \cup {None}]
  /\ answer \in [Requests -> InvoiceRead \cup PaymentAttemptRead \cup {None}]
  /\ letters \subseteq Letter /\ mails \subseteq letters
  /\ calls \subseteq Call
  /\ ledger \in [Keys -> Charge \cup {None}]

ASSUME ControlAssumption == MaxInFlight \in Nat

\* "no row" is not a row.
ASSUME NoneAssumption ==
  None \notin Keys /\ None \notin Attempt /\ None \notin Charge /\ None \notin Session

InFlight == {r \in Requests : pc[r] \in InFlightAt}

Init ==
  /\ customers = {}
  /\ status = [i \in Invoices |-> "absent"]
  /\ lines = [i \in Invoices |-> {}]
  /\ attempt = [r \in Requests |-> None]
  /\ events = {}
  /\ pc = [r \in Requests |-> "idle"]
  /\ session = [r \in Requests |-> None]
  /\ answer = [r \in Requests |-> None]
  /\ letters = {} /\ mails = {}
  /\ calls = {}
  /\ ledger = [k \in Keys |-> None]

Goto(r, place) == pc' = [pc EXCEPT ![r] = place] /\ UNCHANGED answer

\* A request fails or dies: its session is closed and forgotten.
End(r, how) ==
  /\ pc' = [pc EXCEPT ![r] = how]
  /\ session' = [session EXCEPT ![r] = None]
  /\ UNCHANGED answer

Answers(r, a) ==
  /\ pc' = [pc EXCEPT ![r] = "done"]
  /\ session' = [session EXCEPT ![r] = None]
  /\ answer' = [answer EXCEPT ![r] = a]

----------------------------------------------------------------------------
(* Customers and drafts. *)

CreateCustomer(c) ==
  /\ c \notin customers
  /\ customers' = customers \cup {c}
  /\ UNCHANGED <<status, lines, attempt, events, pc, session, answer, email, provider>>

CreateInvoice(i) ==
  /\ customers # {}
  /\ status[i] = "absent"
  /\ status' = [status EXCEPT ![i] = "draft"]
  /\ UNCHANGED <<customers, lines, attempt, events, pc, session, answer, email, provider>>

----------------------------------------------------------------------------
(* _load_invoice: SELECT the invoice, then selectinload its lines. *)

\* The routes of an invoice; only a payment carries a key, and it must.
Asked == {[op |-> op, key |-> None] : op \in {"read", "add_line", "issue"}}
           \cup {[op |-> "collect", key |-> k] : k \in Keys}

LoadInvoice(r, op, i, k) ==
  /\ pc[r] = "idle"
  /\ Cardinality(InFlight) < MaxInFlight
  /\ IF status[i] = "absent"
     THEN End(r, "refused")
     ELSE /\ session' = [session EXCEPT ![r] =
                [op |-> op, inv |-> i, key |-> k, status |-> status[i], lines |-> {}]]
          /\ Goto(r, "lines")
  /\ UNCHANGED <<db, email, provider>>

\* Where the guards of the operation let it go on.
After(s) ==
  CASE s.op = "read"                                           -> "done"
    [] s.op = "collect"                                        -> "lookup"
    [] s.op = "add_line" /\ s.status = "draft"                 -> "write"
    [] s.op = "issue" /\ s.status = "draft" /\ s.lines # {}    -> "mail"
    [] OTHER                                                   -> "refused"

\* invoice_to_read; the total follows from the lines.
InvoiceToRead(s) == [inv |-> s.inv, status |-> s.status, lines |-> s.lines]

LoadLines(r) ==
  /\ pc[r] = "lines"
  /\ LET s == [session[r] EXCEPT !.lines = lines[session[r].inv]]
     IN  CASE After(s) = "done"    -> Answers(r, InvoiceToRead(s))
           [] After(s) = "refused" -> End(r, "refused")
           [] OTHER                -> session' = [session EXCEPT ![r] = s] /\ Goto(r, After(s))
  /\ UNCHANGED <<db, email, provider>>

\* The answer to add_line and issue is the invoice loaded once more, its row...
Reload(r) ==
  /\ pc[r] = "reload"
  /\ session' = [session EXCEPT ![r].status = status[session[r].inv]]
  /\ Goto(r, "relines")
  /\ UNCHANGED <<db, email, provider>>

\* Without populate_existing.
ReloadLines_KeepsLoaded(r) ==
  /\ pc[r] = "relines"
  /\ Answers(r, InvoiceToRead(session[r]))
  /\ UNCHANGED <<db, email, provider>>

\* ... and its lines, which populate_existing writes over what was loaded before.
ReloadLines(r) ==
  /\ pc[r] = "relines"
  /\ Answers(r, InvoiceToRead([session[r] EXCEPT !.lines = lines[session[r].inv]]))
  /\ UNCHANGED <<db, email, provider>>

\* The commit writes every column of the invoice as it was loaded.
AddLine_WholeRow(r) ==
  /\ pc[r] = "write"
  /\ session[r].op = "add_line"
  /\ lines' = [lines EXCEPT ![session[r].inv] = @ \cup {r}]
  /\ status' = [status EXCEPT ![session[r].inv] = session[r].status]
  /\ Goto(r, "reload")
  /\ UNCHANGED <<customers, attempt, events, session, email, provider>>

\* The commit of add_invoice_line: an INSERT of the line.
AddLine(r) ==
  /\ pc[r] = "write"
  /\ session[r].op = "add_line"
  /\ lines' = [lines EXCEPT ![session[r].inv] = @ \cup {r}]
  /\ Goto(r, "reload")
  /\ UNCHANGED <<customers, status, attempt, events, session, email, provider>>

----------------------------------------------------------------------------
(* issue_invoice: the e-mail first, then the commit. *)

SendLetter(r) ==
  /\ pc[r] = "mail"
  /\ letters' = letters \cup {[by |-> r, inv |-> session[r].inv, total |-> session[r].lines]}
  /\ Goto(r, "mailing")
  /\ UNCHANGED <<db, session, mails, provider>>

\* External: the e-mail provider accepts a letter, perhaps after the caller
\* gave up.
EmailAccepts(m) ==
  /\ mails' = mails \cup {m}
  /\ UNCHANGED <<db, pc, session, answer, letters, provider>>

\* The exceptions of the client are logged and ignored.
ReturnFromEmail_Ignores(r) ==
  /\ pc[r] = "mailing"
  /\ Goto(r, "write")
  /\ UNCHANGED <<db, session, email, provider>>

\* send_invoice_issued returns, or its exception becomes a 502, whether the
\* provider accepted or not.
ReturnFromEmail(r) ==
  /\ pc[r] = "mailing"
  /\ \/ /\ \E m \in mails : m.by = r
        /\ Goto(r, "write") /\ UNCHANGED session
     \/ End(r, "refused")
  /\ UNCHANGED <<db, email, provider>>

\* The commit: UPDATE by primary key, and the event.
Issue(r) ==
  /\ pc[r] = "write"
  /\ session[r].op = "issue"
  /\ status' = [status EXCEPT ![session[r].inv] = "issued"]
  /\ events' = events \cup {[type |-> "invoice.issued", inv |-> session[r].inv,
                             by |-> r, total |-> session[r].lines]}
  /\ Goto(r, "reload")
  /\ UNCHANGED <<customers, lines, attempt, session, email, provider>>

----------------------------------------------------------------------------
(* collect_payment. *)

\* _payment_attempt_to_read: the attempt as it is, and the invoice's status as loaded.
AttemptToRead(r, a, invoiceStatus) ==
  Answers(r, [by |-> a, status |-> attempt'[a].status, invoice_status |-> invoiceStatus])

AttemptOf(i, k) ==
  {r \in Requests : attempt[r] # None /\ attempt[r].inv = i /\ attempt[r].key = k}

\* SELECT the attempt by its key: an existing one is the answer, otherwise the
\* loaded status decides.
Lookup(r) ==
  /\ pc[r] = "lookup"
  /\ UNCHANGED <<db, email, provider>>
  /\ \/ \E a \in AttemptOf(session[r].inv, session[r].key) :
          AttemptToRead(r, a, session[r].status)
     \/ /\ AttemptOf(session[r].inv, session[r].key) = {}
        /\ IF session[r].status = "issued"
           THEN Goto(r, "insert") /\ UNCHANGED session
           ELSE End(r, "refused")

NewAttempt(r) ==
  [inv |-> session[r].inv, key |-> session[r].key,
   amount |-> session[r].lines, status |-> "processing"]

\* Without the unique constraint.
InsertAttempt_NoConstraint(r) ==
  /\ pc[r] = "insert"
  /\ attempt' = [attempt EXCEPT ![r] = NewAttempt(r)]
  /\ Goto(r, "call")
  /\ UNCHANGED <<customers, status, lines, events, session, email, provider>>

\* INSERT the attempt and commit.  The loser of a race rolls back and finds the
\* winner's attempt, but the rollback has expired the invoice: reading its
\* status outside the driver's greenlet raises (services.py:179).
InsertAttempt(r) ==
  /\ pc[r] = "insert"
  /\ IF AttemptOf(session[r].inv, session[r].key) # {}
     THEN End(r, "raised") /\ UNCHANGED attempt
     ELSE /\ attempt' = [attempt EXCEPT ![r] = NewAttempt(r)]
          /\ Goto(r, "call")
          /\ UNCHANGED session
  /\ UNCHANGED <<customers, status, lines, events, email, provider>>

CallProvider(r) ==
  /\ pc[r] = "call"
  /\ calls' = calls \cup {[by |-> r, inv |-> session[r].inv, key |-> session[r].key,
                           amount |-> session[r].lines]}
  /\ Goto(r, "calling")
  /\ UNCHANGED <<db, session, email, ledger>>

\* External: the payment provider executes a key once, perhaps late.
ProviderExecutes(c, ok) ==
  /\ ledger[c.key] = None
  /\ ledger' = [ledger EXCEPT ![c.key] = [inv |-> c.inv, amount |-> c.amount, ok |-> ok]]
  /\ UNCHANGED <<db, pc, session, answer, email, calls>>

\* The provider states the outcome of r's own payment.
Replied(r, ok) ==
  /\ ledger[session[r].key] # None
  /\ ledger[session[r].key].inv = session[r].inv
  /\ ledger[session[r].key].ok = ok

\* A reply without a status counts as a success.
ReturnFromProvider_DefaultPaid(r) ==
  /\ pc[r] = "calling"
  /\ \E place \in {"settle", "decline", "fail"} : Goto(r, place)
  /\ UNCHANGED <<db, session, email, provider>>

\* collect_payment of the client returns or raises.  A reply without a status
\* counts as failed, whatever was charged; one that says "processing" leaves the
\* attempt as it is.  An HTTP error or an unknown status is caught by the
\* service, a body that does not parse is not.
ReturnFromProvider(r) ==
  /\ pc[r] = "calling"
  /\ UNCHANGED <<db, email, provider>>
  /\ \/ Replied(r, TRUE) /\ Goto(r, "settle") /\ UNCHANGED session
     \/ Goto(r, "decline") /\ UNCHANGED session
     \/ Goto(r, "fail") /\ UNCHANGED session
     \/ AttemptToRead(r, r, session[r].status)
     \/ End(r, "raised")

\* The status column takes what the provider sent.
FailAttempt_Unknown(r) ==
  /\ pc[r] \in {"fail", "decline"}
  /\ attempt' = [attempt EXCEPT ![r].status = "unknown"]
  /\ End(r, "done")
  /\ UNCHANGED <<customers, status, lines, events, email, provider>>

\* The commit of the except branch (502) and of a declined payment.
FailAttempt(r) ==
  /\ pc[r] \in {"fail", "decline"}
  /\ attempt' = [attempt EXCEPT ![r].status = "failed"]
  /\ IF pc[r] = "fail" THEN End(r, "refused") ELSE AttemptToRead(r, r, session[r].status)
  /\ UNCHANGED <<customers, status, lines, events, email, provider>>

\* The event is built from the lines of now.
Settle_FreshTotal(r) ==
  /\ pc[r] = "settle"
  /\ attempt' = [attempt EXCEPT ![r].status = "succeeded"]
  /\ status' = [status EXCEPT ![session[r].inv] = "paid"]
  /\ events' = events \cup {[type |-> "invoice.paid", inv |-> session[r].inv,
                             by |-> r, total |-> lines[session[r].inv]]}
  /\ AttemptToRead(r, r, "paid")
  /\ UNCHANGED <<customers, lines, email, provider>>

\* The commit of a succeeded payment; nothing looks at the invoice again.
Settle(r) ==
  /\ pc[r] = "settle"
  /\ attempt' = [attempt EXCEPT ![r].status = "succeeded"]
  /\ status' = [status EXCEPT ![session[r].inv] = "paid"]
  /\ events' = events \cup {[type |-> "invoice.paid", inv |-> session[r].inv,
                             by |-> r, total |-> session[r].lines]}
  /\ AttemptToRead(r, r, "paid")
  /\ UNCHANGED <<customers, lines, email, provider>>

----------------------------------------------------------------------------
\* The process stops or loses its database connection: what is not committed
\* is rolled back, what left for a provider is not called back.
Abort(r) ==
  /\ pc[r] \in InFlightAt
  /\ End(r, "gone")
  /\ UNCHANGED <<db, email, provider>>

Next ==
  \/ \E c \in Customers : CreateCustomer(c)
  \/ \E i \in Invoices : CreateInvoice(i)
  \/ \E r \in Requests :
       \/ \E i \in Invoices, a \in Asked : LoadInvoice(r, a.op, i, a.key)
       \/ LoadLines(r) \/ Reload(r) \/ ReloadLines(r)
       \/ AddLine(r) \/ SendLetter(r) \/ ReturnFromEmail(r) \/ Issue(r)
       \/ Lookup(r) \/ InsertAttempt(r) \/ CallProvider(r) \/ ReturnFromProvider(r)
       \/ FailAttempt(r) \/ Settle(r) \/ Abort(r)
  \/ \E m \in letters \ mails : EmailAccepts(m)
  \/ \E c \in calls, ok \in BOOLEAN : ProviderExecutes(c, ok)

Spec == Init /\ [][Next]_vars

----------------------------------------------------------------------------
(* Properties. *)

\* No invoice is announced as issued unless its customer was mailed that very
\* total, whatever the e-mail provider did and whoever else was issuing it.
IssuedWasMailed ==
  \A e \in events : e.type = "invoice.issued" =>
    [by |-> e.by, inv |-> e.inv, total |-> e.total] \in mails

\* An invoice that still reads draft is owed by nobody: no event announced it, no
\* attempt and no charge is for it, although lines are committed by requests
\* that read it long ago.
DraftIsUnbilled ==
  \A i \in Invoices : status[i] \in {"absent", "draft"} =>
    /\ \A e \in events : e.inv # i
    /\ \A r \in Requests : attempt[r] # None => attempt[r].inv # i
    /\ \A k \in Keys : ledger[k] # None => ledger[k].inv # i

Succeeded(r) == attempt[r] # None /\ attempt[r].status = "succeeded"

\* An invoice is marked paid, and its payment announced, only for what the
\* provider really collected: the events name the succeeded attempts and their
\* amounts, and each of those was charged under its key.
PaidWasCharged ==
  /\ \A i \in Invoices : status[i] = "paid" => \E r \in Requests : Succeeded(r) /\ attempt[r].inv = i
  /\ {e \in events : e.type = "invoice.paid"} =
       {[type |-> "invoice.paid", inv |-> attempt[r].inv, by |-> r,
         total |-> attempt[r].amount] : r \in {q \in Requests : Succeeded(q)}}
  /\ \A r \in Requests : Succeeded(r) =>
       ledger[attempt[r].key] =
         [inv |-> attempt[r].inv, amount |-> attempt[r].amount, ok |-> TRUE]

\* The provider never collects what no committed attempt accounts for.
ChargeHasAttempt ==
  \A k \in Keys : ledger[k] # None =>
    \E r \in Requests : /\ attempt[r] # None
                        /\ attempt[r].key = k
                        /\ attempt[r].inv = ledger[k].inv
                        /\ attempt[r].amount = ledger[k].amount

\* The provider's books and the service's agree, from either side, whatever reply
\* was lost and whoever died.
BooksBalance == PaidWasCharged /\ ChargeHasAttempt

\* Clients that retry a payment together reach the provider once per invoice and
\* idempotency key.
OneCallPerKey ==
  \A c1, c2 \in calls : (c1.inv = c2.inv /\ c1.key = c2.key) => c1 = c2

ShowsInvoice(r) == answer[r] # None /\ answer[r] \in InvoiceRead
Announced(type, i, total) ==
  \E e \in events : e.type = type /\ e.inv = i /\ e.total \subseteq total

\* What a client was shown holds.  The invoice it changed shows the change; one that
\* reads issued or paid was announced so and shows every line it was announced with,
\* although its row and its lines are read by two statements; and a settled attempt
\* stays what it was answered to be, "paid" never answered before a payment was.
\* (A repeated payment may be shown a succeeded attempt of an issued invoice: the
\* invoice was read first.)
AnswersHold ==
  \A r \in Requests : answer[r] # None =>
    LET a == answer[r]
    IN  IF ShowsInvoice(r)
        THEN /\ r \in lines[a.inv] => r \in a.lines
             /\ (\E e \in events : e.by = r) => a.status # "draft"
             /\ a.status # "draft" => Announced("invoice.issued", a.inv, a.lines)
             /\ a.status = "paid" => Announced("invoice.paid", a.inv, a.lines)
        ELSE /\ a.status # "processing" => attempt[a.by].status = a.status
             /\ a.invoice_status = "paid" =>
                  Announced("invoice.paid", attempt[a.by].inv, Requests)
=============================================================================
