--------------------------- MODULE ControlProofs ---------------------------
(***************************************************************************)
(* Theorems about Control, for any customers, invoices, keys and requests, *)
(* and any number of them in flight.                                       *)
(***************************************************************************)
EXTENDS Control, TLAPS

\* Where a request is on its way through its operation.
Paying   == {"lookup", "insert", "call", "calling", "settle", "decline", "fail"}
Recorded == {"call", "calling", "settle", "decline", "fail"}
Reading  == {"reload", "relines"}
NotYet   == {"idle", "lines", "write", "mail", "mailing", "lookup", "insert"} \cup Reading

Issued(i)    == status[i] \in {"issued", "paid"}
Told(type, i) == \E e \in events : e.type = type /\ e.inv = i
OwnLetter(r) == [by |-> r, inv |-> session[r].inv, total |-> session[r].lines]

\* What a session has loaded is no news: lines only grow, and an invoice was
\* announced before its row could say so.
LoadedInv(s) ==
  /\ s.op = "collect" <=> s.key # None
  /\ s.lines \subseteq lines[s.inv]
  /\ s.status # "absent" /\ status[s.inv] # "absent"
  /\ s.status # "draft" => Told("invoice.issued", s.inv)
  /\ s.status = "paid" => Told("invoice.paid", s.inv)

\* What a request has in hand at each place.
RequestInv(r) ==
  /\ pc[r] \in InFlightAt <=> session[r] # None
  /\ answer[r] # None => pc[r] = "done"
  /\ session[r] # None => LoadedInv(session[r])
  /\ pc[r] \in Paying => session[r].op = "collect"
  /\ pc[r] \in Paying \ {"lookup"} => session[r].status = "issued"
  /\ pc[r] = "write" /\ session[r].op = "issue" => OwnLetter(r) \in mails
  /\ pc[r] \in NotYet => attempt[r] = None
  /\ pc[r] \in Recorded => attempt[r] = NewAttempt(r)
  /\ pc[r] = "settle" => ledger[session[r].key] =
       [inv |-> session[r].inv, amount |-> session[r].lines, ok |-> TRUE]

\* A request writes its letter once.
LetterInv ==
  \A m \in letters : /\ pc[m.by] \notin {"idle", "lines", "mail"}
                     /\ pc[m.by] = "mailing" => m = OwnLetter(m.by)

\* An event is about lines the invoice still has, and the request that issued the
\* invoice reads it again as issued.
EventInv ==
  \A e \in events : /\ e.total \subseteq lines[e.inv]
                    /\ Issued(e.inv)
                    /\ pc[e.by] \in Reading \cup EndedAt
                    /\ pc[e.by] \in Reading => session[e.by].inv = e.inv
                    /\ pc[e.by] = "relines" => session[e.by].status # "draft"

\* What a row says was announced.
RowsInv ==
  \A i \in Invoices : /\ Issued(i) => Told("invoice.issued", i)
                      /\ status[i] = "paid" => Told("invoice.paid", i)

AttemptsIssued == \A r \in Requests : attempt[r] # None => Issued(attempt[r].inv)

UniqueAttempt ==
  \A r1, r2 \in Requests :
    (/\ attempt[r1] # None /\ attempt[r2] # None
     /\ attempt[r1].inv = attempt[r2].inv /\ attempt[r1].key = attempt[r2].key) => r1 = r2

\* Every call is the call of a recorded attempt, every charge the one of a call.
CallInv ==
  /\ \A c \in calls :
       /\ attempt[c.by] # None
       /\ attempt[c.by].inv = c.inv
       /\ attempt[c.by].key = c.key
       /\ attempt[c.by].amount = c.amount
  /\ \A k \in Keys : ledger[k] # None =>
       \E c \in calls : c.key = k /\ c.inv = ledger[k].inv /\ c.amount = ledger[k].amount

\* An answer about a payment names an attempt.
AnswerInv ==
  /\ AnswersHold
  /\ \A r \in Requests : answer[r] # None /\ ~ShowsInvoice(r) => attempt[answer[r].by] # None

IInv ==
  /\ TypeOK
  /\ \A r \in Requests : RequestInv(r)
  /\ LetterInv /\ EventInv /\ RowsInv
  /\ IssuedWasMailed
  /\ AttemptsIssued /\ UniqueAttempt /\ CallInv /\ PaidWasCharged
  /\ AnswerInv

----------------------------------------------------------------------------
(* Init, and the type of a step. *)

LEMMA InitIInv == Init => IInv
  BY NoneAssumption
     DEF Init, IInv, TypeOK, RequestInv, LetterInv, EventInv, RowsInv, IssuedWasMailed,
         AttemptsIssued, UniqueAttempt, CallInv, PaidWasCharged, AnswerInv, AnswersHold,
         Succeeded, Issued, InFlightAt, EndedAt, Status, Amount, Paying, Recorded, NotYet, Reading

\* The steps of a request once it has loaded its invoice.
Handle(r) ==
  \/ LoadLines(r) \/ Reload(r) \/ ReloadLines(r)
  \/ AddLine(r) \/ SendLetter(r) \/ ReturnFromEmail(r) \/ Issue(r)
  \/ Lookup(r) \/ InsertAttempt(r) \/ CallProvider(r) \/ ReturnFromProvider(r)
  \/ FailAttempt(r) \/ Settle(r)

\* A route names its operation, and only a payment has a key.
LEMMA AskedForm ==
  ASSUME NEW a \in Asked
  PROVE  /\ a.op \in {"read", "add_line", "issue", "collect"}
         /\ a.key \in Keys \cup {None}
         /\ a.op = "collect" <=> a.key # None
<1>1. CASE a \in {[op |-> op, key |-> None] : op \in {"read", "add_line", "issue"}}
  BY <1>1
<1>2. CASE a \in {[op |-> "collect", key |-> k] : k \in Keys}
  BY <1>2, NoneAssumption
<1> QED
  BY <1>1, <1>2 DEF Asked

\* A request in flight has a session, and one that pays has an attempt to record.
LEMMA InHand ==
  ASSUME TypeOK, NEW r \in Requests, RequestInv(r)
  PROVE  /\ pc[r] \in InFlightAt => session[r] \in Session
         /\ pc[r] \in Paying => session[r].key \in Keys /\ NewAttempt(r) \in Attempt
         /\ pc[r] \in Recorded => attempt[r] = NewAttempt(r) /\ attempt[r] \in Attempt
<1> USE NoneAssumption DEF RequestInv
<1>1. pc[r] \in InFlightAt => session[r] \in Session
  BY DEF TypeOK
<1>2. pc[r] \in Paying => session[r].key \in Keys
  BY <1>1 DEF Session, Paying, InFlightAt, LoadedInv
<1>3. pc[r] \in Paying => NewAttempt(r) \in Attempt
  BY <1>1, <1>2 DEF NewAttempt, Attempt, Session, Paying, InFlightAt
<1> QED
  BY <1>1, <1>2, <1>3 DEF Paying, Recorded

LEMMA TypeNext == IInv /\ [Next]_vars => TypeOK'
<1> SUFFICES ASSUME IInv, [Next]_vars PROVE TypeOK'
  OBVIOUS
<1> USE NoneAssumption DEF TypeOK, InFlightAt, EndedAt, Goto, End, db, email, provider
<1>0. TypeOK /\ \A r \in Requests : RequestInv(r)
  BY DEF IInv
<1>1. ASSUME NEW c \in Customers, CreateCustomer(c) PROVE TypeOK'
  BY <1>0, <1>1 DEF CreateCustomer
<1>2. ASSUME NEW i \in Invoices, CreateInvoice(i) PROVE TypeOK'
  BY <1>0, <1>2 DEF CreateInvoice, Status
<1>3. ASSUME NEW r \in Requests, NEW i \in Invoices, NEW a \in Asked,
             LoadInvoice(r, a.op, i, a.key)
      PROVE TypeOK'
  BY <1>0, <1>3, AskedForm DEF LoadInvoice, Session, Amount
<1>4. ASSUME NEW r \in Requests, Handle(r) PROVE TypeOK'
  <2> USE <1>0
  <2>0. /\ pc[r] \in InFlightAt => session[r] \in Session
        /\ pc[r] \in Paying => session[r].key \in Keys /\ NewAttempt(r) \in Attempt
        /\ pc[r] \in Recorded => attempt[r] \in Attempt
    BY InHand
  <2>1. CASE LoadLines(r)
    <3> DEFINE s == [session[r] EXCEPT !.lines = lines[session[r].inv]]
    <3>1. session[r] \in Session /\ session[r].inv \in Invoices
      BY <2>0, <2>1 DEF LoadLines, Session
    <3>2. s \in Session
      BY <3>1 DEF Session, Amount
    <3>3. InvoiceToRead(s) \in InvoiceRead
      BY <3>2 DEF InvoiceToRead, InvoiceRead, Session
    <3>4. After(s) \in {"done", "lookup", "write", "mail", "refused"}
      BY DEF After
    <3>5. \/ Answers(r, InvoiceToRead(s))
          \/ End(r, "refused")
          \/ session' = [session EXCEPT ![r] = s] /\ Goto(r, After(s))
      BY <2>1 DEF LoadLines
    <3> HIDE DEF s
    <3> QED
      BY <2>1, <3>2, <3>3, <3>4, <3>5 DEF LoadLines, Answers
  <2>2. CASE Reload(r)
    <3>1. [session[r] EXCEPT !.status = status[session[r].inv]] \in Session
      BY <2>0, <2>2 DEF Reload, Session
    <3> QED
      BY <2>2, <3>1 DEF Reload
  <2>3. CASE ReloadLines(r)
    <3> DEFINE s == [session[r] EXCEPT !.lines = lines[session[r].inv]]
    <3>1. session[r] \in Session /\ session[r].inv \in Invoices
      BY <2>0, <2>3 DEF ReloadLines, Session
    <3>2. s \in Session
      BY <3>1 DEF Session, Amount
    <3>3. InvoiceToRead(s) \in InvoiceRead
      BY <3>2 DEF InvoiceToRead, InvoiceRead, Session
    <3>4. Answers(r, InvoiceToRead(s))
      BY <2>3 DEF ReloadLines
    <3> HIDE DEF s
    <3> QED
      BY <2>3, <3>3, <3>4 DEF ReloadLines, Answers
  <2>4. CASE AddLine(r)
    BY <2>0, <2>4 DEF AddLine, Session, Amount
  <2>5. CASE SendLetter(r)
    BY <2>0, <2>5 DEF SendLetter, Session, Letter
  <2>6. CASE ReturnFromEmail(r)
    BY <2>6 DEF ReturnFromEmail
  <2>7. CASE Issue(r)
    BY <2>0, <2>7 DEF Issue, Session, Event, Status
  <2>8. CASE Lookup(r)
    <3>1. ASSUME NEW a \in AttemptOf(session[r].inv, session[r].key),
                 AttemptToRead(r, a, session[r].status), attempt' = attempt
          PROVE  answer' \in [Requests -> InvoiceRead \cup PaymentAttemptRead \cup {None}]
      <4>1. a \in Requests /\ attempt'[a] \in Attempt
        BY <3>1 DEF AttemptOf
      <4>2. session[r].status \in Status
        BY <2>0, <2>8 DEF Lookup, Session
      <4>3. [by |-> a, status |-> attempt'[a].status, invoice_status |-> session[r].status]
              \in PaymentAttemptRead
        BY <4>1, <4>2 DEF PaymentAttemptRead, Attempt
      <4> QED
        BY <3>1, <4>3 DEF AttemptToRead, Answers
    <3>2. answer' \in [Requests -> InvoiceRead \cup PaymentAttemptRead \cup {None}]
      BY <2>8, <3>1 DEF Lookup
    <3>3. /\ pc' \in [Requests -> {"idle"} \cup InFlightAt \cup EndedAt]
          /\ session' \in [Requests -> Session \cup {None}]
      BY <2>8 DEF Lookup, AttemptToRead, Answers
    <3> QED
      BY <2>8, <3>2, <3>3 DEF Lookup
  <2>9. CASE InsertAttempt(r)
    BY <2>0, <2>9 DEF InsertAttempt, Paying
  <2>10. CASE CallProvider(r)
    BY <2>0, <2>10 DEF CallProvider, Paying, Session, Call
  <2>11. CASE ReturnFromProvider(r)
    <3>1. ASSUME AttemptToRead(r, r, session[r].status), attempt' = attempt
          PROVE  answer' \in [Requests -> InvoiceRead \cup PaymentAttemptRead \cup {None}]
      <4>1. session[r].status \in Status /\ attempt'[r] \in Attempt
        BY <2>0, <2>11, <3>1 DEF ReturnFromProvider, Session, Recorded
      <4>2. [by |-> r, status |-> attempt'[r].status, invoice_status |-> session[r].status]
              \in PaymentAttemptRead
        BY <4>1 DEF PaymentAttemptRead, Attempt
      <4> QED
        BY <3>1, <4>2 DEF AttemptToRead, Answers
    <3>2. answer' \in [Requests -> InvoiceRead \cup PaymentAttemptRead \cup {None}]
      BY <2>11, <3>1 DEF ReturnFromProvider
    <3>3. /\ pc' \in [Requests -> {"idle"} \cup InFlightAt \cup EndedAt]
          /\ session' \in [Requests -> Session \cup {None}]
      BY <2>11 DEF ReturnFromProvider, AttemptToRead, Answers
    <3> QED
      BY <2>11, <3>2, <3>3 DEF ReturnFromProvider
  <2>12. CASE FailAttempt(r) \/ Settle(r)
    <3>1. session[r] \in Session /\ attempt[r] \in Attempt
      BY <2>0, <2>12 DEF FailAttempt, Settle, Recorded
    <3>2. attempt' \in [Requests -> Attempt \cup {None}] /\ attempt'[r] \in Attempt
      BY <2>12, <3>1 DEF FailAttempt, Settle, Attempt
    <3>3. \A s \in Status : [by |-> r, status |-> attempt'[r].status, invoice_status |-> s]
                               \in PaymentAttemptRead
      BY <3>2 DEF PaymentAttemptRead, Attempt
    <3>4. session[r].status \in Status /\ "paid" \in Status
      BY <3>1 DEF Session, Status
    <3>5. /\ answer' \in [Requests -> InvoiceRead \cup PaymentAttemptRead \cup {None}]
          /\ session' \in [Requests -> Session \cup {None}]
          /\ pc' \in [Requests -> {"idle"} \cup InFlightAt \cup EndedAt]
      BY <2>12, <3>3, <3>4 DEF FailAttempt, Settle, AttemptToRead, Answers
    <3>6. events' \subseteq Event /\ status' \in [Invoices -> Status]
      BY <2>12, <3>1, <3>4 DEF FailAttempt, Settle, Session, Event
    <3> QED
      BY <2>12, <3>2, <3>5, <3>6 DEF FailAttempt, Settle
  <2> QED
    BY <1>4, <2>1, <2>2, <2>3, <2>4, <2>5, <2>6, <2>7, <2>8, <2>9, <2>10, <2>11, <2>12 DEF Handle
<1>5. ASSUME NEW r \in Requests, Abort(r) PROVE TypeOK'
  BY <1>0, <1>5 DEF Abort
<1>6. ASSUME NEW m \in letters \ mails, EmailAccepts(m) PROVE TypeOK'
  BY <1>0, <1>6 DEF EmailAccepts
<1>7. ASSUME NEW c \in calls, NEW ok \in BOOLEAN, ProviderExecutes(c, ok) PROVE TypeOK'
  BY <1>0, <1>7 DEF ProviderExecutes, Call, Charge
<1>8. CASE UNCHANGED vars
  BY <1>0, <1>8 DEF vars
<1> QED
  BY <1>1, <1>2, <1>3, <1>4, <1>5, <1>6, <1>7, <1>8 DEF Next, Handle

----------------------------------------------------------------------------
(* What no step may do, whoever takes it: an event, a letter, a call, a    *)
(* charge and a line stay, an issued invoice stays issued or paid, and an  *)
(* attempt is settled once.                                                *)

Keeps ==
  /\ events \subseteq events' /\ mails \subseteq mails' /\ calls \subseteq calls'
  /\ \A i \in Invoices : /\ lines[i] \subseteq lines'[i]
                         /\ Issued(i) => Issued(i)'
                         /\ status[i] # "absent" => status'[i] # "absent"
  /\ \A k \in Keys : ledger[k] # None => ledger'[k] = ledger[k]
  /\ \A q \in Requests : attempt[q] # None =>
       /\ attempt'[q] # None
       /\ attempt'[q].inv = attempt[q].inv
       /\ attempt'[q].key = attempt[q].key
       /\ attempt'[q].amount = attempt[q].amount
       /\ attempt'[q] # attempt[q] => attempt[q].status = "processing"

LEMMA NextKeeps == IInv /\ [Next]_vars => Keeps
<1> SUFFICES ASSUME IInv, [Next]_vars PROVE Keeps
  OBVIOUS
<1> USE NoneAssumption DEF Keeps, Issued, Goto, End, db, email, provider
<1>0. TypeOK /\ \A r \in Requests : RequestInv(r)
  BY DEF IInv
<1>1. ASSUME NEW c \in Customers, CreateCustomer(c) PROVE Keeps
  BY <1>1 DEF CreateCustomer
<1>2. ASSUME NEW i \in Invoices, CreateInvoice(i) PROVE Keeps
  BY <1>0, <1>2 DEF CreateInvoice, TypeOK
<1>3. CASE UNCHANGED <<db, email, provider>>
  BY <1>3
<1>4. ASSUME NEW r \in Requests, Handle(r) PROVE Keeps
  <2>1. CASE \/ LoadLines(r) \/ Reload(r) \/ ReloadLines(r) \/ ReturnFromEmail(r)
             \/ Lookup(r) \/ ReturnFromProvider(r)
    BY <1>3, <2>1 DEF LoadLines, Reload, ReloadLines, ReturnFromEmail, Lookup, ReturnFromProvider
  <2>2. CASE AddLine(r)
    BY <1>0, <2>2 DEF AddLine, TypeOK
  <2>3. CASE SendLetter(r)
    BY <2>3 DEF SendLetter
  <2>4. CASE Issue(r)
    BY <1>0, <2>4 DEF Issue, TypeOK
  <2>5. CASE InsertAttempt(r)
    <3>1. attempt[r] = None
      BY <1>0, <2>5 DEF InsertAttempt, RequestInv, NotYet
    <3>2. \A q \in Requests : q # r => attempt'[q] = attempt[q]
      BY <1>0, <2>5 DEF InsertAttempt, TypeOK
    <3> QED
      BY <2>5, <3>1, <3>2 DEF InsertAttempt
  <2>6. CASE CallProvider(r)
    BY <2>6 DEF CallProvider
  <2>7. CASE FailAttempt(r) \/ Settle(r)
    <3>1. attempt[r] = NewAttempt(r) /\ attempt[r] \in Attempt
      BY <1>0, <2>7, InHand DEF FailAttempt, Settle, Recorded
    <3>2. attempt' \in [Requests -> Attempt \cup {None}]
      BY <2>7, TypeNext DEF TypeOK
    <3>3. \A q \in Requests : q # r => attempt'[q] = attempt[q]
      BY <1>0, <2>7 DEF FailAttempt, Settle, TypeOK
    <3>4. \E o \in {"failed", "succeeded"} : attempt'[r] = [attempt[r] EXCEPT !.status = o]
      BY <1>0, <2>7 DEF FailAttempt, Settle, TypeOK
    <3>5. /\ attempt'[r] # None
          /\ attempt'[r].inv = attempt[r].inv
          /\ attempt'[r].key = attempt[r].key
          /\ attempt'[r].amount = attempt[r].amount
      BY <3>1, <3>4 DEF Attempt
    <3>6. attempt[r].status = "processing"
      BY <3>1 DEF NewAttempt
    <3>7. /\ events \subseteq events' /\ UNCHANGED <<lines, email, provider>>
          /\ \A i \in Invoices :
               /\ status[i] \in {"issued", "paid"} => status'[i] \in {"issued", "paid"}
               /\ status[i] # "absent" => status'[i] # "absent"
      BY <1>0, <2>7 DEF FailAttempt, Settle, TypeOK
    <3> QED
      BY <3>3, <3>5, <3>6, <3>7
  <2> QED
    BY <1>4, <2>1, <2>2, <2>3, <2>4, <2>5, <2>6, <2>7 DEF Handle
<1>5. ASSUME NEW m \in letters \ mails, EmailAccepts(m) PROVE Keeps
  BY <1>5 DEF EmailAccepts
<1>6. ASSUME NEW c \in calls, NEW ok \in BOOLEAN, ProviderExecutes(c, ok) PROVE Keeps
  BY <1>0, <1>6 DEF ProviderExecutes, TypeOK
<1>7. CASE UNCHANGED vars
  BY <1>7 DEF vars
<1> QED
  BY <1>1, <1>2, <1>3, <1>4, <1>5, <1>6, <1>7 DEF Next, Handle, LoadInvoice, Abort

\* What a session has loaded stays so.
LEMMA LoadedKept ==
  ASSUME IInv, [Next]_vars, NEW q \in Requests, session[q] \in Session, LoadedInv(session[q]),
         session'[q] = session[q]
  PROVE  LoadedInv(session[q])'
<1>1. session[q].inv \in Invoices
  BY DEF Session
<1>2. Keeps
  BY NextKeeps
<1> QED
  BY <1>1, <1>2 DEF LoadedInv, Told, Keeps

----------------------------------------------------------------------------
(* Who moves.  A step is one of a request, which leaves the other requests *)
(* where they are, or touches no request at all.                           *)

Moves(r) ==
  \/ \E i \in Invoices, a \in Asked : LoadInvoice(r, a.op, i, a.key)
  \/ Handle(r)
  \/ Abort(r)

Still(q) == /\ pc'[q] = pc[q] /\ session'[q] = session[q]
            /\ attempt'[q] = attempt[q] /\ answer'[q] = answer[q]

LEMMA OthersStill ==
  ASSUME TypeOK, NEW r \in Requests, Moves(r), NEW q \in Requests, q # r
  PROVE  Still(q)
<1> USE DEF Still, TypeOK, End, Goto, Answers, db
<1>1. ASSUME NEW i \in Invoices, NEW a \in Asked, LoadInvoice(r, a.op, i, a.key) PROVE Still(q)
  BY <1>1 DEF LoadInvoice
<1>2. CASE LoadLines(r)
  BY <1>2 DEF LoadLines
<1>3. CASE Reload(r) \/ ReloadLines(r)
  BY <1>3 DEF Reload, ReloadLines
<1>4. CASE AddLine(r) \/ SendLetter(r) \/ ReturnFromEmail(r) \/ Issue(r)
  BY <1>4 DEF AddLine, SendLetter, ReturnFromEmail, Issue
<1>5. CASE Lookup(r)
  BY <1>5 DEF Lookup, AttemptToRead
<1>6. CASE InsertAttempt(r) \/ CallProvider(r)
  BY <1>6 DEF InsertAttempt, CallProvider
<1>7. CASE ReturnFromProvider(r)
  BY <1>7 DEF ReturnFromProvider, AttemptToRead
<1>8. CASE FailAttempt(r)
  BY <1>8 DEF FailAttempt, AttemptToRead
<1>9. CASE Settle(r)
  BY <1>9 DEF Settle, AttemptToRead
<1>10. CASE Abort(r)
  BY <1>10 DEF Abort
<1> QED
  BY <1>1, <1>2, <1>3, <1>4, <1>5, <1>6, <1>7, <1>8, <1>9, <1>10 DEF Moves, Handle

LEMMA StillOrMoves ==
  ASSUME TypeOK, [Next]_vars, NEW q \in Requests
  PROVE  Still(q) \/ Moves(q)
<1>1. ASSUME UNCHANGED <<attempt, pc, session, answer>> PROVE Still(q)
  BY <1>1 DEF Still
<1>2. ASSUME NEW r \in Requests, Moves(r) PROVE Still(q) \/ Moves(q)
  BY <1>2, OthersStill
<1>3. CASE \E c \in Customers : CreateCustomer(c)
  BY <1>1, <1>3 DEF CreateCustomer
<1>4. CASE \E i \in Invoices : CreateInvoice(i)
  BY <1>1, <1>4 DEF CreateInvoice
<1>5. CASE \E m \in letters \ mails : EmailAccepts(m)
  BY <1>1, <1>5 DEF EmailAccepts, db
<1>6. CASE \E c \in calls, ok \in BOOLEAN : ProviderExecutes(c, ok)
  BY <1>1, <1>6 DEF ProviderExecutes, db
<1>7. CASE UNCHANGED vars
  BY <1>1, <1>7 DEF vars
<1>8. CASE \E r \in Requests : Moves(r)
  BY <1>2, <1>8
<1> QED
  BY <1>3, <1>4, <1>5, <1>6, <1>7, <1>8 DEF Next, Moves, Handle

----------------------------------------------------------------------------
(* A request's own part of the invariant. *)

LEMMA RequestKept ==
  ASSUME IInv, [Next]_vars, NEW q \in Requests, Still(q)
  PROVE  RequestInv(q)'
<1>1. TypeOK /\ RequestInv(q) /\ Keeps
  BY NextKeeps DEF IInv
<1>2. pc[q] \in InFlightAt => session[q] \in Session
  BY <1>1, InHand
<1>3. pc[q] = "settle" => ledger'[session[q].key] = ledger[session[q].key]
  <2> SUFFICES ASSUME pc[q] = "settle" PROVE ledger'[session[q].key] = ledger[session[q].key]
    OBVIOUS
  <2>1. session[q] \in Session /\ session[q].key \in Keys
    BY <1>1, <1>2, InHand DEF Paying, InFlightAt
  <2>2. [inv |-> session[q].inv, amount |-> session[q].lines, ok |-> TRUE] \in Charge
    BY <2>1 DEF Session, Charge
  <2>3. ledger[session[q].key] # None
    BY <1>1, <2>2, NoneAssumption DEF RequestInv
  <2> QED
    BY <1>1, <2>1, <2>3 DEF Keeps
<1>4. session'[q] # None => LoadedInv(session[q])'
  BY <1>1, <1>2, LoadedKept DEF RequestInv, Still
<1>5. OwnLetter(q) \in mails => OwnLetter(q)' \in mails'
  BY <1>1 DEF OwnLetter, Still, Keeps
<1>6. NewAttempt(q)' = NewAttempt(q)
  BY DEF NewAttempt, Still
<1> QED
  BY <1>1, <1>3, <1>4, <1>5, <1>6 DEF RequestInv, Still, InFlightAt, Paying, Recorded, NotYet, Reading

\* The reply the caller gets is the reply to its own call.
LEMMA OwnReply ==
  ASSUME IInv, NEW r \in Requests, pc[r] = "calling", Replied(r, TRUE)
  PROVE  ledger[session[r].key] =
           [inv |-> session[r].inv, amount |-> session[r].lines, ok |-> TRUE]
<1>1. /\ TypeOK /\ RequestInv(r) /\ session[r].key \in Keys
      /\ attempt[r] = NewAttempt(r) /\ attempt[r] # None
  BY InHand, NoneAssumption DEF IInv, Paying, Recorded
<1>2. PICK c \in calls : /\ c.key = session[r].key
                         /\ c.inv = ledger[session[r].key].inv
                         /\ c.amount = ledger[session[r].key].amount
  BY <1>1 DEF IInv, CallInv, Replied
<1>3. c.inv = session[r].inv /\ c.by \in Requests
  BY <1>1, <1>2 DEF Replied, TypeOK, Call
<1>4. c.by = r
  BY <1>1, <1>2, <1>3 DEF IInv, CallInv, UniqueAttempt, NewAttempt
<1>5. c.amount = session[r].lines
  BY <1>1, <1>4 DEF IInv, CallInv, NewAttempt
<1>6. ledger[session[r].key] \in Charge
  BY <1>1 DEF TypeOK, Replied
<1> QED
  BY <1>2, <1>5, <1>6 DEF Replied, Charge

\* The letter a request finds accepted is its own.
LEMMA OwnMail ==
  ASSUME IInv, NEW r \in Requests, pc[r] = "mailing", NEW m \in mails, m.by = r
  PROVE  OwnLetter(r) \in mails
  BY DEF IInv, TypeOK, LetterInv

\* A request that has ended holds nothing.
LEMMA Ended ==
  ASSUME TypeOK, NEW q \in Requests, RequestInv(q), pc[q] # "done",
         \/ \E how \in {"refused", "raised", "gone"} : End(q, how)
         \/ \E a : Answers(q, a)
  PROVE  RequestInv(q)' /\ pc'[q] \in EndedAt
<1>1. pc'[q] \in EndedAt /\ session'[q] = None /\ (answer'[q] # None => pc'[q] = "done")
  BY DEF TypeOK, End, Answers, EndedAt, RequestInv
<1> QED
  BY <1>1 DEF RequestInv, InFlightAt, Paying, Recorded, NotYet, Reading, EndedAt

LEMMA RequestMoves ==
  ASSUME IInv, [Next]_vars, NEW q \in Requests, Moves(q)
  PROVE  RequestInv(q)'
<1> USE DEF db, email, provider
<1>0. /\ TypeOK /\ RequestInv(q) /\ Keeps /\ RowsInv /\ TypeOK'
      /\ pc[q] \in InFlightAt => session[q] \in Session
  BY NextKeeps, TypeNext, InHand DEF IInv
<1>1. pc[q] # "done" /\ answer[q] = None /\ (pc[q] \in NotYet => attempt[q] = None)
  <2>1. pc[q] # "done"
    BY DEF Moves, LoadInvoice, Handle, LoadLines, Reload, ReloadLines, AddLine, SendLetter,
       ReturnFromEmail, Issue, Lookup, InsertAttempt, CallProvider, ReturnFromProvider,
       FailAttempt, Settle, Abort, InFlightAt
  <2> QED
    BY <1>0, <2>1 DEF RequestInv
<1>2. ASSUME NEW i \in Invoices, NEW a \in Asked, LoadInvoice(q, a.op, i, a.key)
      PROVE RequestInv(q)'
  <2>1. CASE status[i] = "absent"
    BY <1>0, <1>1, <1>2, <2>1, Ended DEF LoadInvoice
  <2>2. CASE status[i] # "absent"
    <3>1. /\ pc'[q] = "lines" /\ answer'[q] = None /\ attempt'[q] = None
          /\ session'[q] = [op |-> a.op, inv |-> i, key |-> a.key,
                            status |-> status[i], lines |-> {}]
      BY <1>0, <1>1, <1>2, <2>2 DEF LoadInvoice, Goto, TypeOK, NotYet
    <3>2. session'[q] # None
      <4>1. session'[q] \in Session
        BY <1>0, <3>1, AskedForm DEF TypeOK, Session, Amount
      <4> QED
        BY <4>1, NoneAssumption
    <3>3. /\ status[i] # "draft" => Told("invoice.issued", i)
          /\ status[i] = "paid" => Told("invoice.paid", i)
      BY <1>0, <2>2 DEF RowsInv, Issued, TypeOK, Status
    <3>4. LoadedInv(session[q])'
      BY <1>2, <2>2, <3>1, <3>3, AskedForm DEF LoadedInv, LoadInvoice, Told
    <3> QED
      BY <3>1, <3>2, <3>4 DEF RequestInv, InFlightAt, Paying, Recorded
  <2> QED
    BY <2>1, <2>2
<1>3. CASE LoadLines(q)
  <2> DEFINE s == [session[q] EXCEPT !.lines = lines[session[q].inv]]
  <2>1. session[q] \in Session /\ session[q] # None /\ LoadedInv(session[q])
    BY <1>0, <1>3, NoneAssumption DEF LoadLines, RequestInv, InFlightAt
  <2>2. /\ s \in Session
        /\ s.op = session[q].op /\ s.inv = session[q].inv /\ s.key = session[q].key
        /\ s.status = session[q].status /\ s.lines = lines[session[q].inv]
    BY <1>0, <2>1 DEF Session, TypeOK, Amount
  <2>3. CASE After(s) \in {"done", "refused"}
    BY <1>0, <1>1, <1>3, <2>3, Ended DEF LoadLines
  <2>4. CASE After(s) \notin {"done", "refused"}
    <3>1. /\ session' = [session EXCEPT ![q] = s] /\ Goto(q, After(s))
      BY <1>3, <2>4 DEF LoadLines
    <3>2. /\ pc'[q] = After(s) /\ session'[q] = s
          /\ answer'[q] = None /\ attempt'[q] = None
      BY <1>0, <1>1, <1>3, <3>1 DEF Goto, TypeOK, LoadLines, NotYet
    <3>3. /\ s.op = "collect" => After(s) = "lookup"
          /\ s.op = "add_line" => After(s) = "write"
          /\ s.op = "issue" => After(s) = "mail"
          /\ s.op \in {"collect", "add_line", "issue"}
      BY <2>2, <2>4 DEF After, Session
    <3>4. LoadedInv(session[q])'
      BY <1>3, <2>1, <2>2, <3>2 DEF LoadedInv, LoadLines, Told
    <3>5. s # None
      BY <2>2, NoneAssumption
    <3> HIDE DEF s
    <3> QED
      BY <3>2, <3>3, <3>4, <3>5 DEF RequestInv, InFlightAt, Paying, Recorded
  <2> QED
    BY <2>3, <2>4
<1>4. CASE Reload(q)
  <2> DEFINE s == [session[q] EXCEPT !.status = status[session[q].inv]]
  <2>1. session[q] \in Session /\ LoadedInv(session[q]) /\ session[q].inv \in Invoices
    BY <1>0, <1>4, NoneAssumption DEF Reload, RequestInv, InFlightAt, Session
  <2>2. /\ s \in Session
        /\ s.op = session[q].op /\ s.inv = session[q].inv /\ s.key = session[q].key
        /\ s.status = status[session[q].inv] /\ s.lines = session[q].lines
    BY <1>0, <2>1 DEF Session, TypeOK
  <2>3. /\ pc'[q] = "relines" /\ session'[q] = s
        /\ answer'[q] = None /\ attempt'[q] = None
    BY <1>0, <1>1, <1>4 DEF Goto, TypeOK, Reload, NotYet, Reading
  <2>4. /\ s.status # "draft" => Told("invoice.issued", s.inv)
        /\ s.status = "paid" => Told("invoice.paid", s.inv)
        /\ s.status # "absent"
    BY <1>0, <2>1, <2>2 DEF RowsInv, Issued, TypeOK, Status, LoadedInv
  <2>5. s # None
    BY <2>2, NoneAssumption
  <2>6. LoadedInv(s)
    BY <2>1, <2>2, <2>4 DEF LoadedInv
  <2>7. UNCHANGED <<lines, status, events>>
    BY <1>4 DEF Reload
  <2> HIDE DEF s
  <2>8. LoadedInv(session[q])'
    BY <2>3, <2>6, <2>7 DEF LoadedInv, Told
  <2> QED
    BY <2>3, <2>5, <2>8 DEF RequestInv, InFlightAt, Paying, Recorded
<1>5. CASE ReloadLines(q) \/ Abort(q)
  BY <1>0, <1>1, <1>5, Ended DEF ReloadLines, Abort
<1>6. ASSUME session'[q] = session[q], answer'[q] = answer[q], pc[q] \in InFlightAt
      PROVE  answer'[q] = None /\ session'[q] # None /\ LoadedInv(session[q])'
  BY <1>0, <1>1, <1>6, LoadedKept, NoneAssumption DEF RequestInv
<1>7. CASE AddLine(q) \/ Issue(q)
  <2>1. /\ pc[q] = "write" /\ pc'[q] = "reload" /\ session'[q] = session[q]
        /\ answer'[q] = answer[q] /\ attempt'[q] = attempt[q]
    BY <1>0, <1>7 DEF AddLine, Issue, Goto, TypeOK
  <2>2. answer'[q] = None /\ session'[q] # None /\ LoadedInv(session[q])'
    BY <1>6, <2>1 DEF InFlightAt
  <2> QED
    BY <1>1, <2>1, <2>2 DEF RequestInv, InFlightAt, Paying, Recorded, NotYet, Reading
<1>8. CASE SendLetter(q)
  <2>1. /\ pc[q] = "mail" /\ pc'[q] = "mailing" /\ session'[q] = session[q]
        /\ answer'[q] = answer[q] /\ attempt'[q] = attempt[q]
    BY <1>0, <1>8 DEF SendLetter, Goto, TypeOK
  <2>2. answer'[q] = None /\ session'[q] # None /\ LoadedInv(session[q])'
    BY <1>6, <2>1 DEF InFlightAt
  <2> QED
    BY <1>1, <2>1, <2>2 DEF RequestInv, InFlightAt, Paying, Recorded, NotYet, Reading
<1>9. CASE ReturnFromEmail(q)
  <2>1. CASE End(q, "refused")
    BY <1>0, <1>1, <2>1, Ended
  <2>2. CASE ~End(q, "refused")
    <3>1. /\ pc[q] = "mailing" /\ pc'[q] = "write" /\ session'[q] = session[q]
          /\ answer'[q] = answer[q] /\ attempt'[q] = attempt[q] /\ mails' = mails
          /\ \E m \in mails : m.by = q
      BY <1>0, <1>9, <2>2 DEF ReturnFromEmail, Goto, TypeOK
    <3>2. answer'[q] = None /\ session'[q] # None /\ LoadedInv(session[q])'
      BY <1>6, <3>1 DEF InFlightAt
    <3>3. OwnLetter(q) \in mails
      BY <3>1, OwnMail
    <3>4. OwnLetter(q)' \in mails'
      BY <3>1, <3>3 DEF OwnLetter
    <3> QED
      BY <1>1, <3>1, <3>2, <3>4 DEF RequestInv, InFlightAt, Paying, Recorded, NotYet, Reading
  <2> QED
    BY <2>1, <2>2
<1>10. CASE Lookup(q)
  <2>1. CASE pc'[q] = "insert"
    <3>1. /\ pc[q] = "lookup" /\ session'[q] = session[q] /\ session[q].status = "issued"
          /\ answer'[q] = answer[q] /\ attempt'[q] = attempt[q]
      BY <1>0, <1>10, <2>1 DEF Lookup, AttemptToRead, Answers, End, Goto, TypeOK
    <3>2. answer'[q] = None /\ session'[q] # None /\ LoadedInv(session[q])'
      BY <1>6, <3>1 DEF InFlightAt
    <3> QED
      BY <1>0, <1>1, <2>1, <3>1, <3>2 DEF RequestInv, InFlightAt, Paying, Recorded, NotYet, Reading
  <2>2. CASE pc'[q] # "insert"
    <3>1. (\E a : Answers(q, a)) \/ End(q, "refused")
      BY <1>0, <1>10, <2>2 DEF Lookup, AttemptToRead, Goto, TypeOK
    <3> QED
      BY <1>0, <1>1, <3>1, Ended
  <2> QED
    BY <2>1, <2>2
<1>11. CASE InsertAttempt(q)
  <2>1. CASE End(q, "raised")
    BY <1>0, <1>1, <2>1, Ended
  <2>2. CASE ~End(q, "raised")
    <3>1. /\ pc[q] = "insert" /\ pc'[q] = "call" /\ session'[q] = session[q]
          /\ answer'[q] = answer[q] /\ attempt'[q] = NewAttempt(q)
      BY <1>0, <1>11, <2>2 DEF InsertAttempt, Goto, TypeOK
    <3>2. answer'[q] = None /\ session'[q] # None /\ LoadedInv(session[q])'
      BY <1>6, <3>1 DEF InFlightAt
    <3>3. NewAttempt(q)' = NewAttempt(q)
      BY <3>1 DEF NewAttempt
    <3> QED
      BY <1>0, <1>1, <3>1, <3>2, <3>3 DEF RequestInv, InFlightAt, Paying, Recorded, NotYet, Reading
  <2> QED
    BY <2>1, <2>2
<1>12. CASE CallProvider(q)
  <2>1. /\ pc[q] = "call" /\ pc'[q] = "calling" /\ session'[q] = session[q]
        /\ answer'[q] = answer[q] /\ attempt'[q] = attempt[q]
    BY <1>0, <1>12 DEF CallProvider, Goto, TypeOK
  <2>2. answer'[q] = None /\ session'[q] # None /\ LoadedInv(session[q])'
    BY <1>6, <2>1 DEF InFlightAt
  <2>3. NewAttempt(q)' = NewAttempt(q)
    BY <2>1 DEF NewAttempt
  <2> QED
    BY <1>0, <1>1, <2>1, <2>2, <2>3 DEF RequestInv, InFlightAt, Paying, Recorded, NotYet, Reading
<1>13. CASE ReturnFromProvider(q)
  <2>1. CASE pc'[q] \in {"settle", "decline", "fail"}
    <3>1. /\ pc[q] = "calling" /\ session'[q] = session[q]
          /\ answer'[q] = answer[q] /\ attempt'[q] = attempt[q] /\ ledger' = ledger
          /\ pc'[q] = "settle" => Replied(q, TRUE)
      BY <1>0, <1>13, <2>1 DEF ReturnFromProvider, AttemptToRead, Answers, End, Goto, TypeOK
    <3>2. answer'[q] = None /\ session'[q] # None /\ LoadedInv(session[q])'
      BY <1>6, <3>1 DEF InFlightAt
    <3>3. NewAttempt(q)' = NewAttempt(q)
      BY <3>1 DEF NewAttempt
    <3>4. pc'[q] = "settle" => ledger[session[q].key] =
            [inv |-> session[q].inv, amount |-> session[q].lines, ok |-> TRUE]
      BY <3>1, OwnReply
    <3> QED
      BY <1>0, <1>1, <2>1, <3>1, <3>2, <3>3, <3>4
         DEF RequestInv, InFlightAt, Paying, Recorded, NotYet, Reading
  <2>2. CASE pc'[q] \notin {"settle", "decline", "fail"}
    <3>1. (\E a : Answers(q, a)) \/ End(q, "raised")
      BY <1>0, <1>13, <2>2 DEF ReturnFromProvider, AttemptToRead, Goto, TypeOK
    <3> QED
      BY <1>0, <1>1, <3>1, Ended
  <2> QED
    BY <2>1, <2>2
<1>14. CASE FailAttempt(q) \/ Settle(q)
  <2>1. (\E a : Answers(q, a)) \/ End(q, "refused")
    BY <1>14 DEF FailAttempt, Settle, AttemptToRead
  <2> QED
    BY <1>0, <1>1, <2>1, Ended
<1> QED
  BY <1>2, <1>3, <1>4, <1>5, <1>7, <1>8, <1>9, <1>10, <1>11, <1>12, <1>13, <1>14 DEF Moves, Handle

LEMMA RequestNext == IInv /\ [Next]_vars => \A q \in Requests : RequestInv(q)'
<1> SUFFICES ASSUME IInv, [Next]_vars, NEW q \in Requests PROVE RequestInv(q)'
  OBVIOUS
<1>1. Still(q) \/ Moves(q)
  BY StillOrMoves DEF IInv
<1> QED
  BY <1>1, RequestKept, RequestMoves

----------------------------------------------------------------------------
(* Where the rows, the letters and the events come from. *)

\* The order of the places a request goes through.
LEMMA Places ==
  ASSUME TypeOK, NEW q \in Requests, Moves(q)
  PROVE  /\ pc[q] \notin EndedAt /\ pc'[q] # "idle"
         /\ pc'[q] = "lines" => pc[q] = "idle"
         /\ pc'[q] = "mail" => pc[q] = "lines"
         /\ pc'[q] = "mailing" => SendLetter(q)
         /\ pc'[q] = "reload" => AddLine(q) \/ Issue(q)
         /\ pc'[q] = "relines" => Reload(q)
         /\ pc[q] \in Reading => pc'[q] \in {"relines"} \cup EndedAt
<1> USE DEF TypeOK, End, Goto, Answers, EndedAt, InFlightAt, Reading
<1>1. CASE \E i \in Invoices, a \in Asked : LoadInvoice(q, a.op, i, a.key)
  BY <1>1 DEF LoadInvoice
<1>2. CASE LoadLines(q)
  BY <1>2 DEF LoadLines, After
<1>3. CASE Reload(q) \/ ReloadLines(q) \/ AddLine(q) \/ SendLetter(q) \/ ReturnFromEmail(q) \/ Issue(q)
  BY <1>3 DEF Reload, ReloadLines, AddLine, SendLetter, ReturnFromEmail, Issue
<1>4. CASE Lookup(q) \/ InsertAttempt(q)
  BY <1>4 DEF Lookup, InsertAttempt, AttemptToRead
<1>5. CASE CallProvider(q) \/ ReturnFromProvider(q)
  BY <1>5 DEF CallProvider, ReturnFromProvider, AttemptToRead
<1>6. CASE FailAttempt(q) \/ Settle(q) \/ Abort(q)
  BY <1>6 DEF FailAttempt, Settle, AttemptToRead, Abort
<1> QED
  BY <1>1, <1>2, <1>3, <1>4, <1>5, <1>6 DEF Moves, Handle

LEMMA OnlyIssue ==
  ASSUME [Next]_vars, <<status, events>>' # <<status, events>>
  PROVE  (\E i \in Invoices : CreateInvoice(i)) \/ \E r \in Requests : Issue(r) \/ Settle(r)
BY DEF Next, CreateCustomer, LoadInvoice, LoadLines, Reload, ReloadLines, AddLine, SendLetter,
   ReturnFromEmail, Lookup, InsertAttempt, CallProvider, ReturnFromProvider, FailAttempt,
   Abort, EmailAccepts, ProviderExecutes, vars, db

LEMMA LetterNext == IInv /\ [Next]_vars => LetterInv'
<1> SUFFICES ASSUME IInv, [Next]_vars, NEW m \in letters'
             PROVE  /\ pc'[m.by] \notin {"idle", "lines", "mail"}
                    /\ pc'[m.by] = "mailing" => m = OwnLetter(m.by)'
  BY DEF LetterInv
<1>0. TypeOK /\ TypeOK' /\ LetterInv /\ m.by \in Requests
  BY TypeNext DEF IInv, TypeOK, Letter
<1>1. CASE m \in letters
  <2>1. CASE Still(m.by)
    BY <1>0, <1>1, <2>1 DEF LetterInv, OwnLetter, Still
  <2>2. CASE Moves(m.by)
    <3>1. ~SendLetter(m.by)
      BY <1>0, <1>1 DEF LetterInv, SendLetter
    <3> QED
      BY <1>0, <1>1, <2>2, <3>1, Places DEF LetterInv
  <2> QED
    BY <1>0, <2>1, <2>2, StillOrMoves
<1>2. CASE m \notin letters
  <2>1. PICK r \in Requests : SendLetter(r)
    BY <1>2 DEF Next, CreateCustomer, CreateInvoice, LoadInvoice, LoadLines, Reload,
       ReloadLines, AddLine, ReturnFromEmail, Issue, Lookup, InsertAttempt, CallProvider,
       ReturnFromProvider, FailAttempt, Settle, Abort, EmailAccepts, ProviderExecutes, vars,
       email
  <2>2. m = OwnLetter(r) /\ m.by = r /\ pc'[r] = "mailing" /\ session' = session
    BY <1>0, <1>2, <2>1 DEF SendLetter, OwnLetter, Goto, TypeOK
  <2> QED
    BY <2>2 DEF OwnLetter
<1> QED
  BY <1>1, <1>2

\* An event is written by an issue or a settlement, about the lines loaded.
LEMMA NewEvent ==
  ASSUME IInv, [Next]_vars, NEW e \in events', e \notin events
  PROVE  \E r \in Requests :
           /\ \/ Issue(r) /\ e.type = "invoice.issued"
              \/ Settle(r) /\ e.type = "invoice.paid"
           /\ e = [type |-> e.type, inv |-> session[r].inv, by |-> r, total |-> session[r].lines]
<1>1. PICK r \in Requests : Issue(r) \/ Settle(r)
  BY OnlyIssue DEF CreateInvoice
<1> QED
  BY <1>1 DEF Issue, Settle

LEMMA EventNext == IInv /\ [Next]_vars => EventInv'
<1> SUFFICES ASSUME IInv, [Next]_vars, NEW e \in events'
             PROVE  /\ e.total \subseteq lines'[e.inv]
                    /\ Issued(e.inv)'
                    /\ pc'[e.by] \in Reading \cup EndedAt
                    /\ pc'[e.by] \in Reading => session'[e.by].inv = e.inv
                    /\ pc'[e.by] = "relines" => session'[e.by].status # "draft"
  BY DEF EventInv, Issued
<1>0. /\ TypeOK /\ TypeOK' /\ EventInv /\ Keeps
      /\ e.by \in Requests /\ e.inv \in Invoices
      /\ \A r \in Requests : RequestInv(r)
  BY TypeNext, NextKeeps DEF IInv, TypeOK, Event
<1>1. CASE e \in events
  <2>1. e.total \subseteq lines'[e.inv] /\ Issued(e.inv)'
    BY <1>0, <1>1 DEF EventInv, Keeps
  <2>2. CASE Still(e.by)
    BY <1>0, <1>1, <2>1, <2>2 DEF EventInv, Still
  <2>3. CASE Moves(e.by)
    <3>1. pc[e.by] \in Reading /\ pc'[e.by] \in {"relines"} \cup EndedAt
      BY <1>0, <1>1, <2>3, Places DEF EventInv
    <3>2. CASE pc'[e.by] = "relines"
      <4>1. Reload(e.by) /\ session[e.by] \in Session
        BY <1>0, <2>3, <3>2, Places, InHand DEF Reload, InFlightAt
      <4>2. session'[e.by] = [session[e.by] EXCEPT !.status = status[session[e.by].inv]]
        BY <1>0, <4>1 DEF Reload, TypeOK
      <4>3. session[e.by].inv = e.inv /\ status[e.inv] # "draft"
        BY <1>0, <1>1, <3>1 DEF EventInv, Issued
      <4> QED
        BY <2>1, <3>2, <4>1, <4>2, <4>3 DEF Session, Reading
    <3>3. CASE pc'[e.by] \in EndedAt
      BY <2>1, <3>3 DEF Reading, EndedAt
    <3> QED
      BY <3>1, <3>2, <3>3
  <2> QED
    BY <1>0, <2>2, <2>3, StillOrMoves
<1>2. CASE e \notin events
  <2>1. PICK r \in Requests :
           /\ Issue(r) \/ Settle(r)
           /\ e = [type |-> e.type, inv |-> session[r].inv, by |-> r, total |-> session[r].lines]
    BY <1>2, NewEvent
  <2>2. e.by = r /\ e.inv = session[r].inv /\ e.total = session[r].lines
    BY <2>1
  <2>3. session[r] # None /\ LoadedInv(session[r])
    BY <1>0, <2>1 DEF Issue, Settle, RequestInv, InFlightAt
  <2>4. e.total \subseteq lines'[e.inv] /\ Issued(e.inv)'
    BY <1>0, <2>1, <2>2, <2>3 DEF Issue, Settle, LoadedInv, Issued, TypeOK
  <2>5. CASE Issue(r)
    <3>1. pc'[r] = "reload" /\ session' = session
      BY <1>0, <2>5 DEF Issue, Goto, TypeOK
    <3> QED
      BY <2>2, <2>4, <3>1 DEF Reading
  <2>6. CASE Settle(r)
    <3>1. pc'[r] = "done"
      BY <1>0, <2>6 DEF Settle, AttemptToRead, Answers, TypeOK
    <3> QED
      BY <2>2, <2>4, <3>1 DEF Reading, EndedAt
  <2> QED
    BY <2>1, <2>5, <2>6
<1> QED
  BY <1>1, <1>2

LEMMA RowsNext == IInv /\ [Next]_vars => RowsInv'
<1> SUFFICES ASSUME IInv, [Next]_vars, NEW i \in Invoices
             PROVE  /\ Issued(i)' => Told("invoice.issued", i)'
                    /\ status'[i] = "paid" => Told("invoice.paid", i)'
  BY DEF RowsInv
<1>0. /\ TypeOK /\ RowsInv /\ Keeps
      /\ \A r \in Requests : RequestInv(r)
  BY NextKeeps DEF IInv
<1>1. ASSUME NEW type, Told(type, i) PROVE Told(type, i)'
  BY <1>0, <1>1 DEF Told, Keeps
<1>2. CASE status'[i] = status[i]
  BY <1>0, <1>1, <1>2 DEF RowsInv, Issued
<1>3. CASE \E j \in Invoices : CreateInvoice(j)
  BY <1>0, <1>1, <1>3 DEF RowsInv, Issued, CreateInvoice, TypeOK
<1>4. ASSUME NEW r \in Requests, Issue(r), i = session[r].inv
      PROVE  Told("invoice.issued", i)' /\ status'[i] = "issued"
  <2> DEFINE e == [type |-> "invoice.issued", inv |-> session[r].inv,
                   by |-> r, total |-> session[r].lines]
  <2>1. e \in events' /\ e.type = "invoice.issued" /\ e.inv = i
    BY <1>4 DEF Issue
  <2>2. status'[i] = "issued"
    BY <1>0, <1>4 DEF Issue, TypeOK
  <2> QED
    BY <2>1, <2>2 DEF Told
<1>5. ASSUME NEW r \in Requests, Settle(r), i = session[r].inv
      PROVE  Told("invoice.issued", i)' /\ Told("invoice.paid", i)'
  <2> DEFINE e == [type |-> "invoice.paid", inv |-> session[r].inv,
                   by |-> r, total |-> session[r].lines]
  <2>1. e \in events' /\ e.type = "invoice.paid" /\ e.inv = i
    BY <1>5 DEF Settle
  <2>2. session[r] # None /\ session[r].status = "issued"
    BY <1>0, <1>5 DEF Settle, RequestInv, InFlightAt, Paying
  <2>3. Told("invoice.issued", i)
    BY <1>0, <1>5, <2>2 DEF RequestInv, LoadedInv
  <2> QED
    BY <1>1, <2>1, <2>3 DEF Told
<1>6. CASE status'[i] # status[i] /\ ~\E j \in Invoices : CreateInvoice(j)
  <2>1. PICK r \in Requests : Issue(r) \/ Settle(r)
    BY <1>6, OnlyIssue
  <2>2. i = session[r].inv
    BY <1>0, <1>6, <2>1 DEF Issue, Settle, TypeOK
  <2> QED
    BY <1>4, <1>5, <2>1, <2>2
<1> QED
  BY <1>2, <1>3, <1>6

LEMMA MailedNext == IInv /\ [Next]_vars => IssuedWasMailed'
<1> SUFFICES ASSUME IInv, [Next]_vars, NEW e \in events', e.type = "invoice.issued"
             PROVE  [by |-> e.by, inv |-> e.inv, total |-> e.total] \in mails'
  BY DEF IssuedWasMailed
<1>0. Keeps /\ \A r \in Requests : RequestInv(r)
  BY NextKeeps DEF IInv
<1>1. CASE e \in events
  BY <1>0, <1>1 DEF IInv, IssuedWasMailed, Keeps
<1>2. CASE e \notin events
  <2>1. PICK r \in Requests :
           /\ Issue(r)
           /\ e = [type |-> e.type, inv |-> session[r].inv, by |-> r, total |-> session[r].lines]
    BY <1>2, NewEvent
  <2>2. [by |-> e.by, inv |-> e.inv, total |-> e.total] = OwnLetter(r)
    BY <2>1 DEF OwnLetter
  <2>3. OwnLetter(r) \in mails
    BY <1>0, <2>1 DEF Issue, RequestInv
  <2> QED
    BY <1>0, <2>2, <2>3 DEF Keeps
<1> QED
  BY <1>1, <1>2

----------------------------------------------------------------------------
(* The attempts, the calls and the charges. *)

LEMMA AttemptMoves ==
  ASSUME IInv, [Next]_vars, NEW q \in Requests, attempt'[q] # attempt[q]
  PROVE  InsertAttempt(q) \/ FailAttempt(q) \/ Settle(q)
<1>1. Moves(q)
  BY StillOrMoves DEF IInv, Still
<1> QED
  BY <1>1 DEF Moves, LoadInvoice, Handle, LoadLines, Reload, ReloadLines, AddLine, SendLetter,
     ReturnFromEmail, Issue, Lookup, CallProvider, ReturnFromProvider, Abort, db

\* An attempt appears by the INSERT of its own request, when no other holds
\* the key.
LEMMA OnlyInsert ==
  ASSUME IInv, [Next]_vars, NEW q \in Requests, attempt[q] = None, attempt'[q] # None
  PROVE  /\ pc[q] = "insert"
         /\ AttemptOf(session[q].inv, session[q].key) = {}
         /\ attempt' = [attempt EXCEPT ![q] = NewAttempt(q)]
<1>0. TypeOK /\ RequestInv(q)
  BY DEF IInv
<1>1. FailAttempt(q) \/ Settle(q) => attempt[q] # None
  BY <1>0, InHand, NoneAssumption DEF FailAttempt, Settle, Recorded
<1>2. InsertAttempt(q)
  BY <1>1, AttemptMoves
<1> QED
  BY <1>2 DEF InsertAttempt

\* A payment succeeds by the settlement of its own request, once charged.
LEMMA OnlySettle ==
  ASSUME IInv, [Next]_vars, NEW q \in Requests, Succeeded(q)', ~Succeeded(q)
  PROVE  /\ Settle(q)
         /\ attempt' = [attempt EXCEPT ![q].status = "succeeded"]
         /\ attempt[q] = NewAttempt(q)
<1>0. TypeOK /\ RequestInv(q)
  BY DEF IInv
<1>1. attempt'[q] # attempt[q]
  BY DEF Succeeded
<1>2. ~InsertAttempt(q)
  BY <1>0, <1>1 DEF InsertAttempt, NewAttempt, Succeeded, TypeOK
<1>3. ~FailAttempt(q)
  <2> SUFFICES ASSUME FailAttempt(q) PROVE attempt'[q].status = "failed"
    BY DEF Succeeded
  <2>1. attempt[q] \in Attempt
    BY <1>0, InHand DEF FailAttempt, Recorded
  <2> QED
    BY <1>0, <2>1 DEF FailAttempt, TypeOK, Attempt
<1>4. Settle(q)
  BY <1>1, <1>2, <1>3, AttemptMoves
<1> QED
  BY <1>0, <1>4 DEF Settle, RequestInv, Recorded

LEMMA IssuedNext == IInv /\ [Next]_vars => AttemptsIssued'
<1> SUFFICES ASSUME IInv, [Next]_vars, NEW q \in Requests, attempt'[q] # None
             PROVE  Issued(attempt[q].inv)'
  BY DEF AttemptsIssued
<1>0. TypeOK /\ AttemptsIssued /\ EventInv /\ Keeps /\ RequestInv(q)
  BY NextKeeps DEF IInv
<1>1. CASE attempt[q] # None
  <2>1. attempt[q].inv \in Invoices
    BY <1>0, <1>1 DEF TypeOK, Attempt
  <2> QED
    BY <1>0, <1>1, <2>1 DEF AttemptsIssued, Keeps, Issued
<1>2. CASE attempt[q] = None
  <2>1. pc[q] = "insert" /\ attempt'[q].inv = session[q].inv
    BY <1>0, <1>2, OnlyInsert DEF NewAttempt, TypeOK
  <2>2. session[q] \in Session /\ session[q].inv \in Invoices /\ session[q] # None
    BY <1>0, <2>1, InHand, NoneAssumption DEF InFlightAt, Session
  <2>3. Told("invoice.issued", session[q].inv)
    BY <1>0, <2>1, <2>2 DEF RequestInv, LoadedInv, Paying
  <2>4. Issued(session[q].inv)
    BY <1>0, <2>3 DEF Told, EventInv
  <2> QED
    BY <1>0, <2>1, <2>2, <2>4 DEF Keeps, Issued
<1> QED
  BY <1>1, <1>2

LEMMA UniqueNext == IInv /\ [Next]_vars => UniqueAttempt'
<1> SUFFICES ASSUME IInv, [Next]_vars,
                    NEW q1 \in Requests, NEW q2 \in Requests, q1 # q2,
                    attempt'[q1] # None, attempt'[q2] # None,
                    attempt'[q1].inv = attempt'[q2].inv, attempt'[q1].key = attempt'[q2].key
             PROVE  FALSE
  BY DEF UniqueAttempt
<1>0. TypeOK /\ UniqueAttempt /\ Keeps
  BY NextKeeps DEF IInv
<1>1. ASSUME NEW a \in Requests, NEW b \in Requests, a # b, attempt[a] = None,
             attempt'[a] # None, attempt'[b] # None,
             attempt'[a].inv = attempt'[b].inv, attempt'[a].key = attempt'[b].key
      PROVE FALSE
  <2>1. /\ AttemptOf(session[a].inv, session[a].key) = {}
        /\ attempt' = [attempt EXCEPT ![a] = NewAttempt(a)]
    BY <1>1, OnlyInsert
  <2>2. attempt'[b] = attempt[b] /\ attempt'[a] = NewAttempt(a)
    BY <1>0, <1>1, <2>1 DEF TypeOK
  <2>3. b \in AttemptOf(session[a].inv, session[a].key)
    BY <1>1, <2>2 DEF AttemptOf, NewAttempt
  <2> QED
    BY <2>1, <2>3
<1>2. attempt[q1] # None /\ attempt[q2] # None
  BY <1>1
<1> QED
  BY <1>0, <1>2 DEF Keeps, UniqueAttempt

LEMMA CallNext == IInv /\ [Next]_vars => CallInv'
<1> SUFFICES ASSUME IInv, [Next]_vars PROVE CallInv'
  OBVIOUS
<1> USE DEF db, provider
<1>0. /\ TypeOK /\ CallInv /\ Keeps
      /\ \A r \in Requests : RequestInv(r)
  BY NextKeeps DEF IInv
<1>1. ASSUME NEW c \in calls'
      PROVE  /\ attempt'[c.by] # None /\ attempt'[c.by].inv = c.inv
             /\ attempt'[c.by].key = c.key /\ attempt'[c.by].amount = c.amount
  <2>1. CASE c \in calls
    BY <1>0, <2>1 DEF CallInv, Keeps, TypeOK, Call
  <2>2. CASE c \notin calls
    <3>1. PICK r \in Requests : CallProvider(r)
      BY <1>1, <2>2 DEF Next, CreateCustomer, CreateInvoice, LoadInvoice, LoadLines, Reload,
         ReloadLines, AddLine, SendLetter, ReturnFromEmail, Issue, Lookup, InsertAttempt,
         ReturnFromProvider, FailAttempt, Settle, Abort, EmailAccepts, ProviderExecutes, vars
    <3>2. c = [by |-> r, inv |-> session[r].inv, key |-> session[r].key,
               amount |-> session[r].lines]
      BY <2>2, <3>1 DEF CallProvider
    <3>3. attempt[r] = NewAttempt(r) /\ attempt[r] # None /\ attempt'[r] = attempt[r]
      BY <1>0, <3>1, InHand, NoneAssumption DEF CallProvider, Recorded
    <3> QED
      BY <3>2, <3>3 DEF NewAttempt
  <2> QED
    BY <2>1, <2>2
<1>2. ASSUME NEW k \in Keys, ledger'[k] # None
      PROVE  \E c \in calls' : c.key = k /\ c.inv = ledger'[k].inv /\ c.amount = ledger'[k].amount
  <2>1. CASE ledger[k] # None
    BY <1>0, <2>1 DEF CallInv, Keeps
  <2>2. CASE ledger[k] = None
    <3>1. PICK c \in calls, ok \in BOOLEAN : ProviderExecutes(c, ok)
      BY <1>2, <2>2 DEF Next, CreateCustomer, CreateInvoice, LoadInvoice, LoadLines, Reload,
         ReloadLines, AddLine, SendLetter, ReturnFromEmail, Issue, Lookup, InsertAttempt,
         CallProvider, ReturnFromProvider, FailAttempt, Settle, Abort, EmailAccepts, vars
    <3>2. ledger' = [ledger EXCEPT ![c.key] = [inv |-> c.inv, amount |-> c.amount, ok |-> ok]]
      BY <3>1 DEF ProviderExecutes
    <3>3. c.key = k
      BY <1>0, <1>2, <2>2, <3>2 DEF TypeOK
    <3>4. ledger'[k].inv = c.inv /\ ledger'[k].amount = c.amount
      BY <1>0, <3>2, <3>3 DEF TypeOK
    <3> QED
      BY <1>0, <3>3, <3>4 DEF Keeps
  <2> QED
    BY <2>1, <2>2
<1> QED
  BY <1>1, <1>2 DEF CallInv

\* The event of a succeeded attempt.
PaidEvent(r) == [type |-> "invoice.paid", inv |-> attempt[r].inv, by |-> r,
                 total |-> attempt[r].amount]

PaidEvents == {e \in events : e.type = "invoice.paid"}

PaidForm ==
  /\ \A i \in Invoices : status[i] = "paid" => \E r \in Requests : Succeeded(r) /\ attempt[r].inv = i
  /\ \A e \in PaidEvents : \E r \in Requests : Succeeded(r) /\ e = PaidEvent(r)
  /\ \A r \in Requests : Succeeded(r) => PaidEvent(r) \in PaidEvents
  /\ \A r \in Requests : Succeeded(r) =>
       ledger[attempt[r].key] =
         [inv |-> attempt[r].inv, amount |-> attempt[r].amount, ok |-> TRUE]

LEMMA PaidIsForm == PaidWasCharged <=> PaidForm
  BY DEF PaidWasCharged, PaidForm, PaidEvents, PaidEvent

LEMMA PaidNext == IInv /\ [Next]_vars => PaidWasCharged'
<1> SUFFICES ASSUME IInv, [Next]_vars PROVE PaidWasCharged'
  OBVIOUS
<1>0. /\ TypeOK /\ PaidForm /\ Keeps
      /\ \A r \in Requests : RequestInv(r)
  BY NextKeeps, PaidIsForm DEF IInv
<1>1. ASSUME NEW r \in Requests, Succeeded(r)
      PROVE  /\ Succeeded(r)' /\ PaidEvent(r)' = PaidEvent(r)
             /\ attempt'[r] = attempt[r] /\ attempt[r] \in Attempt
  <2>1. attempt'[r] = attempt[r]
    BY <1>0, <1>1 DEF Keeps, Succeeded
  <2>2. attempt[r] \in Attempt
    BY <1>0, <1>1 DEF Succeeded, TypeOK
  <2> QED
    BY <1>1, <2>1, <2>2 DEF Succeeded, PaidEvent
\* A settlement, as its row, its event and its charge have it.
<1>2. ASSUME NEW r \in Requests, Settle(r)
      PROVE  /\ attempt'[r] # None /\ attempt'[r].status = "succeeded"
             /\ attempt'[r].inv = session[r].inv
             /\ attempt'[r].amount = session[r].lines
             /\ attempt'[r].key = session[r].key
             /\ [type |-> "invoice.paid", inv |-> session[r].inv, by |-> r,
                 total |-> session[r].lines] \in events'
             /\ ledger'[session[r].key] =
                  [inv |-> session[r].inv, amount |-> session[r].lines, ok |-> TRUE]
  <2>1. attempt[r] = NewAttempt(r) /\ attempt[r] \in Attempt
    BY <1>0, <1>2, InHand DEF Settle, Recorded
  <2>2. attempt'[r] = [attempt[r] EXCEPT !.status = "succeeded"]
    BY <1>0, <1>2 DEF Settle, TypeOK
  <2>3. attempt'[r] \in Attempt
    BY <2>1, <2>2 DEF Attempt
  <2> QED
    BY <1>0, <1>2, <2>1, <2>2, <2>3, NoneAssumption
       DEF Settle, RequestInv, NewAttempt, provider
<1>3. ASSUME NEW i \in Invoices, status'[i] = "paid"
      PROVE  \E r \in Requests : Succeeded(r)' /\ attempt'[r].inv = i
  <2>1. CASE status[i] = "paid"
    BY <1>0, <1>1, <2>1 DEF PaidForm
  <2>2. CASE status[i] # "paid"
    <3>1. PICK r \in Requests : Issue(r) \/ Settle(r)
      <4>1. \A j \in Invoices : ~CreateInvoice(j)
        BY <1>0, <1>3, <2>2 DEF CreateInvoice, TypeOK
      <4> QED
        BY <1>3, <2>2, <4>1, OnlyIssue
    <3>2. Settle(r) /\ i = session[r].inv
      BY <1>0, <1>3, <2>2, <3>1 DEF Issue, Settle, TypeOK
    <3> QED
      BY <1>2, <3>2 DEF Succeeded
  <2> QED
    BY <2>1, <2>2
<1>4. ASSUME NEW e \in PaidEvents' PROVE \E r \in Requests : Succeeded(r)' /\ e = PaidEvent(r)'
  <2>1. CASE e \in events
    <3>1. PICK r \in Requests : Succeeded(r) /\ e = PaidEvent(r)
      BY <1>0, <1>4, <2>1 DEF PaidEvents, PaidForm
    <3> QED
      BY <1>1, <3>1
  <2>2. CASE e \notin events
    <3>1. PICK r \in Requests :
             /\ Settle(r)
             /\ e = [type |-> "invoice.paid", inv |-> session[r].inv, by |-> r,
                     total |-> session[r].lines]
      BY <1>4, <2>2, NewEvent DEF PaidEvents
    <3> QED
      BY <1>2, <3>1 DEF Succeeded, PaidEvent
  <2> QED
    BY <2>1, <2>2
<1>5. ASSUME NEW r \in Requests, Succeeded(r)'
      PROVE  /\ (PaidEvent(r) \in PaidEvents)'
             /\ ledger'[attempt'[r].key] =
                  [inv |-> attempt'[r].inv, amount |-> attempt'[r].amount, ok |-> TRUE]
  <2>1. CASE Succeeded(r)
    <3>1. PaidEvent(r) \in PaidEvents
      BY <1>0, <2>1 DEF PaidForm
    <3>2. ledger[attempt[r].key] =
            [inv |-> attempt[r].inv, amount |-> attempt[r].amount, ok |-> TRUE]
      BY <1>0, <2>1 DEF PaidForm
    <3>3. attempt[r].key \in Keys /\ ledger[attempt[r].key] # None
      <4>1. [inv |-> attempt[r].inv, amount |-> attempt[r].amount, ok |-> TRUE] \in Charge
        BY <1>1, <2>1 DEF Attempt, Charge
      <4> QED
        BY <1>1, <2>1, <3>2, <4>1, NoneAssumption DEF Attempt
    <3>4. ledger'[attempt[r].key] = ledger[attempt[r].key]
      BY <1>0, <3>3 DEF Keeps
    <3>5. (PaidEvent(r) \in PaidEvents)'
      BY <1>0, <1>1, <2>1, <3>1 DEF PaidEvents, Keeps
    <3> QED
      BY <1>1, <2>1, <3>2, <3>4, <3>5
  <2>2. CASE ~Succeeded(r)
    <3>1. Settle(r)
      BY <1>5, <2>2, OnlySettle
    <3> QED
      BY <1>2, <3>1 DEF PaidEvents, PaidEvent
  <2> QED
    BY <2>1, <2>2
<1>6. PaidForm'
  BY <1>3, <1>4, <1>5 DEF PaidForm
<1> QED
  BY <1>6, PaidIsForm, PTL

----------------------------------------------------------------------------
(* The answers. *)

InvoiceAnswer(r, a) ==
  /\ r \in lines[a.inv] => r \in a.lines
  /\ (\E e \in events : e.by = r) => a.status # "draft"
  /\ a.status # "draft" => Announced("invoice.issued", a.inv, a.lines)
  /\ a.status = "paid" => Announced("invoice.paid", a.inv, a.lines)

PaymentAnswer(a) ==
  /\ attempt[a.by] # None
  /\ a.status # "processing" => attempt[a.by].status = a.status
  /\ a.invoice_status = "paid" => Announced("invoice.paid", attempt[a.by].inv, Requests)

AnswerForm ==
  \A r \in Requests : answer[r] # None =>
    IF ShowsInvoice(r) THEN InvoiceAnswer(r, answer[r]) ELSE PaymentAnswer(answer[r])

LEMMA AnswerIsForm == AnswerInv <=> AnswerForm
  BY DEF AnswerInv, AnswersHold, AnswerForm, InvoiceAnswer, PaymentAnswer

\* The two answers are told apart by their fields.
LEMMA PaymentIsNoInvoice ==
  ASSUME NEW a \in PaymentAttemptRead
  PROVE  a \notin InvoiceRead
<1>1. DOMAIN a = {"by", "status", "invoice_status"}
  BY DEF PaymentAttemptRead
<1>2. a \in InvoiceRead => DOMAIN a = {"inv", "status", "lines"}
  BY DEF InvoiceRead
<1> QED
  BY <1>1, <1>2

\* An announcement names lines the invoice still has.
LEMMA ToldIsAnnounced ==
  ASSUME IInv, NEW i \in Invoices, NEW type, Told(type, i)
  PROVE  Announced(type, i, lines[i]) /\ Announced(type, i, Requests)
<1>1. PICK e \in events : e.type = type /\ e.inv = i
  BY DEF Told
<1>2. e.total \subseteq lines[i] /\ lines[i] \subseteq Requests
  BY <1>1 DEF IInv, EventInv, TypeOK, Amount
<1> QED
  BY <1>1, <1>2 DEF Announced

LEMMA AnnouncedKept ==
  ASSUME IInv, [Next]_vars, NEW type, NEW i, NEW total, Announced(type, i, total)
  PROVE  Announced(type, i, total)'
<1>1. Keeps
  BY NextKeeps
<1> QED
  BY <1>1 DEF Announced, Keeps

LEMMA OnlyAddLine ==
  ASSUME IInv, [Next]_vars, NEW i \in Invoices, NEW r \in Requests,
         r \in lines'[i], r \notin lines[i]
  PROVE  AddLine(r)
<1>1. PICK q \in Requests : AddLine(q)
  BY DEF Next, CreateCustomer, CreateInvoice, LoadInvoice, LoadLines, Reload, ReloadLines,
     SendLetter, ReturnFromEmail, Issue, Lookup, InsertAttempt, CallProvider,
     ReturnFromProvider, FailAttempt, Settle, Abort, EmailAccepts, ProviderExecutes, vars, db
<1>2. q = r
  BY <1>1 DEF AddLine, IInv, TypeOK
<1> QED
  BY <1>1, <1>2

\* What was shown stays true, whoever moves.
LEMMA InvoiceAnswerKept ==
  ASSUME IInv, [Next]_vars, NEW r \in Requests, Still(r), answer[r] \in InvoiceRead,
         InvoiceAnswer(r, answer[r])
  PROVE  InvoiceAnswer(r, answer[r])'
<1> DEFINE a == answer[r]
<1>1. a.inv \in Invoices /\ answer'[r] = a
  BY DEF InvoiceRead, Still
<1>2. r \in lines'[a.inv] => r \in lines[a.inv]
  <2>1. ~AddLine(r)
    BY DEF IInv, TypeOK, AddLine, Goto, Still
  <2> QED
    BY <1>1, <2>1, OnlyAddLine
<1>3. ASSUME NEW e \in events', e.by = r PROVE e \in events
  <2>1. ~Issue(r) /\ ~Settle(r)
    BY DEF IInv, TypeOK, Issue, Settle, AttemptToRead, Answers, Goto, Still
  <2> QED
    BY <1>3, <2>1, NewEvent
<1>4. \A type \in {"invoice.issued", "invoice.paid"} :
        Announced(type, a.inv, a.lines) => \E e \in events' : e.type = type /\ e.inv = a.inv /\ e.total \subseteq a.lines
  BY NextKeeps DEF Keeps, Announced
<1> QED
  BY <1>1, <1>2, <1>3, <1>4 DEF InvoiceAnswer, Announced

LEMMA PaymentAnswerKept ==
  ASSUME IInv, [Next]_vars, NEW r \in Requests, Still(r), answer[r] \in PaymentAttemptRead,
         PaymentAnswer(answer[r])
  PROVE  PaymentAnswer(answer[r])'
<1> DEFINE a == answer[r]
<1>1. a.by \in Requests /\ answer'[r] = a
  BY DEF PaymentAttemptRead, Still
<1>2. /\ attempt'[a.by] # None /\ attempt'[a.by].inv = attempt[a.by].inv
      /\ attempt'[a.by] # attempt[a.by] => attempt[a.by].status = "processing"
  BY <1>1, NextKeeps DEF Keeps, PaymentAnswer
<1>3. Announced("invoice.paid", attempt[a.by].inv, Requests) =>
        \E e \in events' : e.type = "invoice.paid" /\ e.inv = attempt[a.by].inv /\ e.total \subseteq Requests
  BY NextKeeps DEF Keeps, Announced
<1> QED
  BY <1>1, <1>2, <1>3 DEF PaymentAnswer, Announced

\* An invoice is shown with the lines of now.
LEMMA ShowsLoaded ==
  ASSUME IInv, NEW r \in Requests, NEW s \in Session, LoadedInv(s), s.lines = lines[s.inv],
         (\E e \in events : e.by = r) => s.status # "draft",
         UNCHANGED <<lines, events>>, answer'[r] = InvoiceToRead(s)
  PROVE  answer'[r] \in InvoiceRead /\ InvoiceAnswer(r, answer[r])'
<1> DEFINE a == InvoiceToRead(s)
<1>1. /\ a \in InvoiceRead /\ s.inv \in Invoices
      /\ a.inv = s.inv /\ a.status = s.status /\ a.lines = lines[s.inv]
  BY DEF InvoiceToRead, InvoiceRead, Session
<1>2. /\ s.status # "draft" => Announced("invoice.issued", s.inv, lines[s.inv])
      /\ s.status = "paid" => Announced("invoice.paid", s.inv, lines[s.inv])
  BY <1>1, ToldIsAnnounced DEF LoadedInv
<1>3. answer'[r] = a
  OBVIOUS
<1> HIDE DEF a
<1> QED
  BY <1>1, <1>2, <1>3 DEF InvoiceAnswer, Announced

LEMMA AnswerMoves ==
  ASSUME IInv, [Next]_vars, NEW r \in Requests, Moves(r), answer'[r] # None
  PROVE  IF ShowsInvoice(r)' THEN InvoiceAnswer(r, answer[r])' ELSE PaymentAnswer(answer[r])'
<1> USE DEF db
<1>0. /\ TypeOK /\ TypeOK' /\ RequestInv(r) /\ EventInv /\ Keeps
      /\ pc[r] \in InFlightAt => session[r] \in Session /\ session[r].inv \in Invoices
  <2>1. TypeOK /\ RequestInv(r)
    BY DEF IInv
  <2> QED
    BY <2>1, TypeNext, NextKeeps, InHand DEF IInv, Session
<1>1. answer[r] = None
  BY <1>0, Places DEF RequestInv, EndedAt
\* An answer about the payment attempt of b.
<1>2. ASSUME NEW b \in Requests, NEW st \in Status, AttemptToRead(r, b, st), attempt'[b] # None,
             st = "paid" => Announced("invoice.paid", attempt[b].inv, Requests)'
      PROVE  ~ShowsInvoice(r)' /\ PaymentAnswer(answer[r])'
  <2> DEFINE a == [by |-> b, status |-> attempt'[b].status, invoice_status |-> st]
  <2>1. answer'[r] = a
    BY <1>0, <1>2 DEF AttemptToRead, Answers, TypeOK
  <2>2. attempt'[b] \in Attempt
    BY <1>0, <1>2 DEF TypeOK
  <2>3. a \in PaymentAttemptRead
    BY <2>2 DEF Attempt, PaymentAttemptRead
  <2>4. a \notin InvoiceRead
    BY <2>3, PaymentIsNoInvoice
  <2>5. a.by = b /\ a.status = attempt'[b].status /\ a.invoice_status = st
    OBVIOUS
  <2> HIDE DEF a
  <2> QED
    BY <1>2, <2>1, <2>4, <2>5 DEF ShowsInvoice, PaymentAnswer, Announced
<1>3. ASSUME NEW s, Answers(r, InvoiceToRead(s)) PROVE answer'[r] = InvoiceToRead(s)
  BY <1>0, <1>3 DEF Answers, TypeOK
<1>4. CASE LoadLines(r)
  <2> DEFINE s == [session[r] EXCEPT !.lines = lines[session[r].inv]]
  <2>1. session[r] \in Session /\ session[r] # None /\ LoadedInv(session[r])
    BY <1>0, <1>4 DEF LoadLines, RequestInv, InFlightAt
  <2>2. /\ s \in Session
        /\ s.op = session[r].op /\ s.inv = session[r].inv /\ s.key = session[r].key
        /\ s.status = session[r].status /\ s.lines = lines[session[r].inv]
    BY <1>0, <2>1 DEF Session, TypeOK, Amount
  <2>3. LoadedInv(s) /\ s.lines = lines[s.inv]
    BY <2>1, <2>2 DEF LoadedInv
  <2>4. ~\E e \in events : e.by = r
    BY <1>0, <1>4 DEF LoadLines, EventInv, Reading, EndedAt
  <2>5. answer'[r] = InvoiceToRead(s)
    BY <1>1, <1>3, <1>4 DEF LoadLines, End, Goto
  <2>6. UNCHANGED <<lines, events>>
    BY <1>4 DEF LoadLines
  <2> HIDE DEF s
  <2>7. answer'[r] \in InvoiceRead /\ InvoiceAnswer(r, answer[r])'
    BY <2>2, <2>3, <2>4, <2>5, <2>6, ShowsLoaded
  <2> QED
    BY <2>7 DEF ShowsInvoice
<1>5. CASE ReloadLines(r)
  <2> DEFINE s == [session[r] EXCEPT !.lines = lines[session[r].inv]]
  <2>1. session[r] \in Session /\ session[r] # None /\ LoadedInv(session[r])
    BY <1>0, <1>5 DEF ReloadLines, RequestInv, InFlightAt
  <2>2. /\ s \in Session
        /\ s.op = session[r].op /\ s.inv = session[r].inv /\ s.key = session[r].key
        /\ s.status = session[r].status /\ s.lines = lines[session[r].inv]
    BY <1>0, <2>1 DEF Session, TypeOK, Amount
  <2>3. LoadedInv(s) /\ s.lines = lines[s.inv]
    BY <2>1, <2>2 DEF LoadedInv
  <2>4. (\E e \in events : e.by = r) => s.status # "draft"
    BY <1>0, <1>5, <2>2 DEF ReloadLines, EventInv
  <2>5. answer'[r] = InvoiceToRead(s)
    BY <1>3, <1>5 DEF ReloadLines
  <2>6. UNCHANGED <<lines, events>>
    BY <1>5 DEF ReloadLines
  <2> HIDE DEF s
  <2>7. answer'[r] \in InvoiceRead /\ InvoiceAnswer(r, answer[r])'
    BY <2>2, <2>3, <2>4, <2>5, <2>6, ShowsLoaded
  <2> QED
    BY <2>7 DEF ShowsInvoice
<1>6. CASE Lookup(r)
  <2>1. session[r] \in Session /\ LoadedInv(session[r]) /\ session[r].inv \in Invoices
    BY <1>0, <1>6, NoneAssumption DEF Lookup, RequestInv, InFlightAt
  <2>2. PICK a \in AttemptOf(session[r].inv, session[r].key) :
          AttemptToRead(r, a, session[r].status)
    BY <1>1, <1>6 DEF Lookup, End, Goto
  <2>3. a \in Requests /\ attempt'[a] # None /\ attempt[a].inv = session[r].inv
    BY <1>6, <2>2 DEF AttemptOf, Lookup
  <2>4. session[r].status = "paid" => Announced("invoice.paid", session[r].inv, Requests)
    BY <2>1, ToldIsAnnounced DEF LoadedInv
  <2>5. session[r].status = "paid" => Announced("invoice.paid", attempt[a].inv, Requests)'
    BY <1>6, <2>3, <2>4 DEF Lookup, Announced
  <2> QED
    BY <1>2, <2>1, <2>2, <2>3, <2>5 DEF Session
<1>7. ASSUME pc[r] \in Recorded, AttemptToRead(r, r, session[r].status)
      PROVE  PaymentAnswer(answer[r])' /\ ~ShowsInvoice(r)'
  <2>1. attempt[r] # None /\ session[r].status = "issued"
    BY <1>0, <1>7, InHand, NoneAssumption DEF RequestInv, Recorded, Paying
  <2>2. attempt'[r] # None
    BY <1>0, <2>1 DEF Keeps
  <2> QED
    BY <1>2, <1>7, <2>1, <2>2 DEF Status
<1>8. CASE ReturnFromProvider(r) \/ FailAttempt(r)
  BY <1>1, <1>7, <1>8 DEF ReturnFromProvider, FailAttempt, Recorded, End, Goto
<1>9. CASE Settle(r)
  <2>1. attempt[r] = NewAttempt(r) /\ attempt[r] # None
    BY <1>0, <1>9, InHand, NoneAssumption DEF Settle, Recorded
  <2>2. attempt'[r] # None /\ attempt'[r].inv = session[r].inv
    BY <1>0, <2>1 DEF Keeps, NewAttempt
  <2>3. session[r].lines \subseteq Requests
    BY <1>0, <1>9 DEF Settle, InFlightAt, Session, Amount
  <2>4. Announced("invoice.paid", attempt[r].inv, Requests)'
    <3> DEFINE e == [type |-> "invoice.paid", inv |-> session[r].inv, by |-> r,
                     total |-> session[r].lines]
    <3>1. e \in events'
      BY <1>9 DEF Settle
    <3>2. e.type = "invoice.paid" /\ e.inv = session[r].inv /\ e.total = session[r].lines
      OBVIOUS
    <3> HIDE DEF e
    <3> QED
      BY <2>2, <2>3, <3>1, <3>2 DEF Announced
  <2> QED
    BY <1>2, <1>9, <2>2, <2>4 DEF Settle, Status
<1>10. LoadLines(r) \/ ReloadLines(r) \/ Lookup(r) \/ ReturnFromProvider(r) \/ FailAttempt(r) \/ Settle(r)
  BY <1>1 DEF Moves, Handle, LoadInvoice, Reload, AddLine, SendLetter, ReturnFromEmail, Issue,
     InsertAttempt, CallProvider, Abort, End, Goto
<1> QED
  BY <1>4, <1>5, <1>6, <1>7, <1>8, <1>9, <1>10

LEMMA AnswerNext == IInv /\ [Next]_vars => AnswerInv'
<1> SUFFICES ASSUME IInv, [Next]_vars PROVE AnswerInv'
  OBVIOUS
<1>1. TypeOK /\ AnswerForm
  BY AnswerIsForm DEF IInv
<1>2. ASSUME NEW r \in Requests, answer'[r] # None
      PROVE  IF ShowsInvoice(r)' THEN InvoiceAnswer(r, answer[r])' ELSE PaymentAnswer(answer[r])'
  <2>1. CASE Still(r)
    <3>1. answer[r] # None /\ answer[r] \in InvoiceRead \cup PaymentAttemptRead
      BY <1>1, <1>2, <2>1 DEF Still, TypeOK
    <3>2. ShowsInvoice(r)' <=> answer[r] \in InvoiceRead
      BY <1>2, <2>1 DEF ShowsInvoice, Still
    <3>3. CASE answer[r] \in InvoiceRead
      <4>1. InvoiceAnswer(r, answer[r])
        BY <1>1, <3>1, <3>3 DEF AnswerForm, ShowsInvoice
      <4> QED
        BY <2>1, <3>2, <3>3, <4>1, InvoiceAnswerKept
    <3>4. CASE answer[r] \notin InvoiceRead
      <4>1. PaymentAnswer(answer[r]) /\ answer[r] \in PaymentAttemptRead
        BY <1>1, <3>1, <3>4 DEF AnswerForm, ShowsInvoice
      <4> QED
        BY <2>1, <3>2, <3>4, <4>1, PaymentAnswerKept
    <3> QED
      BY <3>3, <3>4
  <2>2. CASE Moves(r)
    BY <1>2, <2>2, AnswerMoves
  <2> QED
    BY <1>1, <2>1, <2>2, StillOrMoves
<1>3. AnswerForm'
  BY <1>2 DEF AnswerForm
<1> QED
  BY <1>3, AnswerIsForm, PTL

----------------------------------------------------------------------------
(* The theorems. *)

\* The invariant is inductive: it holds of every state of the service.
THEOREM Inductive == Spec => []IInv
<1>1. Init => IInv
  BY InitIInv
<1>2. IInv /\ [Next]_vars => IInv'
  BY TypeNext, RequestNext, LetterNext, EventNext, RowsNext, MailedNext, IssuedNext,
     UniqueNext, CallNext, PaidNext, AnswerNext
     DEF IInv
<1> QED
  BY <1>1, <1>2, PTL DEF Spec

\* The state is well-typed.
THEOREM TypeCorrect == Spec => []TypeOK
<1>1. IInv => TypeOK
  BY DEF IInv
<1> QED
  BY <1>1, Inductive, PTL

\* issue_invoice announces an invoice only to a customer who was mailed that total.
THEOREM IssuedWereMailed == Spec => []IssuedWasMailed
<1>1. IInv => IssuedWasMailed
  BY DEF IInv
<1> QED
  BY <1>1, Inductive, PTL

\* An invoice that reads draft has no event, no attempt and no charge, although
\* add_invoice_line and issue_invoice decide on what they read long ago.
THEOREM DraftsAreUnbilled == Spec => []DraftIsUnbilled
<1>1. IInv => DraftIsUnbilled
  <2> SUFFICES ASSUME IInv, NEW i \in Invoices, ~Issued(i)
               PROVE  /\ \A e \in events : e.inv # i
                      /\ \A r \in Requests : attempt[r] # None => attempt[r].inv # i
                      /\ \A k \in Keys : ledger[k] # None => ledger[k].inv # i
    BY DEF DraftIsUnbilled, Issued
  <2>1. \A e \in events : e.inv # i
    BY DEF IInv, EventInv
  <2>2. \A r \in Requests : attempt[r] # None => attempt[r].inv # i
    BY DEF IInv, AttemptsIssued
  <2>3. ASSUME NEW k \in Keys, ledger[k] # None PROVE ledger[k].inv # i
    <3>1. PICK c \in calls : c.inv = ledger[k].inv
      BY <2>3 DEF IInv, CallInv
    <3>2. c.by \in Requests
      BY DEF IInv, TypeOK, Call
    <3> QED
      BY <2>2, <3>1, <3>2 DEF IInv, CallInv
  <2> QED
    BY <2>1, <2>2, <2>3
<1> QED
  BY <1>1, Inductive, PTL

\* The payment provider's books and the service's agree, from either side.
THEOREM BooksAgree == Spec => []BooksBalance
<1>1. IInv => BooksBalance
  <2> SUFFICES ASSUME IInv, NEW k \in Keys, ledger[k] # None
               PROVE  \E r \in Requests : /\ attempt[r] # None
                                          /\ attempt[r].key = k
                                          /\ attempt[r].inv = ledger[k].inv
                                          /\ attempt[r].amount = ledger[k].amount
    BY DEF BooksBalance, ChargeHasAttempt, IInv
  <2>1. PICK c \in calls : c.key = k /\ c.inv = ledger[k].inv /\ c.amount = ledger[k].amount
    BY DEF IInv, CallInv
  <2>2. c.by \in Requests
    BY DEF IInv, TypeOK, Call
  <2> QED
    BY <2>1, <2>2 DEF IInv, CallInv
<1> QED
  BY <1>1, Inductive, PTL

\* However many requests retry a payment together, one call per invoice and
\* idempotency key leaves for the provider.
THEOREM OneCall == Spec => []OneCallPerKey
<1>1. IInv => OneCallPerKey
  <2> SUFFICES ASSUME IInv, NEW c1 \in calls, NEW c2 \in calls,
                      c1.inv = c2.inv, c1.key = c2.key
               PROVE  c1 = c2
    BY DEF OneCallPerKey
  <2>1. c1 \in Call /\ c2 \in Call
    BY DEF IInv, TypeOK
  <2>2. c1.by = c2.by
    BY <2>1 DEF IInv, CallInv, UniqueAttempt, Call
  <2>3. c1.amount = c2.amount
    BY <2>2 DEF IInv, CallInv
  <2> QED
    BY <2>1, <2>2, <2>3 DEF Call
<1> QED
  BY <1>1, Inductive, PTL

\* What a client was shown holds, and goes on to hold.
THEOREM AnswersAreTrue == Spec => []AnswersHold
<1>1. IInv => AnswersHold
  BY DEF IInv, AnswerInv
<1> QED
  BY <1>1, Inductive, PTL

\* No step takes back an event, a mail, a call, a charge or a line, no issued
\* invoice is a draft again, and an attempt is settled once, for what it was made.
THEOREM NothingIsUndone == Spec => [][Keeps]_vars
<1>1. IInv /\ [Next]_vars => [Keeps]_vars
  BY NextKeeps
<1> QED
  BY <1>1, Inductive, PTL DEF Spec
=============================================================================
