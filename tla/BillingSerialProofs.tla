------------------------ MODULE BillingSerialProofs ------------------------
(***************************************************************************)
(* Theorems about Billing when it serves one request at a time, as its     *)
(* tests do: what a session has loaded is then what the database holds,    *)
(* and the service implements InvoiceLifecycle.                            *)
(***************************************************************************)
EXTENDS BillingProofs, FiniteSetTheorems

\* Nobody else is in flight.
Alone == \A p, q \in Requests : pc[p] \in InFlightAt /\ pc[q] \in InFlightAt => p = q

\* What was loaded is current.
Current(r) ==
  /\ pc[r] \in InFlightAt =>
       /\ session[r].status = status[session[r].inv]
       /\ status[session[r].inv] # "absent"
  /\ pc[r] \in InFlightAt \ {"lines"} => session[r].lines = lines[session[r].inv]
  /\ pc[r] = "write" => MayWrite(session[r])

\* A line is written at the end of its request.
LinesInv == \A i \in Invoices : \A r \in lines[i] : pc[r] \in EndedAt

\* What was announced is what the invoice still has, and a draft was not announced.
BillInv ==
  \A e \in outbox : e.type = "InvoiceIssued" =>
    status[e.inv] \in {"issued", "paid"} /\ e.total = lines[e.inv]

\* Only a paid invoice has a payment, for all its lines.
PaidInv == \A r \in Requests : Succeeded(r) => status[attempt[r].inv] = "paid"

SerialInv ==
  /\ Alone
  /\ \A r \in Requests : Current(r)
  /\ LinesInv /\ BillInv /\ PaidInv /\ NotPaidTwice

----------------------------------------------------------------------------
(* One request moves, the others have not begun or have ended. *)

Moves(r) ==
  \/ \E op \in {"add_line", "issue", "collect"}, i \in Invoices, k \in Keys \cup {None} :
       LoadInvoice(r, op, i, k)
  \/ Serve(r)
  \/ Abort(r)

LEMMA OthersWait ==
  ASSUME MaxInFlight = 1, TypeOK, Alone, NEW r \in Requests, Moves(r), NEW q \in Requests, q # r
  PROVE  /\ pc[q] \notin InFlightAt
         /\ pc'[q] = pc[q] /\ attempt'[q] = attempt[q]
<1>1. pc'[q] = pc[q] /\ attempt'[q] = attempt[q]
  BY DEF Moves, LoadInvoice, Serve, LoadLines, AddLine, Issue, Lookup, InsertAttempt,
     CallProvider, ReturnFromProvider, FailAttempt, Settle, Abort, End, Goto, TypeOK, db
<1>2. CASE pc[r] \in InFlightAt
  BY <1>1, <1>2 DEF Alone
<1>3. CASE pc[r] \notin InFlightAt
  <2>1. Cardinality(InFlight) < 1
    BY <1>3 DEF Moves, LoadInvoice, Serve, LoadLines, AddLine, Issue, Lookup, InsertAttempt,
       CallProvider, ReturnFromProvider, FailAttempt, Settle, Abort, InFlightAt
  <2>2. ASSUME pc[q] \in InFlightAt PROVE FALSE
    <3>1. InFlight = {q}
      BY <2>2 DEF Alone, InFlight
    <3>2. Cardinality({q}) = 1
      BY FS_Singleton
    <3> QED
      BY <2>1, <3>1, <3>2
  <2> QED
    BY <1>1, <2>2
<1> QED
  BY <1>2, <1>3

LEMMA NextForm ==
  ASSUME [Next]_vars
  PROVE  \/ \E r \in Requests : Moves(r)
         \/ \E i \in Invoices : CreateInvoice(i)
         \/ UNCHANGED <<status, lines, attempt, outbox, pc, session>>
  BY DEF Next, Moves, CreateCustomer, ProviderExecutes, db, vars

LEMMA AloneNext == MaxInFlight = 1 /\ IInv /\ SerialInv /\ [Next]_vars => Alone'
<1> SUFFICES ASSUME MaxInFlight = 1, IInv, SerialInv, [Next]_vars PROVE Alone'
  OBVIOUS
<1>0. TypeOK /\ Alone
  BY DEF IInv, SerialInv
<1>1. ASSUME NEW r \in Requests, Moves(r) PROVE Alone'
  BY <1>0, <1>1, OthersWait DEF Alone
<1>2. ASSUME UNCHANGED pc PROVE Alone'
  BY <1>0, <1>2 DEF Alone
<1> QED
  BY <1>1, <1>2, NextForm DEF CreateInvoice

\* What the request that moves finds, wherever it stands.
LEMMA MoverHas ==
  ASSUME IInv, SerialInv, NEW r \in Requests, pc[r] \in InFlightAt
  PROVE  /\ session[r] \in Session /\ session[r].inv \in Invoices
         /\ session[r].status = status[session[r].inv]
         /\ session[r].status # "absent"
         /\ pc[r] # "lines" => session[r].lines = lines[session[r].inv]
         /\ pc[r] = "write" => MayWrite(session[r])
<1>1. session[r] \in Session
  BY AttemptInHand DEF IInv
<1> QED
  BY <1>1 DEF SerialInv, Current, Session

LEMMA CurrentMoves ==
  ASSUME IInv, SerialInv, [Next]_vars, NEW r \in Requests, Moves(r)
  PROVE  Current(r)'
<1> USE DEF db
<1>0. TypeOK
  BY DEF IInv
<1>1. CASE pc'[r] \notin InFlightAt
  BY <1>1 DEF Current, InFlightAt
<1>2. ASSUME NEW op \in {"add_line", "issue", "collect"}, NEW i \in Invoices,
             NEW k \in Keys \cup {None}, LoadInvoice(r, op, i, k), pc'[r] \in InFlightAt
      PROVE  Current(r)'
  <2>1. status[i] # "absent"
    BY <1>0, <1>2 DEF LoadInvoice, End, TypeOK, InFlightAt
  <2>2. /\ pc'[r] = "lines" /\ status' = status
        /\ session'[r] = [op |-> op, inv |-> i, key |-> k, status |-> status[i], lines |-> {}]
    BY <1>0, <1>2, <2>1 DEF LoadInvoice, Goto, TypeOK
  <2> QED
    BY <2>1, <2>2 DEF Current
<1>3. CASE LoadLines(r) /\ pc'[r] \in InFlightAt
  <2> DEFINE s == [session[r] EXCEPT !.lines = lines[session[r].inv]]
  <2>1. /\ session[r] \in Session /\ session[r].status = status[session[r].inv]
        /\ session[r].status # "absent"
    BY <1>3, MoverHas DEF LoadLines, InFlightAt
  <2>2. /\ s.op = session[r].op /\ s.inv = session[r].inv
        /\ s.status = session[r].status /\ s.lines = lines[session[r].inv]
    BY <1>0, <2>1 DEF Session
  <2>3. /\ s.op = "collect" \/ MayWrite(s)
        /\ session'[r] = s
        /\ pc'[r] = IF s.op = "collect" THEN "lookup" ELSE "write"
    BY <1>0, <1>3 DEF LoadLines, End, Goto, TypeOK, InFlightAt, EndedAt
  <2>4. status' = status /\ lines' = lines
    BY <1>3 DEF LoadLines
  <2> HIDE DEF s
  <2> QED
    BY <2>1, <2>2, <2>3, <2>4 DEF Current, MayWrite
<1>4. CASE pc'[r] \in InFlightAt /\ (Lookup(r) \/ InsertAttempt(r) \/ CallProvider(r) \/ ReturnFromProvider(r))
  <2>1. /\ pc[r] \in InFlightAt /\ pc[r] # "lines" /\ pc'[r] # "write"
        /\ session'[r] = session[r] /\ status' = status /\ lines' = lines
    BY <1>0, <1>4 DEF Lookup, InsertAttempt, CallProvider, ReturnFromProvider, End, Goto,
       TypeOK, InFlightAt
  <2>2. /\ session[r].status = status[session[r].inv] /\ session[r].status # "absent"
        /\ session[r].lines = lines[session[r].inv]
    BY <2>1, MoverHas
  <2> QED
    BY <2>1, <2>2 DEF Current
<1>5. AddLine(r) \/ Issue(r) \/ FailAttempt(r) \/ Settle(r) \/ Abort(r) => pc'[r] \notin InFlightAt
  BY <1>0 DEF AddLine, Issue, FailAttempt, Settle, Abort, End, TypeOK, InFlightAt
<1> QED
  BY <1>1, <1>2, <1>3, <1>4, <1>5 DEF Moves, Serve

LEMMA CurrentNext ==
  MaxInFlight = 1 /\ IInv /\ SerialInv /\ [Next]_vars => \A q \in Requests : Current(q)'
<1> SUFFICES ASSUME MaxInFlight = 1, IInv, SerialInv, [Next]_vars, NEW q \in Requests
             PROVE  Current(q)'
  OBVIOUS
<1>0. TypeOK /\ Alone /\ Current(q)
  BY DEF IInv, SerialInv
<1>1. ASSUME NEW r \in Requests, Moves(r) PROVE Current(q)'
  <2>1. CASE q = r
    BY <1>1, <2>1, CurrentMoves
  <2>2. CASE q # r
    <3>1. pc'[q] \notin InFlightAt
      BY <1>0, <1>1, <2>2, OthersWait
    <3> QED
      BY <3>1 DEF Current, InFlightAt
  <2> QED
    BY <2>1, <2>2
<1>2. ASSUME NEW i \in Invoices, CreateInvoice(i) PROVE Current(q)'
  <2>1. pc[q] \in InFlightAt => session[q].inv # i /\ session[q].inv \in Invoices
    BY <1>2, MoverHas DEF CreateInvoice
  <2>2. pc[q] \in InFlightAt => status'[session[q].inv] = status[session[q].inv]
    BY <1>0, <1>2, <2>1 DEF CreateInvoice, TypeOK
  <2> QED
    BY <1>0, <1>2, <2>2 DEF CreateInvoice, Current, InFlightAt
<1>3. ASSUME UNCHANGED <<status, lines, pc, session>> PROVE Current(q)'
  BY <1>0, <1>3 DEF Current
<1> QED
  BY <1>1, <1>2, <1>3, NextForm

----------------------------------------------------------------------------
(* Which steps write the invoice, its lines, its events and its payments. *)

Writes(r) == AddLine(r) \/ Issue(r) \/ Settle(r)

LEMMA WriteForm ==
  ASSUME [Next]_vars
  PROVE  \/ UNCHANGED <<status, lines, outbox>>
         \/ \E i \in Invoices : CreateInvoice(i)
         \/ \E r \in Requests : Writes(r)
  BY DEF Next, Writes, CreateCustomer, LoadInvoice, Serve, LoadLines, Lookup, InsertAttempt,
     CallProvider, ReturnFromProvider, FailAttempt, Abort, ProviderExecutes, db, vars

\* A writer writes the invoice it loaded, whose row is still as it was loaded.
LEMMA WriterHas ==
  ASSUME IInv, SerialInv, NEW r \in Requests, Writes(r)
  PROVE  /\ session[r].inv \in Invoices
         /\ session[r].lines = lines[session[r].inv]
         /\ AddLine(r) \/ Issue(r) => status[session[r].inv] = "draft"
         /\ Issue(r) => lines[session[r].inv] # {}
         /\ Settle(r) => status[session[r].inv] = "issued"
         /\ pc'[r] \in EndedAt
<1>0. TypeOK /\ RequestInv(r)
  BY DEF IInv
<1>1. /\ pc[r] \in {"write", "settle"}
      /\ AddLine(r) => pc[r] = "write"
      /\ Issue(r) => pc[r] = "write" /\ session[r].op = "issue"
      /\ Settle(r) => pc[r] = "settle"
  BY DEF Writes, AddLine, Issue, Settle
<1>2. /\ session[r].inv \in Invoices /\ session[r].lines = lines[session[r].inv]
      /\ session[r].status = status[session[r].inv]
      /\ pc[r] = "write" => MayWrite(session[r])
  BY <1>1, MoverHas DEF InFlightAt
<1>3. pc[r] = "settle" => session[r].status = "issued"
  BY <1>0 DEF RequestInv, Paying
<1>4. pc'[r] \in EndedAt
  BY <1>0 DEF Writes, AddLine, Issue, Settle, End, TypeOK, EndedAt
<1> QED
  BY <1>1, <1>2, <1>3, <1>4 DEF MayWrite

\* A request that has ended stays ended.
LEMMA EndedStays ==
  ASSUME IInv, [Next]_vars, NEW q \in Requests, pc[q] \in EndedAt
  PROVE  pc'[q] = pc[q]
<1>0. TypeOK
  BY DEF IInv
<1>1. ASSUME NEW r \in Requests, Moves(r) PROVE r # q /\ pc'[q] = pc[q]
  <2>1. pc[r] \notin EndedAt
    BY <1>1 DEF Moves, LoadInvoice, Serve, LoadLines, AddLine, Issue, Lookup, InsertAttempt,
       CallProvider, ReturnFromProvider, FailAttempt, Settle, Abort, InFlightAt, EndedAt
  <2>2. r # q
    BY <2>1
  <2> QED
    BY <1>0, <1>1, <2>2 DEF Moves, LoadInvoice, Serve, LoadLines, AddLine, Issue, Lookup,
       InsertAttempt, CallProvider, ReturnFromProvider, FailAttempt, Settle, Abort, End, Goto,
       TypeOK, db
<1> QED
  BY <1>1, NextForm DEF CreateInvoice

LEMMA LinesNext == IInv /\ SerialInv /\ [Next]_vars => LinesInv'
<1> SUFFICES ASSUME IInv, SerialInv, [Next]_vars, NEW i \in Invoices, NEW r \in lines'[i]
             PROVE  pc'[r] \in EndedAt
  BY DEF LinesInv
<1>0. TypeOK /\ LinesInv
  BY DEF IInv, SerialInv
<1>1. CASE r \in lines[i]
  <2>1. r \in Requests /\ pc[r] \in EndedAt
    BY <1>0, <1>1 DEF TypeOK, Amount, LinesInv
  <2> QED
    BY <2>1, EndedStays
<1>2. CASE r \notin lines[i]
  <2>1. PICK q \in Requests : AddLine(q)
    BY <1>2, WriteForm DEF Writes, Issue, Settle, CreateInvoice
  <2>2. r = q
    BY <1>0, <1>2, <2>1 DEF AddLine, TypeOK
  <2> QED
    BY <2>1, <2>2, WriterHas DEF Writes
<1> QED
  BY <1>1, <1>2

LEMMA BillNext == IInv /\ SerialInv /\ [Next]_vars => BillInv'
<1> SUFFICES ASSUME IInv, SerialInv, [Next]_vars, NEW e \in outbox', e.type = "InvoiceIssued"
             PROVE  status'[e.inv] \in {"issued", "paid"} /\ e.total = lines'[e.inv]
  BY DEF BillInv
<1>0. TypeOK /\ BillInv
  BY DEF IInv, SerialInv
<1>1. CASE e \in outbox
  <2>1. /\ e.inv \in Invoices /\ status[e.inv] \in {"issued", "paid"}
        /\ e.total = lines[e.inv]
    BY <1>0, <1>1 DEF TypeOK, Event, BillInv
  <2>2. ASSUME NEW i \in Invoices, CreateInvoice(i)
        PROVE  status'[e.inv] = status[e.inv] /\ lines'[e.inv] = lines[e.inv]
    BY <1>0, <2>1, <2>2 DEF CreateInvoice, TypeOK
  <2>3. ASSUME NEW r \in Requests, Writes(r)
        PROVE  status'[e.inv] \in {"issued", "paid"} /\ lines'[e.inv] = lines[e.inv]
    BY <1>0, <2>1, <2>3, WriterHas DEF Writes, AddLine, Issue, Settle, TypeOK
  <2> QED
    BY <2>1, <2>2, <2>3, WriteForm
<1>2. CASE e \notin outbox
  <2>1. PICK r \in Requests : Issue(r) \/ Settle(r)
    BY <1>2, WriteForm DEF Writes, AddLine, CreateInvoice
  <2>2. ~Settle(r)
    BY <1>2 DEF Settle
  <2>3. Issue(r) /\ e.inv = session[r].inv /\ e.total = session[r].lines
    BY <1>2, <2>1, <2>2 DEF Issue
  <2>4. e.inv \in Invoices /\ e.total = lines[e.inv]
    BY <2>3, WriterHas DEF Writes
  <2>5. status'[e.inv] = "issued" /\ lines' = lines
    BY <1>0, <2>3, <2>4 DEF Issue, TypeOK
  <2> QED
    BY <2>4, <2>5
<1> QED
  BY <1>1, <1>2

----------------------------------------------------------------------------
(* A payment settles an issued invoice, which no payment has settled yet. *)

LEMMA SettledNew ==
  ASSUME IInv, SerialInv, [Next]_vars, NEW q \in Requests, Succeeded(q)', ~Succeeded(q)
  PROVE  /\ Settle(q) /\ attempt'[q].inv = session[q].inv
         /\ status' = [status EXCEPT ![session[q].inv] = "paid"]
         /\ status[session[q].inv] = "issued" /\ session[q].inv \in Invoices
         /\ \A p \in Requests : Succeeded(p) => attempt[p].inv # session[q].inv
<1>0. TypeOK /\ PaidInv
  BY DEF IInv, SerialInv
<1>1. /\ Settle(q) /\ session[q].status = "issued"
      /\ attempt' = [attempt EXCEPT ![q].status = "succeeded"]
      /\ attempt[q] = PendingAttempt(q)
  BY OnlySettle
<1>2. status[session[q].inv] = "issued" /\ session[q].inv \in Invoices
  BY <1>1, WriterHas DEF Writes
<1>3. attempt'[q].inv = session[q].inv
  BY <1>0, <1>1 DEF TypeOK, PendingAttempt
<1>4. status' = [status EXCEPT ![session[q].inv] = "paid"]
  BY <1>1 DEF Settle
<1>5. \A p \in Requests : Succeeded(p) => attempt[p].inv # session[q].inv
  BY <1>0, <1>2 DEF PaidInv
<1> QED
  BY <1>1, <1>2, <1>3, <1>4, <1>5

\* One that succeeded before stays as it was.
LEMMA SettledStays ==
  ASSUME IInv, [Next]_vars, NEW q \in Requests, Succeeded(q)
  PROVE  Succeeded(q)' /\ attempt'[q] = attempt[q] /\ attempt[q].inv \in Invoices
<1>1. attempt[q] \in Attempt /\ attempt'[q] = attempt[q]
  BY NextKeeps DEF Keeps, Succeeded, IInv, TypeOK
<1> QED
  BY <1>1 DEF Succeeded, Attempt

LEMMA PaidNext == IInv /\ SerialInv /\ [Next]_vars => PaidInv'
<1> SUFFICES ASSUME IInv, SerialInv, [Next]_vars, NEW q \in Requests, Succeeded(q)'
             PROVE  status'[attempt'[q].inv] = "paid"
  BY DEF PaidInv
<1>0. TypeOK /\ PaidInv
  BY DEF IInv, SerialInv
<1>1. CASE Succeeded(q)
  <2> DEFINE i == attempt[q].inv
  <2>1. attempt'[q].inv = i /\ i \in Invoices /\ status[i] = "paid"
    BY <1>0, <1>1, SettledStays DEF PaidInv
  <2>2. ASSUME NEW j \in Invoices, CreateInvoice(j) PROVE status'[i] = "paid"
    BY <1>0, <2>1, <2>2 DEF CreateInvoice, TypeOK
  <2>3. ASSUME NEW r \in Requests, Writes(r) PROVE status'[i] = "paid"
    BY <1>0, <2>1, <2>3, WriterHas DEF Writes, AddLine, Issue, Settle, TypeOK
  <2> QED
    BY <2>1, <2>2, <2>3, WriteForm
<1>2. CASE ~Succeeded(q)
  BY <1>0, <1>2, SettledNew DEF TypeOK
<1> QED
  BY <1>1, <1>2

LEMMA PaidOnceNext == IInv /\ SerialInv /\ [Next]_vars => NotPaidTwice'
<1> SUFFICES ASSUME IInv, SerialInv, [Next]_vars, NEW q1 \in Requests, NEW q2 \in Requests,
                    Succeeded(q1)', Succeeded(q2)', attempt'[q1].inv = attempt'[q2].inv
             PROVE  q1 = q2
  BY DEF NotPaidTwice
<1>1. CASE Succeeded(q1) /\ Succeeded(q2)
  BY <1>1, SettledStays DEF SerialInv, NotPaidTwice
<1>2. ASSUME NEW a \in Requests, NEW b \in Requests, a # b, Succeeded(a)', ~Succeeded(a),
             Succeeded(b)', attempt'[a].inv = attempt'[b].inv
      PROVE FALSE
  <2>1. /\ Settle(a) /\ attempt'[a].inv = session[a].inv
        /\ \A p \in Requests : Succeeded(p) => attempt[p].inv # session[a].inv
    BY <1>2, SettledNew
  <2>2. attempt'[b] = attempt[b]
    BY <1>2, <2>1 DEF Settle, IInv, TypeOK
  <2>3. Succeeded(b)
    BY <1>2, <2>2 DEF Succeeded
  <2> QED
    BY <1>2, <2>1, <2>2, <2>3
<1> QED
  BY <1>1, <1>2

----------------------------------------------------------------------------
(* The theorems. *)

LEMMA InitSerial == Init => SerialInv
  BY DEF Init, SerialInv, Alone, Current, LinesInv, BillInv, PaidInv, NotPaidTwice, Succeeded,
     InFlightAt

\* What a session has loaded is what the database holds until the request ends.
THEOREM SerialInductive ==
  ASSUME MaxInFlight = 1
  PROVE  Spec => [](IInv /\ SerialInv)
<1>1. Init => SerialInv
  BY InitSerial
<1>2. IInv /\ SerialInv /\ [Next]_vars => SerialInv'
  BY AloneNext, CurrentNext, LinesNext, BillNext, PaidNext, PaidOnceNext DEF SerialInv
<1> QED
  BY <1>1, <1>2, Inductive, PTL DEF Spec

\* A paid invoice is not paid again.
THEOREM PaidOnce ==
  ASSUME MaxInFlight = 1
  PROVE  Spec => []NotPaidTwice
<1>1. SerialInv => NotPaidTwice
  BY DEF SerialInv
<1> QED
  BY <1>1, SerialInductive, PTL

----------------------------------------------------------------------------
(* Billing implements InvoiceLifecycle. *)

Bill(i) == UNION {e.total : e \in {e \in outbox : e.type = "InvoiceIssued" /\ e.inv = i}}
Paid(i) == {attempt[r].amount : r \in {q \in Requests : Succeeded(q) /\ attempt[q].inv = i}}

\* The bill of an issued invoice is its lines, a draft has none.
LEMMA BillIsLines ==
  IInv /\ BillInv =>
    \A i \in Invoices : Bill(i) = IF status[i] \in {"issued", "paid"} THEN lines[i] ELSE {}
<1> SUFFICES ASSUME IInv, BillInv, NEW i \in Invoices
             PROVE  Bill(i) = IF status[i] \in {"issued", "paid"} THEN lines[i] ELSE {}
  OBVIOUS
<1> DEFINE E == {e \in outbox : e.type = "InvoiceIssued" /\ e.inv = i}
<1>1. \A e \in E : e.total = lines[i] /\ status[i] \in {"issued", "paid"}
  BY DEF BillInv
<1>2. CASE status[i] \in {"issued", "paid"}
  <2>1. E # {}
    BY <1>2 DEF IInv, AnnouncedInv, Announced
  <2>2. {e.total : e \in E} = {lines[i]}
    BY <1>1, <2>1
  <2>3. UNION {lines[i]} = lines[i]
    OBVIOUS
  <2> QED
    BY <1>2, <2>2, <2>3 DEF Bill
<1>3. CASE status[i] \notin {"issued", "paid"}
  <2>1. E = {}
    BY <1>1, <1>3
  <2>2. {e.total : e \in E} = {}
    BY <2>1
  <2> QED
    BY <1>3, <2>2 DEF Bill
<1> QED
  BY <1>2, <1>3

LEMMA BillIsLinesNext ==
  IInv /\ SerialInv /\ [Next]_vars =>
    \A i \in Invoices : Bill(i)' = IF status'[i] \in {"issued", "paid"} THEN lines'[i] ELSE {}
<1>1. IInv /\ SerialInv /\ [Next]_vars => IInv' /\ BillInv'
  BY TypeNext, RequestNext, AnnouncedNext, CoversNext, UniqueNext, CallNext, ChargedNext,
     PaidEventNext, BillNext DEF IInv
<1>2. (IInv /\ BillInv =>
         \A i \in Invoices : Bill(i) = IF status[i] \in {"issued", "paid"} THEN lines[i] ELSE {})'
  BY BillIsLines, PTL
<1> QED
  BY <1>1, <1>2

\* Only a settlement changes what was paid, and only for its invoice.
LEMMA PaidStays ==
  ASSUME IInv, SerialInv, [Next]_vars, NEW i \in Invoices,
         \A r \in Requests : Settle(r) => session[r].inv # i
  PROVE  Paid(i)' = Paid(i)
<1> DEFINE S == {q \in Requests : Succeeded(q) /\ attempt[q].inv = i}
           T == {q \in Requests : Succeeded(q)' /\ attempt'[q].inv = i}
<1>1. ASSUME NEW q \in S PROVE q \in T /\ attempt'[q] = attempt[q]
  BY <1>1, SettledStays
<1>2. ASSUME NEW q \in T PROVE q \in S
  <2>1. Succeeded(q)
    BY <1>2, SettledNew
  <2> QED
    BY <1>2, <2>1, SettledStays
<1>3. S = T /\ \A q \in S : attempt'[q].amount = attempt[q].amount
  BY <1>1, <1>2
<1>4. {attempt[q].amount : q \in S} = {attempt'[q].amount : q \in T}
  <2> HIDE DEF S, T
  <2> QED
    BY <1>3
<1> QED
  BY <1>4 DEF Paid

LEMMA PaidSettles ==
  ASSUME IInv, SerialInv, [Next]_vars, NEW r \in Requests, Settle(r),
         NEW i \in Invoices, i = session[r].inv
  PROVE  Paid(i)' = {session[r].lines}
<1>0. TypeOK /\ PaidInv /\ RequestInv(r)
  BY DEF IInv, SerialInv
<1>1. /\ session[r].inv \in Invoices /\ status[session[r].inv] = "issued"
      /\ session[r].status = "issued"
      /\ attempt[r] = PendingAttempt(r) /\ attempt[r] \in Attempt
  BY <1>0, WriterHas, AttemptInHand DEF Writes, Settle, RequestInv, Paying, Recorded
<1>2. /\ attempt' = [attempt EXCEPT ![r].status = "succeeded"]
      /\ attempt'[r] = [attempt[r] EXCEPT !.status = "succeeded"]
  BY <1>0, <1>1 DEF Settle, TypeOK
<1>3. /\ attempt'[r] # None /\ attempt'[r].status = "succeeded"
      /\ attempt'[r].inv = session[r].inv /\ attempt'[r].amount = session[r].lines
  <2>1. attempt'[r] \in Attempt
    BY <1>1, <1>2 DEF Attempt
  <2> QED
    BY <1>1, <1>2, <2>1, NoneAssumption DEF PendingAttempt, Attempt
<1>4. Succeeded(r)'
  BY <1>3 DEF Succeeded
<1>5. ASSUME NEW q \in Requests, Succeeded(q)', attempt'[q].inv = session[r].inv PROVE q = r
  BY <1>3, <1>4, <1>5, PaidOnceNext DEF NotPaidTwice
<1>6. {q \in Requests : Succeeded(q)' /\ attempt'[q].inv = i} = {r}
  BY <1>3, <1>4, <1>5
<1> QED
  BY <1>3, <1>6 DEF Paid

\* The bill and the payments as the functions of InvoiceLifecycle.
bills == [i \in Invoices |-> Bill(i)]
books == [i \in Invoices |-> Paid(i)]

LEMMA LifeForm ==
  /\ Life!LInit <=> /\ status = [i \in Invoices |-> "absent"]
                    /\ lines = [i \in Invoices |-> {}]
                    /\ bills = [i \in Invoices |-> {}]
                    /\ books = [i \in Invoices |-> {}]
  /\ UNCHANGED <<status, lines, bills, books>> => UNCHANGED Life!lvars
  /\ \A i \in Invoices :
       /\ status[i] = "absent" /\ status' = [status EXCEPT ![i] = "draft"]
            /\ UNCHANGED <<lines, bills, books>> => Life!Create(i)
       /\ \A r \in Requests :
            status[i] = "draft" /\ r \notin lines[i] /\ lines' = [lines EXCEPT ![i] = @ \cup {r}]
              /\ UNCHANGED <<status, bills, books>> => Life!AddLine(i, r)
       /\ status[i] = "draft" /\ lines[i] # {} /\ status' = [status EXCEPT ![i] = "issued"]
            /\ bills' = [bills EXCEPT ![i] = lines[i]] /\ UNCHANGED <<lines, books>>
              => Life!Issue(i)
       /\ status[i] = "issued" /\ status' = [status EXCEPT ![i] = "paid"]
            /\ books' = [books EXCEPT ![i] = {bills[i]}] /\ UNCHANGED <<lines, bills>>
              => Life!Pay(i)
<1>1. Life!LInit <=> /\ status = [i \in Invoices |-> "absent"]
                     /\ lines = [i \in Invoices |-> {}]
                     /\ bills = [i \in Invoices |-> {}]
                     /\ books = [i \in Invoices |-> {}]
  BY DEF Life!LInit, bills, books, Bill, Paid
<1>2. UNCHANGED <<status, lines, bills, books>> => UNCHANGED Life!lvars
  BY DEF Life!lvars, bills, books, Bill, Paid
<1>3. ASSUME NEW i \in Invoices,
             status[i] = "absent", status' = [status EXCEPT ![i] = "draft"],
             UNCHANGED <<lines, bills, books>>
      PROVE  Life!Create(i)
  BY <1>3 DEF Life!Create, bills, books, Bill, Paid
<1>4. ASSUME NEW i \in Invoices, NEW r \in Requests, status[i] = "draft", r \notin lines[i],
             lines' = [lines EXCEPT ![i] = @ \cup {r}], UNCHANGED <<status, bills, books>>
      PROVE  Life!AddLine(i, r)
  BY <1>4 DEF Life!AddLine, bills, books, Bill, Paid
<1>5. ASSUME NEW i \in Invoices, status[i] = "draft", lines[i] # {},
             status' = [status EXCEPT ![i] = "issued"],
             bills' = [bills EXCEPT ![i] = lines[i]], UNCHANGED <<lines, books>>
      PROVE  Life!Issue(i)
  BY <1>5 DEF Life!Issue, bills, books, Bill, Paid
<1>6. ASSUME NEW i \in Invoices, status[i] = "issued",
             status' = [status EXCEPT ![i] = "paid"],
             books' = [books EXCEPT ![i] = {bills[i]}], UNCHANGED <<lines, bills>>
      PROVE  Life!Pay(i)
  BY <1>6 DEF Life!Pay, bills, books, Bill, Paid
<1> QED
  BY <1>1, <1>2, <1>3, <1>4, <1>5, <1>6

LEMMA StepImplements ==
  IInv /\ SerialInv /\ [Next]_vars => [Life!LNext]_(Life!lvars)
<1> SUFFICES ASSUME IInv, SerialInv, [Next]_vars PROVE Life!LNext \/ UNCHANGED Life!lvars
  OBVIOUS
<1> DEFINE B(s, l) == [i \in Invoices |-> IF s[i] \in {"issued", "paid"} THEN l[i] ELSE {}]
<1>0. TypeOK /\ LinesInv /\ BillInv
  BY DEF IInv, SerialInv
<1>1. bills = B(status, lines)
  BY <1>0, BillIsLines DEF bills
<1>2. bills' = B(status', lines')
  BY BillIsLinesNext DEF bills
<1>3. (\A r \in Requests : ~Settle(r)) => books' = books
  BY PaidStays DEF books
<1>4. ASSUME NEW i \in Invoices, CreateInvoice(i), \A r \in Requests : ~Settle(r)
      PROVE  Life!LNext
  <2>1. /\ status[i] = "absent" /\ status' = [status EXCEPT ![i] = "draft"]
        /\ lines' = lines
    BY <1>4 DEF CreateInvoice
  <2>2. bills' = bills
    BY <1>0, <1>1, <1>2, <2>1 DEF TypeOK
  <2> QED
    BY <1>3, <1>4, <2>1, <2>2, LifeForm DEF Life!LNext
<1>5. ASSUME NEW r \in Requests, AddLine(r), \A q \in Requests : ~Settle(q)
      PROVE  Life!LNext
  <2> DEFINE i == session[r].inv
  <2>1. /\ i \in Invoices /\ status[i] = "draft"
        /\ lines' = [lines EXCEPT ![i] = @ \cup {r}] /\ status' = status
    BY <1>5, WriterHas DEF Writes, AddLine
  <2>2. r \notin lines[i]
    BY <1>0, <1>5, <2>1 DEF AddLine, LinesInv, EndedAt
  <2>3. bills' = bills
    BY <1>0, <1>1, <1>2, <2>1 DEF TypeOK
  <2> HIDE DEF i
  <2> QED
    BY <1>3, <1>5, <2>1, <2>2, <2>3, LifeForm DEF Life!LNext
<1>6. ASSUME NEW r \in Requests, Issue(r), \A q \in Requests : ~Settle(q)
      PROVE  Life!LNext
  <2> DEFINE i == session[r].inv
  <2>1. /\ i \in Invoices /\ status[i] = "draft" /\ lines[i] # {}
        /\ status' = [status EXCEPT ![i] = "issued"] /\ lines' = lines
    BY <1>6, WriterHas DEF Writes, Issue
  <2> HIDE DEF i
  <2>2. bills' = [bills EXCEPT ![i] = lines[i]]
    BY <1>0, <1>1, <1>2, <2>1 DEF TypeOK
  <2> QED
    BY <1>3, <1>6, <2>1, <2>2, LifeForm DEF Life!LNext
<1>7. ASSUME NEW r \in Requests, Settle(r) PROVE Life!LNext
  <2> DEFINE i == session[r].inv
  <2>1. /\ i \in Invoices /\ status[i] = "issued" /\ session[r].lines = lines[i]
        /\ lines' = lines
    BY <1>7, WriterHas DEF Writes, Settle
  <2>2. status' = [status EXCEPT ![i] = "paid"]
    BY <1>7, WriterHas, MoverHas DEF Settle, Writes, InFlightAt
  <2>3. \A j \in Invoices : Paid(j)' = IF j = i THEN {lines[i]} ELSE Paid(j)
    <3>1. ASSUME NEW j \in Invoices, j = i PROVE Paid(j)' = {lines[i]}
      BY <1>7, <2>1, <3>1, PaidSettles
    <3>2. ASSUME NEW j \in Invoices, j # i PROVE Paid(j)' = Paid(j)
      <4>1. \A q \in Requests : Settle(q) => session[q].inv # j
        BY <1>7, <3>2, MoverHas DEF Settle, InFlightAt, SerialInv, Alone
      <4> QED
        BY <4>1, PaidStays
    <3> QED
      BY <3>1, <3>2
  <2> HIDE DEF i
  <2>4. bills' = bills /\ bills[i] = lines[i]
    BY <1>0, <1>1, <1>2, <2>1, <2>2 DEF TypeOK
  <2>5. books' = [books EXCEPT ![i] = {bills[i]}]
    BY <2>1, <2>3, <2>4 DEF books
  <2> QED
    BY <2>1, <2>2, <2>4, <2>5, LifeForm DEF Life!LNext
<1>8. ASSUME UNCHANGED <<status, lines, outbox>>, \A r \in Requests : ~Settle(r)
      PROVE  UNCHANGED Life!lvars
  BY <1>1, <1>2, <1>3, <1>8, LifeForm
<1> QED
  BY <1>4, <1>5, <1>6, <1>7, <1>8, WriteForm DEF Writes

\* Served one request at a time, an invoice is drafted, issued with its lines and
\* paid once, for the total that was announced.
THEOREM LifecycleFollowed ==
  ASSUME MaxInFlight = 1
  PROVE  Spec => FollowsLifecycle
<1>1. Init => Life!LInit
  <2> SUFFICES ASSUME Init PROVE Life!LInit
    OBVIOUS
  <2>1. bills = [i \in Invoices |-> {}] /\ books = [i \in Invoices |-> {}]
    BY DEF Init, bills, books, Bill, Paid, Succeeded
  <2> QED
    BY <2>1, LifeForm DEF Init
<1> QED
  BY <1>1, StepImplements, SerialInductive, PTL DEF Spec, FollowsLifecycle, Life!LSpec
=============================================================================
