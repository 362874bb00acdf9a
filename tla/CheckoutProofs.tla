--------------------------- MODULE CheckoutProofs ---------------------------
(***************************************************************************)
(* Theorems about Checkout: any number of calls in flight over any number  *)
(* of orders, dying at any point, with the default of the status either as *)
(* the code stands or repaired.                                            *)
(***************************************************************************)
EXTENDS Checkout, TLAPS

Unasked == {"idle", "already placed", "empty", "not found"}

\* What is stored: a row belongs to a finished placement, and tells the truth.
StoredInv(c) ==
  order[c] # None =>
    /\ pc[c] = "done" /\ session[c].op = "place"
    /\ order[c].lines # <<>>
    /\ charge[c] = Total(order[c])
    /\ order[c].reason = "refund" =>
         \E d \in refunded : session[d].op = "refund" /\ session[d].order = c

\* What Stripe has done for a call was asked by it.
AskedInv(c) ==
  /\ pc[c] \in Unasked => session[c] = None /\ asked[c] = None
  /\ charge[c] # None =>
       /\ asked[c] # None /\ asked[c].op = "charge"
       /\ charge[c] = asked[c].amount
  /\ c \in refunded => asked[c] # None /\ asked[c].op = "refund"

\* What a call that places holds...
PlaceInv(c) ==
  /\ pc[c] \in {"charging", "insert"} => session[c] # None /\ session[c].op = "place"
  /\ session[c] # None /\ session[c].op = "place" =>
       /\ session[c].order = c
       /\ session[c].row.status = "placed" /\ session[c].row.reason = "none"
       /\ session[c].row.lines # <<>>
       /\ asked[c] = [op |-> "charge", amount |-> Total(session[c].row)]
       /\ pc[c] \in {"insert", "commit", "done"} => charge[c] = Total(session[c].row)
       /\ pc[c] = "done" => order[c] # None

\* ... and one that cancels or refunds: the row it loaded was charged, is stored still,
\* and stays cancelled if it was.
ChangeInv(c) ==
  /\ pc[c] = "refunding" => session[c] # None /\ session[c].op = "refund"
  /\ pc[c] \in {"commit", "done"} => session[c] # None
  /\ session[c] # None /\ session[c].op # "place" =>
       /\ order[session[c].order] # None
       /\ session[c].row.lines # <<>>
       /\ charge[session[c].order] = Total(session[c].row)
       /\ session[c].row.status = "cancelled" \/ pc[c] = "done" =>
            order[session[c].order].status = "cancelled"
       /\ session[c].op = "refund" /\ pc[c] \in {"commit", "done"} => c \in refunded

CallInv(c) == StoredInv(c) /\ AskedInv(c) /\ PlaceInv(c) /\ ChangeInv(c)

IInv == TypeOK /\ \A c \in Calls : CallInv(c)

----------------------------------------------------------------------------
(* The aggregate. *)

\* The total of an order depends on its lines alone.
LEMMA TotalOfLines ==
  ASSUME NEW o1, NEW o2, o1.lines = o2.lines
  PROVE  Total(o1) = Total(o2)
BY DEF Total

LEMMA TotalIsSum ==
  ASSUME NEW o \in Order
  PROVE  Total(o) \in Sums
<1>1. o.lines \in Baskets
  BY DEF Order
<1>2. NewOrder(o.lines).lines = o.lines
  BY DEF NewOrder
<1>3. Total(o) = Total(NewOrder(o.lines))
  BY <1>2, TotalOfLines
<1> QED
  BY <1>1, <1>3 DEF Sums

\* What a session writes at the end of its transaction.
LEMMA WrittenRow ==
  ASSUME NEW s \in Session
  PROVE  /\ Written(s) \in Order
         /\ Written(s).lines = s.row.lines
         /\ Total(Written(s)) = Total(s.row)
         /\ s.op = "place" => Written(s) = s.row
         /\ s.op # "place" => Written(s).status = "cancelled"
         /\ s.op # "place" /\ s.row.status = "cancelled" => Written(s) = s.row
         /\ s.op # "place" /\ Written(s) # s.row => Written(s).reason = s.op
<1>1. s.row \in Order /\ s.op \in {"place", "cancel", "refund"}
  BY DEF Session
<1>2. CASE s.op = "place"
  BY <1>1, <1>2 DEF Written
<1>3. CASE s.op # "place" /\ s.row.status = "cancelled"
  BY <1>1, <1>3 DEF Written, CancelledOrder
<1>4. CASE s.op # "place" /\ s.row.status # "cancelled"
  <2>1. Written(s) = [s.row EXCEPT !.status = "cancelled", !.reason = s.op]
    BY <1>4 DEF Written, CancelledOrder
  <2>2. Written(s) \in Order /\ Written(s).lines = s.row.lines
    BY <1>1, <1>4, <2>1 DEF Order, Status, Reasons
  <2>3. Total(Written(s)) = Total(s.row)
    BY <2>2, TotalOfLines
  <2>4. Written(s).status = "cancelled" /\ Written(s).reason = s.op
    BY <1>1, <2>1 DEF Order
  <2> QED
    BY <1>4, <2>2, <2>3, <2>4
<1> QED
  BY <1>2, <1>3, <1>4

\* The order a call of place_order sends to Stripe and keeps in its session.
LEMMA NewRow ==
  ASSUME NEW b \in Baskets
  PROVE  /\ NewOrder(b) \in Order
         /\ PlacedOrder(NewOrder(b)) \in Order
         /\ PlacedOrder(NewOrder(b)).status = "placed"
         /\ PlacedOrder(NewOrder(b)).reason = "none"
         /\ PlacedOrder(NewOrder(b)).lines = b
         /\ Total(PlacedOrder(NewOrder(b))) = Total(NewOrder(b))
         /\ PlaceRefuses(NewOrder(b)) = "no" => b # <<>>
<1>1. NewOrder(b) \in Order /\ NewOrder(b).lines = b /\ NewOrder(b).reason = "none"
  BY DEF NewOrder, Order, Status, Reasons
<1>2. /\ PlacedOrder(NewOrder(b)) \in Order
      /\ PlacedOrder(NewOrder(b)).status = "placed"
      /\ PlacedOrder(NewOrder(b)).reason = "none"
      /\ PlacedOrder(NewOrder(b)).lines = b
  BY <1>1 DEF PlacedOrder, Order, Status, Reasons
<1>3. Total(PlacedOrder(NewOrder(b))) = Total(NewOrder(b))
  BY <1>1, <1>2, TotalOfLines
<1>4. PlaceRefuses(NewOrder(b)) = "no" => b # <<>>
  BY <1>1 DEF PlaceRefuses
<1> QED
  BY <1>1, <1>2, <1>3, <1>4

----------------------------------------------------------------------------
(* The invariant. *)

LEMMA InitIInv == Init => IInv
BY DEF Init, IInv, TypeOK, CallInv, StoredInv, AskedInv, PlaceInv, ChangeInv, Unasked,
   InFlightAt, EndedAt

\* A call goes on, or ends in an error, and nothing else changes: enough if what the
\* place it goes to demands holds.
LEMMA GoingOn ==
  ASSUME IInv, NEW c \in Calls, NEW place \in InFlightAt \cup EndedAt,
         pc[c] \in InFlightAt, Goto(c, place), UNCHANGED <<order, session, asked, stripe>>,
         place \in {"insert", "commit"} \/ place \in {"raised", "conflict", "gone"},
         place = "insert" => pc[c] = "charging" /\ charge[c] # None,
         place = "commit" => \/ pc[c] = "insert"
                             \/ pc[c] = "refunding" /\ c \in refunded
  PROVE  IInv'
<1>1. TypeOK'
  BY DEF Goto, stripe, IInv, TypeOK
<1>2. UNCHANGED <<order, session, asked, charge, refunded>>
  BY DEF stripe
<1>3. pc' \in [Calls -> {"idle"} \cup InFlightAt \cup EndedAt] /\ pc'[c] = place
  BY <1>1 DEF Goto, IInv, TypeOK
<1>4. \A x \in Calls : x # c => pc'[x] = pc[x]
  BY DEF Goto, IInv, TypeOK
<1>5. ASSUME NEW x \in Calls PROVE CallInv(x)'
  <2>1. CallInv(x)
    BY DEF IInv
  <2>2. CASE x # c
    <3>1. pc'[x] = pc[x]
      BY <1>4, <2>2
    <3>2. StoredInv(x)'
      BY <1>2, <2>1, <3>1 DEF CallInv, StoredInv
    <3>3. AskedInv(x)'
      BY <1>2, <2>1, <3>1 DEF CallInv, AskedInv
    <3>4. PlaceInv(x)'
      BY <1>2, <2>1, <3>1 DEF CallInv, PlaceInv
    <3>5. ChangeInv(x)'
      BY <1>2, <2>1, <3>1 DEF CallInv, ChangeInv
    <3> QED
      BY <3>2, <3>3, <3>4, <3>5 DEF CallInv
  <2>3. CASE x = c
    <3>1. StoredInv(x)'
      BY <1>2, <2>1, <2>3 DEF CallInv, StoredInv, InFlightAt
    <3>2. AskedInv(x)'
      BY <1>2, <1>3, <2>1, <2>3 DEF CallInv, AskedInv, Unasked
    <3>3. PlaceInv(x)'
      <4>1. PlaceInv(x) /\ AskedInv(x)
        BY <2>1 DEF CallInv
      <4>2. place # "done" /\ (place = "insert" => session[x].op = "place" /\ session[x] # None)
        BY <2>3, <4>1 DEF PlaceInv
      <4>3. /\ session[x] # None /\ session[x].op = "place"
            /\ place \in {"insert", "commit"}
            => charge[x] = Total(session[x].row)
        <5>1. CASE place = "insert"
          <6>1. charge[x] = asked[x].amount
            BY <2>3, <4>1, <5>1 DEF AskedInv
          <6>2. asked[x] = [op |-> "charge", amount |-> Total(session[x].row)]
            BY <2>3, <4>1, <4>2, <5>1 DEF PlaceInv
          <6> QED
            BY <6>1, <6>2
        <5>2. CASE place = "commit" /\ pc[c] = "insert"
          BY <2>3, <4>1, <5>2 DEF PlaceInv
        <5>3. CASE place = "commit" /\ pc[c] = "refunding"
          BY <2>1, <2>3, <5>3 DEF CallInv, ChangeInv
        <5> QED
          BY <5>1, <5>2, <5>3
      <4> QED
        BY <1>2, <1>3, <2>3, <4>1, <4>2, <4>3 DEF PlaceInv
    <3>4. ChangeInv(x)'
      BY <1>2, <1>3, <2>1, <2>3 DEF CallInv, PlaceInv, ChangeInv
    <3> QED
      BY <3>1, <3>2, <3>3, <3>4 DEF CallInv
  <2> QED
    BY <2>2, <2>3
<1> QED
  BY <1>1, <1>5 DEF IInv

LEMMA ProgressStep ==
  ASSUME IInv, NEW c \in Calls,
         ChargeReturns(c) \/ Insert(c) \/ RefundReturns(c) \/ Abort(c)
  PROVE  IInv'
<1>1. CASE ChargeReturns(c)
  <2>1. \/ Goto(c, "insert") /\ charge[c] # None
        \/ Goto(c, "raised")
    BY <1>1 DEF ChargeReturns
  <2> QED
    BY <1>1, <2>1, GoingOn DEF ChargeReturns, InFlightAt, EndedAt
<1>2. CASE Insert(c)
  <2>1. Goto(c, "commit") \/ Goto(c, "conflict")
    BY <1>2 DEF Insert
  <2> QED
    BY <1>2, <2>1, GoingOn DEF Insert, InFlightAt, EndedAt
<1>3. CASE RefundReturns(c)
  <2>1. \/ Goto(c, "commit") /\ c \in refunded
        \/ Goto(c, "raised")
    BY <1>3 DEF RefundReturns
  <2> QED
    BY <1>3, <2>1, GoingOn DEF RefundReturns, InFlightAt, EndedAt
<1>4. CASE Abort(c)
  BY <1>4, GoingOn DEF Abort, InFlightAt, EndedAt
<1> QED
  BY <1>1, <1>2, <1>3, <1>4

LEMMA StripeStep ==
  ASSUME IInv, NEW c \in Calls, StripeCharges(c) \/ StripeRefunds(c)
  PROVE  IInv'
<1> USE NoneAssumption DEF IInv
<1>1. CASE StripeCharges(c)
  <2>1. asked[c] \in Asked /\ asked[c].op = "charge" /\ asked[c].amount \in Sums
    BY <1>1 DEF StripeCharges, TypeOK, Asked
  <2>2. TypeOK'
    BY <1>1, <2>1 DEF StripeCharges, TypeOK
  <2>3. /\ UNCHANGED <<order, pc, session, asked, refunded>>
        /\ charge[c] = None /\ charge'[c] = asked[c].amount
        /\ \A x \in Calls : x # c => charge'[x] = charge[x]
    BY <1>1 DEF StripeCharges, TypeOK
  <2>4. \A x \in Calls : charge[x] # None => charge'[x] = charge[x]
    BY <2>3
  <2>5. ASSUME NEW x \in Calls PROVE CallInv(x)'
    <3>1. CallInv(x)
      OBVIOUS
    <3>2. \A y \in Calls : order[y] # None => charge[y] # None
      <4> SUFFICES ASSUME NEW y \in Calls, order[y] # None PROVE charge[y] # None
        OBVIOUS
      <4>1. charge[y] = Total(order[y]) /\ order[y] \in Order
        BY DEF CallInv, StoredInv, TypeOK
      <4> QED
        BY <4>1, TotalIsSum
    <3>3. StoredInv(x)'
      BY <2>3, <2>4, <3>1, <3>2 DEF CallInv, StoredInv
    <3>4. AskedInv(x)'
      BY <2>1, <2>3, <3>1 DEF CallInv, AskedInv
    <3>5. PlaceInv(x)'
      <4>1. session[x] # None /\ session[x].op = "place" /\ pc[x] \in {"insert", "commit", "done"}
              => charge[x] # None
        <5> SUFFICES ASSUME session[x] # None, session[x].op = "place",
                            pc[x] \in {"insert", "commit", "done"}
                     PROVE  charge[x] # None
          OBVIOUS
        <5>1. charge[x] = Total(session[x].row)
          BY <3>1 DEF CallInv, PlaceInv
        <5>2. session[x].row \in Order
          BY DEF TypeOK, Session
        <5> QED
          BY <5>1, <5>2, TotalIsSum
      <4> QED
        BY <2>3, <2>4, <3>1, <4>1 DEF CallInv, PlaceInv
    <3>6. ChangeInv(x)'
      <4>1. session[x] # None => session[x].order \in Calls
        BY DEF TypeOK, Session
      <4> QED
        BY <2>3, <2>4, <3>1, <3>2, <4>1 DEF CallInv, ChangeInv
    <3> QED
      BY <3>3, <3>4, <3>5, <3>6 DEF CallInv
  <2> QED
    BY <2>2, <2>5
<1>2. CASE StripeRefunds(c)
  <2>1. TypeOK'
    BY <1>2 DEF StripeRefunds, TypeOK
  <2>2. /\ UNCHANGED <<order, pc, session, asked, charge>>
        /\ asked[c] # None /\ asked[c].op = "refund"
        /\ refunded' = refunded \cup {c}
    BY <1>2 DEF StripeRefunds
  <2>3. ASSUME NEW x \in Calls PROVE CallInv(x)'
    <3>1. CallInv(x)
      OBVIOUS
    <3>2. StoredInv(x)'
      BY <2>2, <3>1 DEF CallInv, StoredInv
    <3>3. AskedInv(x)'
      BY <2>2, <3>1 DEF CallInv, AskedInv
    <3>4. PlaceInv(x)' /\ ChangeInv(x)'
      BY <2>2, <3>1 DEF CallInv, PlaceInv, ChangeInv
    <3> QED
      BY <3>2, <3>3, <3>4 DEF CallInv
  <2> QED
    BY <2>1, <2>3
<1> QED
  BY <1>1, <1>2

\* A call begins: what is stored and what Stripe has done stay as they are, and so do
\* the other calls.
LEMMA Beginning ==
  ASSUME IInv, NEW c \in Calls, pc[c] = "idle",
         UNCHANGED <<order, charge, refunded>>,
         \A x \in Calls : x # c => /\ pc'[x] = pc[x] /\ session'[x] = session[x]
                                   /\ asked'[x] = asked[x],
         TypeOK', PlaceInv(c)', ChangeInv(c)',
         pc'[c] \in Unasked => session'[c] = None /\ asked'[c] = None
  PROVE  IInv'
<1> USE NoneAssumption
<1>1. CallInv(c)
  BY DEF IInv
<1>2. asked[c] = None /\ order[c] = None /\ charge[c] = None /\ c \notin refunded
  BY <1>1 DEF CallInv, StoredInv, AskedInv, Unasked
<1>3. ASSUME NEW x \in Calls PROVE CallInv(x)'
  <2>1. CallInv(x)
    BY DEF IInv
  <2>2. CASE x = c
    <3>1. StoredInv(x)' /\ AskedInv(x)'
      BY <1>2, <2>2 DEF StoredInv, AskedInv
    <3> QED
      BY <2>2, <3>1 DEF CallInv
  <2>3. CASE x # c
    <3>1. /\ pc'[x] = pc[x] /\ session'[x] = session[x] /\ asked'[x] = asked[x]
      BY <2>3
    <3>2. \A d \in refunded : session'[d] = session[d]
      BY <1>2 DEF IInv, TypeOK
    <3>3. StoredInv(x)'
      BY <2>1, <3>1, <3>2 DEF CallInv, StoredInv
    <3>4. AskedInv(x)'
      BY <2>1, <3>1 DEF CallInv, AskedInv
    <3>5. PlaceInv(x)'
      BY <2>1, <3>1 DEF CallInv, PlaceInv
    <3>6. ChangeInv(x)'
      BY <2>1, <3>1 DEF CallInv, ChangeInv
    <3> QED
      BY <3>3, <3>4, <3>5, <3>6 DEF CallInv
  <2> QED
    BY <2>2, <2>3
<1> QED
  BY <1>3 DEF IInv

LEMMA PlaceStep ==
  ASSUME IInv, NEW c \in Calls, NEW lines \in Baskets, NEW known \in BOOLEAN,
         PlaceOrder(c, lines, known)
  PROVE  IInv'
<1> DEFINE o == NewOrder(lines)
           why == IF ToNewOrderRefuses(lines) THEN "already placed" ELSE PlaceRefuses(o)
<1> USE NoneAssumption
<1>1. /\ pc[c] = "idle" /\ UNCHANGED <<order, charge, refunded>>
      /\ TypeOK /\ CallInv(c)
  BY DEF PlaceOrder, stripe, IInv
<1>2. session[c] = None /\ asked[c] = None /\ charge[c] = None /\ order[c] = None
  BY <1>1 DEF CallInv, AskedInv, StoredInv, Unasked
<1>3. why \in {"no", "already placed", "empty"}
  BY DEF PlaceRefuses
<1>4. CASE why # "no"
  <2>1. /\ Goto(c, why) /\ UNCHANGED <<session, asked>>
    BY <1>4 DEF PlaceOrder
  <2>2. TypeOK'
    BY <1>1, <1>3, <1>4, <2>1 DEF TypeOK, Goto, EndedAt
  <2>3. /\ pc'[c] = why
        /\ \A x \in Calls : x # c => pc'[x] = pc[x]
    BY <1>1, <2>1 DEF TypeOK, Goto
  <2>4. PlaceInv(c)' /\ ChangeInv(c)'
    BY <1>1, <1>2, <1>3, <1>4, <2>1, <2>3 DEF PlaceInv, ChangeInv
  <2> HIDE DEF why
  <2> QED
    BY <1>1, <1>2, <2>1, <2>2, <2>3, <2>4, Beginning
<1>5. CASE why = "no"
  <2> DEFINE row == PlacedOrder(o)
             ask == [op |-> "charge", amount |-> Total(o)]
             new == [op |-> "place", order |-> c, row |-> row, known |-> known]
  <2>1. /\ session' = [session EXCEPT ![c] = new]
        /\ asked' = [asked EXCEPT ![c] = ask]
        /\ Goto(c, "charging")
    BY <1>5 DEF PlaceOrder, Opens
  <2>2. /\ row \in Order /\ row.status = "placed" /\ row.reason = "none"
        /\ row.lines = lines /\ Total(row) = Total(o) /\ o \in Order
    BY NewRow
  <2>3. lines # <<>>
    <3>1. PlaceRefuses(o) = "no"
      BY <1>5
    <3> QED
      BY <3>1, NewRow
  <2>4. Total(o) \in Sums
    BY <2>2, TotalIsSum
  <2> HIDE DEF row, o, why
  <2>5. new \in Session /\ ask \in Asked /\ new # None /\ ask # None
    BY <2>2, <2>4 DEF Session, Asked
  <2>6. TypeOK'
    BY <1>1, <2>1, <2>5 DEF TypeOK, Goto, InFlightAt
  <2>7. /\ pc'[c] = "charging" /\ session'[c] = new /\ asked'[c] = ask
        /\ \A x \in Calls : x # c => /\ pc'[x] = pc[x] /\ session'[x] = session[x]
                                     /\ asked'[x] = asked[x]
    BY <1>1, <2>1 DEF TypeOK, Goto
  <2>8. PlaceInv(c)'
    BY <2>2, <2>3, <2>5, <2>7 DEF PlaceInv
  <2>9. ChangeInv(c)'
    BY <2>7 DEF ChangeInv
  <2> QED
    BY <1>1, <2>6, <2>7, <2>8, <2>9, Beginning DEF Unasked
<1> QED
  BY <1>4, <1>5

\* The row a cancellation or a refund loads was charged, and is stored.
LEMMA Loading ==
  ASSUME IInv, NEW c \in Calls, NEW op \in {"cancel", "refund"}, NEW o \in Calls,
         NEW ask \in Asked \cup {None}, NEW place \in {"commit", "refunding"},
         pc[c] = "idle", order[o] # None, UNCHANGED <<order, charge, refunded>>,
         Opens(c, op, o, order[o], TRUE), Goto(c, place),
         asked' = [asked EXCEPT ![c] = ask],
         op = "refund" <=> place = "refunding"
  PROVE  IInv'
<1> DEFINE new == [op |-> op, order |-> o, row |-> order[o], known |-> TRUE]
<1> USE NoneAssumption
<1>1. TypeOK /\ CallInv(o)
  BY DEF IInv
<1>2. new \in Session /\ new # None
  <2>1. order[o] \in Order
    BY <1>1 DEF TypeOK
  <2>2. new \in Session
    BY <2>1 DEF Session
  <2> QED
    BY <2>2
<1>3. session' = [session EXCEPT ![c] = new]
  BY DEF Opens
<1> HIDE DEF new
<1>4. TypeOK'
  BY <1>1, <1>2, <1>3 DEF TypeOK, Goto, InFlightAt
<1>5. /\ pc'[c] = place /\ session'[c] = new
      /\ \A x \in Calls : x # c => /\ pc'[x] = pc[x] /\ session'[x] = session[x]
                                   /\ asked'[x] = asked[x]
  BY <1>1, <1>3 DEF TypeOK, Goto
<1>6. /\ new.op = op /\ new.order = o /\ new.row = order[o]
  BY DEF new
<1>7. PlaceInv(c)'
  BY <1>5, <1>6 DEF PlaceInv
<1>8. ChangeInv(c)'
  <2>1. order[o].lines # <<>> /\ charge[o] = Total(order[o])
    BY <1>1 DEF CallInv, StoredInv
  <2>2. pc'[c] # "done" /\ (pc'[c] = "commit" => op # "refund")
    BY <1>5
  <2>3. pc'[c] = "refunding" => op = "refund"
    BY <1>5
  <2> QED
    BY <1>2, <1>5, <1>6, <2>1, <2>2, <2>3 DEF ChangeInv
<1> QED
  BY <1>4, <1>5, <1>7, <1>8, Beginning DEF Unasked

\* There is no such order.
LEMMA NotFound ==
  ASSUME IInv, NEW c \in Calls, pc[c] = "idle", Goto(c, "not found"),
         UNCHANGED <<order, session, asked, charge, refunded>>
  PROVE  IInv'
<1>1. TypeOK /\ CallInv(c)
  BY DEF IInv
<1>2. session[c] = None /\ asked[c] = None
  BY <1>1 DEF CallInv, AskedInv, Unasked
<1>3. TypeOK'
  BY <1>1 DEF TypeOK, Goto, EndedAt
<1>4. /\ pc'[c] = "not found"
      /\ \A x \in Calls : x # c => pc'[x] = pc[x]
  BY <1>1 DEF TypeOK, Goto
<1>5. PlaceInv(c)' /\ ChangeInv(c)'
  BY <1>2, <1>4 DEF PlaceInv, ChangeInv
<1> QED
  BY <1>2, <1>3, <1>4, <1>5, Beginning

LEMMA CancelStep ==
  ASSUME IInv, NEW c \in Calls, NEW o \in Calls, CancelOrder(c, o)
  PROVE  IInv'
<1>1. CASE order[o] = None
  BY <1>1, NotFound DEF CancelOrder, stripe
<1>2. CASE order[o] # None
  <2>1. asked[c] \in Asked \cup {None} /\ asked' = [asked EXCEPT ![c] = asked[c]]
    BY DEF CancelOrder, IInv, TypeOK
  <2>2. /\ pc[c] = "idle" /\ UNCHANGED <<order, charge, refunded>>
        /\ Opens(c, "cancel", o, order[o], TRUE) /\ Goto(c, "commit")
    BY <1>2 DEF CancelOrder, stripe
  <2> QED
    BY <1>2, <2>1, <2>2, Loading
<1> QED
  BY <1>1, <1>2

LEMMA RefundStep ==
  ASSUME IInv, NEW c \in Calls, NEW o \in Calls, NEW ch \in Calls, RefundOrder(c, o, ch)
  PROVE  IInv'
<1>1. CASE order[o] = None
  BY <1>1, NotFound DEF RefundOrder, stripe
<1>2. CASE order[o] # None
  <2> DEFINE ask == [op |-> "refund", charge |-> ch]
  <2>1. ask \in Asked \cup {None} /\ asked' = [asked EXCEPT ![c] = ask]
    BY <1>2 DEF RefundOrder, Asked
  <2>2. /\ pc[c] = "idle" /\ UNCHANGED <<order, charge, refunded>>
        /\ Opens(c, "refund", o, order[o], TRUE) /\ Goto(c, "refunding")
    BY <1>2 DEF RefundOrder, stripe
  <2> QED
    BY <1>2, <2>1, <2>2, Loading
<1> QED
  BY <1>1, <1>2

\* The end of a transaction: a new row, a row changed, or nothing.
LEMMA CommitStep ==
  ASSUME IInv, NEW c \in Calls, Commit(c)
  PROVE  /\ IInv'
         /\ \A o \in Calls : order'[o] # order[o] => session[c].order = o
         /\ \A o \in Calls : order[o] # None /\ order'[o] # order[o] =>
              session[c].row.status # "cancelled"
<1> DEFINE s == session[c]
           w == Written(s)
<1> USE NoneAssumption
<1>1. /\ TypeOK /\ CallInv(c) /\ pc[c] = "commit"
      /\ Goto(c, "done") /\ UNCHANGED <<session, asked, charge, refunded>>
  BY DEF Commit, IInv, stripe
<1>2. order' = IF s.op # "place" /\ w = s.row THEN order
               ELSE [order EXCEPT ![s.order] = w]
  BY DEF Commit
<1>3. s # None /\ s \in Session
  BY <1>1 DEF CallInv, ChangeInv, TypeOK
<1>4. s.order \in Calls /\ s.row \in Order /\ s.op \in {"place", "cancel", "refund"}
  BY <1>3 DEF Session
<1>5. /\ w \in Order /\ w # None
      /\ w.lines = s.row.lines /\ Total(w) = Total(s.row)
      /\ s.op = "place" => w = s.row
      /\ s.op # "place" => w.status = "cancelled"
      /\ s.op # "place" /\ s.row.status = "cancelled" => w = s.row
      /\ s.op # "place" /\ w # s.row => w.reason = s.op
  BY <1>3, WrittenRow
<1>6. /\ pc'[c] = "done"
      /\ \A x \in Calls : x # c => pc'[x] = pc[x]
  BY <1>1 DEF TypeOK, Goto
<1>7. order[c] = None
  BY <1>1 DEF CallInv, StoredInv
<1>8. s.op = "place" => s.order = c /\ s.row.status = "placed" /\ s.row.reason = "none"
  BY <1>1, <1>3 DEF CallInv, PlaceInv
<1>9. s.row.lines # <<>> /\ charge[s.order] = Total(s.row)
  <2>1. CASE s.op = "place"
    BY <1>1, <1>3, <2>1 DEF CallInv, PlaceInv
  <2>2. CASE s.op # "place"
    BY <1>1, <1>3, <2>2 DEF CallInv, ChangeInv
  <2> QED
    BY <2>1, <2>2
<1>10. s.op # "place" =>
         /\ order[s.order] # None
         /\ s.row.status = "cancelled" => order[s.order].status = "cancelled"
         /\ s.op = "refund" => c \in refunded
  BY <1>1, <1>3 DEF CallInv, ChangeInv
<1> HIDE DEF w
<1>11. /\ \A o \in Calls : o # s.order => order'[o] = order[o]
       /\ order'[s.order] = w \/ (s.op # "place" /\ w = s.row /\ order'[s.order] = order[s.order])
  BY <1>1, <1>2, <1>4 DEF TypeOK
<1>12. TypeOK'
  <2>1. w.status \in {"placed", "cancelled"}
    BY <1>4, <1>5, <1>8
  <2>2. order' \in [Calls -> Order \cup {None}]
    BY <1>1, <1>2, <1>4, <1>5 DEF TypeOK
  <2>3. \A o \in Calls : order'[o] # None => order'[o].status \in {"placed", "cancelled"}
    BY <1>1, <1>11, <2>1 DEF TypeOK
  <2>4. pc' \in [Calls -> {"idle"} \cup InFlightAt \cup EndedAt]
    BY <1>1 DEF TypeOK, Goto, EndedAt
  <2> QED
    BY <1>1, <2>2, <2>3, <2>4 DEF TypeOK
<1>13. /\ order'[s.order] # None
       /\ s.op # "place" => order'[s.order].status = "cancelled"
  BY <1>5, <1>10, <1>11
<1>14. \A o \in Calls : order[o] # None =>
         /\ order'[o] # None
         /\ order[o].status = "cancelled" => order'[o].status = "cancelled"
  BY <1>7, <1>8, <1>11, <1>13
<1>15. ASSUME NEW x \in Calls PROVE CallInv(x)'
  <2>1. CallInv(x)
    BY DEF IInv
  <2>2. StoredInv(x)'
    <3>1. CASE x # s.order \/ order'[x] = order[x]
      <4>1. order'[x] = order[x]
        BY <1>11, <3>1
      <4>2. order[x] # None => x # c
        BY <1>7
      <4> QED
        BY <1>1, <1>6, <2>1, <4>1, <4>2 DEF CallInv, StoredInv
    <3>2. CASE x = s.order /\ order'[x] # order[x]
      <4>1. order'[x] = w
        BY <1>11, <3>2
      <4>2. pc'[x] = "done" /\ session[x].op = "place"
        <5>1. CASE s.op = "place"
          BY <1>6, <1>8, <3>2, <5>1
        <5>2. CASE s.op # "place"
          <6>1. pc[x] = "done" /\ session[x].op = "place"
            BY <1>10, <2>1, <3>2, <5>2 DEF CallInv, StoredInv
          <6> QED
            BY <1>1, <1>6, <6>1
        <5> QED
          BY <5>1, <5>2
      <4>3. w.reason = "refund" => c \in refunded /\ s.op = "refund"
        <5>1. CASE s.op = "place"
          BY <1>5, <1>8, <5>1
        <5>2. CASE s.op # "place"
          <6>1. w # s.row
            BY <1>2, <3>2, <5>2
          <6> QED
            BY <1>5, <1>10, <5>2, <6>1
        <5> QED
          BY <5>1, <5>2
      <4> QED
        BY <1>1, <1>5, <1>9, <3>2, <4>1, <4>2, <4>3 DEF StoredInv
    <3> QED
      BY <3>1, <3>2
  <2>3. AskedInv(x)'
    BY <1>1, <1>6, <2>1 DEF CallInv, AskedInv, Unasked
  <2>4. PlaceInv(x)'
    <3>1. CASE x = c
      BY <1>1, <1>6, <1>8, <1>13, <2>1, <3>1 DEF CallInv, PlaceInv
    <3>2. CASE x # c
      BY <1>1, <1>6, <1>14, <2>1, <3>2 DEF CallInv, PlaceInv
    <3> QED
      BY <3>1, <3>2
  <2>5. ChangeInv(x)'
    <3>1. session[x] # None => session[x].order \in Calls
      BY <1>1 DEF TypeOK, Session
    <3>2. CASE x = c
      BY <1>1, <1>6, <1>13, <2>1, <3>2 DEF CallInv, ChangeInv
    <3>3. CASE x # c
      BY <1>1, <1>6, <1>14, <2>1, <3>1, <3>3 DEF CallInv, ChangeInv
    <3> QED
      BY <3>2, <3>3
  <2> QED
    BY <2>2, <2>3, <2>4, <2>5 DEF CallInv
<1>16. \A o \in Calls : order'[o] # order[o] => s.order = o
  BY <1>11
<1>17. \A o \in Calls : order[o] # None /\ order'[o] # order[o] => s.row.status # "cancelled"
  <2> SUFFICES ASSUME NEW o \in Calls, order[o] # None, order'[o] # order[o]
               PROVE  s.row.status # "cancelled"
    OBVIOUS
  <2>1. o = s.order
    BY <1>16
  <2>2. s.op # "place"
    BY <1>7, <1>8, <2>1
  <2>3. w # s.row
    BY <1>2, <2>2
  <2> QED
    BY <1>5, <2>2, <2>3
<1> QED
  BY <1>12, <1>15, <1>16, <1>17 DEF IInv

LEMMA NextIInv == IInv /\ [Next]_vars => IInv'
<1> SUFFICES ASSUME IInv, [Next]_vars PROVE IInv'
  OBVIOUS
<1>1. CASE UNCHANGED vars
  BY <1>1 DEF vars, stripe, IInv, TypeOK, CallInv, StoredInv, AskedInv, PlaceInv, ChangeInv
<1>2. CASE Next
  <2>1. PICK c \in Calls :
          \/ Request(c)
          \/ ChargeReturns(c) \/ Insert(c) \/ RefundReturns(c) \/ Commit(c) \/ Abort(c)
          \/ StripeCharges(c) \/ StripeRefunds(c)
    BY <1>2 DEF Next
  <2>2. CASE Request(c)
    BY <2>2, PlaceStep, CancelStep, RefundStep DEF Request
  <2>3. CASE ChargeReturns(c) \/ Insert(c) \/ RefundReturns(c) \/ Abort(c)
    BY <2>3, ProgressStep
  <2>4. CASE Commit(c)
    BY <2>4, CommitStep
  <2>5. CASE StripeCharges(c) \/ StripeRefunds(c)
    BY <2>5, StripeStep
  <2> QED
    BY <2>1, <2>2, <2>3, <2>4, <2>5
<1> QED
  BY <1>1, <1>2

----------------------------------------------------------------------------
(* Theorems. *)

\* Spec never leaves the invariant: what a call holds, what it has asked of Stripe and
\* what is stored belong together.
THEOREM Inductive == Spec => []IInv
BY InitIInv, NextIInv, PTL DEF Spec

\* The state of Checkout is well-typed; in particular only placed and cancelled orders
\* are stored, never a draft (checkout_service.py:30).
THEOREM TypeCorrect == Spec => []TypeOK
<1>1. IInv => TypeOK
  BY DEF IInv
<1> QED
  BY <1>1, Inductive, PTL

\* Every stored order was charged for its total, and one that says it was refunded was
\* paid back (place_order and refund_order of checkout_service.py).
THEOREM StoredTrue == Spec => []StoredIsTrue
<1>1. IInv => StoredIsTrue
  BY DEF IInv, CallInv, StoredInv, StoredIsTrue
<1> QED
  BY <1>1, Inductive, PTL

\* What a call of the service was answered stays true.
THEOREM AnswersStayTrue == Spec => []AnswerHolds
<1>1. IInv => AnswerHolds
  <2> SUFFICES ASSUME IInv, NEW c \in Calls
               PROVE  /\ pc[c] = "done" =>
                           /\ order[session[c].order] # None
                           /\ charge[session[c].order] = OrderGet(c).total
                           /\ session[c].op # "place" =>
                                order[session[c].order].status = OrderGet(c).status
                           /\ session[c].op = "refund" => c \in refunded
                      /\ pc[c] \in {"already placed", "empty", "not found"} =>
                           order[c] = None /\ charge[c] = None /\ c \notin refunded
    BY DEF AnswerHolds
  <2> USE NoneAssumption
  <2>1. TypeOK /\ CallInv(c)
    BY DEF IInv
  <2>2. CASE pc[c] = "done"
    <3>1. session[c] # None /\ session[c] \in Session
      BY <2>1, <2>2 DEF CallInv, ChangeInv, TypeOK
    <3>2. /\ OrderGet(c).total = Total(session[c].row)
          /\ session[c].op # "place" => OrderGet(c).status = "cancelled"
      BY <3>1, WrittenRow DEF OrderGet
    <3>3. CASE session[c].op = "place"
      BY <2>1, <2>2, <3>1, <3>2, <3>3 DEF CallInv, PlaceInv
    <3>4. CASE session[c].op # "place"
      BY <2>1, <2>2, <3>1, <3>2, <3>4 DEF CallInv, ChangeInv
    <3> QED
      BY <2>2, <3>3, <3>4
  <2>3. CASE pc[c] \in {"already placed", "empty", "not found"}
    BY <2>1, <2>3 DEF CallInv, StoredInv, AskedInv, Unasked
  <2> QED
    BY <2>2, <2>3
<1> QED
  BY <1>1, Inductive, PTL

\* The reason of a cancellation is overwritten only by a call whose session read the
\* order before it was cancelled (OrderRepo.get_or_raise takes no lock).
THEOREM CancellationsKept == Spec => CancellationKept
<1> DEFINE Keeps ==
      \A o \in Calls :
        order[o] # None /\ order[o].status = "cancelled" /\ order'[o] # order[o] =>
          \E c \in Calls :
            /\ pc[c] = "commit" /\ session[c].order = o
            /\ session[c].row.status # "cancelled"
<1>1. IInv /\ [Next]_vars => [Keeps]_vars
  <2> SUFFICES ASSUME IInv, Next PROVE Keeps
    OBVIOUS
  <2>1. PICK c \in Calls :
          \/ Request(c)
          \/ ChargeReturns(c) \/ Insert(c) \/ RefundReturns(c) \/ Commit(c) \/ Abort(c)
          \/ StripeCharges(c) \/ StripeRefunds(c)
    BY DEF Next
  <2>2. CASE Commit(c)
    BY <2>2, CommitStep DEF Commit
  <2>3. CASE ~Commit(c)
    <3>1. UNCHANGED order
      BY <2>1, <2>3 DEF Request, PlaceOrder, CancelOrder, RefundOrder, ChargeReturns, Insert,
         RefundReturns, Abort, StripeCharges, StripeRefunds
    <3> QED
      BY <3>1
  <2> QED
    BY <2>2, <2>3
<1> QED
  BY <1>1, Inductive, PTL DEF CancellationKept, Spec

\* The query for high values finds what the aggregate's total says: its inner join
\* loses no order, since none is stored without lines (order_repo.py:50).
THEOREM QueriesAgree == Spec => []QueryAgrees
<1>1. IInv => QueryAgrees
  <2> SUFFICES ASSUME IInv, NEW min \in 0..3
               PROVE  HighValue(min) =
                        {c \in Calls : order[c] # None /\ order[c].placed /\ Total(order[c]) >= min}
    BY DEF QueryAgrees
  <2>1. SumsOfLines = {<<c, Total(order[c])>> : c \in {x \in Calls : order[x] # None}}
    BY DEF SumsOfLines, IInv, CallInv, StoredInv
  <2>2. ASSUME NEW c \in Calls
        PROVE  c \in HighValue(min) <=> order[c] # None /\ order[c].placed /\ Total(order[c]) >= min
    <3>1. <<c, Total(order[c])>>[1] = c /\ <<c, Total(order[c])>>[2] = Total(order[c])
      OBVIOUS
    <3>2. CASE order[c] # None /\ order[c].placed /\ Total(order[c]) >= min
      <4>1. <<c, Total(order[c])>> \in SumsOfLines
        BY <2>1, <3>2
      <4> QED
        BY <3>1, <3>2, <4>1 DEF HighValue
    <3>3. CASE c \in HighValue(min)
      <4>1. PICK s \in SumsOfLines : c = s[1] /\ order[s[1]].placed /\ s[2] >= min
        BY <3>3 DEF HighValue
      <4>2. PICK d \in Calls : order[d] # None /\ s = <<d, Total(order[d])>>
        BY <2>1, <4>1
      <4>3. s[1] = d /\ s[2] = Total(order[d])
        BY <4>2
      <4>4. c = d
        BY <4>1, <4>3
      <4> QED
        BY <3>3, <4>1, <4>2, <4>3, <4>4
    <3> QED
      BY <3>2, <3>3
  <2>3. HighValue(min) \subseteq Calls
    BY <2>1 DEF HighValue
  <2> QED
    BY <2>2, <2>3
<1> QED
  BY <1>1, Inductive, PTL
=============================================================================
