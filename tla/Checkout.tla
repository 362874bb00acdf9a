------------------------------ MODULE Checkout ------------------------------
(***************************************************************************)
(* The checkout service of the python-service-and-schema-cohesion skill    *)
(* over the order aggregate and repository of python-aggregate-and-repo:   *)
(* orders are placed, cancelled and refunded by concurrent calls, each     *)
(* with a session and a transaction of its own around the call to Stripe.  *)
(*                                                                         *)
(* One action is one round trip, to the database or to Stripe, with        *)
(* everything the code does before the next await.  An order, its charge   *)
(* and a refund are named by the call that makes them.  A charge carries   *)
(* no idempotency key; a call that ends in an error may have been executed *)
(* or be executed later, and Stripe is called once (OneCall).              *)
(***************************************************************************)
EXTENDS FiniteSets, Functions, Integers, Sequences

CONSTANTS
  Calls,          \* calls of the service
  Baskets,        \* the lines a client orders
  None,           \* no row, no record
  DefaultAtInsert \* the status column's default: TRUE as the code stands

ASSUME CheckoutAssumption ==
  /\ DefaultAtInsert \in BOOLEAN
  /\ \A b \in Baskets : b \in Seq([quantity : Int, unit_price : Int])

VARIABLES
  order,    \* order[c]: the row of the order c placed, or None
  pc,       \* pc[c]: the next round trip of call c, or how it ended
  session,  \* session[c]: what c was asked and the order its session holds
  asked,    \* asked[c]: what c has sent to Stripe, or None
  charge,   \* charge[c]: the amount Stripe has charged for c, or None
  refunded  \* the calls whose refund Stripe has paid

stripe == <<charge, refunded>>
vars == <<order, pc, session, asked, stripe>>

----------------------------------------------------------------------------
(* The aggregate: order_model.py.                                          *)

Status == {"draft", "placed", "paid", "cancelled"}
Reasons == {"none", "cancel", "refund"}

Order == [status : Status \cup {None}, placed : BOOLEAN, reason : Reasons, lines : Baskets]

Subtotal(l) == l.unit_price * l.quantity
Total(o) == SumFunction([i \in DOMAIN o.lines |-> Subtotal(o.lines[i])])

\* Order.new.  mapped_column(default=...) is a default of the INSERT: until the
\* first flush the attribute of a new order is None.
NewOrder(lines) ==
  [status |-> IF DefaultAtInsert THEN None ELSE "draft",
   placed |-> FALSE, reason |-> "none", lines |-> lines]

IsDraft(o) == o.status = "draft"

AddLineRefuses(o) == ~IsDraft(o)

\* PlaceOrderCommand.to_new_order adds the lines one by one.
ToNewOrderRefuses(lines) == lines # <<>> /\ AddLineRefuses(NewOrder(<<>>))

\* place() without its second guard.
PlaceRefuses_NotEmpty(o) == IF IsDraft(o) THEN "no" ELSE "already placed"

PlaceRefuses(o) ==
  CASE ~IsDraft(o) -> "already placed"
    [] IsDraft(o) /\ o.lines = <<>> -> "empty"
    [] IsDraft(o) /\ o.lines # <<>> -> "no"

\* placed_at alone.
PlacedOrder_KeepsStatus(o) == [o EXCEPT !.placed = TRUE]

PlacedOrder(o) == [o EXCEPT !.status = "placed", !.placed = TRUE]

\* cancel() without its early return.
CancelledOrder_Always(o, reason) == [o EXCEPT !.status = "cancelled", !.reason = reason]

CancelledOrder(o, reason) ==
  IF o.status = "cancelled" THEN o
  ELSE [o EXCEPT !.status = "cancelled", !.reason = reason]

----------------------------------------------------------------------------
(* The shape of the state. *)

Session == [op : {"place", "cancel", "refund"}, order : Calls, row : Order,
            known : BOOLEAN]      \* the customer of the command exists
Sums == {Total(NewOrder(b)) : b \in Baskets}
Asked == [op : {"charge"}, amount : Sums] \cup [op : {"refund"}, charge : Calls]

\* "no row" is not a row.
ASSUME NoneAssumption ==
  None \notin Order /\ None \notin Session /\ None \notin Asked /\ None \notin Sums

InFlightAt == {"charging", "insert", "commit", "refunding"}
EndedAt == {"done", "already placed", "empty", "not found", "conflict", "raised", "gone"}

\* What is stored was placed.
TypeOK ==
  /\ order \in [Calls -> Order \cup {None}]
  /\ \A c \in Calls : order[c] # None => order[c].status \in {"placed", "cancelled"}
  /\ pc \in [Calls -> {"idle"} \cup InFlightAt \cup EndedAt]
  /\ session \in [Calls -> Session \cup {None}]
  /\ asked \in [Calls -> Asked \cup {None}]
  /\ charge \in [Calls -> Sums \cup {None}]
  /\ refunded \subseteq Calls

Init ==
  /\ order = [c \in Calls |-> None]
  /\ pc = [c \in Calls |-> "idle"]
  /\ session = [c \in Calls |-> None]
  /\ asked = [c \in Calls |-> None]
  /\ charge = [c \in Calls |-> None]
  /\ refunded = {}

Goto(c, place) == pc' = [pc EXCEPT ![c] = place]

Opens(c, op, o, row, known) ==
  session' = [session EXCEPT ![c] = [op |-> op, order |-> o, row |-> row, known |-> known]]

----------------------------------------------------------------------------
(* place_order. *)

\* The order is built and placed in memory; the customer is not looked up.
PlaceOrder(c, lines, known) ==
  /\ pc[c] = "idle"
  /\ LET o == NewOrder(lines)
         why == IF ToNewOrderRefuses(lines) THEN "already placed" ELSE PlaceRefuses(o)
     IN  IF why # "no"
         THEN Goto(c, why) /\ UNCHANGED <<session, asked>>
         ELSE /\ Opens(c, "place", c, PlacedOrder(o), known)
              /\ asked' = [asked EXCEPT ![c] = [op |-> "charge", amount |-> Total(o)]]
              /\ Goto(c, "charging")
  /\ UNCHANGED <<order, stripe>>

\* A charge that fails is logged.
ChargeReturns_Swallowed(c) ==
  /\ pc[c] = "charging"
  /\ Goto(c, "insert")
  /\ UNCHANGED <<order, session, asked, stripe>>

ChargeReturns(c) ==
  /\ pc[c] = "charging"
  /\ \/ charge[c] # None /\ Goto(c, "insert")
     \/ Goto(c, "raised")
  /\ UNCHANGED <<order, session, asked, stripe>>

\* OrderRepo.add flushes: here the foreign key finds out that there is no such
\* customer, and the IntegrityError becomes UniqueViolationException.
Insert(c) ==
  /\ pc[c] = "insert"
  /\ Goto(c, IF session[c].known THEN "commit" ELSE "conflict")
  /\ UNCHANGED <<order, session, asked, stripe>>

----------------------------------------------------------------------------
(* cancel_order and refund_order. *)

\* get_or_raise; cancel() follows without an await and is written at the commit.
CancelOrder(c, o) ==
  /\ pc[c] = "idle"
  /\ IF order[o] = None
     THEN Goto(c, "not found") /\ UNCHANGED session
     ELSE Opens(c, "cancel", o, order[o], TRUE) /\ Goto(c, "commit")
  /\ UNCHANGED <<order, asked, stripe>>

\* get_or_raise, then Stripe with the charge the client names.
RefundOrder(c, o, ch) ==
  /\ pc[c] = "idle"
  /\ IF order[o] = None
     THEN Goto(c, "not found") /\ UNCHANGED <<session, asked>>
     ELSE /\ Opens(c, "refund", o, order[o], TRUE)
          /\ asked' = [asked EXCEPT ![c] = [op |-> "refund", charge |-> ch]]
          /\ Goto(c, "refunding")
  /\ UNCHANGED <<order, stripe>>

RefundReturns(c) ==
  /\ pc[c] = "refunding"
  /\ \/ c \in refunded /\ Goto(c, "commit")
     \/ Goto(c, "raised")
  /\ UNCHANGED <<order, session, asked, stripe>>

\* What the session's order is at the end of its transaction.
Written(s) == IF s.op = "place" THEN s.row ELSE CancelledOrder(s.row, s.op)

\* OrderGet.from_model, when the transaction is over: what the client is shown.
OrderGet(c) ==
  [status |-> Written(session[c]).status, total |-> Total(Written(session[c]))]

\* The answer is given, and the flush forgotten.
Commit_RefundUnwritten(c) ==
  /\ pc[c] = "commit"
  /\ Goto(c, "done")
  /\ order' = IF session[c].op = "refund" THEN order
              ELSE [order EXCEPT ![session[c].order] = Written(session[c])]
  /\ UNCHANGED <<session, asked, stripe>>

\* The end of session.begin(): an INSERT of a new order, or an UPDATE of what the
\* session has changed in the order it loaded, whatever the row has become since.
Commit(c) ==
  /\ pc[c] = "commit"
  /\ Goto(c, "done")
  /\ LET s == session[c]
     IN  order' = IF s.op # "place" /\ Written(s) = s.row THEN order
                  ELSE [order EXCEPT ![s.order] = Written(s)]
  /\ UNCHANGED <<session, asked, stripe>>

\* The process stops, the connection is lost, a statement fails: rolled back.
Abort(c) ==
  /\ pc[c] \in InFlightAt
  /\ Goto(c, "gone")
  /\ UNCHANGED <<order, session, asked, stripe>>

----------------------------------------------------------------------------
(* External: Stripe. *)

StripeCharges(c) ==
  /\ asked[c] # None /\ asked[c].op = "charge"
  /\ charge[c] = None
  /\ charge' = [charge EXCEPT ![c] = asked[c].amount]
  /\ UNCHANGED <<order, pc, session, asked, refunded>>

StripeRefunds(c) ==
  /\ asked[c] # None /\ asked[c].op = "refund"
  /\ charge[asked[c].charge] # None
  /\ c \notin refunded
  /\ refunded' = refunded \cup {c}
  /\ UNCHANGED <<order, pc, session, asked, charge>>

----------------------------------------------------------------------------
Request(c) ==
  \/ \E lines \in Baskets, known \in BOOLEAN : PlaceOrder(c, lines, known)
  \/ \E o \in Calls : CancelOrder(c, o) \/ \E ch \in Calls : RefundOrder(c, o, ch)

Next ==
  \E c \in Calls :
    \/ Request(c)
    \/ ChargeReturns(c) \/ Insert(c) \/ RefundReturns(c) \/ Commit(c) \/ Abort(c)
    \/ StripeCharges(c) \/ StripeRefunds(c)

Spec == Init /\ [][Next]_vars

----------------------------------------------------------------------------
(* list_recent_high_value: the orders joined with the sums over their lines, an
   inner join, so that an order without lines has no sum. *)

SumsOfLines == {<<c, Total(order[c])>> : c \in {x \in Calls : order[x] # None /\ order[x].lines # <<>>}}

HighValue(min) == {s[1] : s \in {x \in SumsOfLines : order[x[1]].placed /\ x[2] >= min}}

----------------------------------------------------------------------------
(* Properties. *)

\* What the table says of money is true.  Every order was charged, and for the total
\* it has: the charge is made before the order is stored, and a call that is not sure
\* of it stores nothing.  And an order that says it was refunded was: the call that
\* wrote so had Stripe pay.
StoredIsTrue ==
  \A o \in Calls : order[o] # None =>
    /\ charge[o] = Total(order[o])
    /\ order[o].reason = "refund" =>
         \E c \in refunded : session[c].op = "refund" /\ session[c].order = o

\* The answer of a call tells what happened, whatever others do meanwhile: an order
\* that is shown is in the table, for the total that was charged, and once shown
\* cancelled it stays so; a refusal by the order leaves nothing behind.  Other errors
\* tell nothing: a conflict may have charged a customer for no order.
AnswerHolds ==
  \A c \in Calls :
    /\ pc[c] = "done" =>
         LET s == session[c]
         IN  /\ order[s.order] # None /\ charge[s.order] = OrderGet(c).total
             /\ s.op # "place" => order[s.order].status = OrderGet(c).status
             /\ s.op = "refund" => c \in refunded
    /\ pc[c] \in {"already placed", "empty", "not found"} =>
         order[c] = None /\ charge[c] = None /\ c \notin refunded

\* Why an order was cancelled is written once: another cancellation or refund
\* overwrites it only if its session read the order before it was cancelled.
CancellationKept ==
  [][\A o \in Calls :
       order[o] # None /\ order[o].status = "cancelled" /\ order'[o] # order[o] =>
         \E c \in Calls :
           /\ pc[c] = "commit" /\ session[c].order = o
           /\ session[c].row.status # "cancelled"]_vars

\* The query computes in SQL what the aggregate computes from its lines: with the
\* inner join it would miss an order without lines, which place() does not allow.
QueryAgrees ==
  \A min \in 0..3 :
    HighValue(min) =
      {c \in Calls : order[c] # None /\ order[c].placed /\ Total(order[c]) >= min}

\* A new order is a draft: no checkout is refused because its order was placed
\* already (python-test-pyramid/SKILL.md:262 expects a 201).
NewIsDraft == \A c \in Calls : pc[c] # "already placed"
=============================================================================
