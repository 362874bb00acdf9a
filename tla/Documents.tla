------------------------------ MODULE Documents ------------------------------
(***************************************************************************)
(* A document that is written line by line: an invoice of the test app or  *)
(* of the control app, whose totals are computed from its lines whenever   *)
(* somebody asks, or an order of the pure domain layer (order_domain.py),  *)
(* which is placed, cancelled, and records the events its service          *)
(* publishes.  The life of an invoice after its draft is the module        *)
(* Billing.                                                                *)
(***************************************************************************)
EXTENDS Amounts

CONSTANTS
  InvoiceLines,  \* what a client sends, valid or not
  OrderLines,
  MaxLines       \* bound: lines of a document

Currency == {"USD", "usd", "EUR"}

\* A line is what the schemas and the dataclasses ask for, whatever its values.
ASSUME LinesAssumption ==
  /\ InvoiceLines \subseteq [qty : Int, price : Int, rate : Int]
  /\ OrderLines \subseteq [qty : Int, price : [amount : Int, currency : Currency]]

VARIABLES
  kind,       \* "test", "control" or "order"
  lines,      \* its lines, the oldest first
  status,     \* Order.status; an invoice here is a draft
  events,     \* Order.events
  published   \* what pull_events has handed over so far

vars == <<kind, lines, status, events, published>>

Placed(total) == [type |-> "OrderPlaced", total |-> total]
Cancelled == [type |-> "OrderCancelled", total |-> Money(0, "USD")]   \* carries no total

Event == [type : {"OrderPlaced", "OrderCancelled"},
          total : [amount : Int, currency : Currency]]

TypeOK ==
  /\ kind \in {"test", "control", "order"}
  /\ lines \in Seq(IF kind = "order" THEN OrderLines ELSE {l \in InvoiceLines : Valid(l)})
  /\ status \in {"draft", "placed", "cancelled"}
  /\ kind # "order" => status = "draft"
  /\ events \in Seq(Event) /\ published \in Seq(Event)

Init ==
  /\ kind \in {"test", "control", "order"}
  /\ lines = <<>> /\ status = "draft"
  /\ events = <<>> /\ published = <<>>

----------------------------------------------------------------------------
(* Invoices. *)

\* Schema and constructor take whatever the client sends.
AddInvoiceLine_Unvalidated(l) ==
  /\ kind # "order"
  /\ Len(lines) < MaxLines
  /\ lines' = Append(lines, l)
  /\ UNCHANGED <<kind, status, events, published>>

\* A line that is not valid is refused; the test app takes whole quantities.
AddInvoiceLine(l) ==
  /\ kind # "order"
  /\ kind = "test" => l.qty % QTY = 0
  /\ Valid(l)
  /\ Len(lines) < MaxLines
  /\ lines' = Append(lines, l)
  /\ UNCHANGED <<kind, status, events, published>>

----------------------------------------------------------------------------
(* Orders. *)

\* A line is added whenever the order exists.
AddOrderLine_Unguarded(l) ==
  /\ kind = "order"
  /\ Len(lines) < MaxLines
  /\ lines' = Append(lines, l)
  /\ UNCHANGED <<kind, status, events, published>>

AddOrderLine(l) ==
  /\ kind = "order"
  /\ status = "draft"
  /\ Len(lines) < MaxLines
  /\ lines' = Append(lines, l)
  /\ UNCHANGED <<kind, status, events, published>>

\* The event is put together, with its total, after the status was set: lines of
\* two currencies raise when the order is already placed.
Place ==
  /\ kind = "order"
  /\ status = "draft"
  /\ lines # <<>>
  /\ status' = "placed"
  /\ IF OrderTotal(lines) = Mismatch
     THEN UNCHANGED events
     ELSE events' = Append(events, Placed(OrderTotal(lines)))
  /\ UNCHANGED <<kind, lines, published>>

Cancel ==
  /\ kind = "order"
  /\ status # "cancelled"
  /\ status' = "cancelled"
  /\ events' = Append(events, Cancelled)
  /\ UNCHANGED <<kind, lines, published>>

PullEvents ==
  /\ events # <<>>
  /\ published' = published \o events
  /\ events' = <<>>
  /\ UNCHANGED <<kind, lines, status>>

----------------------------------------------------------------------------
Next ==
  \/ \E l \in InvoiceLines : AddInvoiceLine(l)
  \/ \E l \in OrderLines : AddOrderLine(l)
  \/ Place \/ Cancel \/ PullEvents

Spec == Init /\ [][Next]_vars

----------------------------------------------------------------------------
(* Properties of the totals. *)

Abs(x) == IF x >= 0 THEN x ELSE -x

\* "invoice total is subtotal plus tax" (evals/README.md): in the control app, which
\* rounds the three separately, it may be one cent off, and never more; and the lines it
\* shows add up to the total within a cent for each and half a cent.  And the two apps
\* ask for nearly the same for one invoice: they differ by half a cent for every line
\* the test app rounds, and half a cent for the sum the control app rounds.
TotalsNearlyAgree ==
  LET t == CalculatedTotals(lines)
  IN  /\ kind = "control" =>
           /\ Abs(t.total - (t.subtotal + t.tax)) <= 1
           /\ 2 * Abs(t.total - AddUp(LAMBDA l : LineRead(l).total, lines)) <= 2 * Len(lines) + 1
      /\ kind = "test" => 2 * Abs(InvoiceTotals(lines).total - t.total) <= Len(lines) + 1

\* Amounts of two currencies are never added up, by either Money; and where the
\* domain's Money finds a total, the value object's finds the same.
NeverMixes ==
  kind = "order" /\ lines # <<>> =>
    /\ OrderTotal(lines) # Mismatch =>
         \A i \in DOMAIN lines : lines[i].price.currency = OrderTotal(lines).currency
    /\ NormalTotal(lines) # Mismatch =>
         \A i \in DOMAIN lines : Upper(lines[i].price.currency) = NormalTotal(lines).currency
    /\ OrderTotal(lines) # Mismatch => NormalTotal(lines) = Normal(OrderTotal(lines))

\* What is charged in whole cents differs from the total by less than a cent, and a
\* refund of the negated total pays back exactly what was charged.
RefundMatchesCharge ==
  kind = "order" /\ NormalTotal(lines) # Mismatch =>
    LET total == NormalTotal(lines)
    IN  /\ ToCents(Neg(total)) = -ToCents(total)
        /\ LET rest == Minus(total, FromCents(ToCents(total), total.currency))
           IN  rest # Mismatch /\ Abs(rest.amount) < PART

----------------------------------------------------------------------------
(* Properties of orders. *)

History == published \o events
Types == [i \in DOMAIN History |-> History[i].type]

\* The events tell an order's whole story: every change is announced once and in
\* order, however the events are pulled, and the total that was announced is the total
\* ever after; except that lines of two currencies place an order nobody hears of.
EventsTellTheStory ==
  /\ Types \in
       CASE status = "draft"     -> {<<>>}
         [] status = "placed"    -> IF OrderTotal(lines) = Mismatch THEN {<<>>} ELSE {<<"OrderPlaced">>}
         [] status = "cancelled" -> {<<"OrderCancelled">>, <<"OrderPlaced", "OrderCancelled">>}
  /\ \A i \in DOMAIN History :
       History[i].type = "OrderPlaced" => History[i].total = OrderTotal(lines)
=============================================================================
