------------------------------- MODULE Amounts -------------------------------
(***************************************************************************)
(* What the lines of an invoice or of an order add up to, in the ways the  *)
(* repository computes it: models/invoice.py of the test app, totals.py of *)
(* the control app, order_domain.py of the pure-domain-layer skill and     *)
(* Money of the value-objects skill.                                       *)
(*                                                                         *)
(* The code computes with exact Decimals and rounds at stated places.      *)
(* Here an amount is an integer that counts cents or a fixed part of one,  *)
(* small enough to keep every digit.                                       *)
(***************************************************************************)
EXTENDS Integers, Functions, Sequences

RATE == 10000     \* tax rates have four decimals
QTY  == 100       \* quantities have two, in the control app
PART == 10        \* unit prices of an order are in tenths of a cent

\* Decimal.quantize with ROUND_HALF_UP: x counts parts, of which unit make one.
HalfUp(x, unit) ==
  IF x >= 0 THEN (2 * x + unit) \div (2 * unit) ELSE -((unit - 2 * x) \div (2 * unit))

\* int(): towards zero.
Truncated(x, unit) == IF x >= 0 THEN x \div unit ELSE -((-x) \div unit)

AddUp(amount(_), ls) == SumFunction([i \in DOMAIN ls |-> amount(ls[i])])

----------------------------------------------------------------------------
(* An invoice line: quantity in hundredths, price in cents, tax rate.      *)

PositiveQuantity(q) == q > 0
TaxRate(r) == r \in 0..RATE

\* InvoiceLineCreate of the control app; InvoiceLine.new of the test app asks for the same.
Valid(l) == PositiveQuantity(l.qty) /\ l.price >= 0 /\ TaxRate(l.rate)

\* In hundredths of a cent, and in 1 / (QTY * RATE) of a cent.
Net(l) == l.qty * l.price
Tax(l) == Net(l) * l.rate

(* The test app rounds each line. *)

LineSubtotal(l) == HalfUp(Net(l), QTY)

LineTax_Down(l) == Truncated(LineSubtotal(l) * l.rate, RATE)
LineTax(l) == HalfUp(LineSubtotal(l) * l.rate, RATE)

InvoiceTotals(ls) ==
  LET subtotal == AddUp(LineSubtotal, ls)
      tax == AddUp(LineTax, ls)
  IN  [subtotal |-> subtotal, tax |-> tax, total |-> subtotal + tax]

(* The control app rounds the sums, and each line for display. *)

LineRead(l) ==
  LET subtotal == HalfUp(Net(l), QTY)
      tax == HalfUp(Tax(l), QTY * RATE)
  IN  [subtotal |-> subtotal, tax |-> tax, total |-> subtotal + tax]

CalculatedTotals(ls) ==
  [subtotal |-> HalfUp(AddUp(Net, ls), QTY),
   tax      |-> HalfUp(AddUp(Tax, ls), QTY * RATE),
   total    |-> HalfUp(AddUp(Net, ls) * RATE + AddUp(Tax, ls), QTY * RATE)]

----------------------------------------------------------------------------
(* Money: an amount in parts of a cent, and a currency.                    *)

Raised(exception) == [raised |-> exception]
Mismatch == Raised("CurrencyMismatchException")

Money(amount, currency) == [amount |-> amount, currency |-> currency]

Upper(currency) == CASE currency = "usd" -> "USD" [] OTHER -> currency

\* The value object writes its currency in capitals, the domain's Money does not.
Normal(m) == Money(m.amount, Upper(m.currency))

Plus_AnyCurrency(a, b) == Money(a.amount + b.amount, a.currency)

Plus(a, b) ==
  IF a = Mismatch \/ b = Mismatch \/ a.currency # b.currency
  THEN Mismatch
  ELSE Money(a.amount + b.amount, a.currency)

Neg(m) == Money(-m.amount, m.currency)
Minus(a, b) == Plus(a, Neg(b))
FromCents(cents, currency) == Normal(Money(cents * PART, currency))

ToCents_Floor(m) == m.amount \div PART
ToCents(m) == Truncated(m.amount, PART)

\* An order line's price is a Money; prices below zero do not exist.
Subtotal(l) == Money(l.price.amount * l.qty, l.price.currency)

\* Order.total: the lines' subtotals added from the first on; none is 0 USD.
RunningTotal(ls, subtotal(_)) ==
  LET total[n \in 1..Len(ls)] ==
        IF n = 1 THEN subtotal(ls[1]) ELSE Plus(total[n - 1], subtotal(ls[n]))
  IN  IF ls = <<>> THEN Money(0, "USD") ELSE total[Len(ls)]

OrderTotal(ls) == RunningTotal(ls, Subtotal)

\* The same lines with the value object's Money.
NormalTotal(ls) == RunningTotal(ls, LAMBDA l : Normal(Subtotal(l)))
=============================================================================
