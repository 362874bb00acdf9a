-------------------------- MODULE DocumentsProofs --------------------------
(***************************************************************************)
(* Theorems about Documents, for any lines a client may send and any       *)
(* number of them: the totals are recursive functions of the lines, so     *)
(* what they compute is shown by induction on the number of lines.  The    *)
(* induction is on a set of numbers, which is first-order.                 *)
(***************************************************************************)
EXTENDS Documents, FiniteSetTheorems, SequenceTheorems, WellFoundedInduction, TLAPS

\* Induction: a set with 0 and the successor of each number it has has them all.
LEMMA SetInduction ==
  ASSUME NEW S, 0 \in S, \A n \in Nat : n \in S => n + 1 \in S
  PROVE  \A n \in Nat : n \in S
<1> DEFINE T == Nat \ S
<1>1. SUFFICES ASSUME T # {} PROVE FALSE
  OBVIOUS
<1>2. \E x \in T : \A y \in T : ~(<<y, x>> \in OpToRel(<, Nat))
  <2>1. T \subseteq Nat
    OBVIOUS
  <2> HIDE DEF T
  <2> QED
    BY <1>1, <2>1, NatLessThanWellFounded, WFMin
<1>3. PICK x \in T : \A y \in T : ~(y < x)
  BY <1>2 DEF OpToRel
<1>4. x # 0 /\ x - 1 \in Nat /\ x - 1 < x
  OBVIOUS
<1> QED
  BY <1>3, <1>4

----------------------------------------------------------------------------
(* RunningTotal: the recursive function exists, and it is what Order.total *)
(* sums up.                                                                *)

Runs(f, a, n) == f = [k \in 1..n |-> IF k = 1 THEN a[1] ELSE Plus(f[k - 1], a[k])]

LEMMA RunExists ==
  ASSUME NEW a, NEW N \in Nat
  PROVE  \E f : Runs(f, a, N)
<1> DEFINE S == {n \in Nat : \E f : Runs(f, a, n)}
<1>1. 0 \in S
  <2>1. Runs([k \in 1..0 |-> 0], a, 0)
    BY DEF Runs
  <2> QED
    BY <2>1
<1>2. ASSUME NEW n \in Nat, n \in S PROVE n + 1 \in S
  <2>1. PICK f : Runs(f, a, n)
    BY <1>2
  <2> DEFINE g == [k \in 1..(n + 1) |-> IF k = 1 THEN a[1] ELSE Plus(f[k - 1], a[k])]
  <2>2. \A k \in 1..n : g[k] = f[k]
    BY <2>1 DEF Runs
  <2>3. \A k \in 1..(n + 1) : k # 1 => k - 1 \in 1..n
    OBVIOUS
  <2>4. \A k \in 1..(n + 1) : k # 1 => g[k - 1] = f[k - 1]
    BY <2>2, <2>3
  <2>5. g = [k \in 1..(n + 1) |-> IF k = 1 THEN a[1] ELSE Plus(g[k - 1], a[k])]
    BY <2>4
  <2>6. Runs(g, a, n + 1)
    BY <2>5 DEF Runs
  <2> HIDE DEF g
  <2> QED
    BY <2>6
<1> HIDE DEF S
<1>3. N \in S
  BY <1>1, <1>2, SetInduction
<1> QED
  BY <1>3 DEF S

\* What an order's lines come to, and with the value object's Money.
Subtotals(ls) == [k \in 1..Len(ls) |-> Subtotal(ls[k])]
Normals(ls)   == [k \in 1..Len(ls) |-> Normal(Subtotal(ls[k]))]

LEMMA TotalForm ==
  ASSUME NEW ls, Len(ls) \in Nat \ {0}
  PROVE  /\ \E f : Runs(f, Subtotals(ls), Len(ls)) /\ OrderTotal(ls) = f[Len(ls)]
         /\ \E f : Runs(f, Normals(ls), Len(ls)) /\ NormalTotal(ls) = f[Len(ls)]
<1> DEFINE N == Len(ls)
<1>0. ls # <<>> /\ N \in Nat /\ 1 \in 1..N
  OBVIOUS
<1>1. \E f : Runs(f, Subtotals(ls), N) /\ OrderTotal(ls) = f[N]
  <2> DEFINE R(f) == f = [k \in 1..N |-> IF k = 1 THEN Subtotal(ls[1])
                                         ELSE Plus(f[k - 1], Subtotal(ls[k]))]
             F == CHOOSE f : R(f)
  <2>1. \A f : Runs(f, Subtotals(ls), N) <=> R(f)
    BY <1>0 DEF Runs, Subtotals
  <2>2. R(F)
    BY <1>0, <2>1, RunExists
  <2>3. OrderTotal(ls) = F[N]
    BY <1>0 DEF OrderTotal, RunningTotal
  <2> HIDE DEF R, F
  <2> QED
    BY <2>1, <2>2, <2>3
<1>2. \E f : Runs(f, Normals(ls), N) /\ NormalTotal(ls) = f[N]
  <2> DEFINE R(f) == f = [k \in 1..N |-> IF k = 1 THEN Normal(Subtotal(ls[1]))
                                         ELSE Plus(f[k - 1], Normal(Subtotal(ls[k])))]
             F == CHOOSE f : R(f)
  <2>1. \A f : Runs(f, Normals(ls), N) <=> R(f)
    BY <1>0 DEF Runs, Normals
  <2>2. R(F)
    BY <1>0, <2>1, RunExists
  <2>3. NormalTotal(ls) = F[N]
    BY <1>0 DEF NormalTotal, RunningTotal
  <2> HIDE DEF R, F
  <2> QED
    BY <2>1, <2>2, <2>3
<1> QED
  BY <1>1, <1>2

----------------------------------------------------------------------------
(* What a running total is, for any amounts in currencies C. *)

AmountsIn(C) == [amount : Int, currency : C]

LEMMA MoneyIsAmount ==
  ASSUME NEW C, NEW x \in Int, NEW c \in C
  PROVE  /\ Money(x, c) \in AmountsIn(C)
         /\ Money(x, c).amount = x /\ Money(x, c).currency = c
  BY DEF Money, AmountsIn

LEMMA AmountIsNoMismatch == \A C : Mismatch \notin AmountsIn(C)
  BY DEF Mismatch, Raised, AmountsIn

\* The sum of two amounts of one currency is an amount of it.
LEMMA PlusForm ==
  ASSUME NEW C, NEW x \in AmountsIn(C) \cup {Mismatch}, NEW y \in AmountsIn(C)
  PROVE  /\ Plus(x, y) \in AmountsIn(C) \cup {Mismatch}
         /\ Plus(x, y) # Mismatch <=> x # Mismatch /\ x.currency = y.currency
         /\ Plus(x, y) # Mismatch =>
              /\ Plus(x, y).amount = x.amount + y.amount
              /\ Plus(x, y).currency = y.currency
<1>1. y # Mismatch
  BY AmountIsNoMismatch
<1>2. CASE x = Mismatch \/ x.currency # y.currency
  BY <1>1, <1>2 DEF Plus
<1>3. CASE x # Mismatch /\ x.currency = y.currency
  <2>1. Plus(x, y) = Money(x.amount + y.amount, y.currency)
    BY <1>1, <1>3 DEF Plus
  <2>2. x.amount + y.amount \in Int /\ y.currency \in C
    BY <1>3 DEF AmountsIn
  <2> QED
    BY <1>3, <2>1, <2>2, MoneyIsAmount, AmountIsNoMismatch
<1> QED
  BY <1>2, <1>3

\* A running total is an amount of the one currency of everything it added up.
LEMMA RunAddsUp ==
  ASSUME NEW C, NEW a, NEW N \in Nat \ {0}, \A k \in 1..N : a[k] \in AmountsIn(C),
         NEW f, Runs(f, a, N)
  PROVE  /\ f[N] \in AmountsIn(C) \cup {Mismatch}
         /\ f[N] # Mismatch => \A k \in 1..N : a[k].currency = f[N].currency
<1> DEFINE Good(n) == /\ f[n] \in AmountsIn(C) \cup {Mismatch}
                      /\ f[n] # Mismatch => \A k \in 1..n : a[k].currency = f[n].currency
           S == {n \in Nat : n \in 1..N => Good(n)}
<1>0. ASSUME NEW x \in AmountsIn(C) \cup {Mismatch}, NEW y \in AmountsIn(C)
      PROVE  /\ Plus(x, y) \in AmountsIn(C) \cup {Mismatch}
             /\ Plus(x, y) # Mismatch => /\ x # Mismatch /\ x.currency = y.currency
                                        /\ Plus(x, y).currency = y.currency
  <2>1. Plus(x, y) # Mismatch => x # Mismatch /\ x.currency = y.currency
    BY PlusForm
  <2>2. Plus(x, y) # Mismatch => Plus(x, y).currency = y.currency
    BY PlusForm
  <2>3. Plus(x, y) \in AmountsIn(C) \cup {Mismatch}
    BY PlusForm
  <2> QED
    BY <2>1, <2>2, <2>3
<1>1. 0 \in S
  OBVIOUS
<1>2. ASSUME NEW n \in Nat, n \in S PROVE n + 1 \in S
  <2>1. SUFFICES ASSUME n + 1 \in 1..N PROVE Good(n + 1)
    OBVIOUS
  <2>2. a[n + 1] \in AmountsIn(C)
    BY <2>1
  <2>3. CASE n = 0
    BY <2>1, <2>2, <2>3 DEF Runs
  <2>4. CASE n # 0
    <3>1. /\ n \in 1..N /\ f[n] \in AmountsIn(C) \cup {Mismatch}
          /\ f[n] # Mismatch => \A k \in 1..n : a[k].currency = f[n].currency
      BY <1>2, <2>1, <2>4
    <3>2. f[n + 1] = Plus(f[n], a[n + 1]) /\ f[n] \in AmountsIn(C) \cup {Mismatch}
      BY <2>1, <2>4, <3>1 DEF Runs
    <3>3. /\ f[n + 1] \in AmountsIn(C) \cup {Mismatch}
          /\ f[n + 1] # Mismatch => /\ f[n] # Mismatch /\ f[n].currency = a[n + 1].currency
                                   /\ f[n + 1].currency = a[n + 1].currency
      BY <1>0, <2>2, <3>2
    <3>4. ASSUME f[n + 1] # Mismatch, NEW k \in 1..(n + 1)
          PROVE  a[k].currency = f[n + 1].currency
      <4>1. /\ f[n] # Mismatch /\ f[n].currency = a[n + 1].currency
            /\ f[n + 1].currency = a[n + 1].currency
        BY <3>3, <3>4
      <4>2. k = n + 1 \/ k \in 1..n
        OBVIOUS
      <4> QED
        BY <3>1, <4>1, <4>2
    <3> QED
      BY <3>3, <3>4
  <2> QED
    BY <2>3, <2>4
<1> HIDE DEF S
<1>3. N \in S
  BY <1>1, <1>2, SetInduction
<1> QED
  BY <1>3 DEF S

\* Where amounts add up as they are, they add up in capitals.
LEMMA RunNormalises ==
  ASSUME NEW C, NEW a, NEW N \in Nat \ {0}, \A k \in 1..N : a[k] \in AmountsIn(C),
         NEW b, \A k \in 1..N : b[k] = Normal(a[k]),
         NEW f, Runs(f, a, N), NEW g, Runs(g, b, N)
  PROVE  f[N] # Mismatch => g[N] = Normal(f[N])
<1> DEFINE D == {Upper(c) : c \in C}
           S == {n \in Nat : n \in 1..N =>
                   /\ f[n] \in AmountsIn(C) \cup {Mismatch}
                   /\ f[n] # Mismatch => g[n] = Normal(f[n])}
<1>0. ASSUME NEW x \in AmountsIn(C)
      PROVE  /\ Normal(x) \in AmountsIn(D)
             /\ Normal(x).amount = x.amount /\ Normal(x).currency = Upper(x.currency)
  <2>1. x.amount \in Int /\ Upper(x.currency) \in D
    BY DEF AmountsIn
  <2> HIDE DEF D
  <2> QED
    BY <2>1, MoneyIsAmount DEF Normal
<1>p. \A x \in AmountsIn(C) \cup {Mismatch} : \A y \in AmountsIn(C) :
        /\ Plus(x, y) \in AmountsIn(C) \cup {Mismatch}
        /\ Plus(x, y) # Mismatch => /\ x # Mismatch /\ x.currency = y.currency
                                   /\ Plus(x, y).amount = x.amount + y.amount
                                   /\ Plus(x, y).currency = y.currency
  BY PlusForm
<1>1. 0 \in S
  OBVIOUS
<1>2. ASSUME NEW n \in Nat, n \in S PROVE n + 1 \in S
  <2>1. SUFFICES ASSUME n + 1 \in 1..N
                 PROVE  /\ f[n + 1] \in AmountsIn(C) \cup {Mismatch}
                        /\ f[n + 1] # Mismatch => g[n + 1] = Normal(f[n + 1])
    OBVIOUS
  <2>2. a[n + 1] \in AmountsIn(C) /\ b[n + 1] = Normal(a[n + 1])
    BY <2>1
  <2>3. CASE n = 0
    BY <2>1, <2>2, <2>3 DEF Runs
  <2>4. CASE n # 0
    <3>1. /\ n \in 1..N /\ f[n] \in AmountsIn(C) \cup {Mismatch}
          /\ f[n] # Mismatch => g[n] = Normal(f[n])
      BY <1>2, <2>1, <2>4
    <3>2. f[n + 1] = Plus(f[n], a[n + 1]) /\ g[n + 1] = Plus(g[n], b[n + 1])
      BY <2>1, <2>4 DEF Runs
    <3>3. f[n + 1] \in AmountsIn(C) \cup {Mismatch}
      BY <1>p, <2>2, <3>1, <3>2
    <3>4. ASSUME f[n + 1] # Mismatch PROVE g[n + 1] = Normal(f[n + 1])
      <4>1. /\ f[n] \in AmountsIn(C) /\ f[n].currency = a[n + 1].currency
            /\ f[n + 1].amount = f[n].amount + a[n + 1].amount
            /\ f[n + 1].currency = a[n + 1].currency
        BY <1>p, <2>2, <3>1, <3>2, <3>4
      <4>2. g[n + 1] = Plus(Normal(f[n]), Normal(a[n + 1]))
        BY <2>2, <3>1, <3>2, <4>1, AmountIsNoMismatch
      <4>3. /\ Normal(f[n]) # Mismatch /\ Normal(a[n + 1]) # Mismatch
            /\ Normal(f[n]).currency = Normal(a[n + 1]).currency
        BY <1>0, <2>2, <4>1, AmountIsNoMismatch
      <4>4. g[n + 1] = Money(Normal(f[n]).amount + Normal(a[n + 1]).amount, Normal(f[n]).currency)
        BY <4>2, <4>3 DEF Plus
      <4> QED
        BY <1>0, <2>2, <4>1, <4>4 DEF Normal
    <3> QED
      BY <3>3, <3>4
  <2> QED
    BY <2>3, <2>4
<1> HIDE DEF S
<1>3. N \in S
  BY <1>1, <1>2, SetInduction
<1> QED
  BY <1>3 DEF S

----------------------------------------------------------------------------
(* What the total of an order is. *)

Capitals == {"USD", "EUR"}

LEMMA LineAmounts ==
  ASSUME NEW l \in OrderLines
  PROVE  /\ Subtotal(l) \in AmountsIn(Currency)
         /\ Subtotal(l).currency = l.price.currency
         /\ Normal(Subtotal(l)) \in AmountsIn(Capitals)
         /\ Normal(Subtotal(l)).currency = Upper(l.price.currency)
<1>1. /\ l.qty \in Int /\ l.price.amount \in Int /\ l.price.currency \in Currency
  BY LinesAssumption
<1>2. l.price.amount * l.qty \in Int
  BY <1>1
<1>3. /\ Subtotal(l) \in AmountsIn(Currency)
      /\ Subtotal(l).currency = l.price.currency
      /\ Subtotal(l).amount \in Int
  <2> DEFINE x == l.price.amount * l.qty
             c == l.price.currency
  <2>1. Subtotal(l) = Money(x, c) /\ x \in Int /\ c \in Currency
    BY <1>1, <1>2 DEF Subtotal
  <2> HIDE DEF x
  <2> QED
    BY <2>1, MoneyIsAmount
<1>4. Upper(l.price.currency) \in Capitals
  BY <1>1 DEF Upper, Currency, Capitals
<1> QED
  BY <1>3, <1>4, MoneyIsAmount DEF Normal

LEMMA OrderTotals ==
  ASSUME NEW ls \in Seq(OrderLines), ls # <<>>
  PROVE  /\ OrderTotal(ls) \in AmountsIn(Currency) \cup {Mismatch}
         /\ OrderTotal(ls) # Mismatch =>
              \A i \in DOMAIN ls : ls[i].price.currency = OrderTotal(ls).currency
         /\ NormalTotal(ls) \in AmountsIn(Capitals) \cup {Mismatch}
         /\ NormalTotal(ls) # Mismatch =>
              \A i \in DOMAIN ls : Upper(ls[i].price.currency) = NormalTotal(ls).currency
         /\ OrderTotal(ls) # Mismatch => NormalTotal(ls) = Normal(OrderTotal(ls))
<1> DEFINE N == Len(ls)
           a == Subtotals(ls)
           b == Normals(ls)
<1>1. N \in Nat \ {0} /\ DOMAIN ls = 1..N /\ \A k \in 1..N : ls[k] \in OrderLines
  OBVIOUS
<1>2. \A k \in 1..N : /\ a[k] \in AmountsIn(Currency) /\ a[k].currency = ls[k].price.currency
                      /\ b[k] \in AmountsIn(Capitals) /\ b[k].currency = Upper(ls[k].price.currency)
                      /\ b[k] = Normal(a[k])
  BY <1>1, LineAmounts DEF Subtotals, Normals
<1>3. PICK f : Runs(f, a, N) /\ OrderTotal(ls) = f[N]
  BY <1>1, TotalForm
<1>4. PICK g : Runs(g, b, N) /\ NormalTotal(ls) = g[N]
  BY <1>1, TotalForm
<1> HIDE DEF a, b, N
<1>a. \A k \in 1..N : a[k] \in AmountsIn(Currency)
  BY <1>2
<1>b. \A k \in 1..N : b[k] \in AmountsIn(Capitals)
  BY <1>2
<1>c. \A k \in 1..N : b[k] = Normal(a[k])
  BY <1>2
<1>d. N \in Nat \ {0}
  BY <1>1
<1>5. /\ f[N] \in AmountsIn(Currency) \cup {Mismatch}
      /\ f[N] # Mismatch => \A k \in 1..N : a[k].currency = f[N].currency
  BY <1>a, <1>d, <1>3, RunAddsUp
<1>6. /\ g[N] \in AmountsIn(Capitals) \cup {Mismatch}
      /\ g[N] # Mismatch => \A k \in 1..N : b[k].currency = g[N].currency
  BY <1>b, <1>d, <1>4, RunAddsUp
<1>7. f[N] # Mismatch => g[N] = Normal(f[N])
  BY <1>a, <1>c, <1>d, <1>3, <1>4, RunNormalises
<1> QED
  BY <1>1, <1>2, <1>3, <1>4, <1>5, <1>6, <1>7

----------------------------------------------------------------------------
(* Whole cents. *)

\* Rounding towards zero loses less than a part, and as much of -x as of x.
LEMMA TruncatedForm ==
  ASSUME NEW x \in Int
  PROVE  /\ Truncated(x, PART) \in Int
         /\ Truncated(-x, PART) = -Truncated(x, PART)
         /\ x - PART * Truncated(x, PART) < PART
         /\ -PART < x - PART * Truncated(x, PART)
  BY DEF Truncated, PART

LEMMA NegForm ==
  ASSUME NEW C, NEW m \in AmountsIn(C)
  PROVE  /\ Neg(m) \in AmountsIn(C)
         /\ Neg(m).amount = -m.amount /\ Neg(m).currency = m.currency
<1> DEFINE x == -m.amount
           c == m.currency
<1>1. Neg(m) = Money(x, c) /\ x \in Int /\ c \in C
  BY DEF Neg, AmountsIn
<1> HIDE DEF x, c
<1>2. Money(x, c) \in AmountsIn(C) /\ Money(x, c).amount = x /\ Money(x, c).currency = c
  BY <1>1, MoneyIsAmount
<1> QED
  BY <1>1, <1>2 DEF x, c

\* A refund of the negated amount pays back what was charged.
LEMMA CentsForm ==
  ASSUME NEW m \in AmountsIn(Capitals)
  PROVE  /\ ToCents(Neg(m)) = -ToCents(m)
         /\ LET rest == Minus(m, FromCents(ToCents(m), m.currency))
            IN  rest # Mismatch /\ Abs(rest.amount) < PART
<1> DEFINE x == m.amount
           c == ToCents(m)
           back == FromCents(c, m.currency)
           rest == Minus(m, back)
<1>1. x \in Int /\ m.currency \in Capitals
  BY DEF AmountsIn
<1>2. c = Truncated(x, PART) /\ ToCents(Neg(m)) = Truncated(-x, PART)
  BY NegForm DEF ToCents
<1>3. Upper(m.currency) = m.currency
  BY <1>1 DEF Upper, Capitals
<1>4. c \in Int /\ c * PART \in Int
  <2>1. c \in Int
    BY <1>1, <1>2, TruncatedForm
  <2> HIDE DEF c
  <2> QED
    BY <2>1 DEF PART
<1>5. back.amount = c * PART /\ back.currency = m.currency /\ back \in AmountsIn(Capitals)
  <2> DEFINE y == c * PART
             d == m.currency
  <2>1. back = Normal(Money(y, d)) /\ y \in Int /\ d \in Capitals /\ Upper(d) = d
    BY <1>1, <1>3, <1>4 DEF FromCents
  <2> HIDE DEF c, y, d, back
  <2>2. Money(y, d) \in AmountsIn(Capitals) /\ Money(y, d).amount = y /\ Money(y, d).currency = d
    BY <2>1, MoneyIsAmount
  <2>3. back = Money(y, d)
    BY <2>1, <2>2 DEF Normal
  <2> QED
    BY <2>2, <2>3 DEF y, d
<1> HIDE DEF c, back
<1>6. /\ Neg(back).amount = -(c * PART) /\ Neg(back).currency = m.currency
      /\ Neg(back) \in AmountsIn(Capitals)
  BY <1>5, NegForm
<1>7. rest # Mismatch /\ rest.amount = x + -(c * PART)
  <2> DEFINE y == Neg(back)
  <2>1. y \in AmountsIn(Capitals) /\ m # Mismatch /\ m.currency = y.currency /\ rest = Plus(m, y)
    BY <1>6, AmountIsNoMismatch DEF Minus
  <2> HIDE DEF y, rest
  <2>2. rest # Mismatch /\ rest.amount = m.amount + y.amount
    BY <2>1, PlusForm
  <2> QED
    BY <1>6, <2>2 DEF y
<1>8. \A r, y, d \in Int : r = y + -(d * PART) /\ y - PART * d < PART /\ -PART < y - PART * d
                            => Abs(r) < PART
  BY DEF Abs, PART
<1> HIDE DEF x, rest
<1>9. x + -(c * PART) \in Int
  BY <1>1, <1>4
<1>10. Abs(rest.amount) < PART
  BY <1>1, <1>2, <1>4, <1>7, <1>8, <1>9, TruncatedForm
<1> QED
  BY <1>1, <1>2, <1>7, <1>10, TruncatedForm DEF rest, back, c

----------------------------------------------------------------------------
(* Sums: SumFunction takes the indices out one by one, whichever it picks. *)

First(s) == CHOOSE x \in s : TRUE
Sums(it, fun, D) == it = [s \in D |-> IF s = {} THEN 0 ELSE fun[First(s)] + it[s \ {First(s)}]]

\* Induction over the subsets of a finite set, by the element that is picked.
LEMMA SubsetInduction ==
  ASSUME NEW D, IsFiniteSet(D), NEW T, {} \in T,
         \A s \in SUBSET D : s # {} /\ s \ {First(s)} \in T => s \in T
  PROVE  \A s \in SUBSET D : s \in T
<1> DEFINE S == {n \in Nat : \A s \in SUBSET D : Cardinality(s) = n => s \in T}
<1>0. \A s \in SUBSET D : IsFiniteSet(s) /\ Cardinality(s) \in Nat
  BY FS_Subset, FS_CardinalityType
<1>1. 0 \in S
  BY <1>0, FS_EmptySet
<1>2. ASSUME NEW n \in Nat, n \in S PROVE n + 1 \in S
  <2>1. SUFFICES ASSUME NEW s \in SUBSET D, Cardinality(s) = n + 1 PROVE s \in T
    OBVIOUS
  <2>2. s # {}
    BY <2>1, FS_EmptySet
  <2>3. First(s) \in s
    BY <2>2 DEF First
  <2>4. Cardinality(s \ {First(s)}) = n
    BY <1>0, <2>1, <2>3, FS_RemoveElement
  <2>5. s \ {First(s)} \in T
    BY <1>2, <2>4
  <2> QED
    BY <2>2, <2>5
<1> HIDE DEF S
<1>3. \A n \in Nat : n \in S
  BY <1>1, <1>2, SetInduction
<1> QED
  BY <1>0, <1>3 DEF S

LEMMA SumExists ==
  ASSUME NEW D, IsFiniteSet(D), NEW fun
  PROVE  \E it : Sums(it, fun, SUBSET D)
<1> DEFINE Small(n) == {s \in SUBSET D : Cardinality(s) <= n}
           S == {n \in Nat : \E it : Sums(it, fun, Small(n))}
<1>0. \A s \in SUBSET D : IsFiniteSet(s) /\ Cardinality(s) \in Nat /\ Cardinality(s) <= Cardinality(D)
  BY FS_Subset, FS_CardinalityType
<1>1. 0 \in S
  <2>1. \A s \in Small(0) : s = {}
    BY <1>0, FS_EmptySet
  <2>2. Sums([s \in Small(0) |-> 0], fun, Small(0))
    BY <2>1 DEF Sums
  <2> QED
    BY <2>2
<1>2. ASSUME NEW n \in Nat, n \in S PROVE n + 1 \in S
  <2>1. PICK it : Sums(it, fun, Small(n))
    BY <1>2
  <2> DEFINE jt == [s \in Small(n + 1) |->
                      IF s = {} THEN 0 ELSE fun[First(s)] + it[s \ {First(s)}]]
  <2>2. \A s \in Small(n) : s \in Small(n + 1) /\ jt[s] = it[s]
    <3>1. \A s \in Small(n) : s \in Small(n + 1)
      BY <1>0
    <3> QED
      BY <2>1, <3>1 DEF Sums
  <2>3. ASSUME NEW s \in Small(n + 1), s # {} PROVE s \ {First(s)} \in Small(n)
    <3>1. First(s) \in s
      BY <2>3 DEF First
    <3>2. Cardinality(s \ {First(s)}) = Cardinality(s) - 1
      BY <1>0, <3>1, FS_RemoveElement
    <3> QED
      BY <1>0, <3>2
  <2>4. \A s \in Small(n + 1) : s # {} => jt[s \ {First(s)}] = it[s \ {First(s)}]
    BY <2>2, <2>3
  <2>5. Sums(jt, fun, Small(n + 1))
    <3>1. \A s \in Small(n + 1) : jt[s] = IF s = {} THEN 0 ELSE fun[First(s)] + jt[s \ {First(s)}]
      BY <2>4
    <3> QED
      BY <3>1 DEF Sums
  <2> HIDE DEF jt, Small
  <2> QED
    BY <2>5
<1> HIDE DEF S
<1>3. Cardinality(D) \in S
  BY <1>0, <1>1, <1>2, SetInduction
<1>4. Small(Cardinality(D)) = SUBSET D
  BY <1>0
<1> QED
  BY <1>3, <1>4 DEF S

LEMMA SumForm ==
  ASSUME NEW D, IsFiniteSet(D), NEW fun, DOMAIN fun = D
  PROVE  \E it : Sums(it, fun, SUBSET D) /\ SumFunction(fun) = it[D]
<1> DEFINE R(it) == it = [s \in SUBSET D |-> IF s = {} THEN 0
                           ELSE fun[CHOOSE x \in s : TRUE] + it[s \ {CHOOSE x \in s : TRUE}]]
           I == CHOOSE it : R(it)
<1>1. \A it : Sums(it, fun, SUBSET D) <=> R(it)
  BY DEF Sums, First
<1>2. R(I)
  <2> HIDE DEF R
  <2>1. \E it : R(it)
    BY <1>1, SumExists
  <2> QED
    BY <2>1
<1>3. SumFunction(fun) = I[D]
  BY DEF SumFunction, SumFunctionOnSet, FoldFunctionOnSet, MapThenFoldSet
<1> HIDE DEF R, I
<1> QED
  BY <1>1, <1>2, <1>3

----------------------------------------------------------------------------
(* What sums of integers are. *)

\* A sum of integers is one, and the sums of the parts are the parts of the sum.
LEMMA SumOfInts ==
  ASSUME NEW D, IsFiniteSet(D), NEW f \in [D -> Int]
  PROVE  SumFunction(f) \in Int
<1>1. PICK it : Sums(it, f, SUBSET D) /\ SumFunction(f) = it[D]
  BY SumForm
<1> DEFINE T == {s \in SUBSET D : it[s] \in Int}
<1>2. {} \in T
  BY <1>1 DEF Sums
<1>3. ASSUME NEW s \in SUBSET D, s # {}, s \ {First(s)} \in T PROVE s \in T
  <2>1. First(s) \in s
    BY <1>3 DEF First
  <2>2. it[s] = f[First(s)] + it[s \ {First(s)}]
    BY <1>1, <1>3 DEF Sums
  <2> QED
    BY <1>3, <2>1, <2>2
<1> HIDE DEF T
<1>4. D \in T
  BY <1>2, <1>3, SubsetInduction
<1> QED
  BY <1>1, <1>4 DEF T

LEMMA SumAdds ==
  ASSUME NEW D, IsFiniteSet(D), NEW f \in [D -> Int], NEW g \in [D -> Int]
  PROVE  SumFunction([i \in D |-> f[i] + g[i]]) = SumFunction(f) + SumFunction(g)
<1> DEFINE h == [i \in D |-> f[i] + g[i]]
<1>0. DOMAIN h = D /\ \A i \in D : h[i] = f[i] + g[i]
  OBVIOUS
<1> HIDE DEF h
<1>1. PICK F : Sums(F, f, SUBSET D) /\ SumFunction(f) = F[D]
  BY SumForm
<1>2. PICK G : Sums(G, g, SUBSET D) /\ SumFunction(g) = G[D]
  BY SumForm
<1>3. PICK H : Sums(H, h, SUBSET D) /\ SumFunction(h) = H[D]
  BY <1>0, SumForm
<1> DEFINE T == {s \in SUBSET D : F[s] \in Int /\ G[s] \in Int /\ H[s] = F[s] + G[s]}
<1>4. {} \in T
  BY <1>1, <1>2, <1>3 DEF Sums
<1>5. ASSUME NEW s \in SUBSET D, s # {}, s \ {First(s)} \in T PROVE s \in T
  <2>1. First(s) \in D
    BY <1>5 DEF First
  <2>2. /\ F[s] = f[First(s)] + F[s \ {First(s)}]
        /\ G[s] = g[First(s)] + G[s \ {First(s)}]
        /\ H[s] = h[First(s)] + H[s \ {First(s)}]
    BY <1>1, <1>2, <1>3, <1>5 DEF Sums
  <2> QED
    BY <1>0, <1>5, <2>1, <2>2
<1> HIDE DEF T
<1>6. D \in T
  BY <1>4, <1>5, SubsetInduction
<1> QED
  BY <1>1, <1>2, <1>3, <1>6 DEF T, h

\* 2 * (unit * a - (RATE * n + t)), what is lost by rounding, doubled.
Drift(a, n, t) == 2 * (QTY * RATE * a - (RATE * n + t))

Within(x, c) == -c <= x /\ x <= c

\* Rounding loses no more on the sum than on the lines together.
LEMMA SumDrifts ==
  ASSUME NEW D, IsFiniteSet(D), NEW a \in [D -> Int], NEW n \in [D -> Int],
         NEW t \in [D -> Int], NEW c \in Nat,
         \A i \in D : Within(Drift(a[i], n[i], t[i]), c)
  PROVE  Within(Drift(SumFunction(a), SumFunction(n), SumFunction(t)), c * Cardinality(D))
<1>1. PICK A : Sums(A, a, SUBSET D) /\ SumFunction(a) = A[D]
  BY SumForm
<1>2. PICK N : Sums(N, n, SUBSET D) /\ SumFunction(n) = N[D]
  BY SumForm
<1>3. PICK X : Sums(X, t, SUBSET D) /\ SumFunction(t) = X[D]
  BY SumForm
<1> DEFINE T == {s \in SUBSET D : /\ A[s] \in Int /\ N[s] \in Int /\ X[s] \in Int
                                 /\ Within(Drift(A[s], N[s], X[s]), c * Cardinality(s))}
<1>4. {} \in T
  <2>1. A[{}] = 0 /\ N[{}] = 0 /\ X[{}] = 0 /\ c * Cardinality({}) = 0
    BY <1>1, <1>2, <1>3, FS_EmptySet DEF Sums
  <2> QED
    BY <2>1 DEF Within, Drift, QTY, RATE
<1>5. ASSUME NEW s \in SUBSET D, s # {}, s \ {First(s)} \in T PROVE s \in T
  <2> DEFINE i == First(s)
             r == s \ {i}
             k == Cardinality(r)
  <2>1. i \in s /\ i \in D
    BY <1>5 DEF First
  <2>2. A[s] = a[i] + A[r] /\ N[s] = n[i] + N[r] /\ X[s] = t[i] + X[r]
    BY <1>1, <1>2, <1>3, <1>5 DEF Sums
  <2>3. k \in Nat /\ Cardinality(s) = k + 1
    BY <2>1, FS_Subset, FS_CardinalityType, FS_RemoveElement
  <2>4. c * Cardinality(s) = c * k + c /\ c * k \in Int
    BY <2>3
  <2>5. /\ A[r] \in Int /\ N[r] \in Int /\ X[r] \in Int
        /\ Within(Drift(A[r], N[r], X[r]), c * k)
    BY <1>5
  <2>6. a[i] \in Int /\ n[i] \in Int /\ t[i] \in Int /\ Within(Drift(a[i], n[i], t[i]), c)
    BY <2>1
  <2>7. \A x1, y1, z1, x2, y2, z2, d \in Int :
          Within(Drift(x1, y1, z1), c) /\ Within(Drift(x2, y2, z2), d)
            => Within(Drift(x1 + x2, y1 + y2, z1 + z2), d + c)
    BY DEF Within, Drift, QTY, RATE
  <2> HIDE DEF i, r, k
  <2>8. Within(Drift(A[s], N[s], X[s]), c * Cardinality(s))
    BY <2>2, <2>4, <2>5, <2>6, <2>7
  <2> QED
    BY <2>2, <2>5, <2>6, <2>8
<1> HIDE DEF T
<1>6. D \in T
  BY <1>4, <1>5, SubsetInduction
<1> QED
  BY <1>1, <1>2, <1>3, <1>6 DEF T

----------------------------------------------------------------------------
(* Rounding of one line. *)

\* quantize loses at most half a unit, for each unit an invoice rounds to.
LEMMA HalfUpForm ==
  ASSUME NEW x \in Int
  PROVE  /\ HalfUp(x, QTY) \in Int /\ Within(2 * (QTY * HalfUp(x, QTY) - x), QTY)
         /\ HalfUp(x, RATE) \in Int /\ Within(2 * (RATE * HalfUp(x, RATE) - x), RATE)
         /\ HalfUp(x, QTY * RATE) \in Int
         /\ Within(2 * (QTY * RATE * HalfUp(x, QTY * RATE) - x), QTY * RATE)
<1>1. HalfUp(x, QTY) \in Int /\ Within(2 * (QTY * HalfUp(x, QTY) - x), QTY)
  BY DEF HalfUp, Within, QTY
<1>2. HalfUp(x, RATE) \in Int /\ Within(2 * (RATE * HalfUp(x, RATE) - x), RATE)
  BY DEF HalfUp, Within, RATE
<1>3. /\ HalfUp(x, QTY * RATE) \in Int
      /\ Within(2 * (QTY * RATE * HalfUp(x, QTY * RATE) - x), QTY * RATE)
  BY DEF HalfUp, Within, QTY, RATE
<1> QED
  BY <1>1, <1>2, <1>3

InvoiceLine == [qty : Int, price : Int, rate : Int]

LEMMA LineInts ==
  ASSUME NEW l \in InvoiceLine
  PROVE  Net(l) \in Int /\ Tax(l) \in Int
<1>1. l.qty \in Int /\ l.price \in Int /\ l.rate \in Int
  BY DEF InvoiceLine
<1>2. Net(l) \in Int
  BY <1>1 DEF Net
<1> QED
  BY <1>1, <1>2 DEF Tax

\* A line of the control app is at most a cent off, half for each of its two numbers.
LEMMA ReadDrifts ==
  ASSUME NEW l \in InvoiceLine
  PROVE  /\ LineRead(l).total \in Int
         /\ Within(Drift(LineRead(l).total, Net(l), Tax(l)), 2 * (QTY * RATE))
<1> DEFINE h1 == HalfUp(Net(l), QTY)
           h2 == HalfUp(Tax(l), QTY * RATE)
<1>1. LineRead(l).total = h1 + h2
  BY DEF LineRead
<1>2. /\ h1 \in Int /\ Within(2 * (QTY * h1 - Net(l)), QTY)
      /\ h2 \in Int /\ Within(2 * (QTY * RATE * h2 - Tax(l)), QTY * RATE)
  BY LineInts, HalfUpForm
<1>3. \A x, y, n, t \in Int :
        Within(2 * (QTY * x - n), QTY) /\ Within(2 * (QTY * RATE * y - t), QTY * RATE)
          => Within(Drift(x + y, n, t), 2 * (QTY * RATE))
  BY DEF Within, Drift, QTY, RATE
<1> HIDE DEF h1, h2
<1> QED
  BY <1>1, <1>2, <1>3, LineInts

\* One of the test app, with a whole quantity, is at most half a cent off.
LEMMA LineDrifts ==
  ASSUME NEW l \in InvoiceLine, l.qty % QTY = 0
  PROVE  /\ LineSubtotal(l) \in Int /\ LineTax(l) \in Int
         /\ Within(Drift(LineSubtotal(l) + LineTax(l), Net(l), Tax(l)), QTY * RATE)
<1> DEFINE q == l.qty \div QTY
           s == q * l.price
           w == s * l.rate
<1>1. l.qty \in Int /\ l.price \in Int /\ l.rate \in Int
  BY DEF InvoiceLine
<1>2. q \in Int /\ l.qty = QTY * q
  BY <1>1 DEF QTY
<1>3. s \in Int /\ w \in Int
  BY <1>1, <1>2
<1>4. Net(l) = QTY * s
  BY <1>1, <1>2 DEF Net, QTY
<1>5. Tax(l) = QTY * w
  BY <1>1, <1>3, <1>4 DEF Tax, QTY
<1>6. \A x \in Int : HalfUp(QTY * x, QTY) = x
  BY DEF HalfUp, QTY
<1> HIDE DEF s
<1>7. LineSubtotal(l) = s
  BY <1>3, <1>4, <1>6 DEF LineSubtotal
<1>8. LineTax(l) = HalfUp(w, RATE)
  BY <1>7 DEF LineTax
<1>9. HalfUp(w, RATE) \in Int /\ Within(2 * (RATE * HalfUp(w, RATE) - w), RATE)
  BY <1>3, HalfUpForm
<1>10. \A x, y, z \in Int : Within(2 * (RATE * y - z), RATE)
         => Within(Drift(x + y, QTY * x, QTY * z), QTY * RATE)
  BY DEF Within, Drift, QTY, RATE
<1> HIDE DEF w
<1> QED
  BY <1>3, <1>4, <1>5, <1>7, <1>8, <1>9, <1>10

----------------------------------------------------------------------------
(* The totals of an invoice. *)

Nets(ls)  == [i \in DOMAIN ls |-> Net(ls[i])]
Taxes(ls) == [i \in DOMAIN ls |-> Tax(ls[i])]
Reads(ls) == [i \in DOMAIN ls |-> LineRead(ls[i]).total]
Subs(ls)  == [i \in DOMAIN ls |-> LineSubtotal(ls[i])]
Rounds(ls) == [i \in DOMAIN ls |-> LineTax(ls[i])]

LEMMA TotalsAsSums ==
  ASSUME NEW ls
  PROVE  /\ AddUp(Net, ls) = SumFunction(Nets(ls))
         /\ AddUp(Tax, ls) = SumFunction(Taxes(ls))
         /\ AddUp(LAMBDA l : LineRead(l).total, ls) = SumFunction(Reads(ls))
         /\ AddUp(LineSubtotal, ls) = SumFunction(Subs(ls))
         /\ AddUp(LineTax, ls) = SumFunction(Rounds(ls))
  BY DEF AddUp, Nets, Taxes, Reads, Subs, Rounds

LEMMA DomainOfLines ==
  ASSUME NEW ls \in Seq(InvoiceLine)
  PROVE  /\ IsFiniteSet(DOMAIN ls) /\ Cardinality(DOMAIN ls) = Len(ls) /\ Len(ls) \in Nat
         /\ \A i \in DOMAIN ls : ls[i] \in InvoiceLine
         /\ Nets(ls) \in [DOMAIN ls -> Int] /\ Taxes(ls) \in [DOMAIN ls -> Int]
<1>1. DOMAIN ls = 1..Len(ls) /\ Len(ls) \in Nat /\ \A i \in DOMAIN ls : ls[i] \in InvoiceLine
  OBVIOUS
<1>2. IsFiniteSet(1..Len(ls)) /\ Cardinality(1..Len(ls)) = Len(ls)
  BY <1>1, FS_Interval
<1> QED
  BY <1>1, <1>2, LineInts DEF Nets, Taxes

\* How far the total of the control app is from what it shows, at most.
LEMMA ControlTotals ==
  ASSUME NEW ls \in Seq(InvoiceLine)
  PROVE  LET t == CalculatedTotals(ls)
         IN  /\ Abs(t.total - (t.subtotal + t.tax)) <= 1
             /\ 2 * Abs(t.total - AddUp(LAMBDA l : LineRead(l).total, ls)) <= 2 * Len(ls) + 1
<1> DEFINE N == AddUp(Net, ls)
           T == AddUp(Tax, ls)
           R == AddUp(LAMBDA l : LineRead(l).total, ls)
           c == CalculatedTotals(ls)
<1>1. N \in Int /\ T \in Int
  BY TotalsAsSums, DomainOfLines, SumOfInts
<1>2. R \in Int
  <2>1. Reads(ls) \in [DOMAIN ls -> Int]
    BY DomainOfLines, ReadDrifts DEF Reads
  <2> QED
    BY <2>1, TotalsAsSums, DomainOfLines, SumOfInts
<1>3. Within(Drift(R, N, T), 2 * (QTY * RATE) * Len(ls))
  <2>1. Reads(ls) \in [DOMAIN ls -> Int]
    BY DomainOfLines, ReadDrifts DEF Reads
  <2>2. \A i \in DOMAIN ls : Within(Drift(Reads(ls)[i], Nets(ls)[i], Taxes(ls)[i]), 2 * (QTY * RATE))
    BY DomainOfLines, ReadDrifts DEF Reads, Nets, Taxes
  <2>3. 2 * (QTY * RATE) \in Nat
    BY DEF QTY, RATE
  <2> DEFINE D == DOMAIN ls
             a == Reads(ls)
             n == Nets(ls)
             t == Taxes(ls)
             d == 2 * (QTY * RATE)
  <2>4. /\ IsFiniteSet(D) /\ a \in [D -> Int] /\ n \in [D -> Int] /\ t \in [D -> Int] /\ d \in Nat
        /\ \A i \in D : Within(Drift(a[i], n[i], t[i]), d)
    BY <2>1, <2>2, <2>3, DomainOfLines
  <2>5. Cardinality(D) = Len(ls)
    BY DomainOfLines
  <2>6. R = SumFunction(a) /\ N = SumFunction(n) /\ T = SumFunction(t)
    BY TotalsAsSums
  <2> HIDE DEF D, a, n, t, d, R, N, T
  <2>7. Within(Drift(SumFunction(a), SumFunction(n), SumFunction(t)), d * Cardinality(D))
    BY <2>4, SumDrifts
  <2> QED
    BY <2>5, <2>6, <2>7 DEF d
<1>4. c.subtotal = HalfUp(N, QTY) /\ c.tax = HalfUp(T, QTY * RATE) /\ c.total = HalfUp(N * RATE + T, QTY * RATE)
  BY DEF CalculatedTotals
<1> HIDE DEF N, T, R, c
<1>5. N * RATE + T \in Int
  BY <1>1 DEF RATE
<1>6. /\ c.subtotal \in Int /\ Within(2 * (QTY * c.subtotal - N), QTY)
      /\ c.tax \in Int /\ Within(2 * (QTY * RATE * c.tax - T), QTY * RATE)
      /\ c.total \in Int /\ Within(2 * (QTY * RATE * c.total - (N * RATE + T)), QTY * RATE)
  BY <1>1, <1>4, <1>5, HalfUpForm
<1>7. \A n, t, x, y, z \in Int :
        /\ Within(2 * (QTY * x - n), QTY)
        /\ Within(2 * (QTY * RATE * y - t), QTY * RATE)
        /\ Within(2 * (QTY * RATE * z - (n * RATE + t)), QTY * RATE)
        => Abs(z - (x + y)) <= 1
  BY DEF Within, Abs, QTY, RATE
<1>8. \A n, t, r, z \in Int, k \in Nat :
        /\ Within(Drift(r, n, t), 2 * (QTY * RATE) * k)
        /\ Within(2 * (QTY * RATE * z - (n * RATE + t)), QTY * RATE)
        => 2 * Abs(z - r) <= 2 * k + 1
  BY DEF Within, Drift, Abs, QTY, RATE
<1>9. Abs(c.total - (c.subtotal + c.tax)) <= 1
  BY <1>1, <1>6, <1>7
<1>10. 2 * Abs(c.total - R) <= 2 * Len(ls) + 1
  BY <1>1, <1>2, <1>3, <1>6, <1>8, DomainOfLines
<1> QED
  BY <1>9, <1>10 DEF c, R

\* How far apart the totals of the two apps are, at most.
LEMMA AppsTotals ==
  ASSUME NEW ls \in Seq(InvoiceLine), \A i \in DOMAIN ls : ls[i].qty % QTY = 0
  PROVE  2 * Abs(InvoiceTotals(ls).total - CalculatedTotals(ls).total) <= Len(ls) + 1
<1> DEFINE N == AddUp(Net, ls)
           T == AddUp(Tax, ls)
           s == AddUp(LineSubtotal, ls)
           x == AddUp(LineTax, ls)
           both == [i \in DOMAIN ls |-> Subs(ls)[i] + Rounds(ls)[i]]
           c == CalculatedTotals(ls).total
<1>0. N \in Int /\ T \in Int
  BY TotalsAsSums, DomainOfLines, SumOfInts
<1>1. /\ Subs(ls) \in [DOMAIN ls -> Int] /\ Rounds(ls) \in [DOMAIN ls -> Int]
      /\ both \in [DOMAIN ls -> Int]
  BY DomainOfLines, LineDrifts DEF Subs, Rounds
<1>2. s + x = SumFunction(both) /\ SumFunction(both) \in Int
  <2>2. SumFunction(both) = SumFunction(Subs(ls)) + SumFunction(Rounds(ls))
    <3> DEFINE D == DOMAIN ls
               f == Subs(ls)
               g == Rounds(ls)
    <3>1. /\ IsFiniteSet(D) /\ f \in [D -> Int] /\ g \in [D -> Int]
          /\ both = [i \in D |-> f[i] + g[i]]
      BY <1>1, DomainOfLines
    <3> HIDE DEF D, f, g, both
    <3>2. SumFunction(both) = SumFunction(f) + SumFunction(g)
      BY <3>1, SumAdds
    <3> QED
      BY <3>2 DEF f, g
  <2> HIDE DEF both
  <2> QED
    BY <1>1, <2>2, DomainOfLines, SumOfInts, TotalsAsSums
<1>3. Within(Drift(SumFunction(both), N, T), QTY * RATE * Len(ls))
  <2>1. \A i \in DOMAIN ls : Within(Drift(both[i], Nets(ls)[i], Taxes(ls)[i]), QTY * RATE)
    BY DomainOfLines, LineDrifts DEF Subs, Rounds, Nets, Taxes
  <2>2. QTY * RATE \in Nat
    BY DEF QTY, RATE
  <2> DEFINE D == DOMAIN ls
             n == Nets(ls)
             t == Taxes(ls)
             d == QTY * RATE
  <2> HIDE DEF both
  <2>3. /\ IsFiniteSet(D) /\ both \in [D -> Int] /\ n \in [D -> Int] /\ t \in [D -> Int] /\ d \in Nat
        /\ \A i \in D : Within(Drift(both[i], n[i], t[i]), d)
    BY <1>1, <2>1, <2>2, DomainOfLines
  <2>4. Cardinality(D) = Len(ls)
    BY DomainOfLines
  <2>5. N = SumFunction(n) /\ T = SumFunction(t)
    BY TotalsAsSums
  <2> HIDE DEF D, n, t, d, N, T
  <2>6. Within(Drift(SumFunction(both), SumFunction(n), SumFunction(t)), d * Cardinality(D))
    BY <2>3, SumDrifts
  <2> QED
    BY <2>4, <2>5, <2>6 DEF d
<1>4. InvoiceTotals(ls).total = s + x /\ c = HalfUp(N * RATE + T, QTY * RATE)
  BY DEF InvoiceTotals, CalculatedTotals
<1> HIDE DEF N, T, s, x, both, c
<1>5. N * RATE + T \in Int
  BY <1>0 DEF RATE
<1>6. c \in Int /\ Within(2 * (QTY * RATE * c - (N * RATE + T)), QTY * RATE)
  BY <1>4, <1>5, HalfUpForm
<1>7. \A n, t, r, z \in Int, k \in Nat :
        /\ Within(Drift(r, n, t), QTY * RATE * k)
        /\ Within(2 * (QTY * RATE * z - (n * RATE + t)), QTY * RATE)
        => 2 * Abs(r - z) <= k + 1
  BY DEF Within, Drift, Abs, QTY, RATE
<1>8. 2 * Abs(SumFunction(both) - c) <= Len(ls) + 1
  BY <1>0, <1>2, <1>3, <1>6, <1>7, DomainOfLines
<1> QED
  BY <1>2, <1>4, <1>8 DEF c

----------------------------------------------------------------------------
(* The life of a document: what was announced, told as a story. *)

StoryInv ==
  \/ status = "draft" /\ History = <<>>
  \/ status = "placed" /\ History \in
       IF OrderTotal(lines) = Mismatch THEN {<<>>} ELSE {<<Placed(OrderTotal(lines))>>}
  \/ status = "cancelled" /\ History \in
       {<<Cancelled>>, <<Placed(OrderTotal(lines)), Cancelled>>}

\* The test app takes whole quantities.
WholeInv == kind = "test" => \A i \in DOMAIN lines : lines[i].qty % QTY = 0

IInv == TypeOK /\ StoryInv /\ WholeInv

LEMMA EventsTyped ==
  /\ Cancelled \in Event
  /\ \A m \in AmountsIn(Currency) : Placed(m) \in Event
<1>1. Money(0, "USD") \in AmountsIn(Currency)
  BY MoneyIsAmount DEF Currency
<1> QED
  BY <1>1 DEF Cancelled, Placed, Event, AmountsIn

\* The lines of an invoice are those the validation lets through.
LEMMA TypeNext == TypeOK /\ [Next]_vars => TypeOK'
<1> SUFFICES ASSUME TypeOK, [Next]_vars PROVE TypeOK'
  OBVIOUS
<1> USE DEF TypeOK
<1>1. ASSUME NEW l \in InvoiceLines, AddInvoiceLine(l) PROVE TypeOK'
  BY <1>1 DEF AddInvoiceLine
<1>2. ASSUME NEW l \in OrderLines, AddOrderLine(l) PROVE TypeOK'
  BY <1>2 DEF AddOrderLine
<1>3. CASE Place
  <2>1. OrderTotal(lines) # Mismatch => Placed(OrderTotal(lines)) \in Event
    BY <1>3, OrderTotals, EventsTyped DEF Place
  <2>2. events' \in Seq(Event)
    BY <1>3, <2>1 DEF Place
  <2> QED
    BY <1>3, <2>2 DEF Place
<1>4. CASE Cancel
  <2>1. events' \in Seq(Event)
    BY <1>4, EventsTyped DEF Cancel
  <2> QED
    BY <1>4, <2>1 DEF Cancel
<1>5. CASE PullEvents
  BY <1>5 DEF PullEvents
<1>6. CASE UNCHANGED vars
  BY <1>6 DEF vars
<1> QED
  BY <1>1, <1>2, <1>3, <1>4, <1>5, <1>6 DEF Next

LEMMA StoryNext == IInv /\ [Next]_vars => StoryInv'
<1> SUFFICES ASSUME IInv, [Next]_vars PROVE StoryInv'
  OBVIOUS
<1>0. TypeOK /\ StoryInv /\ published \in Seq(Event) /\ events \in Seq(Event)
  BY DEF IInv, TypeOK
<1>1. ASSUME UNCHANGED <<lines, status>>, History' = History PROVE StoryInv'
  BY <1>0, <1>1 DEF StoryInv
<1>2. ASSUME status = "draft", UNCHANGED <<status, events, published>> PROVE StoryInv'
  BY <1>0, <1>2 DEF StoryInv, History
<1>3. ASSUME NEW l, AddInvoiceLine(l) \/ AddOrderLine(l) PROVE StoryInv'
  BY <1>0, <1>2, <1>3 DEF AddInvoiceLine, AddOrderLine, TypeOK
<1>4. CASE Place
  <2>1. published = <<>> /\ events = <<>>
    BY <1>0, <1>4 DEF Place, StoryInv, History
  <2>2. CASE OrderTotal(lines) = Mismatch
    BY <1>4, <2>1, <2>2 DEF Place, StoryInv, History
  <2>3. CASE OrderTotal(lines) # Mismatch
    <3>1. events' = <<Placed(OrderTotal(lines))>> /\ published' = <<>>
      BY <1>4, <2>1, <2>3 DEF Place
    <3>2. History' = <<Placed(OrderTotal(lines))>>
      BY <3>1 DEF History
    <3> QED
      BY <1>4, <2>3, <3>2 DEF Place, StoryInv
  <2> QED
    BY <2>2, <2>3
<1>5. CASE Cancel
  <2>1. History' = Append(History, Cancelled)
    BY <1>0, <1>5, EventsTyped DEF Cancel, History
  <2>2. History \in {<<>>, <<Placed(OrderTotal(lines))>>}
    BY <1>0, <1>5 DEF Cancel, StoryInv
  <2>3. History' \in {<<Cancelled>>, <<Placed(OrderTotal(lines)), Cancelled>>}
    <3>1. ASSUME NEW x, NEW y PROVE Append(<<>>, y) = <<y>> /\ Append(<<x>>, y) = <<x, y>>
      <4>1. <<>> \in Seq({x, y}) /\ <<x>> \in Seq({x, y}) /\ y \in {x, y}
        OBVIOUS
      <4>2. Append(<<>>, y) = <<y>>
        BY <4>1
      <4>3. Append(<<x>>, y) = <<x, y>>
        <5> DEFINE a == Append(<<x>>, y)
        <5>1. a \in Seq({x, y}) /\ Len(a) = 2 /\ a[1] = x /\ a[2] = y
          BY <4>1, AppendProperties
        <5>2. <<x, y>> \in Seq({x, y}) /\ Len(<<x, y>>) = 2
          OBVIOUS
        <5> HIDE DEF a
        <5>3. \A i \in 1..2 : a[i] = <<x, y>>[i]
          BY <5>1
        <5> QED
          BY <5>1, <5>2, <5>3, SeqEqual DEF a
      <4> QED
        BY <4>2, <4>3
    <3> QED
      BY <2>1, <2>2, <3>1
  <2> QED
    BY <1>5, <2>3 DEF Cancel, StoryInv
<1>6. CASE PullEvents
  <2>1. History' = History
    BY <1>0, <1>6 DEF PullEvents, History
  <2> QED
    BY <1>1, <1>6, <2>1 DEF PullEvents
<1>7. CASE UNCHANGED vars
  BY <1>1, <1>7 DEF vars, History
<1> QED
  BY <1>3, <1>4, <1>5, <1>6, <1>7 DEF Next

LEMMA WholeNext == IInv /\ [Next]_vars => WholeInv'
<1> SUFFICES ASSUME IInv, [Next]_vars PROVE WholeInv'
  OBVIOUS
<1>0. TypeOK /\ WholeInv
  BY DEF IInv
<1>1. ASSUME NEW l \in InvoiceLines, AddInvoiceLine(l), kind = "test" PROVE WholeInv'
  <2>1. /\ lines \in Seq(InvoiceLines) /\ lines' = Append(lines, l) /\ kind' = kind
        /\ l.qty % QTY = 0
    BY <1>0, <1>1 DEF AddInvoiceLine, TypeOK
  <2>2. ASSUME NEW i \in DOMAIN lines'
        PROVE  (i \in DOMAIN lines /\ lines'[i] = lines[i]) \/ lines'[i] = l
    BY <2>1
  <2> QED
    BY <1>0, <1>1, <2>1, <2>2 DEF WholeInv
<1>2. ASSUME NEW l, AddInvoiceLine(l), kind # "test" PROVE WholeInv'
  BY <1>2 DEF AddInvoiceLine, WholeInv
<1>3. ASSUME NEW l, AddOrderLine(l) PROVE WholeInv'
  BY <1>3 DEF AddOrderLine, WholeInv
<1>4. CASE UNCHANGED <<kind, lines>>
  BY <1>0, <1>4 DEF WholeInv
<1> QED
  BY <1>1, <1>2, <1>3, <1>4 DEF Next, Place, Cancel, PullEvents, vars

\* What is behind the others: the validated lines, the story so far, whole quantities.
THEOREM Inductive == Spec => []IInv
<1>1. Init => IInv
  BY DEF Init, IInv, TypeOK, StoryInv, History, WholeInv
<1>2. IInv /\ [Next]_vars => IInv'
  BY TypeNext, StoryNext, WholeNext DEF IInv
<1> QED
  BY <1>1, <1>2, PTL DEF Spec

\* The state is well-typed.
THEOREM TypeCorrect == Spec => []TypeOK
<1>1. IInv => TypeOK
  BY DEF IInv
<1> QED
  BY <1>1, Inductive, PTL

\* Every change of an order is announced once and in order, with the total it has
\* ever after, however its events are pulled.
THEOREM StoryIsTold == Spec => []EventsTellTheStory
<1>1. IInv => EventsTellTheStory
  <2> SUFFICES ASSUME IInv PROVE EventsTellTheStory
    OBVIOUS
  <2> DEFINE p == Placed(OrderTotal(lines))
             c == Cancelled
  <2>1. /\ p.type = "OrderPlaced" /\ p.total = OrderTotal(lines)
        /\ c.type = "OrderCancelled"
    BY DEF Placed, Cancelled
  <2> HIDE DEF p, c
  <2>2. \/ status = "draft" /\ History = <<>>
        \/ status = "placed" /\ History \in IF OrderTotal(lines) = Mismatch THEN {<<>>} ELSE {<<p>>}
        \/ status = "cancelled" /\ History \in {<<c>>, <<p, c>>}
    BY DEF IInv, StoryInv, p, c
  <2>3. CASE History = <<>>
    <3>1. Types = <<>> /\ DOMAIN History = {}
      BY <2>3 DEF Types
    <3> QED
      BY <2>2, <2>3, <3>1 DEF EventsTellTheStory
  <2>4. CASE History = <<p>>
    <3>1. DOMAIN History = {1} /\ History[1] = p
      BY <2>4
    <3>2. Types = <<"OrderPlaced">>
      BY <2>1, <3>1 DEF Types
    <3> QED
      BY <2>1, <2>2, <2>4, <3>1, <3>2 DEF EventsTellTheStory
  <2>5. CASE History = <<c>>
    <3>1. DOMAIN History = {1} /\ History[1] = c
      BY <2>5
    <3>2. Types = <<"OrderCancelled">>
      BY <2>1, <3>1 DEF Types
    <3> QED
      BY <2>1, <2>2, <2>5, <3>1, <3>2 DEF EventsTellTheStory
  <2>6. CASE History = <<p, c>>
    <3>1. DOMAIN History = {1, 2} /\ History[1] = p /\ History[2] = c
      BY <2>6
    <3>2. Types = <<"OrderPlaced", "OrderCancelled">>
      BY <2>1, <3>1 DEF Types
    <3> QED
      BY <2>1, <2>2, <2>6, <3>1, <3>2 DEF EventsTellTheStory
  <2> QED
    BY <2>2, <2>3, <2>4, <2>5, <2>6
<1> QED
  BY <1>1, Inductive, PTL

\* Amounts of two currencies are never added up, by either Money.
THEOREM CurrenciesNeverMix == Spec => []NeverMixes
<1>1. IInv => NeverMixes
  BY OrderTotals DEF IInv, TypeOK, NeverMixes
<1> QED
  BY <1>1, Inductive, PTL

\* A refund pays back what was charged, and both are whole cents of the total.
THEOREM RefundsMatch == Spec => []RefundMatchesCharge
<1>1. IInv => RefundMatchesCharge
  <2> SUFFICES ASSUME IInv, kind = "order", NormalTotal(lines) # Mismatch
               PROVE  NormalTotal(lines) \in AmountsIn(Capitals)
    BY CentsForm DEF RefundMatchesCharge
  <2>1. CASE lines = <<>>
    <3>1. NormalTotal(lines) = Money(0, "USD")
      BY <2>1 DEF NormalTotal, RunningTotal
    <3> QED
      BY <3>1, MoneyIsAmount DEF Capitals
  <2>2. CASE lines # <<>>
    BY <2>2, OrderTotals DEF IInv, TypeOK
  <2> QED
    BY <2>1, <2>2
<1> QED
  BY <1>1, Inductive, PTL

\* A total is never more than a cent off subtotal plus tax, and both apps, and the
\* lines they show, come to within half a cent a rounding of each other.
THEOREM TotalsAgree == Spec => []TotalsNearlyAgree
<1>1. IInv => TotalsNearlyAgree
  <2> SUFFICES ASSUME IInv PROVE TotalsNearlyAgree
    OBVIOUS
  <2>1. kind # "order" => lines \in Seq(InvoiceLine)
    <3> DEFINE V == {l \in InvoiceLines : Valid(l)}
    <3>1. V \subseteq InvoiceLine
      BY LinesAssumption DEF InvoiceLine
    <3>2. kind # "order" => lines \in Seq(V)
      BY DEF IInv, TypeOK
    <3>3. Seq(V) \subseteq Seq(InvoiceLine)
      <4> HIDE DEF V
      <4> QED
        BY <3>1
    <3> QED
      BY <3>2, <3>3
  <2>2. CASE kind = "control"
    <3>1. LET t == CalculatedTotals(lines)
          IN  /\ Abs(t.total - (t.subtotal + t.tax)) <= 1
              /\ 2 * Abs(t.total - AddUp(LAMBDA l : LineRead(l).total, lines)) <= 2 * Len(lines) + 1
      BY <2>1, <2>2, ControlTotals
    <3> QED
      BY <2>2, <3>1 DEF TotalsNearlyAgree
  <2>3. CASE kind = "test"
    BY <2>1, <2>3, AppsTotals DEF IInv, WholeInv, TotalsNearlyAgree
  <2>4. CASE kind \notin {"control", "test"}
    BY <2>4 DEF TotalsNearlyAgree
  <2> QED
    BY <2>2, <2>3, <2>4
<1> QED
  BY <1>1, Inductive, PTL
=============================================================================
