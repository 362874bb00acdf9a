----------------------------- MODULE MCCheckout -----------------------------
(* Symmetry and baskets for Checkout: none, a gift, two of one total.          *)
EXTENDS Checkout, TLC

Line(q, p) == [quantity |-> q, unit_price |-> p]

MCBaskets == {<<>>, <<Line(1, 0)>>, <<Line(2, 1)>>, <<Line(1, 1), Line(1, 1)>>}

Symmetry == Permutations(Calls)
=============================================================================
