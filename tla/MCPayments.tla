----------------------------- MODULE MCPayments -----------------------------
(***************************************************************************)
(* Three calls, two different payments and a time bound of one second.     *)
(***************************************************************************)
EXTENDS PaymentsRefineFates, TLC

CONSTANTS c1, c2, c3, p1, p2

ThreeCalls == {c1, c2, c3}
TwoPayments == {p1, p2}

Symmetry == Permutations(ThreeCalls) \cup Permutations(TwoPayments)
=============================================================================
