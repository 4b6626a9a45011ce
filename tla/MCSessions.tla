----------------------------- MODULE MCSessions -----------------------------
(***************************************************************************)
(* One user on two devices; users share nothing but the blacklist.         *)
(***************************************************************************)
EXTENDS Sessions, TLC

CONSTANTS u1, r1, r2

OneUser == {u1}
TwoRequests == {r1, r2}

\* Slots are interchangeable.
Symmetry == Permutations(TwoRequests)
=============================================================================
