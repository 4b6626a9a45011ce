------------------------------ MODULE MCBalances ------------------------------
(***************************************************************************)
(* Three accounts in a cache of two entries, and a user who asks for the   *)
(* total of two of them.                                                   *)
(***************************************************************************)
EXTENDS Balances, TLC

CONSTANTS k1, k2, k3, r1, r2, t1

ThreeAccounts == {k1, k2, k3}
TwoRequests == {r1, r2}
OneTotal == {t1}

\* Accounts and slots are interchangeable.
Symmetry == Permutations(ThreeAccounts) \cup Permutations(TwoRequests)
=============================================================================
