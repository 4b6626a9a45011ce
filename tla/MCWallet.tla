------------------------------ MODULE MCWallet ------------------------------
(***************************************************************************)
(* Two users on the wallet endpoints.                                      *)
(***************************************************************************)
EXTENDS WalletRefinesBook, TLC

CONSTANTS u1, u2, k1, k2, k3, r1, r2

TwoUsers == {u1, u2}
OneUser == {u1}
TwoKeys == {k1, k2}
ThreeKeys == {k1, k2, k3}
TwoRequests == {r1, r2}

NoDelete == Adders \cup {"setDefault"}

\* Users, keys and request slots are interchangeable (safety runs only).
Symmetry ==
    Permutations(TwoUsers) \cup Permutations(ThreeKeys)
      \cup Permutations(TwoRequests)
=============================================================================
