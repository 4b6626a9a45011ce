--------------------------- MODULE MCTransactions ---------------------------
(***************************************************************************)
(* A reader beside a writer, three rows, pages of at most two rows.        *)
(***************************************************************************)
EXTENDS Transactions, TLC

CONSTANTS u1, u2, k1, k2, w1, w2, c1

OneUser == {u1}
TwoUsers == {u1, u2}
OneKey == {k1}
TwoKeys == {k1, k2}
OneWriter == {w1}
TwoWriters == {w1, w2}
OneReader == {c1}

\* Page 0 and a negative limit too: parseInt takes them.
SomePages == {0, 1}
SomeLimits == {-2, 1, 3}

\* completed is to the statistics what pending is, cancelled what failed is.
TwoStatuses == {"pending", "failed"}

Symmetry ==
    Permutations(TwoUsers) \cup Permutations(TwoKeys) \cup Permutations(TwoWriters)
=============================================================================
