----------------------------- MODULE MCAccounts -----------------------------
(***************************************************************************)
(* Two e-mails, and two accounts ever, one after another or at once.       *)
(***************************************************************************)
EXTENDS Accounts, TLC

CONSTANTS e1, e2, r1, r2

TwoEmails == {e1, e2}
TwoRequests == {r1, r2}

\* E-mails and slots are interchangeable.
Symmetry == Permutations(TwoEmails) \cup Permutations(TwoRequests)
=============================================================================
