----------------------------- MODULE WalletBook -----------------------------
(***************************************************************************)
(* What the wallet endpoints promise a user who makes one request at a     *)
(* time: a book of wallets in the order of their registration in which the *)
(* default changes together with what made it change.                      *)
(***************************************************************************)
EXTENDS Integers

CONSTANTS Users, Keys

VARIABLES
    issued,   \* the number of registrations so far
    entries,  \* the wallets: a number, an owner and a key
    default,  \* the number of each user's default wallet, 0 for none
    lost      \* the users whose last change of default failed half way

book == <<issued, entries, default, lost>>

Of(u) == {e \in entries : e.user = u}

Init ==
    /\ issued = 0
    /\ entries = {}
    /\ default = [u \in Users |-> 0]
    /\ lost = {}

Choose(u, n) ==
    /\ default' = [default EXCEPT ![u] = n]
    /\ lost' = lost \ {u}

\* A new key goes last; a user's first wallet is the default.
Register(u, k) ==
    /\ \A e \in entries : e.key # k
    /\ issued' = issued + 1
    /\ entries' = entries \cup {[n |-> issued', user |-> u, key |-> k]}
    /\ IF Of(u) = {} THEN Choose(u, issued') ELSE UNCHANGED <<default, lost>>

MakeDefault(e) ==
    /\ Choose(e.user, e.n)
    /\ UNCHANGED <<issued, entries>>

\* The default's place is taken by the oldest wallet left.
Remove(e) ==
    LET rest == Of(e.user) \ {e} IN
    /\ entries' = entries \ {e}
    /\ UNCHANGED issued
    /\ \/ /\ default[e.user] # e.n
          /\ UNCHANGED <<default, lost>>
       \/ /\ default[e.user] = e.n
          /\ rest = {}
          /\ Choose(e.user, 0)
       \/ /\ default[e.user] = e.n
          /\ \E f \in rest :
               /\ \A g \in rest : f.n <= g.n
               /\ Choose(e.user, f.n)

\* A failure half way through a change of default leaves none.
LoseDefault(u) ==
    /\ default' = [default EXCEPT ![u] = 0]
    /\ lost' = lost \cup {u}
    /\ UNCHANGED <<issued, entries>>

\* Accounts are closed, and their wallets go with them.
Close(S) ==
    /\ entries' = {e \in entries : e.user \notin S}
    /\ UNCHANGED issued
    /\ default' = [u \in Users |-> IF u \in S THEN 0 ELSE default[u]]
    /\ lost' = lost \ S

Next ==
    \/ \E u \in Users, k \in Keys : Register(u, k)
    \/ \E e \in entries : MakeDefault(e) \/ Remove(e)
    \/ \E u \in Users : LoseDefault(u)
    \/ \E S \in SUBSET Users : Close(S)

Spec == Init /\ [][Next]_book
=============================================================================
