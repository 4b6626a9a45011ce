---------------------------- MODULE PaymentFates ----------------------------
(***************************************************************************)
(* What sendPayment promises those who call it.  A transaction is open     *)
(* while it may still be paid, which is no longer than Lifetime; of those  *)
(* that are open beside each other at most one is ever paid.  Success is   *)
(* told of what was paid, refusal of what was not and is open no more,     *)
(* unless another call made the same transaction.  Any other answer tells  *)
(* nothing.                                                                *)
(***************************************************************************)
EXTENDS Integers

CONSTANTS Calls, Tx, Answers, Lifetime, None

VARIABLES
    now,   \* the second it is
    sent,  \* the transaction each call has sent
    told,  \* the answer each call was given
    open,  \* the transactions that may still be paid
    made   \* the transactions that were paid

fates == <<now, sent, told, open, made>>

Init ==
    /\ now = 0
    /\ sent = [c \in Calls |-> None]
    /\ told = [c \in Calls |-> None]
    /\ open = {} /\ made = {}

\* A call that has loaded an old sequence number sends what was never open.
Send(c) ==
    LET t == sent'[c] IN
    /\ sent[c] = None /\ told[c] = None
    /\ t \in Tx /\ t.deadline = now + Lifetime
    /\ sent' = [sent EXCEPT ![c] = t]
    /\ open' = open \/ (t \notin made /\ open' = open \cup {t})
    /\ UNCHANGED <<now, told, made>>

\* The ledger decides for all that are open: it pays one of them, or takes
\* one that fails in it.
Decide ==
    /\ open # {} /\ open' = {}
    /\ \E t \in open : made' \in {made, made \cup {t}}
    /\ UNCHANGED <<now, sent, told>>

Lose(t) ==
    /\ open' = open \ {t}
    /\ UNCHANGED <<now, sent, told, made>>

Tell(c) ==
    LET a == told'[c] IN
    /\ told[c] = None /\ a \in Answers
    /\ told' = [told EXCEPT ![c] = a]
    /\ open' \in {open, open \ {sent[c]}}
    /\ a = "ok" => sent[c] \in made
    /\ a = "refused" => /\ sent[c] # None /\ sent[c] \notin made
                        /\ \/ sent[c] \notin open'
                           \/ \E d \in Calls \ {c} : sent[d] = sent[c]
    /\ a \in {"badRequest", "notFound"} => sent[c] = None
    /\ UNCHANGED <<now, sent, made>>

Tick ==
    /\ now' = now + 1
    /\ open' = {t \in open : now' <= t.deadline}
    /\ UNCHANGED <<sent, told, made>>

Next ==
    \/ \E c \in Calls : Send(c) \/ Tell(c)
    \/ \E t \in open : Lose(t)
    \/ Decide
    \/ Tick

Spec == Init /\ [][Next]_fates
=============================================================================
