------------------------ MODULE PaymentsRefineFates ------------------------
(***************************************************************************)
(* Payments implements PaymentFates.  A transaction is open while it is on *)
(* its way or waits for a ledger, has the next sequence number of the      *)
(* account, and its time bound has not passed.                             *)
(***************************************************************************)
EXTENDS Payments

OnTheWay == queue \cup stray \cup {call[c].tx : c \in {d \in Calls : At(d, "sent")}}

Open == {t \in OnTheWay : t.seq = sequence + 1 /\ now <= t.deadline}
PaidOnes == {e.tx : e \in {d \in applied : d.paid}}

SentBy == [c \in Calls |-> call[c].tx]
ToldTo == [c \in Calls |-> IF At(c, "done") THEN call[c].answer ELSE None]

Fates == INSTANCE PaymentFates
    WITH sent <- SentBy, told <- ToldTo, open <- Open, made <- PaidOnes

\* Every step of the calls, the network and the ledger is a step of the
\* fates or leaves them unchanged.
RefinesFates == Fates!Spec
=============================================================================
