------------------------------- MODULE Payments -------------------------------
(***************************************************************************)
(* StellarService.sendPayment of src/src/stellar/stellar.service.ts: calls *)
(* beside each other that pay from the one account of the service.  Each   *)
(* loads the account's sequence number, builds a transaction with the next *)
(* number and a time bound, and submits it.  Horizon and the ledger are    *)
(* external: posts may be lost or arrive late, answers may be lost, and a  *)
(* transaction that was not applied by its time bound never is.            *)
(*                                                                         *)
(* A transaction is what it says, as its hash is: two calls that make the  *)
(* same payment from the same sequence number within one second make ONE   *)
(* transaction.                                                            *)
(*                                                                         *)
(* A definition whose name has a suffix after an underscore is the one     *)
(* without the suffix as a plausible bug would have it.                    *)
(***************************************************************************)
EXTENDS Integers, FiniteSets

CONSTANTS
    Calls,     \* calls of sendPayment; each is made once
    Payments,  \* destination, amount and asset
    Lifetime,  \* setTimeout, in seconds (30)
    MaxTime,   \* bound on the clock
    None       \* no payment, transaction or answer

ASSUME TimeAssumption == Lifetime \in Nat /\ MaxTime \in Nat

VARIABLES
    configured,  \* STELLAR_SECRET_KEY is set
    now,         \* the second it is
    call,        \* what each call has come to
    sequence,    \* the sequence number of the account in the ledger
    stray,       \* posts that were given up and may still arrive
    queue,       \* transactions that wait for a ledger
    applied      \* transactions in a ledger, with time and result

vars == <<configured, now, call, sequence, stray, queue, applied>>

Tx == [payment: Payments, seq: Nat, deadline: Nat]

ASSUME NoneAssumption == None \notin Payments /\ None \notin Tx

\* "refused" is "Payment failed" with Horizon's refusal (status 400), and
\* "undecided" the same with any other error; "unreachable" is "Unable to
\* connect to the Stellar network".
Undecided == {"undecided", "unreachable"}
Answers == {"ok", "badRequest", "notFound", "refused"} \cup Undecided

\* builtAt and answeredAt are history.
Call == [pc: {"idle", "load", "build", "sent", "pending", "done"},
         payment: Payments \cup {None}, loaded: Nat, tx: Tx \cup {None},
         answer: Answers \cup {None}, builtAt: Nat, answeredAt: Nat]

NoCall == [pc |-> "idle", payment |-> None, loaded |-> 0, tx |-> None,
           answer |-> None, builtAt |-> 0, answeredAt |-> 0]

Entry == [tx: Tx, paid: BOOLEAN, at: Nat]

Init ==
    /\ configured \in BOOLEAN
    /\ now = 0
    /\ call = [c \in Calls |-> NoCall]
    /\ sequence = 0
    /\ stray = {} /\ queue = {} /\ applied = {}

At(c, pc) == call[c].pc = pc
Goto(c, q) == call' = [call EXCEPT ![c] = q]
Answer(c, a) ==
    Goto(c, [call[c] EXCEPT !.pc = "done", !.answer = a, !.answeredAt = now])

Ledger == <<sequence, queue, applied>>

-----------------------------------------------------------------------------
Begin(c) ==
    /\ At(c, "idle")
    /\ \/ configured /\ \E p \in Payments :
            Goto(c, [call[c] EXCEPT !.pc = "load", !.payment = p])
       \/ ~configured /\ Answer(c, "badRequest")
    /\ UNCHANGED <<configured, now, stray, Ledger>>

Load(c) ==
    /\ At(c, "load")
    /\ Goto(c, [call[c] EXCEPT !.pc = "build", !.loaded = sequence])
    /\ UNCHANGED <<configured, now, stray, Ledger>>

\* Before or after Horizon has read the account.
LoadFails(c) ==
    /\ At(c, "load") \/ At(c, "build")
    /\ \E a \in {"notFound"} \cup Undecided : Answer(c, a)
    /\ UNCHANGED <<configured, now, stray, Ledger>>

Deadline_Unset == now + Lifetime + MaxTime
Deadline_Subtracted == now - Lifetime
Deadline == now + Lifetime

Built_SameNumber(q) ==
    [payment |-> q.payment, seq |-> q.loaded, deadline |-> Deadline]
Built(q) ==
    [payment |-> q.payment, seq |-> q.loaded + 1, deadline |-> Deadline]

Build(c) ==
    /\ At(c, "build")
    /\ Goto(c, [call[c] EXCEPT !.pc = "sent", !.tx = Built(call[c]),
                               !.builtAt = now])
    /\ UNCHANGED <<configured, now, stray, Ledger>>

-----------------------------------------------------------------------------
(* The network.  It keeps one transaction of an account waiting, and knows *)
(* one it has already.                                                     *)

Waiting(t) == t \in queue /\ now <= t.deadline

Admissible(t) ==
    /\ t.seq = sequence + 1
    /\ now <= t.deadline
    /\ \A u \in queue : Waiting(u) => u = t

Accepted(c) ==
    /\ At(c, "sent")
    /\ \/ Admissible(call[c].tx) /\ queue' = queue \cup {call[c].tx}
       \/ /\ \E e \in applied : e.tx = call[c].tx
          /\ UNCHANGED queue
    /\ Goto(c, [call[c] EXCEPT !.pc = "pending"])
    /\ UNCHANGED <<configured, now, sequence, stray, applied>>

Rejected(c) ==
    /\ At(c, "sent")
    /\ ~Admissible(call[c].tx)
    /\ \A e \in applied : e.tx # call[c].tx
    /\ Answer(c, "refused")
    /\ UNCHANGED <<configured, now, stray, Ledger>>

\* A post that nobody waits for arrives, or is lost.
Arrives ==
    /\ \E t \in stray :
         /\ stray' = stray \ {t}
         /\ queue' \in {queue} \cup (IF Admissible(t) THEN {queue \cup {t}} ELSE {})
    /\ UNCHANGED <<configured, now, call, sequence, applied>>

\* An operation may fail in the ledger (no funds, no such destination): the
\* sequence number is used up, and nothing is paid.
Apply ==
    /\ \E t \in queue, paid \in BOOLEAN :
         /\ Waiting(t) /\ t.seq = sequence + 1
         /\ applied' = applied \cup {[tx |-> t, paid |-> paid, at |-> now]}
         /\ sequence' = t.seq
         /\ queue' = queue \ {t}
    /\ UNCHANGED <<configured, now, call, stray>>

Expire ==
    /\ \E t \in queue : ~Waiting(t) /\ queue' = queue \ {t}
    /\ UNCHANGED <<configured, now, call, sequence, stray, applied>>

-----------------------------------------------------------------------------
\* The answer to the post: 200 when the payment was made, 400 when not.
Outcome_AnySuccess(e) == "ok"
Outcome(e) == IF e.paid THEN "ok" ELSE "refused"

Answered(c) ==
    /\ At(c, "pending")
    /\ \E e \in applied : e.tx = call[c].tx /\ Answer(c, Outcome(e))
    /\ UNCHANGED <<configured, now, stray, Ledger>>

\* The answer is late (Horizon's 504, a timeout) or lost: the post may not
\* have arrived, and may arrive yet.
Unanswered_AsRefused == {"refused", "unreachable"}
Unanswered == Undecided

GiveUp(c) ==
    /\ At(c, "sent") \/ At(c, "pending")
    /\ \E a \in Unanswered : Answer(c, a)
    /\ stray' = IF At(c, "sent") THEN stray \cup {call[c].tx} ELSE stray
    /\ UNCHANGED <<configured, now, Ledger>>

Tick ==
    /\ now < MaxTime
    /\ now' = now + 1
    /\ UNCHANGED <<configured, call, stray, Ledger>>

Pay(c) ==
    \/ Begin(c) \/ Load(c) \/ LoadFails(c) \/ Build(c) \/ Accepted(c)
    \/ Rejected(c) \/ Answered(c) \/ GiveUp(c)

Next == (\E c \in Calls : Pay(c)) \/ Arrives \/ Apply \/ Expire \/ Tick

Spec == Init /\ [][Next]_vars

-----------------------------------------------------------------------------
TypeOK ==
    /\ configured \in BOOLEAN
    /\ now \in Nat /\ sequence \in Nat
    /\ call \in [Calls -> Call]
    /\ stray \subseteq Tx /\ queue \subseteq Tx /\ applied \subseteq Entry

Told(c, a) == At(c, "done") /\ call[c].answer = a
Paid(t) == \E e \in applied : e.tx = t /\ e.paid

\* The ledger has a payment only if a call made it no longer than Lifetime
\* before, and a sequence number has one transaction: whoever waits for the
\* time bound and looks then knows the fate of a call, whatever it answered.
PaidInTime ==
    /\ \A e \in applied : \E c \in Calls :
         call[c].tx = e.tx /\ e.at <= call[c].builtAt + Lifetime
    /\ \A d, e \in applied : d.tx.seq = e.tx.seq => d = e

\* A call that answers success has paid.  A call that answers with Horizon's
\* refusal has not, and will not, whatever arrives late, unless another call
\* made the very same transaction.
AnswersTrue ==
    \A c \in Calls :
      /\ Told(c, "ok") => Paid(call[c].tx)
      /\ Told(c, "refused") /\ Paid(call[c].tx) =>
           \E d \in Calls \ {c} : call[d].tx = call[c].tx

\* A call is refused without being applied only if it came too late, or if
\* another call used its sequence number: one in the ledger, or one that is
\* younger than Lifetime.  A call that was lost blocks the others no longer.
RefusedForARival ==
    \A c \in Calls :
      Told(c, "refused") /\ (\A e \in applied : e.tx # call[c].tx) =>
        \/ call[c].answeredAt > call[c].builtAt + Lifetime
        \/ \E d \in Calls \ {c} :
             /\ call[d].tx # None /\ call[d].tx # call[c].tx
             /\ call[d].tx.seq = call[c].tx.seq
             /\ \/ \E e \in applied : e.tx = call[d].tx
                \/ call[c].answeredAt <= call[d].builtAt + Lifetime
=============================================================================
