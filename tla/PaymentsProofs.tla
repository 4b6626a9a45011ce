---------------------------- MODULE PaymentsProofs ----------------------------
(***************************************************************************)
(* Theorems about payments, for any number of calls, whatever they pay,    *)
(* and any lifetime.                                                       *)
(***************************************************************************)
EXTENDS PaymentsRefineFates, TLAPS

\* A call has a transaction once it has sent one, with a number that was
\* next when the account was loaded.
CallOK(q) ==
    /\ q.pc \in {"idle", "load", "build"} => q.tx = None
    /\ q.pc \in {"sent", "pending"} => q.tx # None
    /\ q.pc = "done" /\ q.answer \in {"ok", "refused"} => q.tx # None
    /\ q.pc \in {"load", "build"} => q.payment \in Payments
    /\ q.pc = "build" => q.loaded <= sequence
    /\ q.tx # None => /\ q.tx.deadline = q.builtAt + Lifetime
                      /\ 1 <= q.tx.seq /\ q.tx.seq <= sequence + 1

CallInv == TypeOK /\ \A c \in Calls : CallOK(call[c])

\* Some call no longer waits for transaction t to arrive.
Made(t) == \E d \in Calls : call[d].tx = t /\ call[d].pc \in {"pending", "done"}

\* What is on its way was sent; one transaction can be the next one.
QueueInv ==
    /\ \A t \in stray \cup queue : Made(t)
    /\ \A t \in queue : Waiting(t) => t.seq = sequence + 1
    /\ \A t, u \in queue : Waiting(t) /\ Waiting(u) => t = u

\* The ledger has one transaction for each number it has come to.
LedgerInv ==
    /\ \A e \in applied : /\ Made(e.tx) /\ e.at <= e.tx.deadline
                          /\ 1 <= e.tx.seq /\ e.tx.seq <= sequence
    /\ \A d, e \in applied : d.tx.seq = e.tx.seq => d = e
    /\ \A n \in Nat : 1 <= n /\ n <= sequence =>
         \E e \in applied : e.tx.seq = n

Twin(c) == \E d \in Calls \ {c} : call[d].tx = call[c].tx
InLedger(t) == \E e \in applied : e.tx = t
Unpaid(t) == \E e \in applied : e.tx = t /\ ~e.paid
Gone(t) == t \notin queue /\ t \notin stray /\ ~InLedger(t)

Rival(c) ==
    \E d \in Calls \ {c} :
      /\ call[d].tx # None /\ call[d].tx # call[c].tx
      /\ call[d].tx.seq = call[c].tx.seq
      /\ \/ InLedger(call[d].tx)
         \/ call[c].answeredAt <= call[d].builtAt + Lifetime

\* A refusal is final: the payment failed in the ledger, or its transaction
\* is nowhere.
AnswerOK(c) ==
    /\ Told(c, "ok") => Paid(call[c].tx)
    /\ Told(c, "refused") =>
         /\ Unpaid(call[c].tx) \/ Twin(c) \/ Gone(call[c].tx)
         /\ \/ InLedger(call[c].tx)
            \/ call[c].answeredAt > call[c].builtAt + Lifetime
            \/ Rival(c)

PayInv == CallInv /\ QueueInv /\ LedgerInv /\ \A c \in Calls : AnswerOK(c)

-----------------------------------------------------------------------------
LEMMA CallFacts ==
  ASSUME PayInv, NEW c \in Calls
  PROVE  /\ call[c] \in Call /\ CallOK(call[c]) /\ call \in [Calls -> Call]
         /\ call[c].tx # None => call[c].tx \in Tx
         /\ now \in Nat /\ sequence \in Nat /\ Lifetime \in Nat
<1>1. call[c] \in Call /\ CallOK(call[c])
  BY DEF PayInv, CallInv, TypeOK
<1>2. QED
  BY <1>1, TimeAssumption DEF PayInv, CallInv, TypeOK, Call

\* The queue has one transaction that can be the next one.
OneNext ==
    /\ \A t \in queue : Waiting(t) => t.seq = sequence + 1
    /\ \A t, u \in queue : Waiting(t) /\ Waiting(u) => t = u

\* Steps of one call that leave the ledger alone and put nothing but the
\* transaction of that call on its way.
Moves(c, q) ==
    /\ call' = [call EXCEPT ![c] = q]
    /\ UNCHANGED <<configured, now, sequence, applied>>
    /\ q \in Call /\ CallOK(q)
    /\ call[c].pc # "done"
    /\ call[c].tx # None => q.tx = call[c].tx
    /\ call[c].pc = "pending" => q.pc = "done"
    /\ \A t \in stray' \cup queue' :
         \/ t \in stray \cup queue
         \/ t = q.tx /\ q.tx # None /\ q.pc \in {"pending", "done"}

LEMMA MadeStays ==
  ASSUME PayInv, NEW c \in Calls, NEW q \in Call,
         call' = [call EXCEPT ![c] = q],
         call[c].tx # None => q.tx = call[c].tx,
         call[c].pc \in {"pending", "done"} => q.pc \in {"pending", "done"},
         NEW t \in Tx, Made(t)
  PROVE  Made(t)'
<1>1. PICK d \in Calls : call[d].tx = t /\ call[d].pc \in {"pending", "done"}
  BY DEF Made
<1>2. call \in [Calls -> Call] /\ t # None
  BY CallFacts, NoneAssumption
<1>3. call'[d].tx = t /\ call'[d].pc \in {"pending", "done"}
  BY <1>1, <1>2
<1>4. QED
  BY <1>3 DEF Made

LEMMA MoveSafe ==
  ASSUME PayInv, NEW c \in Calls, NEW q, Moves(c, q), OneNext', AnswerOK(c)'
  PROVE  PayInv'
<1>1. /\ call' = [call EXCEPT ![c] = q] /\ q \in Call /\ CallOK(q)
      /\ call \in [Calls -> Call] /\ call[c].pc # "done"
      /\ UNCHANGED <<configured, now, sequence, applied>>
      /\ call[c].tx # None => q.tx = call[c].tx
      /\ call[c].pc = "pending" => q.pc = "done"
      /\ \A t \in stray' \cup queue' :
           \/ t \in stray \cup queue
           \/ t = q.tx /\ q.tx # None /\ q.pc \in {"pending", "done"}
  BY CallFacts DEF Moves
<1>2. /\ stray' \subseteq Tx /\ queue' \subseteq Tx /\ stray \cup queue \subseteq Tx
      /\ \A e \in applied : e.tx \in Tx
  <2>1. q.tx # None => q.tx \in Tx
    BY <1>1 DEF Call
  <2>2. QED
    BY <1>1, <2>1 DEF PayInv, CallInv, TypeOK, Entry
<1>3. CallInv'
  BY <1>1, <1>2 DEF PayInv, CallInv, TypeOK, CallOK
<1>4. \A t \in Tx : Made(t) => Made(t)'
  BY <1>1, MadeStays
<1>5. QueueInv'
  <2>1. ASSUME NEW t \in stray' \cup queue' PROVE Made(t)'
    <3>1. CASE t \in stray \cup queue
      BY <1>2, <1>4, <3>1 DEF PayInv, QueueInv
    <3>2. CASE t = q.tx /\ q.pc \in {"pending", "done"}
      BY <1>1, <3>2 DEF Made
    <3>3. QED
      BY <1>1, <3>1, <3>2
  <2>2. QED
    BY <2>1 DEF OneNext, QueueInv
<1>6. LedgerInv'
  BY <1>1, <1>2, <1>4 DEF PayInv, LedgerInv
<1>7. ASSUME NEW d \in Calls PROVE AnswerOK(d)'
  <2>1. CASE d = c
    BY <2>1
  <2>2. CASE d # c
    <3>1. call'[d] = call[d]
      BY <1>1, <2>2
    <3>2. Told(d, "ok")' => Paid(call[d].tx)'
      BY <1>1, <3>1 DEF PayInv, AnswerOK, Told, At, Paid
    <3>3. ASSUME Told(d, "refused")'
          PROVE  /\ (Unpaid(call[d].tx) \/ Twin(d) \/ Gone(call[d].tx))'
                 /\ (\/ InLedger(call[d].tx)
                     \/ call[d].answeredAt > call[d].builtAt + Lifetime
                     \/ Rival(d))'
      <4> DEFINE t == call[d].tx
      <4>1. Told(d, "refused") /\ t # None
        <5>1. Told(d, "refused")
          BY <3>1, <3>3 DEF Told, At
        <5>2. QED
          BY <5>1, CallFacts DEF Told, At, CallOK
      <4>2. ASSUME NEW b \in Calls, call[b].tx # None
            PROVE  /\ call'[b].tx = call[b].tx
                   /\ call'[b].builtAt = call[b].builtAt
        <5>1. call'[b].tx = call[b].tx
          BY <1>1, <4>2
        <5>2. CallOK(call[b]) /\ CallOK(call'[b]) /\ call[b] \in Call /\ call'[b] \in Call
          BY <1>1, CallFacts
        <5>3. /\ call[b].tx.deadline = call[b].builtAt + Lifetime
              /\ call[b].tx.deadline = call'[b].builtAt + Lifetime
          BY <4>2, <5>1, <5>2 DEF CallOK
        <5>4. call[b].builtAt \in Nat /\ call'[b].builtAt \in Nat /\ Lifetime \in Nat
          BY <5>2, CallFacts DEF Call
        <5>5. call[b].builtAt + Lifetime = call'[b].builtAt + Lifetime
          BY <5>3
        <5>6. call[b].builtAt = call'[b].builtAt
          BY <5>4, <5>5
        <5>7. QED
          BY <5>1, <5>6
      <4>3. ASSUME Twin(d) PROVE Twin(d)'
        BY <3>1, <4>1, <4>2, <4>3 DEF Twin
      <4>4. ASSUME Gone(t) PROVE Gone(call[d].tx)' \/ Twin(d)'
        <5>1. CASE q.tx # t
          BY <1>1, <3>1, <4>4, <5>1 DEF Gone, InLedger
        <5>2. CASE q.tx = t
          BY <1>1, <2>2, <3>1, <5>2 DEF Twin
        <5>3. QED
          BY <5>1, <5>2
      <4>5. ASSUME Rival(d) PROVE Rival(d)'
        BY <1>1, <3>1, <4>2, <4>5 DEF Rival, InLedger
      <4>6. ASSUME Unpaid(t) PROVE Unpaid(call[d].tx)'
        BY <1>1, <3>1, <4>6 DEF Unpaid
      <4>7. InLedger(t) => InLedger(call[d].tx)'
        BY <1>1, <3>1 DEF InLedger
      <4>8. /\ Unpaid(t) \/ Twin(d) \/ Gone(t)
            /\ InLedger(t) \/ call[d].answeredAt > call[d].builtAt + Lifetime
                 \/ Rival(d)
        BY <4>1 DEF PayInv, AnswerOK
      <4> HIDE DEF t
      <4>9. QED
        BY <3>1, <4>3, <4>4, <4>5, <4>6, <4>7, <4>8
    <3>4. QED
      BY <3>2, <3>3 DEF AnswerOK
  <2>3. QED
    BY <2>1, <2>2
<1>8. QED
  BY <1>3, <1>5, <1>6, <1>7 DEF PayInv

\* A call that is told neither success nor refusal.
LEMMA Unanswerable ==
  ASSUME PayInv, NEW c \in Calls, NEW q \in Call, call' = [call EXCEPT ![c] = q],
         q.pc = "done" => q.answer \notin {"ok", "refused"}
  PROVE  AnswerOK(c)'
  BY CallFacts DEF AnswerOK, Told, At

LEMMA SameNext ==
  ASSUME PayInv, UNCHANGED <<now, sequence, queue>>
  PROVE  OneNext'
  BY DEF PayInv, QueueInv, OneNext, Waiting

LEMMA AnswerFields ==
  ASSUME PayInv, NEW c \in Calls, NEW a \in Answers, Answer(c, a)
  PROVE  \E q \in Call :
           /\ call' = [call EXCEPT ![c] = q]
           /\ q.pc = "done" /\ q.answer = a /\ q.answeredAt = now
           /\ q.tx = call[c].tx /\ q.builtAt = call[c].builtAt
<1> DEFINE q == [call[c] EXCEPT !.pc = "done", !.answer = a, !.answeredAt = now]
<1>1. /\ q \in Call /\ q.pc = "done" /\ q.answer = a /\ q.answeredAt = now
      /\ q.tx = call[c].tx /\ q.builtAt = call[c].builtAt
  BY CallFacts DEF Call
<1>2. call' = [call EXCEPT ![c] = q]
  BY DEF Answer, Goto
<1> HIDE DEF q
<1>3. QED
  BY <1>1, <1>2

\* A call ends with an answer that says neither.
LEMMA EndSafe ==
  ASSUME PayInv, NEW c \in Calls, call[c].pc # "done",
         NEW a \in Answers \ {"ok", "refused"}, Answer(c, a),
         UNCHANGED <<configured, now, Ledger>>,
         stray' = stray \/ (call[c].tx # None /\ stray' = stray \cup {call[c].tx})
  PROVE  PayInv'
<1>1. PICK q \in Call :
        /\ call' = [call EXCEPT ![c] = q]
        /\ q.pc = "done" /\ q.answer = a
        /\ q.tx = call[c].tx /\ q.builtAt = call[c].builtAt
  BY AnswerFields
<1>2. CallOK(q)
  BY <1>1, CallFacts DEF CallOK
<1>3. Moves(c, q)
  BY <1>1, <1>2 DEF Moves, Ledger
<1>4. OneNext' /\ AnswerOK(c)'
  BY <1>1, SameNext, Unanswerable DEF Ledger
<1>5. QED
  BY <1>3, <1>4, MoveSafe

\* A call goes on without an answer.
LEMMA GoesOn ==
  ASSUME PayInv, NEW c \in Calls, NEW q \in Call, CallOK(q),
         call' = [call EXCEPT ![c] = q], q.pc # "done",
         call[c].pc \in {"idle", "load", "build"},
         UNCHANGED <<configured, now, stray, Ledger>>
  PROVE  PayInv'
<1>1. call[c].tx = None
  BY CallFacts DEF CallOK
<1>2. Moves(c, q)
  BY <1>1 DEF Moves, Ledger
<1>3. OneNext' /\ AnswerOK(c)'
  BY SameNext, Unanswerable DEF Ledger
<1>4. QED
  BY <1>2, <1>3, MoveSafe

LEMMA BuildSteps ==
  ASSUME PayInv, NEW c \in Calls,
         Begin(c) \/ Load(c) \/ LoadFails(c) \/ Build(c) \/ GiveUp(c)
  PROVE  PayInv'
<1>a. /\ call[c] \in Call /\ CallOK(call[c]) /\ now \in Nat /\ sequence \in Nat
      /\ Lifetime \in Nat
  BY CallFacts
<1>1. CASE Begin(c)
  <2>1. CASE Answer(c, "badRequest")
    BY <1>1, <2>1, EndSafe DEF Begin, At, Answers
  <2>2. ASSUME NEW p \in Payments,
               Goto(c, [call[c] EXCEPT !.pc = "load", !.payment = p])
        PROVE  PayInv'
    <3>1. [call[c] EXCEPT !.pc = "load", !.payment = p] \in Call
      BY <1>a DEF Call
    <3>2. CallOK([call[c] EXCEPT !.pc = "load", !.payment = p])
      BY <1>a, <1>1 DEF Begin, At, CallOK, Call
    <3>3. [call[c] EXCEPT !.pc = "load", !.payment = p].pc = "load"
      BY <1>a DEF Call
    <3>4. QED
      BY <1>1, <2>2, <3>1, <3>2, <3>3, GoesOn DEF Begin, At, Goto
  <2>3. QED
    BY <1>1, <2>1, <2>2 DEF Begin
<1>2. CASE Load(c)
  <2> DEFINE q == [call[c] EXCEPT !.pc = "build", !.loaded = sequence]
  <2>1. q \in Call /\ q.pc = "build"
    BY <1>a DEF Call
  <2>2. CallOK(q)
    BY <1>a, <1>2 DEF Load, At, CallOK, Call
  <2>3. QED
    BY <1>2, <2>1, <2>2, GoesOn DEF Load, At, Goto
<1>3. CASE LoadFails(c)
  BY <1>3, EndSafe DEF LoadFails, At, Answers, Undecided
<1>4. CASE Build(c)
  <2> DEFINE t == Built(call[c])
             q == [call[c] EXCEPT !.pc = "sent", !.tx = t, !.builtAt = now]
  <2>1. /\ call[c].pc = "build" /\ call[c].payment \in Payments
        /\ call[c].loaded \in Nat /\ call[c].loaded <= sequence
    BY <1>a, <1>4 DEF Build, At, CallOK, Call
  <2>2. /\ t \in Tx /\ t.deadline = now + Lifetime
        /\ t.seq = call[c].loaded + 1
    BY <1>a, <2>1 DEF Built, Deadline, Tx
  <2> HIDE DEF t
  <2>3. /\ q \in Call /\ q.pc = "sent" /\ q.tx = t /\ q.builtAt = now
    BY <1>a, <2>2 DEF Call
  <2>4. CallOK(q)
    BY <1>a, <2>1, <2>2, <2>3, NoneAssumption DEF CallOK
  <2>5. QED
    BY <1>4, <2>1, <2>3, <2>4, GoesOn DEF Build, Goto, t
<1>5. CASE GiveUp(c)
  <2>1. call[c].pc \in {"sent", "pending"} /\ call[c].tx # None
    BY <1>a, <1>5 DEF GiveUp, At, CallOK
  <2>2. QED
    BY <1>5, <2>1, EndSafe DEF GiveUp, Answers, Unanswered, Undecided
<1>6. QED
  BY <1>1, <1>2, <1>3, <1>4, <1>5

LEMMA AcceptSafe ==
  ASSUME PayInv, NEW c \in Calls, Accepted(c)
  PROVE  PayInv'
<1> DEFINE t == call[c].tx
           q == [call[c] EXCEPT !.pc = "pending"]
<1>1. /\ call[c] \in Call /\ CallOK(call[c]) /\ call[c].pc = "sent" /\ t # None
      /\ call' = [call EXCEPT ![c] = q]
      /\ UNCHANGED <<configured, now, sequence, stray, applied>>
      /\ (Admissible(t) /\ queue' = queue \cup {t}) \/ UNCHANGED queue
  BY CallFacts DEF Accepted, At, Goto, CallOK
<1>2. q \in Call /\ q.pc = "pending" /\ q.tx = t /\ q.builtAt = call[c].builtAt
  BY <1>1 DEF Call
<1>3. CallOK(q)
  BY <1>1, <1>2 DEF CallOK
<1> HIDE DEF q
<1>4. Moves(c, q)
  BY <1>1, <1>2, <1>3 DEF Moves
<1>5. AnswerOK(c)'
  BY <1>1, <1>2, Unanswerable
<1>6. OneNext'
  <2>1. CASE UNCHANGED queue
    BY <1>1, <2>1, SameNext
  <2>2. CASE Admissible(t) /\ queue' = queue \cup {t}
    BY <1>1, <2>2 DEF OneNext, Admissible, Waiting, PayInv, QueueInv
  <2>3. QED
    BY <1>1, <2>1, <2>2
<1>7. QED
  BY <1>2, <1>4, <1>5, <1>6, MoveSafe

\* Who is refused has a reason: the time, a number that was used, or another
\* transaction that waits.
LEMMA RejectSafe ==
  ASSUME PayInv, NEW c \in Calls, Rejected(c)
  PROVE  PayInv'
<1> DEFINE t == call[c].tx
<1>1. /\ call[c] \in Call /\ CallOK(call[c]) /\ call[c].pc = "sent"
      /\ t # None /\ t \in Tx /\ ~Admissible(t) /\ ~InLedger(t)
      /\ Answer(c, "refused") /\ UNCHANGED <<configured, now, stray, Ledger>>
      /\ now \in Nat /\ sequence \in Nat /\ Lifetime \in Nat
  BY CallFacts DEF Rejected, At, CallOK, InLedger
<1>2. PICK q \in Call :
        /\ call' = [call EXCEPT ![c] = q]
        /\ q.pc = "done" /\ q.answer = "refused" /\ q.answeredAt = now
        /\ q.tx = t /\ q.builtAt = call[c].builtAt
  BY <1>1, AnswerFields DEF Answers
<1>3. CallOK(q) /\ Moves(c, q)
  <2>1. CallOK(q)
    BY <1>1, <1>2 DEF CallOK
  <2>2. QED
    BY <1>1, <1>2, <2>1 DEF Moves, Ledger
<1>4. OneNext'
  BY <1>1, SameNext DEF Ledger
<1>5. call'[c] = q /\ (\A d \in Calls \ {c} : call'[d] = call[d])
  BY <1>2, CallFacts
<1>6. Twin(c)' \/ Gone(call[c].tx)'
  <2>1. CASE t \in stray \cup queue
    <3>1. PICK d \in Calls : call[d].tx = t /\ call[d].pc \in {"pending", "done"}
      BY <2>1 DEF PayInv, QueueInv, Made
    <3>2. d # c
      BY <1>1, <3>1
    <3>3. QED
      BY <1>2, <1>5, <3>1, <3>2 DEF Twin
  <2>2. CASE t \notin stray \cup queue
    BY <1>1, <1>2, <1>5, <2>2 DEF Gone, InLedger, Ledger
  <2>3. QED
    BY <2>1, <2>2
<1>7. q.answeredAt > q.builtAt + Lifetime \/ Rival(c)'
  <2>0. t.seq \in Nat /\ t.deadline = call[c].builtAt + Lifetime
        /\ 1 <= t.seq /\ t.seq <= sequence + 1
    BY <1>1 DEF CallOK, Tx
  <2>a. ASSUME NEW d \in Calls \ {c}, call[d].tx # None, call[d].tx # t,
               call[d].tx.seq = t.seq,
               InLedger(call[d].tx) \/ now <= call[d].builtAt + Lifetime
        PROVE  Rival(c)'
    BY <1>1, <1>2, <1>5, <2>a DEF Rival, InLedger, Ledger
  <2>1. CASE ~(now <= t.deadline)
    BY <1>1, <1>2, <2>0, <2>1 DEF Call
  <2>2. CASE t.seq # sequence + 1
    <3>1. t.seq <= sequence
      BY <1>1, <2>0, <2>2
    <3>2. PICK e \in applied : e.tx.seq = t.seq
      BY <2>0, <3>1 DEF PayInv, LedgerInv
    <3>3. PICK d \in Calls : call[d].tx = e.tx
      BY <3>2 DEF PayInv, LedgerInv, Made
    <3>4. e.tx # t /\ e.tx \in Tx
      BY <1>1, <3>2 DEF InLedger, PayInv, CallInv, TypeOK, Entry
    <3>5. d # c /\ call[d].tx # None
      BY <3>3, <3>4, NoneAssumption
    <3>6. InLedger(call[d].tx)
      BY <3>2, <3>3 DEF InLedger
    <3>7. QED
      BY <2>a, <3>2, <3>3, <3>4, <3>5, <3>6
  <2>3. CASE t.seq = sequence + 1 /\ \E u \in queue : Waiting(u) /\ u # t
    <3>1. PICK u \in queue : Waiting(u) /\ u # t
      BY <2>3
    <3>2. u.seq = sequence + 1 /\ now <= u.deadline /\ u \in Tx /\ Made(u)
      BY <3>1 DEF PayInv, QueueInv, Waiting, CallInv, TypeOK
    <3>3. PICK d \in Calls : call[d].tx = u
      BY <3>2 DEF Made
    <3>4. d # c /\ call[d].tx # None
      BY <3>1, <3>2, <3>3, NoneAssumption
    <3>5. u.deadline = call[d].builtAt + Lifetime
      BY <3>3, <3>4, CallFacts DEF CallOK
    <3>6. QED
      BY <2>3, <2>a, <3>1, <3>2, <3>3, <3>4, <3>5
  <2>4. QED
    BY <1>1, <2>1, <2>2, <2>3 DEF Admissible
<1>8. AnswerOK(c)'
  <2>1. ~Told(c, "ok")'
    BY <1>2, <1>5 DEF Told, At
  <2>2. call'[c].answeredAt = q.answeredAt /\ call'[c].builtAt = q.builtAt
    BY <1>5
  <2>3. QED
    BY <1>6, <1>7, <2>1, <2>2 DEF AnswerOK
<1>9. QED
  BY <1>3, <1>4, <1>8, MoveSafe

LEMMA AnsweredSafe ==
  ASSUME PayInv, NEW c \in Calls, Answered(c)
  PROVE  PayInv'
<1>1. PICK e \in applied : e.tx = call[c].tx /\ Answer(c, Outcome(e))
  BY DEF Answered
<1>2. /\ call[c] \in Call /\ CallOK(call[c]) /\ call[c].pc = "pending"
      /\ call[c].tx # None /\ UNCHANGED <<configured, now, stray, Ledger>>
  BY CallFacts DEF Answered, At, CallOK
<1>3. Outcome(e) \in Answers
  BY DEF Outcome, Answers
<1>4. PICK q \in Call :
        /\ call' = [call EXCEPT ![c] = q]
        /\ q.pc = "done" /\ q.answer = Outcome(e)
        /\ q.tx = call[c].tx /\ q.builtAt = call[c].builtAt
  BY <1>1, <1>3, AnswerFields
<1>5. CallOK(q)
  BY <1>2, <1>4 DEF CallOK
<1>6. Moves(c, q)
  BY <1>2, <1>4, <1>5 DEF Moves, Ledger
<1>7. OneNext'
  BY <1>2, SameNext DEF Ledger
<1>8. AnswerOK(c)'
  <2>1. call'[c] = q /\ UNCHANGED applied
    BY <1>2, <1>4, CallFacts DEF Ledger
  <2>2. CASE e.paid
    BY <1>1, <1>4, <2>1, <2>2 DEF AnswerOK, Told, At, Paid, Outcome
  <2>3. CASE ~e.paid
    BY <1>1, <1>4, <2>1, <2>3 DEF AnswerOK, Told, At, Unpaid, InLedger, Outcome
  <2>4. QED
    BY <2>2, <2>3
<1>9. QED
  BY <1>6, <1>7, <1>8, MoveSafe

\* Steps of the network and of the clock, which change no call.
LEMMA LedgerSafe ==
  ASSUME PayInv, UNCHANGED <<configured, call>>, now' \in Nat,
         sequence' \in Nat, sequence <= sequence',
         stray' \cup queue' \subseteq stray \cup queue,
         applied \subseteq applied', applied' \subseteq Entry,
         \A e \in applied' \ applied : e.tx \in queue,
         \A e \in applied' : /\ e.at <= e.tx.deadline
                             /\ 1 <= e.tx.seq /\ e.tx.seq <= sequence',
         \A d, e \in applied' : d.tx.seq = e.tx.seq => d = e,
         \A n \in Nat : 1 <= n /\ n <= sequence' =>
           \E e \in applied' : e.tx.seq = n,
         OneNext'
  PROVE  PayInv'
<1>1. \A t : Made(t)' <=> Made(t)
  BY DEF Made
<1>2. CallInv'
  <2>1. TypeOK'
    BY DEF PayInv, CallInv, TypeOK
  <2>2. ASSUME NEW c \in Calls PROVE CallOK(call[c])'
    <3>1. call[c] \in Call /\ CallOK(call[c]) /\ sequence \in Nat
          /\ (call[c].tx # None => call[c].tx.seq \in Nat)
      BY CallFacts DEF Tx
    <3>2. call[c].loaded \in Nat
      BY <3>1 DEF Call
    <3>3. call[c].tx # None => call[c].tx.seq <= sequence' + 1
      BY <3>1 DEF CallOK
    <3>4. call[c].pc = "build" => call[c].loaded <= sequence'
      BY <3>1, <3>2 DEF CallOK
    <3>5. QED
      BY <3>1, <3>3, <3>4 DEF CallOK
  <2>3. QED
    BY <2>1, <2>2 DEF CallInv
<1>3. QueueInv'
  BY <1>1 DEF PayInv, QueueInv, OneNext
<1>4. LedgerInv'
  <2>1. \A e \in applied' : Made(e.tx)
    BY DEF PayInv, LedgerInv, QueueInv
  <2>2. QED
    BY <1>1, <2>1 DEF LedgerInv
<1>5. ASSUME NEW c \in Calls PROVE AnswerOK(c)'
  <2>1. /\ Paid(call[c].tx) => Paid(call[c].tx)'
        /\ Unpaid(call[c].tx) => Unpaid(call[c].tx)'
        /\ InLedger(call[c].tx) => InLedger(call[c].tx)'
    BY DEF Paid, Unpaid, InLedger
  <2>2. Twin(c) => Twin(c)'
    BY DEF Twin
  <2>3. Rival(c) => Rival(c)'
    BY DEF Rival, InLedger
  <2>4. Gone(call[c].tx) => Gone(call[c].tx)'
    BY DEF Gone, InLedger
  <2>5. QED
    BY <2>1, <2>2, <2>3, <2>4 DEF PayInv, AnswerOK, Told, At
<1>6. QED
  BY <1>2, <1>3, <1>4, <1>5 DEF PayInv

LEMMA NetworkSteps ==
  ASSUME PayInv, Arrives \/ Apply \/ Expire \/ Tick
  PROVE  PayInv'
<1>a. /\ now \in Nat /\ sequence \in Nat /\ applied \subseteq Entry
      /\ queue \subseteq Tx /\ stray \subseteq Tx
      /\ \A e \in applied : /\ e.at <= e.tx.deadline
                            /\ 1 <= e.tx.seq /\ e.tx.seq <= sequence
      /\ \A d, e \in applied : d.tx.seq = e.tx.seq => d = e
      /\ \A n \in Nat : 1 <= n /\ n <= sequence =>
           \E e \in applied : e.tx.seq = n
      /\ \A t \in queue : Waiting(t) => t.seq = sequence + 1
      /\ \A t, u \in queue : Waiting(t) /\ Waiting(u) => t = u
  BY DEF PayInv, CallInv, TypeOK, LedgerInv, QueueInv
<1>1. CASE Arrives
  <2>1. PICK t \in stray :
          /\ stray' = stray \ {t}
          /\ queue' = queue \/ (Admissible(t) /\ queue' = queue \cup {t})
    BY <1>1 DEF Arrives
  <2>2. UNCHANGED <<configured, now, call, sequence, applied>>
    BY <1>1 DEF Arrives
  <2>3. OneNext'
    <3>1. CASE queue' = queue
      BY <2>2, <3>1, SameNext
    <3>2. CASE Admissible(t) /\ queue' = queue \cup {t}
      BY <1>a, <2>2, <3>2 DEF OneNext, Admissible, Waiting
    <3>3. QED
      BY <2>1, <3>1, <3>2
  <2>4. QED
    BY <1>a, <2>1, <2>2, <2>3, LedgerSafe
<1>2. CASE Apply
  <2>1. PICK t \in queue, paid \in BOOLEAN :
          /\ Waiting(t) /\ t.seq = sequence + 1
          /\ applied' = applied \cup {[tx |-> t, paid |-> paid, at |-> now]}
          /\ sequence' = t.seq
          /\ queue' = queue \ {t}
    BY <1>2 DEF Apply
  <2>2. UNCHANGED <<configured, now, call, stray>>
    BY <1>2 DEF Apply
  <2>3. PICK e \in Entry : /\ e.tx = t /\ e.at = now
                           /\ applied' = applied \cup {e}
    BY <1>a, <2>1 DEF Entry
  <2>4. now <= t.deadline /\ sequence' = sequence + 1
    BY <2>1 DEF Waiting
  <2>5. OneNext'
    BY <1>a, <2>1, <2>2 DEF OneNext, Waiting
  <2>6. \A d \in applied : d.tx.seq \in Nat
    BY <1>a DEF Entry, Tx
  <2>7. \A d \in applied' : /\ d.at <= d.tx.deadline
                            /\ 1 <= d.tx.seq /\ d.tx.seq <= sequence'
    BY <1>a, <2>1, <2>3, <2>4, <2>6
  <2>8. \A d, f \in applied' : d.tx.seq = f.tx.seq => d = f
    BY <1>a, <2>1, <2>3, <2>6
  <2>9. ASSUME NEW n \in Nat, 1 <= n, n <= sequence'
        PROVE  \E d \in applied' : d.tx.seq = n
    <3>1. CASE n = sequence + 1
      BY <2>1, <2>3, <3>1
    <3>2. CASE n # sequence + 1
      BY <1>a, <2>3, <2>4, <2>9, <3>2
    <3>3. QED
      BY <3>1, <3>2
  <2>10. /\ sequence' \in Nat /\ sequence <= sequence'
         /\ applied' \subseteq Entry /\ now' \in Nat
         /\ stray' \cup queue' \subseteq stray \cup queue
    BY <1>a, <2>1, <2>2, <2>3, <2>4
  <2>11. QED
    BY <2>1, <2>2, <2>3, <2>5, <2>7, <2>8, <2>9, <2>10, LedgerSafe
<1>3. CASE Expire
  <2>1. queue' \subseteq queue /\ UNCHANGED <<configured, now, call, sequence, stray, applied>>
    BY <1>3 DEF Expire
  <2>2. OneNext'
    BY <1>a, <2>1 DEF OneNext, Waiting
  <2>3. QED
    BY <1>a, <2>1, <2>2, LedgerSafe
<1>4. CASE Tick
  <2>1. now' = now + 1 /\ UNCHANGED <<configured, call, sequence, stray, queue, applied>>
    BY <1>4 DEF Tick, Ledger
  <2>2. \A t \in queue : Waiting(t)' => Waiting(t)
    BY <1>a, <2>1 DEF Waiting, Tx
  <2>3. OneNext'
    BY <1>a, <2>1, <2>2 DEF OneNext
  <2>4. QED
    BY <1>a, <2>1, <2>3, LedgerSafe
<1>5. QED
  BY <1>1, <1>2, <1>3, <1>4

-----------------------------------------------------------------------------
LEMMA InitInv ==
  ASSUME Init
  PROVE  PayInv
<1>1. NoCall \in Call /\ CallOK(NoCall)
  BY DEF NoCall, Call, CallOK
<1>2. CallInv
  BY <1>1 DEF Init, CallInv, TypeOK
<1>3. QueueInv /\ LedgerInv
  BY DEF Init, QueueInv, LedgerInv
<1>4. \A c \in Calls : AnswerOK(c)
  BY DEF Init, AnswerOK, Told, At, NoCall
<1>5. QED
  BY <1>2, <1>3, <1>4 DEF PayInv

LEMMA NextInv ==
  ASSUME PayInv, [Next]_vars
  PROVE  PayInv'
<1>1. ASSUME NEW c \in Calls, Pay(c)
      PROVE  PayInv'
  BY <1>1, BuildSteps, AcceptSafe, RejectSafe, AnsweredSafe DEF Pay
<1>2. CASE Arrives \/ Apply \/ Expire \/ Tick
  BY <1>2, NetworkSteps
<1>3. CASE UNCHANGED vars
  <2>1. UNCHANGED <<configured, now, call, sequence, stray, queue, applied>>
    BY <1>3 DEF vars
  <2>2. OneNext'
    BY <2>1, SameNext
  <2>3. QED
    BY <2>1, <2>2, LedgerSafe DEF PayInv, CallInv, TypeOK, LedgerInv
<1>4. QED
  BY <1>1, <1>2, <1>3 DEF Next

\* PayInv is the inductive invariant of the payments: what waits was sent by
\* a call, the ledger has one transaction for each number, and a refusal is
\* final and has a reason.
THEOREM Invariant == Spec => []PayInv
<1>1. Init => PayInv
  BY InitInv
<1>2. PayInv /\ [Next]_vars => PayInv'
  BY NextInv
<1>3. QED
  BY <1>1, <1>2, PTL DEF Spec

\* The calls, the clock and the ledger keep their types.
THEOREM PaymentTypes == Spec => []TypeOK
<1>1. PayInv => TypeOK
  BY DEF PayInv, CallInv
<1>2. QED
  BY <1>1, Invariant, PTL

\* What setTimeout(30) is for: no payment is in the ledger but one that a
\* call made no longer than Lifetime before, and a number has one.
THEOREM OnTime == Spec => []PaidInTime
<1>1. PayInv => PaidInTime
  <2>1. SUFFICES ASSUME PayInv PROVE PaidInTime
    OBVIOUS
  <2>2. ASSUME NEW e \in applied
        PROVE  \E c \in Calls : call[c].tx = e.tx /\ e.at <= call[c].builtAt + Lifetime
    <3>1. PICK c \in Calls : call[c].tx = e.tx
      BY <2>1 DEF PayInv, LedgerInv, Made
    <3>2. e.tx \in Tx /\ e.at <= e.tx.deadline
      BY <2>1 DEF PayInv, LedgerInv, CallInv, TypeOK, Entry
    <3>3. e.tx.deadline = call[c].builtAt + Lifetime
      BY <2>1, <3>1, <3>2, CallFacts, NoneAssumption DEF CallOK
    <3>4. QED
      BY <3>1, <3>2, <3>3
  <2>3. QED
    BY <2>1, <2>2 DEF PaidInTime, PayInv, LedgerInv
<1>2. QED
  BY <1>1, Invariant, PTL

\* An answer of success or of refusal says what becomes of the payment,
\* unless two calls have made one transaction.
THEOREM AnswersHold == Spec => []AnswersTrue
<1>1. PayInv => AnswersTrue
  <2>1. SUFFICES ASSUME PayInv, NEW c \in Calls
                 PROVE  /\ Told(c, "ok") => Paid(call[c].tx)
                        /\ Told(c, "refused") /\ Paid(call[c].tx) => Twin(c)
    BY DEF AnswersTrue, Twin
  <2>2. Told(c, "ok") => Paid(call[c].tx)
    BY <2>1 DEF PayInv, AnswerOK
  <2>3. ASSUME Told(c, "refused"), Paid(call[c].tx)
        PROVE  Twin(c)
    <3>1. ~Unpaid(call[c].tx)
      BY <2>1, <2>3 DEF Paid, Unpaid, PayInv, LedgerInv
    <3>2. ~Gone(call[c].tx)
      BY <2>3 DEF Paid, Gone, InLedger
    <3>3. QED
      BY <2>1, <2>3, <3>1, <3>2 DEF PayInv, AnswerOK
  <2>4. QED
    BY <2>2, <2>3
<1>2. QED
  BY <1>1, Invariant, PTL

\* A payment that is refused came too late or has a rival for its number.
THEOREM RefusalsExplained == Spec => []RefusedForARival
<1>1. PayInv => RefusedForARival
  BY DEF PayInv, AnswerOK, RefusedForARival, Rival, InLedger
<1>2. QED
  BY <1>1, Invariant, PTL

-----------------------------------------------------------------------------
(* Payments implements PaymentFates.                                       *)

LEMMA MappedCall ==
  ASSUME PayInv, NEW c \in Calls, NEW q, call' = [call EXCEPT ![c] = q]
  PROVE  /\ SentBy' = [SentBy EXCEPT ![c] = q.tx] /\ SentBy'[c] = q.tx
         /\ SentBy[c] = call[c].tx
         /\ q.pc = "done" => /\ ToldTo' = [ToldTo EXCEPT ![c] = q.answer]
                             /\ ToldTo'[c] = q.answer
         /\ q.pc # "done" => ToldTo' = [ToldTo EXCEPT ![c] = None]
         /\ call[c].pc # "done" => ToldTo[c] = None
<1>1. call \in [Calls -> Call]
  BY CallFacts
<1>2. QED
  BY <1>1 DEF SentBy, ToldTo, At

\* Only what a call sends and what it has sent come on the way or leave it.
LEMMA MappedWay ==
  ASSUME PayInv, NEW c \in Calls, NEW q, call' = [call EXCEPT ![c] = q],
         NEW t, t \in queue' \cup stray' <=> t \in queue \cup stray,
         t # call[c].tx, t # q.tx
  PROVE  t \in OnTheWay' <=> t \in OnTheWay
<1>1. call \in [Calls -> Call]
  BY CallFacts
<1>2. call'[c] = q /\ \A d \in Calls \ {c} : call'[d] = call[d]
  BY <1>1
<1>3. QED
  BY <1>2 DEF OnTheWay, At

LEMMA WayFacts ==
  ASSUME PayInv, NEW t \in OnTheWay
  PROVE  /\ t \in Tx /\ t.seq \in Nat /\ t.deadline \in Nat
         /\ t.seq <= sequence + 1
<1>1. PICK d \in Calls : call[d].tx = t
  BY DEF OnTheWay, PayInv, QueueInv, Made
<1>2. t # None
  BY <1>1, CallFacts, NoneAssumption DEF OnTheWay, PayInv, CallInv, TypeOK, At, CallOK
<1>3. t \in Tx /\ CallOK(call[d])
  BY <1>1, <1>2, CallFacts
<1>4. QED
  BY <1>1, <1>2, <1>3 DEF CallOK, Tx

\* What is in the ledger is open no more.
LEMMA LedgerCloses ==
  ASSUME PayInv, NEW e \in applied
  PROVE  e.tx \notin Open /\ e.tx.seq \in Nat /\ e.tx.seq <= sequence
<1>1. e.tx \in Tx /\ e.tx.seq <= sequence /\ sequence \in Nat
  BY DEF PayInv, LedgerInv, CallInv, TypeOK, Entry
<1>2. QED
  BY <1>1 DEF Open, Tx

\* A call goes on with the transaction it has.
LEMMA StaysTold ==
  ASSUME PayInv, NEW c \in Calls, NEW q, call' = [call EXCEPT ![c] = q],
         q.tx = call[c].tx, q.pc # "done", call[c].pc # "done",
         UNCHANGED <<now, applied>>, Open' = Open
  PROVE  UNCHANGED Fates!fates
<1>1. /\ SentBy' = [SentBy EXCEPT ![c] = SentBy[c]]
      /\ ToldTo' = [ToldTo EXCEPT ![c] = ToldTo[c]]
  <2>1. /\ SentBy' = [SentBy EXCEPT ![c] = q.tx] /\ SentBy[c] = call[c].tx
        /\ ToldTo' = [ToldTo EXCEPT ![c] = None] /\ ToldTo[c] = None
    BY MappedCall
  <2>2. QED
    BY <2>1
<1>2. SentBy' = SentBy /\ ToldTo' = ToldTo
  BY <1>1 DEF SentBy, ToldTo
<1>3. PaidOnes' = PaidOnes
  BY DEF PaidOnes
<1>4. QED
  BY <1>2, <1>3 DEF Fates!fates

LEMMA AnswerMapped ==
  ASSUME PayInv, NEW c \in Calls, call[c].pc # "done",
         NEW a \in Answers, Answer(c, a),
         UNCHANGED <<configured, now, Ledger>>,
         stray' = stray \/ (At(c, "sent") /\ stray' = stray \cup {call[c].tx}),
         a = "ok" => call[c].tx \in PaidOnes,
         a = "refused" => /\ call[c].tx # None /\ call[c].tx \notin PaidOnes
                          /\ call[c].tx \notin Open' \/ Twin(c),
         a \in {"badRequest", "notFound"} => call[c].tx = None
  PROVE  Fates!Tell(c)
<1> DEFINE t == call[c].tx
<1>1. PICK q \in Call :
        /\ call' = [call EXCEPT ![c] = q]
        /\ q.pc = "done" /\ q.answer = a /\ q.tx = t
  BY AnswerFields
<1>2. /\ SentBy' = [SentBy EXCEPT ![c] = SentBy[c]] /\ SentBy[c] = t
      /\ ToldTo' = [ToldTo EXCEPT ![c] = a] /\ ToldTo'[c] = a
      /\ ToldTo[c] = None
  <2>1. /\ SentBy' = [SentBy EXCEPT ![c] = q.tx] /\ SentBy[c] = call[c].tx
        /\ ToldTo' = [ToldTo EXCEPT ![c] = q.answer] /\ ToldTo'[c] = q.answer
        /\ ToldTo[c] = None
    BY <1>1, MappedCall
  <2>2. QED
    BY <1>1, <2>1
<1>3. SentBy' = SentBy /\ PaidOnes' = PaidOnes
  BY <1>2 DEF SentBy, PaidOnes, Ledger
<1>4. \A u : u # t => (u \in OnTheWay' <=> u \in OnTheWay)
  BY <1>1, MappedWay DEF Ledger
<1>5. t \in OnTheWay' => t \in OnTheWay
  <2>1. \A d \in Calls : call'[d].pc = "sent" => call'[d] = call[d]
    BY <1>1, CallFacts
  <2>2. QED
    BY <2>1 DEF OnTheWay, At, Ledger
<1>6. \A u : u # t => (u \in Open' <=> u \in Open)
  BY <1>4 DEF Open, Ledger
<1>7. t \in Open' => t \in Open
  BY <1>5 DEF Open, Ledger
<1>8. Open' \in {Open, Open \ {t}}
  BY <1>6, <1>7
<1>9. Twin(c) => \E d \in Calls \ {c} : SentBy[d] = SentBy[c]
  BY DEF Twin, SentBy
<1>10. QED
  BY <1>2, <1>3, <1>8, <1>9 DEF Fates!Tell

LEMMA CallsMapped ==
  ASSUME PayInv, PayInv', NEW c \in Calls, Pay(c)
  PROVE  Fates!Send(c) \/ Fates!Tell(c) \/ UNCHANGED Fates!fates
<1>a. /\ call[c] \in Call /\ CallOK(call[c]) /\ call \in [Calls -> Call]
      /\ call[c].tx # None => call[c].tx \in Tx
      /\ now \in Nat /\ sequence \in Nat /\ Lifetime \in Nat
  BY CallFacts
<1>b. ASSUME NEW q \in Call, call' = [call EXCEPT ![c] = q],
             call[c].pc \in {"idle", "load", "build"},
             q.pc \in {"load", "build"}, q.tx = call[c].tx,
             UNCHANGED <<now, stray, Ledger>>
      PROVE  UNCHANGED Fates!fates
  <2>1. \A d \in Calls : At(d, "sent")' = At(d, "sent")
    BY <1>a, <1>b DEF At
  <2>2. \A d \in Calls : call'[d].tx = call[d].tx
    BY <1>a, <1>b
  <2>3. OnTheWay' = OnTheWay
    BY <1>b, <2>1, <2>2 DEF OnTheWay, Ledger
  <2>4. Open' = Open
    BY <1>b, <2>3 DEF Open, Ledger
  <2>5. QED
    BY <1>b, <2>4, StaysTold DEF Ledger
<1>1. CASE Begin(c)
  <2>1. CASE Answer(c, "badRequest")
    BY <1>1, <1>a, <2>1, AnswerMapped DEF Begin, At, Answers, CallOK
  <2>2. ASSUME NEW p \in Payments,
               Goto(c, [call[c] EXCEPT !.pc = "load", !.payment = p])
        PROVE  UNCHANGED Fates!fates
    BY <1>1, <1>a, <1>b, <2>2 DEF Begin, At, Goto, Call
  <2>3. QED
    BY <1>1, <2>1, <2>2 DEF Begin
<1>2. CASE Load(c)
  BY <1>2, <1>a, <1>b DEF Load, At, Goto, Call
<1>3. CASE LoadFails(c)
  BY <1>3, <1>a, AnswerMapped DEF LoadFails, At, Answers, Undecided, CallOK
<1>4. CASE Build(c)
  <2> DEFINE t == Built(call[c])
             q == [call[c] EXCEPT !.pc = "sent", !.tx = t, !.builtAt = now]
  <2>1. /\ call[c].pc = "build" /\ call[c].payment \in Payments
        /\ call[c].loaded \in Nat /\ call[c].loaded <= sequence
        /\ call[c].tx = None
    BY <1>a, <1>4 DEF Build, At, CallOK, Call
  <2>2. /\ t \in Tx /\ t.deadline = now + Lifetime
        /\ t.seq = call[c].loaded + 1
    BY <1>a, <2>1 DEF Built, Deadline, Tx
  <2> HIDE DEF t
  <2>3. /\ q \in Call /\ q.pc = "sent" /\ q.tx = t
        /\ call' = [call EXCEPT ![c] = q]
        /\ UNCHANGED <<configured, now, stray, Ledger>>
    BY <1>a, <1>4, <2>2 DEF Call, Build, Goto, t
  <2> HIDE DEF q
  <2>4. /\ SentBy' = [SentBy EXCEPT ![c] = t] /\ SentBy'[c] = t
        /\ SentBy[c] = None /\ ToldTo[c] = None
        /\ ToldTo' = [ToldTo EXCEPT ![c] = ToldTo[c]]
    BY <2>1, <2>3, MappedCall
  <2>5. ToldTo' = ToldTo /\ PaidOnes' = PaidOnes
    BY <2>3, <2>4 DEF ToldTo, PaidOnes, Ledger
  <2>6. OnTheWay' = OnTheWay \cup {t}
    <3>1. /\ call'[c] = q /\ call[c].pc # "sent"
          /\ \A d \in Calls \ {c} : call'[d] = call[d]
      BY <1>a, <2>1, <2>3
    <3>2. \A u : u \in OnTheWay' <=> u \in OnTheWay \/ u = t
      BY <2>3, <3>1 DEF OnTheWay, At, Ledger
    <3>3. QED
      BY <3>2
  <2>7. CASE t.seq = sequence + 1
    <3>1. Open' = Open \cup {t}
      BY <1>a, <2>2, <2>3, <2>6, <2>7 DEF Open, Ledger
    <3>2. t \notin PaidOnes
      BY <1>a, <2>7, LedgerCloses DEF PaidOnes
    <3>3. QED
      BY <2>2, <2>3, <2>4, <2>5, <3>1, <3>2 DEF Fates!Send
  <2>8. CASE t.seq # sequence + 1
    <3>1. Open' = Open
      BY <2>3, <2>6, <2>8 DEF Open, Ledger
    <3>2. QED
      BY <2>2, <2>3, <2>4, <2>5, <3>1 DEF Fates!Send
  <2>9. QED
    BY <2>7, <2>8
<1>5. CASE Accepted(c)
  <2> DEFINE t == call[c].tx
             q == [call[c] EXCEPT !.pc = "pending"]
  <2>1. /\ q \in Call /\ q.pc = "pending" /\ q.tx = t
        /\ call[c].pc = "sent" /\ call' = [call EXCEPT ![c] = q]
        /\ UNCHANGED <<now, sequence, stray, applied>>
    BY <1>a, <1>5 DEF Accepted, At, Goto, Call
  <2> HIDE DEF q
  <2>2. \A u : u # t => (u \in OnTheWay' <=> u \in OnTheWay)
    BY <1>5, <2>1, MappedWay DEF Accepted
  <2>3. t \in OnTheWay
    BY <2>1 DEF OnTheWay, At
  <2>4. Open' = Open
    <3>1. CASE queue' = queue \cup {t}
      <4>1. t \in OnTheWay'
        BY <3>1 DEF OnTheWay
      <4>2. QED
        BY <2>1, <2>2, <2>3, <4>1 DEF Open
    <3>2. CASE \E e \in applied : e.tx = t
      <4>1. t.seq # sequence + 1
        BY <1>a, <3>2, LedgerCloses
      <4>2. QED
        BY <2>1, <2>2, <4>1 DEF Open
    <3>3. QED
      BY <1>5, <3>1, <3>2 DEF Accepted
  <2>5. QED
    BY <2>1, <2>4, StaysTold
<1>c. ASSUME Answer(c, "refused"), UNCHANGED <<now, stray, Ledger>>
      PROVE  call[c].tx \notin Open' \/ Twin(c)
  <2>1. PICK q \in Call : /\ call' = [call EXCEPT ![c] = q] /\ q.pc = "done"
                          /\ q.answer = "refused" /\ q.tx = call[c].tx
    BY <1>c, AnswerFields DEF Answers
  <2>2. /\ call'[c] = q /\ \A d \in Calls : call'[d].tx = call[d].tx
        /\ \A d \in Calls \ {c} : call'[d] = call[d]
    BY <1>a, <2>1
  <2>3. (Unpaid(call[c].tx) \/ Twin(c) \/ Gone(call[c].tx))'
    BY <2>1, <2>2 DEF PayInv, AnswerOK, Told, At
  <2>4. Twin(c)' => Twin(c)
    BY <2>2 DEF Twin
  <2>5. ASSUME Unpaid(call[c].tx)' PROVE call[c].tx \notin Open'
    <3>1. PICK e \in applied : e.tx = call[c].tx
      BY <1>c, <2>2, <2>5 DEF Unpaid, Ledger
    <3>2. e.tx.seq # sequence + 1
      BY <1>a, LedgerCloses
    <3>3. QED
      BY <1>c, <3>1, <3>2 DEF Open, Ledger
  <2>6. ASSUME Gone(call[c].tx)' PROVE call[c].tx \notin Open' \/ Twin(c)
    BY <1>c, <2>1, <2>2, <2>6 DEF Gone, Open, OnTheWay, Twin, At, Ledger
  <2>7. QED
    BY <2>3, <2>4, <2>5, <2>6
<1>6. CASE Rejected(c)
  <2>1. call[c].tx # None /\ call[c].tx \notin PaidOnes /\ call[c].pc # "done"
    BY <1>6, <1>a DEF Rejected, At, CallOK, PaidOnes
  <2>2. QED
    BY <1>6, <1>c, <2>1, AnswerMapped DEF Rejected, Answers
<1>7. CASE Answered(c)
  <2>1. PICK e \in applied : e.tx = call[c].tx /\ Answer(c, Outcome(e))
    BY <1>7 DEF Answered
  <2>2. call[c].tx # None /\ call[c].pc # "done"
        /\ UNCHANGED <<configured, now, stray, Ledger>>
    BY <1>7, <1>a DEF Answered, At, CallOK
  <2>3. CASE e.paid
    <3>1. call[c].tx \in PaidOnes
      BY <2>1, <2>3 DEF PaidOnes
    <3>2. Answer(c, "ok")
      BY <2>1, <2>3 DEF Outcome
    <3>3. QED
      BY <2>2, <3>1, <3>2, AnswerMapped DEF Answers
  <2>4. CASE ~e.paid
    <3>1. call[c].tx \notin PaidOnes
      BY <2>1, <2>4 DEF PaidOnes, PayInv, LedgerInv
    <3>2. Answer(c, "refused")
      BY <2>1, <2>4 DEF Outcome
    <3>3. QED
      BY <1>c, <2>2, <3>1, <3>2, AnswerMapped DEF Answers
  <2>5. QED
    BY <2>3, <2>4
<1>8. CASE GiveUp(c)
  <2>1. call[c].pc \in {"sent", "pending"}
    BY <1>8 DEF GiveUp, At
  <2>2. QED
    BY <1>8, <2>1, AnswerMapped DEF GiveUp, Answers, Unanswered, Undecided
<1>9. QED
  BY <1>1, <1>2, <1>3, <1>4, <1>5, <1>6, <1>7, <1>8 DEF Pay

LEMMA NetworkMapped ==
  ASSUME PayInv, Arrives \/ Apply \/ Expire \/ Tick
  PROVE  Fates!Next \/ UNCHANGED Fates!fates
<1>a. now \in Nat /\ sequence \in Nat
  BY DEF PayInv, CallInv, TypeOK
<1>b. SentBy' = SentBy /\ ToldTo' = ToldTo
  BY DEF Arrives, Apply, Expire, Tick, SentBy, ToldTo, At
<1>1. CASE Arrives
  <2>1. PICK t \in stray :
          /\ stray' = stray \ {t}
          /\ queue' = queue \/ queue' = queue \cup {t}
    BY <1>1 DEF Arrives
  <2>2. UNCHANGED <<configured, now, call, sequence, applied>>
    BY <1>1 DEF Arrives
  <2>3. t \in OnTheWay /\ OnTheWay' \in {OnTheWay, OnTheWay \ {t}}
    <3>1. t \in OnTheWay
      BY DEF OnTheWay
    <3>2. \A u : u # t => (u \in OnTheWay' <=> u \in OnTheWay)
      BY <2>1, <2>2 DEF OnTheWay, At
    <3>3. QED
      BY <3>1, <3>2
  <2>4. Open' = Open \/ (t \in Open /\ Open' = Open \ {t})
    BY <2>2, <2>3 DEF Open
  <2>5. PaidOnes' = PaidOnes
    BY <2>2 DEF PaidOnes
  <2>6. QED
    BY <1>b, <2>2, <2>4, <2>5 DEF Fates!Next, Fates!Lose, Fates!fates
<1>2. CASE Apply
  <2>1. PICK t \in queue, paid \in BOOLEAN :
          /\ Waiting(t) /\ t.seq = sequence + 1
          /\ applied' = applied \cup {[tx |-> t, paid |-> paid, at |-> now]}
          /\ sequence' = t.seq
          /\ queue' = queue \ {t}
    BY <1>2 DEF Apply
  <2>2. UNCHANGED <<configured, now, call, stray>>
    BY <1>2 DEF Apply
  <2>3. t \in Open
    BY <2>1 DEF Open, OnTheWay, Waiting
  <2>4. Open' = {}
    <3>1. OnTheWay' \subseteq OnTheWay
      BY <2>1, <2>2 DEF OnTheWay, At
    <3>2. \A u \in OnTheWay : u.seq # sequence' + 1
      BY <1>a, <2>1, WayFacts
    <3>3. QED
      BY <3>1, <3>2 DEF Open
  <2>5. PaidOnes' \in {PaidOnes, PaidOnes \cup {t}}
    <3> DEFINE e == [tx |-> t, paid |-> paid, at |-> now]
    <3>1. e.tx = t /\ e.paid = paid /\ applied' = applied \cup {e}
      BY <2>1
    <3> HIDE DEF e
    <3>2. CASE paid
      BY <3>1, <3>2 DEF PaidOnes
    <3>3. CASE ~paid
      BY <3>1, <3>3 DEF PaidOnes
    <3>4. QED
      BY <3>2, <3>3
  <2>6. Fates!Decide
    BY <1>b, <2>2, <2>3, <2>4, <2>5 DEF Fates!Decide
  <2>7. QED
    BY <2>6 DEF Fates!Next
<1>3. CASE Expire
  <2>1. PICK t \in queue : ~Waiting(t) /\ queue' = queue \ {t}
    BY <1>3 DEF Expire
  <2>2. UNCHANGED <<configured, now, call, sequence, stray, applied>>
    BY <1>3 DEF Expire
  <2>3. \A u : u # t => (u \in OnTheWay' <=> u \in OnTheWay)
    BY <2>1, <2>2 DEF OnTheWay, At
  <2>4. ~(now <= t.deadline)
    BY <2>1 DEF Waiting
  <2>5. Open' = Open
    BY <2>2, <2>3, <2>4 DEF Open
  <2>6. PaidOnes' = PaidOnes
    BY <2>2 DEF PaidOnes
  <2>7. QED
    BY <1>b, <2>2, <2>5, <2>6 DEF Fates!fates
<1>4. CASE Tick
  <2>1. now' = now + 1 /\ UNCHANGED <<configured, call, sequence, stray, queue, applied>>
    BY <1>4 DEF Tick, Ledger
  <2>2. OnTheWay' = OnTheWay /\ PaidOnes' = PaidOnes
    BY <2>1 DEF OnTheWay, PaidOnes, At
  <2>3. \A t \in OnTheWay : now' <= t.deadline => now <= t.deadline
    BY <1>a, <2>1, WayFacts
  <2>4. Open' = {t \in Open : now' <= t.deadline}
    BY <2>1, <2>2, <2>3 DEF Open
  <2>5. Fates!Tick
    BY <1>b, <2>1, <2>2, <2>4 DEF Fates!Tick
  <2>6. QED
    BY <2>5 DEF Fates!Next
<1>5. QED
  BY <1>1, <1>2, <1>3, <1>4

LEMMA InitMapped ==
  ASSUME Init
  PROVE  Fates!Init
<1>1. \A c \in Calls : call[c].tx = None /\ call[c].pc = "idle"
  BY DEF Init, NoCall
<1>2. SentBy = [c \in Calls |-> None] /\ ToldTo = [c \in Calls |-> None]
  BY <1>1 DEF SentBy, ToldTo, At
<1>3. Open = {} /\ PaidOnes = {}
  BY <1>1 DEF Init, Open, OnTheWay, PaidOnes, At
<1>4. QED
  BY <1>2, <1>3 DEF Init, Fates!Init

\* sendPayment keeps what PaymentFates promises, for any number of calls and
\* any lifetime: a payment can be made for no longer than Lifetime after its
\* call, at most one of those that compete is made, and what a call answers
\* about it is the truth then and later.
THEOREM PaymentsImplementFates == Spec => RefinesFates
<1>1. PayInv /\ PayInv' /\ [Next]_vars => [Fates!Next]_(Fates!fates)
  <2> SUFFICES ASSUME PayInv, PayInv', [Next]_vars
               PROVE  [Fates!Next]_(Fates!fates)
    OBVIOUS
  <2>1. ASSUME NEW c \in Calls, Pay(c) PROVE Fates!Next \/ UNCHANGED Fates!fates
    BY <2>1, CallsMapped DEF Fates!Next
  <2>2. CASE UNCHANGED vars
    <3>1. OnTheWay' = OnTheWay /\ PaidOnes' = PaidOnes
      BY <2>2 DEF vars, OnTheWay, PaidOnes, At
    <3>2. QED
      BY <2>2, <3>1 DEF vars, Open, SentBy, ToldTo, At, Fates!fates
  <2>3. QED
    BY <2>1, <2>2, NetworkMapped DEF Next
<1>2. Spec => Fates!Init
  BY InitMapped DEF Spec
<1>3. QED
  BY <1>1, <1>2, Invariant, PTL DEF Spec, RefinesFates, Fates!Spec
=============================================================================
