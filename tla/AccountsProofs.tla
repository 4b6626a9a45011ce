---------------------------- MODULE AccountsProofs ----------------------------
(***************************************************************************)
(* Theorems about accounts, for every set of e-mails and request slots and *)
(* every term.                                                             *)
(***************************************************************************)
EXTENDS Accounts, TLAPS

\* A request that looks for an e-mail has one, one that is to delete an
\* account has a date, and a registration does not name an account until it
\* has inserted it.
Fits(q) ==
    /\ q.pc \in {"findEmail", "create"} => q.email \in Emails
    /\ q.pc = "stamp" => q.at \in Nat
    /\ q.pc = "create" \/ (q.pc = "findEmail" /\ q.op = "register") => q.id = 0

TypeInv ==
    /\ TypeOK
    /\ nextId > 0
    /\ \A r \in Requests : Fits(req[r])

\* Ids are used once.
IdInv == \A a \in accounts : 0 < a.id /\ a.id < nextId

\* The date in an account is not before those of all the requests that were
\* in progress at its last deletion.
DateInv ==
    \A a \in accounts : a.deletedAt # None =>
      \E d \in deletions :
        d.id = a.id /\ \E t \in d.asked : t <= a.deletedAt

AccountInv == TypeInv /\ IdInv /\ TableOK /\ SendersStay /\ DateInv

Lands(q) == q \in Request /\ Fits(q)

LEMMA AnswerLands ==
  ASSUME TypeInv, NEW r \in Requests, NEW a \in Answers, Answer(r, a)
  PROVE  \E q : Lands(q) /\ Put(r, q)
<1>1. req[r] \in Request
  BY DEF TypeInv, TypeOK
<1>2. Lands([Idle EXCEPT !.pc = "done", !.answer = a])
  BY DEF Lands, Idle, Request, Fits, Date
<1>3. QED
  BY <1>2 DEF Answer

LEMMA PutSafe ==
  ASSUME TypeInv, NEW r \in Requests, NEW q, Lands(q), Put(r, q)
  PROVE  req' \in [Requests -> Request] /\ \A x \in Requests : Fits(req'[x])
  BY DEF TypeInv, TypeOK, Lands, Put

-----------------------------------------------------------------------------
(* Steps that change a request only.                                       *)

Quiet(r) ==
    \/ Begin(r) \/ FindEmail(r) \/ StoreHash(r) \/ WriteFails(r)
    \/ FindToken(r) \/ Abort(r) \/ Reply(r)

LEMMA StartLands ==
  ASSUME TypeInv, NEW r \in Requests, NEW pc \in Steps, NEW op \in Ops, NEW n \in Nat,
         NEW e \in Emails \cup {None}, Start(r, pc, op, n, e),
         pc = "findEmail" => e \in Emails,
         pc # "create", pc = "stamp" => op = "softDelete", op = "register" => n = 0
  PROVE  \E q : Lands(q) /\ Put(r, q)
<1> DEFINE t == IF op = "softDelete" THEN now ELSE None
           q == [Idle EXCEPT !.pc = pc, !.op = op, !.id = n, !.email = e,
                   !.at = t]
<1>0. t \in Date /\ (op = "softDelete" => t \in Nat)
  BY DEF Date, TypeInv, TypeOK
<1> HIDE DEF t
<1>1. Lands(q)
  BY <1>0 DEF Lands, Idle, Request, Fits, Answers
<1>2. QED
  BY <1>1 DEF Start, t

LEMMA QuietLands ==
  ASSUME AccountInv, NEW r \in Requests, Quiet(r)
  PROVE  \E q : Lands(q) /\ Put(r, q)
<1>a. TypeInv /\ req[r] \in Request /\ Fits(req[r])
  BY DEF AccountInv, TypeInv, TypeOK
<1>b. \A a \in accounts : a.id \in Nat
  BY DEF AccountInv, TypeInv, TypeOK, User
<1>1. CASE BeginRegister(r)
  <2>1. PICK e \in Emails : Start(r, "findEmail", "register", 0, e)
    BY <1>1 DEF BeginRegister
  <2>2. QED
    BY <2>1, <1>a, StartLands DEF Steps, Ops
<1>2. CASE BeginOnAccount(r)
  <2>1. PICK a \in accounts :
          \/ \E e \in Emails : Start(r, "findEmail", "update", a.id, e)
          \/ Start(r, "write", "update", a.id, None)
          \/ Start(r, "stamp", "softDelete", a.id, None)
          \/ Start(r, "record", "pay", a.id, None)
    BY <1>2 DEF BeginOnAccount
  <2>2. a.id \in Nat
    BY <1>b
  <2>3. ASSUME NEW e \in Emails, Start(r, "findEmail", "update", a.id, e)
        PROVE  \E q : Lands(q) /\ Put(r, q)
    BY <2>2, <2>3, <1>a, StartLands DEF Steps, Ops
  <2>4. CASE Start(r, "write", "update", a.id, None)
    BY <2>2, <2>4, <1>a, StartLands DEF Steps, Ops
  <2>5. CASE Start(r, "stamp", "softDelete", a.id, None)
    BY <2>2, <2>5, <1>a, StartLands DEF Steps, Ops
  <2>6. CASE Start(r, "record", "pay", a.id, None)
    BY <2>2, <2>6, <1>a, StartLands DEF Steps, Ops
  <2>7. QED
    BY <2>1, <2>3, <2>4, <2>5, <2>6
<1>3. CASE BeginVerify(r)
  <2>1. PICK n \in 1 .. nextId - 1 :
          Start(r, "findToken", "verifyEmail", n, None)
    BY <1>3 DEF BeginVerify
  <2>2. n \in Nat
    BY <1>a DEF TypeInv, TypeOK
  <2>3. QED
    BY <2>1, <2>2, <1>a, StartLands DEF Steps, Ops
<1>4. CASE FindEmail(r)
  <2>1. CASE Answer(r, "conflict")
    BY <1>a, <2>1, AnswerLands DEF Answers
  <2>2. CASE Goto(r, IF req[r].op = "register" THEN "create" ELSE "write")
    <3>1. Lands([req[r] EXCEPT !.pc =
                   IF req[r].op = "register" THEN "create" ELSE "write"])
      BY <1>a, <1>4 DEF FindEmail, At, Lands, Request, Fits, Steps
    <3>2. QED
      BY <2>2, <3>1 DEF Goto
  <2>3. QED
    BY <1>4, <2>1, <2>2 DEF FindEmail
<1>5. CASE FindToken(r)
  <2>1. CASE Answer(r, "badRequest")
    BY <1>a, <2>1, AnswerLands DEF Answers
  <2>2. CASE Goto(r, "confirm")
    <3>1. Lands([req[r] EXCEPT !.pc = "confirm"])
      BY <1>a DEF Lands, Request, Fits, Steps
    <3>2. QED
      BY <2>2, <3>1 DEF Goto
  <2>3. QED
    BY <1>5, <2>1, <2>2 DEF FindToken
<1>6. CASE StoreHash(r) \/ WriteFails(r) \/ Abort(r)
  BY <1>a, <1>6, AnswerLands DEF StoreHash, WriteFails, Abort, Answers
<1>7. CASE Reply(r)
  <2>1. Lands(Idle)
    BY DEF Lands, Idle, Request, Fits, Answers, Date
  <2>2. QED
    BY <1>7, <2>1 DEF Reply
<1>8. QED
  BY <1>1, <1>2, <1>3, <1>4, <1>5, <1>6, <1>7 DEF Quiet, Begin

LEMMA QuietStep ==
  ASSUME AccountInv, NEW r \in Requests, Quiet(r)
  PROVE  AccountInv'
<1>1. UNCHANGED <<now, accounts, nextId, senders, deletions>>
  BY DEF Quiet, Begin, BeginRegister, BeginOnAccount, BeginVerify, Start,
         FindEmail, StoreHash, WriteFails, FindToken, Abort, Reply
<1>2. req' \in [Requests -> Request] /\ \A x \in Requests : Fits(req'[x])
  BY QuietLands, PutSafe DEF AccountInv
<1>3. QED
  BY <1>1, <1>2 DEF AccountInv, TypeInv, TypeOK, IdInv, TableOK, SendersStay,
                    WithId, DateInv

-----------------------------------------------------------------------------
(* Steps that write.                                                       *)

LEMMA Row ==
  ASSUME AccountInv, NEW a \in accounts
  PROVE  /\ a \in User /\ a.id \in Nat /\ a.email \in Emails
         /\ a.deletedAt \in Date /\ 0 < a.id /\ a.id < nextId
  BY DEF AccountInv, TypeInv, TypeOK, IdInv, User

LEMMA DoneStep ==
  ASSUME AccountInv, NEW r \in Requests, NEW a \in Answers, Answer(r, a)
  PROVE  req' \in [Requests -> Request] /\ \A x \in Requests : Fits(req'[x])
  BY AnswerLands, PutSafe DEF AccountInv

LEMMA CreateStep ==
  ASSUME AccountInv, NEW r \in Requests, Create(r)
  PROVE  AccountInv'
<1>1. /\ req[r] \in Request /\ req[r].email \in Emails /\ req[r].id = 0
      /\ nextId \in Nat /\ nextId > 0
  BY DEF Create, At, AccountInv, TypeInv, TypeOK, Fits
<1>2. /\ accounts' = accounts \cup {NewUser(r)} /\ nextId' = nextId + 1
      /\ UNCHANGED <<now, senders, deletions>>
      /\ Put(r, [req[r] EXCEPT !.pc = "storeHash", !.id = nextId])
  BY DEF Create
<1>3. /\ NewUser(r) \in User /\ NewUser(r).id = nextId
      /\ NewUser(r).email = req[r].email /\ NewUser(r).deletedAt = None
  BY <1>1 DEF NewUser, User, Date
<1>4. \A a \in accounts : a.email # req[r].email /\ a.id # nextId
  <2> SUFFICES ASSUME NEW a \in accounts
               PROVE  a.email # req[r].email /\ a.id # nextId
    OBVIOUS
  <2>1. 0 < a.id /\ a.id < nextId /\ a.id \in Nat
    BY Row
  <2>2. a.email = req[r].email => a.id = req[r].id
    BY DEF Create, EmailAllowed, WithEmail
  <2>3. QED
    BY <1>1, <2>1, <2>2
<1>5. Lands([req[r] EXCEPT !.pc = "storeHash", !.id = nextId])
  BY <1>1 DEF Lands, Request, Fits, Steps
<1>6. req' \in [Requests -> Request] /\ \A x \in Requests : Fits(req'[x])
  BY <1>2, <1>5, PutSafe DEF AccountInv
<1>7. TypeInv'
  BY <1>1, <1>2, <1>3, <1>6 DEF AccountInv, TypeInv, TypeOK
<1>8. IdInv'
  BY <1>1, <1>2, <1>3, Row DEF IdInv
<1>9. TableOK'
  BY <1>2, <1>3, <1>4 DEF AccountInv, TableOK
<1>10. SendersStay' /\ DateInv'
  BY <1>2, <1>3 DEF AccountInv, SendersStay, WithId, DateInv
<1>11. QED
  BY <1>7, <1>8, <1>9, <1>10 DEF AccountInv

LEMMA WriteStep ==
  ASSUME AccountInv, NEW r \in Requests, Write(r)
  PROVE  AccountInv'
<1> DEFINE e == req[r].email
           new(a) == IF a.id = req[r].id THEN Changed(a, e) ELSE a
<1>1. /\ accounts' = {new(a) : a \in accounts}
      /\ UNCHANGED <<now, nextId, senders, deletions>>
      /\ EmailAllowed(r) /\ Answer(r, "ok") /\ e \in Emails \cup {None}
  BY DEF Write, AccountInv, TypeInv, TypeOK, Request
<1>2. \A a \in accounts :
        /\ new(a) \in User /\ new(a).id = a.id
        /\ new(a).deletedAt = a.deletedAt
        /\ new(a).email = a.email \/ (a.id = req[r].id /\ new(a).email = e)
  BY <1>1, Row DEF Changed, User
<1>3. \A a \in accounts : a.email = e => a.id = req[r].id
  BY <1>1 DEF EmailAllowed, WithEmail
<1> HIDE DEF new, e
<1>4. TypeInv' /\ IdInv'
  BY <1>1, <1>2, DoneStep DEF AccountInv, TypeInv, TypeOK, Answers, IdInv
<1>5. TableOK'
  <2> SUFFICES ASSUME NEW a \in accounts, NEW b \in accounts,
                      \/ new(a).id = new(b).id
                      \/ new(a).email = new(b).email
               PROVE  a = b
    BY <1>1 DEF TableOK
  <2>1. a.id = b.id \/ a.email = b.email
    BY <1>2, <1>3
  <2>2. QED
    BY <2>1 DEF AccountInv, TableOK
<1>6. SendersStay' /\ DateInv'
  BY <1>1, <1>2 DEF AccountInv, SendersStay, WithId, DateInv
<1>7. QED
  BY <1>4, <1>5, <1>6 DEF AccountInv

LEMMA ConfirmStep ==
  ASSUME AccountInv, NEW r \in Requests, Confirm(r)
  PROVE  AccountInv'
<1> DEFINE new(a) == IF a.id = req[r].id
                     THEN [a EXCEPT !.isVerified = TRUE, !.token = FALSE]
                     ELSE a
<1>1. /\ accounts' = {new(a) : a \in accounts}
      /\ UNCHANGED <<now, nextId, senders, deletions>>
      /\ Answer(r, "ok") \/ Answer(r, "error")
  BY DEF Confirm
<1>2. \A a \in accounts :
        /\ new(a) \in User /\ new(a).id = a.id
        /\ new(a).deletedAt = a.deletedAt /\ new(a).email = a.email
  BY Row DEF User
<1> HIDE DEF new
<1>3. TypeInv' /\ IdInv'
  BY <1>1, <1>2, DoneStep DEF AccountInv, TypeInv, TypeOK, Answers, IdInv
<1>4. TableOK'
  BY <1>1, <1>2 DEF AccountInv, TableOK
<1>5. SendersStay' /\ DateInv'
  BY <1>1, <1>2 DEF AccountInv, SendersStay, WithId, DateInv
<1>6. QED
  BY <1>3, <1>4, <1>5 DEF AccountInv

LEMMA StampStep ==
  ASSUME AccountInv, NEW r \in Requests, Stamp(r)
  PROVE  AccountInv'
<1> DEFINE n == req[r].id
           t == req[r].at
           new(a) == IF a.id = n THEN Stamped(a, t) ELSE a
           mark == [id |-> n, asked |-> Asked(n)]
<1>1. /\ accounts' = {new(a) : a \in accounts}
      /\ UNCHANGED <<now, nextId, senders>>
      /\ Answer(r, "ok") \/ Answer(r, "error")
      /\ deletions' = {d \in deletions : d.id # n}
           \cup {[id |-> a.id, asked |-> Asked(a.id)] : a \in WithId(n)}
  BY DEF Stamp
<1>a. t \in Nat /\ t \in Asked(n) /\ Asked(n) \subseteq Nat
  BY DEF Stamp, At, Asked, AccountInv, TypeInv, Fits
<1>2. \A a \in accounts :
        /\ new(a) \in User /\ new(a).id = a.id /\ new(a).email = a.email
        /\ new(a).deletedAt = IF a.id = n THEN t ELSE a.deletedAt
  BY <1>a, Row DEF Stamped, User, Date
<1>3. \A a \in accounts : a.id = n => mark \in deletions'
  BY <1>1 DEF WithId
<1>4. deletions' \subseteq [id: Nat, asked: SUBSET Nat]
  BY <1>1, <1>a, Row DEF WithId, AccountInv, TypeInv, TypeOK
<1>5. mark.id = n /\ t \in mark.asked /\ t <= t
  BY <1>a
<1>6. \A d \in deletions : d.id # n => d \in deletions'
  BY <1>1
<1> HIDE DEF new, mark, n, t
<1>7. TypeInv' /\ IdInv'
  BY <1>1, <1>2, <1>4, DoneStep
     DEF AccountInv, TypeInv, TypeOK, Answers, IdInv
<1>8. TableOK'
  BY <1>1, <1>2 DEF AccountInv, TableOK
<1>9. SendersStay'
  BY <1>1, <1>2 DEF AccountInv, SendersStay, WithId
<1>10. DateInv'
  <2> SUFFICES ASSUME NEW a \in accounts, new(a).deletedAt # None
               PROVE  \E d \in deletions' :
                        /\ d.id = new(a).id
                        /\ \E s \in d.asked : s <= new(a).deletedAt
    BY <1>1 DEF DateInv
  <2>1. CASE a.id = n
    BY <1>2, <1>3, <1>5, <2>1
  <2>2. CASE a.id # n
    BY <1>2, <1>6, <2>2 DEF AccountInv, DateInv
  <2>3. QED
    BY <2>1, <2>2
<1>11. QED
  BY <1>7, <1>8, <1>9, <1>10 DEF AccountInv

LEMMA RecordStep ==
  ASSUME AccountInv, NEW r \in Requests, Record(r)
  PROVE  AccountInv'
<1>1. /\ senders' = senders \cup {a.id : a \in WithId(req[r].id)}
      /\ Answer(r, "ok") \/ Answer(r, "error")
      /\ UNCHANGED <<now, accounts, nextId, deletions>>
  BY DEF Record
<1>2. senders' \subseteq Nat /\ SendersStay'
  BY <1>1, Row DEF WithId, SendersStay, AccountInv, TypeInv, TypeOK
<1>3. QED
  BY <1>1, <1>2, DoneStep
     DEF AccountInv, TypeInv, TypeOK, Answers, IdInv, TableOK, DateInv

\* A purge takes no account that is anyone's sender.
LEMMA PurgeStep ==
  ASSUME AccountInv, Purge
  PROVE  AccountInv'
<1>1. PICK s \in 0 .. now :
        ~Blocked(s) /\ accounts' = accounts \ Due(s)
  BY DEF Purge
<1>2. UNCHANGED <<now, nextId, senders, req, deletions>>
  BY DEF Purge
<1>3. SendersStay'
  BY <1>1, <1>2 DEF AccountInv, SendersStay, WithId, Blocked
<1>4. QED
  BY <1>1, <1>2, <1>3 DEF AccountInv, TypeInv, TypeOK, IdInv, TableOK, DateInv

LEMMA TickStep ==
  ASSUME AccountInv, Tick
  PROVE  AccountInv'
  BY DEF Tick, AccountInv, TypeInv, TypeOK, IdInv, TableOK, SendersStay,
         WithId, DateInv

-----------------------------------------------------------------------------
(* The theorems.                                                           *)

LEMMA InitInv == Init => AccountInv
<1> SUFFICES ASSUME Init PROVE AccountInv
  OBVIOUS
<1>1. Idle \in Request /\ Fits(Idle)
  BY DEF Idle, Request, Fits, Answers, Date
<1>2. QED
  BY <1>1 DEF Init, AccountInv, TypeInv, TypeOK, IdInv, TableOK,
              SendersStay, DateInv

LEMMA NextInv == AccountInv /\ [Next]_vars => AccountInv'
<1> SUFFICES ASSUME AccountInv, [Next]_vars PROVE AccountInv'
  OBVIOUS
<1>1. ASSUME UNCHANGED vars PROVE AccountInv'
  BY <1>1 DEF vars, AccountInv, TypeInv, TypeOK, IdInv, TableOK,
              SendersStay, WithId, DateInv
<1>2. ASSUME NEW r \in Requests, Begin(r) \/ Serve(r) \/ Abort(r)
      PROVE  AccountInv'
  BY <1>2, QuietStep, CreateStep, WriteStep, StampStep, ConfirmStep,
     RecordStep DEF Serve, Quiet
<1>3. QED
  BY <1>1, <1>2, PurgeStep, TickStep DEF Next

LEMMA Invariant == Spec => []AccountInv
  BY InitInv, NextInv, PTL DEF Spec

\* Every variable keeps its type.
THEOREM AccountTypes == Spec => []TypeOK
  BY Invariant, PTL DEF AccountInv, TypeInv

\* No two accounts share an id or an e-mail (register, update).
THEOREM EmailsUnique == Spec => []TableOK
  BY Invariant, PTL DEF AccountInv

\* Every transaction has its sender (TransactionsService.create beside
\* cleanupSoftDeletedUsers).
THEOREM SendersKept == Spec => []SendersStay
  BY Invariant, PTL DEF AccountInv

\* Accounts go only when the term has passed since they were last asked to
\* be deleted, or since a request in progress at the same time (softDelete,
\* cleanupSoftDeletedUsers).
THEOREM PurgedInTime == Spec => TermHonoured
<1>1. AccountInv /\ [Next]_vars =>
        [\A a \in accounts : (\A b \in accounts' : b.id # a.id) =>
           \E d \in deletions : /\ d.id = a.id
                                /\ \E t \in d.asked : now - t > Term]_vars
  <2> SUFFICES ASSUME AccountInv, [Next]_vars, NEW a \in accounts,
                      \A b \in accounts' : b.id # a.id
               PROVE  \E d \in deletions :
                        d.id = a.id /\ \E t \in d.asked : now - t > Term
    OBVIOUS
  <2>1. ASSUME NEW r \in Requests, Begin(r) \/ Serve(r) \/ Abort(r)
        PROVE  \E b \in accounts' : b.id = a.id
    <3>1. CASE Quiet(r) \/ Record(r)
      BY <3>1 DEF Quiet, Begin, BeginRegister, BeginOnAccount, BeginVerify,
                  Start, FindEmail, StoreHash, WriteFails, FindToken, Abort,
                  Reply, Record
    <3>2. CASE Create(r)
      BY <3>2 DEF Create
    <3>3. CASE Write(r) \/ Stamp(r) \/ Confirm(r)
      <4>1. a \in User
        BY Row
      <4>2. \A e : Changed(a, e).id = a.id
        BY <4>1 DEF Changed, User
      <4>3. \A t : Stamped(a, t).id = a.id
        BY <4>1 DEF Stamped, User
      <4>4. [a EXCEPT !.isVerified = TRUE, !.token = FALSE].id = a.id
        BY <4>1 DEF User
      <4>5. CASE Write(r)
        BY <4>2, <4>5 DEF Write
      <4>6. CASE Stamp(r)
        BY <4>3, <4>6 DEF Stamp
      <4>7. CASE Confirm(r)
        BY <4>4, <4>7 DEF Confirm
      <4>8. QED
        BY <3>3, <4>5, <4>6, <4>7
    <3>4. QED
      BY <2>1, <3>1, <3>2, <3>3 DEF Serve, Quiet
  <2>2. Purge
    BY <2>1 DEF Next, vars, Tick
  <2>3. PICK s \in 0 .. now : a \in Due(s)
    BY <2>2 DEF Purge
  <2>4. a.deletedAt # None /\ a.deletedAt < s - Term
    BY <2>3 DEF Due
  <2>5. PICK d \in deletions :
          d.id = a.id /\ \E t \in d.asked : t <= a.deletedAt
    BY <2>4 DEF AccountInv, DateInv
  <2>6. PICK t \in d.asked : t <= a.deletedAt
    BY <2>5
  <2>7. /\ now \in Nat /\ s \in Int /\ s <= now /\ Term \in Nat /\ t \in Nat
        /\ a.deletedAt \in Nat
    BY <2>4, BoundAssumption, Row DEF AccountInv, TypeInv, TypeOK, Date
  <2>8. QED
    BY <2>4, <2>5, <2>6, <2>7
<1>2. QED
  BY <1>1, Invariant, PTL DEF Spec, TermHonoured

-----------------------------------------------------------------------------
(* What holds the purge back.                                              *)

\* An account keeps its id and its date of deletion.
LEMMA RewriteKeeps ==
  ASSUME AccountInv, NEW r \in Requests, Write(r) \/ Confirm(r),
         NEW a \in accounts
  PROVE  \E b \in accounts' : b.id = a.id /\ b.deletedAt = a.deletedAt
<1>1. a \in User
  BY Row
<1>2. \A e : Changed(a, e).id = a.id /\ Changed(a, e).deletedAt = a.deletedAt
  BY <1>1 DEF Changed, User
<1> DEFINE c == [a EXCEPT !.isVerified = TRUE, !.token = FALSE]
<1>3. c.id = a.id /\ c.deletedAt = a.deletedAt
  BY <1>1 DEF User
<1>4. CASE Write(r)
  BY <1>2, <1>4 DEF Write
<1>5. CASE Confirm(r)
  <2>1. a \in accounts' \/ c \in accounts'
    BY <1>5 DEF Confirm
  <2>2. QED
    BY <1>3, <2>1
<1>6. QED
  BY <1>4, <1>5

LEMMA StampKeeps ==
  ASSUME AccountInv, NEW r \in Requests, Stamp(r), NEW a \in accounts
  PROVE  /\ \E b \in accounts' : b.id = a.id
         /\ a \in accounts' \/ req[r].id = a.id
<1>1. a \in User
  BY Row
<1> DEFINE b == Stamped(a, req[r].at)
<1>2. b.id = a.id
  BY <1>1 DEF Stamped, User
<1>3. a \in accounts' \/ (b \in accounts' /\ req[r].id = a.id)
  BY DEF Stamp
<1> HIDE DEF b
<1>4. QED
  BY <1>2, <1>3

\* While an account with transactions is due no account is purged, whatever
\* is done with it, until it is asked to be deleted again (softDelete beside
\* cleanupSoftDeletedUsers).
THEOREM PurgeIsHeldBack == Spec => HeldBack
<1> DEFINE A == \A a \in Due(now) : a.id \in senders =>
         /\ \A b \in accounts : (\A c \in accounts' : c.id # b.id) =>
              b \in Due(now) /\ b.deletedAt < a.deletedAt
         /\ \/ (\E b \in Due(now) : b.id = a.id /\ b.id \in senders)'
            \/ \E r \in Requests :
                 At(r, "stamp") /\ req[r].id = a.id /\ At(r, "done")'
<1>1. AccountInv /\ [Next]_vars => [A]_vars
  <2> SUFFICES ASSUME AccountInv, [Next]_vars, NEW a \in Due(now),
                      a.id \in senders
               PROVE  /\ \A b \in accounts :
                           (\A c \in accounts' : c.id # b.id) =>
                             b \in Due(now) /\ b.deletedAt < a.deletedAt
                      /\ \/ (\E b \in Due(now) : b.id = a.id /\ b.id \in senders)'
                         \/ \E r \in Requests :
                              At(r, "stamp") /\ req[r].id = a.id /\ At(r, "done")'
    OBVIOUS
  <2>1. /\ a \in accounts /\ a.deletedAt # None /\ a.deletedAt < now - Term
        /\ a.deletedAt \in Nat /\ now \in Nat /\ Term \in Nat
    BY Row, BoundAssumption DEF Due, AccountInv, TypeInv, TypeOK, User, Date
  <2>2. CASE Purge
    <3>1. PICK t \in 0 .. now : ~Blocked(t) /\ accounts' = accounts \ Due(t)
      BY <2>2 DEF Purge
    <3>2. a \notin Due(t) /\ UNCHANGED <<now, senders, req>>
      BY <2>2, <3>1 DEF Purge, Blocked
    <3>3. t <= now /\ t \in Int /\ ~(a.deletedAt < t - Term)
      BY <2>1, <3>1, <3>2 DEF Due
    <3>4. ASSUME NEW b \in accounts, \A c \in accounts' : c.id # b.id
          PROVE  b \in Due(now) /\ b.deletedAt < a.deletedAt
      <4>1. b \in Due(t)
        BY <3>1, <3>4
      <4>2. b.deletedAt # None /\ b.deletedAt < t - Term
        BY <4>1 DEF Due
      <4>3. b.deletedAt \in Nat
        BY <4>2, Row DEF Date
      <4>4. QED
        BY <2>1, <3>3, <4>2, <4>3 DEF Due
    <3>5. a \in accounts'
      BY <2>1, <3>1, <3>2
    <3>6. (\E b \in Due(now) : b.id = a.id /\ b.id \in senders)'
      BY <2>1, <3>2, <3>5 DEF Due
    <3>7. QED
      BY <3>4, <3>6
  <2>3. ~Purge => senders \subseteq senders' /\ now' \in Nat /\ now' >= now
    <3> SUFFICES ASSUME ~Purge
                 PROVE  senders \subseteq senders' /\ now' \in Nat /\ now' >= now
      OBVIOUS
    <3>1. CASE UNCHANGED vars \/ Tick
      BY <2>1, <3>1 DEF vars, Tick
    <3>2. ASSUME NEW r \in Requests, Begin(r) \/ Serve(r) \/ Abort(r)
          PROVE  senders \subseteq senders' /\ now' = now
      BY <3>2 DEF Begin, BeginRegister, BeginOnAccount, BeginVerify, Start,
                  Serve, FindEmail, Create, StoreHash, Write, WriteFails,
                  Stamp, FindToken, Confirm, Record, Reply, Abort
    <3>3. QED
      BY <2>1, <3>1, <3>2 DEF Next
  <2>4. ASSUME ~Purge, NEW b, b \in accounts', b.id = a.id,
               b.deletedAt = a.deletedAt
        PROVE  b \in Due(now)' /\ b.id \in senders'
    BY <2>1, <2>3, <2>4 DEF Due
  <2>5. CASE ~Purge /\ accounts \subseteq accounts'
    BY <2>1, <2>4, <2>5
  <2>6. ASSUME ~Purge, NEW r \in Requests, Write(r) \/ Confirm(r)
        PROVE  /\ \A b \in accounts : \E c \in accounts' : c.id = b.id
               /\ (\E b \in Due(now) : b.id = a.id /\ b.id \in senders)'
    BY <2>1, <2>4, <2>6, RewriteKeeps
  <2>7. ASSUME ~Purge, NEW r \in Requests, Stamp(r)
        PROVE  /\ \A b \in accounts : \E c \in accounts' : c.id = b.id
               /\ \/ (\E b \in Due(now) : b.id = a.id /\ b.id \in senders)'
                  \/ At(r, "stamp") /\ req[r].id = a.id /\ At(r, "done")'
    <3>1. At(r, "stamp") /\ At(r, "done")'
      <4>1. req \in [Requests -> Request]
        BY DEF AccountInv, TypeInv, TypeOK
      <4>2. PICK o \in Answers : Answer(r, o)
        BY <2>7 DEF Stamp, Answers
      <4>3. [Idle EXCEPT !.pc = "done", !.answer = o].pc = "done"
        BY DEF Idle
      <4>4. QED
        BY <2>7, <4>1, <4>2, <4>3 DEF Stamp, Answer, Put, At
    <3>2. QED
      BY <2>1, <2>4, <2>7, <3>1, StampKeeps
  <2>8. ASSUME NEW r \in Requests, Begin(r) \/ Serve(r) \/ Abort(r)
        PROVE  \/ accounts \subseteq accounts'
               \/ Write(r) \/ Confirm(r) \/ Stamp(r)
    BY <2>8 DEF Begin, BeginRegister, BeginOnAccount, BeginVerify, Start,
                Serve, FindEmail, Create, StoreHash, WriteFails, FindToken,
                Record, Reply, Abort
  <2>9. QED
    BY <2>2, <2>5, <2>6, <2>7, <2>8 DEF Next, vars, Tick
<1> HIDE DEF A
<1>2. QED
  BY <1>1, Invariant, PTL DEF Spec, HeldBack, A
=============================================================================
