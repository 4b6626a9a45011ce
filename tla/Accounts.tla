------------------------------- MODULE Accounts -------------------------------
(***************************************************************************)
(* Accounts: registration and verification (src/src/auth/auth.service.ts), *)
(* change of e-mail and soft deletion (src/src/users/users.service.ts),    *)
(* the weekly purge (src/src/cleanup/cleanup.service.ts), and the one      *)
(* thing about transactions that matters to them: a row of Transaction     *)
(* refers to its sender, and the schema does not let the sender go.        *)
(*                                                                         *)
(* One Prisma call is one step, together with the code up to the next      *)
(* await.  Sessions and passwords are left out; ids are numbered in the    *)
(* order of insertion.                                                     *)
(*                                                                         *)
(* A definition whose name has a suffix after an underscore is the one     *)
(* without the suffix as a plausible bug would have it.                    *)
(***************************************************************************)
EXTENDS Integers, FiniteSets

CONSTANTS
    Emails,
    Requests,     \* slots for requests being served at the same time
    MaxAccounts,  \* bound on the rows ever inserted
    Term,         \* how long an account stays after its deletion (30 days)
    MaxTime,      \* bound on the clock
    Faults,       \* a request may die at any of its awaits
    None          \* no e-mail, no date

ASSUME BoundAssumption == {MaxAccounts, Term, MaxTime} \subseteq Nat
ASSUME SwitchAssumption == Faults \in BOOLEAN
ASSUME NoneAssumption == None \notin Emails \cup Nat

VARIABLES
    now,        \* Date.now()
    accounts,   \* rows of the User table
    nextId,     \* the id the next inserted row gets
    senders,    \* the senderIds of the rows of the Transaction table
    req,        \* the request each slot is serving
    deletions   \* history: the last deletion of each account

vars == <<now, accounts, nextId, senders, req, deletions>>

Date == Nat \cup {None}

\* token says that verificationToken is not null.
User == [id: Nat, email: Emails, isVerified: BOOLEAN, token: BOOLEAN,
         deletedAt: Date]

Ops == {"register", "update", "softDelete", "verifyEmail", "pay"}
Steps == {"findEmail", "create", "storeHash", "write", "stamp", "findToken",
          "confirm", "record"}
Answers == {"none", "ok", "conflict", "badRequest", "error"}

\* at is the date in the statement of a softDelete.
Request ==
    [pc: Steps \cup {"idle", "done"}, op: Ops \cup {"none"}, id: Nat,
     email: Emails \cup {None}, at: Date, answer: Answers]

Idle == [pc |-> "idle", op |-> "none", id |-> 0, email |-> None,
         at |-> None, answer |-> "none"]

WithId(n) == {a \in accounts : a.id = n}
WithEmail(e) == {a \in accounts : a.email = e}
Present(r) == WithId(req[r].id) # {}

\* The dates of the requests to delete account n that are in progress.
Asked(n) ==
    {req[x].at : x \in {y \in Requests : req[y].pc = "stamp" /\ req[y].id = n}}

At(r, pc) == req[r].pc = pc
Put(r, q) == req' = [req EXCEPT ![r] = q]
Goto(r, pc) == Put(r, [req[r] EXCEPT !.pc = pc])
Answer(r, a) == Put(r, [Idle EXCEPT !.pc = "done", !.answer = a])

-----------------------------------------------------------------------------
Init ==
    /\ now = 0
    /\ accounts = {}
    /\ nextId = 1
    /\ senders = {}
    /\ req = [r \in Requests |-> Idle]
    /\ deletions = {}

Start(r, pc, op, n, e) ==
    /\ At(r, "idle")
    /\ Put(r, [Idle EXCEPT !.pc = pc, !.op = op, !.id = n, !.email = e,
                 !.at = IF op = "softDelete" THEN now ELSE None])
    /\ UNCHANGED <<now, accounts, nextId, senders, deletions>>

\* Bounded so that ids stay within 1 .. MaxAccounts.
BeginRegister(r) ==
    /\ nextId + Cardinality({x \in Requests : req[x].op = "register"})
         <= MaxAccounts
    /\ \E e \in Emails : Start(r, "findEmail", "register", 0, e)

\* JwtStrategy.validate has found the account, deleted or not.  A PATCH may
\* leave the e-mail alone.  A softDelete takes the date when it makes its
\* statement.
BeginOnAccount(r) ==
    \E a \in accounts :
      \/ \E e \in Emails : Start(r, "findEmail", "update", a.id, e)
      \/ Start(r, "write", "update", a.id, None)
      \/ Start(r, "stamp", "softDelete", a.id, None)
      \/ Start(r, "record", "pay", a.id, None)

\* A verification token, spent or not, names the account it was made for.
BeginVerify(r) ==
    \E n \in 1 .. nextId - 1 : Start(r, "findToken", "verifyEmail", n, None)

-----------------------------------------------------------------------------
\* register and update: findUnique by e-mail.
FindEmail(r) ==
    /\ At(r, "findEmail")
    /\ IF \E a \in WithEmail(req[r].email) : a.id # req[r].id
       THEN Answer(r, "conflict")
       ELSE Goto(r, IF req[r].op = "register" THEN "create" ELSE "write")
    /\ UNCHANGED <<now, accounts, nextId, senders, deletions>>

NewUser(r) ==
    [id |-> nextId, email |-> req[r].email, isVerified |-> FALSE,
     token |-> TRUE, deletedAt |-> None]

\* email is UNIQUE.
EmailAllowed_NotUnique(r) == TRUE
EmailAllowed(r) == \A a \in WithEmail(req[r].email) : a.id = req[r].id

Create(r) ==
    /\ At(r, "create")
    /\ EmailAllowed(r)
    /\ accounts' = accounts \cup {NewUser(r)}
    /\ nextId' = nextId + 1
    /\ Put(r, [req[r] EXCEPT !.pc = "storeHash", !.id = nextId])
    /\ UNCHANGED <<now, senders, deletions>>

\* The first session of the account: the hash is written by id.
StoreHash(r) ==
    /\ At(r, "storeHash")
    /\ Answer(r, IF Present(r) THEN "ok" ELSE "error")
    /\ UNCHANGED <<now, accounts, nextId, senders, deletions>>

Changed_Restored(a, e) ==
    [a EXCEPT !.email = IF e = None THEN @ ELSE e, !.deletedAt = None]
Changed(a, e) == [a EXCEPT !.email = IF e = None THEN @ ELSE e]

Write(r) ==
    /\ At(r, "write")
    /\ Present(r) /\ EmailAllowed(r)
    /\ accounts' = {IF a.id = req[r].id THEN Changed(a, req[r].email) ELSE a
                      : a \in accounts}
    /\ Answer(r, "ok")
    /\ UNCHANGED <<now, nextId, senders, deletions>>

\* P2002 or P2025, which neither service nor filter catches: a 500.
WriteFails(r) ==
    /\ \/ At(r, "create") /\ ~EmailAllowed(r)
       \/ At(r, "write") /\ ~(Present(r) /\ EmailAllowed(r))
    /\ Answer(r, "error")
    /\ UNCHANGED <<now, accounts, nextId, senders, deletions>>

-----------------------------------------------------------------------------
Stamped_WithCutoff(a, t) == [a EXCEPT !.deletedAt = t - Term]
Stamped_Once(a, t) == [a EXCEPT !.deletedAt = IF @ = None THEN t ELSE @]
Stamped(a, t) == [a EXCEPT !.deletedAt = t]

\* softDelete; a second one moves the date, back too when the first is still
\* in progress.
Stamp(r) ==
    /\ At(r, "stamp")
    /\ accounts' = {IF a.id = req[r].id THEN Stamped(a, req[r].at) ELSE a
                      : a \in accounts}
    /\ deletions' = {d \in deletions : d.id # req[r].id} \cup
         {[id |-> a.id, asked |-> Asked(a.id)] : a \in WithId(req[r].id)}
    /\ Answer(r, IF Present(r) THEN "ok" ELSE "error")
    /\ UNCHANGED <<now, nextId, senders>>

\* verifyEmail: findFirst by token, then an update by id.
FindToken(r) ==
    /\ At(r, "findToken")
    /\ IF \E a \in WithId(req[r].id) : a.token
       THEN Goto(r, "confirm") ELSE Answer(r, "badRequest")
    /\ UNCHANGED <<now, accounts, nextId, senders, deletions>>

Confirm(r) ==
    /\ At(r, "confirm")
    /\ accounts' = {IF a.id = req[r].id
                    THEN [a EXCEPT !.isVerified = TRUE, !.token = FALSE]
                    ELSE a : a \in accounts}
    /\ Answer(r, IF Present(r) THEN "ok" ELSE "error")
    /\ UNCHANGED <<now, nextId, senders, deletions>>

\* TransactionsService.create; senderId REFERENCES User.
Record(r) ==
    /\ At(r, "record")
    /\ senders' = senders \cup {a.id : a \in WithId(req[r].id)}
    /\ Answer(r, IF Present(r) THEN "ok" ELSE "error")
    /\ UNCHANGED <<now, accounts, nextId, deletions>>

-----------------------------------------------------------------------------
Abort(r) ==
    /\ Faults
    /\ req[r].pc \in Steps
    /\ Answer(r, "error")
    /\ UNCHANGED <<now, accounts, nextId, senders, deletions>>

Reply(r) ==
    /\ At(r, "done")
    /\ Put(r, Idle)
    /\ UNCHANGED <<now, accounts, nextId, senders, deletions>>

\* What a purge that took the date t is to delete.
Due(t) == {a \in accounts : a.deletedAt # None /\ a.deletedAt < t - Term}

\* Transaction.sender has no onDelete, which for a required relation means
\* Restrict: in one DELETE a single account with transactions makes it fail
\* for all.
Blocked_Never(t) == FALSE
Blocked(t) == \E a \in Due(t) : a.id \in senders

\* The statement may be executed any time after its date was taken.
Purge ==
    /\ \E t \in 0 .. now : ~Blocked(t) /\ accounts' = accounts \ Due(t)
    /\ UNCHANGED <<now, nextId, senders, req, deletions>>

Tick ==
    /\ now < MaxTime
    /\ now' = now + 1
    /\ UNCHANGED <<accounts, nextId, senders, req, deletions>>

Begin(r) == BeginRegister(r) \/ BeginOnAccount(r) \/ BeginVerify(r)

Serve(r) ==
    \/ FindEmail(r) \/ Create(r) \/ StoreHash(r) \/ Write(r) \/ WriteFails(r)
    \/ Stamp(r) \/ FindToken(r) \/ Confirm(r) \/ Record(r) \/ Reply(r)

Next ==
    \/ \E r \in Requests : Begin(r) \/ Serve(r) \/ Abort(r)
    \/ Purge \/ Tick

Spec == Init /\ [][Next]_vars

-----------------------------------------------------------------------------
TypeOK ==
    /\ now \in Nat
    /\ accounts \subseteq User
    /\ nextId \in Nat
    /\ senders \subseteq Nat
    /\ req \in [Requests -> Request]
    /\ deletions \subseteq [id: Nat, asked: SUBSET Nat]

\* No two accounts share an id or an e-mail, although registrations and
\* changes of e-mail look the address up in one statement and take it in
\* another.
TableOK ==
    \A a, b \in accounts : a.id = b.id \/ a.email = b.email => a = b

\* Every transaction has its sender, in whatever order a payment is recorded
\* and its account deleted and purged.
SendersStay == \A n \in senders : WithId(n) # {}

\* No account is purged before the term has passed since its owner last
\* asked for its deletion; of requests to delete it that were in progress at
\* a time any may be the one that counts.
TermHonoured ==
    [][\A a \in accounts : (\A b \in accounts' : b.id # a.id) =>
         \E d \in deletions : /\ d.id = a.id
                              /\ \E t \in d.asked : now - t > Term]_vars

\* One account with transactions that is due holds the purge back, for every
\* account that was not due before it (a purge may have taken its date some
\* time ago), and nothing that is done with it in the meantime lets it go:
\* only another request to delete it does, for one more term.
HeldBack ==
    [][\A a \in Due(now) : a.id \in senders =>
         /\ \A b \in accounts : (\A c \in accounts' : c.id # b.id) =>
              b \in Due(now) /\ b.deletedAt < a.deletedAt
         /\ \/ (\E b \in Due(now) : b.id = a.id /\ b.id \in senders)'
            \/ \E r \in Requests :
                 At(r, "stamp") /\ req[r].id = a.id /\ At(r, "done")']_vars

\* "409 Email already registered", "409 Email already in use": a request for
\* an e-mail that another account has is answered with a conflict.
ConflictAnswered ==
    [][\A r \in Requests :
         /\ req[r].pc \in {"findEmail", "create", "write"} /\ At(r, "done")'
         /\ \E a \in WithEmail(req[r].email) : a.id # req[r].id
         => req'[r].answer = "conflict"]_vars
=============================================================================
