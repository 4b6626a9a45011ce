---------------------------- MODULE WalletService ----------------------------
(***************************************************************************)
(* The wallet endpoints of the backend (src/src/wallet/wallet.service.ts)  *)
(* over the Wallet table (src/prisma/schema.prisma).                       *)
(*                                                                         *)
(* Every endpoint is a chain of awaited Prisma calls with no transaction   *)
(* around them.  One Prisma call is one SQL statement, hence one atomic    *)
(* step here, together with the code up to the next await; between two     *)
(* steps of a request every other request, the cleanup job and a failure   *)
(* of the process or of the database may come.                             *)
(*                                                                         *)
(* Row ids are numbered in the order of insertion, which is also the order *)
(* of createdAt.  Labels, timestamps and the read-only endpoints are left  *)
(* out.  A definition whose name has a suffix after an underscore is the   *)
(* definition without the suffix as a plausible bug would have it; nothing *)
(* refers to it.                                                           *)
(***************************************************************************)
EXTENDS Integers, FiniteSets

CONSTANTS
    Users,       \* the accounts that exist at the start
    Keys,        \* Stellar public keys
    Requests,    \* slots for requests being served at the same time
    Ops,         \* the mutating endpoints clients call
    MaxWallets,  \* bound on the rows ever inserted
    Testnet,     \* STELLAR_NETWORK is the testnet: friendbot may be called
    Serial,      \* each user waits for an answer before the next request
    Faults,      \* a request may die at any of its awaits
    None         \* no user, no key

Adders == {"create", "upsert", "fund"}
AllOps == Adders \cup {"setDefault", "delete"}

ASSUME OpsAssumption == Ops \subseteq AllOps
ASSUME BoundAssumption == MaxWallets \in Nat
ASSUME RequestsAssumption == IsFiniteSet(Requests)
ASSUME SwitchAssumption == {Testnet, Serial, Faults} \subseteq BOOLEAN
ASSUME NoneAssumption == None \notin Users \cup Keys

VARIABLES
    users,    \* ids of the rows of the User table
    wallets,  \* rows of the Wallet table
    nextId,   \* the id the next inserted row gets
    req,      \* the request each slot is serving
    torn      \* history: users whose request died between two writes

vars == <<users, wallets, nextId, req, torn>>

Wallet == [id: Nat, userId: Users, publicKey: Keys, isDefault: BOOLEAN]

(***************************************************************************)
(* A request is at the await named by pc.  id is its walletId (for fund:   *)
(* the row found, 0 if none; for delete's last step: the row to promote).  *)
(* isDefault is the flag an insertion will write, or delete's wasDefault.  *)
(* funded says that friendbot may have acted on the key.                   *)
(***************************************************************************)
AddSteps == {"findKey", "friendbot", "count", "insert"}
OwnSteps == {"findOwn", "clear", "mark", "remove", "pick", "promote"}
Answers  == {"none", "ok", "conflict", "notFound", "badRequest", "error"}

Request ==
    [pc: AddSteps \cup OwnSteps \cup {"idle", "done"},
     op: AllOps \cup {"none"}, user: Users \cup {None},
     key: Keys \cup {None}, id: Nat, isDefault: BOOLEAN,
     funded: BOOLEAN, answer: Answers]

Idle ==
    [pc |-> "idle", op |-> "none", user |-> None, key |-> None, id |-> 0,
     isDefault |-> FALSE, funded |-> FALSE, answer |-> "none"]

Rows(u) == {w \in wallets : w.userId = u}
Defaults(u) == {w \in Rows(u) : w.isDefault}
WithKey(k) == {w \in wallets : w.publicKey = k}
WithId(n) == {w \in wallets : w.id = n}
OwnRow_AnyOwner(r) == WithId(req[r].id)
OwnRow(r) == {w \in WithId(req[r].id) : w.userId = req[r].user}

At(r, pc) == req[r].pc = pc
Goto(r, pc) == [req[r] EXCEPT !.pc = pc]
Answer(r, a) ==
    [req[r] EXCEPT !.pc = "done", !.answer = a, !.id = 0, !.isDefault = FALSE]
Put(r, q) == req' = [req EXCEPT ![r] = q]

-----------------------------------------------------------------------------
Init ==
    /\ users = Users
    /\ wallets = {}
    /\ nextId = 1
    /\ req = [r \in Requests |-> Idle]
    /\ torn = {}

MayStart(u) ==
    /\ u \in users
    /\ Serial => \A x \in Requests : req[x].user # u

\* POST /wallet, /wallet/create and /wallet/fund; bounded so that ids stay
\* within 1..MaxWallets.
BeginRegister(r) ==
    /\ At(r, "idle")
    /\ nextId + Cardinality({x \in Requests : req[x].pc \in AddSteps})
         <= MaxWallets
    /\ \E op \in Ops \cap Adders, u \in Users, k \in Keys :
         /\ MayStart(u)
         /\ Put(r,
              [Idle EXCEPT !.pc = "findKey", !.op = op, !.user = u, !.key = k])
    /\ UNCHANGED <<users, wallets, nextId, torn>>

\* PATCH /wallet/:id/default and DELETE /wallet/:id, with an id that is or
\* was some wallet's, of this user or not.
BeginOnWallet(r) ==
    /\ At(r, "idle")
    /\ \E op \in Ops \ Adders, u \in Users, n \in 1 .. nextId - 1 :
         /\ MayStart(u)
         /\ Put(r,
              [Idle EXCEPT !.pc = "findOwn", !.op = op, !.user = u, !.id = n])
    /\ UNCHANGED <<users, wallets, nextId, torn>>

-----------------------------------------------------------------------------
\* create, upsert and fund: findUnique by publicKey, then the branches.
KeyFree(r) ==
    /\ At(r, "findKey")
    /\ WithKey(req[r].key) = {}
    /\ Put(r, Goto(r, IF req[r].op = "fund" THEN "friendbot" ELSE "count"))
    /\ UNCHANGED <<users, wallets, nextId, torn>>

KeyTaken(r) ==
    /\ At(r, "findKey")
    /\ \E w \in WithKey(req[r].key) : w.userId # req[r].user
    /\ Put(r, Answer(r, "conflict"))
    /\ UNCHANGED <<users, wallets, nextId, torn>>

KeyOwned(r) ==
    /\ At(r, "findKey")
    /\ \E w \in WithKey(req[r].key) :
         /\ w.userId = req[r].user
         /\ Put(r, CASE req[r].op = "create" -> Answer(r, "conflict")
                     [] req[r].op = "upsert" -> Answer(r, "ok")
                     [] OTHER -> [Goto(r, "friendbot") EXCEPT !.id = w.id])
    /\ UNCHANGED <<users, wallets, nextId, torn>>

\* fundAccount rejects: off the testnet always, else on a refusal or a
\* connection error, which may come after friendbot has paid.
FriendbotFails(r) ==
    /\ At(r, "friendbot")
    /\ \E reached \in {b \in BOOLEAN : b => Testnet} :
         Put(r, [Answer(r, "badRequest") EXCEPT !.funded = reached])
    /\ UNCHANGED <<users, wallets, nextId, torn>>

FriendbotFunds(r) ==
    /\ At(r, "friendbot")
    /\ Testnet
    /\ Put(r, [(IF req[r].id = 0 THEN Goto(r, "count") ELSE Answer(r, "ok"))
                 EXCEPT !.funded = TRUE])
    /\ UNCHANGED <<users, wallets, nextId, torn>>

Count_OneTooMany(r) ==
    /\ At(r, "count")
    /\ Put(r, [Goto(r, "insert") EXCEPT
                 !.isDefault = (Cardinality(Rows(req[r].user)) <= 1)])
    /\ UNCHANGED <<users, wallets, nextId, torn>>

Count(r) ==
    /\ At(r, "count")
    /\ Put(r,
         [Goto(r, "insert") EXCEPT !.isDefault = (Rows(req[r].user) = {})])
    /\ UNCHANGED <<users, wallets, nextId, torn>>

NewRow_SwappedArguments(r) ==
    [id |-> nextId, userId |-> req[r].key, publicKey |-> req[r].user,
     isDefault |-> req[r].isDefault]
NewRow_FlagLeftOut(r) ==
    [id |-> nextId, userId |-> req[r].user, publicKey |-> req[r].key,
     isDefault |-> FALSE]

\* The row an insertion adds.
NewRow(r) ==
    [id |-> nextId, userId |-> req[r].user, publicKey |-> req[r].key,
     isDefault |-> req[r].isDefault]

InsertAllowed_NotUnique(r) == req[r].user \in users

\* publicKey is UNIQUE and userId REFERENCES User.
InsertAllowed(r) == WithKey(req[r].key) = {} /\ req[r].user \in users

InsertRow(r) ==
    /\ At(r, "insert")
    /\ InsertAllowed(r)
    /\ wallets' = wallets \cup {NewRow(r)}
    /\ nextId' = nextId + 1
    /\ torn' = IF req[r].isDefault THEN torn \ {req[r].user} ELSE torn
    /\ Put(r, Answer(r, "ok"))
    /\ UNCHANGED users

InsertRefused_Swallowed(r) ==
    /\ At(r, "insert")
    /\ ~InsertAllowed(r)
    /\ Put(r, Answer(r, IF WithKey(req[r].key) # {} THEN "ok" ELSE "error"))
    /\ UNCHANGED <<users, wallets, nextId, torn>>

\* P2002 becomes a 409, a foreign key failure is rethrown.
InsertRefused(r) ==
    /\ At(r, "insert")
    /\ ~InsertAllowed(r)
    /\ Put(r,
         Answer(r, IF WithKey(req[r].key) # {} THEN "conflict" ELSE "error"))
    /\ UNCHANGED <<users, wallets, nextId, torn>>

-----------------------------------------------------------------------------
\* setDefault and delete: findFirst by id and userId.
OwnMissing(r) ==
    /\ At(r, "findOwn")
    /\ OwnRow(r) = {}
    /\ Put(r, Answer(r, "notFound"))
    /\ UNCHANGED <<users, wallets, nextId, torn>>

OwnFound(r) ==
    /\ At(r, "findOwn")
    /\ \E w \in OwnRow(r) :
         Put(r, IF req[r].op = "setDefault"
                  THEN Goto(r, "clear")
                  ELSE [Goto(r, "remove") EXCEPT !.isDefault = w.isDefault])
    /\ UNCHANGED <<users, wallets, nextId, torn>>

Cleared_Skipped(u) == wallets

\* The rows with user u's flags all cleared.
Cleared(u) ==
    {[w EXCEPT !.isDefault = w.isDefault /\ w.userId # u] : w \in wallets}

Clear(r) ==
    /\ At(r, "clear")
    /\ wallets' = Cleared(req[r].user)
    /\ Put(r, Goto(r, "mark"))
    /\ UNCHANGED <<users, nextId, torn>>

Marked_Skipped(n) == wallets

\* The rows with row n's flag set.
Marked(n) ==
    {[w EXCEPT !.isDefault = w.isDefault \/ w.id = n] : w \in wallets}

\* The last statement of setDefault and of delete: update where {id}.
WriteDefault(r) ==
    /\ req[r].pc \in {"mark", "promote"}
    /\ WithId(req[r].id) # {}
    /\ wallets' = Marked(req[r].id)
    /\ torn' = torn \ {req[r].user}
    /\ Put(r, Answer(r, "ok"))
    /\ UNCHANGED <<users, nextId>>

Remove_NoReplacement(r) ==
    /\ At(r, "remove")
    /\ WithId(req[r].id) # {}
    /\ wallets' = wallets \ WithId(req[r].id)
    /\ Put(r, Answer(r, "ok"))
    /\ UNCHANGED <<users, nextId, torn>>

Remove(r) ==
    /\ At(r, "remove")
    /\ WithId(req[r].id) # {}
    /\ wallets' = wallets \ WithId(req[r].id)
    /\ Put(r, IF req[r].isDefault THEN Goto(r, "pick") ELSE Answer(r, "ok"))
    /\ UNCHANGED <<users, nextId, torn>>

\* P2025: the row an update or delete by id names is gone.
RowGone(r) ==
    /\ req[r].pc \in {"mark", "promote", "remove"}
    /\ WithId(req[r].id) = {}
    /\ Put(r, Answer(r, "error"))
    /\ UNCHANGED <<users, wallets, nextId, torn>>

Oldest_NewestInstead(u) ==
    {w \in Rows(u) : \A x \in Rows(u) : w.id >= x.id}

Oldest(u) == {w \in Rows(u) : \A x \in Rows(u) : w.id <= x.id}

Pick(r) ==
    /\ At(r, "pick")
    /\ \E w \in Oldest(req[r].user) :
         Put(r, [Goto(r, "promote") EXCEPT !.id = w.id])
    /\ UNCHANGED <<users, wallets, nextId, torn>>

PickNothing(r) ==
    /\ At(r, "pick")
    /\ Rows(req[r].user) = {}
    /\ Put(r, Answer(r, "ok"))
    /\ UNCHANGED <<users, wallets, nextId, torn>>

-----------------------------------------------------------------------------
\* A request dies at an await: the connection or the process fails.  What
\* its earlier statements wrote stays.
Abort(r) ==
    /\ Faults
    /\ req[r].pc \in AddSteps \cup OwnSteps
    /\ torn' = IF req[r].pc \in {"mark", "pick", "promote"}
                 THEN torn \cup {req[r].user} ELSE torn
    /\ Put(r, Answer(r, "error"))
    /\ UNCHANGED <<users, wallets, nextId>>

Reply(r) ==
    /\ At(r, "done")
    /\ Put(r, Idle)
    /\ UNCHANGED <<users, wallets, nextId, torn>>

\* What the foreign key's ON DELETE CASCADE leaves.
Survivors(S) == {w \in wallets : w.userId \notin S}

\* CleanupService deletes soft-deleted accounts, and their wallets with
\* them.  Any set of accounts may be due: their tokens may still be in use.
Purge ==
    /\ \E S \in SUBSET users \ {{}} :
         /\ users' = users \ S
         /\ wallets' = Survivors(S)
         /\ torn' = torn \ S
    /\ UNCHANGED <<nextId, req>>

-----------------------------------------------------------------------------
Begin(r) == BeginRegister(r) \/ BeginOnWallet(r)

\* The statements the request makes to the database, and its answer.
Register(r) ==
    \/ KeyFree(r) \/ KeyTaken(r) \/ KeyOwned(r)
    \/ Count(r) \/ InsertRow(r) \/ InsertRefused(r)

Manage(r) ==
    \/ OwnMissing(r) \/ OwnFound(r) \/ Clear(r) \/ WriteDefault(r)
    \/ Remove(r) \/ RowGone(r) \/ Pick(r) \/ PickNothing(r)

Serve(r) == Register(r) \/ Manage(r) \/ Reply(r)

Friendbot(r) == FriendbotFails(r) \/ FriendbotFunds(r)

Next ==
    \/ \E r \in Requests : Begin(r) \/ Serve(r) \/ Friendbot(r) \/ Abort(r)
    \/ Purge

Spec == Init /\ [][Next]_vars

\* The database answers every statement; friendbot (an https.get with no
\* timeout) may never answer, clients need not call, nothing must fail.
FairSpec == Spec /\ \A r \in Requests : WF_vars(Serve(r))

-----------------------------------------------------------------------------
TypeOK ==
    /\ users \subseteq Users
    /\ wallets \subseteq Wallet
    /\ nextId \in Nat \ {0}
    /\ req \in [Requests -> Request]
    /\ torn \subseteq Users

\* No two rows share an id or a public key, although every endpoint checks
\* the key and inserts it in different statements, and no row outlives its
\* owner, although accounts are purged while requests are in flight.
TableOK ==
    /\ \A v, w \in wallets :
         v.id = w.id \/ v.publicKey = w.publicKey => v = w
    /\ \A w \in wallets : w.userId \in users /\ w.id < nextId

\* A step changes a user's wallets only if it is a step of a request of that
\* user or deletes the account: the updates by id alone (WriteDefault,
\* Remove) rest on an ownership check made in an earlier statement.
Isolation ==
    [][\A u \in Users : Rows(u)' # Rows(u) =>
         \/ u \notin users'
         \/ \E r \in Requests : req[r].user = u /\ req'[r] # req[r]]_vars

\* Default flags do leak under concurrency, but never more of them than
\* there are requests served at once.
DefaultsBounded ==
    \A u \in Users : Cardinality(Defaults(u)) <= Cardinality(Requests)

\* When a user's requests come one after another (Serial), at most one
\* wallet is the default, whatever fails and whenever accounts are purged.
AtMostOneDefault ==
    Serial => \A u \in Users : \A v, w \in Defaults(u) : v = w

Quiet(u) == \A r \in Requests : req[r].user = u => req[r].pc = "done"

\* A user with wallets and no request in progress has a default wallet,
\* unless a request of theirs died between its two writes.
DefaultAtRest ==
    \A u \in Users :
      Quiet(u) /\ Rows(u) # {} /\ u \notin torn => Defaults(u) # {}

\* A user whose requests come one after another and who is told that a change
\* of default succeeded has one default then, and it is the wallet named; if
\* a deletion made the change, it is the oldest wallet left.  That the request
\* before died between its two writes, and left no default, does not matter.
DefaultTold ==
    [][Serial =>
         \A r \in Requests, u \in Users :
           /\ req[r].user = u /\ req[r].pc \in {"mark", "promote"}
           /\ At(r, "done")' /\ req'[r].answer = "ok"
           => /\ {w.id : w \in Defaults(u)'} = {req[r].id}
              /\ At(r, "promote") => \A w \in Rows(u)' : req[r].id <= w.id]_vars

Owns(u, k) == \E w \in WithKey(k) : w.userId = u

\* A user whose requests come one after another may repeat an upsert or a
\* fund: it is answered success for a key that is the user's, as long as the
\* account exists, and a conflict only for a key that is somebody else's,
\* although the key is checked in an earlier statement than the insertion
\* and before the call to friendbot.
RegistrationTold ==
    [][Serial =>
         \A r \in Requests : req[r].pc \in AddSteps /\ At(r, "done")' =>
           /\ req'[r].answer = "ok" /\ req[r].user \in users =>
                Owns(req[r].user, req[r].key)'
           /\ req'[r].answer = "conflict" /\ req[r].op # "create" =>
                /\ WithKey(req[r].key) # {}
                /\ ~Owns(req[r].user, req[r].key)]_vars

\* While nobody deletes wallets, only a setDefault between its two writes
\* leaves a user with wallets but no default, however requests interleave.
DefaultKept ==
    \A u \in Users : Rows(u) # {} /\ u \notin torn =>
      \/ Defaults(u) # {}
      \/ \E r \in Requests : req[r].user = u /\ At(r, "mark")

\* A user with wallets gets a default back, as long as nothing fails.
DefaultRestored ==
    \A u \in Users :
      Rows(u) # {} ~> (Defaults(u) # {} \/ Rows(u) = {})

-----------------------------------------------------------------------------
(* What the comments and the tests say, and the code does not do.          *)

\* "Check ownership before funding to avoid irreversible friendbot calls":
\* friendbot never acts for a user on a key another user has registered.
FundRespectsOwnership ==
    [][\A r \in Requests : req'[r].funded /\ ~req[r].funded =>
         \A w \in WithKey(req[r].key) : w.userId = req[r].user]_vars
=============================================================================
