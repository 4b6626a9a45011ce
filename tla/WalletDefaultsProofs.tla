------------------------- MODULE WalletDefaultsProofs -------------------------
(***************************************************************************)
(* Theorems about default wallets: when a user has one, how many there may *)
(* be, and that WalletService implements WalletBook for users who make one *)
(* request at a time.                                                      *)
(***************************************************************************)
EXTENDS WalletRefinesBook, WalletServiceProofs, WellFoundedInduction,
        FiniteSetTheorems

-----------------------------------------------------------------------------
(* A user with wallets has a default.  This holds in two settings: users   *)
(* wait for answers, or nobody deletes wallets.                            *)

BusySteps == {"mark", "pick", "promote"}

\* Some request of user u will write the default with its next writes.
Busy(u) == \E r \in Requests : req[r].user = u /\ req[r].pc \in BusySteps

\* What a request has read of its own user's rows still holds, as far as the
\* account is still there: the rows an insertion saw, the row whose flag it
\* will write, the flag a delete has read, the row it has picked.
Sees(r) ==
    LET u == req[r].user IN
    /\ At(r, "findOwn") => req[r].op \in Ops \ Adders
    /\ At(r, "insert") /\ ~req[r].isDefault /\ u \in users => Rows(u) # {}
    /\ req[r].pc \in {"clear", "mark", "promote"} /\ u \in users =>
         OwnRow(r) # {}
    /\ At(r, "remove") => \A w \in OwnRow(r) : w.isDefault = req[r].isDefault
    /\ At(r, "promote") => OwnRow(r) \subseteq Oldest(u)
    /\ "delete" \notin Ops => req[r].pc \notin {"remove", "pick", "promote"}

KeptFor(u) ==
    Rows(u) # {} /\ u \notin torn => Defaults(u) # {} \/ Busy(u)

\* A change of default that failed half way has left none.
TornInv == \A u \in torn : Defaults(u) = {}

KeptInv ==
    /\ Serial \/ "delete" \notin Ops
    /\ ServiceInv
    /\ \A r \in Requests : Sees(r)
    /\ \A u \in Users : KeptFor(u)
    /\ Serial => SerialInv /\ TornInv

-----------------------------------------------------------------------------
(* More of where the steps lead.                                           *)

LEMMA PutReads ==
  ASSUME TypeInv, NEW r \in Requests, NEW q, Put(r, q)
  PROVE  req'[r] = q /\ \A x \in Requests \ {r} : req'[x] = req[x]
  BY DEF TypeInv, TypeOK, Put

LEMMA BeginOp ==
  ASSUME TypeInv, NEW r \in Requests, Begin(r)
  PROVE  req'[r].pc = "findOwn" => req'[r].op \in Ops \ Adders
<1>1. CASE BeginRegister(r)
  <2>1. PICK op \in Ops \cap Adders, u \in Users, k \in Keys :
          Put(r, [Idle EXCEPT !.pc = "findKey", !.op = op, !.user = u,
                              !.key = k])
    BY <1>1 DEF BeginRegister
  <2> DEFINE q == [Idle EXCEPT !.pc = "findKey", !.op = op, !.user = u,
                               !.key = k]
  <2>2. q.pc = "findKey"
    BY DEF Idle
  <2>3. req'[r] = q
    BY <2>1, PutReads
  <2>4. QED
    BY <2>2, <2>3
<1>2. CASE BeginOnWallet(r)
  <2>1. PICK op \in Ops \ Adders, u \in Users, n \in 1 .. nextId - 1 :
          Put(r, [Idle EXCEPT !.pc = "findOwn", !.op = op, !.user = u,
                              !.id = n])
    BY <1>2 DEF BeginOnWallet
  <2> DEFINE q == [Idle EXCEPT !.pc = "findOwn", !.op = op, !.user = u,
                               !.id = n]
  <2>2. q.op = op
    BY DEF Idle
  <2>3. req'[r] = q
    BY <2>1, PutReads
  <2>4. QED
    BY <2>2, <2>3
<1>3. QED
  BY <1>1, <1>2 DEF Begin

LEMMA FoundOp ==
  ASSUME TypeInv, NEW r \in Requests, OwnFound(r)
  PROVE  req'[r].pc = "remove" => req[r].op # "setDefault"
<1>1. PICK w \in OwnRow(r) :
        Put(r, IF req[r].op = "setDefault"
                 THEN Goto(r, "clear")
                 ELSE [Goto(r, "remove") EXCEPT !.isDefault = w.isDefault])
  BY DEF OwnFound
<1>2. Goto(r, "clear").pc = "clear"
  BY Fields DEF OwnSteps
<1>3. QED
  BY <1>1, <1>2, PutReads

LEMMA PickLands ==
  ASSUME TypeInv, NEW r \in Requests, Pick(r)
  PROVE  \E w \in Oldest(req[r].user) : req'[r].id = w.id
<1>1. PICK w \in Oldest(req[r].user) :
        Put(r, [Goto(r, "promote") EXCEPT !.id = w.id])
  BY DEF Pick
<1>2. Goto(r, "promote") \in Request
  BY AtWork, GotoFits DEF Pick, At, AddSteps, OwnSteps
<1>3. [Goto(r, "promote") EXCEPT !.id = w.id].id = w.id
  BY <1>2, Updates
<1>4. QED
  BY <1>1, <1>3, PutReads

LEMMA RemoveLands ==
  ASSUME TypeInv, NEW r \in Requests, Remove(r)
  PROVE  req'[r].pc = IF req[r].isDefault THEN "pick" ELSE "done"
  BY PutReads, Fields DEF Remove, OwnSteps, Answers

\* Every step of the system is one of these.
LEMMA Cases ==
  ASSUME [Next]_vars
  PROVE  \/ \E r \in Requests : Begin(r) \/ Reply(r)
         \/ \E r \in Requests :
              \/ KeyFree(r) \/ KeyTaken(r) \/ KeyOwned(r) \/ InsertRefused(r)
              \/ Friendbot(r) \/ Count(r)
         \/ \E r \in Requests : InsertRow(r)
         \/ \E r \in Requests : OwnMissing(r) \/ OwnFound(r)
         \/ \E r \in Requests : Clear(r)
         \/ \E r \in Requests : WriteDefault(r)
         \/ \E r \in Requests : Remove(r)
         \/ \E r \in Requests : RowGone(r) \/ PickNothing(r) \/ Pick(r)
         \/ \E r \in Requests : Abort(r)
         \/ Purge
         \/ UNCHANGED vars
  BY DEF Next, Serve, Register, Manage

-----------------------------------------------------------------------------
(* What the writes do to the rows of the request's own user.               *)

LEMMA RowTypes ==
  ASSUME TypeInv
  PROVE  \A w \in wallets : w \in Wallet /\ w.id \in Nat /\ w.userId \in Users
  BY DEF TypeInv, TypeOK, Wallet

LEMMA RemoveRows ==
  ASSUME NEW r \in Requests, Remove(r), NEW u
  PROVE  /\ Rows(u)' = {w \in Rows(u) : w.id # req[r].id}
         /\ Defaults(u)' = {w \in Defaults(u) : w.id # req[r].id}
  BY DEF Remove, WithId, Rows, Defaults

LEMMA ClearRows ==
  ASSUME TypeInv, NEW r \in Requests, Clear(r)
  PROVE  /\ Defaults(req[r].user)' = {} \/ req'[r].user # req[r].user
         /\ \A w \in wallets' : w.userId = req[r].user => ~w.isDefault
         /\ \A w \in wallets : \E v \in wallets' :
              v.id = w.id /\ v.userId = w.userId
         /\ \A v \in wallets' : \E w \in wallets :
              v.id = w.id /\ v.userId = w.userId
<1>1. \A w \in wallets' : w.userId = req[r].user => ~w.isDefault
  BY RowTypes DEF Clear, Cleared, Wallet
<1>2. \A w \in wallets : \E v \in wallets' :
        v.id = w.id /\ v.userId = w.userId
  <2> SUFFICES ASSUME NEW w \in wallets
               PROVE  \E v \in wallets' : v.id = w.id /\ v.userId = w.userId
    OBVIOUS
  <2> DEFINE v == [w EXCEPT !.isDefault = w.isDefault /\ w.userId # req[r].user]
  <2>1. v \in wallets'
    BY DEF Clear, Cleared
  <2>2. v.id = w.id /\ v.userId = w.userId
    BY RowTypes DEF Wallet
  <2>3. QED
    BY <2>1, <2>2
<1>3. \A v \in wallets' : \E w \in wallets :
        v.id = w.id /\ v.userId = w.userId
  BY RowTypes DEF Clear, Cleared, Wallet
<1>4. QED
  BY <1>1, <1>2, <1>3 DEF Rows, Defaults

LEMMA MarkRows ==
  ASSUME TypeInv, OwnInv, NEW r \in Requests, WriteDefault(r)
  PROVE  /\ \E w \in wallets' :
              w.id = req[r].id /\ w.userId = req[r].user /\ w.isDefault
         /\ \A w \in wallets : \E v \in wallets' :
              v.id = w.id /\ v.userId = w.userId
         /\ \A v \in wallets' : \E w \in wallets :
              /\ v.id = w.id /\ v.userId = w.userId
              /\ v.isDefault => w.isDefault \/ w.id = req[r].id
<1>1. \A w \in wallets : w.id = req[r].id => w.userId = req[r].user
  BY DEF OwnInv, OwnsRow, AtRow, WriteDefault
<1>2. \A w \in wallets : \E v \in wallets' :
        /\ v.id = w.id /\ v.userId = w.userId
        /\ w.id = req[r].id => v.isDefault
  <2> SUFFICES ASSUME NEW w \in wallets
               PROVE  \E v \in wallets' :
                        /\ v.id = w.id /\ v.userId = w.userId
                        /\ w.id = req[r].id => v.isDefault
    OBVIOUS
  <2> DEFINE v == [w EXCEPT !.isDefault = w.isDefault \/ w.id = req[r].id]
  <2>1. v \in wallets'
    BY DEF WriteDefault, Marked
  <2>2. /\ v.id = w.id /\ v.userId = w.userId
        /\ w.id = req[r].id => v.isDefault
    BY RowTypes DEF Wallet
  <2>3. QED
    BY <2>1, <2>2
<1>3. \A v \in wallets' : \E w \in wallets :
        /\ v.id = w.id /\ v.userId = w.userId
        /\ v.isDefault => w.isDefault \/ w.id = req[r].id
  BY RowTypes DEF WriteDefault, Marked, Wallet
<1>4. PICK w \in wallets : w.id = req[r].id
  BY DEF WriteDefault, WithId
<1>5. QED
  BY <1>1, <1>2, <1>3, <1>4

-----------------------------------------------------------------------------
(* What a request has read still holds after the steps of others.          *)

LEMMA OwnRowIs ==
  ASSUME NEW r \in Requests
  PROVE  OwnRow(r) = {w \in Rows(req[r].user) : w.id = req[r].id}
  BY DEF OwnRow, WithId, Rows

LEMMA SeesStable ==
  ASSUME NEW x \in Requests, Sees(x), req'[x] = req[x], users' \subseteq users,
         NEW u, u = req[x].user,
         \/ Rows(u)' = Rows(u)
         \/ Rows(u)' = {} /\ u \notin users'
         \/ /\ "delete" \notin Ops
            /\ \A w \in Rows(u) : \E v \in Rows(u)' : v.id = w.id
  PROVE  Sees(x)'
<1> DEFINE own == {w \in Rows(u) : w.id = req[x].id}
           own2 == {w \in Rows(u)' : w.id = req[x].id}
<1>1. OwnRow(x) = own
  BY OwnRowIs
<1>2. OwnRow(x)' = own2
  BY DEF OwnRow, WithId, Rows
<1>3. Rows(req[x].user)' = Rows(u)' /\ Oldest(req[x].user)' = Oldest(u)'
  BY DEF Rows, Oldest
<1>4. CASE Rows(u)' = Rows(u)
  <2>1. Oldest(u)' = Oldest(u)
    BY <1>4 DEF Oldest
  <2>2. QED
    BY <1>1, <1>2, <1>3, <1>4, <2>1 DEF Sees, At
<1>5. CASE Rows(u)' = {} /\ u \notin users'
  BY <1>2, <1>3, <1>5 DEF Sees, At
<1>6. CASE /\ "delete" \notin Ops
           /\ \A w \in Rows(u) : \E v \in Rows(u)' : v.id = w.id
  <2>1. Rows(u) # {} => Rows(u)' # {}
    BY <1>6
  <2>2. own # {} => own2 # {}
    BY <1>6
  <2>3. QED
    BY <1>1, <1>2, <1>3, <1>6, <2>1, <2>2 DEF Sees, At
<1>7. QED
  BY <1>4, <1>5, <1>6

\* Two requests of one user are at work only if users do not wait.
LEMMA Others ==
  ASSUME Serial => SerialInv, NEW r \in Requests, NEW x \in Requests,
         x # r, req[x].user = req[r].user, req[r].user \in Users
  PROVE  ~Serial
  BY NoneAssumption DEF SerialInv, OnePerUser

LEMMA SeesOthers ==
  ASSUME KeptInv, [Next]_vars, NEW x \in Requests, req'[x] = req[x],
         \/ \E r \in Requests \ {x} : Writes(r)
         \/ Purge
         \/ UNCHANGED <<users, wallets, nextId>>
  PROVE  Sees(x)'
<1> DEFINE u == req[x].user
<1>a. Sees(x) /\ TypeInv /\ TableOK /\ OwnInv
  BY DEF KeptInv, ServiceInv
<1>b. CASE u \notin Users
  <2>1. req[x].pc \notin AddSteps \cup OwnSteps
    BY <1>a, <1>b, AtWork
  <2>2. QED
    BY <2>1 DEF Sees, At, AddSteps, OwnSteps
<1>1. ASSUME NEW r \in Requests \ {x}, Writes(r), u \in Users
      PROVE  Sees(x)'
  <2>1. users' = users
    BY <1>1 DEF Writes, InsertRow, Clear, WriteDefault, Remove
  <2>2. CASE u # req[r].user
    <3>1. Rows(u)' = Rows(u)
      BY <1>a, <1>1, <2>2, OtherRows
    <3>2. QED
      BY <1>a, <2>1, <3>1, SeesStable
  <2>3. CASE u = req[r].user
    <3>1. "delete" \notin Ops
      BY <1>1, <2>3, Others DEF KeptInv
    <3>2. ~Remove(r)
      BY <3>1 DEF KeptInv, Sees, Remove, At
    <3>3. \A w \in wallets : \E v \in wallets' :
            v.id = w.id /\ v.userId = w.userId
      <4>1. CASE InsertRow(r)
        BY <4>1 DEF InsertRow
      <4>2. CASE Clear(r)
        BY <1>a, <4>2, ClearRows
      <4>3. CASE WriteDefault(r)
        BY <1>a, <4>3, MarkRows
      <4>4. QED
        BY <1>1, <3>2, <4>1, <4>2, <4>3 DEF Writes
    <3>4. \A w \in Rows(u) : \E v \in Rows(u)' : v.id = w.id
      <4>1. u' = u
        OBVIOUS
      <4>2. QED
        BY <3>3, <4>1 DEF Rows
    <3>5. QED
      BY <1>a, <2>1, <3>1, <3>4, SeesStable
  <2>4. QED
    BY <2>2, <2>3
<1>2. ASSUME Purge PROVE Sees(x)'
  <2>1. PICK S \in SUBSET users :
          users' = users \ S /\ wallets' = Survivors(S)
    BY <1>2 DEF Purge
  <2>2. u' = u
    OBVIOUS
  <2>3. CASE u \in S
    <3>1. Rows(u)' = {} /\ u \notin users'
      BY <2>1, <2>2, <2>3 DEF Rows, Survivors
    <3>2. QED
      BY <1>a, <2>1, <3>1, SeesStable
  <2>4. CASE u \notin S
    <3>1. Rows(u)' = Rows(u)
      BY <2>1, <2>2, <2>4 DEF Rows, Survivors
    <3>2. QED
      BY <1>a, <2>1, <3>1, SeesStable
  <2>5. QED
    BY <2>3, <2>4
<1>3. ASSUME UNCHANGED <<users, wallets, nextId>> PROVE Sees(x)'
  <2>1. Rows(u)' = Rows(u)
    BY <1>3 DEF Rows
  <2>2. QED
    BY <1>a, <1>3, <2>1, SeesStable
<1>4. QED
  BY <1>b, <1>1, <1>2, <1>3

-----------------------------------------------------------------------------
(* What the request that makes the step has read, after its step.          *)

\* Where no row is read or awaited, nothing has to hold.
LEMMA SeesNothing ==
  ASSUME NEW r \in Requests,
         req'[r].pc \in {"idle", "done", "findKey", "friendbot", "count",
                         "findOwn"},
         req'[r].pc = "findOwn" => req'[r].op \in Ops \ Adders
  PROVE  Sees(r)'
  BY DEF Sees, At

LEMMA SeesCount ==
  ASSUME KeptInv, NEW r \in Requests, Count(r)
  PROVE  Sees(r)'
<1>1. /\ req'[r].pc = "insert" /\ req'[r].user = req[r].user
      /\ req'[r].isDefault = (Rows(req[r].user) = {})
  BY RegisterLands DEF KeptInv, ServiceInv, Lands
<1>2. Rows(req[r].user)' = Rows(req[r].user)
  BY <1>1 DEF Count, Rows
<1>3. QED
  BY <1>1, <1>2 DEF Sees, At

LEMMA SeesFound ==
  ASSUME KeptInv, NEW r \in Requests, OwnFound(r)
  PROVE  Sees(r)'
<1>a. TypeInv /\ TableOK /\ Sees(r)
  BY DEF KeptInv, ServiceInv
<1>1. /\ req'[r].pc \in {"clear", "remove"} /\ req'[r].id = req[r].id
      /\ req'[r].user = req[r].user
  BY <1>a, ManageLands DEF Lands
<1>2. UNCHANGED <<wallets, users>> /\ OwnRow(r) # {} /\ At(r, "findOwn")
  BY DEF OwnFound
<1>3. OwnRow(r)' = OwnRow(r)
  BY <1>1, <1>2 DEF OwnRow, WithId
<1>4. PICK w \in OwnRow(r) :
        req'[r].pc = "remove" => req'[r].isDefault = w.isDefault
  BY <1>a, ManageLands
<1>5. \A v \in OwnRow(r) : v = w
  BY <1>a DEF OwnRow, WithId, TableOK
<1>6. "delete" \notin Ops => req'[r].pc # "remove"
  <2>1. req'[r].pc = "remove" => req[r].op # "setDefault"
    BY <1>a, FoundOp
  <2>2. req[r].op \in Ops \ Adders
    BY <1>a, <1>2 DEF Sees
  <2>3. QED
    BY <2>1, <2>2, OpsAssumption DEF AllOps
<1>7. QED
  BY <1>1, <1>2, <1>3, <1>4, <1>5, <1>6 DEF Sees, At

LEMMA SeesClear ==
  ASSUME KeptInv, NEW r \in Requests, Clear(r)
  PROVE  Sees(r)'
<1>a. TypeInv /\ Sees(r)
  BY DEF KeptInv, ServiceInv
<1>1. /\ req'[r].pc = "mark" /\ req'[r].id = req[r].id
      /\ req'[r].user = req[r].user
  BY <1>a, ManageLands DEF Lands
<1>2. users' = users /\ At(r, "clear")
  BY DEF Clear
<1>3. \A w \in wallets : \E v \in wallets' : v.id = w.id /\ v.userId = w.userId
  BY <1>a, ClearRows
<1>4. req[r].user \in users => OwnRow(r)' # {}
  BY <1>a, <1>1, <1>2, <1>3 DEF Sees, At, OwnRow, WithId
<1>5. QED
  BY <1>1, <1>2, <1>4 DEF Sees, At

LEMMA SeesPick ==
  ASSUME KeptInv, NEW r \in Requests, Pick(r)
  PROVE  Sees(r)'
<1>a. TypeInv /\ TableOK /\ Sees(r)
  BY DEF KeptInv, ServiceInv
<1>1. req'[r].pc = "promote" /\ req'[r].user = req[r].user
  BY <1>a, ManageLands DEF Lands
<1>2. UNCHANGED <<wallets, users>> /\ At(r, "pick")
  BY DEF Pick
<1>3. PICK w \in Oldest(req[r].user) : req'[r].id = w.id
  BY <1>a, PickLands
<1>4. w \in wallets /\ w.userId = req[r].user
  BY DEF Oldest, Rows
<1>5. OwnRow(r)' = {w}
  BY <1>a, <1>1, <1>2, <1>3, <1>4 DEF OwnRow, WithId, TableOK
<1>6. Oldest(req[r].user)' = Oldest(req[r].user)
  BY <1>1, <1>2 DEF Oldest, Rows
<1>7. "delete" \in Ops
  BY <1>a, <1>2 DEF Sees, At
<1>8. QED
  BY <1>1, <1>3, <1>5, <1>6, <1>7 DEF Sees, At

LEMMA SeesRemove ==
  ASSUME KeptInv, NEW r \in Requests, Remove(r)
  PROVE  Sees(r)' /\ Serial
<1>a. TypeInv /\ Sees(r)
  BY DEF KeptInv, ServiceInv
<1>1. Serial /\ "delete" \in Ops
  BY <1>a DEF KeptInv, Sees, Remove, At
<1>2. req'[r].pc \in {"pick", "done"}
  BY <1>a, RemoveLands
<1>3. QED
  BY <1>1, <1>2 DEF Sees, At

LEMMA NextSees ==
  ASSUME KeptInv, [Next]_vars
  PROVE  \A x \in Requests : Sees(x)'
<1>a. TypeInv
  BY DEF KeptInv, ServiceInv
<1> USE DEF Lands
<1>b. ASSUME NEW r \in Requests, Sees(r)',
             \A x \in Requests \ {r} : req'[x] = req[x],
             Writes(r) \/ UNCHANGED <<users, wallets, nextId>>
      PROVE  \A x \in Requests : Sees(x)'
  BY <1>b, SeesOthers
<1>1. ASSUME NEW r \in Requests, Begin(r) \/ Reply(r)
      PROVE  \A x \in Requests : Sees(x)'
  <2>1. Sees(r)'
    BY <1>1, <1>a, BeginLands, BeginOp, SeesNothing
  <2>2. QED
    BY <1>1, <1>a, <1>b, <2>1, BeginLands
       DEF Begin, BeginRegister, BeginOnWallet, Reply
<1>2. ASSUME NEW r \in Requests,
             \/ KeyFree(r) \/ KeyTaken(r) \/ KeyOwned(r) \/ InsertRefused(r)
             \/ Friendbot(r)
      PROVE  \A x \in Requests : Sees(x)'
  <2>1. /\ Sees(r)' /\ \A x \in Requests \ {r} : req'[x] = req[x]
    BY <1>2, <1>a, RegisterLands, SeesNothing DEF Friendbot
  <2>2. UNCHANGED <<users, wallets, nextId>>
    BY <1>2 DEF KeyFree, KeyTaken, KeyOwned, InsertRefused, Friendbot,
                FriendbotFails, FriendbotFunds
  <2>3. QED
    BY <1>b, <2>1, <2>2
<1>3. ASSUME NEW r \in Requests, Count(r)
      PROVE  \A x \in Requests : Sees(x)'
  BY <1>3, <1>a, <1>b, RegisterLands, SeesCount DEF Count
<1>4. ASSUME NEW r \in Requests, InsertRow(r)
      PROVE  \A x \in Requests : Sees(x)'
  BY <1>4, <1>a, <1>b, RegisterLands, SeesNothing DEF Writes
<1>5. ASSUME NEW r \in Requests, OwnFound(r)
      PROVE  \A x \in Requests : Sees(x)'
  BY <1>5, <1>a, <1>b, ManageLands, SeesFound DEF OwnFound
<1>6. ASSUME NEW r \in Requests, Clear(r)
      PROVE  \A x \in Requests : Sees(x)'
  BY <1>6, <1>a, <1>b, ManageLands, SeesClear DEF Writes
<1>7. ASSUME NEW r \in Requests, WriteDefault(r)
      PROVE  \A x \in Requests : Sees(x)'
  BY <1>7, <1>a, <1>b, ManageLands, SeesNothing DEF Writes
<1>8. ASSUME NEW r \in Requests, Remove(r)
      PROVE  \A x \in Requests : Sees(x)'
  BY <1>8, <1>a, <1>b, ManageLands, SeesRemove DEF Writes
<1>9. ASSUME NEW r \in Requests, Pick(r)
      PROVE  \A x \in Requests : Sees(x)'
  BY <1>9, <1>a, <1>b, ManageLands, SeesPick DEF Pick
<1>10. ASSUME NEW r \in Requests,
              OwnMissing(r) \/ RowGone(r) \/ PickNothing(r) \/ Abort(r)
       PROVE  \A x \in Requests : Sees(x)'
  <2>1. /\ Sees(r)' /\ \A x \in Requests \ {r} : req'[x] = req[x]
    BY <1>10, <1>a, ManageLands, SeesNothing
  <2>2. UNCHANGED <<users, wallets, nextId>>
    BY <1>10 DEF OwnMissing, RowGone, PickNothing, Abort
  <2>3. QED
    BY <1>b, <2>1, <2>2
<1>11. CASE Purge
  BY <1>11, SeesOthers DEF Purge
<1>12. CASE UNCHANGED vars
  BY <1>12, SeesOthers DEF vars
<1>13. QED
  BY <1>1, <1>2, <1>3, <1>4, <1>5, <1>6, <1>7, <1>8, <1>9, <1>10, <1>11,
     <1>12, Cases

-----------------------------------------------------------------------------
(* Every user with wallets keeps a default, or has a request that will     *)
(* write one.                                                              *)

\* A request at the second write of a change finds its row, while the
\* account exists; once it is gone there are no rows.
LEMMA NoAccountNoRows ==
  ASSUME TableOK, NEW u, u \notin users
  PROVE  Rows(u) = {}
  BY DEF TableOK, Rows

LEMMA KeptOthers ==
  ASSUME NEW r \in Requests, \A x \in Requests \ {r} : req'[x] = req[x],
         NEW u \in Users, KeptFor(u), u # req[r].user, Rows(u)' = Rows(u),
         u \in torn => u \in torn'
  PROVE  KeptFor(u)'
<1>1. Defaults(u)' = Defaults(u)
  BY DEF Defaults
<1>2. Busy(u) => Busy(u)'
  BY DEF Busy
<1>3. QED
  BY <1>1, <1>2 DEF KeptFor

LEMMA KeptQuiet ==
  ASSUME NEW r \in Requests, \A x \in Requests \ {r} : req'[x] = req[x],
         UNCHANGED wallets, torn \subseteq torn',
         req[r].pc \in BusySteps =>
           \/ req'[r].pc \in BusySteps /\ req'[r].user = req[r].user
           \/ Rows(req[r].user) = {}
           \/ req[r].user \in torn',
         NEW u \in Users, KeptFor(u)
  PROVE  KeptFor(u)'
<1>1. Rows(u)' = Rows(u) /\ Defaults(u)' = Defaults(u)
  BY DEF Rows, Defaults
<1>2. Busy(u) /\ Rows(u) # {} /\ u \notin torn' => Busy(u)'
  BY DEF Busy
<1>3. QED
  BY <1>1, <1>2 DEF KeptFor

LEMMA KeptInsert ==
  ASSUME KeptInv, NEW r \in Requests, InsertRow(r), NEW u \in Users
  PROVE  KeptFor(u)'
<1>a. TypeInv /\ OwnInv /\ Sees(r) /\ KeptFor(u)
  BY DEF KeptInv, ServiceInv
<1>b. /\ \A x \in Requests \ {r} : req'[x] = req[x]
      /\ req[r].user \in Users
  BY <1>a, RegisterLands, AtWork DEF Lands, InsertRow, At, AddSteps
<1>1. CASE u # req[r].user
  <2>1. Rows(u)' = Rows(u)
    BY <1>a, <1>1, OtherRows DEF Writes
  <2>2. u \in torn => u \in torn'
    BY <1>1 DEF InsertRow
  <2>3. QED
    BY <1>1, <1>a, <1>b, <2>1, <2>2, KeptOthers
<1>2. CASE u = req[r].user /\ req[r].isDefault
  <2>1. NewRow(r) \in Defaults(u)'
    BY <1>2 DEF InsertRow, NewRow, Rows, Defaults
  <2>2. QED
    BY <2>1 DEF KeptFor
<1>3. CASE u = req[r].user /\ ~req[r].isDefault
  <2>1. Rows(u) # {}
    BY <1>a, <1>3 DEF InsertRow, InsertAllowed, Sees
  <2>2. Defaults(u) \subseteq Defaults(u)' /\ torn' = torn
    BY <1>3 DEF InsertRow, Rows, Defaults
  <2>3. Busy(u) => Busy(u)'
    <3>1. ~(req[r].pc \in BusySteps)
      BY DEF InsertRow, At, BusySteps
    <3>2. QED
      BY <1>b, <3>1 DEF Busy
  <2>4. QED
    BY <1>a, <2>1, <2>2, <2>3 DEF KeptFor
<1>4. QED
  BY <1>1, <1>2, <1>3

LEMMA KeptWrite ==
  ASSUME KeptInv, NEW r \in Requests, Clear(r) \/ WriteDefault(r),
         NEW u \in Users
  PROVE  KeptFor(u)'
<1>a. TypeInv /\ OwnInv /\ KeptFor(u)
  BY DEF KeptInv, ServiceInv
<1>b. \A x \in Requests \ {r} : req'[x] = req[x]
  BY <1>a, ManageLands DEF Lands
<1>1. CASE u # req[r].user
  <2>1. Rows(u)' = Rows(u)
    BY <1>a, <1>1, OtherRows DEF Writes
  <2>2. u \in torn => u \in torn'
    BY <1>1 DEF Clear, WriteDefault
  <2>3. QED
    BY <1>1, <1>a, <1>b, <2>1, <2>2, KeptOthers
<1>2. CASE u = req[r].user /\ Clear(r)
  <2>1. req'[r].user = u /\ req'[r].pc = "mark"
    BY <1>a, <1>2, ManageLands DEF Lands
  <2>2. Busy(u)'
    BY <2>1 DEF Busy, BusySteps
  <2>3. QED
    BY <2>2 DEF KeptFor
<1>3. CASE u = req[r].user /\ WriteDefault(r)
  <2>1. \E w \in wallets' : w.userId = u /\ w.isDefault
    BY <1>a, <1>3, MarkRows
  <2>2. Defaults(u)' # {}
    BY <2>1 DEF Rows, Defaults
  <2>3. QED
    BY <2>2 DEF KeptFor
<1>4. QED
  BY <1>1, <1>2, <1>3

LEMMA KeptRemove ==
  ASSUME KeptInv, NEW r \in Requests, Remove(r), NEW u \in Users
  PROVE  KeptFor(u)'
<1>a. TypeInv /\ OwnInv /\ KeptFor(u) /\ Sees(r) /\ SerialInv
  BY SeesRemove DEF KeptInv, ServiceInv
<1>b. /\ \A x \in Requests \ {r} : req'[x] = req[x]
      /\ req'[r].user = req[r].user
      /\ req'[r].pc = IF req[r].isDefault THEN "pick" ELSE "done"
  BY <1>a, ManageLands, RemoveLands DEF Lands
<1>c. At(r, "remove") /\ torn' = torn
  BY DEF Remove
<1>1. CASE u # req[r].user
  <2>1. Rows(u)' = Rows(u)
    BY <1>a, <1>1, OtherRows DEF Writes
  <2>2. QED
    BY <1>1, <1>a, <1>b, <1>c, <2>1, KeptOthers
<1>2. CASE u = req[r].user /\ req[r].isDefault
  <2>1. Busy(u)'
    BY <1>b, <1>2 DEF Busy, BusySteps
  <2>2. QED
    BY <2>1 DEF KeptFor
<1>3. CASE u = req[r].user /\ ~req[r].isDefault
  <2>1. SUFFICES ASSUME Rows(u)' # {}, u \notin torn' PROVE Defaults(u)' # {}
    BY DEF KeptFor
  <2>2. ~Busy(u)
    <3>1. \A x \in Requests : req[x].user = u => x = r
      BY <1>a, <1>3, NoneAssumption DEF SerialInv, OnePerUser
    <3>2. QED
      BY <1>c, <3>1 DEF Busy, BusySteps, At
  <2>3. PICK d \in Defaults(u) : TRUE
    BY <1>a, <1>c, <2>1, <2>2, RemoveRows DEF KeptFor
  <2>4. d.id # req[r].id
    <3>1. CASE d.id = req[r].id
      <4>1. d \in OwnRow(r)
        BY <1>3, <3>1, OwnRowIs DEF Defaults
      <4>2. QED
        BY <1>3, <1>a, <1>c, <4>1, <2>3 DEF Sees, Defaults
    <3>2. QED
      BY <3>1
  <2>5. QED
    BY <2>3, <2>4, RemoveRows
<1>4. QED
  BY <1>1, <1>2, <1>3

LEMMA KeptPurge ==
  ASSUME KeptInv, Purge, NEW u \in Users
  PROVE  KeptFor(u)'
<1>1. PICK S \in SUBSET users :
        /\ users' = users \ S /\ wallets' = Survivors(S) /\ torn' = torn \ S
        /\ UNCHANGED req
  BY DEF Purge
<1>2. CASE u \in S
  BY <1>1, <1>2 DEF KeptFor, Rows, Survivors
<1>3. CASE u \notin S
  <2>1. Rows(u)' = Rows(u)
    BY <1>1, <1>3 DEF Rows, Survivors
  <2>2. QED
    BY <1>1, <1>3, <2>1 DEF KeptInv, KeptFor, Defaults, Busy
<1>4. QED
  BY <1>2, <1>3

LEMMA NextKeptFor ==
  ASSUME KeptInv, [Next]_vars, NEW u \in Users
  PROVE  KeptFor(u)'
<1>a. TypeInv /\ TableOK /\ KeptFor(u) /\ \A r \in Requests : Sees(r)
  BY DEF KeptInv, ServiceInv
<1> USE DEF Lands
<1>1. ASSUME NEW r \in Requests, Begin(r) \/ Reply(r) PROVE KeptFor(u)'
  <2>1. req[r].pc \notin BusySteps /\ UNCHANGED <<wallets, torn>>
    BY <1>1 DEF Begin, BeginRegister, BeginOnWallet, Reply, At, BusySteps
  <2>2. QED
    BY <1>1, <1>a, <2>1, BeginLands, KeptQuiet
<1>2. ASSUME NEW r \in Requests,
             \/ KeyFree(r) \/ KeyTaken(r) \/ KeyOwned(r) \/ InsertRefused(r)
             \/ Friendbot(r) \/ Count(r)
      PROVE  KeptFor(u)'
  <2>1. req[r].pc \notin BusySteps /\ UNCHANGED <<wallets, torn>>
    BY <1>2 DEF KeyFree, KeyTaken, KeyOwned, InsertRefused, Friendbot,
                FriendbotFails, FriendbotFunds, Count, At, BusySteps
  <2>2. \A x \in Requests \ {r} : req'[x] = req[x]
    BY <1>2, <1>a, RegisterLands DEF Friendbot
  <2>3. QED
    BY <1>a, <2>1, <2>2, KeptQuiet
<1>3. ASSUME NEW r \in Requests, OwnMissing(r) \/ OwnFound(r)
      PROVE  KeptFor(u)'
  <2>1. req[r].pc \notin BusySteps /\ UNCHANGED <<wallets, torn>>
    BY <1>3 DEF OwnMissing, OwnFound, At, BusySteps
  <2>2. QED
    BY <1>3, <1>a, <2>1, ManageLands, KeptQuiet
<1>4. ASSUME NEW r \in Requests, RowGone(r) \/ PickNothing(r) \/ Pick(r)
      PROVE  KeptFor(u)'
  <2>1. UNCHANGED <<wallets, torn>>
    BY <1>4 DEF RowGone, PickNothing, Pick
  <2>2. RowGone(r) /\ req[r].pc \in BusySteps => Rows(req[r].user) = {}
    <3> SUFFICES ASSUME RowGone(r), req[r].pc \in {"mark", "promote"}
                 PROVE  Rows(req[r].user) = {}
      BY DEF RowGone, BusySteps
    <3>1. OwnRow(r) = {}
      BY DEF RowGone, OwnRow
    <3>2. req[r].user \notin users
      BY <1>a, <3>1 DEF Sees
    <3>3. QED
      BY <1>a, <3>2, NoAccountNoRows
  <2>3. /\ PickNothing(r) => Rows(req[r].user) = {}
        /\ Pick(r) => req'[r].pc \in BusySteps /\ req'[r].user = req[r].user
    BY <1>a, ManageLands DEF PickNothing, BusySteps
  <2>4. \A x \in Requests \ {r} : req'[x] = req[x]
    BY <1>4, <1>a, ManageLands
  <2>5. QED
    BY <1>4, <1>a, <2>1, <2>2, <2>3, <2>4, KeptQuiet
<1>5. ASSUME NEW r \in Requests, Abort(r) PROVE KeptFor(u)'
  <2>1. /\ UNCHANGED wallets /\ torn \subseteq torn'
        /\ req[r].pc \in BusySteps => req[r].user \in torn'
    BY <1>5 DEF Abort, BusySteps
  <2>2. QED
    BY <1>5, <1>a, <2>1, ManageLands, KeptQuiet
<1>6. CASE UNCHANGED vars
  BY <1>a, <1>6 DEF vars, KeptFor, Rows, Defaults, Busy
<1>7. QED
  BY <1>1, <1>2, <1>3, <1>4, <1>5, <1>6, KeptInsert, KeptWrite, KeptRemove,
     KeptPurge, Cases

-----------------------------------------------------------------------------
(* What is torn has no default.                                            *)

LEMMA NextTorn ==
  ASSUME Serial, KeptInv, [Next]_vars
  PROVE  TornInv'
<1>a. TypeInv /\ OwnInv /\ TornInv /\ SerialInv /\ torn \subseteq Users
  BY DEF KeptInv, ServiceInv, TypeInv, TypeOK
<1>b. ASSUME torn' \subseteq torn, UNCHANGED wallets
      PROVE  TornInv'
  BY <1>a, <1>b DEF TornInv, Rows, Defaults
<1>c. ASSUME NEW r \in Requests, Writes(r), torn' \subseteq torn,
             \/ req[r].user \notin torn'
             \/ Defaults(req[r].user) = {} =>
                  \A w \in wallets' : w.userId = req[r].user => ~w.isDefault
      PROVE  TornInv'
  <2> SUFFICES ASSUME NEW u \in torn' PROVE Defaults(u)' = {}
    BY DEF TornInv
  <2>1. Defaults(u) = {} /\ u \in Users
    BY <1>a, <1>c DEF TornInv
  <2>2. CASE u # req[r].user
    <3>1. Rows(u)' = Rows(u)
      BY <1>a, <1>c, <2>1, <2>2, OtherRows
    <3>2. QED
      BY <2>1, <3>1 DEF Defaults
  <2>3. CASE u = req[r].user
    <3>1. \A w \in wallets' : w.userId = u => ~w.isDefault
      BY <1>c, <2>1, <2>3
    <3>2. QED
      BY <3>1 DEF Defaults, Rows
  <2>4. QED
    BY <2>2, <2>3
<1>1. ASSUME NEW r \in Requests, InsertRow(r) PROVE TornInv'
  <2>1. Writes(r) /\ torn' \subseteq torn
    BY <1>1 DEF InsertRow, Writes
  <2>2. CASE req[r].isDefault
    BY <1>1, <1>c, <2>1, <2>2 DEF InsertRow
  <2>3. CASE ~req[r].isDefault
    <3>1. Defaults(req[r].user) = {} =>
            \A w \in wallets' : w.userId = req[r].user => ~w.isDefault
      BY <1>1, <2>3 DEF InsertRow, NewRow, Defaults, Rows
    <3>2. QED
      BY <1>c, <2>1, <3>1
  <2>4. QED
    BY <2>2, <2>3
<1>2. ASSUME NEW r \in Requests, Clear(r) PROVE TornInv'
  BY <1>2, <1>a, <1>c, ClearRows DEF Writes, Clear
<1>3. ASSUME NEW r \in Requests, WriteDefault(r) PROVE TornInv'
  BY <1>3, <1>c DEF Writes, WriteDefault
<1>4. ASSUME NEW r \in Requests, Remove(r) PROVE TornInv'
  <2>1. Defaults(req[r].user) = {} =>
          \A w \in wallets' : w.userId = req[r].user => ~w.isDefault
    BY <1>4 DEF Remove, Defaults, Rows
  <2>2. QED
    BY <1>4, <1>c, <2>1 DEF Writes, Remove
<1>5. ASSUME NEW r \in Requests, Abort(r) PROVE TornInv'
  <2>1. UNCHANGED wallets
    BY <1>5 DEF Abort
  <2>2. CASE req[r].pc \in BusySteps
    <3>1. Defaults(req[r].user) = {}
      BY <1>a, <2>2 DEF SerialInv, StillTrue, BusySteps
    <3>2. torn' = torn \cup {req[r].user}
      BY <1>5, <2>2 DEF Abort, BusySteps
    <3>3. \A u \in torn' : \A w \in wallets : w.userId = u => ~w.isDefault
      BY <1>a, <3>1, <3>2 DEF TornInv, Defaults, Rows
    <3>4. QED
      BY <2>1, <3>3 DEF TornInv, Defaults, Rows
  <2>3. CASE req[r].pc \notin BusySteps
    BY <1>5, <1>b, <2>1, <2>3 DEF Abort, BusySteps
  <2>4. QED
    BY <2>2, <2>3
<1>6. CASE Purge
  BY <1>a, <1>6 DEF Purge, Survivors, TornInv, Defaults, Rows
<1>7. ASSUME NEW r \in Requests, Begin(r) \/ Reply(r) PROVE TornInv'
  BY <1>7, <1>b DEF Begin, BeginRegister, BeginOnWallet, Reply
<1>8. ASSUME NEW r \in Requests,
             \/ KeyFree(r) \/ KeyTaken(r) \/ KeyOwned(r) \/ InsertRefused(r)
             \/ Friendbot(r) \/ Count(r)
      PROVE  TornInv'
  BY <1>8, <1>b DEF KeyFree, KeyTaken, KeyOwned, InsertRefused, Friendbot,
                    FriendbotFails, FriendbotFunds, Count
<1>9. ASSUME NEW r \in Requests,
             \/ OwnMissing(r) \/ OwnFound(r) \/ RowGone(r) \/ PickNothing(r)
             \/ Pick(r)
      PROVE  TornInv'
  BY <1>9, <1>b DEF OwnMissing, OwnFound, RowGone, PickNothing, Pick
<1>10. CASE UNCHANGED vars
  BY <1>10, <1>b DEF vars
<1>11. QED
  BY <1>1, <1>2, <1>3, <1>4, <1>5, <1>6, <1>7, <1>8, <1>9, <1>10, Cases

-----------------------------------------------------------------------------
(* The theorems about having a default.                                    *)

LEMMA KeptInit == (Serial \/ "delete" \notin Ops) /\ Init => KeptInv
<1> SUFFICES ASSUME Serial \/ "delete" \notin Ops, Init PROVE KeptInv
  OBVIOUS
<1>1. ServiceInv
  BY InitType DEF Init, ServiceInv, TableOK, OwnInv, OwnsRow, AtRow, Idle
<1>2. SerialInv /\ TornInv
  BY DEF Init, SerialInv, OnePerUser, SingleDefault, StillTrue, At, Rows,
         Defaults, Idle, TornInv
<1>3. \A r \in Requests : Sees(r)
  BY DEF Init, Sees, At, Idle
<1>4. \A u \in Users : KeptFor(u)
  BY DEF Init, KeptFor, Rows
<1>5. QED
  BY <1>1, <1>2, <1>3, <1>4 DEF KeptInv

LEMMA KeptNext == KeptInv /\ [Next]_vars => KeptInv'
<1> SUFFICES ASSUME KeptInv, [Next]_vars PROVE KeptInv'
  OBVIOUS
<1>1. ServiceInv'
  BY NextType, NextTable, NextOwn DEF KeptInv, ServiceInv
<1>2. ASSUME Serial PROVE SerialInv' /\ TornInv'
  BY <1>2, NextSerial, NextTorn DEF KeptInv
<1>3. \A r \in Requests : Sees(r)'
  BY NextSees
<1>4. \A u \in Users : KeptFor(u)'
  BY NextKeptFor
<1>5. QED
  BY <1>1, <1>2, <1>3, <1>4 DEF KeptInv

LEMMA KeptAlways ==
  ASSUME Serial \/ "delete" \notin Ops
  PROVE  Spec => []KeptInv
<1>1. Init => KeptInv
  BY KeptInit
<1>2. QED
  BY <1>1, KeptNext, PTL DEF Spec

\* A user who waits for answers and has wallets has a default when no request
\* is in progress, unless one died between its two writes (setDefault and
\* delete of wallet.service.ts), whatever fails and whenever the account goes.
THEOREM DefaultWhenQuiet == ASSUME Serial PROVE Spec => []DefaultAtRest
<1>1. KeptInv => DefaultAtRest
  <2> SUFFICES ASSUME KeptInv, NEW u \in Users, Quiet(u), Rows(u) # {},
                      u \notin torn
               PROVE  Defaults(u) # {}
    BY DEF DefaultAtRest
  <2>1. ~Busy(u)
    BY DEF Quiet, Busy, BusySteps
  <2>2. QED
    BY <2>1 DEF KeptInv, KeptFor
<1>2. QED
  BY <1>1, KeptAlways, PTL

\* While nobody deletes, only a setDefault between its two writes leaves a
\* user with wallets but no default, however requests interleave.
THEOREM DefaultBetweenWrites ==
  ASSUME "delete" \notin Ops PROVE Spec => []DefaultKept
<1>1. KeptInv => DefaultKept
  <2> SUFFICES ASSUME KeptInv, NEW u \in Users, Rows(u) # {}, u \notin torn,
                      Defaults(u) = {}
               PROVE  \E r \in Requests : req[r].user = u /\ At(r, "mark")
    BY DEF DefaultKept
  <2>1. PICK r \in Requests : req[r].user = u /\ req[r].pc \in BusySteps
    BY DEF KeptInv, KeptFor, Busy
  <2>2. req[r].pc \notin {"pick", "promote"}
    BY DEF KeptInv, Sees
  <2>3. QED
    BY <2>1, <2>2 DEF BusySteps, At
<1>2. QED
  BY <1>1, KeptAlways, PTL

\* Only a second write that has found its row ends a change of default with
\* success.
LEMMA ToldByWrite ==
  ASSUME TypeInv, Next, NEW r \in Requests, req[r].pc \in {"mark", "promote"},
         At(r, "done")', req'[r].answer = "ok"
  PROVE  WriteDefault(r)
<1>1. ASSUME NEW x \in Requests \ {r},
             Begin(x) \/ Serve(x) \/ Friendbot(x) \/ Abort(x)
      PROVE  req'[r] = req[r]
  BY <1>1, BeginLands, RegisterLands, ManageLands
     DEF Serve, Register, Manage, Friendbot, Lands
<1>2. req'[r] # req[r]
  BY DEF At
<1>3. Begin(r) \/ Serve(r) \/ Friendbot(r) \/ Abort(r)
  BY <1>1, <1>2 DEF Next, Purge
<1>4. ~RowGone(r) /\ ~Abort(r)
  <2>1. Answer(r, "error").answer = "error"
    BY AtWork DEF Answer, Request
  <2>2. ~Put(r, Answer(r, "error"))
    BY <2>1, PutReads
  <2>3. QED
    BY <2>2 DEF RowGone, Abort
<1>5. QED
  BY <1>3, <1>4
     DEF At, Begin, BeginRegister, BeginOnWallet, Serve, Register, KeyFree,
         KeyTaken, KeyOwned, Count, InsertRow, InsertRefused, Manage,
         OwnMissing, OwnFound, Clear, Remove, Pick, PickNothing, Reply,
         Friendbot, FriendbotFails, FriendbotFunds

\* A user who waits for answers and is told that a change of default has
\* succeeded has one default, the wallet named or the oldest one left
\* (setDefault and delete of wallet.service.ts), whatever died before.
THEOREM DefaultsTold == ASSUME Serial PROVE Spec => DefaultTold
<1> DEFINE A == Serial =>
         \A r \in Requests, u \in Users :
           /\ req[r].user = u /\ req[r].pc \in {"mark", "promote"}
           /\ At(r, "done")' /\ req'[r].answer = "ok"
           => /\ {w.id : w \in Defaults(u)'} = {req[r].id}
              /\ At(r, "promote") => \A w \in Rows(u)' : req[r].id <= w.id
<1>1. KeptInv /\ [Next]_vars => [A]_vars
  <2> SUFFICES ASSUME KeptInv, Next, NEW r \in Requests, NEW u \in Users,
                      req[r].user = u, req[r].pc \in {"mark", "promote"},
                      At(r, "done")', req'[r].answer = "ok"
               PROVE  /\ {w.id : w \in Defaults(u)'} = {req[r].id}
                      /\ At(r, "promote") =>
                           \A w \in Rows(u)' : req[r].id <= w.id
    OBVIOUS
  <2>1. TypeInv /\ TableOK /\ OwnInv /\ StillTrue(r) /\ Sees(r)
    BY DEF KeptInv, ServiceInv, SerialInv
  <2>2. WriteDefault(r)
    BY <2>1, ToldByWrite
  <2>3. Defaults(u) = {}
    BY <2>1 DEF StillTrue
  <2>4. \E w \in wallets' : w.id = req[r].id /\ w.userId = u /\ w.isDefault
    BY <2>1, <2>2, MarkRows
  <2>5. \A v \in wallets' : \E w \in wallets :
          /\ v.id = w.id /\ v.userId = w.userId
          /\ v.isDefault => w.isDefault \/ w.id = req[r].id
    BY <2>1, <2>2, MarkRows
  <2>6. \A v \in Defaults(u)' : v.id = req[r].id
    BY <2>3, <2>5 DEF Defaults, Rows
  <2>7. {w.id : w \in Defaults(u)'} = {req[r].id}
    BY <2>4, <2>6 DEF Defaults, Rows
  <2>8. ASSUME At(r, "promote"), NEW v \in Rows(u)'
        PROVE  req[r].id <= v.id
    <3>1. PICK w \in Rows(u) : v.id = w.id
      BY <2>5 DEF Rows
    <3>2. PICK x \in wallets : x.id = req[r].id
      BY <2>2 DEF WriteDefault, WithId
    <3>3. x \in OwnRow(r)
      BY <2>1, <2>8, <3>2 DEF OwnInv, OwnsRow, AtRow, At, OwnRow, WithId
    <3>4. x \in Oldest(u)
      BY <2>1, <2>8, <3>3 DEF Sees, At, TableOK, OwnRow, WithId
    <3>5. QED
      BY <3>1, <3>2, <3>4 DEF Oldest
  <2>9. QED
    BY <2>7, <2>8
<1>2. QED
  BY <1>1, KeptAlways, PTL DEF Spec, DefaultTold

-----------------------------------------------------------------------------
(* WalletService implements WalletBook.  What the book shows as a user's   *)
(* default is the number of the one row that is the default or about to be.*)

OneShown == \A u \in Users : \A w \in Shown(u) : Default[u] = w.id

LEMMA LeastNumber ==
  ASSUME NEW T, T \subseteq Nat, T # {}
  PROVE  \E n \in T : \A m \in T : n <= m
<1> DEFINE Less == OpToRel(<, Nat)
<1>1. IsWellFoundedOn(Less, Nat)
  BY NatLessThanWellFounded
<1>2. \A x, y \in Nat : x < y => <<x, y>> \in Less
  BY DEF OpToRel
<1> HIDE DEF Less
<1>3. PICK n \in T : \A m \in T : ~ (<<m, n>> \in Less)
  BY <1>1, WFMin
<1>4. ASSUME NEW m \in T PROVE n <= m
  <2>1. n \in Nat /\ m \in Nat /\ ~ (<<m, n>> \in Less)
    BY <1>3, <1>4
  <2>2. ~ (m < n)
    BY <2>1, <1>2, Zenon
  <2>3. QED
    BY <2>1, <2>2
<1>5. QED
  BY <1>4

LEMMA OldestExists ==
  ASSUME TypeInv, NEW u, Rows(u) # {}
  PROVE  \E w \in Rows(u) : w \in Oldest(u)
<1> DEFINE T == {w.id : w \in Rows(u)}
<1>1. T \subseteq Nat /\ T # {}
  BY RowTypes DEF Rows
<1>2. PICK n \in T : \A m \in T : n <= m
  BY <1>1, LeastNumber
<1>3. PICK w \in Rows(u) : w.id = n
  OBVIOUS
<1>4. QED
  BY <1>2, <1>3 DEF Oldest

\* The row a request is about to mark is one of its user's.
LEMMA PendingOwn ==
  ASSUME NEW r \in Requests
  PROVE  /\ Pending(r) \subseteq Rows(req[r].user)
         /\ req[r].pc \notin BusySteps => Pending(r) = {}
         /\ Rows(req[r].user) = {} => Pending(r) = {}
<1>1. OwnRow(r) \subseteq Rows(req[r].user)
  BY OwnRowIs
<1>2. Oldest(req[r].user) \subseteq Rows(req[r].user)
  BY DEF Oldest
<1>3. QED
  BY <1>1, <1>2 DEF Pending, BusySteps, At

LEMMA ComingOf ==
  ASSUME SerialInv, NEW r \in Requests, NEW u \in Users, u = req[r].user
  PROVE  Coming(u) = Pending(r)
<1>1. \A x \in Requests : req[x].user = u => x = r
  BY NoneAssumption DEF SerialInv, OnePerUser
<1>2. {x \in Requests : req[x].user = u} = {r}
  BY <1>1
<1>3. QED
  BY <1>2 DEF Coming

\* All rows shown for a user have one id.
LEMMA ShownAlike ==
  ASSUME Serial, KeptInv, NEW u \in Users, NEW v \in Shown(u),
         NEW w \in Shown(u)
  PROVE  v.id = w.id
<1>a. SerialInv /\ TypeInv /\ TableOK
  BY DEF KeptInv, ServiceInv
<1>1. CASE \E r \in Requests : req[r].user = u /\ Pending(r) # {}
  <2>1. PICK r \in Requests : req[r].user = u /\ Pending(r) # {}
    BY <1>1
  <2>2. Coming(u) = Pending(r) /\ req[r].pc \in BusySteps
    BY <1>a, <2>1, ComingOf, PendingOwn
  <2>3. Defaults(u) = {}
    BY <1>a, <2>1, <2>2 DEF SerialInv, StillTrue, BusySteps
  <2>4. v \in Pending(r) /\ w \in Pending(r)
    BY <2>2, <2>3 DEF Shown
  <2>5. CASE At(r, "mark")
    <3>1. Pending(r) = OwnRow(r)
      BY <2>5 DEF Pending, At
    <3>2. QED
      BY <2>4, <3>1 DEF OwnRow, WithId
  <2>6. CASE ~At(r, "mark")
    <3>1. v \in Oldest(u) /\ w \in Oldest(u)
      BY <2>1, <2>2, <2>4, <2>6 DEF Pending, BusySteps, At
    <3>2. v \in wallets /\ w \in wallets /\ v.id <= w.id /\ w.id <= v.id
      BY <3>1 DEF Oldest, Rows
    <3>3. QED
      BY <1>a, <3>2, RowTypes
  <2>7. QED
    BY <2>5, <2>6
<1>2. CASE ~ \E r \in Requests : req[r].user = u /\ Pending(r) # {}
  <2>1. Coming(u) = {}
    BY <1>2 DEF Coming
  <2>2. QED
    BY <1>a, <2>1 DEF Shown, SerialInv, SingleDefault
<1>3. QED
  BY <1>1, <1>2

LEMMA ShownOne == ASSUME Serial PROVE KeptInv => OneShown
<1> SUFFICES ASSUME KeptInv, NEW u \in Users, NEW w \in Shown(u)
             PROVE  Default[u] = w.id
  BY DEF OneShown
<1> DEFINE c == CHOOSE v \in Shown(u) : TRUE
<1>1. c \in Shown(u)
  OBVIOUS
<1>2. Default[u] = c.id
  BY DEF Default
<1> HIDE DEF c
<1>3. c.id = w.id
  BY <1>1, ShownAlike
<1>4. QED
  BY <1>2, <1>3

LEMMA ShownNone ==
  ASSUME NEW u \in Users, Shown(u) = {}
  PROVE  Default[u] = 0
  BY DEF Default

\* Everything that is shown is one of the user's rows.
OwnShown == \A u \in Users : Shown(u) \subseteq Rows(u)

LEMMA ShownOwn == OwnShown
<1> SUFFICES ASSUME NEW u \in Users PROVE Shown(u) \subseteq Rows(u)
  BY DEF OwnShown
<1>1. Coming(u) \subseteq Rows(u)
  BY PendingOwn DEF Coming
<1>2. QED
  BY <1>1 DEF Shown, Defaults

-----------------------------------------------------------------------------
(* What the book shows of users whom a step does not concern.              *)

\* Request x is the same to user u after the step.
SameTo(x, u) ==
    \/ req'[x] = req[x]
    \/ Pending(x) = {} /\ Pending(x)' = {}
    \/ req[x].user # u /\ req'[x].user # u
    \/ req'[x].user = req[x].user /\ Pending(x)' = Pending(x)

LEMMA SameShown ==
  ASSUME NEW u \in Users, Rows(u)' = Rows(u), \A x \in Requests : SameTo(x, u)
  PROVE  /\ Coming(u)' = Coming(u) /\ Shown(u)' = Shown(u)
         /\ Default[u]' = Default[u]
<1>1. \A x \in Requests : \A w :
        (req[x].user = u /\ w \in Pending(x))
          <=> (req'[x].user = u /\ w \in Pending(x)')
  <2> SUFFICES ASSUME NEW x \in Requests, NEW w
               PROVE  (req[x].user = u /\ w \in Pending(x))
                        <=> (req'[x].user = u /\ w \in Pending(x)')
    OBVIOUS
  <2>1. CASE req'[x] = req[x] /\ req[x].user = u
    <3>1. OwnRow(x)' = OwnRow(x)
      <4>1. OwnRow(x)' = {v \in Rows(u)' : v.id = req[x].id}
        BY <2>1 DEF OwnRow, WithId, Rows
      <4>2. QED
        BY <2>1, <4>1, OwnRowIs
    <3>2. Oldest(req[x].user)' = Oldest(req[x].user)
      <4>1. Oldest(u)' = Oldest(u) /\ req'[x].user = u
        BY <2>1 DEF Oldest
      <4>2. Oldest(req[x].user)' = Oldest(u)'
        BY <2>1 DEF Oldest, Rows
      <4>3. QED
        BY <2>1, <4>1, <4>2
    <3>3. Pending(x)' = Pending(x)
      BY <2>1, <3>1, <3>2 DEF Pending, At
    <3>4. QED
      BY <2>1, <3>3
  <2>2. CASE req'[x] = req[x] /\ req[x].user # u
    BY <2>2
  <2>3. CASE req'[x] # req[x]
    BY <2>3 DEF SameTo
  <2>4. QED
    BY <2>1, <2>2, <2>3
<1>2. Coming(u)' = Coming(u)
  BY <1>1 DEF Coming
<1>3. Shown(u)' = Shown(u)
  BY <1>2 DEF Shown, Defaults
<1>4. QED
  BY <1>2, <1>3 DEF Default

LEMMA BookStutter ==
  ASSUME UNCHANGED nextId, Entries' = Entries, Lost' = Lost,
         \A u \in Users : Default[u]' = Default[u]
  PROVE  UNCHANGED Book!book
<1>1. Default' = Default
  BY DEF Default
<1>2. QED
  BY <1>1 DEF Book!book

LEMMA ReadBook ==
  ASSUME KeptInv, NEW r \in Requests,
         \A x \in Requests \ {r} : req'[x] = req[x],
         UNCHANGED <<wallets, nextId, torn>>,
         \/ Pending(r) = {} /\ Pending(r)' = {}
         \/ req'[r].user = req[r].user /\ Pending(r)' = Pending(r)
  PROVE  UNCHANGED Book!book
<1>1. torn \subseteq Users
  BY DEF KeptInv, ServiceInv, TypeInv, TypeOK
<1>2. ASSUME NEW u \in Users
      PROVE  Coming(u)' = Coming(u) /\ Default[u]' = Default[u]
  <2>1. Rows(u)' = Rows(u)
    BY DEF Rows
  <2>2. \A x \in Requests : SameTo(x, u)
    BY DEF SameTo
  <2>3. QED
    BY <2>1, <2>2, SameShown
<1>3. Lost' = Lost
  BY <1>1, <1>2 DEF Lost
<1>4. Entries' = Entries
  BY DEF Entries
<1>5. QED
  BY <1>2, <1>3, <1>4, BookStutter

LEMMA WriteFrame ==
  ASSUME KeptInv, NEW r \in Requests, Writes(r), NEW pcs, Lands(r, pcs),
         NEW u \in Users, u # req[r].user
  PROVE  Coming(u)' = Coming(u) /\ Default[u]' = Default[u]
<1>1. Rows(u)' = Rows(u)
  BY OtherRows DEF KeptInv, ServiceInv
<1>2. \A x \in Requests : SameTo(x, u)
  BY DEF Lands, SameTo
<1>3. QED
  BY <1>1, <1>2, SameShown

\* Clearing and setting a flag leave the wallets of the book as they are.
LEMMA SameEntries ==
  ASSUME TypeInv, NEW r \in Requests, Clear(r) \/ WriteDefault(r)
  PROVE  Entries' = Entries
<1>1. \E f \in [wallets -> BOOLEAN] :
        wallets' = {[w EXCEPT !.isDefault = f[w]] : w \in wallets}
  <2>1. CASE Clear(r)
    <3> DEFINE f == [w \in wallets |-> w.isDefault /\ w.userId # req[r].user]
    <3>1. f \in [wallets -> BOOLEAN]
      BY RowTypes DEF Wallet
    <3>2. wallets' = {[w EXCEPT !.isDefault = f[w]] : w \in wallets}
      BY <2>1 DEF Clear, Cleared
    <3> HIDE DEF f
    <3>3. QED
      BY <3>1, <3>2
  <2>2. CASE WriteDefault(r)
    <3> DEFINE f == [w \in wallets |-> w.isDefault \/ w.id = req[r].id]
    <3>1. f \in [wallets -> BOOLEAN]
      BY RowTypes DEF Wallet
    <3>2. wallets' = {[w EXCEPT !.isDefault = f[w]] : w \in wallets}
      BY <2>2 DEF WriteDefault, Marked
    <3> HIDE DEF f
    <3>3. QED
      BY <3>1, <3>2
  <2>3. QED
    BY <2>1, <2>2
<1>2. PICK f \in [wallets -> BOOLEAN] :
        wallets' = {[w EXCEPT !.isDefault = f[w]] : w \in wallets}
  BY <1>1
<1> DEFINE To(w) == [w EXCEPT !.isDefault = f[w]]
           E(w) == [n |-> w.id, user |-> w.userId, key |-> w.publicKey]
<1>3. \A w \in wallets : E(To(w)) = E(w)
  BY RowTypes DEF Wallet
<1>4. wallets' = {To(w) : w \in wallets}
  BY <1>2
<1>5. Entries = {E(w) : w \in wallets} /\ Entries' = {E(w) : w \in wallets'}
  BY DEF Entries
<1> HIDE DEF To, E
<1>6. QED
  BY <1>3, <1>4, <1>5

\* The second write is the one the book has already shown.
LEMMA MarkBook ==
  ASSUME Serial, KeptInv, KeptInv', NEW r \in Requests, WriteDefault(r)
  PROVE  UNCHANGED Book!book
<1> DEFINE u == req[r].user
<1>a. /\ TypeInv /\ TableOK /\ OwnInv /\ SerialInv /\ Sees(r)
      /\ torn \subseteq Users
  BY DEF KeptInv, ServiceInv, TypeInv, TypeOK
<1>b. /\ req[r].pc \in {"mark", "promote"} /\ u \in Users
      /\ Lands(r, {"done"})
  BY <1>a, AtWork, ManageLands DEF WriteDefault, AddSteps, OwnSteps
<1>1. PICK w \in wallets : w.id = req[r].id /\ w.userId = u
  BY <1>a DEF WriteDefault, WithId, OwnInv, OwnsRow, AtRow
<1>2. w \in Coming(u)
  <2>1. w \in OwnRow(r)
    BY <1>1 DEF OwnRow, WithId
  <2>2. w \in Pending(r)
    BY <1>a, <1>b, <2>1 DEF Pending, Sees, At
  <2>3. QED
    BY <1>a, <1>b, <2>2, ComingOf
<1>3. Default[u] = req[r].id
  BY <1>1, <1>2, <1>b, ShownOne DEF OneShown, Shown
<1>4. u' = u
  BY <1>b DEF Lands
<1>5. PICK v \in wallets' : v.id = req[r].id /\ v.userId = u /\ v.isDefault
  BY <1>a, MarkRows
<1>6. Default[u]' = req[r].id
  <2>1. OneShown'
    BY ShownOne, PTL
  <2>2. v \in Defaults(u)'
    BY <1>4, <1>5 DEF Defaults, Rows
  <2>3. v \in Shown(u)'
    BY <2>2 DEF Shown
  <2>4. QED
    BY <1>b, <1>4, <1>5, <2>1, <2>3 DEF OneShown
<1>7. \A x \in Users : x # u => Coming(x)' = Coming(x) /\ Default[x]' = Default[x]
  BY <1>b, WriteFrame DEF Writes
<1>8. Lost' = Lost
  <2>1. torn' = torn \ {u}
    BY DEF WriteDefault
  <2>2. \A x \in Users : x # u => ((x \in Lost') <=> (x \in Lost))
    BY <1>7, <2>1 DEF Lost
  <2>3. u \notin Lost /\ u \notin Lost'
    BY <1>2, <2>1 DEF Lost
  <2>4. Lost \subseteq Users /\ Lost' \subseteq Users
    BY <1>a, <2>1 DEF Lost
  <2>5. QED
    BY <2>2, <2>3, <2>4
<1>9. \A x \in Users : Default[x]' = Default[x]
  <2> SUFFICES ASSUME NEW x \in Users PROVE Default[x]' = Default[x]
    OBVIOUS
  <2>1. CASE x = u
    <3>1. Default[x]' = Default[u]'
      BY <1>4, <2>1
    <3>2. QED
      BY <1>3, <1>6, <2>1, <3>1
  <2>2. CASE x # u
    BY <1>7, <2>2
  <2>3. QED
    BY <2>1, <2>2
<1>10. UNCHANGED nextId /\ Entries' = Entries
  BY <1>a, SameEntries DEF WriteDefault
<1>11. QED
  BY <1>8, <1>9, <1>10, BookStutter

-----------------------------------------------------------------------------
(* The steps that change the book.                                         *)

\* What a step leaves of default and lost, when it concerns user u only.
LEMMA ChooseBook ==
  ASSUME NEW u \in Users, NEW n, Default[u]' = n,
         \A x \in Users : x # u =>
           Coming(x)' = Coming(x) /\ Default[x]' = Default[x],
         torn \subseteq Users, torn' \subseteq Users,
         \A x \in Users : x # u => (x \in torn' <=> x \in torn),
         u \in torn' => Coming(u)' # {}
  PROVE  Book!Choose(u, n)
<1>1. Default' = [Default EXCEPT ![u] = n]
  <2>1. Default \in [Users -> {Default[x] : x \in Users}]
    BY DEF Default
  <2>2. Default' = [x \in Users |-> Default[x]']
    BY DEF Default
  <2>3. Default = [x \in Users |-> Default[x]]
    BY DEF Default
  <2>4. QED
    BY <2>2, <2>3
<1>2. Lost' = Lost \ {u}
  <2>1. \A x \in Users : x # u => ((x \in Lost') <=> (x \in Lost))
    BY DEF Lost
  <2>2. u \notin Lost'
    BY DEF Lost
  <2>3. Lost \subseteq Users /\ Lost' \subseteq Users
    BY DEF Lost
  <2>4. QED
    BY <2>1, <2>2, <2>3
<1>3. QED
  BY <1>1, <1>2 DEF Book!Choose

\* setDefault: the default changes with the first write.
LEMMA ClearBook ==
  ASSUME Serial, KeptInv, KeptInv', NEW r \in Requests, Clear(r)
  PROVE  Book!Next \/ UNCHANGED Book!book
<1> DEFINE u == req[r].user
<1>a. /\ TypeInv /\ TableOK /\ OwnInv /\ SerialInv /\ SerialInv' /\ Sees(r)
      /\ torn \subseteq Users /\ torn' = torn
  BY DEF KeptInv, ServiceInv, TypeInv, TypeOK, Clear
<1>b. /\ u \in Users /\ Lands(r, {"mark"}) /\ At(r, "clear")
      /\ req'[r].id = req[r].id /\ req'[r].user = u /\ req'[r].pc = "mark"
  BY <1>a, AtWork, ManageLands DEF Clear, At, AddSteps, OwnSteps, Lands
<1>c. u' = u
  BY <1>b
<1>1. UNCHANGED nextId /\ Entries' = Entries
  BY <1>a, SameEntries DEF Clear
<1>2. \A x \in Users : x # u =>
        Coming(x)' = Coming(x) /\ Default[x]' = Default[x]
  BY <1>b, WriteFrame DEF Writes
<1>3. CASE OwnRow(r) # {}
  <2>1. PICK w \in wallets : w.id = req[r].id /\ w.userId = u
    BY <1>3 DEF OwnRow, WithId
  <2>2. PICK v \in wallets' : v.id = w.id /\ v.userId = u
    BY <1>a, <2>1, ClearRows
  <2>3. v \in Pending(r)'
    <3>1. v \in OwnRow(r)'
      BY <1>b, <2>1, <2>2 DEF OwnRow, WithId
    <3>2. QED
      BY <1>b, <3>1 DEF Pending, At
  <2>4. v \in Coming(u)'
    BY <1>b, <2>3 DEF Coming
  <2>5. Default[u]' = w.id
    <3>1. OneShown'
      BY ShownOne, PTL
    <3>2. v \in Shown(u)'
      BY <2>4 DEF Shown
    <3>3. QED
      BY <1>b, <1>c, <2>2, <3>1, <3>2 DEF OneShown
  <2>6. Book!Choose(u, w.id)
    BY <1>a, <1>b, <1>2, <2>4, <2>5, ChooseBook
  <2> DEFINE e == [n |-> w.id, user |-> w.userId, key |-> w.publicKey]
  <2>7. e \in Entries /\ e.user = u /\ e.n = w.id
    BY <2>1 DEF Entries
  <2>8. Book!MakeDefault(e)
    BY <1>1, <2>6, <2>7 DEF Book!MakeDefault
  <2>9. QED
    BY <2>7, <2>8 DEF Book!Next
<1>4. CASE OwnRow(r) = {}
  <2>1. Rows(u) = {}
    BY <1>a, <1>b, <1>4, NoAccountNoRows DEF Sees, At
  <2>2. \A v \in wallets' : v.userId # u
    BY <1>a, <2>1, ClearRows DEF Rows
  <2>3. Rows(u)' = {}
    BY <1>c, <2>2 DEF Rows
  <2>4. Coming(u)' = {} /\ Shown(u)' = {} /\ Coming(u) = {} /\ Shown(u) = {}
    <3>1. Shown(u) \subseteq Rows(u)
      BY <1>b, ShownOwn DEF OwnShown
    <3>2. Shown(u)' \subseteq Rows(u)'
      <4>1. OwnShown'
        BY ShownOwn, PTL
      <4>2. QED
        BY <4>1, <1>b, <1>c DEF OwnShown
    <3>3. QED
      BY <2>1, <2>3, <3>1, <3>2 DEF Shown
  <2>5. Default[u]' = 0 /\ Default[u] = 0
    BY <1>b, <1>c, <2>4 DEF Default
  <2>6. \A x \in Users : Coming(x)' = Coming(x)
    <3>1. SUFFICES ASSUME NEW x \in Users, x = u PROVE Coming(x)' = Coming(x)
      BY <1>2
    <3>2. QED
      BY <1>c, <2>4, <3>1
  <2>7. \A x \in Users : Default[x]' = Default[x]
    <3>1. SUFFICES ASSUME NEW x \in Users, x = u PROVE Default[x]' = Default[x]
      BY <1>2
    <3>2. Default[x]' = Default[u]'
      BY <1>c, <3>1
    <3>3. QED
      BY <2>5, <3>1, <3>2
  <2>8. Lost' = Lost
    BY <1>a, <2>6 DEF Lost
  <2>9. QED
    BY <1>1, <2>7, <2>8, BookStutter
<1>5. QED
  BY <1>3, <1>4

\* A request that writes no default shows none.
LEMMA NothingComing ==
  ASSUME SerialInv, NEW r \in Requests, NEW u \in Users, u = req[r].user,
         req[r].pc \notin BusySteps
  PROVE  Coming(u) = {} /\ Shown(u) = Defaults(u)
<1>1. Coming(u) = Pending(r) /\ Pending(r) = {}
  BY ComingOf, PendingOwn
<1>2. QED
  BY <1>1 DEF Shown

NoneComing ==
    \A r \in Requests, u \in Users :
      SerialInv /\ u = req[r].user /\ req[r].pc \notin BusySteps =>
        Coming(u) = {} /\ Shown(u) = Defaults(u)

LEMMA NoneComes == NoneComing
  BY NothingComing DEF NoneComing

\* The book's entry for a row.
EntryOf(w) == [n |-> w.id, user |-> w.userId, key |-> w.publicKey]

LEMMA BookRows ==
  /\ Entries = {EntryOf(w) : w \in wallets}
  /\ \A u : Book!Of(u) = {EntryOf(w) : w \in Rows(u)}
<1>1. \A w \in wallets : EntryOf(w).user = w.userId
  BY DEF EntryOf
<1>2. Entries = {EntryOf(w) : w \in wallets}
  BY DEF Entries, EntryOf
<1>3. \A u : Book!Of(u) = {EntryOf(w) : w \in Rows(u)}
  BY <1>1, <1>2 DEF Book!Of, Rows
<1>4. QED
  BY <1>2, <1>3

\* A registration.
LEMMA InsertBook ==
  ASSUME Serial, KeptInv, KeptInv', NEW r \in Requests, InsertRow(r)
  PROVE  Book!Next
<1> DEFINE u == req[r].user
           k == req[r].key
           e == [n |-> nextId, user |-> u, key |-> k]
<1>a. /\ TypeInv /\ TableOK /\ OwnInv /\ SerialInv /\ SerialInv' /\ Sees(r)
      /\ torn \subseteq Users /\ torn' \subseteq Users
      /\ nextId \in Nat /\ StillTrue(r)
  BY DEF KeptInv, ServiceInv, TypeInv, TypeOK, SerialInv
<1>b. /\ u \in Users /\ k \in Keys /\ Lands(r, {"done"}) /\ At(r, "insert")
      /\ req'[r].user = u /\ req'[r].pc = "done"
      /\ nextId' = nextId + 1 /\ wallets' = wallets \cup {NewRow(r)}
      /\ NewRow(r).id = nextId /\ NewRow(r).userId = u
      /\ NewRow(r).publicKey = k /\ NewRow(r).isDefault = req[r].isDefault
  BY <1>a, AtWork, RegisterLands
     DEF InsertRow, At, AddSteps, Lands, NewRow
<1>c. u' = u
  BY <1>b
<1>1. Entries' = Entries \cup {e}
  BY <1>b DEF Entries
<1>2. \A f \in Entries : f.key # k
  BY DEF InsertRow, InsertAllowed, WithKey, Entries
<1>3. Book!Of(u) = {} <=> Rows(u) = {}
  BY BookRows
<1>4. \A x \in Users : x # u =>
        Coming(x)' = Coming(x) /\ Default[x]' = Default[x]
  BY <1>b, WriteFrame DEF Writes
<1>5. /\ Coming(u) = {} /\ Shown(u) = Defaults(u)
      /\ Coming(u)' = {} /\ Shown(u)' = Defaults(u)'
  <2>1. NoneComing /\ NoneComing'
    BY NoneComes, PTL
  <2>2. req[r].pc \notin BusySteps /\ req'[r].pc \notin BusySteps
    BY <1>b DEF BusySteps, At
  <2>3. Coming(u) = {} /\ Shown(u) = Defaults(u)
    BY <1>a, <1>b, <2>1, <2>2 DEF NoneComing
  <2>4. Coming(u)' = {} /\ Shown(u)' = Defaults(u)'
    BY <1>a, <1>b, <1>c, <2>1, <2>2 DEF NoneComing
  <2>5. QED
    BY <2>3, <2>4
<1>6. IF Book!Of(u) = {} THEN Book!Choose(u, nextId)
                         ELSE UNCHANGED <<Default, Lost>>
  <2>1. CASE Rows(u) = {}
    <3>1. req[r].isDefault
      BY <1>a, <1>b, <2>1 DEF InsertRow, InsertAllowed, Sees
    <3>2. NewRow(r) \in Shown(u)'
      BY <1>b, <1>c, <1>5, <3>1 DEF Defaults, Rows
    <3>3. OneShown'
      BY ShownOne, PTL
    <3>4. Default[u]' = nextId
      BY <1>b, <1>c, <3>2, <3>3 DEF OneShown
    <3>5. torn' = torn \ {u}
      BY <3>1 DEF InsertRow
    <3>6. Book!Choose(u, nextId)
      BY <1>a, <1>b, <1>4, <3>4, <3>5, ChooseBook
    <3>7. QED
      BY <1>3, <2>1, <3>6
  <2>2. CASE Rows(u) # {}
    <3>1. ~req[r].isDefault
      BY <1>a, <1>b, <2>2 DEF StillTrue
    <3>2. Defaults(u)' = Defaults(u)
      BY <1>b, <1>c, <3>1 DEF Defaults, Rows
    <3>3. torn' = torn
      BY <3>1 DEF InsertRow
    <3>4. \A x \in Users :
            Coming(x)' = Coming(x) /\ Default[x]' = Default[x]
      <4>1. SUFFICES ASSUME NEW x \in Users, x = u
                     PROVE  Coming(x)' = Coming(x) /\ Default[x]' = Default[x]
        BY <1>4
      <4>2. Coming(x)' = Coming(x) /\ Shown(x)' = Shown(x)
        BY <1>c, <1>5, <3>2, <4>1
      <4>3. QED
        BY <4>2 DEF Default
    <3>5. Default' = Default /\ Lost' = Lost
      BY <1>a, <3>3, <3>4 DEF Default, Lost
    <3>6. QED
      BY <1>3, <2>2, <3>5
  <2>3. QED
    BY <2>1, <2>2
<1>7. (nextId - 1)' = (nextId - 1) + 1 /\ (nextId - 1)' = nextId
  BY <1>a, <1>b
<1>8. Book!Register(u, k)
  BY <1>1, <1>2, <1>6, <1>7 DEF Book!Register
<1>9. QED
  BY <1>b, <1>8 DEF Book!Next

\* A change of default that fails half way.
LEMMA AbortBook ==
  ASSUME Serial, KeptInv, KeptInv', NEW r \in Requests, Abort(r)
  PROVE  Book!Next \/ UNCHANGED Book!book
<1> DEFINE u == req[r].user
<1>a. /\ TypeInv /\ SerialInv /\ SerialInv' /\ torn \subseteq Users
      /\ StillTrue(r) /\ UNCHANGED <<wallets, nextId>>
  BY DEF KeptInv, ServiceInv, TypeInv, TypeOK, SerialInv, Abort
<1>b. /\ u \in Users /\ Lands(r, {"done"}) /\ req'[r].pc = "done"
      /\ req'[r].user = u
  BY <1>a, AtWork, ManageLands DEF Abort, Lands
<1>c. u' = u
  BY <1>b
<1>d. Entries' = Entries
  BY <1>a DEF Entries
<1>1. CASE req[r].pc \notin BusySteps
  <2>1. torn' = torn
    BY <1>1 DEF Abort, BusySteps
  <2>2. Pending(r) = {}
    BY <1>1, PendingOwn
  <2>3. Pending(r)' = {}
    BY <1>b DEF Pending, At
  <2>4. QED
    BY <1>a, <1>b, <2>1, <2>2, <2>3, ReadBook DEF Lands
<1>2. CASE req[r].pc \in BusySteps
  <2>1. torn' = torn \cup {u}
    BY <1>2 DEF Abort, BusySteps
  <2>2. \A x \in Users : x # u =>
          Coming(x)' = Coming(x) /\ Default[x]' = Default[x]
    <3> SUFFICES ASSUME NEW x \in Users, x # u
                 PROVE  Coming(x)' = Coming(x) /\ Default[x]' = Default[x]
      OBVIOUS
    <3>1. Rows(x)' = Rows(x) /\ \A y \in Requests : SameTo(y, x)
      BY <1>a, <1>b DEF Rows, SameTo, Lands
    <3>2. QED
      BY <3>1, SameShown
  <2>3. Coming(u)' = {} /\ Default[u]' = 0
    <3>1. NoneComing'
      BY NoneComes, PTL
    <3>2. Coming(u)' = {} /\ Shown(u)' = Defaults(u)'
      BY <1>a, <1>b, <1>c, <3>1 DEF NoneComing, BusySteps
    <3>3. Defaults(u) = {}
      BY <1>a, <1>2 DEF StillTrue, BusySteps
    <3>4. Defaults(u)' = {}
      BY <1>a, <1>c, <3>3 DEF Defaults, Rows
    <3>5. QED
      BY <1>b, <1>c, <3>2, <3>4 DEF Default
  <2>4. Default' = [Default EXCEPT ![u] = 0]
    <3>1. Default' = [x \in Users |-> Default[x]']
      BY DEF Default
    <3>2. Default = [x \in Users |-> Default[x]]
      BY DEF Default
    <3>3. QED
      BY <2>2, <2>3, <3>1, <3>2, <1>c
  <2>5. Lost' = Lost \cup {u}
    <3>1. \A x \in Users : x # u => ((x \in Lost') <=> (x \in Lost))
      BY <2>1, <2>2 DEF Lost
    <3>2. u \in Lost'
      BY <1>c, <2>1, <2>3 DEF Lost
    <3>3. Lost \subseteq Users /\ Lost' \subseteq Users
      BY <1>a, <1>b, <2>1 DEF Lost
    <3>4. QED
      BY <1>b, <3>1, <3>2, <3>3
  <2>6. Book!LoseDefault(u)
    BY <1>a, <1>d, <2>4, <2>5 DEF Book!LoseDefault
  <2>7. QED
    BY <1>b, <2>6 DEF Book!Next
<1>3. QED
  BY <1>1, <1>2

OldestThere ==
    \A u \in Users : TypeInv /\ Rows(u) # {} =>
      \E w \in Rows(u) : w \in Oldest(u)

LEMMA OldestsThere == OldestThere
  BY OldestExists DEF OldestThere

\* A deletion: of a wallet that is not the default, of the last one, or of
\* the default, whose place the oldest one left takes at once.
LEMMA RemoveBook ==
  ASSUME Serial, KeptInv, KeptInv', IdInv, NEW r \in Requests, Remove(r)
  PROVE  Book!Next
<1> DEFINE u == req[r].user
<1>a. /\ TypeInv /\ TypeInv' /\ TableOK /\ OwnInv /\ SerialInv /\ SerialInv'
      /\ Sees(r) /\ TornInv /\ torn \subseteq Users /\ torn' = torn
      /\ UNCHANGED nextId
  BY DEF KeptInv, ServiceInv, TypeInv, TypeOK, Remove
<1>b. /\ u \in Users /\ Lands(r, {"pick", "done"}) /\ At(r, "remove")
      /\ req'[r].user = u
      /\ req'[r].pc = IF req[r].isDefault THEN "pick" ELSE "done"
  BY <1>a, AtWork, ManageLands, RemoveLands
     DEF Remove, At, AddSteps, OwnSteps, Lands
<1>c. u' = u
  BY <1>b
<1>1. PICK w \in wallets : w.id = req[r].id
  BY DEF Remove, WithId
<1>2. w.userId = u /\ w \in OwnRow(r)
  BY <1>a, <1>b, <1>1 DEF OwnInv, OwnsRow, AtRow, At, OwnRow, WithId
<1>3. wallets' = wallets \ {w}
  BY <1>a, <1>1 DEF Remove, WithId, TableOK
<1>4. w.isDefault = req[r].isDefault
  BY <1>a, <1>b, <1>2 DEF Sees, At
<1> DEFINE e == EntryOf(w)
<1>5. e \in Entries /\ e.user = u /\ e.n = w.id
  BY <1>1, <1>2, BookRows DEF EntryOf
<1>6. \A v \in wallets : EntryOf(v) = e => v = w
  BY <1>a, <1>1 DEF EntryOf, TableOK
<1>7. Entries' = Entries \ {e}
  <2>1. Entries' = {EntryOf(v) : v \in wallets'}
    BY DEF Entries, EntryOf
  <2>2. QED
    BY <1>1, <1>3, <1>6, <2>1, BookRows
<1>8. Book!Of(u) \ {e} = {EntryOf(v) : v \in Rows(u)'}
  <2>1. Rows(u)' = Rows(u) \ {w}
    BY <1>c, <1>3 DEF Rows
  <2>2. w \in Rows(u) /\ Rows(u) \subseteq wallets
    BY <1>1, <1>2 DEF Rows
  <2>3. QED
    BY <1>6, <2>1, <2>2, BookRows
<1>9. \A x \in Users : x # u =>
        Coming(x)' = Coming(x) /\ Default[x]' = Default[x]
  BY <1>b, WriteFrame DEF Writes
<1>10. Coming(u) = {} /\ Shown(u) = Defaults(u)
  BY <1>a, <1>b, NothingComing DEF BusySteps, At
<1>11. CASE req[r].isDefault
  <2>1. Default[u] = w.id
    <3>1. w \in Shown(u)
      BY <1>1, <1>2, <1>4, <1>10, <1>11 DEF Defaults, Rows
    <3>2. QED
      BY <1>b, <3>1, ShownOne DEF OneShown
  <2>2. u \notin torn
    BY <1>a, <1>1, <1>2, <1>4, <1>11 DEF TornInv, Defaults, Rows
  <2>3. Book!Choose(u, Default[u]')
    BY <1>a, <1>b, <1>9, <2>2, ChooseBook
  <2>4. CASE Rows(u)' = {}
    <3>1. OwnShown'
      BY ShownOwn, PTL
    <3>2. Shown(u)' = {}
      BY <1>b, <1>c, <2>4, <3>1 DEF OwnShown
    <3>3. Default[u]' = 0
      BY <1>b, <1>c, <3>2 DEF Default
    <3>4. Book!Of(u) \ {e} = {}
      BY <1>8, <2>4
    <3>5. Book!Remove(e)
      BY <1>5, <1>7, <1>a, <2>1, <2>3, <3>3, <3>4 DEF Book!Remove
    <3>6. QED
      BY <1>5, <3>5 DEF Book!Next
  <2>5. CASE Rows(u)' # {}
    <3>1. PICK o \in Rows(u)' : o \in Oldest(u)'
      <4>1. OldestThere'
        BY OldestsThere, PTL
      <4>2. QED
        BY <1>a, <1>b, <1>c, <2>5, <4>1 DEF OldestThere
    <3>2. o \in Shown(u)'
      <4>1. Oldest(u)' = Oldest(req[r].user)'
        OBVIOUS
      <4>2. o \in Pending(r)'
        BY <1>b, <1>11, <3>1, <4>1 DEF Pending, At
      <4>3. o \in Coming(u)'
        BY <1>b, <4>2 DEF Coming
      <4>4. QED
        BY <4>3 DEF Shown
    <3>3. Default[u]' = o.id
      <4>1. OneShown'
        BY ShownOne, PTL
      <4>2. QED
        BY <1>b, <1>c, <3>2, <4>1 DEF OneShown
    <3>4. \A v \in Rows(u)' : o.id <= v.id
      BY <3>1 DEF Oldest
    <3> DEFINE f == EntryOf(o)
    <3>5. f \in Book!Of(u) \ {e} /\ f.n = o.id
      BY <1>8, <3>1 DEF EntryOf
    <3>6. \A g \in Book!Of(u) \ {e} : f.n <= g.n
      BY <1>8, <3>4, <3>5 DEF EntryOf
    <3>7. Book!Remove(e)
      BY <1>5, <1>7, <1>a, <2>1, <2>3, <3>3, <3>5, <3>6 DEF Book!Remove
    <3>8. QED
      BY <1>5, <3>7 DEF Book!Next
  <2>6. QED
    BY <2>4, <2>5
<1>12. CASE ~req[r].isDefault
  <2>1. Default[u] # w.id
    <3>1. CASE Shown(u) = {}
      BY <1>a, <1>b, <1>1, <3>1, ShownNone, RowTypes DEF IdInv
    <3>2. CASE Shown(u) # {}
      <4>1. PICK d \in Defaults(u) : TRUE
        BY <1>10, <3>2
      <4>2. Default[u] = d.id
        BY <1>b, <1>10, <4>1, ShownOne DEF OneShown
      <4>3. d.id # w.id
        BY <1>a, <1>1, <1>4, <1>12, <4>1 DEF Defaults, Rows, TableOK
      <4>4. QED
        BY <4>2, <4>3
    <3>3. QED
      BY <3>1, <3>2
  <2>2. Coming(u)' = {} /\ Shown(u)' = Defaults(u)'
    <3>1. NoneComing'
      BY NoneComes, PTL
    <3>2. QED
      BY <1>a, <1>b, <1>c, <1>12, <3>1 DEF NoneComing, BusySteps
  <2>3. Defaults(u)' = Defaults(u)
    BY <1>c, <1>3, <1>4, <1>12 DEF Defaults, Rows
  <2>4. \A x \in Users : Coming(x)' = Coming(x) /\ Default[x]' = Default[x]
    <3>1. SUFFICES ASSUME NEW x \in Users, x = u
                   PROVE  Coming(x)' = Coming(x) /\ Default[x]' = Default[x]
      BY <1>9
    <3>2. Coming(x)' = Coming(x) /\ Shown(x)' = Shown(x)
      BY <1>c, <1>10, <2>2, <2>3, <3>1
    <3>3. QED
      BY <3>2 DEF Default
  <2>5. Default' = Default /\ Lost' = Lost
    BY <1>a, <2>4 DEF Default, Lost
  <2>6. Book!Remove(e)
    BY <1>5, <1>7, <1>a, <2>1, <2>5 DEF Book!Remove
  <2>7. QED
    BY <1>5, <2>6 DEF Book!Next
<1>13. QED
  BY <1>11, <1>12

\* Accounts are purged with their wallets.
LEMMA PurgeBook ==
  ASSUME KeptInv, Purge
  PROVE  Book!Next
<1>a. TypeInv /\ torn \subseteq Users /\ users \subseteq Users
  BY DEF KeptInv, ServiceInv, TypeInv, TypeOK
<1>1. PICK S \in SUBSET users :
        /\ wallets' = {w \in wallets : w.userId \notin S}
        /\ torn' = torn \ S /\ UNCHANGED <<nextId, req>>
  BY DEF Purge, Survivors
<1>2. Entries' = {f \in Entries : f.user \notin S}
  <2>1. \A w \in wallets : EntryOf(w).user = w.userId
    BY DEF EntryOf
  <2>2. Entries' = {EntryOf(w) : w \in wallets'}
    BY DEF Entries, EntryOf
  <2>3. QED
    BY <1>1, <2>1, <2>2, BookRows
<1>3. \A x \in Users \ S :
        Coming(x)' = Coming(x) /\ Default[x]' = Default[x]
  <2> SUFFICES ASSUME NEW x \in Users \ S
               PROVE  Coming(x)' = Coming(x) /\ Default[x]' = Default[x]
    OBVIOUS
  <2>1. Rows(x)' = Rows(x) /\ \A y \in Requests : SameTo(y, x)
    BY <1>1 DEF Rows, SameTo
  <2>2. QED
    BY <2>1, SameShown
<1>4. \A x \in S : Default[x]' = 0
  <2> SUFFICES ASSUME NEW x \in S PROVE Default[x]' = 0
    OBVIOUS
  <2>1. OwnShown'
    BY ShownOwn, PTL
  <2>2. Rows(x)' = {}
    BY <1>1 DEF Rows
  <2>3. Shown(x)' = {} /\ x \in Users
    BY <1>a, <2>1, <2>2 DEF OwnShown
  <2>4. QED
    BY <2>3 DEF Default
<1>5. Default' = [x \in Users |-> IF x \in S THEN 0 ELSE Default[x]]
  <2>1. Default' = [x \in Users |-> Default[x]']
    BY DEF Default
  <2>2. QED
    BY <1>3, <1>4, <2>1
<1>6. Lost' = Lost \ S
  BY <1>a, <1>1, <1>3 DEF Lost
<1>7. UNCHANGED (nextId - 1)
  BY <1>1
<1>8. Book!Close(S)
  BY <1>2, <1>5, <1>6, <1>7 DEF Book!Close
<1>9. S \in SUBSET Users
  BY <1>a
<1>10. QED
  BY <1>8, <1>9 DEF Book!Next

-----------------------------------------------------------------------------
(* The refinement.                                                         *)

\* The steps that only read, or write nothing to the tables.
LEMMA QuietBook ==
  ASSUME Serial, KeptInv, NEW r \in Requests,
         \/ Begin(r) \/ Reply(r)
         \/ KeyFree(r) \/ KeyTaken(r) \/ KeyOwned(r) \/ InsertRefused(r)
         \/ Friendbot(r) \/ Count(r) \/ OwnMissing(r) \/ OwnFound(r)
         \/ RowGone(r) \/ PickNothing(r) \/ Pick(r)
  PROVE  UNCHANGED Book!book
<1>a. TypeInv /\ TableOK /\ Sees(r)
  BY DEF KeptInv, ServiceInv
<1>b. UNCHANGED <<users, wallets, nextId, torn>>
  BY DEF Begin, BeginRegister, BeginOnWallet, Reply, KeyFree, KeyTaken,
         KeyOwned, InsertRefused, Friendbot, FriendbotFails, FriendbotFunds,
         Count, OwnMissing, OwnFound, RowGone, PickNothing, Pick
<1>c. \A x \in Requests \ {r} : req'[x] = req[x]
  BY <1>a, BeginLands, RegisterLands, ManageLands DEF Lands, Friendbot
<1>d. ASSUME req'[r].pc \notin BusySteps PROVE Pending(r)' = {}
  BY <1>d DEF Pending, BusySteps, At
<1>1. ASSUME \/ Begin(r) \/ Reply(r)
             \/ KeyFree(r) \/ KeyTaken(r) \/ KeyOwned(r) \/ InsertRefused(r)
             \/ Friendbot(r) \/ Count(r) \/ OwnMissing(r) \/ OwnFound(r)
      PROVE  Pending(r) = {} /\ Pending(r)' = {}
  <2>1. req[r].pc \notin BusySteps
    BY <1>1
       DEF Begin, BeginRegister, BeginOnWallet, Reply, KeyFree, KeyTaken,
           KeyOwned, InsertRefused, Friendbot, FriendbotFails,
           FriendbotFunds, Count, OwnMissing, OwnFound, At, BusySteps
  <2>2. req'[r].pc \notin BusySteps
    <3>1. CASE Begin(r) \/ Reply(r)
      BY <1>a, <3>1, BeginLands DEF BusySteps
    <3>2. CASE \/ KeyFree(r) \/ KeyTaken(r) \/ KeyOwned(r)
               \/ InsertRefused(r) \/ Friendbot(r) \/ Count(r)
      BY <1>a, <3>2, RegisterLands DEF Lands, BusySteps, Friendbot
    <3>3. CASE OwnMissing(r) \/ OwnFound(r)
      BY <1>a, <3>3, ManageLands DEF Lands, BusySteps
    <3>4. QED
      BY <1>1, <3>1, <3>2, <3>3
  <2>3. QED
    BY <1>d, <2>1, <2>2, PendingOwn
<1>2. ASSUME RowGone(r) \/ PickNothing(r)
      PROVE  Pending(r) = {} /\ Pending(r)' = {}
  <2>1. Pending(r)' = {}
    BY <1>a, <1>d, <1>2, ManageLands DEF Lands, BusySteps
  <2>2. CASE PickNothing(r)
    BY <2>1, <2>2, PendingOwn DEF PickNothing
  <2>3. CASE RowGone(r) /\ req[r].pc \in {"mark", "promote"}
    <3>1. OwnRow(r) = {}
      BY <2>3 DEF RowGone, OwnRow
    <3>2. Rows(req[r].user) = {}
      BY <1>a, <2>3, <3>1, NoAccountNoRows DEF Sees
    <3>3. QED
      BY <2>1, <3>2, PendingOwn
  <2>4. CASE RowGone(r) /\ req[r].pc = "remove"
    BY <2>1, <2>4, PendingOwn DEF BusySteps
  <2>5. QED
    BY <1>2, <2>2, <2>3, <2>4 DEF RowGone
<1>3. ASSUME Pick(r)
      PROVE  req'[r].user = req[r].user /\ Pending(r)' = Pending(r)
  <2>1. req'[r].user = req[r].user /\ req'[r].pc = "promote"
    BY <1>a, <1>3, ManageLands DEF Lands
  <2>2. Oldest(req[r].user)' = Oldest(req[r].user)
    BY <1>b, <2>1 DEF Oldest, Rows
  <2>3. req[r].pc = "pick"
    BY <1>3 DEF Pick, At
  <2>4. Pending(r) = Oldest(req[r].user)
    BY <2>3 DEF Pending, At
  <2>5. Pending(r)' = Oldest(req[r].user)'
    BY <2>1 DEF Pending, At
  <2>6. QED
    BY <2>1, <2>2, <2>4, <2>5
<1>4. QED
  BY <1>b, <1>c, <1>1, <1>2, <1>3, ReadBook

LEMMA NextBook ==
  ASSUME Serial, KeptInv, KeptInv', IdInv, [Next]_vars
  PROVE  [Book!Next]_(Book!book)
<1>1. ASSUME UNCHANGED vars PROVE UNCHANGED Book!book
  <2>1. \A r \in Requests : Pending(r)' = Pending(r)
    BY <1>1 DEF vars, Pending, At, OwnRow, WithId, Oldest, Rows
  <2>2. \A u \in Users : Coming(u)' = Coming(u) /\ Default[u]' = Default[u]
    <3> SUFFICES ASSUME NEW u \in Users
                 PROVE  Coming(u)' = Coming(u) /\ Default[u]' = Default[u]
      OBVIOUS
    <3>1. Rows(u)' = Rows(u) /\ \A x \in Requests : SameTo(x, u)
      BY <1>1 DEF vars, Rows, SameTo
    <3>2. QED
      BY <3>1, SameShown
  <2>3. Lost' = Lost
    BY <1>1, <2>2 DEF vars, Lost, KeptInv, ServiceInv, TypeInv, TypeOK
  <2>4. Entries' = Entries /\ UNCHANGED nextId
    BY <1>1 DEF vars, Entries
  <2>5. QED
    BY <2>2, <2>3, <2>4, BookStutter
<1>2. QED
  BY <1>1, QuietBook, InsertBook, ClearBook, MarkBook, RemoveBook, AbortBook,
     PurgeBook, Cases

LEMMA InitBook == Init => Book!Init
<1> SUFFICES ASSUME Init PROVE Book!Init
  OBVIOUS
<1>1. nextId - 1 = 0 /\ Entries = {} /\ Lost = {}
  BY DEF Init, Entries, Lost
<1>2. \A u \in Users : Rows(u) = {}
  BY DEF Init, Rows
<1>3. \A u \in Users : Default[u] = 0
  BY <1>2, ShownOwn, ShownNone DEF OwnShown
<1>4. Default = [u \in Users |-> 0]
  BY <1>3 DEF Default
<1>5. QED
  BY <1>1, <1>4 DEF Book!Init

\* For users who make one request at a time, the wallet endpoints implement
\* the book: every statement of create, upsert, fund, setDefault and delete,
\* every failure and every purge is a step of the book or leaves it as it is.
THEOREM ServiceImplementsBook == ASSUME Serial PROVE Spec => RefinesBook
<1>1. Spec => []KeptInv
  BY KeptAlways
<1>2. Spec => []IdInv
  <2>1. Init => IdInv
    BY DEF Init, IdInv
  <2>2. Spec => []TypeInv
    BY InitType, NextType, PTL DEF Spec
  <2>3. QED
    BY <2>1, <2>2, NextId, PTL DEF Spec
<1>3. KeptInv /\ KeptInv' /\ IdInv /\ [Next]_vars => [Book!Next]_(Book!book)
  BY NextBook
<1>4. QED
  BY <1>1, <1>2, <1>3, InitBook, PTL DEF Spec, RefinesBook, Book!Spec

-----------------------------------------------------------------------------
(* How many defaults there may be when users do not wait.  A request that  *)
(* will add a default owes one; flags and debts together never exceed the  *)
(* number of requests.  A delete owes one from the moment another request  *)
(* has taken away the flag it has read: it will remove a wallet that is no *)
(* default, and promote another all the same.                              *)

Owes(r) ==
    \/ At(r, "insert") /\ req[r].isDefault
    \/ req[r].pc \in BusySteps
    \/ At(r, "remove") /\ req[r].isDefault /\ \E w \in OwnRow(r) : ~w.isDefault

Owed(u) == {r \in Requests : req[r].user = u /\ Owes(r)}

\* Defaults D and debts P do not outnumber S.
Counts(S, D, P) ==
    IsFiniteSet(D) /\ Cardinality(D) + Cardinality(P) <= Cardinality(S)

FlagsFor(u) == Counts(Requests, Defaults(u), Owed(u))

FlagsInv == \A u \in Users : FlagsFor(u)

\* The four ways in which defaults D and debts P become E and Q.
Cleans(E) == E = {}
Shrinks(D, P, E, Q) == E \subseteq D /\ Q \subseteq P
Pays(D, P, E, Q, x, r) ==
    E \subseteq D \cup {x} /\ r \in P /\ Q \subseteq P \ {r}
Borrows(D, P, E, Q, x, r) ==
    x \in D /\ E \subseteq D \ {x} /\ Q \subseteq P \cup {r}

Moves(D, P, E, Q, x, r) ==
    \/ Cleans(E) \/ Shrinks(D, P, E, Q)
    \/ Pays(D, P, E, Q, x, r) \/ Borrows(D, P, E, Q, x, r)

LEMMA OneMore ==
  ASSUME NEW S, IsFiniteSet(S), NEW x
  PROVE  /\ IsFiniteSet(S \cup {x}) /\ Cardinality(S \cup {x}) \in Nat
         /\ Cardinality(S \cup {x}) <= Cardinality(S) + 1
<1>1. Cardinality(S) \in Nat
  BY FS_CardinalityType
<1>2. CASE x \in S
  <2> DEFINE T == S \cup {x}
  <2>1. T = S
    BY <1>2
  <2>2. IsFiniteSet(T) /\ Cardinality(T) = Cardinality(S)
    BY ONLY <2>1, IsFiniteSet(S)
  <2>3. QED
    BY <1>1, <2>2
<1>3. CASE x \notin S
  <2>1. IsFiniteSet(S \cup {x}) /\ Cardinality(S \cup {x}) = Cardinality(S) + 1
    BY <1>3, FS_AddElement
  <2>2. QED
    BY <1>1, <2>1
<1>4. QED
  BY <1>2, <1>3

LEMMA Counting ==
  ASSUME NEW S, IsFiniteSet(S), NEW D, NEW P \in SUBSET S,
         NEW E, NEW Q \in SUBSET S, NEW x, NEW r,
         Counts(S, D, P), Moves(D, P, E, Q, x, r)
  PROVE  Counts(S, E, Q)
<1>a. /\ IsFiniteSet(P) /\ IsFiniteSet(Q) /\ Cardinality(Q) <= Cardinality(S)
      /\ IsFiniteSet(D) /\ Cardinality(D) + Cardinality(P) <= Cardinality(S)
  BY FS_Subset DEF Counts
<1>b. /\ Cardinality(S) \in Nat /\ Cardinality(D) \in Nat
      /\ Cardinality(P) \in Nat /\ Cardinality(Q) \in Nat
  BY <1>a, FS_CardinalityType
<1>1. CASE Cleans(E)
  <2>1. IsFiniteSet(E) /\ Cardinality(E) = 0
    BY <1>1, FS_EmptySet DEF Cleans
  <2>2. QED
    BY <1>a, <1>b, <2>1 DEF Counts
<1>2. CASE Shrinks(D, P, E, Q)
  <2>1. IsFiniteSet(E) /\ Cardinality(E) <= Cardinality(D)
    BY <1>a, <1>2, FS_Subset DEF Shrinks
  <2>2. Cardinality(Q) <= Cardinality(P)
    BY <1>a, <1>2, FS_Subset DEF Shrinks
  <2>3. Cardinality(E) \in Nat
    BY <2>1, FS_CardinalityType
  <2>4. QED
    BY <1>a, <1>b, <2>1, <2>2, <2>3 DEF Counts
<1>3. CASE Pays(D, P, E, Q, x, r)
  <2>1. /\ IsFiniteSet(D \cup {x}) /\ Cardinality(D \cup {x}) \in Nat
        /\ Cardinality(D \cup {x}) <= Cardinality(D) + 1
    BY <1>a, OneMore
  <2>2. IsFiniteSet(E) /\ Cardinality(E) <= Cardinality(D \cup {x})
    BY <1>3, <2>1, FS_Subset DEF Pays
  <2>3. /\ IsFiniteSet(P \ {r})
        /\ Cardinality(P \ {r}) = Cardinality(P) - 1
    BY <1>a, <1>3, FS_RemoveElement DEF Pays
  <2>4. Cardinality(Q) <= Cardinality(P \ {r})
    BY <1>3, <2>3, FS_Subset DEF Pays
  <2>5. Cardinality(E) \in Nat
    BY <2>2, FS_CardinalityType
  <2>6. QED
    BY <1>a, <1>b, <2>1, <2>2, <2>3, <2>4, <2>5 DEF Counts
<1>4. CASE Borrows(D, P, E, Q, x, r)
  <2>1. /\ IsFiniteSet(D \ {x})
        /\ Cardinality(D \ {x}) = Cardinality(D) - 1
    BY <1>a, <1>4, FS_RemoveElement DEF Borrows
  <2>2. IsFiniteSet(E) /\ Cardinality(E) <= Cardinality(D \ {x})
    BY <1>4, <2>1, FS_Subset DEF Borrows
  <2>3. /\ IsFiniteSet(P \cup {r}) /\ Cardinality(P \cup {r}) \in Nat
        /\ Cardinality(P \cup {r}) <= Cardinality(P) + 1
    BY <1>a, OneMore
  <2>4. Cardinality(Q) <= Cardinality(P \cup {r})
    BY <1>4, <2>3, FS_Subset DEF Borrows
  <2>5. Cardinality(E) \in Nat
    BY <2>2, FS_CardinalityType
  <2>6. QED
    BY <1>a, <1>b, <2>1, <2>2, <2>3, <2>4, <2>5 DEF Counts
<1>5. QED
  BY <1>1, <1>2, <1>3, <1>4 DEF Moves

LEMMA FlagsStep ==
  ASSUME NEW u, FlagsFor(u), NEW x, NEW r,
         Moves(Defaults(u), Owed(u), Defaults(u)', Owed(u)', x, r)
  PROVE  FlagsFor(u)'
<1>1. /\ Owed(u) \in SUBSET Requests /\ Owed(u)' \in SUBSET Requests
      /\ IsFiniteSet(Requests)
  BY RequestsAssumption DEF Owed
<1>2. Counts(Requests, Defaults(u)', Owed(u)')
  BY <1>1, Counting DEF FlagsFor
<1>3. QED
  BY <1>2 DEF FlagsFor

\* A request that a step leaves alone owes nothing new, unless the step takes
\* the flag of its row away.
LEMMA OwesKept ==
  ASSUME NEW x \in Requests, req'[x] = req[x], Owes(x)',
         At(x, "remove") =>
           \A w \in wallets' :
             w.id = req[x].id /\ w.userId = req[x].user /\ ~w.isDefault =>
               \E v \in wallets :
                 v.id = w.id /\ v.userId = w.userId /\ ~v.isDefault
  PROVE  Owes(x)
  BY DEF Owes, At, OwnRow, WithId

\* So does every request, when no flag is taken away, but perhaps r.
LEMMA OwedKept ==
  ASSUME ServiceInv, NEW r, NEW u,
         \A x \in Requests \ {r} : req'[x] = req[x],
         \A w \in wallets' : w.userId = u /\ ~w.isDefault =>
           \/ w.id = nextId
           \/ \E v \in wallets :
                v.id = w.id /\ v.userId = w.userId /\ ~v.isDefault
  PROVE  Owed(u)' \subseteq Owed(u) \cup {r}
<1> SUFFICES ASSUME NEW x \in Owed(u)', x # r PROVE x \in Owed(u)
  OBVIOUS
<1>a. OwnInv /\ nextId \in Nat
  BY DEF ServiceInv, TypeInv, TypeOK
<1>1. x \in Requests /\ req'[x] = req[x] /\ req[x].user = u /\ Owes(x)'
  BY DEF Owed
<1>2. At(x, "remove") => req[x].id < nextId
  BY <1>1, <1>a DEF OwnInv, OwnsRow, AtRow, At
<1>3. req[x].id < nextId => req[x].id # nextId
  <2>1. req[x] \in Request
    BY <1>1 DEF ServiceInv, TypeInv, TypeOK
  <2>2. req[x].id \in Nat
    BY <2>1 DEF Request
  <2>3. QED
    BY <1>a, <2>2
<1>4. Owes(x)
  BY <1>1, <1>2, <1>3, OwesKept
<1>5. QED
  BY <1>1, <1>4 DEF Owed

\* A step that writes nothing, after which r owes nothing it did not owe.
LEMMA FlagsQuiet ==
  ASSUME ServiceInv, NEW u \in Users, FlagsFor(u), NEW r,
         \A x \in Requests \ {r} : req'[x] = req[x], wallets' = wallets,
         \/ req'[r].user = u => ~Owes(r)'
         \/ r \in Owed(u)
         \/ Rows(u) = {}
  PROVE  FlagsFor(u)'
<1>1. Defaults(u)' = Defaults(u)
  BY DEF Defaults, Rows
<1>2. Owed(u)' \subseteq Owed(u) \cup {r}
  BY OwedKept
<1>3. CASE Rows(u) = {}
  <2>1. Cleans(Defaults(u)')
    BY <1>1, <1>3 DEF Cleans, Defaults
  <2>2. QED
    BY <2>1, FlagsStep DEF Moves
<1>4. CASE (req'[r].user = u => ~Owes(r)') \/ r \in Owed(u)
  <2>1. r \notin Owed(u)' \/ r \in Owed(u)
    BY <1>4 DEF Owed
  <2>2. Shrinks(Defaults(u), Owed(u), Defaults(u)', Owed(u)')
    BY <1>1, <1>2, <2>1 DEF Shrinks
  <2>3. QED
    BY <2>2, FlagsStep DEF Moves
<1>5. QED
  BY <1>3, <1>4

\* A step of some other user's request.
LEMMA FlagsOther ==
  ASSUME ServiceInv, NEW u \in Users, FlagsFor(u), NEW r,
         \A x \in Requests \ {r} : req'[x] = req[x], Rows(u)' = Rows(u),
         req'[r].user # u
  PROVE  FlagsFor(u)'
<1>1. Defaults(u)' = Defaults(u)
  BY DEF Defaults
<1>2. Owed(u)' \subseteq Owed(u) \cup {r}
  <2>1. \A w \in wallets' : w.userId = u => w \in wallets
    BY DEF Rows
  <2>2. QED
    BY <2>1, OwedKept
<1>3. Shrinks(Defaults(u), Owed(u), Defaults(u)', Owed(u)')
  BY <1>1, <1>2 DEF Owed, Shrinks
<1>4. QED
  BY <1>3, FlagsStep DEF Moves

LEMMA FlagsInsert ==
  ASSUME ServiceInv, NEW r \in Requests, InsertRow(r),
         NEW u, u = req[r].user, FlagsFor(u)
  PROVE  FlagsFor(u)'
<1>1. /\ \A x \in Requests \ {r} : req'[x] = req[x]
      /\ req'[r].pc = "done"
  BY RegisterLands DEF ServiceInv, Lands
<1>2. Owed(u)' \subseteq Owed(u) \cup {r}
  <2>1. \A w \in wallets' : w \in wallets \/ w.id = nextId
    BY DEF InsertRow, NewRow
  <2>2. QED
    BY <1>1, <2>1, OwedKept
<1>3. r \notin Owed(u)'
  BY <1>1 DEF Owed, Owes, At, BusySteps
<1>4. CASE req[r].isDefault
  <2>1. r \in Owed(u)
    BY <1>4 DEF InsertRow, Owed, Owes
  <2>2. Defaults(u)' \subseteq Defaults(u) \cup {NewRow(r)}
    BY DEF InsertRow, Defaults, Rows
  <2>3. Pays(Defaults(u), Owed(u), Defaults(u)', Owed(u)', NewRow(r), r)
    BY <1>2, <1>3, <2>1, <2>2 DEF Pays
  <2>4. QED
    BY <2>3, FlagsStep DEF Moves
<1>5. CASE ~req[r].isDefault
  <2>1. Defaults(u)' \subseteq Defaults(u)
    BY <1>5 DEF InsertRow, NewRow, Defaults, Rows
  <2>2. Owed(u)' \subseteq Owed(u)
    BY <1>2, <1>3
  <2>3. Shrinks(Defaults(u), Owed(u), Defaults(u)', Owed(u)')
    BY <2>1, <2>2 DEF Shrinks
  <2>4. QED
    BY <2>3, FlagsStep DEF Moves
<1>6. QED
  BY <1>4, <1>5

LEMMA FlagsClear ==
  ASSUME ServiceInv, NEW r \in Requests, Clear(r),
         NEW u, u = req[r].user, FlagsFor(u)
  PROVE  FlagsFor(u)'
<1>1. \A w \in wallets' : w.userId = u => ~w.isDefault
  BY ClearRows DEF ServiceInv
<1>2. Cleans(Defaults(u)')
  BY <1>1 DEF Cleans, Defaults, Rows
<1>3. QED
  BY <1>2, FlagsStep DEF Moves

LEMMA FlagsWrite ==
  ASSUME ServiceInv, NEW r \in Requests, WriteDefault(r),
         NEW u, u = req[r].user, FlagsFor(u)
  PROVE  FlagsFor(u)'
<1> DEFINE Of(w) == [w EXCEPT !.isDefault = w.isDefault \/ w.id = req[r].id]
<1>1. /\ \A x \in Requests \ {r} : req'[x] = req[x]
      /\ req'[r].pc = "done"
  BY ManageLands DEF ServiceInv, Lands
<1>2. PICK m \in wallets : m.id = req[r].id
  BY DEF WriteDefault, WithId
<1>3. wallets' = {Of(w) : w \in wallets}
  BY DEF WriteDefault, Marked
<1>4. \A w \in wallets :
        /\ Of(w).id = w.id /\ Of(w).userId = w.userId
        /\ Of(w).isDefault = (w.isDefault \/ w.id = req[r].id)
        /\ w.id # req[r].id => Of(w) = w
  BY RowTypes, SameFlag DEF Wallet, ServiceInv
<1> HIDE DEF Of
<1>5. Owed(u)' \subseteq Owed(u) \cup {r}
  <2>1. \A w \in wallets' : ~w.isDefault =>
          \E v \in wallets : v.id = w.id /\ v.userId = w.userId /\ ~v.isDefault
    BY <1>3, <1>4
  <2>2. QED
    BY <1>1, <2>1, OwedKept
<1>6. r \in Owed(u) /\ r \notin Owed(u)'
  BY <1>1 DEF WriteDefault, Owed, Owes, At, BusySteps
<1>7. Defaults(u)' \subseteq Defaults(u) \cup {Of(m)}
  <2> SUFFICES ASSUME NEW v \in Defaults(u)', v # Of(m)
               PROVE  v \in Defaults(u)
    OBVIOUS
  <2>1. v \in wallets' /\ v.userId = u /\ v.isDefault
    BY DEF Defaults, Rows
  <2>2. PICK w \in wallets : v = Of(w)
    BY <1>3, <2>1
  <2>3. w.id # req[r].id
    BY <1>2, <2>2 DEF ServiceInv, TableOK
  <2>4. QED
    BY <1>4, <2>1, <2>2, <2>3 DEF Defaults, Rows
<1>8. Pays(Defaults(u), Owed(u), Defaults(u)', Owed(u)', Of(m), r)
  BY <1>5, <1>6, <1>7 DEF Pays
<1>9. QED
  BY <1>8, FlagsStep DEF Moves

LEMMA FlagsRemove ==
  ASSUME ServiceInv, NEW r \in Requests, Remove(r),
         NEW u, u = req[r].user, FlagsFor(u)
  PROVE  FlagsFor(u)'
<1>a. TypeInv /\ TableOK /\ OwnInv
  BY DEF ServiceInv
<1>1. /\ \A x \in Requests \ {r} : req'[x] = req[x]
      /\ req'[r].pc = IF req[r].isDefault THEN "pick" ELSE "done"
  BY <1>a, ManageLands, RemoveLands DEF Lands
<1>2. Owed(u)' \subseteq Owed(u) \cup {r}
  BY <1>1, OwedKept DEF Remove
<1>3. Defaults(u)' = {w \in Defaults(u) : w.id # req[r].id}
  BY RemoveRows
<1>4. PICK w \in wallets : w.id = req[r].id /\ w.userId = u
  BY <1>a DEF Remove, WithId, At, OwnInv, OwnsRow, AtRow
<1>5. CASE ~req[r].isDefault
  <2>1. r \notin Owed(u)'
    BY <1>1, <1>5 DEF Owed, Owes, At, BusySteps
  <2>2. Shrinks(Defaults(u), Owed(u), Defaults(u)', Owed(u)')
    BY <1>2, <1>3, <2>1 DEF Shrinks
  <2>3. QED
    BY <2>2, FlagsStep DEF Moves
<1>6. CASE req[r].isDefault /\ ~w.isDefault
  <2>1. r \in Owed(u)
    BY <1>4, <1>6 DEF Remove, Owed, Owes, OwnRow, WithId
  <2>2. Shrinks(Defaults(u), Owed(u), Defaults(u)', Owed(u)')
    BY <1>2, <1>3, <2>1 DEF Shrinks
  <2>3. QED
    BY <2>2, FlagsStep DEF Moves
<1>7. CASE w.isDefault
  <2>1. w \in Defaults(u) /\ Defaults(u)' \subseteq Defaults(u) \ {w}
    BY <1>3, <1>4, <1>7 DEF Defaults, Rows
  <2>2. Borrows(Defaults(u), Owed(u), Defaults(u)', Owed(u)', w, r)
    BY <1>2, <2>1 DEF Borrows
  <2>3. QED
    BY <2>2, FlagsStep DEF Moves
<1>8. QED
  BY <1>5, <1>6, <1>7

LEMMA FlagsPurge ==
  ASSUME ServiceInv, Purge, NEW u \in Users, FlagsFor(u)
  PROVE  FlagsFor(u)'
<1>1. PICK S \in SUBSET users :
        wallets' = Survivors(S) /\ UNCHANGED req
  BY DEF Purge
<1>2. Defaults(u)' \subseteq Defaults(u)
  BY <1>1 DEF Defaults, Rows, Survivors
<1>3. Owed(u)' \subseteq Owed(u)
  <2> SUFFICES ASSUME NEW x \in Owed(u)' PROVE x \in Owed(u)
    OBVIOUS
  <2>1. x \in Requests /\ req'[x] = req[x] /\ req[x].user = u /\ Owes(x)'
    BY <1>1 DEF Owed
  <2>2. \A w \in wallets' : w \in wallets
    BY <1>1 DEF Survivors
  <2>3. Owes(x)
    BY <2>1, <2>2, OwesKept
  <2>4. QED
    BY <2>1, <2>3 DEF Owed
<1>4. Shrinks(Defaults(u), Owed(u), Defaults(u)', Owed(u)')
  BY <1>2, <1>3 DEF Shrinks
<1>5. QED
  BY <1>4, FlagsStep DEF Moves

\* A request owes nothing at the steps where it has not decided yet, or is
\* done.
LEMMA OwesNothing ==
  ASSUME NEW r,
         req'[r].pc \in {"idle", "done", "findKey", "friendbot", "count",
                         "findOwn", "clear"}
  PROVE  ~Owes(r)'
  BY DEF Owes, At, BusySteps

LEMMA NextFlags ==
  ASSUME ServiceInv, FlagsInv, [Next]_vars, NEW u \in Users
  PROVE  FlagsFor(u)'
<1>a. TypeInv /\ TableOK /\ OwnInv /\ FlagsFor(u)
  BY DEF ServiceInv, FlagsInv
<1> USE DEF Lands
<1>1. ASSUME NEW r \in Requests, Begin(r) \/ Reply(r) PROVE FlagsFor(u)'
  <2>1. wallets' = wallets
    BY <1>1 DEF Begin, BeginRegister, BeginOnWallet, Reply
  <2>2. /\ \A x \in Requests \ {r} : req'[x] = req[x]
        /\ ~Owes(r)'
    BY <1>1, <1>a, BeginLands, OwesNothing
  <2>3. QED
    BY <1>a, <2>1, <2>2, FlagsQuiet
<1>2. ASSUME NEW r \in Requests,
             \/ KeyFree(r) \/ KeyTaken(r) \/ KeyOwned(r) \/ InsertRefused(r)
             \/ Friendbot(r)
      PROVE  FlagsFor(u)'
  <2>1. wallets' = wallets
    BY <1>2 DEF KeyFree, KeyTaken, KeyOwned, InsertRefused, Friendbot,
                FriendbotFails, FriendbotFunds
  <2>2. /\ \A x \in Requests \ {r} : req'[x] = req[x]
        /\ ~Owes(r)'
    BY <1>2, <1>a, RegisterLands, OwesNothing DEF Friendbot
  <2>3. QED
    BY <1>a, <2>1, <2>2, FlagsQuiet
<1>3. ASSUME NEW r \in Requests, Count(r) PROVE FlagsFor(u)'
  <2>1. /\ \A x \in Requests \ {r} : req'[x] = req[x]
        /\ req'[r].pc = "insert" /\ req'[r].user = req[r].user
        /\ req'[r].isDefault = (Rows(req[r].user) = {})
    BY <1>3, <1>a, RegisterLands
  <2>2. req'[r].user = u /\ Owes(r)' => Rows(u) = {}
    BY <2>1 DEF Owes, At, BusySteps
  <2>3. wallets' = wallets
    BY <1>3 DEF Count
  <2>4. QED
    BY <1>a, <2>1, <2>2, <2>3, FlagsQuiet
<1>4. ASSUME NEW r \in Requests, OwnMissing(r) PROVE FlagsFor(u)'
  BY <1>4, <1>a, ManageLands, OwesNothing, FlagsQuiet DEF OwnMissing
<1>5. ASSUME NEW r \in Requests, OwnFound(r) PROVE FlagsFor(u)'
  <2>1. PICK w \in OwnRow(r) :
          req'[r].pc = "remove" => req'[r].isDefault = w.isDefault
    BY <1>5, <1>a, ManageLands
  <2>2. /\ \A x \in Requests \ {r} : req'[x] = req[x]
        /\ req'[r].pc \in {"clear", "remove"}
        /\ req'[r].user = req[r].user /\ req'[r].id = req[r].id
    BY <1>5, <1>a, ManageLands
  <2>3. wallets' = wallets
    BY <1>5 DEF OwnFound
  <2>4. \A v \in OwnRow(r)' : v = w
    BY <1>a, <2>2, <2>3 DEF OwnRow, WithId, TableOK
  <2>5. ~Owes(r)'
    BY <2>1, <2>2, <2>4 DEF Owes, At, BusySteps
  <2>6. QED
    BY <1>a, <2>2, <2>3, <2>5, FlagsQuiet
<1>6. ASSUME NEW r \in Requests, Pick(r) PROVE FlagsFor(u)'
  <2>1. /\ \A x \in Requests \ {r} : req'[x] = req[x]
        /\ req'[r].user = req[r].user
    BY <1>6, <1>a, ManageLands
  <2>2. Owes(r) /\ wallets' = wallets
    BY <1>6 DEF Pick, Owes, At, BusySteps
  <2>3. req'[r].user = u => r \in Owed(u)
    BY <2>1, <2>2 DEF Owed
  <2>4. QED
    BY <1>a, <2>1, <2>2, <2>3, FlagsQuiet
<1>7. ASSUME NEW r \in Requests, RowGone(r) \/ PickNothing(r) \/ Abort(r)
      PROVE  FlagsFor(u)'
  <2>1. wallets' = wallets
    BY <1>7 DEF RowGone, PickNothing, Abort
  <2>2. /\ \A x \in Requests \ {r} : req'[x] = req[x]
        /\ ~Owes(r)'
    BY <1>7, <1>a, ManageLands, OwesNothing
  <2>3. QED
    BY <1>a, <2>1, <2>2, FlagsQuiet
<1>8. ASSUME NEW r \in Requests, Writes(r), req[r].user # u
      PROVE  FlagsFor(u)'
  <2>1. Rows(u)' = Rows(u)
    BY <1>8, <1>a, OtherRows
  <2>2. /\ \A x \in Requests \ {r} : req'[x] = req[x]
        /\ req'[r].user = req[r].user
    BY <1>8, <1>a, RegisterLands, ManageLands DEF Writes
  <2>3. QED
    BY <1>8, <1>a, <2>1, <2>2, FlagsOther
<1>9. ASSUME NEW r \in Requests, Writes(r), req[r].user = u
      PROVE  FlagsFor(u)'
  BY <1>9, <1>a, FlagsInsert, FlagsClear, FlagsWrite, FlagsRemove DEF Writes
<1>10. CASE UNCHANGED vars
  BY <1>10, <1>a
     DEF vars, FlagsFor, Defaults, Rows, Owed, Owes, At, OwnRow, WithId
<1>11. QED
  BY <1>1, <1>2, <1>3, <1>4, <1>5, <1>6, <1>7, <1>8, <1>9, <1>10, <1>a,
     FlagsPurge, Cases DEF Writes

\* At most as many defaults as requests served at once, for any number of
\* users, keys and slots, whatever fails: two requests can both make their
\* wallet the default, but each of them only once.
THEOREM FewDefaults == Spec => []DefaultsBounded
<1>1. Init => FlagsInv
  <2> SUFFICES ASSUME Init, NEW u \in Users PROVE FlagsFor(u)
    BY DEF FlagsInv
  <2>1. Defaults(u) = {} /\ Owed(u) = {}
    BY DEF Init, Idle, Defaults, Rows, Owed, Owes, At, BusySteps
  <2>2. Cardinality(Requests) \in Nat
    BY RequestsAssumption, FS_CardinalityType
  <2>3. QED
    BY <2>1, <2>2, FS_EmptySet DEF FlagsFor, Counts
<1>2. ServiceInv /\ FlagsInv /\ [Next]_vars => FlagsInv'
  BY NextFlags DEF FlagsInv
<1>3. ServiceInv /\ FlagsInv => DefaultsBounded
  <2> SUFFICES ASSUME FlagsInv, NEW u \in Users
               PROVE  Cardinality(Defaults(u)) <= Cardinality(Requests)
    BY DEF DefaultsBounded
  <2>1. /\ IsFiniteSet(Defaults(u))
        /\ Cardinality(Defaults(u)) + Cardinality(Owed(u))
             <= Cardinality(Requests)
    BY DEF FlagsInv, FlagsFor, Counts
  <2>2. IsFiniteSet(Owed(u))
    BY RequestsAssumption, FS_Subset DEF Owed
  <2>3. /\ Cardinality(Defaults(u)) \in Nat /\ Cardinality(Owed(u)) \in Nat
        /\ Cardinality(Requests) \in Nat
    BY <2>1, <2>2, RequestsAssumption, FS_CardinalityType
  <2>4. QED
    BY <2>1, <2>3
<1>4. Spec => []ServiceInv
  BY OwnSafe DEF ServiceInv
<1>5. QED
  BY <1>1, <1>2, <1>3, <1>4, PTL DEF Spec
=============================================================================
