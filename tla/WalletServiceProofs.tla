------------------------- MODULE WalletServiceProofs -------------------------
(***************************************************************************)
(* Theorems about the wallet endpoints, for every set of users, keys and   *)
(* request slots and every setting of the switches.                        *)
(***************************************************************************)
EXTENDS WalletService, TLAPS

-----------------------------------------------------------------------------
(* Types.                                                                  *)

\* A request at work has a user, and one that will insert a row has a key.
Fits(q) ==
    /\ q.pc \in AddSteps \cup OwnSteps => q.user \in Users
    /\ q.pc \in AddSteps => q.key \in Keys

TypeInv == TypeOK /\ \A r \in Requests : Fits(req[r])

LEMMA IdleFits == Idle \in Request /\ Fits(Idle)
  BY NoneAssumption
     DEF Idle, Request, Fits, AddSteps, OwnSteps, AllOps, Adders, Answers

\* Moving to another await, and answering, change nothing else of a request.
LEMMA GotoFits ==
  ASSUME TypeInv, NEW r \in Requests, NEW pc \in AddSteps \cup OwnSteps,
         req[r].user \in Users, pc \in AddSteps => req[r].key \in Keys
  PROVE  Goto(r, pc) \in Request /\ Fits(Goto(r, pc))
  BY DEF TypeInv, TypeOK, Goto, Request, Fits

LEMMA AnswerFits ==
  ASSUME TypeInv, NEW r \in Requests, NEW a \in Answers
  PROVE  Answer(r, a) \in Request /\ Fits(Answer(r, a))
  BY DEF TypeInv, TypeOK, Answer, Request, Fits, AddSteps, OwnSteps

\* So do the changes of the fields that are not part of Fits.
LEMMA FieldFits ==
  ASSUME NEW q \in Request, Fits(q), NEW n \in Nat, NEW b \in BOOLEAN
  PROVE  /\ [q EXCEPT !.id = n] \in Request /\ Fits([q EXCEPT !.id = n])
         /\ [q EXCEPT !.isDefault = b] \in Request
         /\ Fits([q EXCEPT !.isDefault = b])
         /\ [q EXCEPT !.funded = b] \in Request
         /\ Fits([q EXCEPT !.funded = b])
  BY DEF Request, Fits

LEMMA Fields ==
  ASSUME TypeInv, NEW r \in Requests
  PROVE  /\ \A pc \in AddSteps \cup OwnSteps :
              /\ Goto(r, pc).pc = pc
              /\ Goto(r, pc).user = req[r].user
              /\ Goto(r, pc).id = req[r].id
              /\ Goto(r, pc).isDefault = req[r].isDefault
         /\ \A a \in Answers :
              /\ Answer(r, a).pc = "done"
              /\ Answer(r, a).user = req[r].user
  BY DEF TypeInv, TypeOK, Goto, Answer, Request

LEMMA Updates ==
  ASSUME NEW q \in Request, NEW n, NEW b
  PROVE  /\ [q EXCEPT !.id = n].pc = q.pc
         /\ [q EXCEPT !.id = n].user = q.user
         /\ [q EXCEPT !.id = n].id = n
         /\ [q EXCEPT !.isDefault = b].pc = q.pc
         /\ [q EXCEPT !.isDefault = b].user = q.user
         /\ [q EXCEPT !.isDefault = b].id = q.id
         /\ [q EXCEPT !.isDefault = b].isDefault = b
         /\ [q EXCEPT !.funded = b].pc = q.pc
         /\ [q EXCEPT !.funded = b].user = q.user
         /\ [q EXCEPT !.funded = b].isDefault = q.isDefault
  BY DEF Request

LEMMA AtWork ==
  ASSUME TypeInv, NEW r \in Requests
  PROVE  /\ req[r] \in Request
         /\ req[r].pc \in AddSteps \cup OwnSteps => req[r].user \in Users
         /\ req[r].pc \in AddSteps => req[r].key \in Keys
         /\ \A w \in wallets : w \in Wallet /\ w.id \in Nat
  BY DEF TypeInv, TypeOK, Fits, Wallet

\* A step that leaves slot r with a well-typed request keeps the types of
\* all slots.
LEMMA PutFits ==
  ASSUME TypeInv, NEW r \in Requests, NEW q \in Request, Fits(q), Put(r, q)
  PROVE  req' \in [Requests -> Request] /\ \A x \in Requests : Fits(req'[x])
  BY DEF TypeInv, TypeOK, Put

LEMMA InitType == Init => TypeInv
  BY IdleFits DEF Init, TypeInv, TypeOK

LEMMA NextType == TypeInv /\ [Next]_vars => TypeInv'
<1> SUFFICES ASSUME TypeInv, [Next]_vars PROVE TypeInv'
  OBVIOUS
<1>a. \A r \in Requests :
        /\ req[r] \in Request
        /\ req[r].pc \in AddSteps \cup OwnSteps => req[r].user \in Users
        /\ req[r].pc \in AddSteps => req[r].key \in Keys
  BY DEF TypeInv, TypeOK, Fits
<1>b. ASSUME NEW r \in Requests, NEW q \in Request, Fits(q), Put(r, q),
             UNCHANGED <<users, wallets, nextId, torn>>
      PROVE  TypeInv'
  BY <1>b, PutFits DEF TypeInv, TypeOK, Fits
<1>1. ASSUME NEW r \in Requests, BeginRegister(r) PROVE TypeInv'
  <2>1. PICK op \in Adders, u \in Users, k \in Keys :
          Put(r, [Idle EXCEPT !.pc = "findKey", !.op = op, !.user = u,
                              !.key = k])
    BY <1>1 DEF BeginRegister
  <2> DEFINE q == [Idle EXCEPT !.pc = "findKey", !.op = op, !.user = u,
                               !.key = k]
  <2>2. q \in Request /\ Fits(q)
    BY IdleFits DEF Idle, Request, Fits, AddSteps, AllOps
  <2>3. QED
    BY <1>1, <1>b, <2>1, <2>2 DEF BeginRegister
<1>2. ASSUME NEW r \in Requests, BeginOnWallet(r) PROVE TypeInv'
  <2>1. PICK op \in Ops, u \in Users, n \in 1 .. nextId - 1 :
          Put(r, [Idle EXCEPT !.pc = "findOwn", !.op = op, !.user = u,
                              !.id = n])
    BY <1>2 DEF BeginOnWallet
  <2> DEFINE q == [Idle EXCEPT !.pc = "findOwn", !.op = op, !.user = u,
                               !.id = n]
  <2>2. op \in AllOps /\ n \in Nat
    BY OpsAssumption DEF TypeInv, TypeOK
  <2>3. q \in Request /\ Fits(q)
    BY <2>2, IdleFits DEF Idle, Request, Fits, AddSteps, OwnSteps
  <2>4. QED
    BY <1>2, <1>b, <2>1, <2>3 DEF BeginOnWallet
<1>3. ASSUME NEW r \in Requests, KeyFree(r) PROVE TypeInv'
  BY <1>3, <1>a, <1>b, GotoFits DEF KeyFree, At, AddSteps
<1>4. ASSUME NEW r \in Requests, KeyTaken(r) PROVE TypeInv'
  BY <1>4, <1>b, AnswerFits DEF KeyTaken, Answers
<1>5. ASSUME NEW r \in Requests, KeyOwned(r) PROVE TypeInv'
  BY <1>5, <1>a, <1>b, GotoFits, AnswerFits, FieldFits
     DEF KeyOwned, At, AddSteps, Answers, WithKey, TypeInv, TypeOK, Wallet
<1>6. ASSUME NEW r \in Requests, FriendbotFails(r) PROVE TypeInv'
  BY <1>6, <1>b, AnswerFits, FieldFits DEF FriendbotFails, Answers
<1>7. ASSUME NEW r \in Requests, FriendbotFunds(r) PROVE TypeInv'
  BY <1>7, <1>a, <1>b, GotoFits, AnswerFits, FieldFits
     DEF FriendbotFunds, At, AddSteps, Answers
<1>8. ASSUME NEW r \in Requests, Count(r) PROVE TypeInv'
  BY <1>8, <1>a, <1>b, GotoFits, FieldFits DEF Count, At, AddSteps
<1>9. ASSUME NEW r \in Requests, InsertRow(r) PROVE TypeInv'
  <2>1. NewRow(r) \in Wallet
    BY <1>9, <1>a
       DEF InsertRow, At, NewRow, Wallet, AddSteps, TypeInv, TypeOK, Request
  <2>2. req' \in [Requests -> Request] /\ \A x \in Requests : Fits(req'[x])
    BY <1>9, AnswerFits, PutFits DEF InsertRow, Answers
  <2>3. QED
    BY <1>9, <2>1, <2>2 DEF InsertRow, TypeInv, TypeOK, Fits
<1>10. ASSUME NEW r \in Requests, InsertRefused(r) PROVE TypeInv'
  BY <1>10, <1>b, AnswerFits DEF InsertRefused, Answers
<1>11. ASSUME NEW r \in Requests, OwnMissing(r) PROVE TypeInv'
  BY <1>11, <1>b, AnswerFits DEF OwnMissing, Answers
<1>12. ASSUME NEW r \in Requests, OwnFound(r) PROVE TypeInv'
  BY <1>12, <1>a, <1>b, GotoFits, FieldFits
     DEF OwnFound, At, AddSteps, OwnSteps, OwnRow, WithId, TypeInv, TypeOK,
         Wallet
<1>13. ASSUME NEW r \in Requests, Clear(r) PROVE TypeInv'
  <2>1. wallets' \subseteq Wallet
    BY <1>13 DEF Clear, Cleared, Wallet, TypeInv, TypeOK
  <2>2. req' \in [Requests -> Request] /\ \A x \in Requests : Fits(req'[x])
    BY <1>13, <1>a, GotoFits, PutFits DEF Clear, At, AddSteps, OwnSteps
  <2>3. QED
    BY <1>13, <2>1, <2>2 DEF Clear, TypeInv, TypeOK, Fits
<1>14. ASSUME NEW r \in Requests, WriteDefault(r) PROVE TypeInv'
  <2>1. wallets' \subseteq Wallet
    BY <1>14 DEF WriteDefault, Marked, Wallet, TypeInv, TypeOK
  <2>2. req' \in [Requests -> Request] /\ \A x \in Requests : Fits(req'[x])
    BY <1>14, AnswerFits, PutFits DEF WriteDefault, Answers
  <2>3. QED
    BY <1>14, <2>1, <2>2 DEF WriteDefault, TypeInv, TypeOK, Fits
<1>15. ASSUME NEW r \in Requests, Remove(r) PROVE TypeInv'
  <2>1. req' \in [Requests -> Request] /\ \A x \in Requests : Fits(req'[x])
    BY <1>15, <1>a, GotoFits, AnswerFits, PutFits
       DEF Remove, At, AddSteps, OwnSteps, Answers
  <2>2. QED
    BY <1>15, <2>1 DEF Remove, TypeInv, TypeOK, Fits
<1>16. ASSUME NEW r \in Requests, RowGone(r) PROVE TypeInv'
  BY <1>16, <1>b, AnswerFits DEF RowGone, Answers
<1>17. ASSUME NEW r \in Requests, Pick(r) PROVE TypeInv'
  BY <1>17, <1>a, <1>b, GotoFits, FieldFits
     DEF Pick, At, AddSteps, OwnSteps, Oldest, Rows, TypeInv, TypeOK, Wallet
<1>18. ASSUME NEW r \in Requests, PickNothing(r) PROVE TypeInv'
  BY <1>18, <1>b, AnswerFits DEF PickNothing, Answers
<1>19. ASSUME NEW r \in Requests, Reply(r) PROVE TypeInv'
  BY <1>19, <1>b, IdleFits DEF Reply
<1>20. ASSUME NEW r \in Requests, Abort(r) PROVE TypeInv'
  <2>1. req' \in [Requests -> Request] /\ \A x \in Requests : Fits(req'[x])
    BY <1>20, AnswerFits, PutFits DEF Abort, Answers
  <2>2. QED
    BY <1>20, <1>a, <2>1 DEF Abort, TypeInv, TypeOK, Fits
<1>21. CASE Purge
  BY <1>21 DEF Purge, Survivors, TypeInv, TypeOK, Fits
<1>22. CASE UNCHANGED vars
  BY <1>22 DEF vars, TypeInv, TypeOK, Fits
<1>23. QED
  BY <1>1, <1>2, <1>3, <1>4, <1>5, <1>6, <1>7, <1>8, <1>9, <1>10, <1>11,
     <1>12, <1>13, <1>14, <1>15, <1>16, <1>17, <1>18, <1>19, <1>20, <1>21,
     <1>22
     DEF Next, Begin, Serve, Register, Manage, Friendbot

\* Every variable keeps its type.
THEOREM TypeCorrect == Spec => []TypeOK
<1>1. Spec => []TypeInv
  BY InitType, NextType, PTL DEF Spec
<1>2. TypeInv => TypeOK
  BY DEF TypeInv
<1>3. QED
  BY <1>1, <1>2, PTL

-----------------------------------------------------------------------------
(* The table.                                                              *)

\* The steps that write to the tables.
Writes(r) == InsertRow(r) \/ Clear(r) \/ WriteDefault(r) \/ Remove(r)

LEMMA StepKinds ==
  ASSUME [Next]_vars
  PROVE  \/ \E r \in Requests : Writes(r)
         \/ Purge
         \/ UNCHANGED <<users, wallets, nextId>>
<1> USE DEF Writes
<1>1. ASSUME NEW r \in Requests, Begin(r)
      PROVE  UNCHANGED <<users, wallets, nextId>>
  BY <1>1 DEF Begin, BeginRegister, BeginOnWallet
<1>2. ASSUME NEW r \in Requests, Register(r)
      PROVE  InsertRow(r) \/ UNCHANGED <<users, wallets, nextId>>
  BY <1>2 DEF Register, KeyFree, KeyTaken, KeyOwned, Count, InsertRefused
<1>3. ASSUME NEW r \in Requests, Manage(r)
      PROVE  \/ Clear(r) \/ WriteDefault(r) \/ Remove(r)
             \/ UNCHANGED <<users, wallets, nextId>>
  BY <1>3 DEF Manage, OwnMissing, OwnFound, RowGone, Pick, PickNothing
<1>4. ASSUME NEW r \in Requests, Reply(r) \/ Friendbot(r) \/ Abort(r)
      PROVE  UNCHANGED <<users, wallets, nextId>>
  BY <1>4 DEF Reply, Friendbot, FriendbotFails, FriendbotFunds, Abort
<1>5. CASE UNCHANGED vars
  BY <1>5 DEF vars
<1>6. QED
  BY <1>1, <1>2, <1>3, <1>4, <1>5 DEF Next, Serve

LEMMA NextTable == TypeInv /\ TableOK /\ [Next]_vars => TableOK'
<1> SUFFICES ASSUME TypeInv, TableOK, [Next]_vars PROVE TableOK'
  OBVIOUS
<1> USE DEF TableOK
<1>a. nextId \in Nat /\ \A w \in wallets : w \in Wallet
  BY DEF TypeInv, TypeOK
<1>1. ASSUME NEW r \in Requests, InsertRow(r) PROVE TableOK'
  BY <1>1, <1>a DEF InsertRow, InsertAllowed, WithKey, NewRow, Wallet
<1>2. ASSUME NEW r \in Requests, Clear(r) PROVE TableOK'
  BY <1>2, <1>a DEF Clear, Cleared, Wallet
<1>3. ASSUME NEW r \in Requests, WriteDefault(r) PROVE TableOK'
  BY <1>3, <1>a DEF WriteDefault, Marked, Wallet
<1>4. ASSUME NEW r \in Requests, Remove(r) PROVE TableOK'
  BY <1>4 DEF Remove
<1>5. CASE Purge
  BY <1>5 DEF Purge, Survivors
<1>6. CASE UNCHANGED <<users, wallets, nextId>>
  BY <1>6
<1>7. QED
  BY <1>1, <1>2, <1>3, <1>4, <1>5, <1>6, StepKinds DEF Writes

\* No two wallets share a key or an id and every wallet has an owner, under
\* any interleaving of registrations, deletions, purges and failures.
THEOREM TableSafe == Spec => []TableOK
<1>1. Init => TableOK
  BY DEF Init, TableOK
<1>2. QED
  BY <1>1, InitType, NextType, NextTable, PTL DEF Spec

-----------------------------------------------------------------------------
(* Where each step takes the request that makes it.                        *)

Lands(r, pcs) ==
    /\ \A x \in Requests \ {r} : req'[x] = req[x]
    /\ req'[r].pc \in pcs
    /\ req'[r].user = req[r].user

LEMMA RegisterLands ==
  ASSUME TypeInv, NEW r \in Requests
  PROVE  /\ KeyFree(r) => Lands(r, {"friendbot", "count"})
         /\ KeyTaken(r) => Lands(r, {"done"})
         /\ KeyOwned(r) => Lands(r, {"done", "friendbot"})
         /\ FriendbotFails(r) => Lands(r, {"done"})
         /\ FriendbotFunds(r) => Lands(r, {"done", "count"})
         /\ Count(r) => /\ Lands(r, {"insert"})
                        /\ req'[r].isDefault = (Rows(req[r].user) = {})
         /\ InsertRow(r) \/ InsertRefused(r) => Lands(r, {"done"})
<1> USE DEF AddSteps, OwnSteps, Answers, At, Lands
<1>a. ASSUME NEW q, Put(r, q)
      PROVE  req'[r] = q /\ \A x \in Requests \ {r} : req'[x] = req[x]
  BY <1>a DEF TypeInv, TypeOK, Put
<1>b. ASSUME req[r].pc \in AddSteps
      PROVE  \A pc \in AddSteps : Goto(r, pc) \in Request
  BY <1>b, AtWork, GotoFits
<1>c. \A a \in Answers : Answer(r, a) \in Request
  BY AnswerFits
<1>1. KeyFree(r) => Lands(r, {"friendbot", "count"})
  BY <1>a, Fields DEF KeyFree
<1>2. KeyTaken(r) => Lands(r, {"done"})
  BY <1>a, Fields DEF KeyTaken
<1>3. KeyOwned(r) => Lands(r, {"done", "friendbot"})
  <2> SUFFICES ASSUME KeyOwned(r) PROVE Lands(r, {"done", "friendbot"})
    OBVIOUS
  <2>1. PICK w \in WithKey(req[r].key) :
          Put(r, CASE req[r].op = "create" -> Answer(r, "conflict")
                   [] req[r].op = "upsert" -> Answer(r, "ok")
                   [] OTHER -> [Goto(r, "friendbot") EXCEPT !.id = w.id])
    BY DEF KeyOwned
  <2> DEFINE q == [Goto(r, "friendbot") EXCEPT !.id = w.id]
  <2>2. q.pc = "friendbot" /\ q.user = req[r].user
    BY <1>b, Fields, Updates DEF KeyOwned
  <2>3. req'[r] = CASE req[r].op = "create" -> Answer(r, "conflict")
                    [] req[r].op = "upsert" -> Answer(r, "ok")
                    [] OTHER -> q
    BY <2>1, <1>a
  <2>4. QED
    BY <2>1, <2>2, <2>3, <1>a, Fields
<1>4. FriendbotFails(r) => Lands(r, {"done"})
  <2> SUFFICES ASSUME FriendbotFails(r) PROVE Lands(r, {"done"})
    OBVIOUS
  <2>1. PICK reached \in BOOLEAN :
          Put(r, [Answer(r, "badRequest") EXCEPT !.funded = reached])
    BY DEF FriendbotFails
  <2> DEFINE q == [Answer(r, "badRequest") EXCEPT !.funded = reached]
  <2>2. q.pc = "done" /\ q.user = req[r].user
    BY <1>c, Fields, Updates
  <2>3. QED
    BY <2>1, <2>2, <1>a
<1>5. FriendbotFunds(r) => Lands(r, {"done", "count"})
  <2> SUFFICES ASSUME FriendbotFunds(r) PROVE Lands(r, {"done", "count"})
    OBVIOUS
  <2> DEFINE p == IF req[r].id = 0 THEN Goto(r, "count") ELSE Answer(r, "ok")
             q == [p EXCEPT !.funded = TRUE]
  <2>1. Put(r, q)
    BY DEF FriendbotFunds
  <2>2. p \in Request /\ p.pc \in {"done", "count"} /\ p.user = req[r].user
    BY <1>b, <1>c, Fields DEF FriendbotFunds
  <2>3. q.pc = p.pc /\ q.user = p.user
    BY <2>2, Updates
  <2>4. QED
    BY <2>1, <2>2, <2>3, <1>a
<1>6. Count(r) => /\ Lands(r, {"insert"})
                  /\ req'[r].isDefault = (Rows(req[r].user) = {})
  <2> SUFFICES ASSUME Count(r)
               PROVE  /\ Lands(r, {"insert"})
                      /\ req'[r].isDefault = (Rows(req[r].user) = {})
    OBVIOUS
  <2> DEFINE b == Rows(req[r].user) = {}
             q == [Goto(r, "insert") EXCEPT !.isDefault = b]
  <2>1. Put(r, q)
    BY DEF Count
  <2>2. q.pc = "insert" /\ q.user = req[r].user /\ q.isDefault = b
    BY <1>b, Fields, Updates DEF Count
  <2>3. QED
    BY <2>1, <2>2, <1>a
<1>7. InsertRow(r) \/ InsertRefused(r) => Lands(r, {"done"})
  BY <1>a, Fields DEF InsertRow, InsertRefused
<1>8. QED
  BY <1>1, <1>2, <1>3, <1>4, <1>5, <1>6, <1>7

LEMMA ManageLands ==
  ASSUME TypeInv, NEW r \in Requests
  PROVE  /\ OwnMissing(r) => Lands(r, {"done"})
         /\ OwnFound(r) =>
              /\ Lands(r, {"clear", "remove"})
              /\ req'[r].id = req[r].id
              /\ \E w \in OwnRow(r) :
                   req'[r].pc = "remove" => req'[r].isDefault = w.isDefault
         /\ Clear(r) => Lands(r, {"mark"}) /\ req'[r].id = req[r].id
         /\ WriteDefault(r) => Lands(r, {"done"})
         /\ Remove(r) => /\ Lands(r, {"pick", "done"})
                         /\ req'[r].pc = "pick" => req[r].isDefault
         /\ RowGone(r) => Lands(r, {"done"})
         /\ Pick(r) =>
              /\ Lands(r, {"promote"})
              /\ \E w \in Rows(req[r].user) : req'[r].id = w.id
         /\ PickNothing(r) => Lands(r, {"done"})
         /\ Abort(r) => Lands(r, {"done"})
<1> USE DEF AddSteps, OwnSteps, Answers, At, Lands
<1>a. ASSUME NEW q, Put(r, q)
      PROVE  req'[r] = q /\ \A x \in Requests \ {r} : req'[x] = req[x]
  BY <1>a DEF TypeInv, TypeOK, Put
<1>b. ASSUME req[r].pc \in OwnSteps
      PROVE  \A pc \in OwnSteps : Goto(r, pc) \in Request
  BY <1>b, AtWork, GotoFits
<1>1. OwnMissing(r) => Lands(r, {"done"})
  BY <1>a, Fields DEF OwnMissing
<1>2. OwnFound(r) =>
        /\ Lands(r, {"clear", "remove"})
        /\ req'[r].id = req[r].id
        /\ \E w \in OwnRow(r) :
             req'[r].pc = "remove" => req'[r].isDefault = w.isDefault
  <2> SUFFICES ASSUME OwnFound(r)
               PROVE  /\ Lands(r, {"clear", "remove"})
                      /\ req'[r].id = req[r].id
                      /\ \E w \in OwnRow(r) : req'[r].pc = "remove" =>
                           req'[r].isDefault = w.isDefault
    OBVIOUS
  <2>1. PICK w \in OwnRow(r) :
          Put(r, IF req[r].op = "setDefault"
                   THEN Goto(r, "clear")
                   ELSE [Goto(r, "remove") EXCEPT !.isDefault = w.isDefault])
    BY DEF OwnFound
  <2> DEFINE q == [Goto(r, "remove") EXCEPT !.isDefault = w.isDefault]
  <2>2. /\ q.pc = "remove" /\ q.user = req[r].user /\ q.id = req[r].id
        /\ q.isDefault = w.isDefault
    BY <1>b, Fields, Updates DEF OwnFound
  <2>3. req'[r] = IF req[r].op = "setDefault" THEN Goto(r, "clear") ELSE q
    BY <2>1, <1>a
  <2>4. QED
    BY <2>1, <2>2, <2>3, <1>a, Fields
<1>3. Clear(r) => Lands(r, {"mark"}) /\ req'[r].id = req[r].id
  BY <1>a, Fields DEF Clear
<1>4. WriteDefault(r) => Lands(r, {"done"})
  BY <1>a, Fields DEF WriteDefault
<1>5. Remove(r) => /\ Lands(r, {"pick", "done"})
                   /\ req'[r].pc = "pick" => req[r].isDefault
  BY <1>a, Fields DEF Remove
<1>6. RowGone(r) => Lands(r, {"done"})
  BY <1>a, Fields DEF RowGone
<1>7. Pick(r) =>
        /\ Lands(r, {"promote"})
        /\ \E w \in Rows(req[r].user) : req'[r].id = w.id
  <2> SUFFICES ASSUME Pick(r)
               PROVE  /\ Lands(r, {"promote"})
                      /\ \E w \in Rows(req[r].user) : req'[r].id = w.id
    OBVIOUS
  <2>1. PICK w \in Rows(req[r].user) :
          Put(r, [Goto(r, "promote") EXCEPT !.id = w.id])
    BY DEF Pick, Oldest
  <2> DEFINE q == [Goto(r, "promote") EXCEPT !.id = w.id]
  <2>2. q.pc = "promote" /\ q.user = req[r].user /\ q.id = w.id
    BY <1>b, Fields, Updates DEF Pick
  <2>3. QED
    BY <2>1, <2>2, <1>a
<1>8. PickNothing(r) => Lands(r, {"done"})
  BY <1>a, Fields DEF PickNothing
<1>9. Abort(r) => Lands(r, {"done"})
  BY <1>a, Fields DEF Abort
<1>10. QED
  BY <1>1, <1>2, <1>3, <1>4, <1>5, <1>6, <1>7, <1>8, <1>9

LEMMA BeginLands ==
  ASSUME TypeInv, NEW r \in Requests
  PROVE  /\ Begin(r) \/ Reply(r) =>
              \A x \in Requests \ {r} : req'[x] = req[x]
         /\ Begin(r) => /\ req'[r].pc \in {"findKey", "findOwn"}
                        /\ req'[r].user \in Users /\ MayStart(req'[r].user)
         /\ Reply(r) => req'[r].pc = "idle" /\ req'[r].user = None
<1>a. ASSUME NEW q, Put(r, q)
      PROVE  req'[r] = q /\ \A x \in Requests \ {r} : req'[x] = req[x]
  BY <1>a DEF TypeInv, TypeOK, Put
<1>1. BeginRegister(r) => /\ \A x \in Requests \ {r} : req'[x] = req[x]
                          /\ req'[r].pc = "findKey"
                          /\ req'[r].user \in Users /\ MayStart(req'[r].user)
  <2> SUFFICES ASSUME BeginRegister(r)
               PROVE  /\ \A x \in Requests \ {r} : req'[x] = req[x]
                      /\ req'[r].pc = "findKey"
                      /\ req'[r].user \in Users /\ MayStart(req'[r].user)
    OBVIOUS
  <2>1. PICK op \in Ops \cap Adders, u \in Users, k \in Keys :
          /\ MayStart(u)
          /\ Put(r, [Idle EXCEPT !.pc = "findKey", !.op = op, !.user = u,
                                 !.key = k])
    BY DEF BeginRegister
  <2> DEFINE q == [Idle EXCEPT !.pc = "findKey", !.op = op, !.user = u,
                               !.key = k]
  <2>2. q.pc = "findKey" /\ q.user = u
    BY DEF Idle
  <2>3. QED
    BY <2>1, <2>2, <1>a
<1>2. BeginOnWallet(r) => /\ \A x \in Requests \ {r} : req'[x] = req[x]
                          /\ req'[r].pc = "findOwn"
                          /\ req'[r].user \in Users /\ MayStart(req'[r].user)
  <2> SUFFICES ASSUME BeginOnWallet(r)
               PROVE  /\ \A x \in Requests \ {r} : req'[x] = req[x]
                      /\ req'[r].pc = "findOwn"
                      /\ req'[r].user \in Users /\ MayStart(req'[r].user)
    OBVIOUS
  <2>1. PICK op \in Ops \ Adders, u \in Users, n \in 1 .. nextId - 1 :
          /\ MayStart(u)
          /\ Put(r, [Idle EXCEPT !.pc = "findOwn", !.op = op, !.user = u,
                                 !.id = n])
    BY DEF BeginOnWallet
  <2> DEFINE q == [Idle EXCEPT !.pc = "findOwn", !.op = op, !.user = u,
                               !.id = n]
  <2>2. q.pc = "findOwn" /\ q.user = u
    BY DEF Idle
  <2>3. QED
    BY <2>1, <2>2, <1>a
<1>3. Reply(r) => /\ \A x \in Requests \ {r} : req'[x] = req[x]
                  /\ req'[r].pc = "idle" /\ req'[r].user = None
  BY <1>a DEF Reply, Idle
<1>4. QED
  BY <1>1, <1>2, <1>3 DEF Begin

-----------------------------------------------------------------------------
(* Ownership: a request that writes to a row by its id writes to a row of  *)
(* its own user, because an id is never used twice and never changes hands *)
(* between the lookup and the write.                                       *)

\* The rows after a step are rows of before it, up to the flag, or new.
LEMMA RowsPersist ==
  ASSUME TypeInv, [Next]_vars
  PROVE  /\ nextId' \in Nat /\ nextId <= nextId'
         /\ \A w \in wallets' :
              \/ w.id = nextId
              \/ \E v \in wallets : v.id = w.id /\ v.userId = w.userId
<1>a. nextId \in Nat /\ \A w \in wallets : w \in Wallet
  BY DEF TypeInv, TypeOK
<1>1. ASSUME NEW r \in Requests, Writes(r)
      PROVE  /\ nextId' \in Nat /\ nextId <= nextId'
             /\ \A w \in wallets' :
                  \/ w.id = nextId
                  \/ \E v \in wallets : v.id = w.id /\ v.userId = w.userId
  BY <1>1, <1>a DEF Writes, InsertRow, NewRow, Clear, Cleared, WriteDefault,
     Marked, Remove, Wallet
<1>2. CASE Purge
  BY <1>2, <1>a DEF Purge, Survivors
<1>3. QED
  BY <1>1, <1>2, <1>a, StepKinds

AtRow == {"clear", "mark", "remove", "promote"}

OwnsRow(q, rows, next) ==
    q.pc \in AtRow =>
      q.id < next /\ \A w \in rows : w.id = q.id => w.userId = q.user

OwnInv == \A r \in Requests : OwnsRow(req[r], wallets, nextId)

\* A request a step leaves alone keeps owning its row.
LEMMA OwnsKept ==
  ASSUME TypeInv, [Next]_vars, NEW q \in Request,
         OwnsRow(q, wallets, nextId)
  PROVE  OwnsRow(q, wallets', nextId')
  BY RowsPersist DEF OwnsRow, TypeInv, TypeOK, Request

LEMMA NextOwn == TypeInv /\ TableOK /\ OwnInv /\ [Next]_vars => OwnInv'
<1> SUFFICES ASSUME TypeInv, TableOK, OwnInv, [Next]_vars PROVE OwnInv'
  OBVIOUS
<1> USE DEF Lands
<1>a. \A x \in Requests : OwnsRow(req[x], wallets', nextId')
  BY AtWork, OwnsKept DEF OwnInv
<1>b. ASSUME NEW r \in Requests, OwnsRow(req'[r], wallets', nextId'),
             \A x \in Requests \ {r} : req'[x] = req[x]
      PROVE  OwnInv'
  BY <1>a, <1>b DEF OwnInv
<1>c. ASSUME NEW r \in Requests, req'[r].pc \notin AtRow,
             \A x \in Requests \ {r} : req'[x] = req[x]
      PROVE  OwnInv'
  BY <1>b, <1>c DEF OwnsRow
<1>1. ASSUME NEW r \in Requests, Begin(r) \/ Reply(r) PROVE OwnInv'
  BY <1>1, <1>c, BeginLands DEF AtRow
<1>2. ASSUME NEW r \in Requests, Register(r) \/ Friendbot(r) PROVE OwnInv'
  BY <1>2, <1>c, RegisterLands DEF Register, Friendbot, AtRow
<1>3. ASSUME NEW r \in Requests, OwnFound(r) PROVE OwnInv'
  <2>1. /\ req'[r].id = req[r].id /\ req'[r].user = req[r].user
        /\ UNCHANGED <<wallets, nextId>>
    BY <1>3, ManageLands DEF OwnFound
  <2>2. /\ req[r].id < nextId
        /\ \A v \in wallets : v.id = req[r].id => v.userId = req[r].user
    BY <1>3 DEF OwnFound, OwnRow, WithId, TableOK
  <2>3. QED
    BY <1>3, <2>1, <2>2, <1>b, ManageLands DEF OwnsRow
<1>4. ASSUME NEW r \in Requests, Clear(r) PROVE OwnInv'
  <2>1. OwnsRow(req'[r], wallets', nextId')
    BY <1>4, <1>a, ManageLands DEF Clear, At, OwnsRow, AtRow
  <2>2. QED
    BY <1>4, <2>1, <1>b, ManageLands
<1>5. ASSUME NEW r \in Requests, Pick(r) PROVE OwnInv'
  <2>1. OwnsRow(req'[r], wallets', nextId')
    <3>1. PICK w \in Rows(req[r].user) : req'[r].id = w.id
      BY <1>5, ManageLands
    <3>2. /\ w.id < nextId
          /\ \A v \in wallets : v.id = w.id => v.userId = req[r].user
      BY DEF Rows, TableOK
    <3>3. req'[r].user = req[r].user /\ UNCHANGED <<wallets, nextId>>
      BY <1>5, ManageLands DEF Pick
    <3>4. QED
      BY <3>1, <3>2, <3>3 DEF OwnsRow
  <2>2. QED
    BY <1>5, <2>1, <1>b, ManageLands
<1>6. ASSUME NEW r \in Requests,
             \/ OwnMissing(r) \/ WriteDefault(r) \/ RowGone(r)
             \/ PickNothing(r) \/ Remove(r) \/ Abort(r)
      PROVE  OwnInv'
  BY <1>6, <1>c, ManageLands DEF AtRow
<1>7. CASE Purge \/ UNCHANGED vars
  BY <1>7, <1>a DEF Purge, vars, OwnInv
<1>8. QED
  BY <1>1, <1>2, <1>3, <1>4, <1>5, <1>6, <1>7 DEF Next, Serve, Manage

LEMMA OwnSafe == Spec => [](TypeInv /\ TableOK /\ OwnInv)
<1>1. Init => TypeInv /\ TableOK /\ OwnInv
  BY InitType DEF Init, TableOK, OwnInv, OwnsRow, AtRow, Idle
<1>2. QED
  BY <1>1, NextType, NextTable, NextOwn, PTL DEF Spec

LEMMA SameFlag ==
  ASSUME NEW w \in Wallet
  PROVE  [w EXCEPT !.isDefault = w.isDefault] = w
  BY DEF Wallet

\* A request's writes leave the rows of every other user as they are.
LEMMA OtherRows ==
  ASSUME TypeInv, OwnInv, NEW r \in Requests, Writes(r),
         NEW u \in Users, u # req[r].user
  PROVE  Rows(u)' = Rows(u)
<1>a. \A w \in wallets : w \in Wallet
  BY DEF TypeInv, TypeOK
<1>b. req[r].pc \in AtRow =>
        \A w \in wallets : w.id = req[r].id => w.userId = req[r].user
  BY DEF OwnInv, OwnsRow
<1>1. CASE InsertRow(r)
  BY <1>1 DEF InsertRow, NewRow, Rows
<1>2. CASE Clear(r)
  <2> DEFINE Of(w) == [w EXCEPT !.isDefault = w.isDefault /\ w.userId # req[r].user]
  <2>1. \A w \in wallets : Of(w).userId = w.userId
    BY <1>a DEF Wallet
  <2>2. \A w \in wallets : w.userId = u => Of(w) = w
    BY <1>a, SameFlag DEF Wallet
  <2>3. wallets' = {Of(w) : w \in wallets}
    BY <1>2 DEF Clear, Cleared
  <2> HIDE DEF Of
  <2>4. QED
    BY <2>1, <2>2, <2>3 DEF Rows
<1>3. CASE WriteDefault(r)
  <2> DEFINE Of(w) == [w EXCEPT !.isDefault = w.isDefault \/ w.id = req[r].id]
  <2>1. \A w \in wallets : Of(w).userId = w.userId
    BY <1>a DEF Wallet
  <2>2. \A w \in wallets : w.userId = u => w.id # req[r].id
    BY <1>3, <1>b DEF WriteDefault, AtRow
  <2>3. \A w \in wallets : w.userId = u => Of(w) = w
    BY <1>a, <2>2, SameFlag DEF Wallet
  <2>4. wallets' = {Of(w) : w \in wallets}
    BY <1>3 DEF WriteDefault, Marked
  <2> HIDE DEF Of
  <2>5. QED
    BY <2>1, <2>3, <2>4 DEF Rows
<1>4. CASE Remove(r)
  BY <1>4, <1>b DEF Remove, At, AtRow, WithId, Rows
<1>5. QED
  BY <1>1, <1>2, <1>3, <1>4 DEF Writes

\* The step after which a write has been made is a step of its request.
LEMMA WritesMove ==
  ASSUME TypeInv, NEW r \in Requests, Writes(r)
  PROVE  req[r].user \in Users /\ req'[r] # req[r]
  BY AtWork, RegisterLands, ManageLands
     DEF Writes, InsertRow, Clear, WriteDefault, Remove, At, Lands, AddSteps,
         OwnSteps

\* Nobody's wallets change by a request of somebody else, however lookups
\* and writes interleave.
THEOREM IsolationHolds == Spec => Isolation
<1> DEFINE A == \A u \in Users : Rows(u)' # Rows(u) =>
                  \/ u \notin users'
                  \/ \E r \in Requests : req[r].user = u /\ req'[r] # req[r]
<1>1. TypeInv /\ TableOK /\ OwnInv /\ [Next]_vars => [A]_vars
  <2> SUFFICES ASSUME TypeInv, TableOK, OwnInv, [Next]_vars PROVE A
    OBVIOUS
  <2>1. ASSUME NEW r \in Requests, Writes(r) PROVE A
    BY <2>1, OtherRows, WritesMove
  <2>2. CASE Purge
    BY <2>2 DEF Purge, Survivors, Rows, TableOK
  <2>3. CASE UNCHANGED <<users, wallets, nextId>>
    BY <2>3 DEF Rows
  <2>4. QED
    BY <2>1, <2>2, <2>3, StepKinds
<1>2. QED
  BY <1>1, OwnSafe, PTL DEF Spec, Isolation

-----------------------------------------------------------------------------
(* One request per user at a time.  AtMostOneDefault alone is not          *)
(* inductive: a request between two statements acts on what it has read,   *)
(* and what it has read must still hold when it writes.                    *)

OnePerUser ==
    \A x, y \in Requests :
      req[x].user = req[y].user /\ req[x].user # None => x = y

\* What a request has read or written so far still holds: a first wallet is
\* inserted into an empty list, the second write of a change of default
\* finds no default, and a delete that saw the default removes it.
StillTrue(r) ==
    LET u == req[r].user IN
    /\ At(r, "insert") /\ req[r].isDefault => Rows(u) = {}
    /\ req[r].pc \in {"mark", "pick", "promote"} => Defaults(u) = {}
    /\ At(r, "remove") /\ req[r].isDefault =>
         \A w \in Defaults(u) : w.id = req[r].id

SingleDefault == \A u \in Users : \A v, w \in Defaults(u) : v = w

SerialInv == OnePerUser /\ SingleDefault /\ \A r \in Requests : StillTrue(r)

ServiceInv == TypeInv /\ TableOK /\ OwnInv

\* A step that keeps its request's user keeps the slots apart.
LEMMA OneKept ==
  ASSUME OnePerUser, NEW r \in Requests, NEW pcs, Lands(r, pcs)
  PROVE  OnePerUser'
  BY DEF OnePerUser, Lands

\* What a request has read is not disturbed by another user's request.
LEMMA OthersStillTrue ==
  ASSUME TypeInv, SerialInv, NEW r \in Requests, req[r].user \in Users,
         \A x \in Requests \ {r} : req'[x] = req[x],
         \A u \in Users : u # req[r].user => Rows(u)' = Rows(u)
  PROVE  \A x \in Requests \ {r} : StillTrue(x)'
<1> SUFFICES ASSUME NEW x \in Requests \ {r} PROVE StillTrue(x)'
  OBVIOUS
<1>1. CASE req[x].user \in Users
  <2>1. req[x].user # req[r].user
    BY <1>1, NoneAssumption DEF SerialInv, OnePerUser
  <2>2. /\ Rows(req[x].user)' = Rows(req[x].user)
        /\ Defaults(req[x].user)' = Defaults(req[x].user)
    BY <1>1, <2>1 DEF Defaults, Rows
  <2>3. QED
    BY <2>2 DEF SerialInv, StillTrue, At, Rows, Defaults
<1>2. CASE req[x].user \notin Users
  BY <1>2, AtWork DEF StillTrue, At, AddSteps, OwnSteps
<1>3. QED
  BY <1>1, <1>2

\* So a step that writes nothing need only account for its own request.
LEMMA ReadStep ==
  ASSUME TypeInv, SerialInv, NEW r \in Requests, NEW pcs, Lands(r, pcs),
         UNCHANGED wallets, StillTrue(r)'
  PROVE  SerialInv'
<1>1. OnePerUser'
  BY OneKept DEF SerialInv
<1>2. \A u : Rows(u)' = Rows(u) /\ Defaults(u)' = Defaults(u)
  BY DEF Rows, Defaults
<1>3. ASSUME NEW x \in Requests \ {r} PROVE StillTrue(x)'
  BY DEF SerialInv, StillTrue, At, Rows, Defaults, Lands
<1>4. QED
  BY <1>1, <1>2, <1>3 DEF SerialInv, SingleDefault

LEMMA WriteStep ==
  ASSUME TypeInv, OwnInv, SerialInv, NEW r \in Requests, Writes(r),
         NEW pcs, Lands(r, pcs), StillTrue(r)',
         \A v, w \in Defaults(req[r].user)' : v = w
  PROVE  SerialInv'
<1>1. OnePerUser'
  BY OneKept DEF SerialInv
<1>2. req[r].user \in Users
  BY WritesMove
<1>3. \A u \in Users : u # req[r].user => Rows(u)' = Rows(u)
  BY OtherRows
<1>4. SingleDefault'
  <2>1. ASSUME NEW u \in Users, u # req[r].user
        PROVE  \A v, w \in Defaults(u)' : v = w
    BY <1>3, <2>1 DEF SerialInv, SingleDefault, Defaults
  <2>2. ASSUME NEW u \in Users, u = req[r].user
        PROVE  \A v, w \in Defaults(u)' : v = w
    BY <2>2 DEF Lands, Defaults, Rows
  <2>3. QED
    BY <2>1, <2>2 DEF SingleDefault
<1>5. \A x \in Requests \ {r} : StillTrue(x)'
  BY <1>2, <1>3, OthersStillTrue DEF Lands
<1>6. QED
  BY <1>1, <1>4, <1>5 DEF SerialInv

LEMMA NextSerial ==
  ASSUME Serial, ServiceInv, SerialInv, [Next]_vars
  PROVE  SerialInv'
<1> USE DEF ServiceInv
<1>a. ASSUME NEW r \in Requests, NEW pcs, Lands(r, pcs), UNCHANGED wallets,
             req'[r].pc \notin {"insert", "mark", "pick", "promote", "remove"}
      PROVE  SerialInv'
  BY <1>a, ReadStep DEF StillTrue, At
<1>1. ASSUME NEW r \in Requests, Begin(r) \/ Reply(r) PROVE SerialInv'
  <2>1. UNCHANGED wallets /\ \A x \in Requests \ {r} : req'[x] = req[x]
    BY <1>1, BeginLands
       DEF Begin, BeginRegister, BeginOnWallet, Reply
  <2>2. OnePerUser'
    BY <1>1, <2>1, BeginLands DEF SerialInv, OnePerUser, MayStart
  <2>3. req'[r].pc \in {"findKey", "findOwn", "idle"}
    BY <1>1, BeginLands
  <2>4. \A x \in Requests : StillTrue(x)'
    BY <2>1, <2>3 DEF SerialInv, StillTrue, At, Rows, Defaults
  <2>5. SingleDefault'
    BY <2>1 DEF SerialInv, SingleDefault, Rows, Defaults
  <2>6. QED
    BY <2>2, <2>4, <2>5 DEF SerialInv
<1>2. ASSUME NEW r \in Requests,
             \/ KeyFree(r) \/ KeyTaken(r) \/ KeyOwned(r) \/ InsertRefused(r)
             \/ Friendbot(r)
      PROVE  SerialInv'
  BY <1>2, <1>a, RegisterLands
     DEF KeyFree, KeyTaken, KeyOwned, InsertRefused, Friendbot,
         FriendbotFails, FriendbotFunds, Lands
<1>3. ASSUME NEW r \in Requests, Count(r) PROVE SerialInv'
  <2>1. Lands(r, {"insert"}) /\ UNCHANGED wallets
    BY <1>3, RegisterLands DEF Count
  <2>2. req'[r].isDefault => Rows(req[r].user) = {}
    BY <1>3, RegisterLands
  <2>3. Rows(req[r].user)' = Rows(req[r].user)
    BY <2>1 DEF Lands, Rows
  <2>4. req'[r].pc = "insert"
    BY <2>1 DEF Lands
  <2>5. StillTrue(r)'
    BY <2>2, <2>3, <2>4 DEF StillTrue, At
  <2>6. QED
    BY <2>1, <2>5, ReadStep
<1>4. ASSUME NEW r \in Requests, InsertRow(r) PROVE SerialInv'
  <2>1. Lands(r, {"done"})
    BY <1>4, RegisterLands
  <2>2. StillTrue(r)'
    BY <2>1 DEF Lands, StillTrue, At
  <2>3. ASSUME NEW v \in Defaults(req[r].user)', NEW w \in Defaults(req[r].user)'
        PROVE  v = w
    <3>1. CASE req[r].isDefault
      <4>1. Rows(req[r].user) = {}
        BY <1>4, <3>1 DEF InsertRow, SerialInv, StillTrue
      <4>2. v = NewRow(r) /\ w = NewRow(r)
        BY <1>4, <2>1, <4>1 DEF InsertRow, Lands, Rows, Defaults
      <4>3. QED
        BY <4>2
    <3>2. CASE ~req[r].isDefault
      <4>1. ~NewRow(r).isDefault
        BY <3>2 DEF NewRow
      <4>2. v \in Defaults(req[r].user) /\ w \in Defaults(req[r].user)
        BY <1>4, <2>1, <4>1 DEF InsertRow, Lands, Rows, Defaults
      <4>3. QED
        BY <1>4, <4>2, AtWork
           DEF SerialInv, SingleDefault, InsertRow, At, AddSteps
    <3>3. QED
      BY <3>1, <3>2
  <2>4. QED
    BY <1>4, <2>1, <2>2, <2>3, WriteStep DEF Writes, Lands
<1>5. ASSUME NEW r \in Requests,
             OwnMissing(r) \/ RowGone(r) \/ PickNothing(r) \/ Abort(r)
      PROVE  SerialInv'
  BY <1>5, <1>a, ManageLands
     DEF OwnMissing, RowGone, PickNothing, Abort, Lands
<1>6. ASSUME NEW r \in Requests, OwnFound(r) PROVE SerialInv'
  <2>1. /\ Lands(r, {"clear", "remove"}) /\ UNCHANGED wallets
        /\ req'[r].id = req[r].id
    BY <1>6, ManageLands DEF OwnFound
  <2>2. PICK w \in OwnRow(r) :
          req'[r].pc = "remove" => req'[r].isDefault = w.isDefault
    BY <1>6, ManageLands
  <2>3. w.isDefault => \A v \in Defaults(req[r].user) : v.id = req[r].id
    BY <1>6, AtWork
       DEF OwnFound, At, OwnSteps, OwnRow, WithId, Rows, Defaults,
           SerialInv, SingleDefault
  <2>4. StillTrue(r)'
    BY <2>1, <2>2, <2>3 DEF StillTrue, At, Lands, Rows, Defaults
  <2>5. QED
    BY <2>1, <2>4, ReadStep
<1>7. ASSUME NEW r \in Requests, Clear(r) PROVE SerialInv'
  <2>1. Lands(r, {"mark"})
    BY <1>7, ManageLands
  <2>2. \A w \in wallets' : w.userId = req[r].user => ~w.isDefault
    BY <1>7, AtWork DEF Clear, Cleared, Wallet
  <2>3. Defaults(req[r].user)' = {}
    BY <2>1, <2>2 DEF Lands, Rows, Defaults
  <2>4. StillTrue(r)'
    BY <2>1, <2>2 DEF StillTrue, At, Lands, Rows, Defaults
  <2>5. QED
    BY <1>7, <2>1, <2>3, <2>4, WriteStep DEF Writes
<1>8. ASSUME NEW r \in Requests, WriteDefault(r) PROVE SerialInv'
  <2>1. Lands(r, {"done"})
    BY <1>8, ManageLands
  <2>2. StillTrue(r)'
    BY <2>1 DEF Lands, StillTrue, At
  <2>3. \A w \in wallets : w.userId = req[r].user => ~w.isDefault
    BY <1>8 DEF WriteDefault, SerialInv, StillTrue, Rows, Defaults
  <2>4. \A w \in wallets' :
          w.userId = req[r].user /\ w.isDefault => w.id = req[r].id
    BY <1>8, <2>3, AtWork DEF WriteDefault, Marked, Wallet
  <2>5. \A v, w \in wallets' : v.id = w.id => v = w
    BY NextTable DEF TableOK
  <2>6. \A v, w \in Defaults(req[r].user)' : v = w
    BY <2>1, <2>4, <2>5 DEF Lands, Rows, Defaults
  <2>7. QED
    BY <1>8, <2>1, <2>2, <2>6, WriteStep DEF Writes
<1>9. ASSUME NEW r \in Requests, Remove(r) PROVE SerialInv'
  <2>1. /\ Lands(r, {"pick", "done"})
        /\ req'[r].pc = "pick" => req[r].isDefault
    BY <1>9, ManageLands
  <2>2. \A w \in wallets' : w \in wallets /\ w.id # req[r].id
    BY <1>9 DEF Remove, WithId
  <2>3. StillTrue(r)'
    BY <1>9, <2>1, <2>2
       DEF Remove, SerialInv, StillTrue, At, Lands, Rows, Defaults
  <2>4. \A v, w \in Defaults(req[r].user)' : v = w
    BY <1>9, <2>1, <2>2, WritesMove
       DEF Writes, SerialInv, SingleDefault, Lands, Rows, Defaults
  <2>5. QED
    BY <1>9, <2>1, <2>3, <2>4, WriteStep DEF Writes
<1>10. ASSUME NEW r \in Requests, Pick(r) PROVE SerialInv'
  <2>1. Lands(r, {"promote"}) /\ UNCHANGED wallets
    BY <1>10, ManageLands DEF Pick
  <2>2. StillTrue(r)'
    BY <1>10, <2>1
       DEF Pick, SerialInv, StillTrue, At, Lands, Rows, Defaults
  <2>3. QED
    BY <2>1, <2>2, ReadStep
<1>11. CASE Purge
  <2>1. wallets' \subseteq wallets /\ UNCHANGED req
    BY <1>11 DEF Purge, Survivors
  <2>2. QED
    BY <2>1 DEF SerialInv, OnePerUser, SingleDefault, StillTrue, At, Rows,
       Defaults
<1>12. CASE UNCHANGED vars
  BY <1>12
     DEF vars, SerialInv, OnePerUser, SingleDefault, StillTrue, At, Rows,
         Defaults
<1>13. QED
  BY <1>1, <1>2, <1>3, <1>4, <1>5, <1>6, <1>7, <1>8, <1>9, <1>10, <1>11,
     <1>12 DEF Next, Serve, Register, Manage

LEMMA SerialSafe == Spec => [](ServiceInv /\ (Serial => SerialInv))
<1>1. Init => (Serial => SerialInv)
  BY DEF Init, SerialInv, OnePerUser, SingleDefault, StillTrue, At, Rows,
     Defaults, Idle
<1>2. ServiceInv /\ (Serial => SerialInv) /\ [Next]_vars =>
        (Serial => SerialInv)'
  BY NextSerial
<1>3. QED
  BY <1>1, <1>2, OwnSafe, PTL DEF Spec, ServiceInv

\* Users who make one request at a time never have two default wallets, even
\* though requests die between writes and accounts are purged under them.
THEOREM OneDefault == Spec => []AtMostOneDefault
<1>1. (Serial => SerialInv) => AtMostOneDefault
  BY DEF SerialInv, SingleDefault, AtMostOneDefault
<1>2. QED
  BY <1>1, SerialSafe, PTL

-----------------------------------------------------------------------------
(* What a registration is answered.                                        *)

\* Row ids are numbered from one; a registration's id is 0 until it has
\* found a row.
IdInv == \A w \in wallets : w.id > 0

LEMMA NextId == TypeInv /\ IdInv /\ [Next]_vars => IdInv'
  BY RowsPersist DEF IdInv, TypeInv, TypeOK

\* What a registration has read about its key still holds.
KeySeen(r) ==
    LET u == req[r].user
        k == req[r].key
    IN
    /\ At(r, "findKey") => req[r].id = 0
    /\ At(r, "friendbot") /\ req[r].id = 0 => ~Owns(u, k)
    /\ At(r, "friendbot") /\ req[r].id # 0 /\ u \in users => Owns(u, k)
    /\ At(r, "count") \/ At(r, "insert") => ~Owns(u, k)

ToldInv == IdInv /\ \A r \in Requests : KeySeen(r)

LEMMA OwnsRows == \A u, k : Owns(u, k) <=> \E w \in Rows(u) : w.publicKey = k
  BY DEF Owns, WithKey, Rows

\* Where the steps of a registration leave its key, its id and its answer.
LEMMA Keeps ==
  ASSUME TypeInv, NEW r \in Requests
  PROVE  /\ Register(r) \/ Friendbot(r) => req'[r].key = req[r].key
         /\ KeyFree(r) => req'[r].id = req[r].id
         /\ KeyTaken(r) => req'[r].answer = "conflict"
         /\ KeyOwned(r) => \E w \in WithKey(req[r].key) :
              /\ w.userId = req[r].user
              /\ req'[r].pc = "friendbot" => req'[r].id = w.id
              /\ req'[r].answer = "conflict" => req[r].op = "create" \/ req'[r].pc # "done"
         /\ FriendbotFails(r) => req'[r].answer = "badRequest"
         /\ FriendbotFunds(r) =>
              /\ req'[r].pc = "count" <=> req[r].id = 0
              /\ req'[r].pc = "done" => req'[r].answer = "ok"
         /\ InsertRow(r) => req'[r].answer = "ok"
         /\ InsertRefused(r) => req'[r].answer =
              IF WithKey(req[r].key) # {} THEN "conflict" ELSE "error"
         /\ Abort(r) => req'[r].answer = "error" /\ req'[r].key = req[r].key
<1> USE DEF At
<1>a. ASSUME NEW q, Put(r, q) PROVE req'[r] = q
  BY <1>a DEF TypeInv, TypeOK, Put
<1>b. req[r] \in Request
  BY AtWork
<1>c. \A pc : /\ Goto(r, pc).key = req[r].key /\ Goto(r, pc).id = req[r].id
              /\ Goto(r, pc).pc = pc
  BY <1>b DEF Goto, Request
<1>d. \A a : /\ Answer(r, a).key = req[r].key /\ Answer(r, a).answer = a
             /\ Answer(r, a).pc = "done"
  BY <1>b DEF Answer, Request
<1>1. KeyFree(r) => req'[r].key = req[r].key /\ req'[r].id = req[r].id
  BY <1>a, <1>c DEF KeyFree
<1>2. KeyTaken(r) => req'[r].key = req[r].key /\ req'[r].answer = "conflict"
  BY <1>a, <1>d DEF KeyTaken
<1>3. ASSUME KeyOwned(r)
      PROVE  /\ req'[r].key = req[r].key
             /\ \E w \in WithKey(req[r].key) :
                  /\ w.userId = req[r].user
                  /\ req'[r].pc = "friendbot" => req'[r].id = w.id
                  /\ req'[r].answer = "conflict" =>
                       req[r].op = "create" \/ req'[r].pc # "done"
  <2>1. PICK w \in WithKey(req[r].key) :
          /\ w.userId = req[r].user
          /\ Put(r, CASE req[r].op = "create" -> Answer(r, "conflict")
                     [] req[r].op = "upsert" -> Answer(r, "ok")
                     [] OTHER -> [Goto(r, "friendbot") EXCEPT !.id = w.id])
    BY <1>3 DEF KeyOwned
  <2> DEFINE q == [Goto(r, "friendbot") EXCEPT !.id = w.id]
  <2>2. q.pc = "friendbot" /\ q.key = req[r].key /\ q.id = w.id
    BY <1>b DEF Goto, Request
  <2>3. req'[r] = CASE req[r].op = "create" -> Answer(r, "conflict")
                    [] req[r].op = "upsert" -> Answer(r, "ok")
                    [] OTHER -> q
    BY <2>1, <1>a
  <2> HIDE DEF q
  <2>4. QED
    BY <2>1, <2>2, <2>3, <1>d
<1>4. ASSUME FriendbotFails(r)
      PROVE  req'[r].key = req[r].key /\ req'[r].answer = "badRequest"
  <2>1. PICK reached \in BOOLEAN :
          Put(r, [Answer(r, "badRequest") EXCEPT !.funded = reached])
    BY <1>4 DEF FriendbotFails
  <2> DEFINE q == [Answer(r, "badRequest") EXCEPT !.funded = reached]
  <2>2. q.key = req[r].key /\ q.answer = "badRequest"
    BY <1>b DEF Answer, Request
  <2>3. QED
    BY <2>1, <2>2, <1>a
<1>5. ASSUME FriendbotFunds(r)
      PROVE  /\ req'[r].key = req[r].key
             /\ req'[r].pc = "count" <=> req[r].id = 0
             /\ req'[r].pc = "done" => req'[r].answer = "ok"
  <2> DEFINE p == IF req[r].id = 0 THEN Goto(r, "count") ELSE Answer(r, "ok")
             q == [p EXCEPT !.funded = TRUE]
  <2>1. Put(r, q)
    BY <1>5 DEF FriendbotFunds
  <2>2. p \in Request
    BY <1>5, AtWork, GotoFits, AnswerFits
       DEF FriendbotFunds, AddSteps, Answers
  <2>3. /\ p.key = req[r].key
        /\ p.pc = "count" <=> req[r].id = 0
        /\ p.pc = "done" => p.answer = "ok"
    BY <1>c, <1>d
  <2>4. q.key = p.key /\ q.pc = p.pc /\ q.answer = p.answer
    BY <2>2 DEF Request
  <2>5. req'[r] = q
    BY <2>1, <1>a
  <2> HIDE DEF p, q
  <2>6. QED
    BY <2>3, <2>4, <2>5
<1>6. Count(r) => req'[r].key = req[r].key
  <2> DEFINE q == [Goto(r, "insert") EXCEPT
                     !.isDefault = (Rows(req[r].user) = {})]
  <2>1. q.key = req[r].key
    BY <1>b DEF Goto, Request
  <2>2. QED
    BY <2>1, <1>a DEF Count
<1>7. InsertRow(r) => req'[r].key = req[r].key /\ req'[r].answer = "ok"
  BY <1>a, <1>d DEF InsertRow
<1>8. InsertRefused(r) =>
        /\ req'[r].key = req[r].key
        /\ req'[r].answer = IF WithKey(req[r].key) # {} THEN "conflict" ELSE "error"
  BY <1>a, <1>d DEF InsertRefused
<1>9. Abort(r) => req'[r].answer = "error" /\ req'[r].key = req[r].key
  BY <1>a, <1>d DEF Abort
<1>10. QED
  BY <1>1, <1>2, <1>3, <1>4, <1>5, <1>6, <1>7, <1>8, <1>9 DEF Register, Friendbot

\* What a request has read about its key is not disturbed by another user's
\* request, nor by a purge.
LEMMA KeySeenKept ==
  ASSUME Serial, ServiceInv, SerialInv, NEW x \in Requests, KeySeen(x),
         req'[x] = req[x],
         \/ \E r \in Requests \ {x} : Writes(r)
         \/ Purge
         \/ UNCHANGED <<users, wallets, nextId>>
  PROVE  KeySeen(x)'
<1> DEFINE u == req[x].user
           k == req[x].key
<1>0. req'[x].user = u /\ req'[x].key = k /\ TypeInv /\ OwnInv
  BY DEF ServiceInv
<1>a. ASSUME Rows(u)' = Rows(u), users' \subseteq users PROVE KeySeen(x)'
  <2>1. Owns(u, k)' <=> Owns(u, k)
    BY <1>a DEF Owns, WithKey, Rows
  <2>2. QED
    BY <1>a, <2>1 DEF KeySeen, At
<1>1. ASSUME NEW r \in Requests \ {x}, Writes(r) PROVE KeySeen(x)'
  <2>1. users' = users
    BY <1>1 DEF Writes, InsertRow, Clear, WriteDefault, Remove
  <2>2. CASE u \in Users
    <3>1. u # req[r].user
      BY <1>1, <2>2, NoneAssumption DEF SerialInv, OnePerUser
    <3>2. QED
      BY <1>0, <1>1, <1>a, <2>1, <2>2, <3>1, OtherRows
  <2>3. CASE u \notin Users
    BY <1>0, <2>3, AtWork DEF KeySeen, At, AddSteps
  <2>4. QED
    BY <2>2, <2>3
<1>2. ASSUME Purge PROVE KeySeen(x)'
  <2>1. PICK S \in SUBSET users :
          users' = users \ S /\ wallets' = Survivors(S)
    BY <1>2 DEF Purge
  <2>2. CASE u \in S
    <3>1. ~Owns(u, k)' /\ u \notin users'
      BY <2>1, <2>2 DEF Owns, WithKey, Survivors
    <3>2. QED
      BY <3>1 DEF KeySeen, At
  <2>3. CASE u \notin S
    <3>1. Rows(u)' = Rows(u)
      BY <2>1, <2>3 DEF Rows, Survivors
    <3>2. QED
      BY <1>a, <2>1, <3>1
  <2>4. QED
    BY <2>2, <2>3
<1>3. ASSUME UNCHANGED <<users, wallets, nextId>> PROVE KeySeen(x)'
  BY <1>3, <1>a DEF Rows
<1>4. QED
  BY <1>1, <1>2, <1>3

LEMMA NextTold ==
  ASSUME Serial, ServiceInv, SerialInv, ToldInv, [Next]_vars
  PROVE  ToldInv'
<1> USE DEF ServiceInv, Lands
<1>0. IdInv'
  BY NextId DEF ToldInv
<1>a. ASSUME NEW r \in Requests, KeySeen(r)',
             \A x \in Requests \ {r} : req'[x] = req[x],
             Writes(r) \/ UNCHANGED <<users, wallets, nextId>>
      PROVE  ToldInv'
  BY <1>0, <1>a, KeySeenKept DEF ToldInv
<1>b. ASSUME NEW r \in Requests, req'[r].pc \notin AddSteps,
             \A x \in Requests \ {r} : req'[x] = req[x],
             Writes(r) \/ UNCHANGED <<users, wallets, nextId>>
      PROVE  ToldInv'
  <2>1. KeySeen(r)'
    BY <1>b DEF KeySeen, At, AddSteps
  <2>2. QED
    BY <1>a, <1>b, <2>1
<1>1. ASSUME NEW r \in Requests, Begin(r) \/ Reply(r) PROVE ToldInv'
  <2>1. /\ UNCHANGED <<users, wallets, nextId>>
        /\ \A x \in Requests \ {r} : req'[x] = req[x]
        /\ req'[r].pc \in {"findKey", "findOwn", "idle"}
    BY <1>1, BeginLands DEF Begin, BeginRegister, BeginOnWallet, Reply
  <2>2. CASE BeginRegister(r)
    <3>1. PICK op \in Ops \cap Adders, u \in Users, k \in Keys :
            Put(r, [Idle EXCEPT !.pc = "findKey", !.op = op, !.user = u,
                                !.key = k])
      BY <2>2 DEF BeginRegister
    <3>2. req'[r].id = 0
      BY <3>1 DEF Put, Idle, TypeInv, TypeOK
    <3>3. KeySeen(r)'
      BY <2>1, <3>2 DEF KeySeen, At
    <3>4. QED
      BY <1>a, <2>1, <3>3
  <2>3. CASE BeginOnWallet(r)
    <3>1. PICK op \in Ops \ Adders, u \in Users, n \in 1 .. nextId - 1 :
            Put(r, [Idle EXCEPT !.pc = "findOwn", !.op = op, !.user = u,
                                !.id = n])
      BY <2>3 DEF BeginOnWallet
    <3>2. req'[r].pc = "findOwn"
      BY <3>1 DEF Put, Idle, TypeInv, TypeOK
    <3>3. QED
      BY <1>b, <2>1, <3>2 DEF AddSteps
  <2>4. CASE Reply(r)
    BY <1>b, <2>1, <2>4, BeginLands DEF AddSteps
  <2>5. QED
    BY <1>1, <2>2, <2>3, <2>4 DEF Begin
<1>2. ASSUME NEW r \in Requests, KeyFree(r) PROVE ToldInv'
  <2>1. /\ Lands(r, {"friendbot", "count"}) /\ req'[r].key = req[r].key
        /\ req'[r].id = req[r].id /\ UNCHANGED <<users, wallets, nextId>>
    BY <1>2, RegisterLands, Keeps DEF Register, KeyFree
  <2>2. req[r].id = 0 /\ ~Owns(req[r].user, req[r].key)
    BY <1>2 DEF KeyFree, Owns, ToldInv, KeySeen
  <2>3. KeySeen(r)'
    BY <2>1, <2>2 DEF KeySeen, At, Owns, WithKey
  <2>4. QED
    BY <1>a, <2>1, <2>3
<1>3. ASSUME NEW r \in Requests, KeyOwned(r) PROVE ToldInv'
  <2>1. /\ Lands(r, {"friendbot", "done"}) /\ req'[r].key = req[r].key
        /\ UNCHANGED <<users, wallets, nextId>>
    BY <1>3, RegisterLands, Keeps DEF Register, KeyOwned
  <2>2. PICK w \in WithKey(req[r].key) :
          /\ w.userId = req[r].user
          /\ req'[r].pc = "friendbot" => req'[r].id = w.id
    BY <1>3, Keeps
  <2>3. w.id # 0 /\ Owns(req[r].user, req[r].key)
    BY <2>2, AtWork DEF Owns, WithKey, ToldInv, IdInv
  <2>4. KeySeen(r)'
    BY <2>1, <2>2, <2>3 DEF KeySeen, At, Owns, WithKey
  <2>5. QED
    BY <1>a, <2>1, <2>4
<1>4. ASSUME NEW r \in Requests, Friendbot(r) PROVE ToldInv'
  <2>1. /\ Lands(r, {"done", "count"}) /\ req'[r].key = req[r].key
        /\ req'[r].pc = "count" => req[r].id = 0
        /\ At(r, "friendbot") /\ UNCHANGED <<users, wallets, nextId>>
    BY <1>4, RegisterLands, Keeps DEF Friendbot, FriendbotFails, FriendbotFunds
  <2>2. KeySeen(r)'
    BY <2>1 DEF ToldInv, KeySeen, At, Owns, WithKey
  <2>3. QED
    BY <1>a, <2>1, <2>2
<1>5. ASSUME NEW r \in Requests, Count(r) PROVE ToldInv'
  <2>1. /\ Lands(r, {"insert"}) /\ req'[r].key = req[r].key
        /\ At(r, "count") /\ UNCHANGED <<users, wallets, nextId>>
    BY <1>5, RegisterLands, Keeps DEF Register, Count
  <2>2. KeySeen(r)'
    BY <2>1 DEF ToldInv, KeySeen, At, Owns, WithKey
  <2>3. QED
    BY <1>a, <2>1, <2>2
<1>6. ASSUME NEW r \in Requests, KeyTaken(r) \/ InsertRow(r) \/ InsertRefused(r)
      PROVE  ToldInv'
  BY <1>6, <1>b, RegisterLands
     DEF KeyTaken, InsertRefused, Writes, AddSteps
<1>7. ASSUME NEW r \in Requests, Manage(r) \/ Abort(r) PROVE ToldInv'
  <2>1. /\ req'[r].pc \notin AddSteps
        /\ \A x \in Requests \ {r} : req'[x] = req[x]
    BY <1>7, ManageLands DEF Manage, AddSteps
  <2>2. Writes(r) \/ UNCHANGED <<users, wallets, nextId>>
    BY <1>7 DEF Manage, OwnMissing, OwnFound, RowGone, Pick, PickNothing,
                Abort, Writes
  <2>3. QED
    BY <1>b, <2>1, <2>2
<1>8. CASE Purge \/ UNCHANGED vars
  BY <1>8, <1>0, KeySeenKept DEF Purge, vars, ToldInv
<1>9. QED
  BY <1>1, <1>2, <1>3, <1>4, <1>5, <1>6, <1>7, <1>8 DEF Next, Serve, Register

\* Under Serial a registration is answered what is true of its key.
THEOREM RegistrationsToldTrue == Spec => RegistrationTold
<1> DEFINE A == Serial =>
      \A r \in Requests : req[r].pc \in AddSteps /\ At(r, "done")' =>
        /\ req'[r].answer = "ok" /\ req[r].user \in users =>
             Owns(req[r].user, req[r].key)'
        /\ req'[r].answer = "conflict" /\ req[r].op # "create" =>
             /\ WithKey(req[r].key) # {}
             /\ ~Owns(req[r].user, req[r].key)
<1>1. Init => (Serial => ToldInv)
  BY DEF Init, ToldInv, IdInv, KeySeen, At, Idle
<1>2. ServiceInv /\ (Serial => SerialInv) /\ (Serial => ToldInv) /\ [Next]_vars =>
        (Serial => ToldInv)'
  BY NextTold
<1>3. ServiceInv /\ (Serial => ToldInv) /\ [Next]_vars => [A]_vars
  <2> SUFFICES ASSUME ServiceInv, ToldInv, Next, NEW r \in Requests,
                      req[r].pc \in AddSteps, req'[r].pc = "done"
               PROVE  /\ req'[r].answer = "ok" /\ req[r].user \in users =>
                           Owns(req[r].user, req[r].key)'
                      /\ req'[r].answer = "conflict" /\ req[r].op # "create" =>
                           /\ WithKey(req[r].key) # {}
                           /\ ~Owns(req[r].user, req[r].key)
    BY DEF At
  <2> USE DEF ServiceInv, Lands
  <2> DEFINE u == req[r].user
             k == req[r].key
  <2>1. /\ u \in Users /\ k \in Keys /\ TypeInv
        /\ \A v, w \in WithKey(k) : v = w
    BY AtWork DEF WithKey, TableOK
  <2>2. Register(r) \/ Friendbot(r) \/ Abort(r)
    <3>1. ASSUME NEW x \in Requests \ {r},
                 Begin(x) \/ Serve(x) \/ Friendbot(x) \/ Abort(x)
          PROVE  req'[r] = req[r]
      BY <3>1, <2>1, BeginLands, RegisterLands, ManageLands
         DEF Serve, Register, Manage, Friendbot
    <3>2. Purge => req' = req
      BY DEF Purge
    <3>3. ~Begin(r) /\ ~Reply(r) /\ ~Manage(r)
      BY DEF Begin, BeginRegister, BeginOnWallet, Reply, Manage, At, AddSteps,
             OwnMissing, OwnFound, Clear, WriteDefault, Remove, RowGone, Pick,
             PickNothing
    <3>4. req'[r] # req[r]
      BY DEF AddSteps
    <3>5. QED
      BY <3>1, <3>2, <3>3, <3>4 DEF Next, Serve
  <2>3. req'[r].user = u /\ req'[r].key = k
    BY <2>1, <2>2, RegisterLands, ManageLands, Keeps DEF Register, Friendbot
  <2>4. CASE KeyTaken(r)
    BY <2>1, <2>4, Keeps DEF KeyTaken, Owns
  <2>5. CASE KeyOwned(r)
    <3>1. PICK w \in WithKey(k) : /\ w.userId = u
                                  /\ req'[r].answer = "conflict" => req[r].op = "create"
      BY <2>1, <2>5, Keeps
    <3>2. w \in WithKey(k)'
      BY <2>3, <2>5 DEF KeyOwned, WithKey
    <3>3. QED
      BY <2>3, <3>1, <3>2 DEF Owns
  <2>6. CASE FriendbotFails(r) \/ Abort(r)
    BY <2>1, <2>6, Keeps
  <2>7. CASE FriendbotFunds(r)
    <3>1. req'[r].answer = "ok" /\ req[r].id # 0 /\ At(r, "friendbot")
      BY <2>1, <2>7, Keeps DEF FriendbotFunds
    <3>2. u \in users => Owns(u, k)
      BY <3>1 DEF ToldInv, KeySeen
    <3>3. Owns(u, k)' <=> Owns(u, k)
      BY <2>3, <2>7 DEF FriendbotFunds, Owns, WithKey
    <3>4. QED
      BY <3>1, <3>2, <3>3
  <2>8. CASE InsertRow(r)
    <3>1. NewRow(r) \in wallets' /\ NewRow(r).userId = u /\ NewRow(r).publicKey = k
      BY <2>8 DEF InsertRow, NewRow
    <3>2. Owns(u, k)'
      BY <2>3, <3>1 DEF Owns, WithKey
    <3>3. QED
      BY <2>1, <2>8, <3>2, Keeps
  <2>9. CASE InsertRefused(r)
    <3>1. ~Owns(u, k)
      BY <2>9 DEF InsertRefused, ToldInv, KeySeen
    <3>2. QED
      BY <2>1, <2>9, <3>1, Keeps
  <2>10. KeyFree(r) \/ Count(r) => req'[r].pc # "done"
    BY <2>1, RegisterLands
  <2>11. QED
    BY <2>2, <2>4, <2>5, <2>6, <2>7, <2>8, <2>9, <2>10 DEF Register, Friendbot
<1>4. QED
  BY <1>1, <1>2, <1>3, SerialSafe, PTL DEF Spec, RegistrationTold
=============================================================================
