----------------------------- MODULE Transactions -----------------------------
(***************************************************************************)
(* The Transaction table: creation, change of status and the listings of   *)
(* src/src/transactions/transactions.service.ts, the listing of a wallet   *)
(* in src/src/wallet/wallet.service.ts, and the statistics of              *)
(* src/src/users/users.service.ts.                                         *)
(*                                                                         *)
(* Listings and statistics send their queries together (Promise.all):      *)
(* each query is a step, in any order.  The client of a listing walks      *)
(* through its pages while rows come and change.  Rows are never deleted:  *)
(* no endpoint does it, and the purge of accounts spares senders           *)
(* (Accounts!SendersStay).                                                 *)
(*                                                                         *)
(* A definition whose name has a suffix after an underscore is the one     *)
(* without the suffix as a plausible bug would have it.                    *)
(***************************************************************************)
EXTENDS Integers, FiniteSets

CONSTANTS
    Users,
    Keys,      \* recipients
    Writers,   \* slots for creations in progress
    Readers,   \* clients that read listings and statistics
    Pages,     \* what clients send as page ...
    Limits,    \* ... and as limit, once parsed
    Statuses,  \* the statuses clients use
    MaxLimit,  \* the largest page (100)
    MaxRows,   \* bound on the rows ever inserted
    MaxTime,   \* bound on the clock
    Faults,    \* a creation may die before its statement
    None       \* no filter, no user

AllStatuses == {"pending", "completed", "failed", "cancelled"}

ASSUME StatusAssumption == "pending" \in Statuses /\ Statuses \subseteq AllStatuses
ASSUME LimitAssumption == Pages \cup Limits \subseteq Int /\ MaxLimit \in Nat \ {0}
ASSUME BoundAssumption == {MaxRows, MaxTime} \subseteq Nat
ASSUME SwitchAssumption == Faults \in BOOLEAN
ASSUME NoneAssumption == None \notin Users \cup Keys \cup Statuses

VARIABLES
    now,     \* Date.now()
    rows,    \* rows of the Transaction table
    nextId,  \* the id the next inserted row gets
    req,     \* the creation each slot is serving
    reader   \* what each client is reading

vars == <<now, rows, nextId, req, reader>>

\* recipient stands for all columns that never change.
Row == [id: Nat, senderId: Users, recipient: Keys, status: Statuses,
        createdAt: Nat]

Creation == [pc: {"idle", "insert"}, user: Users \cup {None},
             recipient: Keys \cup {None}, at: Nat]

Free == [pc |-> "idle", user |-> None, recipient |-> None, at |-> 0]

(***************************************************************************)
(* todo are the queries of the current request that have not run; the ids  *)
(* they found are in data (the page), counted (the total), sent, pending.  *)
(* touched and owed are history: the rows that came or changed during the  *)
(* current request, and the rows that the listing had when the walk began  *)
(* and that the client has not been given yet; none are owed once a row    *)
(* has dropped out of the listing.                                         *)
(***************************************************************************)
ListQueries == {"data", "total"}
StatsQueries == {"count", "sum", "pending"}
Ids == SUBSET Nat

Reading ==
    [pc: {"idle", "wallet", "query"}, op: {"none", "list", "stats"},
     user: Users \cup {None}, status: Statuses \cup {None},
     recipient: Keys \cup {None}, page: Int, limit: Int,
     todo: SUBSET (ListQueries \cup StatsQueries),
     data: Ids, counted: Ids, sent: Ids, pending: Ids,
     touched: Ids, owed: Ids]

Away ==
    [pc |-> "idle", op |-> "none", user |-> None, status |-> None,
     recipient |-> None, page |-> 0, limit |-> 0, todo |-> {}, data |-> {},
     counted |-> {}, sent |-> {}, pending |-> {}, touched |-> {},
     owed |-> {}]

IdsOf(S) == {x.id : x \in S}
Mine(u) == {x \in rows : x.senderId = u}

\* The where clause of q, over table T; that of the statistics filters by
\* sender only.
Listed(q, T) ==
    {x \in T : /\ x.senderId = q.user
               /\ q.status \in {None, x.status}
               /\ q.recipient \in {None, x.recipient}}

-----------------------------------------------------------------------------
\* take and skip, and the rows they select.
Take(limit) == IF limit < MaxLimit THEN limit ELSE MaxLimit
Skip_Uncapped(page, limit) == (page - 1) * limit
Skip(page, limit) == (page - 1) * Take(limit)

Size(n) == IF n < 0 THEN 0 - n ELSE n

\* The sets of rows that may come first when M is sorted by createdAt, the
\* newest (way = 1) or the oldest (way = -1) first.  The order of rows with
\* one createdAt is the database's, and need not be the same twice.
Leading(M, n, way) ==
    {A \in SUBSET M :
       /\ Cardinality(A) = IF n < Cardinality(M) THEN n ELSE Cardinality(M)
       /\ \A x \in A, y \in M \ A : y.createdAt * way <= x.createdAt * way}

\* A negative take makes Prisma count from the other end.
Cut(M, skip, take) ==
    LET way == IF take < 0 THEN -1 ELSE 1
    IN  UNION {{B \ A : B \in {C \in Leading(M, skip + Size(take), way) : A \subseteq C}}
                 : A \in Leading(M, skip, way)}

-----------------------------------------------------------------------------
Init ==
    /\ now = 0
    /\ rows = {}
    /\ nextId = 1
    /\ req = [r \in Writers |-> Free]
    /\ reader = [c \in Readers |-> Away]

\* Row n is new or has changed and the table is now T: what the clients'
\* histories note, if it is or was in what they read.
Noted(n, T) ==
    [c \in Readers |->
       LET before == IdsOf(Listed(reader[c], rows))
           after == IdsOf(Listed(reader[c], T))
       IN  [reader[c] EXCEPT
              !.touched = IF reader[c].todo # {} /\ n \in before \cup after
                          THEN @ \cup {n} ELSE @,
              !.owed = IF before \subseteq after THEN @ ELSE {}]]

\* create: createdAt is taken when the statement is made.
BeginCreate(r) ==
    /\ req[r].pc = "idle"
    /\ nextId + Cardinality({x \in Writers : req[x].pc = "insert"}) <= MaxRows
    /\ \E u \in Users, k \in Keys :
         req' = [req EXCEPT ![r] =
                   [pc |-> "insert", user |-> u, recipient |-> k, at |-> now]]
    /\ UNCHANGED <<now, rows, nextId, reader>>

NewRow_SwappedArguments(r) ==
    [id |-> nextId, senderId |-> req[r].recipient, recipient |-> req[r].user,
     status |-> "pending", createdAt |-> req[r].at]
NewRow(r) ==
    [id |-> nextId, senderId |-> req[r].user, recipient |-> req[r].recipient,
     status |-> "pending", createdAt |-> req[r].at]

Insert(r) ==
    /\ req[r].pc = "insert"
    /\ rows' = rows \cup {NewRow(r)}
    /\ nextId' = nextId + 1
    /\ reader' = Noted(nextId, rows')
    /\ req' = [req EXCEPT ![r] = Free]
    /\ UNCHANGED now

Abort(r) ==
    /\ Faults
    /\ req[r].pc = "insert"
    /\ req' = [req EXCEPT ![r] = Free]
    /\ UNCHANGED <<now, rows, nextId, reader>>

\* updateStatus: one updateMany; any status may follow any other.  (With the
\* status the row has, or an id that is not the caller's, nothing changes.)
UpdateStatus ==
    /\ \E x \in rows, s \in Statuses :
         /\ s # x.status
         /\ rows' = (rows \ {x}) \cup {[x EXCEPT !.status = s]}
         /\ reader' = Noted(x.id, rows')
    /\ UNCHANGED <<now, nextId, req>>

-----------------------------------------------------------------------------
Put(c, q) ==
    /\ reader' = [reader EXCEPT ![c] = q]
    /\ UNCHANGED <<now, rows, nextId, req>>

\* The request for a page; it is the beginning of a walk if it is the first.
Ask(q, page) ==
    [q EXCEPT !.pc = "query", !.page = page, !.todo = ListQueries,
              !.data = {}, !.counted = {}, !.touched = {}]

Start(q, page) ==
    [Ask(q, page) EXCEPT
       !.owed = IF page = 1 /\ q.limit > 0 THEN IdsOf(Listed(q, rows)) ELSE {}]

BeginList(c) ==
    /\ reader[c].pc = "idle"
    /\ \E u \in Users, s \in Statuses \cup {None}, page \in Pages, limit \in Limits :
         Put(c, Start([Away EXCEPT !.op = "list", !.user = u, !.status = s,
                         !.limit = limit], page))

\* The transactions of a wallet are those sent to its key; whether the
\* wallet is found (and is the caller's) is up to WalletService.
BeginWalletList(c) ==
    /\ reader[c].pc = "idle"
    /\ \E u \in Users, k \in Keys, page \in Pages, limit \in Limits :
         Put(c, [Away EXCEPT !.pc = "wallet", !.op = "list", !.user = u,
                   !.recipient = k, !.page = page, !.limit = limit])

WalletFound(c) ==
    /\ reader[c].pc = "wallet"
    /\ Put(c, Start(reader[c], reader[c].page))

WalletMissing(c) ==
    /\ reader[c].pc = "wallet"
    /\ Put(c, Away)

\* Prisma refuses a negative skip.
Refused(c) ==
    /\ "data" \in reader[c].todo
    /\ Skip(reader[c].page, reader[c].limit) < 0
    /\ Put(c, Away)

FindMany(c) ==
    /\ "data" \in reader[c].todo
    /\ Skip(reader[c].page, reader[c].limit) >= 0
    /\ \E P \in Cut(Listed(reader[c], rows),
                    Skip(reader[c].page, reader[c].limit), Take(reader[c].limit)) :
         Put(c, [reader[c] EXCEPT !.todo = @ \ {"data"}, !.data = IdsOf(P),
                                  !.owed = @ \ IdsOf(P)])

Total_AllOfUser(q) == Mine(q.user)
Total(q) == Listed(q, rows)

Count(c) ==
    /\ "total" \in reader[c].todo
    /\ Put(c, [reader[c] EXCEPT !.todo = @ \ {"total"},
                                !.counted = IdsOf(Total(reader[c]))])

\* A client goes on while pages come back full, or gives up.
NextPage(c) ==
    /\ reader[c].op = "list" /\ reader[c].pc = "query" /\ reader[c].todo = {}
    /\ Take(reader[c].limit) > 0
    /\ Cardinality(reader[c].data) = Take(reader[c].limit)
    /\ Put(c, Ask(reader[c], reader[c].page + 1))

-----------------------------------------------------------------------------
BeginStats(c) ==
    /\ reader[c].pc = "idle"
    /\ \E u \in Users :
         Put(c, [Away EXCEPT !.pc = "query", !.op = "stats", !.user = u,
                             !.todo = StatsQueries])

CountAll(c) ==
    /\ "count" \in reader[c].todo
    /\ Put(c, [reader[c] EXCEPT !.todo = @ \ {"count"},
                                !.counted = IdsOf(Mine(reader[c].user))])

\* The rows whose amounts make up totalSent.
Sent_CompletedOnly(u) == {x \in Mine(u) : x.status = "completed"}
Sent(u) == {x \in Mine(u) : x.status \in {"completed", "pending"}}

Sum(c) ==
    /\ "sum" \in reader[c].todo
    /\ Put(c, [reader[c] EXCEPT !.todo = @ \ {"sum"},
                                !.sent = IdsOf(Sent(reader[c].user))])

CountPending(c) ==
    /\ "pending" \in reader[c].todo
    /\ Put(c, [reader[c] EXCEPT !.todo = @ \ {"pending"},
                 !.pending = IdsOf({x \in Mine(reader[c].user) : x.status = "pending"})])

\* The last answer has come, or the client does not wait for more.
Leave(c) ==
    /\ reader[c].pc = "query" /\ reader[c].todo = {}
    /\ Put(c, Away)

Tick ==
    /\ now < MaxTime
    /\ now' = now + 1
    /\ UNCHANGED <<rows, nextId, req, reader>>

Write(r) == BeginCreate(r) \/ Insert(r) \/ Abort(r)

List(c) ==
    \/ BeginList(c) \/ BeginWalletList(c) \/ WalletFound(c) \/ WalletMissing(c)
    \/ Refused(c) \/ FindMany(c) \/ Count(c) \/ NextPage(c)

Stats(c) == BeginStats(c) \/ CountAll(c) \/ Sum(c) \/ CountPending(c)

Next ==
    \/ \E r \in Writers : Write(r)
    \/ UpdateStatus
    \/ \E c \in Readers : List(c) \/ Stats(c) \/ Leave(c)
    \/ Tick

Spec == Init /\ [][Next]_vars

-----------------------------------------------------------------------------
TypeOK ==
    /\ now \in Nat
    /\ rows \subseteq Row
    /\ nextId \in Nat \ {0}
    /\ req \in [Writers -> Creation]
    /\ reader \in [Readers -> Reading]

Answered(c, op) ==
    reader[c].op = op /\ reader[c].pc = "query" /\ reader[c].todo = {}

\* A row that shares its createdAt with no other.
Lone(x) == \A y \in rows : y.createdAt = x.createdAt => y = x

\* A client that reads page after page until one is not full has been given
\* every row the listing had when it began, whatever came in the meantime
\* and in whatever order the insertions took effect, unless a row dropped
\* out of the listing on the way.  Rows that share their createdAt are
\* excepted: orderBy names createdAt alone, so pages may disagree about them.
WalkComplete ==
    \A c \in Readers :
      Answered(c, "list") /\ Cardinality(reader[c].data) < Take(reader[c].limit)
        => \A x \in rows : Lone(x) => x.id \notin reader[c].owed

\* The number of rows a page has by its meta data.
Expected(q) ==
    LET rest == Cardinality(q.counted) - Skip(q.page, q.limit)
    IN  CASE rest < 0 -> 0
          [] rest > Size(Take(q.limit)) -> Size(Take(q.limit))
          [] OTHER -> rest

\* Page and total are read apart, and differ by no more than the rows that
\* came or changed in between.
PageFitsTotal ==
    \A c \in Readers : Answered(c, "list") =>
      Size(Cardinality(reader[c].data) - Expected(reader[c]))
        <= Cardinality(reader[c].touched)

\* The statistics may contradict each other (a pending transaction that is
\* not counted, or is not part of what was sent) only about rows that came
\* or changed while they were read.
StatsAgree ==
    \A c \in Readers : Answered(c, "stats") =>
      /\ reader[c].pending \ reader[c].touched \subseteq reader[c].sent
      /\ reader[c].sent \ reader[c].touched \subseteq reader[c].counted
=============================================================================
