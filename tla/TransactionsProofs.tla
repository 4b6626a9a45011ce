-------------------------- MODULE TransactionsProofs --------------------------
(***************************************************************************)
(* Theorems about transactions, for every set of users, recipients, slots  *)
(* and clients, every page a client may ask for and every largest page.    *)
(***************************************************************************)
EXTENDS Transactions, FiniteSetTheorems, TLAPS

\* The rows, and a table in general: ids are used once.
Table(T) ==
    /\ IsFiniteSet(T) /\ T \subseteq Row
    /\ \A x, y \in T : x.id = y.id => x = y

TableInv ==
    /\ TypeOK /\ Table(rows)
    /\ \A x \in rows : x.id < nextId
    /\ \A r \in Writers : req[r].pc = "insert" =>
         req[r].user \in Users /\ req[r].recipient \in Keys

\* Between requests nothing is to be read and nothing is owed.
Shape(q) ==
    /\ q.pc # "query" => q.todo = {} /\ q.owed = {}
    /\ q.op = "list" => q.todo \subseteq ListQueries
    /\ q.op = "stats" => /\ q.todo \subseteq StatsQueries
                         /\ q.status = None /\ q.recipient = None
    /\ q.op # "list" => q.owed = {}
    /\ q.op = "none" => q.todo = {}
    /\ q.pc = "wallet" => q.op = "list"
    /\ q.owed # {} => q.page >= 1 /\ q.limit > 0
    /\ IsFiniteSet(q.touched) /\ IsFiniteSet(q.counted)

LoneIn(x, T) == \A y \in T : y.createdAt = x.createdAt => y = x
Newer(q, T, x) == {y \in Listed(q, T) : y.createdAt > x.createdAt}

\* What is owed is still listed, behind the pages that have been read: as
\* many rows as they have places are newer.
WalkInv(q, T) ==
    /\ q.owed \subseteq IdsOf(Listed(q, T))
    /\ \A x \in T : x.id \in q.owed /\ LoneIn(x, T) =>
         IF "data" \in q.todo
         THEN Cardinality(Newer(q, T, x)) >= Skip(q.page, q.limit)
         ELSE /\ Cardinality(q.data) = Take(q.limit)
              /\ Cardinality(Newer(q, T, x)) >= q.page * Take(q.limit)

\* Two sets of ids differ by touched ones only.
Apart(q, R, S) == R \ q.touched \subseteq S /\ S \ q.touched \subseteq R

\* The rows of a page of a listing of n rows.
Clip(q, n) ==
    LET rest == n - Skip(q.page, q.limit)
    IN  CASE rest < 0 -> 0
          [] rest > Size(Take(q.limit)) -> Size(Take(q.limit))
          [] OTHER -> rest

\* What the first of the two queries saw, and what the second will see or
\* has seen, differ by touched rows only.
PageInv(q, T) ==
    q.op = "list" =>
      /\ "data" \in q.todo /\ "total" \notin q.todo =>
           Apart(q, q.counted, IdsOf(Listed(q, T)))
      /\ q.pc = "query" /\ "data" \notin q.todo =>
           \E S \in SUBSET Nat :
             /\ IsFiniteSet(S)
             /\ Cardinality(q.data) = Clip(q, Cardinality(S))
             /\ Apart(q, S, IF "total" \in q.todo THEN IdsOf(Listed(q, T))
                                                 ELSE q.counted)

\* What a query of the statistics has found is still so, but for rows that
\* were touched.
StatsInv(q, T) ==
    q.op = "stats" =>
      /\ q.todo # {} /\ "count" \notin q.todo =>
           IdsOf(Listed(q, T)) \ q.touched \subseteq q.counted
      /\ "sum" \notin q.todo => q.sent \subseteq IdsOf(Listed(q, T))
      /\ "pending" \notin q.todo => q.pending \subseteq IdsOf(Listed(q, T))
      /\ q.todo # {} => \A x \in Listed(q, T) : x.id \notin q.touched =>
           /\ "sum" \notin q.todo /\ x.status = "pending" => x.id \in q.sent
           /\ "pending" \notin q.todo /\ x.id \in q.pending =>
                x.status = "pending"
      /\ q.todo \subseteq {"pending"} => q.sent \ q.touched \subseteq q.counted
      /\ q.todo \subseteq {"count"} => q.pending \ q.touched \subseteq q.sent

Good(q, T) == Shape(q) /\ WalkInv(q, T) /\ PageInv(q, T) /\ StatsInv(q, T)

TransInv == TableInv /\ \A c \in Readers : Good(reader[c], rows)

-----------------------------------------------------------------------------
(* Finite sets, and pages.                                                 *)

LEMMA TableFacts ==
  ASSUME NEW T, Table(T), NEW x \in T
  PROVE  /\ x \in Row /\ x.id \in Nat /\ x.createdAt \in Nat
         /\ x.senderId \in Users /\ x.recipient \in Keys
         /\ x.status \in Statuses
  BY DEF Table, Row

LEMMA ListedFacts ==
  ASSUME NEW T, Table(T), NEW q
  PROVE  /\ Listed(q, T) \subseteq T /\ IsFiniteSet(Listed(q, T))
         /\ Table(Listed(q, T))
<1>1. Listed(q, T) \subseteq T
  BY DEF Listed
<1>2. IsFiniteSet(Listed(q, T))
  BY <1>1, FS_Subset DEF Table
<1>3. QED
  BY <1>1, <1>2 DEF Table

LEMMA Difference ==
  ASSUME NEW B, IsFiniteSet(B), NEW A \in SUBSET B
  PROVE  /\ IsFiniteSet(B \ A) /\ IsFiniteSet(A)
         /\ Cardinality(A) \in Nat /\ Cardinality(B) \in Nat
         /\ Cardinality(B \ A) = Cardinality(B) - Cardinality(A)
<1>1. IsFiniteSet(B \ A) /\ IsFiniteSet(A)
  BY FS_Subset
<1>2. Cardinality((B \ A) \cup A) =
        Cardinality(B \ A) + Cardinality(A) - Cardinality((B \ A) \cap A)
  BY <1>1, FS_Union
<1>3. (B \ A) \cup A = B /\ (B \ A) \cap A = {}
  OBVIOUS
<1>4. Cardinality((B \ A) \cap A) = 0
  BY <1>3, FS_EmptySet
<1>5. /\ Cardinality(A) \in Nat /\ Cardinality(B \ A) \in Nat
      /\ Cardinality(B) \in Nat
  BY <1>1, FS_CardinalityType
<1>6. Cardinality(B) = Cardinality(B \ A) + Cardinality(A)
  <2>1. Cardinality((B \ A) \cup A) = Cardinality(B)
    BY <1>3
  <2>2. QED
    BY <2>1, <1>2, <1>4, <1>5
<1>7. QED
  BY <1>1, <1>5, <1>6

\* Rows are as many as their ids.
LEMMA IdsCount ==
  ASSUME NEW T, Table(T), NEW M \in SUBSET T
  PROVE  /\ IsFiniteSet(M) /\ IsFiniteSet(IdsOf(M)) /\ IdsOf(M) \subseteq Nat
         /\ Cardinality(IdsOf(M)) = Cardinality(M)
<1> DEFINE f == [x \in M |-> x.id]
<1>1. IsFiniteSet(M)
  BY FS_Subset DEF Table
<1>2. f \in Bijection(M, IdsOf(M))
  <2>1. f \in Injection(M, IdsOf(M))
    BY DEF Table, IdsOf, Injection, IsInjective
  <2>2. f \in Surjection(M, IdsOf(M))
    BY DEF IdsOf, Surjection
  <2>3. QED
    BY <2>1, <2>2 DEF Bijection
<1>3. ExistsBijection(M, IdsOf(M))
  BY <1>2 DEF ExistsBijection
<1>4. IsFiniteSet(IdsOf(M)) /\ Cardinality(IdsOf(M)) = Cardinality(M)
  BY <1>1, <1>3, FS_Bijection
<1>5. IdsOf(M) \subseteq Nat
  BY TableFacts DEF IdsOf
<1>6. QED
  BY <1>1, <1>4, <1>5

LEMMA TakeFacts ==
  ASSUME NEW limit \in Int
  PROVE  /\ Take(limit) \in Int
         /\ limit > 0 => Take(limit) > 0
         /\ \A page \in Int : Skip(page, limit) \in Int
  BY LimitAssumption DEF Take, Skip

\* A page misses a row that is alone with its createdAt only if it comes
\* before it; then it is full, and the row is behind it too.
LEMMA CutLemma ==
  ASSUME NEW T, Table(T), NEW q \in Reading,
         Skip(q.page, q.limit) >= 0, q.limit > 0,
         NEW P \in Cut(Listed(q, T), Skip(q.page, q.limit), Take(q.limit)),
         NEW x \in Listed(q, T), LoneIn(x, T), x \notin P,
         Cardinality(Newer(q, T, x)) >= Skip(q.page, q.limit)
  PROVE  /\ Cardinality(P) = Take(q.limit)
         /\ Cardinality(Newer(q, T, x)) >= Skip(q.page, q.limit) + Take(q.limit)
<1> DEFINE L == Listed(q, T)
           N == Newer(q, T, x)
           skip == Skip(q.page, q.limit)
           take == Take(q.limit)
<1>a. skip \in Nat /\ take \in Nat \ {0}
  <2>1. q.limit \in Int /\ q.page \in Int
    BY DEF Reading
  <2>2. skip \in Int /\ take \in Int /\ take > 0
    BY <2>1, TakeFacts
  <2>3. QED
    BY <2>2
<1>b. L \subseteq T /\ x \in T /\ N = {y \in L : y.createdAt > x.createdAt}
  BY ListedFacts DEF Newer
<1>c. P \in Cut(L, skip, take)
  OBVIOUS
<1> HIDE DEF L, N, skip, take
<1>1. PICK A \in Leading(L, skip, 1), B \in Leading(L, skip + take, 1) :
        A \subseteq B /\ P = B \ A
  BY <1>a, <1>c DEF Cut, Size
<1>2. A \subseteq L /\ B \subseteq L
  BY DEF Leading
<1>3. /\ IsFiniteSet(L) /\ IsFiniteSet(A) /\ IsFiniteSet(B) /\ IsFiniteSet(N)
      /\ Cardinality(L) \in Nat /\ Cardinality(A) \in Nat
      /\ Cardinality(B) \in Nat /\ Cardinality(N) \in Nat
  <2>1. IsFiniteSet(L)
    BY <1>b, FS_Subset DEF Table
  <2>2. IsFiniteSet(A) /\ IsFiniteSet(B) /\ IsFiniteSet(N)
    BY <1>2, <1>b, <2>1, FS_Subset
  <2>3. QED
    BY <2>1, <2>2, FS_CardinalityType
<1>4. \A y \in T : y.createdAt \in Nat
  BY TableFacts
<1>5. x \notin A
  <2> SUFFICES ASSUME x \in A PROVE FALSE
    OBVIOUS
  <2>1. N \subseteq A
    BY <1>4, <1>2, <1>b DEF Leading
  <2>2. x \notin N
    BY <1>4, <1>b
  <2>3. Cardinality(N \cup {x}) = Cardinality(N) + 1
    BY <1>3, <2>2, FS_AddElement
  <2>4. Cardinality(N \cup {x}) <= Cardinality(A)
    BY <1>3, <2>1, FS_Subset
  <2>5. Cardinality(A) <= skip
    BY <1>3, <1>a DEF Leading
  <2>6. Cardinality(N) >= skip
    BY DEF N, skip
  <2>7. QED
    BY <1>3, <1>a, <2>6, <2>3, <2>4, <2>5
<1>6. x \notin B
  BY <1>1, <1>5
<1>7. B \subseteq N
  <2> SUFFICES ASSUME NEW b \in B PROVE b.createdAt > x.createdAt
    BY <1>2, <1>b
  <2>1. x.createdAt * 1 <= b.createdAt * 1
    BY <1>6, <1>b DEF Leading, L
  <2>2. b.createdAt # x.createdAt
    BY <1>2, <1>6, <1>b DEF LoneIn
  <2>3. QED
    BY <1>2, <1>4, <1>b, <2>1, <2>2
<1>8. Cardinality(B) <= Cardinality(N)
  BY <1>3, <1>7, FS_Subset
<1>9. Cardinality(B) = skip + take
  <2>1. Cardinality(B) # Cardinality(L)
    BY <1>2, <1>3, <1>6, FS_Subset DEF L
  <2>2. QED
    BY <2>1 DEF Leading
<1>10. Cardinality(A) = skip
  <2>1. Cardinality(B) <= Cardinality(L)
    BY <1>2, <1>3, FS_Subset
  <2>2. QED
    BY <1>3, <1>9, <1>a, <2>1 DEF Leading
<1>11. Cardinality(P) = Cardinality(B) - Cardinality(A)
  BY <1>1, <1>3, Difference
<1>12. QED
  BY <1>3, <1>a, <1>8, <1>9, <1>10, <1>11 DEF N, skip, take

-----------------------------------------------------------------------------
(* Steps of the table: one row, n, comes or changes.                       *)

Change(n, T) ==
    /\ Table(T)
    /\ \A y \in rows : y.id # n => y \in T
    /\ \A z \in T : z.id # n => z \in rows
    /\ \A y \in rows : \E z \in T :
         /\ z.id = y.id /\ z.createdAt = y.createdAt
         /\ z.senderId = y.senderId /\ z.recipient = y.recipient

\* The reader c of whom a change of row n to table T is noted.
NotedFor(c, n, T, p) ==
    /\ p \in Reading
    /\ p.pc = reader[c].pc /\ p.op = reader[c].op /\ p.user = reader[c].user
    /\ p.status = reader[c].status /\ p.recipient = reader[c].recipient
    /\ p.page = reader[c].page /\ p.limit = reader[c].limit
    /\ p.todo = reader[c].todo /\ p.data = reader[c].data
    /\ p.counted = reader[c].counted
    /\ p.sent = reader[c].sent /\ p.pending = reader[c].pending
    /\ p.touched =
         IF /\ reader[c].todo # {}
            /\ n \in IdsOf(Listed(reader[c], rows)) \cup IdsOf(Listed(reader[c], T))
         THEN reader[c].touched \cup {n} ELSE reader[c].touched
    /\ p.owed =
         IF IdsOf(Listed(reader[c], rows)) \subseteq IdsOf(Listed(reader[c], T))
         THEN reader[c].owed ELSE {}

LEMMA NotedFields ==
  ASSUME TransInv, NEW n \in Nat, NEW T, NEW c \in Readers
  PROVE  reader[c] \in Reading /\ NotedFor(c, n, T, Noted(n, T)[c])
<1>1. reader[c] \in Reading
  BY DEF TransInv, TableInv, TypeOK
<1>2. QED
  BY <1>1 DEF Noted, NotedFor, Reading, Ids

LEMMA NotedShape ==
  ASSUME TransInv, NEW n \in Nat, NEW T, NEW c \in Readers,
         NEW p, NotedFor(c, n, T, p)
  PROVE  Shape(p)
<1> DEFINE q == reader[c]
<1>1. Shape(q)
  BY DEF TransInv, Good
<1>2. IsFiniteSet(q.touched \cup {n})
  BY <1>1, FS_AddElement DEF Shape
<1>3. /\ p.pc = q.pc /\ p.op = q.op /\ p.todo = q.todo /\ p.page = q.page
      /\ p.limit = q.limit /\ p.status = q.status
      /\ p.recipient = q.recipient /\ p.counted = q.counted
      /\ p.touched \in {q.touched, q.touched \cup {n}}
      /\ p.owed \in {q.owed, {}}
  BY DEF NotedFor
<1> HIDE DEF q
<1>4. QED
  BY <1>1, <1>2, <1>3 DEF Shape

\* Newer rows stay newer, and in the listing as long as anything is owed.
LEMMA NotedWalk ==
  ASSUME TransInv, NEW n \in Nat, NEW T, Change(n, T), NEW c \in Readers,
         NEW p, NotedFor(c, n, T, p)
  PROVE  WalkInv(p, T)
<1> DEFINE q == reader[c]
           L == Listed(q, rows)
           M == Listed(q, T)
<1>1. /\ q \in Reading /\ WalkInv(q, rows) /\ Shape(q) /\ Table(rows) /\ Table(T)
  BY NotedFields DEF TransInv, TableInv, Good, Change
<1>2. /\ p.todo = q.todo /\ p.page = q.page /\ p.limit = q.limit
      /\ p.data = q.data
      /\ p.owed = IF IdsOf(L) \subseteq IdsOf(M) THEN q.owed ELSE {}
      /\ p.user = q.user /\ p.status = q.status /\ p.recipient = q.recipient
  BY DEF NotedFor
<1>3. Listed(p, T) = M
  BY <1>2 DEF Listed
<1>4. CASE p.owed = {}
  BY <1>4 DEF WalkInv
<1>5. CASE IdsOf(L) \subseteq IdsOf(M) /\ p.owed = q.owed
  <2>1. p.owed \subseteq IdsOf(M)
    BY <1>1, <1>5 DEF WalkInv
  <2>2. ASSUME NEW z \in T, z.id \in p.owed, LoneIn(z, T)
        PROVE  IF "data" \in q.todo
               THEN Cardinality(Newer(p, T, z)) >= Skip(q.page, q.limit)
               ELSE /\ Cardinality(q.data) = Take(q.limit)
                    /\ Cardinality(Newer(p, T, z)) >= q.page * Take(q.limit)
    <3>1. PICK x \in L : x.id = z.id
      BY <1>1, <1>5, <2>2 DEF WalkInv, IdsOf
    <3>2. L \subseteq rows /\ M \subseteq T
      BY DEF Listed
    <3>3. x.createdAt = z.createdAt
      BY <3>1, <3>2 DEF Change, Table
    <3>4. LoneIn(x, rows)
      <4> SUFFICES ASSUME NEW y \in rows, y.createdAt = x.createdAt
                   PROVE  y = x
        BY DEF LoneIn
      <4>1. PICK w \in T : w.id = y.id /\ w.createdAt = y.createdAt
        BY DEF Change
      <4>2. w = z
        BY <2>2, <3>3, <4>1 DEF LoneIn
      <4>3. QED
        BY <1>1, <3>1, <3>2, <4>1, <4>2 DEF Table
    <3>5. IF "data" \in q.todo
          THEN Cardinality(Newer(q, rows, x)) >= Skip(q.page, q.limit)
          ELSE /\ Cardinality(q.data) = Take(q.limit)
               /\ Cardinality(Newer(q, rows, x)) >= q.page * Take(q.limit)
      BY <1>1, <1>5, <2>2, <3>1, <3>2, <3>4 DEF WalkInv
    <3>6. IdsOf(Newer(q, rows, x)) \subseteq IdsOf(Newer(p, T, z))
      <4> SUFFICES ASSUME NEW y \in L, y.createdAt > x.createdAt
                   PROVE  \E w \in M : w.id = y.id /\ w.createdAt > z.createdAt
        BY <1>3 DEF IdsOf, Newer
      <4>1. PICK w \in M : w.id = y.id
        BY <1>5 DEF IdsOf
      <4>2. w.createdAt = y.createdAt
        BY <3>2, <4>1 DEF Change, Table
      <4>3. QED
        BY <3>3, <4>1, <4>2
    <3>7. /\ Newer(q, rows, x) \subseteq rows
          /\ Newer(p, T, z) \subseteq T
      BY <1>3, <3>2 DEF Newer
    <3>8. /\ IsFiniteSet(IdsOf(Newer(p, T, z)))
          /\ Cardinality(IdsOf(Newer(p, T, z))) = Cardinality(Newer(p, T, z))
          /\ Cardinality(IdsOf(Newer(q, rows, x))) = Cardinality(Newer(q, rows, x))
          /\ Cardinality(Newer(q, rows, x)) \in Nat
          /\ Cardinality(Newer(p, T, z)) \in Nat
      BY <1>1, <3>7, IdsCount, FS_CardinalityType
    <3>9. Cardinality(Newer(q, rows, x)) <= Cardinality(Newer(p, T, z))
      BY <3>6, <3>8, FS_Subset
    <3>10. /\ Skip(q.page, q.limit) \in Int /\ Take(q.limit) \in Int
           /\ q.page \in Int
      BY <1>1, TakeFacts DEF Reading
    <3>11. q.page * Take(q.limit) \in Int
      BY <3>10
    <3> HIDE DEF q
    <3>12. QED
      BY <3>5, <3>8, <3>9, <3>10, <3>11
  <2>3. QED
    BY <1>2, <1>3, <2>1, <2>2 DEF WalkInv
<1>6. QED
  BY <1>2, <1>4, <1>5

\* What is known of a listing stays true of rows that were not touched.
LEMMA NotedListed ==
  ASSUME TransInv, NEW n \in Nat, NEW T, Change(n, T), NEW c \in Readers,
         NEW p, NotedFor(c, n, T, p), p.todo # {}
  PROVE  /\ Listed(p, T) = Listed(reader[c], T)
         /\ reader[c].touched \subseteq p.touched
         /\ IdsOf(Listed(p, T)) \ p.touched \subseteq IdsOf(Listed(reader[c], rows))
         /\ IdsOf(Listed(reader[c], rows)) \ p.touched \subseteq IdsOf(Listed(p, T))
         /\ \A x \in Listed(p, T) : x.id \notin p.touched =>
              x \in Listed(reader[c], rows)
<1> DEFINE q == reader[c]
<1>1. /\ p.todo = q.todo /\ p.user = q.user /\ p.status = q.status
      /\ p.recipient = q.recipient
      /\ p.touched = IF n \in IdsOf(Listed(q, rows)) \cup IdsOf(Listed(q, T))
                     THEN q.touched \cup {n} ELSE q.touched
  BY DEF NotedFor
<1>2. Listed(p, T) = Listed(q, T)
  BY <1>1 DEF Listed
<1>3. \A x \in Listed(q, T) : x.id # n => x \in Listed(q, rows)
  BY DEF Listed, Change
<1>4. \A x \in Listed(q, rows) : x.id # n => x \in Listed(q, T)
  BY DEF Listed, Change
<1>5. \A x \in Listed(q, T) : x.id \in IdsOf(Listed(q, T))
  BY DEF IdsOf
<1>6. \A x \in Listed(q, rows) : x.id \in IdsOf(Listed(q, rows))
  BY DEF IdsOf
<1>7. \A x \in Listed(p, T) : x.id \notin p.touched => x \in Listed(q, rows)
  BY <1>1, <1>2, <1>3, <1>5
<1>8. \A x \in Listed(q, rows) : x.id \notin p.touched => x \in Listed(p, T)
  BY <1>1, <1>2, <1>4, <1>6
<1>9. QED
  BY <1>1, <1>2, <1>7, <1>8 DEF IdsOf

LEMMA NotedPage ==
  ASSUME TransInv, NEW n \in Nat, NEW T, Change(n, T), NEW c \in Readers,
         NEW p, NotedFor(c, n, T, p)
  PROVE  PageInv(p, T)
<1> DEFINE q == reader[c]
           L == IdsOf(Listed(q, rows))
           M == IdsOf(Listed(p, T))
<1>1. PageInv(q, rows) /\ Shape(q)
  BY DEF TransInv, Good
<1>2. /\ p.op = q.op /\ p.pc = q.pc /\ p.todo = q.todo /\ p.data = q.data
      /\ p.counted = q.counted /\ p.page = q.page /\ p.limit = q.limit
      /\ p.todo = {} => p.touched = q.touched
  BY DEF NotedFor
<1>3. \A k : Clip(p, k) = Clip(q, k)
  BY <1>2 DEF Clip
<1>4. p.todo # {} =>
        q.touched \subseteq p.touched /\ M \ p.touched \subseteq L
          /\ L \ p.touched \subseteq M
  BY NotedListed
<1>5. q.touched \subseteq p.touched
  BY <1>2, <1>4
<1>6. \A R : p.todo # {} /\ Apart(q, R, L) => Apart(p, R, M)
  BY <1>4 DEF Apart
<1>7. \A R, S : Apart(q, R, S) => Apart(p, R, S)
  BY <1>5 DEF Apart
<1> HIDE DEF M
<1>8. ASSUME p.op = "list", "data" \in p.todo, "total" \notin p.todo
      PROVE  Apart(p, p.counted, M)
  BY <1>1, <1>2, <1>6, <1>8 DEF PageInv
<1>9. ASSUME p.op = "list", p.pc = "query", "data" \notin p.todo
      PROVE  \E S \in SUBSET Nat :
               /\ IsFiniteSet(S)
               /\ Cardinality(p.data) = Clip(p, Cardinality(S))
               /\ Apart(p, S, IF "total" \in p.todo THEN M ELSE p.counted)
  <2>1. PICK S \in SUBSET Nat :
          /\ IsFiniteSet(S)
          /\ Cardinality(q.data) = Clip(q, Cardinality(S))
          /\ Apart(q, S, IF "total" \in q.todo THEN L ELSE q.counted)
    BY <1>1, <1>2, <1>9 DEF PageInv
  <2>2. Cardinality(p.data) = Clip(p, Cardinality(S))
    BY <1>2, <1>3, <2>1
  <2>3. Apart(p, S, IF "total" \in p.todo THEN M ELSE p.counted)
    <3>1. CASE "total" \in p.todo
      BY <1>2, <1>6, <2>1, <3>1
    <3>2. CASE "total" \notin p.todo
      BY <1>2, <1>7, <2>1, <3>2
    <3>3. QED
      BY <3>1, <3>2
  <2>4. QED
    BY <2>1, <2>2, <2>3
<1>10. QED
  BY <1>8, <1>9 DEF PageInv, M

LEMMA NotedStats ==
  ASSUME TransInv, NEW n \in Nat, NEW T, Change(n, T), NEW c \in Readers,
         NEW p, NotedFor(c, n, T, p)
  PROVE  StatsInv(p, T)
<1> DEFINE q == reader[c]
           L == Listed(q, rows)
           M == Listed(p, T)
<1> SUFFICES ASSUME p.op = "stats" PROVE StatsInv(p, T)
  BY DEF StatsInv
<1>1. StatsInv(q, rows) /\ Shape(q)
  BY DEF TransInv, Good
<1>2. /\ q.op = "stats" /\ p.todo = q.todo /\ p.user = q.user
      /\ p.status = q.status /\ p.recipient = q.recipient
      /\ p.counted = q.counted /\ p.sent = q.sent /\ p.pending = q.pending
      /\ p.todo = {} => p.touched = q.touched
  BY DEF NotedFor
<1>3. /\ q.status = None /\ q.recipient = None
  BY <1>1, <1>2 DEF Shape
<1>4. p.todo # {} =>
        /\ q.touched \subseteq p.touched
        /\ IdsOf(M) \ p.touched \subseteq IdsOf(L)
        /\ \A x \in M : x.id \notin p.touched => x \in L
  BY NotedListed
<1>5. q.touched \subseteq p.touched
  BY <1>2, <1>4
<1>6. IdsOf(L) \subseteq IdsOf(M)
  <2> SUFFICES ASSUME NEW y \in L PROVE \E z \in M : z.id = y.id
    BY DEF IdsOf
  <2>1. PICK z \in T : z.id = y.id /\ z.senderId = y.senderId
    BY DEF Listed, Change
  <2>2. z \in M
    BY <1>2, <1>3, <2>1 DEF Listed
  <2>3. QED
    BY <2>1, <2>2
<1> HIDE DEF L, M
<1>7. /\ q.todo # {} /\ "count" \notin q.todo => IdsOf(L) \ q.touched \subseteq q.counted
      /\ "sum" \notin q.todo => q.sent \subseteq IdsOf(L)
      /\ "pending" \notin q.todo => q.pending \subseteq IdsOf(L)
      /\ q.todo # {} => \A x \in L : x.id \notin q.touched =>
           /\ "sum" \notin q.todo /\ x.status = "pending" => x.id \in q.sent
           /\ "pending" \notin q.todo /\ x.id \in q.pending =>
                x.status = "pending"
      /\ q.todo \subseteq {"pending"} => q.sent \ q.touched \subseteq q.counted
      /\ q.todo \subseteq {"count"} => q.pending \ q.touched \subseteq q.sent
  BY <1>1, <1>2 DEF StatsInv, L
<1>8. /\ p.todo # {} /\ "count" \notin p.todo => IdsOf(M) \ p.touched \subseteq p.counted
      /\ "sum" \notin p.todo => p.sent \subseteq IdsOf(M)
      /\ "pending" \notin p.todo => p.pending \subseteq IdsOf(M)
      /\ p.todo # {} => \A x \in M : x.id \notin p.touched =>
           /\ "sum" \notin p.todo /\ x.status = "pending" => x.id \in p.sent
           /\ "pending" \notin p.todo /\ x.id \in p.pending =>
                x.status = "pending"
      /\ p.todo \subseteq {"pending"} => p.sent \ p.touched \subseteq p.counted
      /\ p.todo \subseteq {"count"} => p.pending \ p.touched \subseteq p.sent
  BY <1>2, <1>4, <1>5, <1>6, <1>7
<1>9. QED
  BY <1>8 DEF StatsInv, M

LEMMA TableStep ==
  ASSUME TransInv, NEW n \in Nat, Change(n, rows'), reader' = Noted(n, rows')
  PROVE  /\ reader' \in [Readers -> Reading]
         /\ \A c \in Readers : Good(reader'[c], rows')
<1>1. \A c \in Readers : NotedFor(c, n, rows', reader'[c])
  BY NotedFields
<1>2. reader' = [c \in Readers |-> reader'[c]]
  BY DEF Noted
<1>3. \A c \in Readers : reader'[c] \in Reading
  BY <1>1 DEF NotedFor
<1>4. QED
  BY <1>1, <1>2, <1>3, NotedShape, NotedWalk, NotedPage, NotedStats DEF Good

LEMMA InsertStep ==
  ASSUME TransInv, NEW r \in Writers, Insert(r)
  PROVE  TransInv'
<1>1. /\ TableInv /\ req[r] \in Creation /\ nextId \in Nat
      /\ req[r].user \in Users /\ req[r].recipient \in Keys
      /\ rows' = rows \cup {NewRow(r)} /\ nextId' = nextId + 1
      /\ reader' = Noted(nextId, rows') /\ UNCHANGED now
      /\ req' = [req EXCEPT ![r] = Free]
  BY DEF Insert, TransInv, TableInv, TypeOK
<1>2. NewRow(r) \in Row /\ NewRow(r).id = nextId
  BY <1>1, StatusAssumption DEF NewRow, Row, Creation
<1>3. \A x \in rows : x.id \in Nat /\ x.id < nextId
  BY <1>1 DEF TableInv, TypeOK, Row
<1>4. Table(rows')
  <2>1. IsFiniteSet(rows')
    BY <1>1, FS_AddElement DEF TableInv, Table
  <2>2. \A x, y \in rows' : x.id = y.id => x = y
    BY <1>1, <1>2, <1>3 DEF TableInv, Table
  <2>3. QED
    BY <1>1, <1>2, <2>1, <2>2 DEF Table, TableInv
<1>5. Change(nextId, rows')
  BY <1>1, <1>2, <1>4 DEF Change
<1>6. /\ reader' \in [Readers -> Reading]
      /\ \A c \in Readers : Good(reader'[c], rows')
  BY <1>1, <1>5, TableStep
<1>7. req' \in [Writers -> Creation]
      /\ \A w \in Writers : req'[w].pc = "insert" =>
           req'[w].user \in Users /\ req'[w].recipient \in Keys
  BY <1>1 DEF TableInv, TypeOK, Creation, Free
<1>8. nextId' \in Nat \ {0} /\ \A x \in rows' : x.id < nextId'
  BY <1>1, <1>2, <1>3
<1>9. QED
  BY <1>1, <1>4, <1>6, <1>7, <1>8 DEF TransInv, TableInv, TypeOK, Table

LEMMA UpdateStep ==
  ASSUME TransInv, UpdateStatus
  PROVE  TransInv'
<1>1. PICK x \in rows, s \in Statuses :
        /\ rows' = (rows \ {x}) \cup {[x EXCEPT !.status = s]}
        /\ reader' = Noted(x.id, rows')
  BY DEF UpdateStatus
<1>2. TableInv /\ UNCHANGED <<now, nextId, req>>
  BY DEF UpdateStatus, TransInv
<1> DEFINE z == [x EXCEPT !.status = s]
<1>3. /\ x \in Row /\ x.id \in Nat /\ z \in Row /\ z.id = x.id
      /\ z.createdAt = x.createdAt
      /\ z.senderId = x.senderId /\ z.recipient = x.recipient
  BY <1>2 DEF TableInv, TypeOK, Row
<1>4. Table(rows')
  <2>1. IsFiniteSet(rows')
    BY <1>1, <1>2, FS_AddElement, FS_RemoveElement DEF TableInv, Table
  <2>2. \A v, y \in rows' : v.id = y.id => v = y
    <3>1. \A v \in rows \ {x} : v.id # x.id
      BY <1>2 DEF TableInv, Table
    <3>2. \A v, y \in rows \ {x} : v.id = y.id => v = y
      BY <1>2 DEF TableInv, Table
    <3> HIDE DEF z
    <3>3. rows' = (rows \ {x}) \cup {z}
      BY <1>1 DEF z
    <3>4. QED
      BY <1>3, <3>1, <3>2, <3>3
  <2>3. QED
    BY <1>1, <1>2, <1>3, <2>1, <2>2 DEF Table, TableInv
<1>5. Change(x.id, rows')
  <2>1. \A y \in rows : y.id # x.id => y \in rows'
    BY <1>1
  <2>2. \A y \in rows' : y.id # x.id => y \in rows
    BY <1>1, <1>3
  <2>3. \A y \in rows : \E v \in rows' :
          /\ v.id = y.id /\ v.createdAt = y.createdAt
          /\ v.senderId = y.senderId /\ v.recipient = y.recipient
    BY <1>1, <1>3
  <2>4. QED
    BY <1>4, <2>1, <2>2, <2>3 DEF Change
<1>6. /\ reader' \in [Readers -> Reading]
      /\ \A c \in Readers : Good(reader'[c], rows')
  BY <1>1, <1>3, <1>5, TableStep
<1>7. \A y \in rows' : y.id < nextId'
  BY <1>1, <1>2, <1>3 DEF TableInv
<1>8. QED
  BY <1>2, <1>4, <1>6, <1>7 DEF TransInv, TableInv, TypeOK, Table

-----------------------------------------------------------------------------
(* Steps of the clients.                                                   *)

LEMMA PutSafe ==
  ASSUME TransInv, NEW c \in Readers, NEW q, Put(c, q), q \in Reading,
         Good(q, rows)
  PROVE  TransInv'
<1>1. /\ reader' = [reader EXCEPT ![c] = q]
      /\ UNCHANGED <<now, rows, nextId, req>>
  BY DEF Put
<1>2. reader \in [Readers -> Reading]
  BY DEF TransInv, TableInv, TypeOK
<1>3. /\ reader' \in [Readers -> Reading]
      /\ \A d \in Readers : Good(reader'[d], rows)
  BY <1>1, <1>2 DEF TransInv
<1>4. QED
  BY <1>1, <1>3 DEF TransInv, TableInv, TypeOK

LEMMA AwayGood == Away \in Reading /\ Good(Away, rows)
<1>1. Away \in Reading
  BY DEF Away, Reading, Ids
<1>2. Shape(Away)
  BY FS_EmptySet DEF Away, Shape
<1>3. WalkInv(Away, rows)
  BY DEF Away, WalkInv
<1>4. PageInv(Away, rows) /\ StatsInv(Away, rows)
  BY DEF Away, PageInv, StatsInv
<1>5. QED
  BY <1>1, <1>2, <1>3, <1>4 DEF Good

\* A request that has not been answered anything yet.
LEMMA FreshGood ==
  ASSUME NEW q \in Reading, q.op = "list", q.pc = "query",
         q.todo = ListQueries, q.touched = {}, q.counted = {}, WalkInv(q, rows),
         q.owed # {} => q.page >= 1 /\ q.limit > 0
  PROVE  Good(q, rows)
<1>1. Shape(q)
  BY FS_EmptySet DEF Shape
<1>2. PageInv(q, rows) /\ StatsInv(q, rows)
  BY DEF PageInv, StatsInv, ListQueries
<1>3. QED
  BY <1>1, <1>2 DEF Good

LEMMA StartGood ==
  ASSUME TransInv, NEW q \in Reading, q.op = "list", NEW page \in Int
  PROVE  Start(q, page) \in Reading /\ Good(Start(q, page), rows)
<1> DEFINE s == Start(q, page)
           owed == IF page = 1 /\ q.limit > 0 THEN IdsOf(Listed(q, rows)) ELSE {}
<1>a. Table(rows)
  BY DEF TransInv, TableInv
<1>1. owed \in Ids
  BY <1>a, ListedFacts, IdsCount DEF Ids
<1>2. /\ s \in Reading /\ s.op = "list" /\ s.pc = "query"
      /\ s.todo = ListQueries /\ s.touched = {} /\ s.counted = {}
      /\ s.owed = owed /\ s.page = page /\ s.limit = q.limit
      /\ s.user = q.user /\ s.status = q.status /\ s.recipient = q.recipient
  BY <1>1 DEF Start, Ask, Reading, Ids
<1>3. Listed(s, rows) = Listed(q, rows)
  BY <1>2 DEF Listed
<1> HIDE DEF s
<1>4. WalkInv(s, rows)
  <2>1. s.owed \subseteq IdsOf(Listed(s, rows))
    BY <1>2, <1>3
  <2>2. ASSUME NEW x \in rows, x.id \in s.owed
        PROVE  Cardinality(Newer(s, rows, x)) >= Skip(s.page, s.limit)
    <3>1. s.page = 1
      BY <1>2, <2>2
    <3>2. Take(s.limit) \in Int
      BY <1>2, TakeFacts DEF Reading
    <3>3. Skip(s.page, s.limit) = 0
      BY <3>1, <3>2 DEF Skip
    <3>4. Newer(s, rows, x) \subseteq rows
      BY DEF Newer, Listed
    <3>5. Cardinality(Newer(s, rows, x)) \in Nat
      BY <1>a, <3>4, IdsCount, FS_CardinalityType
    <3>6. QED
      BY <3>3, <3>5
  <2>3. QED
    BY <1>2, <2>1, <2>2 DEF WalkInv, ListQueries
<1>5. QED
  BY <1>2, <1>4, FreshGood DEF s

LEMMA BeginSteps ==
  ASSUME TransInv, NEW c \in Readers,
         \/ BeginList(c) \/ BeginWalletList(c) \/ WalletFound(c)
         \/ WalletMissing(c) \/ Refused(c) \/ Leave(c)
  PROVE  TransInv'
<1>a. reader[c] \in Reading
  BY DEF TransInv, TableInv, TypeOK
<1>1. CASE BeginList(c)
  <2>1. PICK u \in Users, s \in Statuses \cup {None}, page \in Pages,
             limit \in Limits :
          Put(c, Start([Away EXCEPT !.op = "list", !.user = u, !.status = s,
                          !.limit = limit], page))
    BY <1>1 DEF BeginList
  <2> DEFINE q == [Away EXCEPT !.op = "list", !.user = u, !.status = s,
                                !.limit = limit]
  <2>2. page \in Int /\ limit \in Int
    BY LimitAssumption
  <2>3. q \in Reading /\ q.op = "list"
    BY <2>2, AwayGood DEF Reading
  <2> HIDE DEF q
  <2>4. Start(q, page) \in Reading /\ Good(Start(q, page), rows)
    BY <2>2, <2>3, StartGood
  <2>5. Put(c, Start(q, page))
    BY <2>1 DEF q
  <2>6. QED
    BY <2>4, <2>5, PutSafe
<1>2. CASE BeginWalletList(c)
  <2>1. PICK u \in Users, k \in Keys, page \in Pages, limit \in Limits :
          Put(c, [Away EXCEPT !.pc = "wallet", !.op = "list", !.user = u,
                    !.recipient = k, !.page = page, !.limit = limit])
    BY <1>2 DEF BeginWalletList
  <2> DEFINE q == [Away EXCEPT !.pc = "wallet", !.op = "list", !.user = u,
                     !.recipient = k, !.page = page, !.limit = limit]
  <2>2. page \in Int /\ limit \in Int
    BY LimitAssumption
  <2>3. q \in Reading
    BY <2>2 DEF Away, Reading, Ids
  <2>4. Shape(q)
    BY FS_EmptySet DEF Away, Shape
  <2>5. WalkInv(q, rows) /\ PageInv(q, rows) /\ StatsInv(q, rows)
    BY DEF Away, WalkInv, PageInv, StatsInv
  <2>6. QED
    BY <2>1, <2>3, <2>4, <2>5, PutSafe DEF Good
<1>3. CASE WalletFound(c)
  <2>1. /\ reader[c].pc = "wallet"
        /\ Put(c, Start(reader[c], reader[c].page))
    BY <1>3 DEF WalletFound
  <2>2. CASE reader[c].op = "list"
    BY <1>a, <2>1, <2>2, StartGood, PutSafe DEF Reading
  <2>3. QED
    BY <2>1, <2>2 DEF TransInv, Good, Shape
<1>4. CASE WalletMissing(c) \/ Refused(c) \/ Leave(c)
  BY <1>4, AwayGood, PutSafe DEF WalletMissing, Refused, Leave
<1>5. QED
  BY <1>1, <1>2, <1>3, <1>4

\* What a client that is still reading knows.
LEMMA ReaderFacts ==
  ASSUME TransInv, NEW c \in Readers
  PROVE  /\ reader[c] \in Reading /\ Shape(reader[c]) /\ WalkInv(reader[c], rows)
         /\ PageInv(reader[c], rows) /\ StatsInv(reader[c], rows)
         /\ Table(rows) /\ Listed(reader[c], rows) \subseteq rows
         /\ IsFiniteSet(IdsOf(Listed(reader[c], rows)))
         /\ IdsOf(Listed(reader[c], rows)) \subseteq Nat
<1>1. reader[c] \in Reading /\ Table(rows) /\ Good(reader[c], rows)
  BY DEF TransInv, TableInv, TypeOK
<1>2. Listed(reader[c], rows) \subseteq rows
  BY DEF Listed
<1>3. QED
  BY <1>1, <1>2, IdsCount DEF Good

\* The number of rows in a page.
LEMMA CutSize ==
  ASSUME NEW T, Table(T), NEW L \in SUBSET T, NEW q \in Reading,
         Skip(q.page, q.limit) >= 0,
         NEW P \in Cut(L, Skip(q.page, q.limit), Take(q.limit))
  PROVE  P \subseteq L /\ Cardinality(P) = Clip(q, Cardinality(L))
<1> DEFINE skip == Skip(q.page, q.limit)
           size == Size(Take(q.limit))
           way == IF Take(q.limit) < 0 THEN -1 ELSE 1
<1>1. Take(q.limit) \in Int /\ skip \in Nat
  BY TakeFacts DEF Reading
<1>2. size \in Nat
  BY <1>1 DEF Size
<1>3. PICK A \in Leading(L, skip, way), B \in Leading(L, skip + size, way) :
        A \subseteq B /\ P = B \ A
  BY DEF Cut
<1>4. A \subseteq L /\ B \subseteq L
  BY DEF Leading
<1>5. IsFiniteSet(L) /\ IsFiniteSet(B) /\ Cardinality(L) \in Nat
  BY <1>4, IdsCount, FS_Subset, FS_CardinalityType
<1> HIDE DEF skip, size, way
<1>6. Cardinality(P) = Cardinality(B) - Cardinality(A)
  BY <1>3, <1>5, Difference
<1>7. /\ Cardinality(A) = IF skip < Cardinality(L) THEN skip ELSE Cardinality(L)
      /\ Cardinality(B) = IF skip + size < Cardinality(L) THEN skip + size
                          ELSE Cardinality(L)
  BY <1>3 DEF Leading
<1>8. Cardinality(P) =
        CASE Cardinality(L) - skip < 0 -> 0
          [] Cardinality(L) - skip > size -> size
          [] OTHER -> Cardinality(L) - skip
  <2>1. CASE Cardinality(L) - skip < 0
    BY <1>1, <1>2, <1>5, <1>6, <1>7, <2>1
  <2>2. CASE Cardinality(L) - skip > size
    BY <1>1, <1>2, <1>5, <1>6, <1>7, <2>2
  <2>3. CASE ~(Cardinality(L) - skip < 0) /\ ~(Cardinality(L) - skip > size)
    BY <1>1, <1>2, <1>5, <1>6, <1>7, <2>3
  <2>4. QED
    BY <2>1, <2>2, <2>3
<1>9. QED
  BY <1>3, <1>4, <1>8 DEF Clip, skip, size

LEMMA FindManyStep ==
  ASSUME TransInv, NEW c \in Readers, FindMany(c)
  PROVE  TransInv'
<1> DEFINE q == reader[c]
           L == Listed(q, rows)
           skip == Skip(q.page, q.limit)
           take == Take(q.limit)
<1>1. /\ q \in Reading /\ Shape(q) /\ WalkInv(q, rows) /\ PageInv(q, rows)
      /\ Table(rows) /\ L \subseteq rows /\ IsFiniteSet(IdsOf(L))
      /\ IdsOf(L) \subseteq Nat
  BY ReaderFacts
<1>2. "data" \in q.todo /\ skip >= 0
  BY DEF FindMany
<1>3. PICK P \in Cut(L, skip, take) :
        Put(c, [q EXCEPT !.todo = @ \ {"data"}, !.data = IdsOf(P),
                         !.owed = @ \ IdsOf(P)])
  BY DEF FindMany
<1> DEFINE p == [q EXCEPT !.todo = @ \ {"data"}, !.data = IdsOf(P),
                          !.owed = @ \ IdsOf(P)]
<1>4. P \subseteq L /\ Cardinality(P) = Clip(q, Cardinality(L))
  BY <1>1, <1>2, CutSize
<1>5. /\ P \subseteq rows /\ IdsOf(P) \subseteq Nat
      /\ Cardinality(IdsOf(P)) = Cardinality(P)
      /\ Cardinality(IdsOf(L)) = Cardinality(L)
  BY <1>1, <1>4, IdsCount
<1>6. /\ p \in Reading /\ p.todo = q.todo \ {"data"} /\ p.data = IdsOf(P)
      /\ p.owed = q.owed \ IdsOf(P) /\ p.pc = q.pc /\ p.op = q.op
      /\ p.user = q.user /\ p.status = q.status /\ p.recipient = q.recipient
      /\ p.page = q.page /\ p.limit = q.limit /\ p.touched = q.touched
      /\ p.counted = q.counted
  BY <1>1, <1>5 DEF Reading, Ids
<1>7. q.op = "list"
  BY <1>1, <1>2 DEF Shape, Reading, StatsQueries
<1>p. Put(c, p)
  BY <1>3
<1> HIDE DEF p
<1>8. Listed(p, rows) = L /\ \A x : Newer(p, rows, x) = Newer(q, rows, x)
  BY <1>6 DEF Listed, Newer
<1>9. Shape(p)
  BY <1>1, <1>6, <1>7 DEF Shape
<1>10. WalkInv(p, rows)
  <2>1. p.owed \subseteq IdsOf(L)
    BY <1>1, <1>6 DEF WalkInv
  <2>2. ASSUME NEW x \in rows, x.id \in p.owed, LoneIn(x, rows)
        PROVE  /\ Cardinality(p.data) = take
               /\ Cardinality(Newer(p, rows, x)) >= p.page * take
    <3>1. x \notin P /\ x.id \in q.owed
      BY <1>6, <2>2 DEF IdsOf
    <3>2. x \in L
      BY <1>1, <3>1 DEF WalkInv, IdsOf, Table
    <3>3. Cardinality(Newer(q, rows, x)) >= skip
      BY <1>1, <1>2, <2>2, <3>1 DEF WalkInv
    <3>4. q.limit > 0 /\ q.limit \in Int /\ q.page \in Int
      BY <1>1, <3>1 DEF Shape, Reading
    <3>5. take \in Nat \ {0} /\ skip \in Nat
      BY <1>2, <3>4, TakeFacts
    <3>6. /\ Cardinality(P) = take
          /\ Cardinality(Newer(q, rows, x)) >= skip + take
      BY <1>1, <1>2, <2>2, <3>1, <3>2, <3>3, <3>4, CutLemma
    <3>7. skip + take = q.page * take
      BY <3>4, <3>5 DEF Skip
    <3>8. QED
      BY <1>5, <1>6, <1>8, <3>6, <3>7
  <2>3. QED
    BY <1>6, <1>8, <2>1, <2>2 DEF WalkInv
<1>11. PageInv(p, rows)
  <2>1. \A k : Clip(p, k) = Clip(q, k)
    BY <1>6 DEF Clip
  <2>2. Cardinality(p.data) = Clip(p, Cardinality(IdsOf(L)))
    BY <1>4, <1>5, <1>6, <2>1
  <2>3. Apart(p, IdsOf(L), IF "total" \in p.todo THEN IdsOf(L) ELSE p.counted)
    <3>1. CASE "total" \in p.todo
      BY <3>1 DEF Apart
    <3>2. CASE "total" \notin p.todo
      <4>1. Apart(q, q.counted, IdsOf(L))
        BY <1>1, <1>2, <1>6, <1>7, <3>2 DEF PageInv
      <4>2. QED
        BY <1>6, <3>2, <4>1 DEF Apart
    <3>3. QED
      BY <3>1, <3>2
  <2>4. "data" \notin p.todo
    BY <1>6
  <2>5. QED
    BY <1>1, <1>8, <2>2, <2>3, <2>4 DEF PageInv
<1>12. StatsInv(p, rows)
  BY <1>6, <1>7 DEF StatsInv
<1>13. QED
  BY <1>6, <1>9, <1>10, <1>11, <1>12, <1>p, PutSafe DEF Good

LEMMA CountStep ==
  ASSUME TransInv, NEW c \in Readers, Count(c)
  PROVE  TransInv'
<1> DEFINE q == reader[c]
           L == Listed(q, rows)
           p == [q EXCEPT !.todo = @ \ {"total"}, !.counted = IdsOf(L)]
<1>1. /\ q \in Reading /\ Shape(q) /\ WalkInv(q, rows) /\ PageInv(q, rows)
      /\ Table(rows) /\ L \subseteq rows /\ IsFiniteSet(IdsOf(L))
      /\ IdsOf(L) \subseteq Nat
  BY ReaderFacts
<1>2. "total" \in q.todo /\ Put(c, p)
  BY DEF Count, Total
<1>3. /\ p \in Reading /\ p.todo = q.todo \ {"total"} /\ p.data = q.data
      /\ p.owed = q.owed /\ p.pc = q.pc /\ p.op = q.op
      /\ p.user = q.user /\ p.status = q.status /\ p.recipient = q.recipient
      /\ p.page = q.page /\ p.limit = q.limit /\ p.touched = q.touched
      /\ p.counted = IdsOf(L)
  BY <1>1 DEF Reading, Ids
<1>4. q.op = "list"
  BY <1>1, <1>2 DEF Shape, Reading, StatsQueries
<1> HIDE DEF p
<1>5. Listed(p, rows) = L /\ \A x : Newer(p, rows, x) = Newer(q, rows, x)
  BY <1>3 DEF Listed, Newer
<1>6. Shape(p)
  BY <1>1, <1>3, <1>4 DEF Shape
<1>7. WalkInv(p, rows)
  BY <1>1, <1>3, <1>5 DEF WalkInv
<1>8. PageInv(p, rows)
  <2>1. \A k : Clip(p, k) = Clip(q, k)
    BY <1>3 DEF Clip
  <2>2. Apart(p, p.counted, IdsOf(L))
    BY <1>3 DEF Apart
  <2>3. ASSUME p.pc = "query", "data" \notin p.todo
        PROVE  \E S \in SUBSET Nat :
                 /\ IsFiniteSet(S)
                 /\ Cardinality(p.data) = Clip(p, Cardinality(S))
                 /\ Apart(p, S, p.counted)
    <3>1. PICK S \in SUBSET Nat :
            /\ IsFiniteSet(S)
            /\ Cardinality(q.data) = Clip(q, Cardinality(S))
            /\ Apart(q, S, IdsOf(L))
      BY <1>1, <1>2, <1>3, <1>4, <2>3 DEF PageInv
    <3>2. Apart(p, S, p.counted)
      BY <1>3, <3>1 DEF Apart
    <3>3. QED
      BY <1>3, <2>1, <3>1, <3>2
  <2>4. "total" \notin p.todo
    BY <1>3
  <2>5. QED
    BY <1>5, <2>2, <2>3, <2>4 DEF PageInv
<1>9. StatsInv(p, rows)
  BY <1>3, <1>4 DEF StatsInv
<1>10. QED
  BY <1>2, <1>3, <1>6, <1>7, <1>8, <1>9, PutSafe DEF Good

LEMMA AskFields ==
  ASSUME NEW q \in Reading, NEW page \in Int
  PROVE  /\ Ask(q, page) \in Reading /\ Ask(q, page).todo = ListQueries
         /\ Ask(q, page).owed = q.owed /\ Ask(q, page).pc = "query"
         /\ Ask(q, page).op = q.op /\ Ask(q, page).user = q.user
         /\ Ask(q, page).status = q.status
         /\ Ask(q, page).recipient = q.recipient
         /\ Ask(q, page).page = page /\ Ask(q, page).limit = q.limit
         /\ Ask(q, page).touched = {} /\ Ask(q, page).counted = {}
  BY DEF Ask, Reading, Ids

\* The next page begins behind the one that was full.
LEMMA NextPageStep ==
  ASSUME TransInv, NEW c \in Readers, NextPage(c)
  PROVE  TransInv'
<1> DEFINE q == reader[c]
           p == Ask(q, q.page + 1)
<1>1. q \in Reading /\ Shape(q) /\ WalkInv(q, rows)
  BY ReaderFacts
<1>2. /\ q.op = "list" /\ q.pc = "query" /\ q.todo = {} /\ Put(c, p)
  BY DEF NextPage
<1>3. /\ p \in Reading /\ p.todo = ListQueries /\ p.owed = q.owed
      /\ p.pc = "query" /\ p.op = "list" /\ p.user = q.user
      /\ p.status = q.status /\ p.recipient = q.recipient
      /\ p.page = q.page + 1 /\ p.limit = q.limit /\ p.touched = {}
      /\ p.counted = {}
  <2>1. q.page + 1 \in Int
    BY <1>1 DEF Reading
  <2>2. QED
    BY <1>1, <1>2, <2>1, AskFields
<1> HIDE DEF p
<1>4. Listed(p, rows) = Listed(q, rows)
      /\ \A x : Newer(p, rows, x) = Newer(q, rows, x)
  BY <1>3 DEF Listed, Newer
<1>5. Skip(p.page, p.limit) = q.page * Take(q.limit)
  <2>1. q.page \in Int /\ Take(q.limit) \in Int
    BY <1>1, TakeFacts DEF Reading
  <2>2. QED
    BY <1>3, <2>1 DEF Skip
<1>6. WalkInv(p, rows)
  BY <1>1, <1>2, <1>3, <1>4, <1>5 DEF WalkInv, ListQueries
<1>7. p.owed # {} => p.page >= 1 /\ p.limit > 0
  BY <1>1, <1>3 DEF Shape, Reading
<1>8. QED
  BY <1>2, <1>3, <1>6, <1>7, FreshGood, PutSafe

-----------------------------------------------------------------------------
(* Statistics.                                                             *)

\* A record of statistics whose todo is t, knowing what StatsInv demands.
LEMMA StatsGood ==
  ASSUME NEW q \in Reading, q.op = "stats", q.pc = "query",
         q.todo \subseteq StatsQueries, q.status = None, q.recipient = None,
         q.owed = {}, IsFiniteSet(q.touched), IsFiniteSet(q.counted),
         StatsInv(q, rows)
  PROVE  Good(q, rows)
  BY DEF Good, Shape, WalkInv, PageInv

LEMMA SendersListed ==
  ASSUME NEW q, q.status = None, q.recipient = None
  PROVE  Listed(q, rows) = Mine(q.user)
  BY DEF Listed, Mine

LEMMA BeginStatsStep ==
  ASSUME TransInv, NEW c \in Readers, BeginStats(c)
  PROVE  TransInv'
<1>1. PICK u \in Users :
        Put(c, [Away EXCEPT !.pc = "query", !.op = "stats", !.user = u,
                            !.todo = StatsQueries])
  BY DEF BeginStats
<1> DEFINE q == [Away EXCEPT !.pc = "query", !.op = "stats", !.user = u,
                             !.todo = StatsQueries]
<1>2. q \in Reading
  BY AwayGood DEF Reading
<1>3. /\ q.op = "stats" /\ q.pc = "query" /\ q.todo = StatsQueries
      /\ q.status = None /\ q.recipient = None /\ q.owed = {}
      /\ q.touched = {} /\ q.counted = {}
  BY DEF Away
<1> HIDE DEF q
<1>4. StatsInv(q, rows)
  BY <1>3 DEF StatsInv, StatsQueries
<1>5. Good(q, rows)
  BY <1>2, <1>3, <1>4, StatsGood, FS_EmptySet
<1>6. QED
  BY <1>1, <1>2, <1>5, PutSafe DEF q

LEMMA StatsStep ==
  ASSUME TransInv, NEW c \in Readers, CountAll(c) \/ Sum(c) \/ CountPending(c)
  PROVE  TransInv'
<1> DEFINE q == reader[c]
           M == Mine(q.user)
           pending == {x \in M : x.status = "pending"}
<1>1. /\ q \in Reading /\ Shape(q) /\ StatsInv(q, rows) /\ Table(rows)
  BY ReaderFacts
<1>2. q.todo # {}
  BY DEF CountAll, Sum, CountPending
<1>3. q.pc = "query" /\ q.op = "stats"
  BY <1>1 DEF CountAll, Sum, CountPending, Shape, ListQueries, Reading
<1>4. /\ q.status = None /\ q.recipient = None /\ q.owed = {}
      /\ q.todo \subseteq StatsQueries
      /\ IsFiniteSet(q.touched) /\ IsFiniteSet(q.counted)
  BY <1>1, <1>3 DEF Shape
<1>5. Listed(q, rows) = M
  BY <1>4, SendersListed
<1>6. /\ IsFiniteSet(IdsOf(M)) /\ IdsOf(M) \subseteq Nat
      /\ IdsOf(Sent(q.user)) \subseteq IdsOf(M)
      /\ IdsOf(pending) \subseteq IdsOf(M)
  BY <1>1, IdsCount DEF Mine, Sent, IdsOf
<1>7. /\ \A x \in M : x.status = "pending" =>
           x.id \in IdsOf(Sent(q.user)) /\ x.id \in IdsOf(pending)
      /\ \A x \in M : x.id \in IdsOf(pending) => x.status = "pending"
      /\ \A n \in IdsOf(M) : \E x \in M : x.id = n
      /\ \A x \in M : x.id \in IdsOf(M)
  BY <1>1 DEF Sent, IdsOf, Mine, Table
<1>8. /\ "count" \notin q.todo => IdsOf(M) \ q.touched \subseteq q.counted
      /\ "sum" \notin q.todo => q.sent \subseteq IdsOf(M)
      /\ "pending" \notin q.todo => q.pending \subseteq IdsOf(M)
      /\ \A x \in M : x.id \notin q.touched =>
           /\ "sum" \notin q.todo /\ x.status = "pending" => x.id \in q.sent
           /\ "pending" \notin q.todo /\ x.id \in q.pending =>
                x.status = "pending"
      /\ q.todo \subseteq {"pending"} => q.sent \ q.touched \subseteq q.counted
      /\ q.todo \subseteq {"count"} => q.pending \ q.touched \subseteq q.sent
  BY <1>1, <1>2, <1>3, <1>5 DEF StatsInv
<1> DEFINE Known(p) ==
             /\ p.todo # {} /\ "count" \notin p.todo =>
                  IdsOf(M) \ p.touched \subseteq p.counted
             /\ "sum" \notin p.todo => p.sent \subseteq IdsOf(M)
             /\ "pending" \notin p.todo => p.pending \subseteq IdsOf(M)
             /\ p.todo # {} => \A x \in M : x.id \notin p.touched =>
                  /\ "sum" \notin p.todo /\ x.status = "pending" => x.id \in p.sent
                  /\ "pending" \notin p.todo /\ x.id \in p.pending =>
                       x.status = "pending"
             /\ p.todo \subseteq {"pending"} => p.sent \ p.touched \subseteq p.counted
             /\ p.todo \subseteq {"count"} => p.pending \ p.touched \subseteq p.sent
<1>9. ASSUME NEW p \in Reading, Put(c, p), p.op = "stats", p.pc = "query",
             p.todo \subseteq StatsQueries, p.status = None,
             p.recipient = None, p.owed = {}, p.user = q.user,
             p.touched = q.touched, IsFiniteSet(p.counted), Known(p)
      PROVE  TransInv'
  <2>1. Listed(p, rows) = M
    BY <1>9, SendersListed
  <2>2. StatsInv(p, rows)
    BY <1>9, <2>1 DEF StatsInv
  <2>3. QED
    BY <1>4, <1>9, <2>2, StatsGood, PutSafe
<1> HIDE DEF M, pending
<1>10. CASE CountAll(c)
  <2> DEFINE p == [q EXCEPT !.todo = @ \ {"count"}, !.counted = IdsOf(M)]
  <2>1. Put(c, p) /\ "count" \in q.todo
    BY <1>10 DEF CountAll, M
  <2>2. /\ p \in Reading /\ p.todo = q.todo \ {"count"} /\ p.pc = q.pc
        /\ p.op = q.op /\ p.user = q.user /\ p.status = q.status
        /\ p.recipient = q.recipient /\ p.touched = q.touched
        /\ p.owed = q.owed /\ p.counted = IdsOf(M)
        /\ p.sent = q.sent /\ p.pending = q.pending
    BY <1>1, <1>6 DEF Reading, Ids
  <2> HIDE DEF p, q
  <2>3. Known(p)
    BY <1>8, <2>1, <2>2
  <2>4. QED
    BY <1>3, <1>4, <1>6, <1>9, <2>1, <2>2, <2>3
<1>11. CASE Sum(c)
  <2> DEFINE p == [q EXCEPT !.todo = @ \ {"sum"}, !.sent = IdsOf(Sent(q.user))]
  <2>1. Put(c, p) /\ "sum" \in q.todo
    BY <1>11 DEF Sum
  <2>2. /\ p \in Reading /\ p.todo = q.todo \ {"sum"} /\ p.pc = q.pc
        /\ p.op = q.op /\ p.user = q.user /\ p.status = q.status
        /\ p.recipient = q.recipient /\ p.touched = q.touched
        /\ p.owed = q.owed /\ p.counted = q.counted
        /\ p.sent = IdsOf(Sent(q.user)) /\ p.pending = q.pending
    BY <1>1, <1>6 DEF Reading, Ids
  <2> HIDE DEF p, q
  <2>3. Known(p)
    BY <1>6, <1>7, <1>8, <2>1, <2>2
  <2>4. QED
    BY <1>3, <1>4, <1>9, <2>1, <2>2, <2>3
<1>12. CASE CountPending(c)
  <2> DEFINE p == [q EXCEPT !.todo = @ \ {"pending"}, !.pending = IdsOf(pending)]
  <2>1. Put(c, p) /\ "pending" \in q.todo
    BY <1>12 DEF CountPending, pending, M
  <2>2. /\ p \in Reading /\ p.todo = q.todo \ {"pending"} /\ p.pc = q.pc
        /\ p.op = q.op /\ p.user = q.user /\ p.status = q.status
        /\ p.recipient = q.recipient /\ p.touched = q.touched
        /\ p.owed = q.owed /\ p.counted = q.counted
        /\ p.sent = q.sent /\ p.pending = IdsOf(pending)
    BY <1>1, <1>6 DEF Reading, Ids
  <2> HIDE DEF p, q
  <2>3. Known(p)
    BY <1>6, <1>7, <1>8, <2>1, <2>2
  <2>4. QED
    BY <1>3, <1>4, <1>9, <2>1, <2>2, <2>3
<1>13. QED
  BY <1>10, <1>11, <1>12

-----------------------------------------------------------------------------
(* The theorems.                                                           *)

LEMMA InitInv == Init => TransInv
<1> SUFFICES ASSUME Init PROVE TransInv
  OBVIOUS
<1>1. Free \in Creation /\ Free.pc = "idle"
  BY DEF Free, Creation
<1>2. TableInv
  BY <1>1, AwayGood, FS_EmptySet DEF Init, TableInv, TypeOK, Table
<1>3. QED
  BY <1>2, AwayGood DEF Init, TransInv

LEMMA QuietStep ==
  ASSUME TransInv, (\E r \in Writers : BeginCreate(r) \/ Abort(r)) \/ Tick
  PROVE  TransInv'
<1>a. /\ now \in Nat /\ req \in [Writers -> Creation]
      /\ \A w \in Writers : req[w].pc = "insert" =>
           req[w].user \in Users /\ req[w].recipient \in Keys
  BY DEF TransInv, TableInv, TypeOK
<1>1. CASE Tick
  BY <1>a, <1>1 DEF Tick, TransInv, TableInv, TypeOK
<1>2. ASSUME NEW r \in Writers, NEW q \in Creation,
             q.pc = "insert" => q.user \in Users /\ q.recipient \in Keys,
             req' = [req EXCEPT ![r] = q],
             UNCHANGED <<now, rows, nextId, reader>>
      PROVE  TransInv'
  <2>1. /\ req' \in [Writers -> Creation]
        /\ \A w \in Writers : req'[w].pc = "insert" =>
             req'[w].user \in Users /\ req'[w].recipient \in Keys
    BY <1>a, <1>2
  <2>2. QED
    BY <1>2, <2>1 DEF TransInv, TableInv, TypeOK
<1>3. ASSUME NEW r \in Writers, BeginCreate(r) PROVE TransInv'
  <2>1. PICK u \in Users, k \in Keys :
          req' = [req EXCEPT ![r] =
                    [pc |-> "insert", user |-> u, recipient |-> k, at |-> now]]
    BY <1>3 DEF BeginCreate
  <2>2. [pc |-> "insert", user |-> u, recipient |-> k, at |-> now] \in Creation
    BY <1>a DEF Creation
  <2>3. QED
    BY <1>2, <1>3, <2>1, <2>2 DEF BeginCreate
<1>4. ASSUME NEW r \in Writers, Abort(r) PROVE TransInv'
  <2>1. Free \in Creation /\ Free.pc = "idle"
    BY DEF Free, Creation
  <2>2. QED
    BY <1>2, <1>4, <2>1 DEF Abort
<1>5. QED
  BY <1>1, <1>3, <1>4

LEMMA NextInv == TransInv /\ [Next]_vars => TransInv'
<1> SUFFICES ASSUME TransInv, [Next]_vars PROVE TransInv'
  OBVIOUS
<1>1. CASE UNCHANGED vars
  BY <1>1 DEF vars, TransInv, TableInv, TypeOK
<1>2. ASSUME NEW r \in Writers, Write(r) PROVE TransInv'
  BY <1>2, QuietStep, InsertStep DEF Write
<1>3. ASSUME NEW c \in Readers, List(c) \/ Stats(c) \/ Leave(c) PROVE TransInv'
  BY <1>3, BeginSteps, FindManyStep, CountStep, NextPageStep,
     BeginStatsStep, StatsStep DEF List, Stats
<1>4. QED
  BY <1>1, <1>2, <1>3, UpdateStep, QuietStep DEF Next

LEMMA Invariant == Spec => []TransInv
  BY InitInv, NextInv, PTL DEF Spec

\* Every variable keeps its type.
THEOREM TransactionTypes == Spec => []TypeOK
  BY Invariant, PTL DEF TransInv, TableInv

\* A walk over the pages of a listing ends having seen every row that was
\* there from the start (findAll, findByWallet, getTransactions).
THEOREM WalksComplete == Spec => []WalkComplete
<1>1. TransInv => WalkComplete
  <2> SUFFICES ASSUME TransInv, NEW c \in Readers, Answered(c, "list"),
                      Cardinality(reader[c].data) < Take(reader[c].limit),
                      NEW x \in rows, Lone(x), x.id \in reader[c].owed
               PROVE  FALSE
    BY DEF WalkComplete
  <2>1. reader[c] \in Reading /\ WalkInv(reader[c], rows)
    BY ReaderFacts
  <2>2. Cardinality(reader[c].data) = Take(reader[c].limit)
    BY <2>1 DEF WalkInv, Answered, Lone, LoneIn
  <2>3. Take(reader[c].limit) \in Int
    BY <2>1, TakeFacts DEF Reading
  <2>4. QED
    BY <2>2, <2>3
<1>2. QED
  BY <1>1, Invariant, PTL

LEMMA FewerThan ==
  ASSUME NEW R, NEW S, NEW D, IsFiniteSet(R), IsFiniteSet(S), IsFiniteSet(D),
         R \ D \subseteq S
  PROVE  Cardinality(R) <= Cardinality(S) + Cardinality(D)
<1>1. IsFiniteSet(S \cup D) /\ R \subseteq S \cup D
  BY FS_Union
<1>2. Cardinality(R) <= Cardinality(S \cup D)
  BY <1>1, FS_Subset
<1>3. Cardinality(S \cup D) =
        Cardinality(S) + Cardinality(D) - Cardinality(S \cap D)
  BY FS_Union
<1>4. IsFiniteSet(S \cap D)
  BY FS_Subset
<1>5. /\ Cardinality(R) \in Nat /\ Cardinality(S) \in Nat
      /\ Cardinality(D) \in Nat /\ Cardinality(S \cap D) \in Nat
  BY <1>4, FS_CardinalityType
<1>6. Cardinality(S \cup D) <= Cardinality(S) + Cardinality(D)
  BY <1>3, <1>5
<1>7. Cardinality(S \cup D) \in Nat
  BY <1>1, FS_CardinalityType
<1>8. QED
  BY <1>2, <1>5, <1>6, <1>7

\* A page and its total differ by no more rows than came or changed between
\* their queries (findAll, findByWallet, getTransactions).
THEOREM PagesFit == Spec => []PageFitsTotal
<1>1. TransInv => PageFitsTotal
  <2> SUFFICES ASSUME TransInv, NEW c \in Readers, Answered(c, "list")
               PROVE  Size(Cardinality(reader[c].data) - Expected(reader[c]))
                        <= Cardinality(reader[c].touched)
    BY DEF PageFitsTotal
  <2> DEFINE q == reader[c]
             skip == Skip(q.page, q.limit)
             size == Size(Take(q.limit))
             m == Cardinality(q.counted)
             d == Cardinality(q.touched)
  <2>1. q \in Reading /\ Shape(q) /\ PageInv(q, rows)
    BY ReaderFacts
  <2>2. PICK S \in SUBSET Nat :
          /\ IsFiniteSet(S)
          /\ Cardinality(q.data) = Clip(q, Cardinality(S))
          /\ Apart(q, S, q.counted)
    BY <2>1 DEF PageInv, Answered
  <2> DEFINE k == Cardinality(S)
  <2>3. IsFiniteSet(q.counted) /\ IsFiniteSet(q.touched)
    BY <2>1 DEF Shape
  <2>4. k <= m + d /\ m <= k + d
    BY <2>2, <2>3, FewerThan DEF Apart
  <2>5. k \in Nat /\ m \in Nat /\ d \in Nat
    BY <2>2, <2>3, FS_CardinalityType
  <2>6. skip \in Int /\ size \in Nat
    BY <2>1, TakeFacts DEF Reading, Size
  <2>7. Expected(q) = Clip(q, m)
    BY DEF Expected, Clip
  <2> HIDE DEF k, m, d, skip, size, q
  <2> DEFINE clip(n) == CASE n - skip < 0 -> 0
                          [] n - skip > size -> size
                          [] OTHER -> n - skip
  <2>8. clip(k) \in Int /\ clip(m) \in Int
    BY <2>5, <2>6
  <2>9. clip(k) - clip(m) <= d /\ clip(m) - clip(k) <= d
    BY <2>4, <2>5, <2>6
  <2>10. Cardinality(q.data) = clip(k) /\ Expected(q) = clip(m)
    BY <2>2, <2>7 DEF Clip, skip, size, k
  <2> HIDE DEF clip
  <2>11. Size(clip(k) - clip(m)) <= d
    BY <2>8, <2>9, <2>5 DEF Size
  <2>12. QED
    BY <2>10, <2>11 DEF q, d
<1>2. QED
  BY <1>1, Invariant, PTL

\* Statistics contradict each other about rows only that came or changed
\* while they were read (getStats).
THEOREM StatisticsAgree == Spec => []StatsAgree
<1>1. TransInv => StatsAgree
  <2> SUFFICES ASSUME TransInv, NEW c \in Readers, Answered(c, "stats")
               PROVE  /\ reader[c].pending \ reader[c].touched \subseteq reader[c].sent
                      /\ reader[c].sent \ reader[c].touched \subseteq reader[c].counted
    BY DEF StatsAgree
  <2>1. StatsInv(reader[c], rows)
    BY ReaderFacts
  <2>2. QED
    BY <2>1 DEF StatsInv, Answered
<1>2. QED
  BY <1>1, Invariant, PTL

-----------------------------------------------------------------------------
(* The pages of one table.                                                 *)

\* A row with a createdAt of its own comes among the first n exactly if
\* fewer than n are newer.
LEMMA LeadingRow ==
  ASSUME NEW T, Table(T), NEW L \in SUBSET T, NEW n \in Nat,
         NEW A \in Leading(L, n, 1), NEW x \in L, LoneIn(x, L)
  PROVE  x \in A <=> Cardinality({y \in L : y.createdAt > x.createdAt}) < n
<1> DEFINE N == {y \in L : y.createdAt > x.createdAt}
<1>1. /\ A \subseteq L /\ N \subseteq L
      /\ Cardinality(A) = IF n < Cardinality(L) THEN n ELSE Cardinality(L)
      /\ \A v \in A, y \in L \ A : y.createdAt * 1 <= v.createdAt * 1
  BY DEF Leading
<1>2. /\ IsFiniteSet(L) /\ IsFiniteSet(A) /\ IsFiniteSet(N)
      /\ Cardinality(L) \in Nat /\ Cardinality(A) \in Nat
      /\ Cardinality(N) \in Nat
  BY <1>1, FS_Subset, FS_CardinalityType DEF Table
<1>3. \A y \in L : y.createdAt \in Nat
  BY TableFacts
<1>4. \A y \in N : y \in L /\ y.createdAt > x.createdAt
  OBVIOUS
<1>5. \A y \in L : y.createdAt > x.createdAt => y \in N
  OBVIOUS
<1> HIDE DEF N
<1>6. ASSUME x \in A PROVE Cardinality(N) < n
  <2>1. N \subseteq A /\ x \notin N
    BY <1>1, <1>3, <1>4, <1>6
  <2>2. Cardinality(N \cup {x}) = Cardinality(N) + 1
    BY <1>2, <2>1, FS_AddElement
  <2>3. Cardinality(N \cup {x}) <= Cardinality(A)
    BY <1>2, <1>6, <2>1, FS_Subset
  <2>4. QED
    BY <1>1, <1>2, <2>2, <2>3
<1>7. ASSUME x \notin A PROVE Cardinality(N) >= n
  <2>1. A \subseteq N
    BY <1>1, <1>3, <1>5, <1>7 DEF LoneIn
  <2>2. Cardinality(A) <= Cardinality(N)
    BY <1>2, <2>1, FS_Subset
  <2>3. Cardinality(A) # Cardinality(L)
    BY <1>1, <1>2, <1>7, FS_Subset
  <2>4. QED
    BY <1>1, <1>2, <2>2, <2>3
<1>8. QED
  BY <1>2, <1>6, <1>7 DEF N

\* A row with a createdAt of its own is on a page exactly if the rows newer
\* than it fill the pages before and not this one (findByUser,
\* getWalletTransactions).
THEOREM PageOfRow ==
  ASSUME NEW T, Table(T), NEW q \in Reading, q.page >= 1, q.limit > 0,
         NEW P \in Cut(Listed(q, T), Skip(q.page, q.limit), Take(q.limit)),
         NEW x \in Listed(q, T), LoneIn(x, Listed(q, T))
  PROVE  x \in P <=>
           /\ (q.page - 1) * Take(q.limit) <= Cardinality(Newer(q, T, x))
           /\ Cardinality(Newer(q, T, x)) < q.page * Take(q.limit)
<1> DEFINE L == Listed(q, T)
           N == {y \in L : y.createdAt > x.createdAt}
           take == Take(q.limit)
           skip == Skip(q.page, q.limit)
<1>1. /\ take \in Nat \ {0} /\ q.page - 1 \in Nat
      /\ skip = (q.page - 1) * take
  BY TakeFacts DEF Reading, Skip
<1>2. skip \in Nat /\ skip + take = q.page * take
  <2>1. \A i \in Nat, k \in Nat : i * k \in Nat /\ i * k + k = (i + 1) * k
    OBVIOUS
  <2>2. q.page = (q.page - 1) + 1
    BY DEF Reading
  <2> HIDE DEF take, skip
  <2>3. QED
    BY <1>1, <2>1, <2>2
<1>3. L \subseteq T /\ x \in L /\ LoneIn(x, L) /\ N = Newer(q, T, x)
  BY DEF Listed, Newer
<1>4. P \in Cut(L, skip, take)
  OBVIOUS
<1>5. Cardinality(N) \in Nat
  BY ListedFacts, FS_Subset, FS_CardinalityType
<1> HIDE DEF L, N, take, skip
<1>6. PICK A \in Leading(L, skip, 1), B \in Leading(L, skip + take, 1) :
        A \subseteq B /\ P = B \ A
  <2>1. ~(take < 0) /\ Size(take) = take
    BY <1>1 DEF Size
  <2>2. QED
    BY <1>4, <2>1 DEF Cut
<1>7. x \in A <=> Cardinality(N) < skip
  BY <1>2, <1>3, <1>6, LeadingRow DEF N
<1>8. x \in B <=> Cardinality(N) < skip + take
  <2>1. skip + take \in Nat
    BY <1>1, <1>2
  <2>2. QED
    BY <1>3, <1>6, <2>1, LeadingRow DEF N
<1>9. x \in P <=> skip <= Cardinality(N) /\ Cardinality(N) < q.page * take
  BY <1>2, <1>5, <1>6, <1>7, <1>8
<1>10. QED
  BY <1>1, <1>3, <1>9 DEF take

\* No such row is on two pages of one table, whatever the database does with
\* rows of one moment (findByUser, getWalletTransactions).
THEOREM OnOnePage ==
  ASSUME NEW T, Table(T), NEW q \in Reading, NEW p \in Reading,
         q.limit > 0, p.limit = q.limit, q.page >= 1, p.page >= 1,
         Listed(p, T) = Listed(q, T),
         NEW P \in Cut(Listed(p, T), Skip(p.page, p.limit), Take(p.limit)),
         NEW Q \in Cut(Listed(q, T), Skip(q.page, q.limit), Take(q.limit)),
         NEW x \in P \cap Q, LoneIn(x, Listed(q, T))
  PROVE  p.page = q.page
<1> DEFINE n == Cardinality(Newer(q, T, x))
           take == Take(q.limit)
<1>1. x \in Listed(q, T)
  <2>1. Skip(q.page, q.limit) >= 0
    BY TakeFacts DEF Reading, Skip
  <2>2. QED
    BY <2>1, CutSize, ListedFacts
<1>2. Newer(p, T, x) = Newer(q, T, x)
  BY DEF Newer
<1>3. /\ (q.page - 1) * take <= n /\ n < q.page * take
      /\ (p.page - 1) * take <= n /\ n < p.page * take
  BY <1>1, <1>2, PageOfRow
<1>4. n \in Nat /\ take \in Nat \ {0} /\ q.page \in Nat /\ p.page \in Nat
  <2>1. Newer(q, T, x) \subseteq Listed(q, T)
    BY DEF Newer
  <2>2. n \in Nat
    BY <2>1, ListedFacts, FS_Subset, FS_CardinalityType
  <2>3. take \in Nat \ {0} /\ q.page \in Nat /\ p.page \in Nat
    <3>1. q.limit \in Int /\ q.page \in Int /\ p.page \in Int
      BY DEF Reading
    <3>2. take \in Int /\ take > 0
      BY <3>1, TakeFacts
    <3>3. QED
      BY <3>1, <3>2
  <2>4. QED
    BY <2>2, <2>3
<1> HIDE DEF n, take
<1>5. \A i, j \in Nat : i <= j => i * take <= j * take
  BY <1>4
<1>6. ~(p.page <= q.page - 1) /\ ~(q.page <= p.page - 1)
  <2>1. (q.page - 1) * take \in Int /\ p.page * take \in Int
        /\ (p.page - 1) * take \in Int /\ q.page * take \in Int
    BY <1>4
  <2>2. q.page - 1 \in Nat /\ p.page - 1 \in Nat
    BY <1>4
  <2>3. QED
    BY <1>3, <1>4, <1>5, <2>1, <2>2
<1>7. QED
  BY <1>4, <1>6
=============================================================================
