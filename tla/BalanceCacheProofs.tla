-------------------------- MODULE BalanceCacheProofs --------------------------
(***************************************************************************)
(* Theorems about the cache of balances, for every size, lifetime, latency *)
(* and number of accounts and calls.                                       *)
(***************************************************************************)
EXTENDS BalanceCache, TLAPS

\* An entry expires no later than its balance, the latency and the lifetime
\* allow, and no balance handed out for its key is newer by more than the
\* latency.
EntryInv ==
    \A i \in DOMAIN balanceCache :
      /\ balanceCache[i].expiresAt <= balanceCache[i].data + Latency + TTL
      /\ newest[balanceCache[i].key] <= balanceCache[i].data + Latency

\* A call in progress has not waited too long, and what Horizon answers it
\* was read after it asked.
CallInv ==
    \A r \in Requests : Waiting(r) =>
      /\ req[r].key \in Accounts
      /\ req[r].asked <= now /\ now <= req[r].asked + Latency
      /\ req[r].pc = "answered" =>
           req[r].asked <= req[r].data /\ req[r].data <= now

PastInv == \A k \in Accounts : newest[k] <= now

\* No entry is of the future.
DataInv == \A i \in DOMAIN balanceCache : balanceCache[i].data <= now

CacheInv == TypeOK /\ CacheOK /\ EntryInv /\ CallInv /\ PastInv /\ DataInv

-----------------------------------------------------------------------------
(* The Map.                                                                *)

Unique(c) == \A i, j \in DOMAIN c : c[i].key = c[j].key => i = j

\* Evicting leaves room for an entry, and entries of the Map only.
LEMMA EvictedSafe ==
  ASSUME balanceCache \in Seq(Entry), CacheOK
  PROVE  /\ Evicted \in Seq(Entry)
         /\ Len(Evicted) < MaxSize
         /\ Unique(Evicted)
         /\ \A i \in DOMAIN Evicted :
              \E j \in DOMAIN balanceCache : Evicted[i] = balanceCache[j]
<1>1. CASE Len(balanceCache) >= MaxSize
  <2>1. Evicted = Tail(balanceCache) /\ balanceCache # <<>>
    BY <1>1, SizeAssumption DEF Evicted
  <2>2. /\ Evicted \in Seq(Entry)
        /\ Len(Evicted) = Len(balanceCache) - 1
        /\ \A i \in DOMAIN Evicted :
             i + 1 \in DOMAIN balanceCache /\ Evicted[i] = balanceCache[i + 1]
    BY <2>1
  <2>3. Unique(Evicted)
    <3>1. \A i \in DOMAIN Evicted : i \in Nat
      BY <2>2
    <3>2. QED
      BY <2>2, <3>1 DEF CacheOK, Unique
  <2>4. QED
    BY <2>2, <2>3, SizeAssumption DEF CacheOK
<1>2. CASE ~(Len(balanceCache) >= MaxSize)
  BY <1>2, SizeAssumption DEF Evicted, CacheOK, Unique
<1>3. QED
  BY <1>1, <1>2

\* Setting an entry in a Map with room for one keeps the keys apart, and
\* every other key keeps the entry it had.
LEMMA SetSafe ==
  ASSUME NEW c \in Seq(Entry), NEW e \in Entry, Unique(c), Len(c) < MaxSize
  PROVE  /\ Set(c, e) \in Seq(Entry)
         /\ Len(Set(c, e)) <= MaxSize
         /\ Unique(Set(c, e))
         /\ \A i \in DOMAIN Set(c, e) :
              \/ Set(c, e)[i] = e
              \/ /\ Set(c, e)[i].key # e.key
                 /\ \E j \in DOMAIN c : Set(c, e)[i] = c[j]
<1> DEFINE s == Set(c, e)
<1>1. CASE Places(e.key, c) = {}
  <2>1. s = Append(c, e)
    BY <1>1 DEF Set
  <2>2. /\ s \in Seq(Entry) /\ Len(s) = Len(c) + 1
        /\ DOMAIN s = 1 .. Len(c) + 1 /\ DOMAIN c = 1 .. Len(c)
        /\ s[Len(c) + 1] = e /\ \A i \in DOMAIN c : s[i] = c[i]
    BY <2>1
  <2>3. \A i \in DOMAIN c : c[i].key # e.key
    BY <1>1 DEF Places
  <2>4. \A i \in DOMAIN s : i \in DOMAIN c \/ i = Len(c) + 1
    BY <2>2
  <2>5. Unique(s)
    BY <2>2, <2>3, <2>4 DEF Unique
  <2>6. QED
    BY <2>2, <2>3, <2>4, <2>5, SizeAssumption
<1>2. CASE Places(e.key, c) # {}
  <2>1. s = [i \in DOMAIN c |-> IF c[i].key = e.key THEN e ELSE c[i]]
    BY <1>2 DEF Set
  <2>2. /\ s \in Seq(Entry) /\ Len(s) = Len(c) /\ DOMAIN s = DOMAIN c
    BY <2>1
  <2>3. \A i \in DOMAIN s : s[i].key = c[i].key
    BY <2>1
  <2>4. Unique(s)
    BY <2>2, <2>3 DEF Unique
  <2>5. \A i \in DOMAIN s :
          s[i] = e \/ (s[i].key # e.key /\ \E j \in DOMAIN c : s[i] = c[j])
    BY <2>1
  <2>6. QED
    BY <2>2, <2>4, <2>5, SizeAssumption
<1>3. QED
  BY <1>1, <1>2

-----------------------------------------------------------------------------
(* The invariant.                                                          *)

LEMMA InitInv == Init => CacheInv
<1> SUFFICES ASSUME Init PROVE CacheInv
  OBVIOUS
<1>1. TypeOK
  BY NoneAssumption DEF Init, TypeOK, Entry, Call, Idle
<1>2. CacheOK /\ EntryInv /\ DataInv
  BY SizeAssumption DEF Init, CacheOK, EntryInv, DataInv
<1>3. CallInv /\ PastInv
  BY DEF Init, CallInv, PastInv, Waiting, Idle
<1>4. QED
  BY <1>1, <1>2, <1>3 DEF CacheInv

\* A slot whose call is over waits for nothing.
Done(k, d) == [Idle EXCEPT !.pc = "done", !.key = k, !.data = d]
Failed == [Idle EXCEPT !.pc = "done", !.failed = TRUE]

LEMMA DoneCall ==
  ASSUME NEW k \in Accounts, NEW d \in Nat
  PROVE  /\ Done(k, d) \in Call /\ Done(k, d).pc = "done"
         /\ Done(k, d).key = k /\ Done(k, d).data = d
         /\ Done(k, d).failed = FALSE
  BY DEF Done, Idle, Call

LEMMA OtherCalls ==
  /\ Idle \in Call /\ Idle.pc = "idle"
  /\ Failed \in Call /\ Failed.pc = "done" /\ Failed.failed = TRUE
  BY DEF Failed, Idle, Call

\* Answering with a balance that is in the past.
LEMMA AnsweredSafe ==
  ASSUME CacheInv, NEW r \in Requests, NEW k \in Accounts, NEW d \in Nat,
         d <= now, Answered(r, k, d), UNCHANGED now
  PROVE  /\ req' \in [Requests -> Call] /\ newest' \in [Accounts -> Nat]
         /\ CallInv' /\ PastInv'
         /\ newest'[k] = (IF newest[k] < d THEN d ELSE newest[k])
         /\ \A x \in Accounts : x # k => newest'[x] = newest[x]
<1> DEFINE q == Done(k, d)
<1>1. q \in Call /\ q.pc = "done"
  BY DoneCall
<1>2. req' = [req EXCEPT ![r] = q]
  BY DEF Answered, Done
<1> HIDE DEF q
<1>3. req' \in [Requests -> Call]
  BY <1>1, <1>2 DEF CacheInv, TypeOK
<1>4. CallInv'
  BY <1>1, <1>2 DEF CacheInv, TypeOK, CallInv, Waiting
<1>5. /\ newest' \in [Accounts -> Nat]
      /\ newest'[k] = (IF newest[k] < d THEN d ELSE newest[k])
      /\ \A x \in Accounts : x # k => newest'[x] = newest[x]
  BY DEF Answered, CacheInv, TypeOK
<1>6. PastInv'
  BY <1>5 DEF CacheInv, PastInv
<1>7. QED
  BY <1>3, <1>4, <1>5, <1>6

\* A live entry is one of the Map.
LEMMA LiveEntry ==
  ASSUME CacheInv, NEW k \in Accounts, NEW e \in Live(k)
  PROVE  /\ e \in Entry /\ e.key = k /\ e.expiresAt > now
         /\ \E i \in DOMAIN balanceCache :
              balanceCache[i] = e /\ balanceCache[i].key = k
  BY DEF CacheInv, TypeOK, Live, Places

LEMMA HitStep ==
  ASSUME CacheInv, NEW r \in Requests, Hit(r)
  PROVE  CacheInv'
<1>a. PICK k \in Accounts : \E e \in Live(k) : Answered(r, k, e.data)
  BY DEF Hit
<1>1. PICK e \in Live(k) : Answered(r, k, e.data)
  BY <1>a
<1>2. PICK j \in DOMAIN balanceCache :
        balanceCache[j] = e /\ balanceCache[j].key = k
  BY LiveEntry
<1>3. e.data \in Nat /\ e.data <= now
  BY <1>2, LiveEntry DEF CacheInv, DataInv, Entry
<1>4. UNCHANGED <<balanceCache, now>>
  BY DEF Hit
<1>5. /\ req' \in [Requests -> Call] /\ newest' \in [Accounts -> Nat]
      /\ CallInv' /\ PastInv'
      /\ newest'[k] = (IF newest[k] < e.data THEN e.data ELSE newest[k])
      /\ \A x \in Accounts : x # k => newest'[x] = newest[x]
  BY <1>1, <1>3, <1>4, AnsweredSafe
<1>6. EntryInv'
  <2> SUFFICES ASSUME NEW i \in DOMAIN balanceCache
               PROVE  newest'[balanceCache[i].key]
                        <= balanceCache[i].data + Latency
    BY <1>4 DEF CacheInv, EntryInv
  <2>1. /\ balanceCache[i] \in Entry
        /\ newest[balanceCache[i].key] <= balanceCache[i].data + Latency
    BY DEF CacheInv, TypeOK, EntryInv
  <2>2. CASE balanceCache[i].key # k
    BY <1>5, <2>1, <2>2 DEF Entry
  <2>3. CASE balanceCache[i].key = k
    <3>1. i = j
      BY <1>2, <2>3 DEF CacheInv, CacheOK
    <3>2. QED
      BY <1>2, <1>3, <1>5, <2>1, <2>3, <3>1, TimeAssumption
  <2>4. QED
    BY <2>2, <2>3
<1>7. TypeOK' /\ CacheOK' /\ DataInv'
  BY <1>4, <1>5 DEF CacheInv, TypeOK, CacheOK, DataInv
<1>8. QED
  BY <1>5, <1>6, <1>7 DEF CacheInv

LEMMA StoreStep ==
  ASSUME CacheInv, NEW r \in Requests, Store(r)
  PROVE  CacheInv'
<1> DEFINE k == req[r].key
           d == req[r].data
           e == [key |-> k, data |-> d, expiresAt |-> now + TTL]
<1>1. /\ req[r].pc = "answered" /\ Waiting(r)
      /\ balanceCache' = Set(Evicted, e)
      /\ Answered(r, k, d) /\ now' = now
  BY DEF Store, Waiting
<1>2. /\ k \in Accounts /\ d \in Nat /\ d <= now /\ now <= d + Latency
  BY <1>1, TimeAssumption DEF CacheInv, CallInv, TypeOK, Call
<1>3. e \in Entry /\ e.key = k /\ e.data = d /\ e.expiresAt = now + TTL
  BY <1>2, TimeAssumption DEF CacheInv, TypeOK, Entry
<1> HIDE DEF e
<1>4. /\ Evicted \in Seq(Entry) /\ Len(Evicted) < MaxSize /\ Unique(Evicted)
      /\ \A i \in DOMAIN Evicted :
           \E j \in DOMAIN balanceCache : Evicted[i] = balanceCache[j]
  BY EvictedSafe DEF CacheInv, TypeOK
<1>5. /\ balanceCache' \in Seq(Entry)
      /\ Len(balanceCache') <= MaxSize /\ Unique(balanceCache')
      /\ \A i \in DOMAIN balanceCache' :
           \/ balanceCache'[i] = e
           \/ /\ balanceCache'[i].key # k
              /\ \E j \in DOMAIN Evicted : balanceCache'[i] = Evicted[j]
  BY <1>1, <1>3, <1>4, SetSafe
<1>6. /\ req' \in [Requests -> Call] /\ newest' \in [Accounts -> Nat]
      /\ CallInv' /\ PastInv'
      /\ newest'[k] = (IF newest[k] < d THEN d ELSE newest[k])
      /\ \A x \in Accounts : x # k => newest'[x] = newest[x]
  BY <1>1, <1>2, AnsweredSafe
<1>7. ASSUME NEW i \in DOMAIN balanceCache'
      PROVE  /\ balanceCache'[i].data <= now
             /\ balanceCache'[i].expiresAt
                  <= balanceCache'[i].data + Latency + TTL
             /\ newest'[balanceCache'[i].key]
                  <= balanceCache'[i].data + Latency
  <2>1. CASE balanceCache'[i] = e
    <3>1. newest[k] <= now /\ newest[k] \in Nat
      BY <1>2 DEF CacheInv, PastInv, TypeOK
    <3>2. now \in Nat
      BY DEF CacheInv, TypeOK
    <3>3. newest'[k] <= d + Latency
      BY <1>2, <1>6, <3>1, <3>2, TimeAssumption
    <3>4. now + TTL <= d + Latency + TTL
      BY <1>2, <3>2, TimeAssumption
    <3>5. QED
      BY <1>2, <1>3, <2>1, <3>3, <3>4
  <2>2. CASE balanceCache'[i] # e
    <3>1. balanceCache'[i].key # k
      BY <1>5, <2>2
    <3>2. PICK j \in DOMAIN balanceCache : balanceCache'[i] = balanceCache[j]
      BY <1>4, <1>5, <2>2
    <3>3. balanceCache[j] \in Entry
      BY DEF CacheInv, TypeOK
    <3>4. newest'[balanceCache[j].key] = newest[balanceCache[j].key]
      BY <1>6, <3>1, <3>2, <3>3 DEF Entry
    <3>5. QED
      BY <3>2, <3>4 DEF CacheInv, EntryInv, DataInv
  <2>3. QED
    BY <2>1, <2>2
<1>8. EntryInv' /\ DataInv'
  BY <1>1, <1>7 DEF EntryInv, DataInv
<1>9. TypeOK' /\ CacheOK'
  BY <1>1, <1>5, <1>6 DEF CacheInv, TypeOK, CacheOK, Unique
<1>10. QED
  BY <1>6, <1>8, <1>9 DEF CacheInv

\* Steps that leave the cache and the balances alone.
LEMMA CallStep ==
  ASSUME CacheInv, NEW r \in Requests,
         Miss(r) \/ Load(r) \/ Fail(r) \/ Reply(r)
  PROVE  CacheInv'
<1>1. UNCHANGED <<balanceCache, now, newest>>
  BY DEF Miss, Load, Fail, Reply
<1>2. PICK q \in Call :
        /\ req' = [req EXCEPT ![r] = q]
        /\ q.pc \in {"asked", "answered"} =>
             /\ q.key \in Accounts
             /\ q.asked <= now /\ now <= q.asked + Latency
             /\ q.pc = "answered" => q.asked <= q.data /\ q.data <= now
  <2>1. CASE Miss(r)
    <3>1. PICK k \in Accounts :
            req' = [req EXCEPT ![r] =
                      [Idle EXCEPT !.pc = "asked", !.key = k, !.asked = now]]
      BY <2>1 DEF Miss
    <3> DEFINE q == [Idle EXCEPT !.pc = "asked", !.key = k, !.asked = now]
    <3>2. q \in Call /\ q.pc = "asked" /\ q.key = k /\ q.asked = now
      BY DEF CacheInv, TypeOK, Call, Idle
    <3>3. q.asked <= now /\ now <= q.asked + Latency
      BY <3>2, TimeAssumption DEF CacheInv, TypeOK
    <3>4. QED
      BY <3>1, <3>2, <3>3
  <2>2. CASE Load(r)
    <3> DEFINE q == [req[r] EXCEPT !.pc = "answered", !.data = now]
    <3>1. req[r] \in Call /\ now \in Nat /\ Waiting(r)
      BY <2>2 DEF CacheInv, TypeOK, Load, Waiting
    <3>2. /\ q \in Call /\ q.pc = "answered" /\ q.key = req[r].key
          /\ q.asked = req[r].asked /\ q.data = now
      BY <3>1 DEF Call
    <3>3. req' = [req EXCEPT ![r] = q]
      BY <2>2 DEF CacheInv, TypeOK, Load
    <3> HIDE DEF q
    <3>4. /\ now <= q.asked + Latency /\ q.asked <= now
          /\ q.key \in Accounts /\ q.data <= now
      BY <3>1, <3>2 DEF CacheInv, CallInv
    <3>5. QED
      BY <3>1, <3>2, <3>3, <3>4
  <2>3. CASE Fail(r) \/ Reply(r)
    BY <2>3, OtherCalls DEF Fail, Reply, Failed
  <2>4. QED
    BY <2>1, <2>2, <2>3
<1>3. TypeOK' /\ CallInv'
  BY <1>1, <1>2 DEF CacheInv, TypeOK, CallInv, Waiting
<1>4. CacheOK' /\ EntryInv' /\ PastInv' /\ DataInv'
  BY <1>1 DEF CacheInv, CacheOK, EntryInv, PastInv, DataInv
<1>5. QED
  BY <1>3, <1>4 DEF CacheInv

LEMMA TickStep ==
  ASSUME CacheInv, Tick
  PROVE  CacheInv'
<1>1. UNCHANGED <<balanceCache, req, newest>> /\ now' = now + 1 /\ now \in Nat
  BY DEF Tick, CacheInv, TypeOK
<1>2. CallInv'
  BY <1>1, TimeAssumption DEF CacheInv, TypeOK, CallInv, Waiting, Tick, Call
<1>3. PastInv' /\ DataInv'
  <2>1. \A k \in Accounts : newest[k] \in Nat /\ newest[k] <= now
    BY DEF CacheInv, TypeOK, PastInv
  <2>2. \A i \in DOMAIN balanceCache :
          balanceCache[i].data \in Nat /\ balanceCache[i].data <= now
    <3>1. \A i \in DOMAIN balanceCache : balanceCache[i] \in Entry
      BY DEF CacheInv, TypeOK
    <3>2. QED
      BY <3>1 DEF CacheInv, DataInv, Entry
  <2>3. QED
    BY <1>1, <2>1, <2>2 DEF PastInv, DataInv
<1>4. TypeOK' /\ CacheOK' /\ EntryInv'
  BY <1>1 DEF CacheInv, TypeOK, CacheOK, EntryInv
<1>5. QED
  BY <1>2, <1>3, <1>4 DEF CacheInv

LEMMA NextInv == CacheInv /\ [Next]_vars => CacheInv'
<1> SUFFICES ASSUME CacheInv, [Next]_vars PROVE CacheInv'
  OBVIOUS
<1>1. ASSUME UNCHANGED vars PROVE CacheInv'
  BY <1>1 DEF vars, CacheInv, TypeOK, CacheOK, EntryInv, CallInv, PastInv,
              DataInv, Waiting
<1>2. QED
  BY <1>1, HitStep, StoreStep, CallStep, TickStep DEF Next

LEMMA Invariant == Spec => []CacheInv
  BY InitInv, NextInv, PTL DEF Spec

-----------------------------------------------------------------------------
(* The theorems.                                                           *)

\* The cache and the calls keep their types.
THEOREM CacheTypes == Spec => []TypeOK
  BY Invariant, PTL DEF CacheInv

\* The cache keeps to its limit with one entry per key (setCacheEntry).
THEOREM CacheBounded == Spec => []CacheOK
  BY Invariant, PTL DEF CacheInv

\* Only a hit or an arriving answer of Horizon answers a call, with the data
\* of a live entry or with what Horizon has read.
LEMMA AnswersAre ==
  ASSUME CacheInv, [Next]_vars, NEW r \in Requests, Answer(r)
  PROVE  /\ req'[r].key \in Accounts /\ req'[r].data \in Nat
         /\ \/ \E i \in DOMAIN balanceCache :
                 /\ balanceCache[i].key = req'[r].key
                 /\ balanceCache[i].data = req'[r].data
                 /\ balanceCache[i].expiresAt > now
            \/ now <= req'[r].data + Latency
<1>1. PICK x \in Requests : Hit(x) \/ Store(x)
  <2>1. ~UNCHANGED vars /\ ~Tick
    BY DEF Answer, vars, Tick
  <2>2. ASSUME NEW x \in Requests, Miss(x) \/ Load(x) \/ Fail(x) \/ Reply(x)
        PROVE  FALSE
    <3>1. x = r
      BY <2>2 DEF Miss, Load, Fail, Reply, Answer, CacheInv, TypeOK
    <3>2. CASE Miss(x) \/ Load(x)
      BY <3>1, <3>2 DEF Miss, Load, Answer, CacheInv, TypeOK, Call, Idle
    <3>3. CASE Fail(x) \/ Reply(x)
      <4>1. req'[r] = Failed \/ req'[r] = Idle
        BY <3>1, <3>3 DEF Fail, Reply, Failed, CacheInv, TypeOK
      <4>2. QED
        BY <4>1, OtherCalls DEF Answer
    <3>4. QED
      BY <2>2, <3>2, <3>3
  <2>3. QED
    BY <2>1, <2>2 DEF Next
<1>2. CASE Hit(x)
  <2>1. PICK k \in Accounts : \E e \in Live(k) : Answered(x, k, e.data)
    BY <1>2 DEF Hit
  <2>2. PICK e \in Live(k) : Answered(x, k, e.data)
    BY <2>1
  <2>3. PICK i \in DOMAIN balanceCache :
          balanceCache[i] = e /\ balanceCache[i].key = k
    BY LiveEntry
  <2>4. e \in Entry /\ e.expiresAt > now
    BY LiveEntry
  <2>5. x = r
    BY <2>2 DEF Answered, Answer, CacheInv, TypeOK
  <2>a. req'[r] = Done(k, e.data)
    BY <2>2, <2>5 DEF Answered, Done, CacheInv, TypeOK
  <2>6. req'[r].key = k /\ req'[r].data = e.data
    <3>1. e.data \in Nat
      BY <2>4 DEF Entry
    <3>2. Done(k, e.data).key = k /\ Done(k, e.data).data = e.data
      BY <3>1, DoneCall
    <3>3. QED
      BY <2>a, <3>2
  <2>7. QED
    BY <2>3, <2>4, <2>6 DEF Entry
<1>3. CASE Store(x)
  <2>1. Answered(x, req[x].key, req[x].data) /\ Waiting(x)
        /\ req[x].pc = "answered"
    BY <1>3 DEF Store, Waiting
  <2>2. /\ req[x].key \in Accounts /\ req[x].data \in Nat
        /\ now <= req[x].data + Latency
    BY <2>1, TimeAssumption DEF CacheInv, CallInv, TypeOK, Call
  <2>3. x = r
    BY <2>1 DEF Answered, Answer, CacheInv, TypeOK
  <2>a. req'[r] = Done(req[x].key, req[x].data)
    BY <2>1, <2>3 DEF Answered, Done, CacheInv, TypeOK
  <2>4. req'[r].key = req[x].key /\ req'[r].data = req[x].data
    <3> DEFINE k == req[x].key
               d == req[x].data
    <3>1. Done(k, d).key = k /\ Done(k, d).data = d
      BY <2>2, DoneCall
    <3>2. QED
      BY <2>a, <3>1
  <2>5. QED
    BY <2>2, <2>4
<1>4. QED
  BY <1>1, <1>2, <1>3

\* No answer is older than a lifetime and a latency (getBalances).
THEOREM AnswersFresh == Spec => FreshEnough
<1>1. CacheInv /\ [Next]_vars =>
        [\A r \in Requests :
           Answer(r) => now - req'[r].data <= TTL + Latency]_vars
  <2> SUFFICES ASSUME CacheInv, [Next]_vars, NEW r \in Requests, Answer(r)
               PROVE  now - req'[r].data <= TTL + Latency
    OBVIOUS
  <2>1. now \in Nat /\ req'[r].data \in Nat
    BY AnswersAre DEF CacheInv, TypeOK
  <2>2. CASE now <= req'[r].data + Latency
    BY <2>1, <2>2, TimeAssumption
  <2>3. CASE \E i \in DOMAIN balanceCache :
               /\ balanceCache[i].key = req'[r].key
               /\ balanceCache[i].data = req'[r].data
               /\ balanceCache[i].expiresAt > now
    <3>1. PICK i \in DOMAIN balanceCache :
            /\ balanceCache[i].data = req'[r].data
            /\ balanceCache[i].expiresAt > now
      BY <2>3
    <3>2. /\ balanceCache[i].expiresAt <= req'[r].data + Latency + TTL
          /\ balanceCache[i].expiresAt \in Nat
      <4>1. balanceCache[i] \in Entry
        BY DEF CacheInv, TypeOK
      <4>2. QED
        BY <3>1, <4>1 DEF CacheInv, EntryInv, Entry
    <3>3. QED
      BY <2>1, <3>1, <3>2, TimeAssumption
  <2>4. QED
    BY <2>2, <2>3, AnswersAre
<1>2. QED
  BY <1>1, Invariant, PTL DEF Spec, FreshEnough

\* Balances go back in time by no more than a latency (getBalances and
\* setCacheEntry, with answers of Horizon out of order).
THEOREM BackBriefly == Spec => GoesBackBriefly
<1>1. CacheInv /\ [Next]_vars =>
        [\A r \in Requests : Answer(r) =>
           newest[req'[r].key] - req'[r].data <= Latency]_vars
  <2> SUFFICES ASSUME CacheInv, [Next]_vars, NEW r \in Requests, Answer(r)
               PROVE  newest[req'[r].key] - req'[r].data <= Latency
    OBVIOUS
  <2>1. /\ req'[r].key \in Accounts /\ req'[r].data \in Nat /\ now \in Nat
        /\ newest[req'[r].key] \in Nat /\ newest[req'[r].key] <= now
    BY AnswersAre DEF CacheInv, TypeOK, PastInv
  <2>2. newest[req'[r].key] <= req'[r].data + Latency
    BY <2>1, AnswersAre, TimeAssumption DEF CacheInv, EntryInv
  <2>3. QED
    BY <2>1, <2>2, TimeAssumption
<1>2. QED
  BY <1>1, Invariant, PTL DEF Spec, GoesBackBriefly
=============================================================================
