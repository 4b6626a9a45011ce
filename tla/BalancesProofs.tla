---------------------------- MODULE BalancesProofs ----------------------------
(***************************************************************************)
(* Theorems about the balance endpoints, for any number of wallets, calls  *)
(* and totals: they use the cache as BalanceCache allows, and totals are   *)
(* coherent.                                                               *)
(***************************************************************************)
EXTENDS Balances, BalanceCacheProofs

-----------------------------------------------------------------------------
(* The endpoints use the cache as its specification allows.                *)

LEMMA TotalsStep ==
  ASSUME [TotalsNext]_allVars
  PROVE  [Next]_vars
<1>1. CASE UNCHANGED allVars
  BY <1>1 DEF allVars
<1>2. ASSUME NEW t \in Totals,
             FindWallets(t) \/ Leave(t) \/ \E r \in Requests : Lookup(t, r)
      PROVE  [Next]_vars
  BY <1>2 DEF FindWallets, Leave, Lookup, Next
<1>3. ASSUME NEW r \in Requests, LookupOne(r) \/ Arrived(r) \/ Elsewhere(r)
      PROVE  [Next]_vars
  BY <1>3 DEF LookupOne, Arrived, Elsewhere, Next
<1>4. CASE Pass
  BY <1>4 DEF Pass, Next
<1>5. QED
  BY <1>1, <1>2, <1>3, <1>4 DEF TotalsNext

\* Whatever the endpoints do, the cache does what BalanceCache says: all that
\* is proved about it holds here.
THEOREM UsesCache == TotalsSpec => Spec
<1>1. TotalsInit => Init
  BY DEF TotalsInit
<1>2. [TotalsNext]_allVars => [Next]_vars
  BY TotalsStep
<1>3. QED
  BY <1>1, <1>2, PTL DEF TotalsSpec, Spec

-----------------------------------------------------------------------------
(* The invariant: q is a total, c the calls, n the time.                   *)

\* All lookups of the total were made at moment s.
Timed(q, c, n, s) ==
    /\ s <= n /\ (q.left # {} => s = n)
    /\ \A p \in q.parts : /\ p.data <= s + Latency
                          /\ s <= p.data \/ s < p.data + TTL + Latency
    /\ \A r \in q.open : c[r].asked = s

\* Every wallet is looked up, waited for, or has its part, and only one of
\* the three.
Split(q, c) ==
    /\ \A k \in Accounts : k \in q.wallets <=>
         \/ k \in q.left
         \/ \E p \in q.parts : p.key = k
         \/ \E r \in q.open : c[r].key = k
    /\ \A p \in q.parts :
         p.key \notin q.left /\ \A r \in q.open : c[r].key # p.key
    /\ \A p, o \in q.parts : p.key = o.key => p = o
    /\ \A r, x \in q.open : c[r].key = c[x].key => r = x
    /\ \A r \in q.open : c[r].key \notin q.left

Fits(q, c, n) ==
    /\ q \in Total
    /\ q.pc # "gather" => q.left = {} /\ q.open = {}
    /\ \A r \in q.open : c[r].pc \in {"asked", "answered"}
    /\ Split(q, c)
    /\ \E s \in Nat : Timed(q, c, n, s)

TotalsInv ==
    /\ CacheInv /\ TotalsTypeOK
    /\ \A t \in Totals :
         Fits(total[t], req, now) /\ (total[t].left # {} <=> turn = t)

\* A total is as it was, and so are the calls it waits for.
LEMMA Undisturbed ==
  ASSUME NEW q, NEW c, NEW d, NEW n \in Nat, NEW m \in Nat, Fits(q, c, n),
         \A r \in q.open : /\ d[r].pc \in {"asked", "answered"}
                           /\ d[r].key = c[r].key /\ d[r].asked = c[r].asked,
         n <= m, q.left # {} => m = n
  PROVE  Fits(q, d, m)
<1>1. Split(q, d)
  BY DEF Fits, Split
<1>2. PICK s \in Nat : Timed(q, c, n, s)
  BY DEF Fits
<1>3. Timed(q, d, m, s)
  BY <1>2 DEF Timed
<1>4. QED
  BY <1>1, <1>3 DEF Fits

\* w is total q when its wallet k, which it looked up or waited for, has got
\* part x, and d are the calls then.
GetsPart(q, w, c, d, k, x) ==
    /\ w \in Total
    /\ w.pc # "gather" => w.left = {} /\ w.open = {}
    /\ w.wallets = q.wallets
    /\ w.left \subseteq q.left /\ k \notin w.left
    /\ w.open \subseteq q.open /\ \A r \in w.open : c[r].key # k /\ d[r] = c[r]
    /\ w.parts = q.parts \cup {[key |-> k, data |-> x]}
    /\ \A p \in q.parts : p.key # k
    /\ \A j \in Accounts :
         (j \in q.left \/ \E r \in q.open : c[r].key = j)
           <=> (j = k \/ j \in w.left \/ \E r \in w.open : c[r].key = j)

LEMMA PartFits ==
  ASSUME NEW q, NEW w, NEW c, NEW d, NEW n \in Nat, NEW k \in Accounts,
         NEW x \in Nat, NEW s \in Nat, Fits(q, c, n), Timed(q, c, n, s),
         x <= s + Latency, s <= x \/ s < x + TTL + Latency,
         GetsPart(q, w, c, d, k, x)
  PROVE  Fits(w, d, n)
<1> DEFINE e == [key |-> k, data |-> x]
<1>1. \A p \in w.parts : p \in q.parts \/ (p = e /\ p.key = k /\ p.data = x)
  BY DEF GetsPart
<1>2. e \in w.parts /\ e.key = k
  BY DEF GetsPart
<1>3. Timed(w, d, n, s)
  BY <1>1 DEF Timed, GetsPart
<1>4. ASSUME NEW j \in Accounts
      PROVE  j \in w.wallets <=>
               \/ j \in w.left
               \/ \E p \in w.parts : p.key = j
               \/ \E r \in w.open : d[r].key = j
  <2>1. j \in q.wallets <=>
          \/ j \in q.left
          \/ \E p \in q.parts : p.key = j
          \/ \E r \in q.open : c[r].key = j
    BY DEF Fits, Split
  <2>2. (\E p \in w.parts : p.key = j) <=> (j = k \/ \E p \in q.parts : p.key = j)
    BY <1>1, <1>2 DEF GetsPart
  <2>3. (\E r \in w.open : d[r].key = j) <=> (\E r \in w.open : c[r].key = j)
    BY DEF GetsPart
  <2>4. (j \in q.left \/ \E r \in q.open : c[r].key = j)
          <=> (j = k \/ j \in w.left \/ \E r \in w.open : c[r].key = j)
    BY DEF GetsPart
  <2>5. QED
    BY <2>1, <2>2, <2>3, <2>4 DEF GetsPart
<1>5. /\ \A p \in w.parts :
           p.key \notin w.left /\ \A r \in w.open : d[r].key # p.key
      /\ \A p, o \in w.parts : p.key = o.key => p = o
      /\ \A r, y \in w.open : d[r].key = d[y].key => r = y
      /\ \A r \in w.open : d[r].key \notin w.left
  BY <1>1 DEF Fits, Split, GetsPart
<1>6. \A r \in w.open : d[r].pc \in {"asked", "answered"}
  BY DEF Fits, GetsPart
<1>7. QED
  BY <1>3, <1>4, <1>5, <1>6 DEF Fits, Split, GetsPart

LEMMA NoTotalFits ==
  ASSUME NEW c, NEW n \in Nat
  PROVE  Fits(NoTotal, c, n)
<1>1. NoTotal \in Total
  BY DEF NoTotal, Total
<1>2. Timed(NoTotal, c, n, n)
  BY DEF NoTotal, Timed
<1>3. QED
  BY <1>1, <1>2 DEF Fits, Split, NoTotal

\* What Gathered leaves alone.
LEMMA GatheredIs ==
  ASSUME NEW q \in Total, q.pc = "gather"
  PROVE  /\ Gathered(q) \in Total
         /\ Gathered(q).wallets = q.wallets /\ Gathered(q).left = q.left
         /\ Gathered(q).open = q.open /\ Gathered(q).parts = q.parts
         /\ Gathered(q).pc # "gather" => q.left = {} /\ q.open = {}
  BY DEF Gathered, Total

-----------------------------------------------------------------------------
(* The steps.                                                              *)

LEMMA HitIs ==
  ASSUME CacheInv, NEW r \in Requests, Hit(r)
  PROVE  \E k \in Accounts, x \in Nat :
           /\ req' = [req EXCEPT ![r] = Done(k, x)]
           /\ x <= now /\ now < x + TTL + Latency
           /\ req[r].pc = "idle" /\ UNCHANGED now
<1>1. PICK k \in Accounts : \E e \in Live(k) : Answered(r, k, e.data)
  BY DEF Hit
<1>2. PICK e \in Live(k) : Answered(r, k, e.data)
  BY <1>1
<1>3. PICK j \in DOMAIN balanceCache : balanceCache[j] = e
  BY LiveEntry
<1>4. e \in Entry /\ e.expiresAt > now
  BY LiveEntry
<1>5. /\ e.data \in Nat /\ e.expiresAt \in Nat /\ now \in Nat
      /\ e.data <= now /\ e.expiresAt <= e.data + Latency + TTL
  BY <1>3, <1>4 DEF CacheInv, EntryInv, DataInv, TypeOK, Entry
<1>6. req' = [req EXCEPT ![r] = Done(k, e.data)]
  BY <1>2 DEF Answered, Done
<1>7. now < e.data + TTL + Latency
  BY <1>4, <1>5, TimeAssumption
<1>8. QED
  BY <1>5, <1>6, <1>7 DEF Hit

LEMMA StoreIs ==
  ASSUME CacheInv, NEW r \in Requests, Store(r)
  PROVE  /\ req[r].key \in Accounts /\ req[r].data \in Nat /\ req[r].asked \in Nat
         /\ req' = [req EXCEPT ![r] = Done(req[r].key, req[r].data)]
         /\ req[r].asked <= req[r].data
         /\ req[r].data <= req[r].asked + Latency
         /\ UNCHANGED now
<1>1. Waiting(r) /\ req[r].pc = "answered" /\ UNCHANGED now
  BY DEF Store, Waiting
<1>2. /\ req[r].key \in Accounts /\ req[r].data \in Nat /\ req[r].asked \in Nat
      /\ req[r].asked <= req[r].data /\ req[r].data <= now
      /\ now <= req[r].asked + Latency /\ now \in Nat
  BY <1>1 DEF CacheInv, CallInv, TypeOK, Call
<1>3. req' = [req EXCEPT ![r] = Done(req[r].key, req[r].data)]
  BY DEF Store, Answered, Done
<1>4. QED
  BY <1>1, <1>2, <1>3, TimeAssumption

\* A call changes that the total does not wait for.
LEMMA OtherCall ==
  ASSUME TotalsInv, NEW r \in Requests, NEW q, req' = [req EXCEPT ![r] = q],
         UNCHANGED now, NEW t \in Totals, r \notin total[t].open
  PROVE  Fits(total[t], req', now')
<1>1. /\ Fits(total[t], req, now) /\ now \in Nat
      /\ req \in [Requests -> Call] /\ total[t].open \subseteq Requests
  BY DEF TotalsInv, CacheInv, TypeOK, TotalsTypeOK, Total
<1>2. \A x \in total[t].open : req'[x] = req[x]
  BY <1>1
<1>3. \A x \in total[t].open : req[x].pc \in {"asked", "answered"}
  BY <1>1 DEF Fits
<1>4. \A x \in total[t].open : /\ req'[x].pc \in {"asked", "answered"}
                               /\ req'[x].key = req[x].key
                               /\ req'[x].asked = req[x].asked
  BY <1>2, <1>3
<1>5. now' \in Nat /\ now <= now' /\ now' = now
  BY <1>1
<1>6. QED
  BY <1>1, <1>4, <1>5, Undisturbed

\* A call that is idle is none of a total's.
LEMMA IdleCall ==
  ASSUME TotalsInv, NEW t \in Totals, NEW r \in Requests, req[r].pc \in {"idle", "done"}
  PROVE  r \notin total[t].open
  BY DEF TotalsInv, Fits

LEMMA LookupSafe ==
  ASSUME TotalsInv, NEW t \in Totals, NEW r \in Requests, Lookup(t, r)
  PROVE  TotalsInv'
<1> DEFINE old == total[t]
           p == [old EXCEPT !.left = @ \ {req'[r].key}]
<1>1. /\ Hit(r) \/ Miss(r)
      /\ turn = t /\ req'[r].key \in old.left
      /\ total' = [total EXCEPT ![t] = Looked(old, r)]
      /\ turn' = IF old.left = {req'[r].key} THEN None ELSE turn
  BY DEF Lookup, Put
<1>2. /\ CacheInv /\ total \in [Totals -> Total] /\ now \in Nat
      /\ Fits(old, req, now) /\ old \in Total /\ req \in [Requests -> Call]
      /\ req[r].pc = "idle" /\ r \notin old.open
      /\ old.left # {} /\ old.pc = "gather"
  <2>1. req[r].pc = "idle"
    BY <1>1 DEF Hit, Miss
  <2>2. CacheInv /\ total \in [Totals -> Total] /\ now \in Nat
        /\ Fits(old, req, now) /\ req \in [Requests -> Call] /\ old.left # {}
    BY <1>1 DEF TotalsInv, TotalsTypeOK, CacheInv, TypeOK
  <2>3. QED
    BY <2>1, <2>2, IdleCall DEF Fits
<1>3. CacheInv'
  <2>1. [Next]_vars
    BY <1>1 DEF Next
  <2>2. QED
    BY <1>2, <2>1, NextInv
<1>4. PICK s \in Nat : Timed(old, req, now, s)
  BY <1>2 DEF Fits
<1>5. s = now
  BY <1>2, <1>4 DEF Timed
<1>6. Looked(old, r) \in Total /\ Looked(old, r).left = old.left \ {req'[r].key}
      /\ Fits(Looked(old, r), req', now')
  <2>1. CASE Hit(r)
    <3>1. PICK k \in Accounts, x \in Nat :
            /\ req' = [req EXCEPT ![r] = Done(k, x)]
            /\ x <= now /\ now < x + TTL + Latency /\ UNCHANGED now
      BY <1>2, <2>1, HitIs
    <3>2. req'[r] = Done(k, x)
      BY <1>2, <3>1
    <3>3. /\ req'[r].pc = "done" /\ req'[r].key = k /\ req'[r].data = x
          /\ req'[r].failed = FALSE
      <4>1. /\ Done(k, x).pc = "done" /\ Done(k, x).key = k
            /\ Done(k, x).data = x /\ Done(k, x).failed = FALSE
        BY DoneCall
      <4>2. QED
        BY <3>2, <4>1
    <3> DEFINE g == [p EXCEPT !.open = @ \ {r},
                       !.parts = @ \cup {[key |-> k, data |-> x]}]
               w == Gathered(g)
    <3>4. Looked(old, r) = w
      BY <3>3 DEF Looked, Settled
    <3>5. /\ g \in Total /\ g.pc = "gather"
          /\ g.wallets = old.wallets /\ g.left = old.left \ {k}
          /\ g.open = old.open
          /\ g.parts = old.parts \cup {[key |-> k, data |-> x]}
      <4>1. [key |-> k, data |-> x] \in Part
        BY DEF Part
      <4>2. /\ p \in Total /\ p.pc = "gather" /\ p.wallets = old.wallets
            /\ p.left = old.left \ {k} /\ p.open = old.open
            /\ p.parts = old.parts
        BY <1>2, <3>3 DEF Total
      <4> HIDE DEF p
      <4>3. /\ p.open \ {r} = old.open
            /\ p.parts \cup {[key |-> k, data |-> x]} \subseteq Part
        BY <1>2, <4>1, <4>2 DEF Total
      <4>4. /\ g.pc = p.pc /\ g.wallets = p.wallets /\ g.left = p.left
            /\ g.open = p.open \ {r}
            /\ g.parts = p.parts \cup {[key |-> k, data |-> x]}
        BY <4>2 DEF Total
      <4>5. g \in Total
        BY <4>2, <4>3 DEF Total
      <4>6. QED
        BY <4>2, <4>3, <4>4, <4>5
    <3> HIDE DEF g
    <3>6. /\ w \in Total
          /\ w.pc # "gather" => w.left = {} /\ w.open = {}
          /\ w.wallets = old.wallets /\ w.left = old.left \ {k}
          /\ w.open = old.open
          /\ w.parts = old.parts \cup {[key |-> k, data |-> x]}
      BY <3>5, GatheredIs
    <3> HIDE DEF w
    <3>7. /\ \A y \in old.open : req[y].key # k /\ req'[y] = req[y]
          /\ \A o \in old.parts : o.key # k
      <4>1. old.open \subseteq Requests /\ k \in old.left
        BY <1>1, <1>2, <3>3 DEF Total
      <4>2. Split(old, req)
        BY <1>2 DEF Fits
      <4>3. QED
        BY <1>2, <3>1, <4>1, <4>2 DEF Split
    <3>8. \A j \in Accounts :
            (j \in old.left \/ \E y \in old.open : req[y].key = j)
              <=> (j = k \/ j \in w.left \/ \E y \in w.open : req[y].key = j)
      BY <1>1, <3>3, <3>6
    <3>9. now <= x \/ now < x + TTL + Latency
      BY <3>1
    <3>10. x <= now + Latency
      BY <1>2, <3>1, TimeAssumption
    <3>a. GetsPart(old, w, req, req', k, x)
      BY <3>6, <3>7, <3>8 DEF GetsPart
    <3>11. Fits(w, req', now)
      BY <1>2, <1>4, <1>5, <3>9, <3>10, <3>a, PartFits
    <3>12. QED
      BY <3>1, <3>3, <3>4, <3>6, <3>11
  <2>2. CASE Miss(r)
    <3>1. PICK k \in Accounts :
            /\ req' = [req EXCEPT ![r] = [Idle EXCEPT !.pc = "asked", !.key = k,
                                                      !.asked = now]]
            /\ UNCHANGED now
      BY <2>2 DEF Miss
    <3>2. /\ req'[r].pc = "asked" /\ req'[r].key = k /\ req'[r].asked = now
          /\ \A y \in Requests : y # r => req'[y] = req[y]
      BY <1>2, <3>1 DEF Idle
    <3> DEFINE w == [p EXCEPT !.open = @ \cup {r}]
    <3>3. Looked(old, r) = w
      BY <3>2 DEF Looked
    <3>4. /\ w \in Total /\ w.pc = "gather" /\ w.wallets = old.wallets
          /\ w.left = old.left \ {k} /\ w.open = old.open \cup {r}
          /\ w.parts = old.parts
      BY <1>2, <3>2 DEF Total
    <3> HIDE DEF w
    <3>5. /\ k \in old.left /\ old.open \subseteq Requests
          /\ Split(old, req)
          /\ \A y \in old.open : req'[y] = req[y]
      BY <1>1, <1>2, <3>2 DEF Fits, Total
    <3>6. Split(w, req')
      <4>1. ASSUME NEW j \in Accounts
            PROVE  j \in w.wallets <=>
                     \/ j \in w.left
                     \/ \E o \in w.parts : o.key = j
                     \/ \E y \in w.open : req'[y].key = j
        <5>1. (\E y \in w.open : req'[y].key = j)
                <=> (j = k \/ \E y \in old.open : req[y].key = j)
          BY <3>2, <3>4, <3>5
        <5>2. j \in old.wallets <=>
                \/ j \in old.left
                \/ \E o \in old.parts : o.key = j
                \/ \E y \in old.open : req[y].key = j
          BY <3>5 DEF Split
        <5>3. j \in old.left <=> (j \in w.left \/ j = k)
          BY <3>4, <3>5
        <5>4. QED
          BY <3>4, <5>1, <5>2, <5>3
      <4>2. /\ \A o \in w.parts :
                 o.key \notin w.left /\ \A y \in w.open : req'[y].key # o.key
            /\ \A o, z \in w.parts : o.key = z.key => o = z
            /\ \A y, z \in w.open : req'[y].key = req'[z].key => y = z
            /\ \A y \in w.open : req'[y].key \notin w.left
        BY <3>2, <3>4, <3>5 DEF Split
      <4>3. QED
        BY <4>1, <4>2 DEF Split
    <3>7. Timed(w, req', now', now)
      BY <1>4, <1>5, <3>1, <3>2, <3>4, <3>5 DEF Timed
    <3>8. \A y \in w.open : req'[y].pc \in {"asked", "answered"}
      BY <1>2, <3>2, <3>4, <3>5 DEF Fits
    <3>9. Fits(w, req', now')
      BY <1>2, <3>1, <3>4, <3>6, <3>7, <3>8 DEF Fits
    <3>10. QED
      BY <3>2, <3>3, <3>4, <3>9
  <2>3. QED
    BY <1>1, <2>1, <2>2
<1>7. \E q : req' = [req EXCEPT ![r] = q]
  BY <1>1 DEF Hit, Miss, Answered
<1>8. ASSUME NEW u \in Totals
      PROVE  Fits(total'[u], req', now') /\ (total'[u].left # {} <=> turn' = u)
  <2>1. CASE u = t
    BY <1>1, <1>2, <1>6, <2>1, TotalAssumption
  <2>2. CASE u # t
    <3>1. total'[u] = total[u] /\ turn' # u
      BY <1>1, <1>2, <2>2, TotalAssumption
    <3>2. total[u].left = {}
      BY <1>1, <2>2 DEF TotalsInv
    <3>3. UNCHANGED now
      BY <1>1 DEF Hit, Miss
    <3>4. Fits(total[u], req', now')
      BY <1>2, <1>7, <3>3, IdleCall, OtherCall
    <3>5. QED
      BY <3>1, <3>2, <3>4
  <2>3. QED
    BY <2>1, <2>2
<1>9. TotalsTypeOK'
  BY <1>1, <1>2, <1>6 DEF TotalsTypeOK
<1>10. QED
  BY <1>3, <1>8, <1>9 DEF TotalsInv

LEMMA ArrivedSafe ==
  ASSUME TotalsInv, NEW r \in Requests, Arrived(r)
  PROVE  TotalsInv'
<1>1. /\ Store(r) \/ Fail(r)
      /\ turn = None /\ turn' = None /\ UNCHANGED now
      /\ total' = [t \in Totals |->
                     IF r \in total[t].open THEN Settled(total[t], r)
                     ELSE total[t]]
  BY DEF Arrived, Between, Settle, Store, Fail
<1>2. /\ CacheInv /\ now \in Nat /\ req \in [Requests -> Call]
      /\ total \in [Totals -> Total]
  BY DEF TotalsInv, CacheInv, TypeOK, TotalsTypeOK
<1>3. CacheInv'
  <2>1. [Next]_vars
    BY <1>1 DEF Next
  <2>2. QED
    BY <1>2, <2>1, NextInv
<1>4. \E q : req' = [req EXCEPT ![r] = q]
  BY <1>1 DEF Store, Fail, Answered
<1>5. ASSUME NEW t \in Totals
      PROVE  /\ Fits(total'[t], req', now') /\ total'[t] \in Total
             /\ total'[t].left = {}
  <2> DEFINE q == total[t]
  <2>1. q \in Total /\ Fits(q, req, now) /\ q.left = {}
    BY <1>1, <1>2, TotalAssumption DEF TotalsInv
  <2>2. CASE r \notin q.open
    BY <1>1, <1>2, <1>4, <2>1, <2>2, OtherCall
  <2>3. CASE r \in q.open /\ Fail(r)
    <3>1. req'[r] = Failed
      BY <1>2, <2>3 DEF Fail, Failed
    <3>2. req'[r].failed = TRUE
      BY <3>1, OtherCalls
    <3>3. total'[t] = NoTotal
      BY <1>1, <2>3, <3>2 DEF Settled
    <3>4. NoTotal \in Total /\ NoTotal.left = {}
      BY DEF NoTotal, Total
    <3>5. Fits(NoTotal, req', now')
      BY <1>1, <1>2, NoTotalFits
    <3>6. QED
      BY <3>3, <3>4, <3>5
  <2>4. CASE r \in q.open /\ Store(r)
    <3> DEFINE k == req[r].key
               x == req[r].data
               g == [q EXCEPT !.open = @ \ {r},
                       !.parts = @ \cup {[key |-> k, data |-> x]}]
               w == Gathered(g)
    <3>1. /\ k \in Accounts /\ x \in Nat /\ req[r].asked \in Nat
          /\ req' = [req EXCEPT ![r] = Done(k, x)]
          /\ req[r].asked <= x /\ x <= req[r].asked + Latency
      BY <1>2, <2>4, StoreIs
    <3>2. req'[r].failed = FALSE /\ req'[r].key = k /\ req'[r].data = x
      <4>1. req'[r] = Done(k, x)
        BY <1>2, <3>1
      <4>2. /\ Done(k, x).failed = FALSE /\ Done(k, x).key = k
            /\ Done(k, x).data = x
        BY <3>1, DoneCall
      <4>3. QED
        BY <4>1, <4>2
    <3>3. total'[t] = w
      BY <1>1, <2>4, <3>2 DEF Settled
    <3>4. PICK s \in Nat : Timed(q, req, now, s)
      BY <2>1 DEF Fits
    <3>5. s = req[r].asked /\ q.pc = "gather"
      BY <2>1, <2>4, <3>4 DEF Timed, Fits
    <3>6. Split(q, req) /\ q.open \subseteq Requests
      BY <2>1 DEF Fits, Total
    <3> HIDE DEF k, x
    <3>7. [key |-> k, data |-> x] \in Part
      BY <3>1 DEF Part
    <3>8. /\ g \in Total /\ g.pc = "gather"
          /\ g.wallets = q.wallets /\ g.left = q.left
          /\ g.open = q.open \ {r}
          /\ g.parts = q.parts \cup {[key |-> k, data |-> x]}
      BY <2>1, <3>5, <3>7 DEF Total
    <3> HIDE DEF g
    <3>9. /\ w \in Total
          /\ w.pc # "gather" => w.left = {} /\ w.open = {}
          /\ w.wallets = q.wallets /\ w.left = q.left
          /\ w.open = q.open \ {r}
          /\ w.parts = q.parts \cup {[key |-> k, data |-> x]}
      BY <3>8, GatheredIs
    <3> HIDE DEF w
    <3>10. /\ \A y \in w.open : req[y].key # k /\ req'[y] = req[y]
           /\ \A o \in q.parts : o.key # k
      BY <1>2, <2>4, <3>1, <3>6, <3>9 DEF Split, k
    <3>11. \A j \in Accounts :
             (j \in q.left \/ \E y \in q.open : req[y].key = j)
               <=> (j = k \/ j \in w.left \/ \E y \in w.open : req[y].key = j)
      BY <2>4, <3>9 DEF k
    <3>a. GetsPart(q, w, req, req', k, x)
      BY <2>1, <3>9, <3>10, <3>11 DEF GetsPart
    <3>12. Fits(w, req', now)
      BY <1>2, <2>1, <3>1, <3>4, <3>5, <3>a, PartFits
    <3>13. QED
      BY <1>1, <2>1, <3>3, <3>9, <3>12
  <2>5. QED
    BY <1>1, <2>2, <2>3, <2>4
<1>6. TotalsTypeOK'
  <2>1. total' \in [Totals -> Total]
    BY <1>1, <1>5
  <2>2. QED
    BY <1>1, <2>1 DEF TotalsTypeOK
<1>7. QED
  BY <1>1, <1>3, <1>5, <1>6, TotalAssumption DEF TotalsInv

LEMMA FindSafe ==
  ASSUME TotalsInv, NEW t \in Totals, FindWallets(t) \/ Leave(t)
  PROVE  TotalsInv'
<1>1. /\ UNCHANGED vars /\ CacheInv /\ now \in Nat
      /\ total \in [Totals -> Total] /\ turn \in Totals \cup {None}
  BY DEF TotalsInv, FindWallets, Leave, CacheInv, TypeOK, TotalsTypeOK
<1>2. UNCHANGED <<balanceCache, req, now, newest>>
  BY <1>1 DEF vars
<1>3. CacheInv'
  BY <1>1, NextInv
<1>4. \E w \in Total : /\ total' = [total EXCEPT ![t] = w]
                       /\ Fits(w, req, now)
                       /\ turn' = IF w.left = {} THEN turn ELSE t
                       /\ turn # None => w.left = {} /\ turn # t
  <2>1. CASE Leave(t)
    <3>1. turn # t
      BY <2>1 DEF Leave, TotalsInv, Fits
    <3>2. total' = [total EXCEPT ![t] = NoTotal] /\ UNCHANGED turn
      BY <2>1 DEF Leave, Put
    <3>3. NoTotal \in Total /\ NoTotal.left = {}
      BY DEF NoTotal, Total
    <3>4. Fits(NoTotal, req, now)
      BY <1>1, NoTotalFits
    <3>5. QED
      BY <3>1, <3>2, <3>3, <3>4
  <2>2. CASE FindWallets(t)
    <3>1. PICK S \in SUBSET Accounts :
            /\ Put(t, Gathered([NoTotal EXCEPT !.pc = "gather", !.wallets = S,
                                               !.left = S]))
            /\ turn' = IF S = {} THEN None ELSE t
            /\ turn = None
      BY <2>2 DEF FindWallets
    <3> DEFINE g == [NoTotal EXCEPT !.pc = "gather", !.wallets = S, !.left = S]
               w == Gathered(g)
    <3>2. /\ g \in Total /\ g.pc = "gather" /\ g.wallets = S /\ g.left = S
          /\ g.open = {} /\ g.parts = {}
      BY DEF NoTotal, Total
    <3> HIDE DEF g
    <3>3. /\ w \in Total /\ w.wallets = S /\ w.left = S /\ w.open = {}
          /\ w.parts = {}
          /\ w.pc # "gather" => w.left = {} /\ w.open = {}
      BY <3>2, GatheredIs
    <3>a. total' = [total EXCEPT ![t] = w]
      BY <3>1 DEF Put, g
    <3> HIDE DEF w
    <3>4. Timed(w, req, now, now)
      BY <1>1, <3>3 DEF Timed
    <3>5. Fits(w, req, now)
      BY <1>1, <3>3, <3>4 DEF Fits, Split
    <3>6. QED
      BY <3>1, <3>a, <3>3, <3>5
  <2>3. QED
    BY <2>1, <2>2
<1>5. PICK w \in Total : /\ total' = [total EXCEPT ![t] = w]
                         /\ Fits(w, req, now)
                         /\ turn' = IF w.left = {} THEN turn ELSE t
                         /\ turn # None => w.left = {} /\ turn # t
  BY <1>4
<1>6. ASSUME NEW u \in Totals
      PROVE  Fits(total'[u], req', now') /\ (total'[u].left # {} <=> turn' = u)
  BY <1>1, <1>2, <1>5, TotalAssumption DEF TotalsInv
<1>7. QED
  BY <1>1, <1>3, <1>5, <1>6 DEF TotalsInv, TotalsTypeOK

\* Steps that change no total.
LEMMA OutsideSafe ==
  ASSUME TotalsInv, Pass \/ \E r \in Requests : LookupOne(r) \/ Elsewhere(r)
  PROVE  TotalsInv'
<1>1. /\ UNCHANGED <<total, turn>> /\ CacheInv /\ TotalsTypeOK /\ now \in Nat
      /\ req \in [Requests -> Call]
  BY DEF LookupOne, Elsewhere, Pass, TotalsInv, CacheInv, TypeOK
<1>2. CacheInv'
  <2>1. [Next]_vars
    BY DEF LookupOne, Elsewhere, Pass, Next
  <2>2. QED
    BY <1>1, <2>1, NextInv
<1>3. ASSUME NEW t \in Totals
      PROVE  Fits(total[t], req', now')
  <2>1. Fits(total[t], req, now) /\ total[t].open \subseteq Requests
    BY <1>1 DEF TotalsInv, TotalsTypeOK, Total
  <2>2. ASSUME NEW r \in Requests, LookupOne(r) \/ (Elsewhere(r) /\ Reply(r))
        PROVE  Fits(total[t], req', now')
    <3>1. /\ req[r].pc \in {"idle", "done"} /\ UNCHANGED now
          /\ \E q : req' = [req EXCEPT ![r] = q]
      BY <2>2 DEF LookupOne, Hit, Miss, Reply, Answered
    <3>2. QED
      BY <3>1, IdleCall, OtherCall
  <2>3. ASSUME NEW r \in Requests, Elsewhere(r), Load(r)
        PROVE  Fits(total[t], req', now')
    <3>1. /\ req' = [req EXCEPT ![r].pc = "answered", ![r].data = now]
          /\ UNCHANGED now
      BY <2>3 DEF Load
    <3>2. req[r] \in Call
      BY <1>1
    <3>3. /\ req'[r].pc = "answered" /\ req'[r].key = req[r].key
          /\ req'[r].asked = req[r].asked
          /\ \A y \in Requests : y # r => req'[y] = req[y]
      BY <1>1, <3>1, <3>2 DEF Call
    <3>4. \A y \in total[t].open : req[y].pc \in {"asked", "answered"}
      BY <2>1 DEF Fits
    <3>5. \A y \in total[t].open : /\ req'[y].pc \in {"asked", "answered"}
                                   /\ req'[y].key = req[y].key
                                   /\ req'[y].asked = req[y].asked
      BY <2>1, <3>3, <3>4
    <3>6. now' \in Nat /\ now <= now' /\ now' = now
      BY <1>1, <3>1
    <3>7. QED
      BY <1>1, <2>1, <3>5, <3>6, Undisturbed
  <2>4. CASE Pass
    <3>1. /\ UNCHANGED req /\ now' = now + 1 /\ turn = None
      BY <2>4 DEF Pass, Tick, Between
    <3>2. total[t].left = {}
      BY <3>1, TotalAssumption DEF TotalsInv
    <3>3. \A y \in total[t].open : req'[y].pc \in {"asked", "answered"}
      BY <2>1, <3>1 DEF Fits
    <3>4. now' \in Nat /\ now <= now'
      BY <1>1, <3>1
    <3>5. QED
      BY <1>1, <2>1, <3>1, <3>2, <3>3, <3>4, Undisturbed
  <2>5. QED
    BY <2>2, <2>3, <2>4 DEF Elsewhere
<1>4. QED
  BY <1>1, <1>2, <1>3 DEF TotalsInv, TotalsTypeOK

LEMMA TotalsInitInv == TotalsInit => TotalsInv
<1> SUFFICES ASSUME TotalsInit PROVE TotalsInv
  OBVIOUS
<1>1. CacheInv /\ now \in Nat
  BY InitInv DEF TotalsInit, CacheInv, TypeOK
<1>2. total = [t \in Totals |-> NoTotal] /\ turn = None
  BY DEF TotalsInit
<1>3. NoTotal \in Total /\ NoTotal.left = {}
  BY DEF NoTotal, Total
<1>4. Fits(NoTotal, req, now)
  BY <1>1, NoTotalFits
<1>5. QED
  BY <1>1, <1>2, <1>3, <1>4, TotalAssumption DEF TotalsInv, TotalsTypeOK

LEMMA TotalsNextInv == TotalsInv /\ [TotalsNext]_allVars => TotalsInv'
<1> SUFFICES ASSUME TotalsInv, [TotalsNext]_allVars PROVE TotalsInv'
  OBVIOUS
<1>1. ASSUME UNCHANGED allVars PROVE TotalsInv'
  <2>1. UNCHANGED <<vars, total, turn>> /\ UNCHANGED <<balanceCache, req, now, newest>>
    BY <1>1 DEF allVars, vars
  <2>2. CacheInv'
    BY <2>1, NextInv DEF TotalsInv
  <2>3. QED
    BY <2>1, <2>2 DEF TotalsInv, TotalsTypeOK
<1>2. ASSUME NEW t \in Totals, FindWallets(t) \/ Leave(t)
      PROVE  TotalsInv'
  BY <1>2, FindSafe
<1>3. ASSUME NEW t \in Totals, NEW r \in Requests, Lookup(t, r)
      PROVE  TotalsInv'
  BY <1>3, LookupSafe
<1>4. ASSUME NEW r \in Requests, LookupOne(r) \/ Arrived(r) \/ Elsewhere(r)
      PROVE  TotalsInv'
  BY <1>4, ArrivedSafe, OutsideSafe
<1>5. CASE Pass
  BY <1>5, OutsideSafe
<1>6. QED
  BY <1>1, <1>2, <1>3, <1>4, <1>5 DEF TotalsNext

LEMMA TotalsInvariant == TotalsSpec => []TotalsInv
  BY TotalsInitInv, TotalsNextInv, PTL DEF TotalsSpec

-----------------------------------------------------------------------------
(* The theorems.                                                           *)

\* The totals keep their types, whatever fails (getTotalBalance).
THEOREM TotalsTypes == TotalsSpec => []TotalsTypeOK
  BY TotalsInvariant, PTL DEF TotalsInv

\* A total has every wallet once, and its balances are of nearly one moment:
\* all lookups are made in one turn (getTotalBalance).
THEOREM TotalsCohere == TotalsSpec => []TotalCoherent
<1>1. TotalsInv => TotalCoherent
  <2> SUFFICES ASSUME TotalsInv, NEW t \in Totals, total[t].pc = "ok"
               PROVE  /\ {p.key : p \in total[t].parts} = total[t].wallets
                      /\ \A p, q \in total[t].parts :
                           /\ p.key = q.key => p = q
                           /\ \/ p.data - q.data <= Latency
                              \/ p.data - q.data < TTL + 2 * Latency
    BY DEF TotalCoherent
  <2>1. /\ total[t] \in Total /\ Fits(total[t], req, now)
        /\ total[t].left = {} /\ total[t].open = {}
        /\ Split(total[t], req)
    BY DEF TotalsInv, TotalsTypeOK, Fits
  <2>2. {p.key : p \in total[t].parts} = total[t].wallets
    <3>1. /\ total[t].wallets \subseteq Accounts
          /\ \A p \in total[t].parts : p.key \in Accounts
      BY <2>1 DEF Total, Part
    <3>2. \A k \in Accounts : k \in total[t].wallets <=>
            \E p \in total[t].parts : p.key = k
      BY <2>1 DEF Split
    <3>3. QED
      BY <3>1, <3>2
  <2>3. ASSUME NEW p \in total[t].parts, NEW q \in total[t].parts
        PROVE  /\ p.key = q.key => p = q
               /\ \/ p.data - q.data <= Latency
                  \/ p.data - q.data < TTL + 2 * Latency
    <3>1. PICK s \in Nat : Timed(total[t], req, now, s)
      BY <2>1 DEF Fits
    <3>2. /\ p.data <= s + Latency
          /\ s <= q.data \/ s < q.data + TTL + Latency
      BY <3>1 DEF Timed
    <3>3. p.data \in Nat /\ q.data \in Nat
      BY <2>1 DEF Total, Part
    <3>4. QED
      BY <2>1, <3>2, <3>3, TimeAssumption DEF Split
  <2>4. QED
    BY <2>2, <2>3
<1>2. QED
  BY <1>1, TotalsInvariant, PTL

\* A gathering total has a wallet to look up or a call to wait for.
Busy(q) == q.pc = "gather" => q.left # {} \/ q.open # {}

LEMMA GatheredBusy ==
  ASSUME NEW q \in Total
  PROVE  Busy(Gathered(q))
<1>1. [q EXCEPT !.pc = "ok"].pc = "ok"
  BY DEF Total
<1>2. QED
  BY <1>1 DEF Busy, Gathered

LEMMA SettledBusy ==
  ASSUME TypeOK', NEW q \in Total, NEW r \in Requests,
         req'[r].failed \/ req'[r].key \in Accounts
  PROVE  Busy(Settled(q, r))
<1> DEFINE k == req'[r].key
           d == req'[r].data
           w == [q EXCEPT !.open = @ \ {r},
                          !.parts = @ \cup {[key |-> k, data |-> d]}]
<1>1. CASE req'[r].failed
  BY <1>1 DEF Settled, NoTotal, Busy
<1>2. CASE ~req'[r].failed
  <2>1. d \in Nat /\ k \in Accounts
    BY <1>2 DEF TypeOK, Call
  <2> HIDE DEF k, d
  <2>2. [key |-> k, data |-> d] \in Part
    BY <2>1 DEF Part
  <2>3. w \in Total
    BY <2>2 DEF Total
  <2>4. Settled(q, r) = Gathered(w)
    BY <1>2 DEF Settled, k, d
  <2>5. QED
    BY <2>3, <2>4, GatheredBusy
<1>3. QED
  BY <1>1, <1>2

LEMMA BusyStep ==
  ASSUME TotalsInv, TotalsInv', \A t \in Totals : Busy(total[t]),
         [TotalsNext]_allVars
  PROVE  \A t \in Totals : Busy(total'[t])
<1>a. /\ total \in [Totals -> Total] /\ req \in [Requests -> Call]
      /\ TypeOK' /\ NoTotal \in Total
  BY NoTotalFits DEF TotalsInv, TotalsTypeOK, CacheInv, TypeOK, Fits
<1>b. Busy(NoTotal)
  BY DEF Busy, NoTotal
<1>1. CASE total' = total
  BY <1>1
<1>2. ASSUME NEW t \in Totals, NEW q, Busy(q), Put(t, q)
      PROVE  \A x \in Totals : Busy(total'[x])
  BY <1>a, <1>2 DEF Put
<1>3. ASSUME NEW t \in Totals, FindWallets(t)
      PROVE  \A x \in Totals : Busy(total'[x])
  <2>1. PICK S \in SUBSET Accounts :
          Put(t, Gathered([NoTotal EXCEPT !.pc = "gather", !.wallets = S,
                                          !.left = S]))
    BY <1>3 DEF FindWallets
  <2>2. [NoTotal EXCEPT !.pc = "gather", !.wallets = S, !.left = S] \in Total
    BY <1>a DEF Total
  <2>3. QED
    BY <1>2, <2>1, <2>2, GatheredBusy
<1>4. ASSUME NEW t \in Totals, NEW r \in Requests, Lookup(t, r)
      PROVE  \A x \in Totals : Busy(total'[x])
  <2> DEFINE p == [total[t] EXCEPT !.left = @ \ {req'[r].key}]
  <2>1. Put(t, Looked(total[t], r)) /\ req'[r].key \in total[t].left
    BY <1>4 DEF Lookup
  <2>2. p \in Total /\ req'[r].key \in Accounts
    BY <1>a, <2>1 DEF Total
  <2>3. r \in [p EXCEPT !.open = @ \cup {r}].open
    BY <2>2 DEF Total
  <2> HIDE DEF p
  <2>4. Looked(total[t], r) \in {Settled(p, r), [p EXCEPT !.open = @ \cup {r}]}
    BY DEF Looked, p
  <2>5. Busy(Looked(total[t], r))
    BY <1>a, <2>2, <2>3, <2>4, SettledBusy DEF Busy
  <2>6. QED
    BY <1>2, <2>1, <2>5
<1>5. ASSUME NEW r \in Requests, Arrived(r), NEW t \in Totals
      PROVE  Busy(total'[t])
  <2>1. total'[t] = IF r \in total[t].open THEN Settled(total[t], r) ELSE total[t]
    BY <1>5 DEF Arrived, Settle
  <2>2. req'[r].failed \/ (Store(r) /\ req'[r].key = req[r].key)
    BY <1>5, <1>a DEF Arrived, Fail, Store, Answered, Idle
  <2>3. Store(r) => req[r].key \in Accounts
    BY DEF Store, TotalsInv, CacheInv, CallInv, Waiting
  <2>4. QED
    BY <1>a, <2>1, <2>2, <2>3, SettledBusy
<1>6. ASSUME NEW t \in Totals, Leave(t)
      PROVE  \A x \in Totals : Busy(total'[x])
  BY <1>2, <1>6, <1>b DEF Leave
<1>7. QED
  BY <1>1, <1>3, <1>4, <1>5, <1>6
     DEF TotalsNext, allVars, Pass, LookupOne, Elsewhere

\* A total never waits for a call that has ended (getTotalBalance).
THEOREM TotalsWaitForCalls == TotalsSpec => []TotalWaitsForCalls
<1> DEFINE B == \A t \in Totals : Busy(total[t])
<1>1. TotalsInit => B
  BY DEF TotalsInit, NoTotal, Busy
<1>2. TotalsInv /\ TotalsInv' /\ B /\ [TotalsNext]_allVars => B'
  BY BusyStep
<1>3. TotalsInv /\ B => TotalWaitsForCalls
  <2> SUFFICES ASSUME TotalsInv, B, NEW t \in Totals, total[t].pc = "gather"
               PROVE  /\ turn = t \/ total[t].open # {}
                      /\ \A r \in total[t].open :
                           Waiting(r) /\ req[r].key \in total[t].wallets
    BY DEF TotalWaitsForCalls
  <2>1. turn = t \/ total[t].open # {}
    BY DEF Busy, TotalsInv
  <2>2. ASSUME NEW r \in total[t].open
        PROVE  Waiting(r) /\ req[r].key \in total[t].wallets
    <3>1. r \in Requests /\ Fits(total[t], req, now)
      BY DEF TotalsInv, TotalsTypeOK, Total
    <3>2. Waiting(r)
      BY <3>1 DEF Fits, Waiting
    <3>3. req[r].key \in Accounts
      BY <3>1, <3>2 DEF TotalsInv, CacheInv, CallInv, Waiting
    <3>4. QED
      BY <3>1, <3>2, <3>3 DEF Fits, Split
  <2>3. QED
    BY <2>1, <2>2
<1> HIDE DEF B
<1>4. QED
  BY <1>1, <1>2, <1>3, TotalsInvariant, PTL DEF TotalsSpec
=============================================================================
