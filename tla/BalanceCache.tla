---------------------------- MODULE BalanceCache ----------------------------
(***************************************************************************)
(* StellarService.getBalances and its cache (src/src/stellar/              *)
(* stellar.service.ts): requests look a key up in an insertion-ordered Map *)
(* and, when there is no live entry, ask Horizon and store the answer.     *)
(* Nothing joins two requests for one key, and answers overtake each       *)
(* other.                                                                  *)
(*                                                                         *)
(* A balance is identified with the moment at which Horizon read it off    *)
(* the ledger: the later the moment, the newer the balance.                *)
(*                                                                         *)
(* A definition whose name has a suffix after an underscore is the one     *)
(* without the suffix as a plausible bug would have it.                    *)
(***************************************************************************)
EXTENDS Integers, Sequences

CONSTANTS
    Accounts,  \* public keys
    Requests,  \* slots for concurrent calls
    MaxSize,   \* MAX_CACHE_SIZE
    TTL,       \* CACHE_TTL_MS
    Latency,   \* the longest Horizon takes to answer (an assumption)
    MaxTime,   \* bound on the clock
    None

ASSUME SizeAssumption == MaxSize \in Nat \ {0}
ASSUME TimeAssumption == {TTL, Latency, MaxTime} \subseteq Nat
ASSUME NoneAssumption == None \notin Accounts

VARIABLES
    balanceCache,  \* the Map, as the sequence of its entries
    req,           \* the call each slot is serving
    now,           \* Date.now()
    newest         \* history: the newest balance answered for each key

vars == <<balanceCache, req, now, newest>>

Entry == [key: Accounts, data: Nat, expiresAt: Nat]

\* A call waits for Horizon (asked), for an answer Horizon has computed
\* (answered), or is done; data is the balance, if there is one.
Call ==
    [pc: {"idle", "asked", "answered", "done"}, key: Accounts \cup {None},
     asked: Nat, data: Nat, failed: BOOLEAN]

Idle == [pc |-> "idle", key |-> None, asked |-> 0, data |-> 0, failed |-> FALSE]

Waiting(r) == req[r].pc \in {"asked", "answered"}

Places(k, c) == {i \in DOMAIN c : c[i].key = k}

\* cached && cached.expiresAt > Date.now()
Live_NotChecked(k) == {balanceCache[i] : i \in Places(k, balanceCache)}
Live(k) ==
    {e \in {balanceCache[i] : i \in Places(k, balanceCache)} : e.expiresAt > now}

-----------------------------------------------------------------------------
Init ==
    /\ balanceCache = <<>>
    /\ req = [r \in Requests |-> Idle]
    /\ now = 0
    /\ newest = [k \in Accounts |-> 0]

\* A call is answered with balance d of key k.
Answered(r, k, d) ==
    /\ req' = [req EXCEPT ![r] =
                 [Idle EXCEPT !.pc = "done", !.key = k, !.data = d]]
    /\ newest' = [newest EXCEPT ![k] = IF @ < d THEN d ELSE @]

Hit(r) ==
    /\ req[r].pc = "idle"
    /\ \E k \in Accounts : \E e \in Live(k) : Answered(r, k, e.data)
    /\ UNCHANGED <<balanceCache, now>>

Miss(r) ==
    /\ req[r].pc = "idle"
    /\ \E k \in Accounts :
         /\ Live(k) = {}
         /\ req' = [req EXCEPT ![r] =
                      [Idle EXCEPT !.pc = "asked", !.key = k, !.asked = now]]
    /\ UNCHANGED <<balanceCache, now, newest>>

\* Horizon reads the ledger.
Load(r) ==
    /\ req[r].pc = "asked"
    /\ req' = [req EXCEPT ![r].pc = "answered", ![r].data = now]
    /\ UNCHANGED <<balanceCache, now, newest>>

\* The entry that has been in the Map longest goes, if the Map is full: also
\* when key k is in the Map already.
Evicted_AfterGrowth ==
    IF Len(balanceCache) > MaxSize THEN Tail(balanceCache) ELSE balanceCache
Evicted ==
    IF Len(balanceCache) >= MaxSize THEN Tail(balanceCache) ELSE balanceCache

\* Map.set: a key that is present keeps its place.
Set_LifetimeOnly(c, e) ==
    IF Places(e.key, c) = {} THEN Append(c, e)
    ELSE [i \in DOMAIN c |->
            IF c[i].key = e.key THEN [c[i] EXCEPT !.expiresAt = e.expiresAt]
                                ELSE c[i]]
Set(c, e) ==
    IF Places(e.key, c) = {} THEN Append(c, e)
    ELSE [i \in DOMAIN c |-> IF c[i].key = e.key THEN e ELSE c[i]]

\* The answer arrives; setCacheEntry and the return are one turn of the
\* event loop.
Store(r) ==
    /\ req[r].pc = "answered"
    /\ balanceCache' =
         Set(Evicted, [key |-> req[r].key, data |-> req[r].data,
                       expiresAt |-> now + TTL])
    /\ Answered(r, req[r].key, req[r].data)
    /\ UNCHANGED now

Fail_Cached(r) ==
    /\ Waiting(r)
    /\ balanceCache' = Set(Evicted, [key |-> req[r].key, data |-> None,
                                     expiresAt |-> now + TTL])
    /\ req' = [req EXCEPT ![r] = [Idle EXCEPT !.pc = "done", !.failed = TRUE]]
    /\ UNCHANGED <<now, newest>>

\* Every error, of the account or of the network, becomes a 400 and leaves
\* the cache as it is.
Fail(r) ==
    /\ Waiting(r)
    /\ req' = [req EXCEPT ![r] = [Idle EXCEPT !.pc = "done", !.failed = TRUE]]
    /\ UNCHANGED <<balanceCache, now, newest>>

Reply(r) ==
    /\ req[r].pc = "done"
    /\ req' = [req EXCEPT ![r] = Idle]
    /\ UNCHANGED <<balanceCache, now, newest>>

\* Time passes, but no call waits for more than Latency.
Tick ==
    /\ now < MaxTime
    /\ \A r \in Requests : Waiting(r) => now < req[r].asked + Latency
    /\ now' = now + 1
    /\ UNCHANGED <<balanceCache, req, newest>>

Next ==
    \/ \E r \in Requests :
         Hit(r) \/ Miss(r) \/ Load(r) \/ Store(r) \/ Fail(r) \/ Reply(r)
    \/ Tick

Spec == Init /\ [][Next]_vars

-----------------------------------------------------------------------------
TypeOK ==
    /\ balanceCache \in Seq(Entry)
    /\ req \in [Requests -> Call]
    /\ now \in Nat
    /\ newest \in [Accounts -> Nat]

\* The cache never outgrows its limit and holds one entry per key, although
\* it evicts before it knows whether the key is new.
CacheOK ==
    /\ Len(balanceCache) <= MaxSize
    /\ \A i, j \in DOMAIN balanceCache :
         balanceCache[i].key = balanceCache[j].key => i = j

Answer(r) == req[r].pc # "done" /\ req'[r].pc = "done" /\ ~req'[r].failed

\* No answer is older than the lifetime of an entry and one Horizon latency:
\* the lifetime counts from the arrival of the balance, not its reading.
FreshEnough ==
    [][\A r \in Requests : Answer(r) => now - req'[r].data <= TTL + Latency]_vars

\* Balances may go back in time, when an answer of Horizon overtakes another
\* and the older one is cached last, but never by more than one latency.
GoesBackBriefly ==
    [][\A r \in Requests : Answer(r) =>
         newest[req'[r].key] - req'[r].data <= Latency]_vars
=============================================================================
