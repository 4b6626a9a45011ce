------------------------------- MODULE Balances -------------------------------
(***************************************************************************)
(* The balance endpoints of WalletService (src/src/wallet/                 *)
(* wallet.service.ts) over the cache of StellarService: the balance of one *)
(* wallet, and the total of all wallets of a user.                         *)
(*                                                                         *)
(* A total starts all its calls of getBalances in one turn of the event    *)
(* loop: map calls each up to its first await, so that the cache is asked  *)
(* for every wallet before anything else runs.  Here the lookups are steps *)
(* of BalanceCache, one for each wallet, and turn keeps everything else of *)
(* the process, and the clock, from coming between.  Promise.all then      *)
(* waits for all calls, or for the first that fails; the others go on, and *)
(* what they load is cached.                                               *)
(*                                                                         *)
(* Which wallets a user has is up to WalletService.                        *)
(*                                                                         *)
(* A definition whose name has a suffix after an underscore is the one     *)
(* without the suffix as a plausible bug would have it.                    *)
(***************************************************************************)
EXTENDS BalanceCache, FiniteSets

CONSTANT Totals  \* slots for requests of totals

ASSUME TotalAssumption == None \notin Totals

VARIABLES
    total,  \* the total each slot is computing
    turn    \* the total that is looking its wallets up, or None

allVars == <<vars, total, turn>>

Part == [key: Accounts, data: Nat]

\* wallets are the keys that findMany found, left those not yet looked up,
\* open the calls that were started and have not ended, and parts the
\* balances that have come.
Total ==
    [pc: {"idle", "gather", "ok"}, wallets: SUBSET Accounts,
     left: SUBSET Accounts, open: SUBSET Requests, parts: SUBSET Part]

NoTotal ==
    [pc |-> "idle", wallets |-> {}, left |-> {}, open |-> {}, parts |-> {}]

FreeCalls == {r \in Requests : req[r].pc = "idle"}

TotalsInit == Init /\ total = [t \in Totals |-> NoTotal] /\ turn = None

Put(t, q) == total' = [total EXCEPT ![t] = q]

-----------------------------------------------------------------------------
\* A gathering total is complete when no call of it is left.
Gathered(q) == IF q.left = {} /\ q.open = {} THEN [q EXCEPT !.pc = "ok"] ELSE q

\* findMany answers (if it fails nothing has happened); bounded so that every
\* wallet finds a free call.
FindWallets(t) ==
    /\ total[t].pc = "idle"
    /\ turn = None
    /\ \E S \in SUBSET Accounts :
         /\ Cardinality(S) <= Cardinality(FreeCalls)
         /\ Put(t, Gathered([NoTotal EXCEPT !.pc = "gather", !.wallets = S,
                                            !.left = S]))
         /\ turn' = IF S = {} THEN None ELSE t
    /\ UNCHANGED vars

Settled_SuccessOnly(q, r) ==
    IF req'[r].failed THEN q
    ELSE Gathered([q EXCEPT !.open = @ \ {r},
                     !.parts = @ \cup {[key |-> req'[r].key,
                                        data |-> req'[r].data]}])

Settled_FailureIncluded(q, r) ==
    Gathered([q EXCEPT !.open = @ \ {r},
                !.parts = @ \cup {[key |-> req'[r].key, data |-> req'[r].data]}])

\* Call r of a total has ended: its balance is a part of the total, or its
\* failure that of the total, which is answered 400.
Settled(q, r) ==
    IF req'[r].failed
    THEN NoTotal
    ELSE Gathered([q EXCEPT !.open = @ \ {r},
                     !.parts = @ \cup {[key |-> req'[r].key,
                                        data |-> req'[r].data]}])

\* The lookup of the next wallet ends in the cache or starts a call.
Looked(q, r) ==
    LET p == [q EXCEPT !.left = @ \ {req'[r].key}]
    IN  IF req'[r].pc = "done" THEN Settled(p, r)
        ELSE [p EXCEPT !.open = @ \cup {r}]

Lookup(t, r) ==
    /\ turn = t
    /\ Hit(r) \/ Miss(r)
    /\ req'[r].key \in total[t].left
    /\ Put(t, Looked(total[t], r))
    /\ turn' = IF total[t].left = {req'[r].key} THEN None ELSE turn

-----------------------------------------------------------------------------
\* Nothing else of the process runs during a turn.
Between_Lookups == TRUE
Between == turn = None

\* getBalance and getBalanceById: one lookup, of the wallet that was found.
LookupOne(r) ==
    /\ Between
    /\ Hit(r) \/ Miss(r)
    /\ UNCHANGED <<total, turn>>

Settle(r) ==
    total' = [t \in Totals |-> IF r \in total[t].open THEN Settled(total[t], r)
                               ELSE total[t]]

Arrived(r) ==
    /\ Between
    /\ Store(r) \/ Fail(r)
    /\ Settle(r)
    /\ UNCHANGED turn

\* Horizon reads; the response of a single lookup is sent, or the promise of
\* a total's call has been settled.
Elsewhere(r) ==
    /\ Load(r) \/ Reply(r)
    /\ UNCHANGED <<total, turn>>

Leave(t) ==
    /\ total[t].pc = "ok"
    /\ Put(t, NoTotal)
    /\ UNCHANGED <<vars, turn>>

Pass ==
    /\ Between
    /\ Tick
    /\ UNCHANGED <<total, turn>>

TotalsNext ==
    \/ \E t \in Totals :
         \/ FindWallets(t) \/ Leave(t)
         \/ \E r \in Requests : Lookup(t, r)
    \/ \E r \in Requests : LookupOne(r) \/ Arrived(r) \/ Elsewhere(r)
    \/ Pass

TotalsSpec == TotalsInit /\ [][TotalsNext]_allVars

-----------------------------------------------------------------------------
TotalsTypeOK ==
    /\ total \in [Totals -> Total]
    /\ turn \in Totals \cup {None}

\* A total that is answered has one balance for each wallet, and the moments
\* at which they were read off the ledger are apart by less than the lifetime
\* of an entry and two latencies, however long ago each was cached: a payment
\* between two wallets of the user is counted twice, or not at all, only if
\* it is that recent.
TotalCoherent ==
    \A t \in Totals : total[t].pc = "ok" =>
      /\ {p.key : p \in total[t].parts} = total[t].wallets
      /\ \A p, q \in total[t].parts :
           /\ p.key = q.key => p = q
           /\ p.data - q.data <= Latency \/ p.data - q.data < TTL + 2 * Latency

\* A total never waits for nothing: until it is answered or given up it is
\* looking its wallets up, or waits for calls that are all still out and are
\* for wallets of its own, whatever becomes of calls that others have given up.
TotalWaitsForCalls ==
    \A t \in Totals : total[t].pc = "gather" =>
      /\ turn = t \/ total[t].open # {}
      /\ \A r \in total[t].open :
           Waiting(r) /\ req[r].key \in total[t].wallets
=============================================================================
