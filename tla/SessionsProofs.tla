---------------------------- MODULE SessionsProofs ----------------------------
(***************************************************************************)
(* Theorems about sessions, for every set of users and request slots, all  *)
(* lifetimes and every setting of the switches.                            *)
(***************************************************************************)
EXTENDS Sessions, TLAPS

\* A request at work has a user, one that came with a token has it, and a
\* logout about to revoke a second token has one that decodes.
Fits(q) ==
    /\ q.pc \in Steps => q.user \in Users
    /\ q.pc \in Steps \ {"find", "sign", "store"} => q.token \in Token
    /\ q.pc = "revokeExtra" => q.extra \in Token

TypeInv == TypeOK /\ \A r \in Requests : Fits(req[r])

\* A blacklist entry lives exactly as long as its token.
EntriesInv == \A b \in blacklist : b.expiresAt = Exp(b.token)

\* A token that was put on the blacklist is there until it has expired.
RevokedInv == \A t \in revoked : Listed(t) \/ Expired(t)

\* What a request knows about its token was true when it came, and a token
\* never leaves the history.
KnownInv == \A r \in Requests : req[r].known => req[r].token \in revoked

SessionInv == TypeInv /\ EntriesInv /\ RevokedInv /\ KnownInv

-----------------------------------------------------------------------------
(* Types.                                                                  *)

LEMMA TokensTyped ==
  /\ \A u \in Users, t \in Nat :
       /\ Access(u, t) \in Token
       /\ Refresh(u, t) \in [kind: {"refresh"}, user: Users, iat: Nat]
       /\ Refresh(u, t) \in Token
  /\ [kind: {"refresh"}, user: Users, iat: Nat] \subseteq Token
  /\ \A t \in Token : Exp(t) \in Nat /\ t.user \in Users
  BY LifeAssumption DEF Access, Refresh, Token, Exp

LEMMA IdleFits ==
  Idle \in Request /\ Fits(Idle) /\ Idle.known = FALSE /\ Idle.pc = "idle"
  BY DEF Idle, Request, Fits, Steps

\* The parts of a request that a step does not change.
LEMMA GotoFields ==
  ASSUME NEW r \in Requests, req[r] \in Request, NEW pc \in Steps
  PROVE  /\ Goto(r, pc) \in Request
         /\ Goto(r, pc).pc = pc /\ Goto(r, pc).user = req[r].user
         /\ Goto(r, pc).token = req[r].token
         /\ Goto(r, pc).extra = req[r].extra
         /\ Goto(r, pc).known = req[r].known
  BY DEF Goto, Request

LEMMA HashFields ==
  ASSUME NEW q \in Request, NEW h \in Token \cup {None}, NEW t \in Nat
  PROVE  /\ [q EXCEPT !.hash = h] \in Request
         /\ [q EXCEPT !.hash = h].pc = q.pc
         /\ [q EXCEPT !.hash = h].user = q.user
         /\ [q EXCEPT !.hash = h].token = q.token
         /\ [q EXCEPT !.hash = h].extra = q.extra
         /\ [q EXCEPT !.hash = h].known = q.known
         /\ [q EXCEPT !.iat = t] \in Request
         /\ [q EXCEPT !.iat = t].pc = q.pc
         /\ [q EXCEPT !.iat = t].user = q.user
         /\ [q EXCEPT !.iat = t].token = q.token
         /\ [q EXCEPT !.iat = t].extra = q.extra
         /\ [q EXCEPT !.iat = t].known = q.known
  BY DEF Request

\* What a step of request r may leave in its slot.
Lands(r, q) ==
    /\ q \in Request /\ Fits(q)
    /\ q.known => q.token \in revoked

LEMMA PutSafe ==
  ASSUME TypeInv, KnownInv, NEW r \in Requests, NEW q, Lands(r, q), Put(r, q),
         revoked \subseteq revoked'
  PROVE  /\ req' \in [Requests -> Request]
         /\ \A x \in Requests : Fits(req'[x])
         /\ KnownInv'
  BY DEF TypeInv, TypeOK, KnownInv, Lands, Put

LEMMA GotoLands ==
  ASSUME TypeInv, KnownInv, NEW r \in Requests, NEW pc \in Steps,
         At(r, "find") \/ req[r].token \in Token, req[r].user \in Users,
         At(r, "find") => pc = "sign",
         pc = "revokeExtra" => req[r].extra \in Token
  PROVE  Lands(r, Goto(r, pc))
<1>1. req[r] \in Request /\ (req[r].known => req[r].token \in revoked)
  BY DEF TypeInv, TypeOK, KnownInv
<1>2. QED
  BY <1>1, GotoFields DEF Lands, Fits, At

\* The registrations that may still be going on at the start.
LEMMA RegisteringFits ==
  ASSUME NEW u \in Users
  PROVE  LET q == Registering(u)
         IN  /\ q \in Request /\ Fits(q) /\ q.known = FALSE
             /\ q.pc = "sign" /\ q.op = "register" /\ q.user = u
  BY DEF Registering, Idle, Request, Fits, Steps

LEMMA StartOf ==
  ASSUME Init, NEW r \in Requests
  PROVE  req[r] = Idle \/ \E u \in Users : req[r] = Registering(u)
  BY DEF Init

LEMMA IdleLands == \A r \in Requests : Lands(r, Idle)
  BY IdleFits DEF Lands

-----------------------------------------------------------------------------
(* The steps of a request that touch nothing but its slot.                 *)

Quiet(r) ==
    \/ BeginLogin(r) \/ BeginRefresh(r) \/ BeginWithAccess(r)
    \/ Check(r) \/ Account(r) \/ Find(r) \/ Lookup(r) \/ Read(r)
    \/ Compare(r) \/ Sign(r) \/ StoreNothing(r) \/ Abort(r)

LEMMA AtWork ==
  ASSUME TypeInv, NEW r \in Requests
  PROVE  /\ req[r] \in Request
         /\ req[r].pc \in Steps => req[r].user \in Users
         /\ req[r].pc \in Steps \ {"find", "sign", "store"} =>
              req[r].token \in Token
         /\ req[r].pc = "revokeExtra" => req[r].extra \in Token
         /\ req[r].iat \in Nat
         /\ req[r].extra \in Token \cup {None, Garbage}
  BY DEF TypeInv, TypeOK, Fits, Request

LEMMA QuietLands ==
  ASSUME TypeInv, KnownInv, NEW r \in Requests, Quiet(r)
  PROVE  \E q : Lands(r, q) /\ Put(r, q)
<1>a. ASSUME Answer(r) PROVE \E q : Lands(r, q) /\ Put(r, q)
  BY <1>a, IdleLands DEF Answer
<1>1. CASE BeginLogin(r)
  <2>1. PICK u \in Users :
          Put(r, [Idle EXCEPT !.pc = "find", !.op = "login", !.user = u])
    BY <1>1 DEF BeginLogin
  <2>2. Lands(r, [Idle EXCEPT !.pc = "find", !.op = "login", !.user = u])
    BY DEF Lands, Idle, Request, Fits, Steps
  <2>3. QED
    BY <2>1, <2>2
<1>2. CASE BeginRefresh(r)
  <2>1. PICK t \in issued :
          Put(r, [Idle EXCEPT !.pc = "lookup", !.op = "refresh",
                    !.user = t.user, !.token = t, !.known = t \in revoked])
    BY <1>2 DEF BeginRefresh
  <2>2. t \in Token /\ t.user \in Users
    BY TokensTyped DEF TypeInv, TypeOK
  <2> DEFINE b == t \in revoked
  <2>3. b \in BOOLEAN
    OBVIOUS
  <2>4. ASSUME NEW k \in BOOLEAN, k => t \in revoked
        PROVE  Lands(r, [Idle EXCEPT !.pc = "lookup", !.op = "refresh",
                           !.user = t.user, !.token = t, !.known = k])
    BY <2>2, <2>4 DEF Lands, Idle, Request, Fits, Steps
  <2>5. QED
    BY <2>1, <2>3, <2>4
<1>3. CASE BeginWithAccess(r)
  <2>1. PICK t \in issued, x \in issued \cup {None, Garbage},
             op \in {"logout", "me"} :
          Put(r, [Idle EXCEPT !.pc = "check", !.op = op, !.user = t.user,
                    !.token = t, !.extra = x, !.known = t \in revoked])
    BY <1>3 DEF BeginWithAccess
  <2>2. t \in Token /\ t.user \in Users /\ x \in Token \cup {None, Garbage}
    BY TokensTyped DEF TypeInv, TypeOK
  <2> DEFINE b == t \in revoked
  <2>3. b \in BOOLEAN
    OBVIOUS
  <2>4. ASSUME NEW k \in BOOLEAN, k => t \in revoked
        PROVE  Lands(r, [Idle EXCEPT !.pc = "check", !.op = op,
                           !.user = t.user, !.token = t, !.extra = x,
                           !.known = k])
    BY <2>2, <2>4 DEF Lands, Idle, Request, Fits, Steps
  <2>5. QED
    BY <2>1, <2>3, <2>4
<1>4. CASE Check(r) \/ Account(r)
  BY <1>4, <1>a, AtWork, GotoLands DEF Check, Account, At, Steps
<1>5. CASE Find(r) \/ Lookup(r)
  BY <1>5, <1>a, AtWork, GotoLands DEF Find, Lookup, At, Steps
<1>6. CASE Read(r)
  <2>1. CASE Answer(r)
    BY <2>1, <1>a
  <2>2. CASE Put(r, [Goto(r, "compare") EXCEPT !.hash = hash[req[r].user]])
    <3>1. /\ Lands(r, Goto(r, "compare")) /\ Goto(r, "compare") \in Request
          /\ Goto(r, "compare").pc = "compare"
      BY <1>6, AtWork, GotoLands, GotoFields DEF Read, At, Steps
    <3>2. hash[req[r].user] \in Token \cup {None}
      BY <1>6, AtWork, TokensTyped DEF Read, At, Steps, TypeInv, TypeOK
    <3>3. Lands(r, [Goto(r, "compare") EXCEPT !.hash = hash[req[r].user]])
      BY <3>1, <3>2, HashFields DEF Lands, Fits
    <3>4. QED
      BY <2>2, <3>3
  <2>3. QED
    BY <1>6, <2>1, <2>2 DEF Read
<1>7. CASE Compare(r) \/ Sign(r)
  <2>1. CASE Answer(r)
    BY <2>1, <1>a
  <2>2. /\ req[r] \in Request /\ req[r].user \in Users
        /\ req[r].known => req[r].token \in revoked
        /\ "store" \in Steps /\ now \in Nat
    BY <1>7, AtWork DEF Compare, Sign, At, Steps, KnownInv, TypeInv, TypeOK
  <2>3. /\ Goto(r, "store") \in Request /\ Goto(r, "store").pc = "store"
        /\ Goto(r, "store").user = req[r].user
        /\ Goto(r, "store").token = req[r].token
        /\ Goto(r, "store").known = req[r].known
    BY <2>2, GotoFields
  <2>4. CASE Put(r, [Goto(r, "store") EXCEPT !.iat = now])
    <3>1. Lands(r, [Goto(r, "store") EXCEPT !.iat = now])
      BY <2>2, <2>3, HashFields DEF Lands, Fits
    <3>2. QED
      BY <2>4, <3>1
  <2>5. CASE Put(r, [Goto(r, "store") EXCEPT !.hash = None, !.iat = now])
    <3> DEFINE p == [Goto(r, "store") EXCEPT !.hash = None]
    <3>1. /\ p \in Request /\ p.pc = "store" /\ p.user = req[r].user
          /\ p.token = req[r].token /\ p.known = req[r].known
      BY <2>2, <2>3, HashFields
    <3>2. [Goto(r, "store") EXCEPT !.hash = None, !.iat = now]
            = [p EXCEPT !.iat = now]
      BY <2>3 DEF Request
    <3> HIDE DEF p
    <3>3. Lands(r, [p EXCEPT !.iat = now])
      BY <2>2, <3>1, HashFields DEF Lands, Fits
    <3>4. QED
      BY <2>5, <3>2, <3>3
  <2>6. QED
    BY <1>7, <2>1, <2>4, <2>5 DEF Compare, Sign
<1>8. CASE StoreNothing(r) \/ Abort(r)
  BY <1>8, <1>a DEF StoreNothing, Abort
<1>9. QED
  BY <1>1, <1>2, <1>3, <1>4, <1>5, <1>6, <1>7, <1>8 DEF Quiet

LEMMA QuietStep ==
  ASSUME SessionInv, NEW r \in Requests, Quiet(r)
  PROVE  SessionInv'
<1>1. UNCHANGED <<now, users, hash, blacklist, issued, revoked>>
  BY DEF Quiet, BeginLogin, BeginRefresh, BeginWithAccess, Check, Account,
         Find, Lookup, Read, Compare, Sign, StoreNothing, Abort
<1>2. PICK q : Lands(r, q) /\ Put(r, q)
  BY QuietLands DEF SessionInv
<1>3. /\ req' \in [Requests -> Request] /\ KnownInv'
      /\ \A x \in Requests : Fits(req'[x])
  BY <1>1, <1>2, PutSafe DEF SessionInv
<1>4. TypeInv'
  BY <1>1, <1>3 DEF SessionInv, TypeInv, TypeOK
<1>5. EntriesInv' /\ RevokedInv'
  BY <1>1 DEF SessionInv, EntriesInv, RevokedInv, Listed, Expired
<1>6. QED
  BY <1>3, <1>4, <1>5 DEF SessionInv

-----------------------------------------------------------------------------
(* The writes.                                                             *)

\* Putting a token on the blacklist.
LEMMA BlacklistSafe ==
  ASSUME SessionInv, NEW t \in Token, Blacklist(t), UNCHANGED now
  PROVE  /\ blacklist' \subseteq [token: Token, expiresAt: Nat]
         /\ revoked' \subseteq Token /\ revoked \subseteq revoked'
         /\ EntriesInv' /\ RevokedInv'
<1>1. /\ blacklist' = {b \in blacklist : b.token # t} \cup {Entry(t)}
      /\ revoked' = revoked \cup {t}
  BY DEF Blacklist
<1>2. /\ Entry(t) \in [token: Token, expiresAt: Nat]
      /\ Entry(t).token = t /\ Entry(t).expiresAt = Exp(t)
  BY TokensTyped DEF Entry
<1>3. /\ blacklist' \subseteq [token: Token, expiresAt: Nat]
      /\ revoked' \subseteq Token /\ revoked \subseteq revoked'
  BY <1>1, <1>2 DEF SessionInv, TypeInv, TypeOK
<1>4. EntriesInv'
  BY <1>1, <1>2 DEF SessionInv, EntriesInv
<1>5. RevokedInv'
  <2> SUFFICES ASSUME NEW x \in revoked',
                      ~(\E b \in blacklist' : b.token = x)
               PROVE  now >= Exp(x)
    BY DEF RevokedInv, Listed, Expired
  <2>1. x # t
    BY <1>1, <1>2
  <2>2. ~(\E b \in blacklist : b.token = x)
    BY <1>1, <2>1
  <2>3. QED
    BY <1>1, <2>1, <2>2 DEF SessionInv, RevokedInv, Listed, Expired
<1>6. QED
  BY <1>3, <1>4, <1>5

LEMMA RevokeStep ==
  ASSUME SessionInv, NEW r \in Requests, Revoke(r) \/ RevokeExtra(r)
  PROVE  SessionInv'
<1>1. UNCHANGED <<now, users, hash, issued>> /\ req[r].pc \in Steps
      /\ req[r].token \in Token /\ req[r].user \in Users
  BY AtWork DEF Revoke, RevokeExtra, At, Steps, SessionInv
<1>2. PICK t \in Token : Blacklist(t)
  BY <1>1, AtWork DEF Revoke, RevokeExtra, At, SessionInv
<1>3. \E q : Lands(r, q) /\ Put(r, q)
  <2>1. Lands(r, Goto(r, "clear"))
    BY <1>1, GotoLands DEF SessionInv, Revoke, RevokeExtra, At, Steps
  <2>2. req[r].extra \in Token => Lands(r, Goto(r, "revokeExtra"))
    BY <1>1, GotoLands DEF SessionInv, Revoke, RevokeExtra, At, Steps
  <2>3. CASE RevokeExtra(r)
    BY <2>1, <2>3 DEF RevokeExtra
  <2>4. CASE Revoke(r)
    <3>1. req[r].extra \in Token \cup {None, Garbage}
      BY AtWork DEF SessionInv
    <3>2. CASE req[r].extra = None
      BY <2>1, <2>4, <3>2, NoneAssumption DEF Revoke
    <3>3. CASE req[r].extra = Garbage
      BY <2>4, <3>3, IdleLands, NoneAssumption DEF Revoke, Answer
    <3>4. CASE req[r].extra \in Token
      BY <2>2, <2>4, <3>4, NoneAssumption DEF Revoke
    <3>5. QED
      BY <3>1, <3>2, <3>3, <3>4
  <2>5. QED
    BY <2>3, <2>4
<1>4. /\ blacklist' \subseteq [token: Token, expiresAt: Nat]
      /\ revoked' \subseteq Token /\ revoked \subseteq revoked'
      /\ EntriesInv' /\ RevokedInv'
  BY <1>1, <1>2, BlacklistSafe
<1>5. /\ req' \in [Requests -> Request] /\ KnownInv'
      /\ \A x \in Requests : Fits(req'[x])
  BY <1>3, <1>4, PutSafe DEF SessionInv
<1>6. QED
  BY <1>1, <1>4, <1>5 DEF SessionInv, TypeInv, TypeOK

\* Clearing and storing a hash.
LEMMA HashStep ==
  ASSUME SessionInv, NEW r \in Requests, Clear(r) \/ Store(r)
  PROVE  SessionInv'
<1>1. /\ UNCHANGED <<now, users, blacklist, revoked>> /\ Put(r, Idle)
      /\ req[r].user \in Users /\ req[r].iat \in Nat
  BY AtWork DEF Clear, Store, Answer, At, Steps, SessionInv
<1>2. hash' \in [Users -> [kind: {"refresh"}, user: Users, iat: Nat]
                           \cup {None}]
  <2>1. NewHash(r) \in [kind: {"refresh"}, user: Users, iat: Nat]
    BY <1>1, TokensTyped DEF NewHash
  <2>2. \E h \in [kind: {"refresh"}, user: Users, iat: Nat] \cup {None} :
          hash' = [hash EXCEPT ![req[r].user] = h]
    BY <2>1 DEF Clear, Store
  <2>3. QED
    BY <2>2 DEF SessionInv, TypeInv, TypeOK
<1>3. issued' \subseteq Token
  <2>1. CASE Clear(r)
    BY <2>1 DEF Clear, SessionInv, TypeInv, TypeOK
  <2>2. CASE Store(r)
    <3>1. Access(req[r].user, req[r].iat) \in Token
          /\ Refresh(req[r].user, req[r].iat) \in Token
      BY <1>1, TokensTyped
    <3>2. QED
      BY <2>2, <3>1 DEF Store, SessionInv, TypeInv, TypeOK
  <2>3. QED
    BY <2>1, <2>2
<1>4. /\ req' \in [Requests -> Request] /\ KnownInv'
      /\ \A x \in Requests : Fits(req'[x])
  BY <1>1, PutSafe, IdleLands DEF SessionInv
<1>5. EntriesInv' /\ RevokedInv'
  BY <1>1 DEF SessionInv, EntriesInv, RevokedInv, Listed, Expired
<1>6. QED
  BY <1>1, <1>2, <1>3, <1>4, <1>5 DEF SessionInv, TypeInv, TypeOK

\* Cleanup takes away entries of expired tokens only.
LEMMA CleanupStep ==
  ASSUME SessionInv, Cleanup
  PROVE  SessionInv'
<1>1. PICK second \in -1 .. now :
        blacklist' = {b \in blacklist : b.expiresAt > second}
  BY DEF Cleanup
<1>2. UNCHANGED <<now, users, hash, issued, req, revoked>>
      /\ blacklist' \subseteq blacklist
  BY <1>1 DEF Cleanup
<1>3. RevokedInv'
  <2> SUFFICES ASSUME NEW t \in revoked,
                      ~(\E b \in blacklist' : b.token = t)
               PROVE  now >= Exp(t)
    BY <1>2 DEF RevokedInv, Listed, Expired
  <2>1. CASE Listed(t)
    <3>1. PICK b \in blacklist : b.token = t
      BY <2>1 DEF Listed
    <3>2. b.expiresAt = Exp(t)
      BY <3>1 DEF SessionInv, EntriesInv
    <3>3. ~(b.expiresAt > second)
      BY <1>1, <3>1
    <3>4. now \in Nat /\ Exp(t) \in Nat
      BY TokensTyped DEF SessionInv, TypeInv, TypeOK
    <3>5. QED
      BY <3>2, <3>3, <3>4
  <2>2. CASE ~Listed(t)
    BY <2>2 DEF SessionInv, RevokedInv, Expired
  <2>3. QED
    BY <2>1, <2>2
<1>4. EntriesInv' /\ KnownInv'
  BY <1>2 DEF SessionInv, EntriesInv, KnownInv
<1>5. TypeInv'
  BY <1>2 DEF SessionInv, TypeInv, TypeOK
<1>6. QED
  BY <1>3, <1>4, <1>5 DEF SessionInv

LEMMA PurgeStep ==
  ASSUME SessionInv, Purge
  PROVE  SessionInv'
<1>1. PICK u \in users : users' = users \ {u} /\ hash' = [hash EXCEPT ![u] = None]
  BY DEF Purge
<1>2. UNCHANGED <<now, blacklist, issued, req, revoked>>
  BY DEF Purge
<1>3. TypeInv'
  BY <1>1, <1>2 DEF SessionInv, TypeInv, TypeOK
<1>4. QED
  BY <1>2, <1>3
     DEF SessionInv, EntriesInv, RevokedInv, KnownInv, Listed, Expired

LEMMA TickStep ==
  ASSUME SessionInv, Tick
  PROVE  SessionInv'
<1>1. /\ now' = now + 1 /\ now \in Nat
      /\ UNCHANGED <<users, hash, blacklist, issued, req, revoked>>
  BY DEF Tick, SessionInv, TypeInv, TypeOK
<1>2. RevokedInv'
  <2> SUFFICES ASSUME NEW t \in revoked, ~Listed(t)
               PROVE  now + 1 >= Exp(t)
    BY <1>1 DEF RevokedInv, Listed, Expired
  <2>1. now >= Exp(t) /\ Exp(t) \in Nat
    BY TokensTyped DEF SessionInv, RevokedInv, Expired, TypeInv, TypeOK
  <2>2. QED
    BY <1>1, <2>1
<1>3. TypeInv'
  BY <1>1 DEF SessionInv, TypeInv, TypeOK
<1>4. QED
  BY <1>1, <1>2, <1>3 DEF SessionInv, EntriesInv, KnownInv

-----------------------------------------------------------------------------
(* The theorems.                                                           *)

LEMMA InitInv == Init => SessionInv
<1> SUFFICES ASSUME Init PROVE SessionInv
  OBVIOUS
<1>1. \A r \in Requests :
        req[r] \in Request /\ Fits(req[r]) /\ req[r].known = FALSE
  BY IdleFits, RegisteringFits, StartOf
<1>2. req \in [Requests -> Request]
  BY <1>1 DEF Init
<1>3. TypeInv
  BY <1>1, <1>2 DEF Init, TypeInv, TypeOK
<1>4. QED
  BY <1>1, <1>3 DEF Init, SessionInv, EntriesInv, RevokedInv, KnownInv

LEMMA NextInv == SessionInv /\ [Next]_vars => SessionInv'
<1> SUFFICES ASSUME SessionInv, [Next]_vars PROVE SessionInv'
  OBVIOUS
<1>1. ASSUME UNCHANGED vars PROVE SessionInv'
  BY <1>1 DEF vars, SessionInv, TypeInv, TypeOK, EntriesInv, RevokedInv,
              KnownInv, Listed, Expired
<1>2. ASSUME NEW r \in Requests,
             \/ BeginLogin(r) \/ BeginRefresh(r) \/ BeginWithAccess(r)
             \/ Step(r) \/ Abort(r)
      PROVE  SessionInv'
  BY <1>2, QuietStep, RevokeStep, HashStep DEF Step, Quiet
<1>3. QED
  BY <1>1, <1>2, CleanupStep, PurgeStep, TickStep DEF Next

LEMMA Invariant == Spec => []SessionInv
  BY InitInv, NextInv, PTL DEF Spec

\* Every variable keeps its type.
THEOREM SessionTypes == Spec => []TypeOK
  BY Invariant, PTL DEF SessionInv, TypeInv

\* Only the steps that look at the blacklist accept a token.
LEMMA AcceptedBy ==
  ASSUME SessionInv, [Next]_vars, NEW r \in Requests, Accepted(r)
  PROVE  \/ Check(r) /\ ~Listed(req[r].token)
         \/ Lookup(r) /\ ~Listed(req[r].token) /\ ~Expired(req[r].token)
<1>1. req \in [Requests -> Request]
  BY DEF SessionInv, TypeInv, TypeOK
<1>2. ~UNCHANGED req
  BY DEF Accepted, At
<1>3. PICK x \in Requests :
        \/ BeginLogin(x) \/ BeginRefresh(x) \/ BeginWithAccess(x)
        \/ Step(x) \/ Abort(x)
  BY <1>2 DEF Next, vars, Cleanup, Purge, Tick
<1>4. \E q : req' = [req EXCEPT ![x] = q]
  BY <1>3 DEF BeginLogin, BeginRefresh, BeginWithAccess, Step, Abort, Check,
              Account, Revoke, RevokeExtra, Clear, Find, Lookup, Read,
              Compare, Sign, Store, StoreNothing, Put, Answer
<1>5. x = r
  BY <1>1, <1>4 DEF Accepted, At
<1>6. ASSUME Answer(r) PROVE FALSE
  BY <1>1, <1>6, IdleFits DEF Answer, Put, Accepted
<1>7. CASE At(r, "check")
  <2>1. Check(r)
    BY <1>3, <1>5, <1>6, <1>7
       DEF At, BeginLogin, BeginRefresh, BeginWithAccess, Step, Abort,
           Account, Revoke, RevokeExtra, Clear, Find, Lookup, Read, Compare,
           Sign, Store, StoreNothing
  <2>2. ~Listed(req[r].token)
    BY <1>6, <2>1 DEF Check
  <2>3. QED
    BY <2>1, <2>2
<1>8. CASE At(r, "lookup")
  <2>1. Lookup(r)
    BY <1>3, <1>5, <1>6, <1>8
       DEF At, BeginLogin, BeginRefresh, BeginWithAccess, Step, Abort,
           Account, Revoke, RevokeExtra, Clear, Find, Check, Read, Compare,
           Sign, Store, StoreNothing
  <2>2. ~Listed(req[r].token) /\ ~Expired(req[r].token)
    BY <1>6, <2>1 DEF Lookup
  <2>3. QED
    BY <2>1, <2>2
<1>9. QED
  BY <1>7, <1>8 DEF Accepted

\* A revoked token is not accepted again, unless it has expired since it was
\* verified (JwtStrategy.validate, refresh, cleanupExpiredTokens).
THEOREM RevokedForGood == Spec => StaysRevoked
<1>1. SessionInv /\ [Next]_vars =>
        [\A r \in Requests :
           req[r].known /\ Accepted(r) => Expired(req[r].token)]_vars
  BY AcceptedBy DEF SessionInv, KnownInv, RevokedInv
<1>2. QED
  BY <1>1, Invariant, PTL DEF Spec, StaysRevoked

-----------------------------------------------------------------------------
(* Users who wait for an answer (Serial).  What a refresh has read of the  *)
(* hash is then still so when it stores the new one, and no token was      *)
(* handed out since a pair was signed.                                     *)

Alone ==
    \A x, y \in Requests :
      req[x].user \in Users /\ req[y].user = req[x].user => x = y

\* What holds of a request q until its next step.
StillTrue(q) ==
    /\ q.pc = "find" => q.op = "login"
    /\ q.pc = "sign" => q.op \in {"login", "register"}
    /\ q.pc \in {"lookup", "read", "compare"} => q.op = "refresh"
    /\ q.pc = "store" => q.op \in {"login", "refresh", "register"}
    /\ q.pc = "compare" /\ q.user \in users => q.hash = hash[q.user]
    /\ q.pc = "store" /\ q.op = "refresh" /\ q.user \in users =>
         hash[q.user] # None
    /\ q.pc = "store" =>
         /\ q.iat <= now
         /\ \A t \in issued :
              t.kind = "refresh" /\ t.user = q.user => t.iat <= q.iat

SignedInv == \A t \in issued : t.iat <= now

SerialInv ==
    /\ SessionInv /\ Alone /\ SignedInv /\ Rotation
    /\ \A r \in Requests : StillTrue(req[r])

\* What a step that writes neither hash nor tokens may leave in slot r.
Follows(r, q) ==
    /\ q.user \in {None, req[r].user} \/ MayStart(q.user)
    /\ StillTrue(q)

LEMMA IdleFollows == \A r \in Requests : Follows(r, Idle)
  BY DEF Follows, StillTrue, Idle

LEMMA MoveFields ==
  ASSUME NEW r \in Requests, req[r] \in Request, NEW pc
  PROVE  /\ Goto(r, pc).pc = pc
         /\ Goto(r, pc).user = req[r].user /\ Goto(r, pc).op = req[r].op
         /\ \A h : LET q == [Goto(r, pc) EXCEPT !.hash = h]
                   IN  /\ q.pc = pc /\ q.user = req[r].user
                       /\ q.op = req[r].op /\ q.hash = h
         /\ \A i : LET q == [Goto(r, pc) EXCEPT !.iat = i]
                   IN  /\ q.pc = pc /\ q.user = req[r].user
                       /\ q.op = req[r].op /\ q.iat = i
         /\ \A h, i : LET q == [Goto(r, pc) EXCEPT !.hash = h, !.iat = i]
                      IN  /\ q.pc = pc /\ q.user = req[r].user
                          /\ q.op = req[r].op /\ q.iat = i
  BY DEF Goto, Request

LEMMA MoveFollows ==
  ASSUME SerialInv, NEW r \in Requests,
         Quiet(r) \/ Revoke(r) \/ RevokeExtra(r)
  PROVE  \E q : Follows(r, q) /\ Put(r, q)
<1>a. ASSUME Answer(r) PROVE \E q : Follows(r, q) /\ Put(r, q)
  BY <1>a, IdleFollows DEF Answer
<1>b. req[r] \in Request /\ StillTrue(req[r])
  BY AtWork DEF SerialInv, SessionInv
<1>c. now <= now
  BY DEF SerialInv, SessionInv, TypeInv, TypeOK
<1>1. CASE BeginLogin(r)
  <2>1. PICK u \in Users :
          /\ MayStart(u)
          /\ Put(r, [Idle EXCEPT !.pc = "find", !.op = "login", !.user = u])
    BY <1>1 DEF BeginLogin
  <2>2. Follows(r, [Idle EXCEPT !.pc = "find", !.op = "login", !.user = u])
    BY <2>1 DEF Follows, StillTrue, Idle
  <2>3. QED
    BY <2>1, <2>2
<1>2. CASE BeginRefresh(r)
  <2>1. PICK t \in issued :
          /\ MayStart(t.user)
          /\ Put(r, [Idle EXCEPT !.pc = "lookup", !.op = "refresh",
                       !.user = t.user, !.token = t, !.known = t \in revoked])
    BY <1>2 DEF BeginRefresh
  <2>2. ASSUME NEW k
        PROVE  Follows(r, [Idle EXCEPT !.pc = "lookup", !.op = "refresh",
                             !.user = t.user, !.token = t, !.known = k])
    BY <2>1 DEF Follows, StillTrue, Idle
  <2>3. QED
    BY <2>1, <2>2
<1>3. CASE BeginWithAccess(r)
  <2>1. PICK t \in issued, x \in issued \cup {None, Garbage},
             op \in {"logout", "me"} :
          /\ MayStart(t.user)
          /\ Put(r, [Idle EXCEPT !.pc = "check", !.op = op, !.user = t.user,
                       !.token = t, !.extra = x, !.known = t \in revoked])
    BY <1>3 DEF BeginWithAccess
  <2>2. ASSUME NEW k
        PROVE  Follows(r, [Idle EXCEPT !.pc = "check", !.op = op,
                             !.user = t.user, !.token = t, !.extra = x,
                             !.known = k])
    BY <2>1 DEF Follows, StillTrue, Idle
  <2>3. QED
    BY <2>1, <2>2
<1>4. CASE Check(r) \/ Account(r) \/ Find(r) \/ Lookup(r)
  <2>1. CASE Answer(r)
    BY <2>1, <1>a
  <2>2. CASE Put(r, Goto(r, "account")) \/ Put(r, Goto(r, "revoke"))
    <3>1. /\ Follows(r, Goto(r, "account")) /\ Follows(r, Goto(r, "revoke"))
      BY <1>b, MoveFields DEF Follows, StillTrue
    <3>2. QED
      BY <2>2, <3>1
  <2>3. CASE Find(r) /\ Put(r, Goto(r, "sign"))
    <3>1. Follows(r, Goto(r, "sign"))
      BY <1>b, <2>3, MoveFields DEF Follows, StillTrue, Find, At
    <3>2. QED
      BY <2>3, <3>1
  <2>4. CASE Lookup(r) /\ Put(r, Goto(r, "read"))
    <3>1. Follows(r, Goto(r, "read"))
      BY <1>b, <2>4, MoveFields DEF Follows, StillTrue, Lookup, At
    <3>2. QED
      BY <2>4, <3>1
  <2>5. QED
    BY <1>4, <2>1, <2>2, <2>3, <2>4 DEF Check, Account, Find, Lookup
<1>5. CASE Read(r)
  <2>1. CASE Answer(r)
    BY <2>1, <1>a
  <2>2. CASE Put(r, [Goto(r, "compare") EXCEPT !.hash = hash[req[r].user]])
    <3>1. Follows(r, [Goto(r, "compare") EXCEPT !.hash = hash[req[r].user]])
      BY <1>5, <1>b, MoveFields DEF Follows, StillTrue, Read, At
    <3>2. QED
      BY <2>2, <3>1
  <2>3. QED
    BY <1>5, <2>1, <2>2 DEF Read
<1>6. CASE Compare(r) \/ Sign(r)
  <2>1. CASE Answer(r)
    BY <2>1, <1>a
  <2>2. CASE Compare(r) /\ ~Answer(r)
    <3> DEFINE q == [Goto(r, "store") EXCEPT !.hash = None, !.iat = now]
    <3>1. Put(r, q) /\ Usable(req[r].token, req[r].hash) /\ At(r, "compare")
      BY <2>2 DEF Compare
    <3>2. /\ q.pc = "store" /\ q.user = req[r].user /\ q.op = "refresh"
          /\ q.iat = now
      BY <1>b, <3>1, MoveFields DEF StillTrue, At
    <3>3. req[r].user \in users => hash[req[r].user] # None
      BY <1>b, <3>1 DEF StillTrue, At, Usable
    <3>4. Follows(r, q)
      BY <1>c, <3>2, <3>3 DEF Follows, StillTrue, SerialInv, SignedInv
    <3>5. QED
      BY <3>1, <3>4
  <2>3. CASE Sign(r)
    <3> DEFINE q == [Goto(r, "store") EXCEPT !.iat = now]
    <3>1. Put(r, q) /\ At(r, "sign")
      BY <2>3 DEF Sign
    <3>2. /\ q.pc = "store" /\ q.user = req[r].user
          /\ q.op \in {"login", "register"} /\ q.iat = now
      BY <1>b, <3>1, MoveFields DEF StillTrue, At
    <3>3. Follows(r, q)
      BY <1>c, <3>2 DEF Follows, StillTrue, SerialInv, SignedInv
    <3>4. QED
      BY <3>1, <3>3
  <2>4. QED
    BY <1>6, <2>1, <2>2, <2>3
<1>7. CASE StoreNothing(r) \/ Abort(r)
  BY <1>7, <1>a DEF StoreNothing, Abort
<1>8. CASE Revoke(r) \/ RevokeExtra(r)
  <2>1. /\ Follows(r, Goto(r, "clear")) /\ Follows(r, Goto(r, "revokeExtra"))
    BY <1>b, MoveFields DEF Follows, StillTrue
  <2>2. QED
    BY <1>8, <1>a, <2>1 DEF Revoke, RevokeExtra
<1>9. QED
  BY <1>1, <1>2, <1>3, <1>4, <1>5, <1>6, <1>7, <1>8 DEF Quiet

LEMMA AloneKept ==
  ASSUME Serial, Alone, TypeInv, NEW r \in Requests, NEW q,
         Follows(r, q), Put(r, q)
  PROVE  Alone'
<1>1. /\ req \in [Requests -> Request]
      /\ \A x \in Requests : req'[x] = IF x = r THEN q ELSE req[x]
  BY DEF Put, TypeInv, TypeOK
<1>2. None \notin Users
  BY NoneAssumption
<1>3. QED
  BY <1>1, <1>2 DEF Alone, Follows, MayStart

\* Steps that change a slot but neither hash nor tokens.
LEMMA MoveStep ==
  ASSUME Serial, SerialInv, SessionInv', NEW r \in Requests,
         Quiet(r) \/ Revoke(r) \/ RevokeExtra(r)
  PROVE  SerialInv'
<1>1. UNCHANGED <<now, users, hash, issued>>
  BY DEF Quiet, BeginLogin, BeginRefresh, BeginWithAccess, Check, Account,
         Find, Lookup, Read, Compare, Sign, StoreNothing, Abort, Revoke,
         RevokeExtra
<1>2. PICK q : Follows(r, q) /\ Put(r, q)
  BY MoveFollows
<1>3. Alone'
  BY <1>2, AloneKept DEF SerialInv, SessionInv
<1>4. \A x \in Requests : req'[x] = IF x = r THEN q ELSE req[x]
  BY <1>2 DEF Put, SerialInv, SessionInv, TypeInv, TypeOK
<1>5. \A x \in Requests : StillTrue(req'[x])
  BY <1>2, <1>4 DEF Follows, SerialInv
<1>6. SignedInv' /\ Rotation' /\ \A x \in Requests : StillTrue(req[x])'
  BY <1>1, <1>5 DEF SerialInv, SignedInv, Rotation, StillTrue
<1>7. QED
  BY <1>3, <1>6 DEF SerialInv

\* Clearing and storing a hash touches no other request's user.
LEMMA WriteStep ==
  ASSUME Serial, SerialInv, SessionInv', NEW r \in Requests,
         Clear(r) \/ Store(r)
  PROVE  SerialInv'
<1> DEFINE u == req[r].user
<1>1. /\ UNCHANGED <<now, users>> /\ Put(r, Idle) /\ u \in Users
      /\ req[r].iat \in Nat
  BY AtWork DEF Clear, Store, Answer, At, Steps, SerialInv, SessionInv
<1>2. Alone'
  BY <1>1, AloneKept, IdleFollows DEF SerialInv, SessionInv
<1>3. /\ \A x \in Requests : req'[x] = IF x = r THEN Idle ELSE req[x]
      /\ \A x \in Requests \ {r} : req[x].user # u
      /\ hash \in [Users -> [kind: {"refresh"}, user: Users, iat: Nat]
                             \cup {None}]
  BY <1>1 DEF Put, SerialInv, SessionInv, TypeInv, TypeOK, Alone
<1>4. \A v \in Users : v # u => hash'[v] = hash[v]
  BY <1>3 DEF Clear, Store
<1>5. \A t \in issued' : t \in issued \/ t.user = u
  BY DEF Clear, Store, Access, Refresh
<1>6. \A x \in Requests \ {r} : StillTrue(req[x])'
  <2> SUFFICES ASSUME NEW x \in Requests \ {r} PROVE StillTrue(req[x])'
    OBVIOUS
  <2>1. req'[x] = req[x] /\ req[x].user # u /\ StillTrue(req[x])
    BY <1>3 DEF SerialInv
  <2>2. users' = users /\ users \subseteq Users
    BY <1>1 DEF SerialInv, SessionInv, TypeInv, TypeOK
  <2>3. req[x].user \in users => hash'[req[x].user] = hash[req[x].user]
    BY <2>1, <2>2, <1>4
  <2>4. \A t \in issued' : t.user = req[x].user => t \in issued
    BY <2>1, <1>5
  <2>5. QED
    BY <2>1, <2>2, <2>3, <2>4, <1>1 DEF StillTrue
<1>7. StillTrue(req[r])'
  BY <1>3 DEF StillTrue, Idle
<1>8. CASE Clear(r)
  <2>1. issued' = issued /\ hash'[u] = None
    BY <1>1, <1>3, <1>8 DEF Clear
  <2>2. SignedInv' /\ Rotation'
    BY <1>1, <1>4, <2>1 DEF SerialInv, SignedInv, Rotation
  <2>3. QED
    BY <1>2, <1>6, <1>7, <2>2 DEF SerialInv
<1>9. CASE Store(r)
  <2> DEFINE i == req[r].iat
  <2>1. /\ hash'[u] = Refresh(u, i) /\ At(r, "store")
        /\ issued' = issued \cup {Access(u, i), Refresh(u, i)}
    BY <1>1, <1>3, <1>9 DEF Store, NewHash
  <2>2. Refresh(u, i).iat = i /\ Access(u, i).iat = i /\ Refresh(u, i).user = u
        /\ Access(u, i).user = u /\ i <= i
    BY <1>1 DEF Refresh, Access
  <2>3. \A t \in issued : t.kind = "refresh" /\ t.user = u => t.iat <= i
    BY <2>1 DEF SerialInv, StillTrue, At
  <2>4. i <= now
    BY <2>1 DEF SerialInv, StillTrue, At
  <2>5. SignedInv'
    BY <1>1, <2>1, <2>2, <2>4 DEF SerialInv, SignedInv
  <2>6. Rotation'
    BY <1>4, <2>1, <2>2, <2>3 DEF SerialInv, Rotation
  <2>7. QED
    BY <1>2, <1>6, <1>7, <2>5, <2>6 DEF SerialInv
<1>10. QED
  BY <1>8, <1>9

\* Clean-up, the purge and time.
LEMMA OtherStep ==
  ASSUME SerialInv, SessionInv', Cleanup \/ Purge \/ Tick
  PROVE  SerialInv'
<1>1. /\ UNCHANGED <<issued, req>> /\ users' \subseteq users
      /\ users \subseteq Users /\ now \in Nat
      /\ hash \in [Users -> [kind: {"refresh"}, user: Users, iat: Nat]
                             \cup {None}]
  BY DEF Cleanup, Purge, Tick, SerialInv, SessionInv, TypeInv, TypeOK
<1>2. now' \in {now, now + 1}
  BY DEF Cleanup, Purge, Tick
<1>3. \A u \in Users : hash'[u] = hash[u] \/ (hash'[u] = None /\ u \notin users')
  BY <1>1 DEF Cleanup, Purge, Tick
<1>4. Alone'
  BY <1>1 DEF SerialInv, Alone
<1>5. SignedInv'
  <2>1. \A t \in issued : t.iat <= now /\ t.iat \in Nat
    BY DEF SerialInv, SessionInv, TypeInv, TypeOK, SignedInv, Token
  <2>2. QED
    BY <1>1, <1>2, <2>1 DEF SignedInv
<1>6. Rotation'
  BY <1>1, <1>3 DEF SerialInv, Rotation
<1>7. \A x \in Requests : StillTrue(req[x])'
  <2> SUFFICES ASSUME NEW x \in Requests PROVE StillTrue(req[x])'
    OBVIOUS
  <2>1. /\ StillTrue(req[x]) /\ req'[x] = req[x] /\ req[x].iat \in Nat
        /\ req[x].user \in users => req[x].user \in Users
    BY <1>1, AtWork DEF SerialInv, SessionInv
  <2>2. req[x].pc = "store" => req[x].iat <= now'
    BY <1>1, <1>2, <2>1 DEF StillTrue
  <2>3. QED
    BY <1>1, <1>3, <2>1, <2>2 DEF StillTrue
<1>8. QED
  BY <1>4, <1>5, <1>6, <1>7 DEF SerialInv

LEMMA SerialInit == Init => SerialInv
<1> SUFFICES ASSUME Init PROVE SerialInv
  OBVIOUS
<1>1. Alone
  <2>1. Idle.user = None
    BY DEF Idle
  <2>2. QED
    BY <2>1, NoneAssumption DEF Init, Alone
<1>2. \A r \in Requests : StillTrue(req[r])
  <2>1. StillTrue(Idle)
    BY DEF StillTrue, Idle
  <2>2. \A u \in Users : StillTrue(Registering(u))
    BY RegisteringFits DEF StillTrue
  <2>3. QED
    BY <2>1, <2>2, StartOf
<1>3. SignedInv /\ Rotation
  BY DEF Init, SignedInv, Rotation
<1>4. QED
  BY <1>1, <1>2, <1>3, InitInv DEF SerialInv

LEMMA SerialNext ==
  ASSUME Serial, SerialInv, [Next]_vars
  PROVE  SerialInv'
<1>1. SessionInv'
  BY NextInv DEF SerialInv
<1>2. ASSUME UNCHANGED vars PROVE SerialInv'
  BY <1>1, <1>2 DEF vars, SerialInv, Alone, SignedInv, Rotation, StillTrue
<1>3. ASSUME NEW r \in Requests,
             \/ BeginLogin(r) \/ BeginRefresh(r) \/ BeginWithAccess(r)
             \/ Step(r) \/ Abort(r)
      PROVE  SerialInv'
  BY <1>1, <1>3, MoveStep, WriteStep DEF Step, Quiet
<1>4. QED
  BY <1>1, <1>2, <1>3, OtherStep DEF Next

LEMMA SerialInvariant == Spec => [](Serial => SerialInv)
<1> DEFINE Inv == Serial => SerialInv
<1>1. Init => Inv
  BY SerialInit
<1>2. Inv /\ [Next]_vars => Inv'
  BY SerialNext
<1>3. QED
  BY <1>1, <1>2, PTL DEF Spec

\* For users who wait, the hash in the account is that of the newest refresh
\* token handed out (login, refresh, updateRefreshTokenHash): no request
\* stores the hash of an older pair over that of a newer one.
THEOREM NewestHash == Spec => [](Serial => Rotation)
<1>1. (Serial => SerialInv) => (Serial => Rotation)
  BY DEF SerialInv
<1>2. QED
  BY <1>1, SerialInvariant, PTL

\* Only the last step of a login, a refresh or a registration writes a hash
\* over null.
LEMMA ReopenedBy ==
  ASSUME SessionInv, [Next]_vars, NEW u \in Users,
         hash[u] = None, hash'[u] # None
  PROVE  \E r \in Requests : Store(r) /\ req[r].user = u
<1>1. hash \in [Users -> [kind: {"refresh"}, user: Users, iat: Nat]
                         \cup {None}]
  BY DEF SessionInv, TypeInv, TypeOK
<1>2. ~Purge
  BY <1>1 DEF Purge
<1>3. PICK r \in Requests : Clear(r) \/ Store(r)
  BY <1>2 DEF Next, vars, BeginLogin, BeginRefresh, BeginWithAccess, Step,
              Check, Account, Revoke, RevokeExtra, Find, Lookup, Read,
              Compare, Sign, StoreNothing, Abort, Cleanup, Tick
<1>4. ~Clear(r)
  BY <1>1 DEF Clear
<1>5. QED
  BY <1>1, <1>3, <1>4 DEF Store

\* For users who wait, a session that logout has closed is opened by a login
\* only, the first one by the registration (refresh, logout,
\* updateRefreshTokenHash).
THEOREM LoginReopens == ASSUME Serial PROVE Spec => OnlyLoginReopens
<1>1. (Serial => SerialInv) /\ [Next]_vars =>
        [\A u \in Users : hash[u] = None /\ hash'[u] # None =>
           \E r \in Requests :
             /\ At(r, "store") /\ req[r].op \in {"login", "register"}
             /\ req[r].user = u]_vars
  <2> SUFFICES ASSUME SerialInv, [Next]_vars, NEW u \in Users,
                      hash[u] = None, hash'[u] # None
               PROVE  \E r \in Requests :
                 /\ At(r, "store") /\ req[r].op \in {"login", "register"}
                 /\ req[r].user = u
    OBVIOUS
  <2>1. PICK r \in Requests : Store(r) /\ req[r].user = u
    BY ReopenedBy DEF SerialInv
  <2>2. StillTrue(req[r]) /\ At(r, "store") /\ u \in users
    BY <2>1 DEF SerialInv, Store
  <2>3. QED
    BY <2>1, <2>2 DEF StillTrue, At
<1>2. QED
  BY <1>1, SerialInvariant, PTL DEF Spec, OnlyLoginReopens

-----------------------------------------------------------------------------
(* What holds without waiting for answers: a logout is final once the      *)
(* refreshes that had read the hash before it, and the user's registration *)
(* if it had not, have ended.                                              *)

\* A request whose checks are those of a login is one.
OpOK(q) ==
    /\ q.pc = "find" => q.op = "login"
    /\ q.pc = "sign" => q.op \in {"login", "register"}
    /\ q.pc = "store" => q.op \in {"login", "refresh", "register"}
    /\ q.pc = "compare" => q.op = "refresh"
    /\ q.pc \in {"lookup", "read"} => q.op = "refresh"

\* Request q may store a hash of user u, as Holds says of a slot.
Holding(q, u) ==
    /\ q.user = u
    /\ \/ q.op = "register"
       \/ /\ q.op = "refresh"
          /\ q.pc = "store" \/ (q.pc = "compare" /\ q.hash # None)

OpInv == \A r \in Requests : OpOK(req[r])

\* What a step leaves in slot r: it may store a hash, other than a login, only
\* if it might before, or reads one now.
Reads(r, q) ==
    /\ OpOK(q)
    /\ \A u : Holding(q, u) => Holding(req[r], u) \/ hash[u] # None

LEMMA IdleReads == \A r \in Requests : Reads(r, Idle)
  BY DEF Reads, OpOK, Holding, Idle

\* Steps to where no hash is held.
LEMMA GotoReads ==
  ASSUME NEW r \in Requests, req[r] \in Request,
         NEW pc \in Steps \ {"compare", "store"},
         pc = "find" => req[r].op = "login",
         pc = "sign" => req[r].op \in {"login", "register"},
         pc \in {"lookup", "read"} => req[r].op = "refresh"
  PROVE  Reads(r, Goto(r, pc))
  BY MoveFields DEF Reads, OpOK, Holding

LEMMA StepReads ==
  ASSUME TypeInv, OpInv, NEW r \in Requests,
         Quiet(r) \/ Revoke(r) \/ RevokeExtra(r) \/ Clear(r) \/ Store(r)
  PROVE  \E q : Reads(r, q) /\ Put(r, q)
<1>a. ASSUME Answer(r) PROVE \E q : Reads(r, q) /\ Put(r, q)
  BY <1>a, IdleReads DEF Answer
<1>b. req[r] \in Request /\ OpOK(req[r])
  BY AtWork DEF OpInv
<1>1. CASE BeginLogin(r)
  <2>1. PICK u \in Users :
          Put(r, [Idle EXCEPT !.pc = "find", !.op = "login", !.user = u])
    BY <1>1 DEF BeginLogin
  <2>2. Reads(r, [Idle EXCEPT !.pc = "find", !.op = "login", !.user = u])
    BY DEF Reads, OpOK, Holding, Idle
  <2>3. QED
    BY <2>1, <2>2
<1>2. CASE BeginRefresh(r)
  <2>1. PICK t \in issued :
          Put(r, [Idle EXCEPT !.pc = "lookup", !.op = "refresh",
                    !.user = t.user, !.token = t, !.known = t \in revoked])
    BY <1>2 DEF BeginRefresh
  <2>2. ASSUME NEW k
        PROVE  Reads(r, [Idle EXCEPT !.pc = "lookup", !.op = "refresh",
                           !.user = t.user, !.token = t, !.known = k])
    BY DEF Reads, OpOK, Holding, Idle
  <2>3. QED
    BY <2>1, <2>2
<1>3. CASE BeginWithAccess(r)
  <2>1. PICK t \in issued, x \in issued \cup {None, Garbage},
             op \in {"logout", "me"} :
          Put(r, [Idle EXCEPT !.pc = "check", !.op = op, !.user = t.user,
                    !.token = t, !.extra = x, !.known = t \in revoked])
    BY <1>3 DEF BeginWithAccess
  <2>2. ASSUME NEW k
        PROVE  Reads(r, [Idle EXCEPT !.pc = "check", !.op = op,
                           !.user = t.user, !.token = t, !.extra = x,
                           !.known = k])
    BY DEF Reads, OpOK, Holding, Idle
  <2>3. QED
    BY <2>1, <2>2
<1>4. CASE Check(r) \/ Account(r)
  BY <1>4, <1>a, <1>b, GotoReads DEF Check, Account, Steps
<1>5. CASE Revoke(r) \/ RevokeExtra(r)
  <2>1. Reads(r, Goto(r, "clear")) /\ Reads(r, Goto(r, "revokeExtra"))
    BY <1>b, GotoReads DEF Steps
  <2>2. CASE RevokeExtra(r)
    BY <2>1, <2>2 DEF RevokeExtra
  <2>3. CASE Revoke(r)
    BY <1>a, <2>1, <2>3, AtWork, NoneAssumption DEF Revoke
  <2>4. QED
    BY <1>5, <2>2, <2>3
<1>6. CASE Find(r) \/ Lookup(r)
  BY <1>6, <1>a, <1>b, GotoReads DEF Find, Lookup, At, OpOK, Steps
<1>7. CASE Read(r)
  <2>1. CASE Answer(r)
    BY <1>a, <2>1
  <2>2. CASE Put(r, [Goto(r, "compare") EXCEPT !.hash = hash[req[r].user]])
    <3> DEFINE q == [Goto(r, "compare") EXCEPT !.hash = hash[req[r].user]]
    <3>1. /\ q.pc = "compare" /\ q.user = req[r].user /\ q.op = "refresh"
          /\ q.hash = hash[req[r].user]
      BY <1>7, <1>b, MoveFields DEF Read, At, OpOK
    <3> HIDE DEF q
    <3>2. Reads(r, q)
      BY <3>1 DEF Reads, OpOK, Holding
    <3>3. QED
      BY <2>2, <3>2 DEF q
  <2>3. QED
    BY <1>7, <2>1, <2>2 DEF Read
<1>8. CASE Compare(r)
  <2>1. CASE Answer(r)
    BY <1>a, <2>1
  <2>2. CASE ~Answer(r)
    <3> DEFINE q == [Goto(r, "store") EXCEPT !.hash = None, !.iat = now]
    <3>1. Put(r, q) /\ Usable(req[r].token, req[r].hash) /\ At(r, "compare")
      BY <1>8, <2>2 DEF Compare
    <3>2. q.pc = "store" /\ q.user = req[r].user /\ q.op = "refresh"
      BY <1>b, <3>1, MoveFields DEF OpOK, At
    <3> HIDE DEF q
    <3>3. Holding(req[r], req[r].user)
      BY <1>b, <3>1 DEF Holding, OpOK, At, Usable
    <3>4. Reads(r, q)
      BY <3>2, <3>3 DEF Reads, OpOK, Holding
    <3>5. QED
      BY <3>1, <3>4
  <2>3. QED
    BY <2>1, <2>2
<1>9. CASE Sign(r)
  <2> DEFINE q == [Goto(r, "store") EXCEPT !.iat = now]
  <2>1. /\ q.pc = "store" /\ q.user = req[r].user /\ q.op = req[r].op
        /\ q.op \in {"login", "register"}
    BY <1>9, <1>b, MoveFields DEF Sign, At, OpOK
  <2>2. Put(r, q)
    BY <1>9 DEF Sign
  <2> HIDE DEF q
  <2>3. Reads(r, q)
    BY <2>1 DEF Reads, OpOK, Holding
  <2>4. QED
    BY <2>2, <2>3
<1>10. CASE StoreNothing(r) \/ Abort(r) \/ Clear(r) \/ Store(r)
  BY <1>10, <1>a DEF StoreNothing, Abort, Clear, Store
<1>11. QED
  BY <1>1, <1>2, <1>3, <1>4, <1>5, <1>6, <1>7, <1>8, <1>9, <1>10 DEF Quiet

LEMMA HoldsIs ==
  /\ \A r \in Requests : \A u : Holds(r, u) <=> Holding(req[r], u)
  /\ (\A r \in Requests : \A u : Holds(r, u) <=> Holding(req[r], u))'
  BY DEF Holds, Holding, At

\* What a step does to closed sessions.
LEMMA ClosedStep ==
  ASSUME TypeInv, OpInv, [Next]_vars
  PROVE  /\ OpInv'
         /\ \A u \in Users : Closed(u) /\ ~Closed(u)' =>
              \E r \in Requests :
                At(r, "store") /\ req[r].op = "login" /\ req[r].user = u
<1>1. ASSUME NEW r \in Requests,
             Quiet(r) \/ Revoke(r) \/ RevokeExtra(r) \/ Clear(r) \/ Store(r)
      PROVE  /\ OpInv'
             /\ \A u \in Users : Closed(u) /\ ~Closed(u)' =>
                  At(r, "store") /\ req[r].op = "login" /\ req[r].user = u
  <2>1. PICK q : Reads(r, q) /\ Put(r, q)
    BY <1>1, StepReads
  <2>2. req'[r] = q /\ \A x \in Requests \ {r} : req'[x] = req[x]
    BY <2>1 DEF Put, TypeInv, TypeOK
  <2>3. OpInv'
    BY <2>1, <2>2 DEF OpInv, Reads
  <2>4. ASSUME NEW u \in Users, Closed(u), ~Closed(u)'
        PROVE  At(r, "store") /\ req[r].op = "login" /\ req[r].user = u
    <3>1. hash[u] = None /\ \A x \in Requests : ~Holding(req[x], u)
      BY <2>4, HoldsIs DEF Closed
    <3>2. \A x \in Requests : ~Holding(req'[x], u)
      BY <2>1, <2>2, <3>1 DEF Reads
    <3>3. hash'[u] # None
      BY <2>4, <3>2, HoldsIs DEF Closed
    <3>4. Store(r)
      <4>1. hash' # hash
        BY <3>1, <3>3
      <4>2. ~Clear(r)
        BY <3>1, <3>3 DEF Clear, TypeInv, TypeOK
      <4>3. Quiet(r) \/ Revoke(r) \/ RevokeExtra(r) => UNCHANGED hash
        BY DEF Quiet, BeginLogin, BeginRefresh, BeginWithAccess, Check,
               Account, Find, Lookup, Read, Compare, Sign, StoreNothing,
               Abort, Revoke, RevokeExtra
      <4>4. QED
        BY <1>1, <4>1, <4>2, <4>3
    <3>5. req[r].user = u /\ At(r, "store")
      BY <3>1, <3>3, <3>4 DEF Store, TypeInv, TypeOK
    <3>6. /\ req[r].op \in {"login", "refresh", "register"}
          /\ req[r].op \notin {"refresh", "register"}
      BY <3>1, <3>5 DEF OpInv, OpOK, Holding, At
    <3>7. QED
      BY <3>5, <3>6
  <2>5. QED
    BY <2>3, <2>4
<1>2. CASE Cleanup \/ Purge \/ Tick \/ UNCHANGED vars
  <2>1. req' = req
    BY <1>2 DEF Cleanup, Purge, Tick, vars
  <2>2. OpInv'
    BY <2>1 DEF OpInv
  <2>3. \A u \in Users : hash[u] = None => hash'[u] = None
    BY <1>2 DEF Cleanup, Purge, Tick, vars, TypeInv, TypeOK
  <2>4. \A u \in Users : Closed(u) => Closed(u)'
    BY <2>1, <2>3 DEF Closed, Holds, At
  <2>5. QED
    BY <2>2, <2>4
<1>3. QED
  BY <1>1, <1>2 DEF Next, Step, Quiet

\* A logout is final once the refreshes that had read the hash before it
\* have ended, and the registration if it had not: with any number of
\* requests in any order, only a login opens the session again (login,
\* register, refresh, logout, updateRefreshTokenHash).
THEOREM LogoutsFinal == Spec => LogoutFinal
<1> DEFINE A == \A u \in Users : Closed(u) /\ ~Closed(u)' =>
                  \E r \in Requests :
                    At(r, "store") /\ req[r].op = "login" /\ req[r].user = u
<1>1. Init => OpInv
  <2>1. OpOK(Idle) /\ \A u \in Users : OpOK(Registering(u))
    BY RegisteringFits DEF OpOK, Idle
  <2>2. QED
    BY <2>1, StartOf DEF OpInv
<1>2. SessionInv /\ OpInv /\ [Next]_vars => OpInv' /\ [A]_vars
  BY ClosedStep DEF SessionInv
<1>3. QED
  BY <1>1, <1>2, Invariant, PTL DEF Spec, LogoutFinal
=============================================================================
