------------------------------- MODULE Sessions -------------------------------
(***************************************************************************)
(* Sessions: login, refresh, logout and the second write of a registration *)
(* (src/src/auth/auth.service.ts), the check every authenticated request   *)
(* passes (src/src/auth/jwt.strategy.ts), and the daily removal of expired *)
(* blacklist entries (src/src/cleanup/cleanup.service.ts).                 *)
(*                                                                         *)
(* One Prisma call is one step, together with the code up to the next      *)
(* await; comparing or making a bcrypt hash takes time, so it ends a step  *)
(* as well.  The clock counts seconds, as the claims of a token do.        *)
(*                                                                         *)
(* A definition whose name has a suffix after an underscore is the one     *)
(* without the suffix as a plausible bug would have it.                    *)
(***************************************************************************)
EXTENDS Integers

CONSTANTS
    Users,        \* the accounts that exist at the start
    Requests,     \* slots for requests being served at the same time
    AccessLife,   \* lifetime of an access token (1h)
    RefreshLife,  \* lifetime of a refresh token (30d)
    MaxTime,      \* bound on the clock
    Serial,       \* each user waits for an answer before the next request
    Faults,       \* a request may die at any of its awaits
    Garbage,      \* a refresh token that does not decode
    None          \* no user, no token, no hash

ASSUME LifeAssumption ==
    /\ {AccessLife, RefreshLife, MaxTime} \subseteq Nat
    /\ 0 < AccessLife /\ AccessLife < RefreshLife
ASSUME SwitchAssumption == {Serial, Faults} \subseteq BOOLEAN

(***************************************************************************)
(* A token is what it says: for whom, of which kind, issued in which       *)
(* second.  Two that agree in these are the same string.                   *)
(***************************************************************************)
Token == [kind: {"access", "refresh"}, user: Users, iat: Nat]

ASSUME NoneAssumption ==
    /\ None \notin Users \cup Token \cup {Garbage}
    /\ Garbage \notin Token

VARIABLES
    now,        \* the clock
    users,      \* ids of the rows of the User table
    hash,       \* User.refreshTokenHash: the token hashed, or None
    blacklist,  \* rows of the BlacklistedToken table
    issued,     \* tokens in the hands of clients
    req,        \* the request each slot is serving
    revoked     \* history: tokens ever put on the blacklist

vars == <<now, users, hash, blacklist, issued, req, revoked>>

Access(u, t) == [kind |-> "access", user |-> u, iat |-> t]
Refresh(u, t) == [kind |-> "refresh", user |-> u, iat |-> t]
Exp(t) == t.iat + (IF t.kind = "access" THEN AccessLife ELSE RefreshLife)

\* jsonwebtoken rejects a token in the second it expires.
Expired(t) == now >= Exp(t)

(***************************************************************************)
(* token is the one the request came with, extra the refresh token in      *)
(* logout's body, hash the hash a refresh has read, iat the second in      *)
(* which the new pair was signed.  known is history: the token had been    *)
(* revoked when the request came.                                          *)
(***************************************************************************)
Steps == {"find", "check", "account", "revoke", "revokeExtra", "clear",
          "lookup", "read", "compare", "sign", "store"}

Request ==
    [pc: Steps \cup {"idle"},
     op: {"none", "register", "login", "refresh", "logout", "me"},
     user: Users \cup {None}, token: Token \cup {None},
     extra: Token \cup {None, Garbage}, hash: Token \cup {None},
     iat: Nat, known: BOOLEAN]

Idle ==
    [pc |-> "idle", op |-> "none", user |-> None, token |-> None,
     extra |-> None, hash |-> None, iat |-> 0, known |-> FALSE]

At(r, pc) == req[r].pc = pc
Goto(r, pc) == [req[r] EXCEPT !.pc = pc]
Put(r, q) == req' = [req EXCEPT ![r] = q]
Answer(r) == Put(r, Idle)

Listed(t) == \E b \in blacklist : b.token = t

-----------------------------------------------------------------------------
\* A registration that has inserted its account has yet to sign the tokens of
\* the first session and to store the hash.
Registering(u) == [Idle EXCEPT !.pc = "sign", !.op = "register", !.user = u]

\* Every account exists; its registration may still be going on.
Init ==
    /\ now = 0
    /\ users = Users
    /\ hash = [u \in Users |-> None]
    /\ blacklist = {}
    /\ issued = {}
    /\ req \in [Requests -> {Idle} \cup {Registering(u) : u \in Users}]
    /\ \A r, x \in Requests : req[r].user = req[x].user => r = x \/ req[r] = Idle
    /\ revoked = {}

MayStart(u) == Serial => \A x \in Requests : req[x].user # u

BeginLogin(r) ==
    /\ At(r, "idle")
    /\ \E u \in Users :
         /\ MayStart(u)
         /\ Put(r, [Idle EXCEPT !.pc = "find", !.op = "login", !.user = u])
    /\ UNCHANGED <<now, users, hash, blacklist, issued, revoked>>

\* Any issued token may be presented as a refresh token; an access token is
\* signed with another secret and fails the verification after the lookup.
BeginRefresh(r) ==
    /\ At(r, "idle")
    /\ \E t \in issued :
         /\ MayStart(t.user)
         /\ Put(r, [Idle EXCEPT !.pc = "lookup", !.op = "refresh",
                      !.user = t.user, !.token = t, !.known = t \in revoked])
    /\ UNCHANGED <<now, users, hash, blacklist, issued, revoked>>

\* A request with an access token in its header: passport verifies it at
\* once.  Logout may bring any token, a string that is none, or nothing.
BeginWithAccess(r) ==
    /\ At(r, "idle")
    /\ \E t, x \in issued \cup {None, Garbage}, op \in {"logout", "me"} :
         /\ t \in issued /\ t.kind = "access" /\ ~Expired(t)
         /\ op = "me" => x = None
         /\ MayStart(t.user)
         /\ Put(r, [Idle EXCEPT !.pc = "check", !.op = op, !.user = t.user,
                      !.token = t, !.extra = x, !.known = t \in revoked])
    /\ UNCHANGED <<now, users, hash, blacklist, issued, revoked>>

-----------------------------------------------------------------------------
\* JwtStrategy.validate: the blacklist, then the account.  What an endpoint
\* other than logout ("me" stands for all of them) does next is no matter here.
Check(r) ==
    /\ At(r, "check")
    /\ IF Listed(req[r].token) THEN Answer(r) ELSE Put(r, Goto(r, "account"))
    /\ UNCHANGED <<now, users, hash, blacklist, issued, revoked>>

Account(r) ==
    /\ At(r, "account")
    /\ IF req[r].user \in users /\ req[r].op = "logout"
       THEN Put(r, Goto(r, "revoke")) ELSE Answer(r)
    /\ UNCHANGED <<now, users, hash, blacklist, issued, revoked>>

-----------------------------------------------------------------------------
\* The row blacklistToken writes; the lifetime comes from the exp claim.
Entry_InSeconds(t) == [token |-> t, expiresAt |-> 0]
Entry(t) == [token |-> t, expiresAt |-> Exp(t)]

Blacklist(t) ==
    /\ blacklist' = {b \in blacklist : b.token # t} \cup {Entry(t)}
    /\ revoked' = revoked \cup {t}

\* logout: the access token, then the refresh token, then the hash.
Revoke(r) ==
    /\ At(r, "revoke")
    /\ Blacklist(req[r].token)
    /\ CASE req[r].extra = None -> Put(r, Goto(r, "clear"))
         [] req[r].extra = Garbage -> Answer(r)
         [] OTHER -> Put(r, Goto(r, "revokeExtra"))
    /\ UNCHANGED <<now, users, hash, issued>>

RevokeExtra(r) ==
    /\ At(r, "revokeExtra")
    /\ Blacklist(req[r].extra)
    /\ Put(r, Goto(r, "clear"))
    /\ UNCHANGED <<now, users, hash, issued>>

\* The update fails if the account is gone.
Clear(r) ==
    /\ At(r, "clear")
    /\ hash' = [hash EXCEPT ![req[r].user] = None]
    /\ Answer(r)
    /\ UNCHANGED <<now, users, blacklist, issued, revoked>>

-----------------------------------------------------------------------------
\* login: findUnique by e-mail; the password may be wrong.
Find(r) ==
    /\ At(r, "find")
    /\ \/ req[r].user \in users /\ Put(r, Goto(r, "sign"))
       \/ Answer(r)
    /\ UNCHANGED <<now, users, hash, blacklist, issued, revoked>>

\* refresh: the blacklist and the verification, in one turn.
Lookup(r) ==
    /\ At(r, "lookup")
    /\ LET t == req[r].token
       IN  IF Listed(t) \/ t.kind # "refresh" \/ Expired(t) THEN Answer(r)
           ELSE Put(r, Goto(r, "read"))
    /\ UNCHANGED <<now, users, hash, blacklist, issued, revoked>>

Read(r) ==
    /\ At(r, "read")
    /\ IF req[r].user \notin users THEN Answer(r)
       ELSE Put(r, [Goto(r, "compare") EXCEPT !.hash = hash[req[r].user]])
    /\ UNCHANGED <<now, users, hash, blacklist, issued, revoked>>

\* bcrypt compares the first 72 bytes; in a token they hold the header and
\* the beginning of the user's id.
Usable_UnlessSet(t, h) == h # None => h.user = t.user
Usable(t, h) == h # None /\ h.user = t.user

Compare(r) ==
    /\ At(r, "compare")
    /\ IF Usable(req[r].token, req[r].hash)
       THEN Put(r, [Goto(r, "store") EXCEPT !.hash = None, !.iat = now])
       ELSE Answer(r)
    /\ UNCHANGED <<now, users, hash, blacklist, issued, revoked>>

\* login, once bcrypt has compared the passwords, and register, once the
\* account is inserted.
Sign(r) ==
    /\ At(r, "sign")
    /\ Put(r, [Goto(r, "store") EXCEPT !.iat = now])
    /\ UNCHANGED <<now, users, hash, blacklist, issued, revoked>>

NewHash_AccessToken(r) == Access(req[r].user, req[r].iat)
NewHash_OnlyFirst(r) ==
    IF hash[req[r].user] = None THEN Refresh(req[r].user, req[r].iat)
                                ELSE hash[req[r].user]
NewHash(r) == Refresh(req[r].user, req[r].iat)

\* updateRefreshTokenHash and the answer with the new pair.
Store(r) ==
    /\ At(r, "store")
    /\ req[r].user \in users
    /\ hash' = [hash EXCEPT ![req[r].user] = NewHash(r)]
    /\ issued' = issued \cup {Access(req[r].user, req[r].iat),
                              Refresh(req[r].user, req[r].iat)}
    /\ Answer(r)
    /\ UNCHANGED <<now, users, blacklist, revoked>>

StoreNothing(r) ==
    /\ At(r, "store")
    /\ req[r].user \notin users
    /\ Answer(r)
    /\ UNCHANGED <<now, users, hash, blacklist, issued, revoked>>

-----------------------------------------------------------------------------
Abort(r) ==
    /\ Faults
    /\ req[r].pc \in Steps
    /\ Answer(r)
    /\ UNCHANGED <<now, users, hash, blacklist, issued, revoked>>

\* cleanupExpiredTokens compares milliseconds: in the second a token expires
\* its entry may stay or go.  The statement may be executed any time after the
\* date in it was taken.
Cleanup ==
    /\ \E second \in -1 .. now :
         blacklist' = {b \in blacklist : b.expiresAt > second}
    /\ UNCHANGED <<now, users, hash, issued, req, revoked>>

\* cleanupSoftDeletedUsers.
Purge ==
    /\ \E u \in users : users' = users \ {u} /\ hash' = [hash EXCEPT ![u] = None]
    /\ UNCHANGED <<now, blacklist, issued, req, revoked>>

Tick ==
    /\ now < MaxTime
    /\ now' = now + 1
    /\ UNCHANGED <<users, hash, blacklist, issued, req, revoked>>

Step(r) ==
    \/ Check(r) \/ Account(r)
    \/ Revoke(r) \/ RevokeExtra(r) \/ Clear(r)
    \/ Find(r) \/ Lookup(r) \/ Read(r) \/ Compare(r) \/ Sign(r)
    \/ Store(r) \/ StoreNothing(r)

Next ==
    \/ \E r \in Requests :
         \/ BeginLogin(r) \/ BeginRefresh(r) \/ BeginWithAccess(r)
         \/ Step(r) \/ Abort(r)
    \/ Cleanup \/ Purge \/ Tick

Spec == Init /\ [][Next]_vars

-----------------------------------------------------------------------------
TypeOK ==
    /\ now \in Nat
    /\ users \subseteq Users
    /\ hash \in [Users -> [kind: {"refresh"}, user: Users, iat: Nat] \cup {None}]
    /\ blacklist \subseteq [token: Token, expiresAt: Nat]
    /\ issued \subseteq Token
    /\ req \in [Requests -> Request]
    /\ revoked \subseteq Token

\* The request's token passes the checks of JwtStrategy or of refresh.
Accepted(r) ==
    \/ At(r, "check") /\ req'[r].pc = "account"
    \/ At(r, "lookup") /\ req'[r].pc = "read"

\* A token that a logout had put on the blacklist before the request came is
\* not accepted; only when it expires between passport's verification and
\* the look at the blacklist may cleanup have taken its entry away in time.
\* (The order of the checks in validate and the clock of the cleanup job.)
StaysRevoked ==
    [][\A r \in Requests :
         req[r].known /\ Accepted(r) => Expired(req[r].token)]_vars

\* A session that logout has closed is opened again by a login only (and the
\* first one by the registration): no refresh stores a new hash over the null
\* that logout wrote.
OnlyLoginReopens ==
    [][\A u \in Users : hash[u] = None /\ hash'[u] # None =>
         \E r \in Requests :
           /\ At(r, "store") /\ req[r].op \in {"login", "register"}
           /\ req[r].user = u]_vars

\* Request r may store a hash for user u although it is no login: a refresh
\* that has read a hash, or the user's registration.
Holds(r, u) ==
    /\ req[r].user = u
    /\ \/ req[r].op = "register"
       \/ /\ req[r].op = "refresh"
          /\ At(r, "store") \/ (At(r, "compare") /\ req[r].hash # None)

Closed(u) == hash[u] = None /\ \A r \in Requests : ~Holds(r, u)

\* However requests interleave, a logout (or a purge) is final once the
\* refreshes that had read the hash before it have ended, and the user's
\* registration if it had not: whatever tokens clients still hold, only a
\* login opens a session of the user then.
LogoutFinal ==
    [][\A u \in Users : Closed(u) /\ ~Closed(u)' =>
         \E r \in Requests :
           At(r, "store") /\ req[r].op = "login" /\ req[r].user = u]_vars

\* The hash in the account is that of the newest refresh token handed out.
Rotation ==
    \A u \in Users : hash[u] # None =>
      \A t \in issued :
        t.kind = "refresh" /\ t.user = u => t.iat <= hash[u].iat
=============================================================================
