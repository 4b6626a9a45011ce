# Verification of StellarRemit-Backend

TLA+ modules, TLC configurations and TLAPS proofs for the NestJS backend in
`src/`: accounts and sessions, wallets of Stellar public keys, a cache of
balances read from Horizon, transaction records and clean-up jobs, over a
PostgreSQL database reached through Prisma.

## 1. Inventory

| Component (code) | State it keeps | Operations | Talks to |
|---|---|---|---|
| Wallet endpoints (`src/src/wallet/wallet.service.ts`) | rows of `Wallet` | `create`, `upsert`, `fund`, `setDefault`, `delete`; lists, search | database, friendbot |
| Balances of a user (same file) | none | `getBalance`, `getBalanceById`, `getTotalBalance` | database, balance cache |
| Balance cache (`src/src/stellar/stellar.service.ts`) | an insertion-ordered `Map` in memory | `getBalances`, `setCacheEntry` | Horizon |
| Payments and friendbot (same file) | none; sequence numbers live on the ledger | `sendPayment` (no caller yet), `fundAccount` | Horizon, friendbot |
| Sessions (`src/src/auth/auth.service.ts`, `jwt.strategy.ts`) | `User.refreshTokenHash`, rows of `BlacklistedToken`, tokens in clients' hands | `login`, `refresh`, `logout`, `validate` before every authenticated request | database, clean-up |
| Accounts (`auth.service.ts`, `src/src/users/users.service.ts`) | the other columns of `User` | `register`, `verifyEmail`, `update`, `softDelete`, reads | database |
| Clean-up (`src/src/cleanup/cleanup.service.ts`) | none | daily purge of expired blacklist entries, weekly purge of accounts deleted 30 days ago | database |
| Transactions (`src/src/transactions/transactions.service.ts`, `wallet.service.ts`, `users.service.ts`) | rows of `Transaction` | `create`, `updateStatus`, two listings in pages, the listing of a wallet, receipts, the statistics of a user | database |
| Health check, HTTP plumbing, configuration, seed | none | | |

Components call each other directly inside one Node process; what they share
is the database. There is no `$transaction` anywhere: a handler is a chain of
awaited Prisma calls, each one SQL statement in a transaction of its own. Between
two of them run other requests, both clean-up jobs, and failures.

What is hard in each component, and what makes it correct:

- **Wallets.** Uniqueness of a key, ownership and the default flag are each
  checked in one statement and acted on in another. Correct means: one row per
  key, no row without an owner, nobody touches another user's rows, a user with
  wallets has one default, the one that was asked for, and friendbot is called for
  keys that are free or the caller's own.
- **Balance cache.** Nothing joins two fetches of one key, answers overtake each
  other, and eviction happens before the code knows whether the key is new.
  Correct means: the limit holds, and answers are no older, and go back in time no
  further, than lifetime and latency explain.
- **Sessions.** A token is verified, then looked up, then its account is read;
  logout writes three times; a registration opens a session after its account
  can be used; clean-up removes blacklist entries by the clock.
  Correct means: what has been revoked stays revoked, and a closed session is
  opened by a login only.
- **Accounts.** E-mail uniqueness is checked apart from the write; registration
  writes twice; soft deletion and purge race use. Correct means: one account per
  e-mail, conflicts are answered as conflicts, deletion is final after its term.
- **Clean-up.** Runs beside requests; a foreign key without cascade
  (`Transaction.sender`) makes the purge of accounts all or nothing.
- **Balances of a user.** A total adds up balances of different age, some cached, some
  loaded now; one failure answers for all while the other calls go on. Correct means:
  an answered total lacks no wallet, and its parts are of nearly one moment.
- **Transactions.** Page and total, and the numbers of the statistics, come from queries
  run side by side over a table that changes; pages are cut by offset while rows come
  in, in another order than their `createdAt`. Correct means: a client that walks
  through the pages misses nothing, and numbers disagree only by what changed
  between the queries.
- **Payments.** Sequence numbers are read and used apart; an answer may be lost
  after the effect, and a post may arrive after it was given up. Correct means: success
  and refusal are true and stay true, and the time bound makes every other answer final.

`PROJECT.json` lists the hazards line by line with the properties that cover them.

## 2. Modules

| Module | What it is |
|---|---|
| `WalletService` | the five mutating wallet endpoints over the `Wallet` table, friendbot, the purge of accounts, failures |
| `WalletBook` | abstract: what a user who makes one request at a time sees, a book of wallets whose default changes atomically |
| `WalletRefinesBook` | the mapping from `WalletService` to `WalletBook` |
| `WalletServiceProofs` | theorems about the table: types, uniqueness, isolation, one default, what registrations are told |
| `WalletDefaultsProofs` | theorems about defaults: that there is one, how many there may be, what a change of default tells, and that the service implements the book |
| `BalanceCache` | `getBalances` and its cache |
| `BalanceCacheProofs` | theorems about `BalanceCache` |
| `Balances` | composition: the balance endpoints of the wallet service over `BalanceCache` |
| `BalancesProofs` | that `Balances` uses the cache by its rules, and theorems about totals |
| `Sessions` | login, refresh, logout, the second write of a registration, the check of every request, the blacklist and its clean-up |
| `SessionsProofs` | theorems about `Sessions` |
| `Accounts` | registration, verification, change of e-mail, soft deletion, and the purge as transactions and dates restrict it |
| `AccountsProofs` | theorems about `Accounts` |
| `Transactions` | creation and status of transactions, listings in pages, statistics |
| `TransactionsProofs` | theorems about `Transactions` |
| `Payments` | `sendPayment` over an unreliable network and the ledger |
| `PaymentFates` | abstract: what the user of a payment is promised, open for a bounded time, then made or lost for good |
| `PaymentsRefineFates` | the mapping from `Payments` to `PaymentFates` |
| `PaymentsProofs` | theorems about `Payments`, and that it implements `PaymentFates` |
| `MCWallet`, `MCBalances`, `MCSessions`, `MCAccounts`, `MCTransactions`, `MCPayments` | model values, small sets and symmetry for TLC |

Conventions:

- **One Prisma call is one action**, merged with the code that runs up to the next
  await. A request is a record in a slot (`req[r]`) with its own `pc`, named for
  the statement it is about to make, and the values the handler keeps in local
  variables across awaits, stale or not.
- An action per outcome where the outcomes differ much (`KeyFree`, `KeyTaken`,
  `KeyOwned`), else one action with a condition.
- Failures: `Abort` ends a request at any await. What it wrote stays. An error
  raised after the database has committed is the write followed by `Abort`.
- A definition `X_Suffix` stands before `X` and is `X` with a plausible bug.
  Nothing uses it; each one was put in the place of `X` to see that a property
  fails (the list is `mutants` in `PROJECT.json`).
- History variables, marked as such, are read by properties only (`torn`,
  `newest`, `revoked`, `deletions`, and the fields `known`, `touched`, `owed`,
  `builtAt`, `answeredAt`).
- Queries of one `Promise.all` are steps of their own, in any order.

### WalletService

`wallets` is the table, `users` the ids in `User`. Ids are numbers in the order
of insertion; the order of `createdAt`, by which `delete` picks the oldest wallet
left, is taken to be the same (two insertions in the same millisecond, or
statements whose `now()` is in another order than their commits, are not
distinguished). `BeginRegister` and `BeginOnWallet` are clients: any user, any
key, any id that is or was some wallet's. `create`, `upsert` and `fund` then run
`findKey`, (`friendbot`,) `count`, `insert`; `setDefault` runs `findOwn`, `clear`,
`mark`; `delete` runs `findOwn`, `remove`, `pick`, `promote`. `InsertAllowed`
is the two constraints of the schema, the unique `publicKey` and the foreign
key. `FriendbotFails` includes the case that friendbot paid and its answer was
lost. `Purge` deletes any set of accounts with their wallets (`onDelete: Cascade`):
tokens of a soft-deleted account stay valid, so its requests may be in flight.

Left out: labels, the reads that change nothing (`getAll`, `searchByLabel`), the format
check of keys by the DTOs, the row `fund` returns. Balances are in `Balances`, the
transactions of a wallet in `Transactions`. There are finitely many slots
(`RequestsAssumption`): a process serves finitely many requests at once.

Switches: `Serial` (each user waits for an answer), `Faults` (requests may
die), `Testnet`.

### BalanceCache

`balanceCache` is the `Map` as the sequence of its entries. A balance is
identified with the moment at which Horizon read it, which is all a property
about staleness can tell apart. `Hit` and `Miss` are the two branches of
`getBalances`; `Load` is Horizon reading the ledger; `Store` is `setCacheEntry`
and the return; `Fail` the `catch` (three messages, one effect). `Latency` is an
assumption about Horizon, the longest from a call to its answer; nothing in the code
enforces one, and the two properties about age are stated relative to it.

### Balances

`getTotalBalance` finds the wallets and starts all its `getBalances` calls in one turn
of the event loop: `map` runs each up to its first await, so the cache is asked for
every wallet before anything else of the process runs. The lookups are steps of
`BalanceCache` all the same (`Lookup`), and `turn` keeps every other step of the process,
and the clock, from coming between them; only Horizon, which is elsewhere, goes on
(`Elsewhere`). `Promise.all` settles with the last call or the first failure
(`Settled`): a failure answers 400, the other calls go on and what they load is
cached. Which wallets a user has is any set. `getBalance` and `getBalanceById` are one
lookup (`LookupOne`).

### Sessions

A token is its kind, account and second of issue: `jwt.sign` puts nothing else in
it, so two logins in one second hand out the same string. `hash[u]` is the token
whose bcrypt hash the account stores. bcrypt (the `bcrypt` package is external)
reads the first 72 bytes of its input; in these tokens they hold the header and the
beginning of the user id, so `Usable` compares users. Signatures are
taken to hold: requests carry tokens from `issued` only, or `Garbage`, a string that
does not decode (400, after the access token was blacklisted). A step each:
`validate` is `Check` and `Account`; `logout` is `Revoke`, `RevokeExtra`, `Clear`;
`refresh` is `Lookup` (with the verification, in the same turn), `Read`, `Compare`,
`Store`; `login` is `Find`, `Sign`, `Store`. `logout` may be given any issued token as
its refresh token, access tokens too, since `blacklistToken` only decodes it. The clock
counts seconds, as jsonwebtoken does; `Cleanup` compares milliseconds, so within the
second of expiry it may go either way, and its date is any up to now, since it is taken
before the statement is executed.

Initially the accounts exist with no hash, and the registration of any of them may still
be in progress (`Registering`): its account is inserted and can be used, its tokens are
yet to be signed (`Sign`) and its hash to be stored (`Store`), however late. What
`register` does before is in `Accounts`.

### Accounts

`accounts` is the table `User` without password and hash; `senders` the senders
that rows of `Transaction` refer to. Ids are numbers in the order of insertion.
`register` runs `findEmail`, `create`, `storeHash`; `update` runs `findEmail` and
`write`, or `write` alone when the e-mail is left out; `softDelete` is `stamp`;
`verifyEmail` runs `findToken`, `confirm`. `softDelete` takes its date when it makes its
statement, a step before the row has it, so of two that overlap the older date may come
last; `Purge` takes its date before its statement too, so that it may be any up to now.
`deletions` remembers for each account the dates of the requests to delete it that were in
progress when the last of them was executed. `EmailAllowed` is the unique constraint;
`WriteFails` the violation of it, or a row that is gone, which nobody catches: the
exception filter answers 500. Requests come from accounts already marked as deleted
too, since `JwtStrategy.validate` does not look at `deletedAt`. Clock and
term count in the same unit; the weekly `Purge` may run at any time. It fails as a
whole when one account that is due has transactions (`Blocked`), and then changes
nothing. bcrypt and the signing of tokens change no state that is modelled.

### Transactions

`rows` is the table, in which `recipient` stands for the columns that never change.
`createdAt` is taken when the statement is made (`BeginCreate`) and the row appears
when it is executed (`Insert`), so rows appear out of order. `UpdateStatus` is one
`updateMany`; any status may follow any other. Nothing deletes rows: no endpoint does,
and `Accounts!SendersStay` is about the purge. Each query of `findAll`,
`findByWallet` and `getTransactions` (`FindMany`, `Count`) and of `getStats` (`CountAll`,
`Sum`, `CountPending`) is a step. `Take` and `Skip` are computed as the code does, from any
integers; `Leading` and `Cut` say which rows a query with `orderBy createdAt` may
return: rows of one moment in any order, and from the other end when `take` is
negative, as Prisma does. A client that walks asks for the next page while pages are
full (`NextPage`); `owed` remembers the rows that the listing had when the walk began
and that the client has not been given, `touched` the rows that came or changed
during the current request. The wallet's listing looks the wallet up first
(`WalletFound`, `WalletMissing`: which it is, is up to `WalletService`). The fourth query
of `getStats`, the count of wallets (`src/src/users/users.service.ts:48`), is left out: it
shares no table with the others, and no relation between them and it is claimed.

### Payments

Calls of `sendPayment` run `load`, `build`, `sent`, `pending`. The network is external:
Horizon keeps one transaction of an account waiting and refuses what does not have the
next number, is late, or has a rival (`Accepted`, `Rejected`); the ledger applies what
waits, paying or not, within its time bound (`Apply`, `Expire`); an answer may not come
(`GiveUp`), and the post that was given up may still arrive (`stray`, `Arrives`). Answers
are the exceptions of the `catch`: "Payment failed" is the same text for a refusal
(status 400) and for an error that decides nothing, so the model names them apart
(`refused`, `undecided`), which a caller can do by the message only. A transaction is
identified by its content, as its hash is: two calls that make the same payment from
the same number in one second make one transaction. Clock and time bound are seconds;
Horizon and the client agree on the time.

`PaymentFates` knows nothing of sequence numbers, of Horizon or of lost answers: a payment
is sent, is open for a bounded time, and is then made or lost; the caller is told of
success when it is made and of a refusal when it is not open any more. `PaymentsRefineFates`
maps to it: a payment is open while a call with it is on its way, in Horizon or stray,
and could still be applied.

## 3. Runs

| Run | Question | Bounds | Distinct states |
|---|---|---|---|
| `wallet_concurrent` | do the table and isolation survive any interleaving, failure and purge; how many default flags leak? | 2 users, 3 keys, 2 requests, 3 rows ever | about 850 000 |
| `wallet_growth` | without deletes and failures, is a default ever missing for good? | 2 users, 2 keys, 2 requests, 3 rows | about 266 000 |
| `wallet_serial` | do users who wait for answers see the abstract book, and are they told the truth about registrations and defaults? | as `wallet_concurrent` | about 148 000 |
| `wallet_fund_check` | is friendbot kept from other users' keys? Refuted | 2 users, 2 keys, 2 requests | |
| `balances` | limit, age and order of answers; are totals complete and of one moment, and do they never wait for nothing? | 3 accounts, 2 entries, 2 calls, 1 total, lifetime 2, latency 1, time 4 | about 1 573 000 |
| `sessions` | does a revoked token stay revoked, and when is a logout final, under concurrency, failure, clean-up? | 1 user, 2 requests, one of which may be its registration, lifetimes 1 and 2, time 2 | about 2 670 000 |
| `sessions_serial` | does only a login reopen a session; is the stored hash the newest? | as above, time 3, one request at a time | about 175 000 |
| `sessions_logout` | the same without waiting, refuted | as above | |
| `accounts` | one account per e-mail, no transaction without its sender, no purge before the term, none at all while one account holds it back? | 2 e-mails, 2 accounts ever, 2 requests, term 1, time 3 | about 1 532 000 |
| `accounts_conflict` | is a taken e-mail always answered by a conflict? Refuted | 3 accounts ever, time 2 | |
| `transactions` | does a walk miss rows; do page and total, and the statistics, fit together? | 1 user, 2 keys, 2 writers, 1 reader, pages of at most 2, 3 rows, 2 statuses, time 1 | about 1 858 000 |
| `payments` | are answers true; is the time bound final; is a refusal ever without a cause; is all of it what `PaymentFates` promises? | 3 calls, 2 payments, bound 1, time 2 | about 2 665 000 |

Why the bounds are enough to be interesting: every race in the wallet code is
between two requests, or a request and the purge, so two slots meet all of them;
three rows let a user lose a default and have two wallets left to choose from
(this is what tells the oldest from the newest); two users are needed for ownership.
Three accounts over two cache entries force eviction with and without the key
present; a total of two wallets can have one of them cached, and time 4 is one lifetime
and two latencies, the distance `TotalCoherent` speaks of. In `sessions`
both kinds of token expire within the bound, so clean-up has something to take; two
users add nothing, since sessions of different users share no row. In `accounts`
time 3 with term 1 lets an account be deleted, deleted again and purged at either
date, or be deleted by two requests that overlap, the older of them last, and two accounts
let one be the obstacle to the purge of the other. In
`transactions` the limits are one negative, one below and one above the largest page,
the pages 0 and 1 and those a walk goes on to; with pages of one row a walk over three
rows has four pages; two writers and time 1 let rows appear out of order and share a
`createdAt`; two statuses are one that counts as pending and one that does not
(`completed` is to the sum what `pending` is, `cancelled` what `failed` is); one user
suffices, as every query filters by the sender. In `payments` three calls let one be
refused for a second while a third is lost, and time 2 lets a bound of 1 run out. The
symmetry sets permute users, keys, slots and payments, which no definition tells
apart; the run with a liveness property has none.

`CHECK_DEADLOCK FALSE` stands in the wallet, session, transaction and payment runs
because all accounts may be purged, or because the clock, the rows and the calls are
bounded: then nothing is left to do. The runs of the balances and of the accounts check
for deadlock. In `accounts` this says little: a purge that finds nothing to do is a
step too.

**Fairness.** `wallet_growth` assumes weak fairness of `Serve(r)`, the statements a
request makes and its answer: the database answers every statement, and Node
runs continuations in turn. Nothing is assumed of clients, of friendbot (an
`https.get` without a timeout may hang), of failures or of the purge. The
abstract book and the other runs are safety only: calls to Horizon have no timeout of
the code's own, so nothing it does entitles a caller to an answer.

**What the properties say** (their comments in the modules say it at length):

- `TableOK`, `Isolation`: the table is sound although every
  check and its write are apart; the updates by id alone never hit another's row.
- `DefaultsBounded`: default flags do leak, but no more than requests run at once.
- `AtMostOneDefault`, `DefaultAtRest`: for users who wait, one default, unless a
  request died between two writes (`torn`).
- `DefaultTold`: for users who wait, a change of default that is answered with success
  leaves one default, the wallet named, or after a deletion the oldest wallet left. This
  repairs what an earlier request left behind that died half-way.
- `DefaultKept`, `DefaultRestored`: without deletes, only a `setDefault` between its
  two writes leaves no default, and it restores one.
- `RefinesBook`: for users who wait, every step is a step of `WalletBook` or none.
  The mapping shows a change of default when the first of its two writes happens.
- `RegistrationTold`: for users who wait, `create`, `upsert` and `fund` answer success only
  for a key that is then theirs, and an `upsert` or a `fund` of a key that is theirs already is
  not told a conflict.
- `CacheOK`, `FreshEnough`, `GoesBackBriefly`: the limit; no answer older than
  lifetime plus latency; balances seen for a key go back by at most one latency.
- `TotalCoherent`: an answered total has one balance for each wallet, and they were read
  off the ledger within a lifetime and two latencies of each other: a payment
  between two wallets of the user is counted twice, or not at all, only if it is that
  recent.
- `TotalWaitsForCalls`: a total that is not answered yet is looking its wallets up or waits
  for calls that are all still out, also after the calls of an earlier total were left
  behind; this is what there is to say about progress without a timeout in the code.
- `StaysRevoked`: a token revoked before the request came is accepted only if it
  expired between its verification and the look at the blacklist.
- `OnlyLoginReopens`, `Rotation`: see the runs. `LogoutFinal` is what is left of the first
  without waiting: once a hash is cleared, every refresh that had read it has ended, and
  so has the registration of the account, only a login opens the session.
- `TableOK` of `Accounts`: one account per e-mail although every look-up and its write
  are apart; `SendersStay`: no transaction loses its sender; `TermHonoured`: an account
  is purged only a whole term after the last request for its deletion, where of requests
  that were in progress at a time any may be the one that counts. `HeldBack`: while an
  account with transactions is due nobody is purged who was not due before it (the purge
  may have taken its date a while ago), and neither new requests of its
  owner nor time change that, only another request to delete it.
- `WalkComplete`: a client that reads page after page until one is not full has been
  given every row the listing had when it began, unless a row dropped out on the way.
  New rows push old ones back, so they may be given twice, but none is skipped; rows that
  share their `createdAt` are excepted, since `orderBy` leaves their order open.
- `PageFitsTotal`, `StatsAgree`: page and total, and the numbers of the statistics,
  differ only by rows that came or changed between their queries. The first holds for
  negative limits and page numbers too.
- `RefinesFates`: every step of `Payments` is a step of `PaymentFates` or none.
- `PaidInTime`: the ledger has only payments made within the time bound, and one per
  number. `AnswersTrue`: success has paid, and a refusal never will, unless two calls made
  one transaction. `RefusedForARival`: a refused call came too late, or another call used
  its number and is in the ledger or younger than the bound.

## 4. Where the code and its words differ

Each of these is a run that TLC refutes, with the trace in the run's output:

- `FundRespectsOwnership`: the ownership check "before funding to avoid irreversible
  friendbot calls" is stale by the time friendbot is called.
- `OnlyLoginReopens` without waiting: "Logout and revoke tokens", but a refresh that
  has read the hash before the logout stores a new one after it.
- `ConflictAnswered`: the API documents 409 for an e-mail that is taken, but of two
  requests that both found it free the loser answers 500.

The following were met while modelling. The model has the code's behaviour; no run
is about them:

- `upsert` "returns existing wallet without error if already registered by this user"
  (`src/src/wallet/wallet.service.ts:93`), but answers 409 when it loses a race against another
  request of the same user (line 114).
- A default wallet that is deleted is replaced as default (`src/src/wallet/wallet.service.spec.ts:197`),
  but not when a `setDefault` of that wallet comes between lookup and deletion.
- The API documents 404 for a change of status, a receipt or a wallet listing that finds
  nothing (`src/src/transactions/transactions.controller.ts:53`, `:68`, `:71`), but the change of status
  answers 200 with a count of zero, and so do the others with an empty answer.
- The listing's limit is "max: 100" (`src/src/transactions/transactions.controller.ts:28`); a negative limit
  passes `Math.min` and reads without a maximum, from the other end. `PaginationDto`,
  which has bounds, is not used there.
- Of two overlapping requests to delete an account the older date may be the one that
  stays (`src/src/users/users.service.ts:43`), so the term may count from a moment before the
  last request.
- A registration stores its hash when the account can already be used
  (`src/src/auth/auth.service.ts:37`): after a login and a logout in between it opens the
  session again that the logout has closed.
- `src/README.md:25` speaks of USDC payments; the asset's issuer is the sender's own key
  (`src/src/stellar/stellar.service.ts:81`).
- When an account is not found, the message of `sendPayment` names the destination
  although the account that was loaded is the sender's (`src/src/stellar/stellar.service.ts:95`), and "try again later" is said of
  payments that may still be applied.

## 5. Proofs

All theorems are of the full specification with the constants arbitrary, from the
assumptions the modules name: the bounds are numbers, the switches Booleans,
`None` (and `Garbage`) are not among the values they stand apart from, the cache's
limit is positive, an access token lives a positive time, request slots are finite. TLC
evaluates these assumptions in every run.

`WalletServiceProofs`
- `TypeCorrect` needs that a request at work has a user and, while adding, a key
  (`Fits`).
- `TableSafe` is inductive with the types: the unique constraint and the foreign key
  are checked by the inserting statement itself.
- `IsolationHolds` rests on `OwnInv`: at a statement by id alone,
  the row with that id, if there is one, belongs to the request's user. That is
  inductive because ids are never used twice and owners never change.
- `OneDefault` (for `Serial`) needs `StillTrue`: what a request has read still
  holds when it writes. A pending first insertion finds no rows, a pending second
  write finds no default, a `delete` that saw a default removes the only one. Other
  users' requests cannot disturb it, by isolation, and the same user has no other
  request.
- `RegistrationsToldTrue` (for `Serial`) needs `ToldInv` beside it: what a registration has
  found out about its key (`KeySeen`) is true until its insertion as far as it is about
  its own user: the key is not the user's when it was found free, and is the user's row
  when it was found owned. Only a step of the same user or the purge could change that.

`WalletDefaultsProofs`
- `DefaultWhenQuiet` (for `Serial`) and `DefaultBetweenWrites` (without deletions) share
  the invariant `KeptInv`: a user with wallets who is not `torn` has a default or a
  request at its second write (`KeptFor`), because what requests have read still holds
  in both settings (`Sees`).
- `DefaultsTold` (for `Serial`): a pending second write finds no default, so marking leaves
  the one it names (`StillTrue`), and a wallet about to be promoted is the oldest of its
  user's (`Sees`). Only `WriteDefault` answers success from there (`ToldByWrite`).
- `ServiceImplementsBook` (for `Serial`): initial states map to initial states, and each
  step to a step of the book or none (`NextBook`). What the book shows as default is the
  row with the flag or, between two writes, the row that is going to have it; that there
  is only one such row is `OneShown`, and that the oldest row left is well defined is
  `LeastNumber`, from the library's theorem on minima of well-founded relations.
- `FewDefaults` (without any waiting) rests on `FlagsInv`: flags and debts together never
  exceed the slots. A request owes a flag while it is about to insert a default, to mark
  or to promote one; a `delete` that has read a flag owes one as soon as another request
  takes it away. A step pays a debt with a flag, borrows a debt for one, lessens both,
  or clears the flags (`Moves`), and `Counting` does the arithmetic.

`BalanceCacheProofs`
- `CacheBounded`: evicting leaves room for one (`EvictedSafe`), setting fills it at
  most and keeps keys apart (`SetSafe`).
- `AnswersFresh`, `BackBriefly` rest on `EntryInv`: an entry expires by its data plus
  latency plus lifetime, and no balance handed out for its key is newer by more
  than the latency. The second part needs one entry per key, and that Horizon reads
  after it is asked and answers within the latency (`CallInv`).

`BalancesProofs`
- `UsesCache`: every behaviour of `Balances` is one of `BalanceCache`, so that module's
  theorems hold of the composition.
- `TotalsCohere` rests on `TotalsInv`: what is left, open or come are the wallets, each
  once (`Split`); calls of a total are its own (`Fits`); and since all lookups were made at
  one time, every part is as old as a lookup of that time allows (`Timed`).
- `TotalsWaitForCalls` adds `Busy` to `TotalsInv`: a gathering total has a wallet left or a
  call open. Open calls are still out by `Fits`: what ends a call settles it in every total
  that waits for it, in the same step.

`SessionsProofs`
- `RevokedForGood` rests on `RevokedInv`: a revoked token is on the blacklist or has
  expired. It is kept by clean-up because an entry lives exactly as long as its token
  (`EntriesInv`), and by time because expiry is final.
- `NewestHash` and `LoginReopens` (for `Serial`) rest on `SerialInv`: a user has one request
  (`Alone`), no token is of a later second than now (`SignedInv`), what a refresh has
  read of the hash still holds, and what is about to be stored is no older than all that
  was handed out (`StillTrue`).
- `LogoutsFinal` (without any waiting) rests on `OpInv`, that only a login, a refresh or a registration
  ever stores a hash. A step makes a request hold a user's hash only if it held one before or the
  account has one (`Reads`), so none comes to hold one in a closed session, and only a
  store can then end that.

`AccountsProofs`
- `EmailsUnique` needs that ids are positive and smaller than the next one (`IdInv`):
  a registration, which has id 0 until its row is inserted, is nobody's row.
- `SendersKept` follows from the foreign key, checked by both statements that could
  break it, the insertion and the purge.
- `PurgedInTime` rests on `DateInv`: the date an account carries is no older than that of
  some request for its deletion in progress when the last one was executed; the purge
  compares it with a cut-off at least one term back.
- `PurgeIsHeldBack`: senders only grow, time only passes, and every statement but the
  stamp and the purge leaves ids and dates of deletion alone (`RewriteKeeps`).

`TransactionsProofs`: `TransInv` has one part about the table (types, ids distinct and
smaller than the next one, the table finite) and three about each reader.
- `WalksComplete` needs `WalkInv`: a row that is still owed and shares its `createdAt` with
  none has at least as many newer rows in the listing as the pages read so far have
  places. New rows only add to them; `CutLemma` says that a page takes the rows
  with the right number before them.
- `PagesFit` needs `PageInv`: page and total were cut from listings that differ by the
  rows touched at most; `StatisticsAgree` needs `StatsInv`, the same for the numbers.
- `PageOfRow` and `OnOnePage` are about `Cut` itself, over any one table: a row whose
  `createdAt` no other shares is on the page that the number of rows newer than it gives,
  and on no other. They say what paging by offset is worth while nothing changes.
  That a page of every number exists is an induction over data and is not proved.

`PaymentsProofs`: `PayInv` says what each call knows at each of its steps, that
whatever waits or is applied was sent by a call, that the ledger has one transaction for
each number up to the account's, and that a refusal is final and has a reason. `OnTime`,
`AnswersHold` and `RefusalsExplained` follow from it. `PaymentsImplementFates` does too:
initial states map to initial states (`InitMapped`), a step of a call to a step of the
fates or none (`CallsMapped`), and so does a step of the network or of the ledger
(`NetworkMapped`): posts that arrive or are dropped only take transactions away from
those on their way, and a ledger closes all that are open at once, because they all have
the same number (`LedgerCloses`).

Model-checked only: `DefaultRestored`, since liveness is outside what the prover does.
The refuted statements are TLC's alone.

## 6. Not modelled

- **Health check**: one `SELECT 1` and a report; it keeps nothing.
- **HTTP plumbing, configuration, seed**: formatting, bootstrap, logging; throttling
  is the throttler library's.
- **Reading endpoints** of one query (`getAll`, `searchByLabel`, the receipt, profiles): they
  change nothing, and one statement is consistent in itself.
- **Passwords, labels, memos, amounts**: data that no behaviour over time depends on. The
  statistics add up amounts; the model keeps which rows were added.
- **A registration as a whole**: `Accounts` has its statements, `Sessions` its tokens and
  its hash; no module composes the two.
- **Conversion of amounts** (decimals to floating point in the receipt, strings to numbers in
  a total): arithmetic of one expression, better tested than model-checked.
