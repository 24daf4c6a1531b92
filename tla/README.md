# Verification of keluarberapa

TLA+ models of the backend in `src/backend` (Go, PostgreSQL through pgx), the TLC
runs that check them on small instances, and theorems that TLAPS proves for every
value of the constants.  `PROJECT.json` lists components, runs, mutations, hazards,
findings and theorems, and maps every definition to the lines it models.

## The system

One API process serves JSON over HTTP from one PostgreSQL database; any number of
processes may share the database, and a second program, `cmd/migrate`, changes its
schema.  The WhatsApp webhook, the parser of expenses and the dashboard of the
product documents do not exist in the code yet.

| Component | State | Operations | Interaction | What is hard |
| --- | --- | --- | --- | --- |
| Session service (`auth/service.go`, `token.go`) | none of its own: local variables of the handlers | Register, Login, Refresh, Logout, LogoutAll | calls the stores below, one call after the other, without a transaction around them | what was read in one call is used in a later one; concurrent requests for one token; a client that retries |
| Refresh token repository (`auth/repository.go`) | table `refresh_tokens` | Create, GetByTokenHash, Revoke, RevokeAllForUser, Rotate, DeleteExpiredBefore | SQL at READ COMMITTED; Rotate is the only transaction | guarded updates, row locks, snapshots that miss uncommitted rows, rollback |
| User accounts (`user/`) | table `users` | Create, GetByEmail, GetByID, Update; Profile, UpdateProfile, LinkWhatsAppNumber | the session service and the handlers | unique constraint races, lookup before insert |
| WhatsApp accounts (`whatsapp/`) | table `whatsapp_accounts` | Create, GetByUserID, GetByPhoneNumber, NormalizePhoneNumber | called by the user service | two unique constraints at once; one number in many spellings |
| Passwords (`auth/password.go`) | none | Hash, Verify, ValidatePassword | called by Register and Login | a hash written under one release and read under another; characters against bytes |
| Schema migrator (`database/migrate.go`, `cmd/migrate`) | table `schema_migrations`, an advisory lock of the session | Migrate, Status | started by every API process that has DATABASE_AUTO_MIGRATE and by `cmd/migrate` | several starts at once, death in the middle, releases that differ |
| Process lifecycle (`cmd/api/main.go`, `http/server.go`, `database/postgres.go`) | ctx, signal handler, listener, `serveErr`, pool | run, Serve | signals, net/http, pgxpool | order of drain, close and exit; grace period; several signals |
| HTTP (`http/handler.go`, `router.go`, `response.go`, `health.go`, `middleware/`) | the response under two recorders, for one request | the endpoints, authentication, error mapping, recovery, access log, CORS, request ids, the probes | wraps the services | what is written after a panic or a half-written response; tokens that outlive their account; a database that hangs |
| Schema (`migrations/001_initial_schema.sql`) | the tables, also those no code uses yet | constraints, cascades | decides the races above | constraints that contradict a cascade |
| Configuration (`config/`) | the process environment | LoadDotEnv, Load | at startup, before everything else | precedence of `.env`, defaults in place of what cannot be read, rules spread over Load and the constructors |
| Logging (`logging/`) | none | construction of a logger | at startup | nothing |

What makes each component correct:

* sessions: one usable token per session, tokens spent once, spent exactly when
  replaced, renewed only in time, ended only with cause, ended for good;
* the repository: RevokeAllForUser misses nothing its snapshot holds; Rotate is
  all or nothing; no statement touches another account;
* the migrator: each file once, in order, together with its record; no process on
  a schema that is not its own; no start that waits for ever;
* the lifecycle: no request cut before its grace period is over, success reported
  only then, the pool open as long as it is needed, an end after every signal;
* accounts: an address and a number belong to one account, however two requests
  race, and every refusal names its true reason;
* HTTP: one answer to each request and one true line about it in the log, statuses that
  tell the truth about the database, access that ends with the account, probes that
  answer whatever the database does;
* passwords and numbers: what was accepted once is recognised again, in every spelling
  and under every release, and nothing is refused without cause;
* configuration: what serves is sound, and one repair is enough.

## Modules

| Module | Code | What it says |
| --- | --- | --- |
| `Sessions` | abstract | what the session service promises, in atomic steps |
| `AuthSessions` | `auth/service.go`, `auth/repository.go` | the session service over its table |
| `AuthSessions_proofs` | theorems about `AuthSessions` | its table and its locks |
| `Sessions_proofs` | theorems about `AuthSessions` | its clock, owners and causes, and that it implements `Sessions` |
| `MCAuthSessions` | its instances | |
| `Registry` | abstract | what the schema promises of addresses and numbers |
| `Accounts` | `user/`, `whatsapp/repository.go`, Register, the tables | registration, profiles and number linking over two tables |
| `Accounts_proofs`, `MCAccounts` | | theorems about `Accounts`, and its instances |
| `Migrate`, `MCMigrate` | `database/migrate.go` | Migrate in any number of processes |
| `Migrate_proofs` | theorems about `Migrate` | |
| `Shutdown` | `cmd/api/main.go`, `http/server.go` | one process from start to exit |
| `Shutdown_proofs` | theorems about `Shutdown` | |
| `Http` | `http/handler.go`, `router.go`, `response.go`, `health.go`, `middleware/`, `auth/token.go` | one connection's requests through middleware, bearer check, handler and response |
| `Http_proofs` | theorems about `Http` | |
| `Passwords`, `Phone` | `auth/password.go`, `whatsapp/phone.go` | the two pure algorithms, as operators |
| `Inputs`, `MCInputs` | their callers | passwords and numbers over several calls and releases |
| `Inputs_proofs` | theorems about `Inputs` and `Phone` | passwords and numbers, and NormalizePhoneNumber for every text |
| `Startup`, `MCStartup` | `config/`, `cmd/api/main.go` | one deployment from its environment to a serving process |
| `Startup_proofs` | theorems about `Startup` | |

### AuthSessions

`row` is the table `refresh_tokens`, `status` the column of `users`, `lock` the row
locks of open transactions, `known` the tokens clients have.  `Request` is the set
of requests in flight; `pc[p]` says where request `p` is in its handler and `req[p]`
holds its local variables.  Every database call is an action of its own, so requests
interleave between any two of them; between two calls a handler touches only its own
variables, and that work is part of the call's action.

| Action | Code |
| --- | --- |
| `Login`, `Refresh`, `Logout`, `LogoutAll` | the handler is called; a client presents any token it was ever given, spent or not, or one that never existed |
| `CheckCredentials`, `StartSession`, `Create` | Login and startSession: GetByEmail with the checks on what it returned, the clock, the INSERT |
| `GetByTokenHash`, `CheckOwner` | Refresh's lookups, each with the early returns that follow it |
| `RotateSpend`, `RotateCommit` | Rotate's guarded UPDATE, which takes the row's lock, and its INSERT with the COMMIT |
| `IssueAccessToken`, `Deliver` | signing after the commit, and the answer |
| `Revoke` | Logout's UPDATE |
| `RevokeAllSnapshot`, `RevokeAllVisit`, `RevokeAllCommit` | RevokeAllForUser's UPDATE as PostgreSQL runs it: snapshot, then row by row with a wait and a second look, then the commit |
| `Fail` | any call fails, the client leaves or the process dies: the open transaction is rolled back |
| `DeleteExpiredBefore`, `DeleteUser`, `SetStatus`, `Tick` | pruning, the cascade, the operator, the clock |

Data that is abstracted: a token stands for its value and its hash (collisions and
`checkHash` are left out); a password is right or wrong; `inactive` and `suspended`
are one status, since the code only asks IsActive; the read of the row in Refresh and
the reading of the clock after it are one step, which loses nothing, since a row that
changes between them can no longer be rotated.  `session`, `parent`, `seen`, and the
difference between `rotated` and `ended`, are history: no action's guard reads them.

`Sessions` states the promise: a session starts with a token, is renewed with a new
token while its deadline is ahead, and stops or ends for good.  `ImplementsSessions`
says that every behaviour of `AuthSessions` is one of these, under the mapping at its
end: a session's current token is its live one, its deadline the largest expiry.

### Accounts

`account` and `link` are the tables `users` and `whatsapp_accounts`; `pc` and `req` are
the requests in flight and their local variables, as in `AuthSessions`.  Nothing here
locks anything: what orders two requests is how an INSERT enters its row into one unique
index after the other.  It fails on a committed row with its key and waits for the
transaction of an uncommitted one, so a request in the midst of an INSERT holds the keys
it has entered.

| Action | Code |
| --- | --- |
| `Register`, `UpdateProfile`, `LinkWhatsAppNumber` | the service is called, with input its validators accept, for an account that exists or once did |
| `InsertUser`, `CommitUser` | Create's INSERT enters `users_email_unique`; it commits |
| `Update` | the UPDATE with its COALESCE, one statement |
| `Lookup` | LinkWhatsAppNumber's GetByID |
| `EnterUserIndex`, `EnterNumberIndex`, `CommitLink` | the INSERT enters `whatsapp_accounts_one_per_user`, then `whatsapp_accounts_phone_unique`, in the order of their declaration; the foreign key is checked and the row committed |
| `Deliver`, `Fail` | the answer; a failing call or a death, which undoes the INSERT |
| `DeleteUser` | an operator's DELETE and its cascade |

An address is a model value in one of three spellings: as it is stored, in other letter
case, or padded.  `NormalizeEmail` removes both, the index's `lower(email)` only the
first, and `AddressFinds` is about their difference.  Display names and timezones are
values; Register is given one value for both.  Ids are not drawn twice.  A call of
LinkWhatsAppNumber is a call of the service: no route leads to it at this commit (nor to
LogoutAll).  The answers are those of the error mapping in `http/handler.go`, and for
linking the errors of `whatsapp/repository.go`.

`Registry` is an atomic registry: a free key is claimed by an account that has none,
kept while the account exists, and freed with it.  `ImplementsRegistry` says that
`Accounts` is one of addresses and one of numbers.

### Migrate

One process per `Process`, which is started with one of the `Release`s (a function
from versions to checksums), runs Migrate and serves, fails or dies, and can be
started again with another release.  `EnsureLook`/`EnsureCreate` are the two halves of
CREATE TABLE IF NOT EXISTS, which PostgreSQL does not make atomic; `Lock` and `Unlock`
the advisory lock; `ReadApplied`, `Examine`, `RunBody`, `Commit` the loop.  `Commit`
is the INSERT of the record together with the COMMIT, so the primary key decides a
race that the lock should have prevented.  `StatementFails` is an error or an expired
context, `Crash` a death with its connection open, `SessionEnds` the server noticing.
What is inside a file is abstracted to `ran`, how often it was committed.

### Shutdown

The main goroutine (`main`) through startup, Serve and the deferred calls, next to
the goroutine of srv.Serve, the timer, signals and the handlers.  A connection is
idle, handled, or handled with a pool connection held; after srv.Close its handler
goes on without a client.  net/http, pgxpool and os/signal are modelled by what the
code uses of them: Shutdown closes the listener and idle connections and waits for
the others; Close closes connections, which cancels requests but does not wait for
handlers; pgxpool's Close refuses new users and waits for the present ones;
NotifyContext cancels once and stays registered until stop.  WriteTimeout, panics
and clients that leave in the middle of a request are left out.

### Http

One connection, whose requests follow each other.  `req` is the request's goroutine:
`at` the next thing it does, and its local variables; `resp` is the response as net/http
and each of the two recorders see it; `log` the access log's lines about the request;
`held` the access token the client has; `status` and `now` the account's row and the
clock.  `effect` (what the request has changed in the database), `lag` and `lastActive`
are history.

| Action | Code |
| --- | --- |
| `Arrive` | a request for any route, a protected one with the client's token or with none the server signed |
| `Preflight`, `Dispatch` | CORS's answer to OPTIONS; the mux with its 404 and 405 |
| `Auth`, `RequireUserID` | the bearer check, and the handlers that rely on it |
| `DecodeJSON` | decoding and the service's checks of its input, all before the store |
| `Register`, `Login`, `Sign`, `StartSession`, `Refresh`, `RevokeAll`, `CheckOwner`, `Rotate`, `Logout`, `Profile`, `UpdateProfile` | one call of the store each, with the answer or the error it leads to |
| `StoreFails` | a call fails, with or without its commit |
| `Ping`, `PingTimeout` | the readiness probe and its budget |
| `WriteStatus`, `WriteBody` | WriteJSON: it encodes first, then writes the status, then the body |
| `Panic`, `Recover`, `LogRequest`, `Abort` | a panic between any two steps, Recovery, RequestLogger, and http.ErrAbortHandler |
| `SetStatus`, `Tick` | the account is suspended, restored or deleted; the clock |

The chain of middleware is data (`Chain`), and which recorder sees a write follows from
it (`Wraps`).  What happens inside the services is the matter of `AuthSessions` and
`Accounts`: here a refresh token may be live, spent or unknown whenever it is presented,
since any other request may have changed it.  That is also why one connection suffices:
others share nothing with it but the account's row and the refresh tokens.  A store call
that never returns is a store action that is never taken.  Headers, request ids, log
levels and the contents of bodies are left out.  `AccessTTL` counts in the unit of the
clock; issuer, algorithm and claims other than the times are one bit, `signed`.

### Passwords, Phone, Inputs

`Passwords` and `Phone` are the code's pure functions.  A password is its text, its
length in characters and in bytes, and whether it is blank; Argon2id is a function of all
its arguments.  A number is a sequence of characters, in which one character stands for
all separators of its kind and `x` for everything the code refuses.

`Inputs` calls them as the services do: `Register(p)` under the parameters of the
running release, `Release` to go on under others, `Link(u, n, s, right)` for an account
whose owner writes the number `n` as `s`, with `right` FALSE when it is mistyped.  The
reference definition is on the people's side: `Canonical`, `Written`, `Spaced`,
`Mistyped` and `Dialable` say what a number is and how it may be written, without the
code, and `SpellingsMeet` compares the two.  `Position` says where in a written number a
separator is put or a character mistyped; the last is always one of them.

### Startup

`real` is the environment the process is started with, `file` the lines of its `.env`,
`setting` the process environment once `.env` was added, `cfg` what Load returned,
`report` the variables its error names.  `LoadDotEnv`, `Load`, `Connect`,
`MigrateSchema`, `NewAccessTokenIssuer`, `Listen` are the steps of run, each of which can
exit; `Restart` is the operator, who starts the process again after repairing just what
the error named.  A value is one of a few words, and tables (`Atoi`, `ParseDuration`,
`ParseBool`, `Bytes`, `Split`) say how the parsers read them.  `Problems` is the one
error: what cannot be read, and what breaks a rule when the defaults are put in for it.

## Runs

| Run | Instance | Shows |
| --- | --- | --- |
| `sessions_race` | 2 accounts, 3 tokens, 2 requests, clock stands | safety under races: every pair of operations in every interleaving, with failures, suspensions and deletions |
| `sessions_expiry` | 1 account, 2 tokens, 2 requests, clock 0..2, lifetime 1 | boundaries of the lifetime, status checks, and the refinement |
| `sessions_replay` | 1 account, 3 tokens, 2 requests | finding: `ReplayEndsEverySession` is violated |
| `accounts` | 2 accounts, 2 links, 2 addresses in 3 spellings, 2 numbers, 2 values, 2 requests | one owner per address and number, true refusals, profiles that do not mix, and the refinement |
| `migrate` | 2 processes, 3 versions, 4 releases, with faults | safety and termination of migrations |
| `migrate_startup` | 2 processes, one release, no faults | finding: `StartupsSucceed` is violated |
| `shutdown` | 3 connections, 2 signals, a listener that can break | safety and termination of the shutdown |
| `shutdown_signal` | 1 connection, 2 signals | finding: `SecondSignalKills` is violated |
| `shutdown_pool` | 1 connection, 1 signal | finding: `PoolClosedUnused` is violated |
| `http` | tokens live for 2, clock 0..5 | one true answer and log line for each request, access that ends with the account, probes that answer |
| `inputs` | passwords at every boundary, releases with extreme parameters, 2 accounts, numbers of every length | what is accepted is recognised again, and nothing else is refused |
| `startup` | deployments within two edits of a working one, or one and a `.env` line | only sound configurations serve, and one repair is enough |

Bounds.  Races are between two parties: two requests suffice for every pair of
operations, and a third token is needed for a rotation that races with a replay or a
second session of the same account.  A second account shows that nothing leaks over.
Two ticks with a lifetime of one pass every side of the expiry instant.  Tokens are
not drawn twice, so behaviours end when all are issued, which bounds the state space;
`MaxTime` bounds the clock, `MaxSignals` the signals.  In `accounts` two of everything make
every conflict possible: one address or two, one number or two, own or other account,
own field or other field; ids are used up there as well.  Two migrating processes race
for everything there is to race for; the four releases are the first, its successor,
one that skipped a version and one with an edited file.  The releases' files and the
number of restarts are not bounded otherwise.  The accounts, tokens and requests of
`AuthSessions` and all sets of `Accounts` are symmetric, and the runs use it (no liveness
is checked there).

In `http` a lifetime of 2 and a clock up to 5 let a token be issued, its account lose its
standing, and the token be used before, in and after its last instant, also when Login
took a tick between reading the row and signing.  `inputs` has the lengths on both sides
of every bound (7, 8, 128, 129 characters, of one and of four bytes; 6, 7, 15, 16
digits), in every spelling with one separator, or one wrong character, near the beginning,
behind the longest prefix or at the end; `SpellingsMeetHolds` covers every position.
`startup` takes two deployments, production and a developer's machine, and changes any two variables
(each rule of Load relates at most two, APP_ENV included) to any word; a `.env` line is
combined with one change.

Every property of a passing run has a mutation, an operator next to the definition it
replaces, marked `Mutation:`, for which TLC finds the property violated.

### Fairness

`Migrate`: a running process takes its next step (WF), the server notices a lost
connection (WF: TCP keepalive), and PostgreSQL serves waiters for an advisory lock in
order, so that one who waits again and again for a free lock gets it (SF).  Nothing
makes a process start, fail or die.  `Shutdown`: the main goroutine, the goroutine of
srv.Serve and the timer go on (WF), and a query whose context is cancelled returns
(WF, pgx closes its connection).  No fairness for handlers and queries otherwise: the
code sets no limit for them, and this is why `SignalStops` excepts the broken
listener, after which nobody cancels the requests that run.  `Http`: the goroutine of a
request goes on, and the timer of the readiness check fires (WF of `Serve`); no answer of
the database is assumed, so only the probes, whose check has a budget, are promised an
answer: `ProbesAnswer`.  `Inputs` and `Startup` check safety only.

## Findings

* **A replayed token can leave a session alive** (`service.go:318-322`).  "Ending
  every session" is one UPDATE, which does not see the row a concurrent rotation has
  not committed yet and passes over the old row when it is.
* **Concurrent first startups can fail** (`AGENT.md:164`).  The bookkeeping table is
  created before the lock is taken, and CREATE TABLE IF NOT EXISTS can fail on the
  catalogue's unique index.
* **A second signal is swallowed** (`src/backend/README.md:321-322`).  `stop` is only
  deferred, so the signal handler stays in place for the whole drain.
* **The pool is closed under running handlers** (`main.go:64-65`).  After the grace
  period handlers may still hold connections; db.Close then waits for them, which
  `SignalStops` shows to end, because their requests were cancelled.  The same happens
  without a cancellation when the listener breaks (`server.go:33`, "there is nothing
  to drain"): `CutOnlyLate` and `PoolOutlivesRequests` have to except that case.

Divergences that no run of their own shows, met while modelling:

* The credentials are called optional outside production (`src/backend/README.md:126-127`,
  `config.go:209-211`), and Load lets them be unset;
  but `NewAccessTokenIssuer` refuses an empty JWT_ACCESS_SECRET (`token.go`), so such a
  process exits, after it has connected and, if told to, migrated.  It is the step
  `NewAccessTokenIssuer` of `Startup`.
* All problems of a configuration are reported at once (`src/backend/README.md:124-125`), unless
  APP_ENV itself is misspelled: the rules of production are then not applied, and their
  problems come with the next start.  `OneRepairSuffices` has to except that case.
* `DecodeJSON` asks the decoder whether there is more, and `More` is false at a closing
  bracket, so a body with a stray `}` after its object passes.
* A number written `+62 (0)812...` keeps the 0 that is meant to be dropped.
* A panic after the status line leaves the status already sent, a 2xx in the log.

## Proofs

`AuthSessions_proofs` proves, for all constants that satisfy `ConstantsAssumption`
(the three "none" values are not members of their sets, RefreshTTL is a positive
natural number, MaxTime a natural number): any number of accounts, tokens and
requests, and any clock.

The properties are not inductive by themselves; `Invariance` proves the
strengthening `IInv`, a conjunction of

* `TypeOK`;
* `TokenInHand`: a refresh that found a row holds that row's token;
* `RowInv`: the rows' history hangs together (an unused token has no row, a used one
  belongs to the session of a used token and has replaced, if any, a used one), and the
  three properties of rows themselves, `AtMostOneLive`, `SingleSuccessor` and
  `SpentIffReplaced`, which need each other;
* `LockInv`: a row is locked only by a request in the midst of Rotate or
  RevokeAllForUser, a locked row is live, and a request at its commit holds the lock of
  the token it spends.  This is what carries the guard of Rotate's UPDATE over to its
  commit, and why nobody can end the row in between;
* `SnapshotDies`: a row of RevokeAllForUser's snapshot that has been visited is dead, or
  locked by the statement and about to be.

From it follow `TypeCorrect`, `OneLiveTokenPerSession`, `TokensSpentOnce`,
`RotationAtomic`, `EndAllComplete`, and, as an action property with `SpendingLocks`,
`NoResurrection`.  The proofs have one step per action; lemmas (`TypeStep`, `TokenStep`,
`RowStep`, `LocksHeldStep`, `SpendingLocksStep`, `SnapshotStep`) prove the parts of the
invariant one by one, and `RowChanges` says what a step can do to a row at all.

`Sessions_proofs` adds what takes the clock and the accounts into it.  On top of `IInv`,
`HistoryInvariance` proves `HistoryInv`, the conjunction of

* `RequestInv`, what requests know: each is at a step of its own handler (`StageInv`);
  tokens that clients have were stored (`KnownInv`); a refresh acts for the owner of its
  token, and the rows a request holds to end them are of the account it acts for
  (`OwnerInv`); whoever is past the check of the status has seen the account active, and
  so has every request whose account is active now (`SeenInv`); the reading of the clock
  is in the past, and before the expiry of the token about to be spent (`NowInv`);
* `HomeInv`: the tokens of a session are of the account of its first;
* `ExpiryInv`: no token lives longer than the lifetime from now, and the usable token of
  a session is the one that expires last;
* `RenewedInTime` itself, which `NowInv` carries from the reading of the clock over the
  waits for locks to the commit.

A step is split by who takes it: a request that does not (`Bystander`), one that arrives
(`Begun`), leaves (`Finished`), or goes on (`Moves`).  `GrantedToActiveHolds` is `SeenInv`;
`EndsAreProvokedHolds` is `StageInv` for Revoke and `OwnerInv` for RevokeAllForUser.

`RefinesSessions` is the refinement, step by step.  `Currents` and `Deadlines` say that the
values the mapping chooses are the live token of a session (`AtMostOneLive`) and its
expiry (`ExpiryInv`), for infinitely many tokens too.  The INSERT of a login is a Start
(`StartStep`), the commit of Rotate a Renew, within the deadline by `NowInv`
(`RenewStep`); Revoke, the commit of RevokeAllForUser and the cascade are an End of the
sessions of one account (`EndStep`, by `OwnerInv` and `HomeInv`), pruning a Lapse
(`PruneStep`), the clock Pass, and everything else changes nothing that `Sessions` sees.

`Migrate_proofs` proves the safety properties of the run `migrate`, with and without
faults, from `MigrateAssumption`: versions are positive, and a release maps versions to
checksums.  Processes, versions and releases may be infinitely many.  `IInv` adds to
`TypeOK`, `AppliedOnce` and `NoStaleView`

* `LockInv`: whoever is between lock and unlock holds the advisory lock, so nobody else
  commits meanwhile and what was read stays true;
* `DoneInv`: a process on its way up counts a version as dealt with only when the table
  has it with the checksum of its own file, and unlocks only when that is every one.

`RecordsStay`, that a record is there for good, is why `ServingMatches` outlasts the lock:
another release that migrates later can add records but not change them.  It is stated
of all behaviours as `RecordsAreForGood`.  `AppliedInOrder` follows from `DoneInv` and
the order in which the loop picks its next file.

Two theorems are the safety core of `StartsSettle`.  `NobodyBlocks` (by `HolderInv` and
`PendingInv`, also parts of `IInv`, and `NextExists`, that of the pending versions one is
the least): who waits for the lock waits for a process between its lock and its unlock, or
for a dead session, and no place under the lock is without its next step.
`LockIsGivenBack`: each step there leaves the lock, deals with one more file, or comes
nearer to that (`Rank`).  What is left to fairness is that those steps are taken.

`Shutdown_proofs` proves the safety properties of the run `shutdown` for any number of
connections and signals and for listeners of both kinds (`ShutdownAssumption`: the bound
on signals is a number, and whether the listener may break is yes or no).  `IInv` says
what the place of the main goroutine tells about everything else: `ListenerInv` (the
listener is open just while Serve waits, and what srv.Serve reports is its end),
`GraceInv` (Serve gives up only when the grace period is over), `ConnInv` (a connection
is closed under its handler only then; once Serve has returned from a listener that did
not break, nobody has a connection) and `ResultInv` (success is what a drain in time
returns).  `NobodyWaits` turns `ConnInv` into `PoolOutlivesRequests`.  The safety core of
`SignalStops` is `NothingHangs` (by `HangInv`): the drain waits for a timer that runs, the
wait for srv.Serve for one that has reported or has a closed listener to return from, and
the pool only for cancelled queries, unless the listener broke; and `OnlyOn`: the main
goroutine never goes back (`Stage`), and no new query joins those the pool waits for.

`Accounts_proofs` proves every property of the run `accounts`, the refinement included,
for any sets of accounts, links, addresses, numbers, values and requests, from
`AccountsAssumption` (the four "none" values are not members of their sets).  Its
inductive invariant `IInv` adds to `TypeOK` and `OneOwner`

* `PlainEmails`, `NumbersKnown`: addresses are stored and inserted in normal form;
* `Held`: the keys an unfinished INSERT has entered are in no committed row and in no
  other unfinished INSERT.  `OneOwner` alone is not inductive, because the commit checks
  nothing any more.  `Held` is also why a number found taken is not the caller's own:
  the request holds its account's entry in the first index while it looks at the second.

`Outside` covers every step that enters no index and writes no table; each other action
has a lemma.  `RefinesRegistry` needs `Owners` and `Holders`, that the owner the mapping
chooses is the only candidate; deletion maps to Delete, the two commits to Claim, and
every other step to a stutter (`AddressesStep`, `NumbersStep`).

`Http_proofs` proves the safety properties of the run `http` for every lifetime of an
access token and however long the connection lasts (`TimeAssumption`: AccessTTL is a
positive natural number).  Its inductive invariant `IInv` adds to `TypeOK`

* `OneView`: net/http and both recorders agree on what was sent.  `Layers` derives it
  from the order of the chain: both recorders are outside everything that writes;
* `Progress`: how much of the answer is out at each step of the goroutine;
* `Honest`: nothing is committed before a handler is about to answer, and what it is
  about to answer, or has answered, is true (`Truthful`).  This is where the early
  returns count: a handler that went on after a 400 would commit behind it;
* `PowerInv`: every signature in use was made within its lag of a moment the account was
  active, and so will be the next one.  It needs the order of two reads, that Refresh
  reads the clock before it reads the status and Login after it, which is what `lag` and
  `read` say.

Steps are of three kinds, and a lemma says of each what it does to the answer: the
handler goes on (`GoesOn`), it has a result (`Replies`), or a whole answer goes out
(`Answers`).  `NextAnswer` and `NextPower` put the actions together; `PowerEndsHolds`
follows with `AdmitsInTime`, that only the bearer check admits.  The safety core of
`ProbesAnswer` is `GoesForward` (`Place`), that a request takes a bounded number of steps
and none twice, and `ProbesKeepOut`, that a probe's never gets to a store call.

`Startup_proofs` proves both properties of the run `startup` for every environment and
every `.env` whatever, not only those few edits away from a working one.
`DeploymentAssumption` asks that "not set" is told apart from the words a repair puts in,
that the length of every secret is known, and that the operator's fresh secrets are not
in use already.  The inductive invariant `IInv` has three parts: what the process is
started with (`InputsInv`), how far startup has come and that `cfg` is Load's (`StartInv`),
and the one that matters, `RepairInv`: a report is what `Problems` finds in the present
environment, and after a repair it finds nothing, unless APP_ENV was among the repaired.
`RunsSoundly` follows from the first two, with `ConfigIs` (what a configuration without
problems satisfies) and the checks of the constructors.  `RepairIsEnough` is the core of
the second theorem.  Every rule relates two variables at most, and the defaults that the
parsers put in keep the rules among themselves, so it goes through the pairs
(`ConnsMended`, `TTLsMended`, `SecretsMended`): if both are repaired, the good values
fit; if one is, it could not be read before (`ReportedAlone`), and the other was already
compared with the default; if none is, the rule held when it was first applied.

`Inputs_proofs` proves both properties of the run `inputs`: `AcceptedCanLogin` for all
passwords and all parameters of hashers, `SpellingsMeet` for all numbers and positions.
`PasswordAssumption` says that a text has one length in characters and one in bytes, at
most four bytes a character.  `HashDecodes` is the agreement of Hash with Verify: what was
validated before it is written passes the validation after it is read.
`AcceptedIsAffordable` is that of the two limits: 128 characters are never more bytes than
the cost ceiling allows.  `HashInv` keeps both over every later release.

`NumberAssumption` is E.164's: a number has a country code that does not begin with a
zero, in the default country none follows it either, and two numbers are never the same
when written in full; and `NoNumber` is none of them.

The numbers rest on what `Phone` computes for a text of any length, which is shown by
induction over sequences.  The induction is a lemma about a set of sequences in place of a
predicate (`SequenceInduction`, by the shortest beginning outside the set), which a step can
instantiate with a set of its own.  On it rest: the loop of `Digits` writes what its
definition says (`LoopExists`, `LoopUnique`), and `Digits` of a concatenation is the
concatenation (`DigitsConcat`); `TrimSpaceTrims` and `TrimSpaceKeeps`;
`NormalizeReads`, which says what NormalizePhoneNumber makes of a trimmed text; and
`SeparatorsRead`, that separators in its midst do not change that.  `WrittenSays` goes through the
spellings of `Written`, `SpacedIsNormalized` and `MistypedIsRefused` through what `Spaced` and
`Mistyped` do to them, and `LinkInv`, that each account stores the canonical form of the
number its owner meant, carries the result over the calls.  Two theorems are about the
function alone: `SeparatorsIgnored`, and `NormalizedIsFixed`, that its result is made of
digits, passes the CHECK of the table and is normalised to itself.

Only model-checked: liveness (`StartsSettle`, `SignalStops`, `ProbesAnswer`), whose fairness
is beyond the prover; the safety facts they rest on are proved as said above.  Every other
property of the passing runs is a theorem.

## Not modelled

* Cryptography (Argon2id, HMAC, SHA-256), of which only is used that it tells inputs
  apart.
* Logging: the construction of a logger, which decides nothing.
* Transactions and categories: models and tables that no code reads or writes yet.  The
  schema has a trap for that code, a CHECK on transactions that the cascade from inbound
  messages would violate, but nothing whose behaviour could be modelled.
* Of the middleware: request ids and CORS's headers.  Of the configuration: variables
  that are only parsed, and the redaction of secrets in its output.
* Of the error classification: how pgconn's errors are matched; `Accounts` uses the
  constraint names it returns.
* A pool without free connections (`postgres.go`): requests wait for one without holding
  another, so they wait for handlers, not for each other.

## Plan

1. `Inbound`, the path of a message to a transaction, once there is code for it: with the
   CHECK on transactions against the cascade from inbound messages.
2. Verification of a linked number, and the routes of LinkWhatsAppNumber and LogoutAll,
   when they come: more callers of `Accounts` and `AuthSessions`.
3. A second connection in `Http`, should requests come to share state in the process.
