# A formal model of rp-auth-system

This directory models the auth service of the RP Government System: OAuth2
password grant, refresh token rotation, registration, role management, over
MySQL. The modules are checked by TLC on small instances; the main safety
properties are proved by TLAPS for all of them.

Paths below are those of the repository, without the leading `src/`.

## 1. The system

One Node.js process (`src/server.js`) runs an Express application
(`src/app.js`). It is hexagonal: controllers call request handlers, handlers
call `AuthService`, which calls persistence services, which call repositories,
which send SQL to a MySQL pool. All state lives in MySQL, but for the pool and
the requests in flight. JavaScript runs a request without interruption from one
`await` to the next, and requests interleave at every `await`.

| Component | State | Operations | Talks to |
| --- | --- | --- | --- |
| Refresh token grants: `AuthService.authenticate`, `.refresh`, `AuthRequestHandlerImpl.handleRevoke`, `RefreshTokenRepository` | table REFRESH_TOKENS | password grant, refresh grant (rotation), revocation | USERS (read), TokenService |
| Registration and roles: `AuthService.register`, `UserPersistenceServiceImpl`, `UserRepository`, `RoleRepository` | tables USERS, ROLES, USERS_ROLES | register, updateRoles, listAll, userinfo | the pool, one transaction per role write |
| Connection pool: `persistence/db.js` | free connections, queue of waiters | query, getConnection, release, end, ping | MySQL |
| Read-only endpoints: the list of users, `userinfo`, the answer to a role update | none | listAll, findByExternalUuid, `_enrichRoles` | USERS and USERS_ROLES, in two statements |
| HTTP routes: `app.js`, the controllers, the schema of a registration, the health probe | none | middleware, routing, checks, answers | every handler |
| Schema: `db/init/01_init.sql` | unique keys, foreign keys with cascade, seeds | — | — |
| Access tokens: `TokenService`, `passport.js`, `authenticate.js`, `requireRole.js` | none (signed snapshot of the user) | sign, verify, check a role | the clock |
| Error translation: `dbErrors.js`, `GlobalResponseEntityExceptionHandler.js` | none | driver error → AppError → status | every route |
| Start and configuration: `config/*.js`, `createApp`, `server.js` up to its handlers | environment, pool, port | parse, build, listen, register | the environment, the port |
| Process lifecycle: `server.js` | listening, draining, exited | signals, drain, forced exit after 10 s | the pool |
| Role script: `scripts/create-role.js` | — | insert into ROLES from another process | MySQL |

### What is hard

* **Interleaving.** `refresh` is SELECT, SELECT, UPDATE, INSERT (two more
  statements read roles and the inserted row) with no transaction around them.
  Two refreshes of one token, a refresh and a revocation, or a refresh and an
  operator who disables the account overlap freely. `register` looks up twice,
  hashes for some 250 ms, then inserts.
* **Partial failure.** A connection may break before or after MySQL applied the
  statement. A rotation may stop between the UPDATE and the INSERT; a
  registration stop between the committed account and its roles.
* **Locks.** Role writes are DELETE-then-INSERT transactions. On a user without
  rows the DELETE takes only a gap lock, gap locks are compatible, and two
  INSERTs then wait for each other: InnoDB picks a victim.
* **The pool.** Its queue has no limit and a waiter no timeout; one path that
  forgets `release` shuts the service after DB_CONNECTION_LIMIT failures. A
  connection given back with a transaction open hands it to the next request.
  Connections break while they are free, on their way or in use.
* **Reads in two statements.** Users and their roles are read one after the
  other, with writers in between, and a role update reads back from the pool.
* **Crashes.** The process dies with its requests; MySQL keeps what committed
  and rolls back the rest.
* **Time.** Tokens expire while requests wait; two clocks and DATETIME rounding.
* **Staleness.** Roles in an access token are those read before its signature.
* **Start and shutdown.** A signal may come before its handler does; drain,
  forced exit and a second signal race.
* **Errors.** An `async` handler that throws outside its `try` is never answered
  by Express 4; an error that no table knows becomes 500.

`PROJECT.json` lists each of these under `hazards`, at its line.

### What makes it correct

* Grants: a token and its replacement are never usable together; a session does
  not change hands; a token that is invalid when its refresh arrives is refused;
  an account that is disabled or deleted during the whole request gets nothing
  (one that is barred only after its SELECT still gets its pair); an answer that implies a revocation is true; a client never
  holds a token without a row; overlapping refreshes multiply a session by no
  more than the requests in flight.
* Accounts: one account for a username and for an address; 409 only when it is
  true; 201 only for an account with roles; a role update replaces all roles or
  none; connections balance; every request is answered.
* Reads: a list of users shows the accounts of one moment and the roles of one
  later moment; `userinfo` and a role update show a user who was there at a moment
  of the request, with the roles of one later moment (none, if the user was deleted
  in between); a role update shows what it wrote, or a later change.
* The pool: an open connection is free or in one pair of hands; a transaction
  ends with the client that began it; nobody waits for a connection while holding
  one, and every wait ends.
* HTTP: a service runs only for a request that passed every check of its route; an
  answer 500 has one of a few named reasons; a connection or statement that fails is
  answered 500, or 503 by the probe, and nothing else; the probe answers 200 only if
  MySQL was up since it was asked; every request gets exactly one answer.
* Access tokens: the roles a grant signs are the user's at one moment of the
  grant; `requireRole` admits nobody who lost the role longer than a token's
  lifetime ago, plus the time its grant took.
* Lifecycle: only the ten-second timer cuts off a client that waits, however many
  signals come; the pool outlives the last such client; exit code 1 has a
  reason; the process ends after a signal.
* Start: a process that an error or an early signal ends without a drain had
  accepted no client.
* Lifetimes: an access token lives for its TTL less a second at most, a refresh
  token for its TTL but for half a second and the skew of the clocks; given room
  for these in the TTLs, the refresh token outlives its access token.

## 2. Modules

| Module | What it is |
| --- | --- |
| `GrantLedger` | The promise of rotation with no database, requests or clock: tokens are unissued, live, dead, in that order, and a rotation issues only from a dead parent, for the same owner. |
| `Grants` | Grants and revocation, one SQL statement (or bcrypt call) with the code that consumes its result per action. |
| `GrantsProofs` | Theorems about `Grants`. |
| `MCGrants` | Its symmetry set. |
| `Accounts` | Registration and role updates, the transaction they share, InnoDB's locks on the rows of one user, the pool. |
| `AccountsProofs` | Theorems about `Accounts`. |
| `MCAccounts` | Its symmetry set. |
| `AccessTokens` | The JWT as a snapshot of roles with an expiry, and the routes behind `authenticate` and `requireRole`. |
| `AccessTokensProofs`, `MCAccessTokens` | Its theorems, its symmetry set. |
| `UserViews` | The list of users, userinfo and the answer to a role update, while both tables change. |
| `UserViewsProofs`, `MCUserViews` | Its theorems, its symmetry set. |
| `ConnectionPool` | The pool and the three ways the service uses it: a statement, a transaction, the probe. |
| `PoolContract` | The promise the rest relies on: connections are not shared, nobody waits with one in hand, every wait ends. |
| `ConnectionPoolProofs` | Theorems about `ConnectionPool`, the safety half of its refinement included. |
| `HttpRoutes` | One request on its path through Express, while MySQL goes down and comes back and connections fail. |
| `HttpRoutesProofs`, `MCHttpRoutes` | Its theorems; the requests of its instance. |
| `TokenClock` | A token pair under the clocks of Node and MySQL, in milliseconds. |
| `TokenClockProofs`, `MCTokenClock` | Its theorems; the readings of the clocks looked at. |
| `ServerLifecycle` | `server.js`, `closePool`, and the HTTP server of Node 20 as they use it. |
| `Process`, `MCProcess` | The start of the process, composed with `ServerLifecycle`; the environments of its instance. |
| `ServerLifecycleProofs` | Theorems about `ServerLifecycle`, and about `Process`, which implements it. |

The modules share no variables; each takes from the others what they show.
`AccessTokens` and `UserViews` change the roles of a user in one step, because of
`RoleWritesAreWhole` of `Accounts`. `Accounts` counts its connections, and takes its
fairness, on `PoolContract`, which `ConnectionPool` implements. `HttpRoutes` knows
the services by the outcomes they can have; what they do is in `Grants`, `Accounts`
and `UserViews`. `Process` contains `ServerLifecycle` as
what its event loop does once the start is over. `Grants` and
`AccessTokens` have one clock; `TokenClock` says what that is worth.

### From the code to `Grants`

`req[r].pc` names the statement a request awaits. A password grant goes
`findUser`, `compare`, `mint`, `save`, `answer`; a refresh grant `findValid`,
`findUser`, then `cleanup` or `revoke`, `mint`, `save`, `answer`; a revocation
`revoke`, `answer`. `Fail` is a statement that rejects without effect; an
effect followed by a rejection is a disjunct of the action (`Revoke`,
`CleanUp`, `Save`). `mint` is the synchronous code between the UPDATE and the
INSERT; it is an action of its own only so that the draw of a string is seen,
and the interleavings it adds change nothing a statement could see. Random
strings are model values drawn once: 384 random bits do not repeat. A row that
the cascade removes stays as `deleted`, so that the history can still name its
owner. `parent` and `arrival` are histories: which token was replaced, and
whether the token was already invalid, or the account barred, when the request
arrived.

No endpoint disables or deletes an account, so `Disable`, `Enable` and `Delete`
are edits by an operator, at any time; the foreign key and its cascade are the
schema's.

### From the code to `Accounts`

`req[r].pc` again names the awaited call. A registration goes `findName`,
`findMail`, `hash`, `insertUser`, `reload`; a role update `findRole` (once per
role), `findUuid`; both then `connect`, `begin`, `delete`, `insertRole` (once
per role), `commit`, `enrich`, `answer`, with `rollback` on the way of any
failure. `roleRows` holds what is committed; a transaction keeps what it has
deleted and inserted in `deleted` and `inserted`, and `Publish` applies both at
the commit. `locks` are the transactions past their DELETE. The DELETE waits
for transactions that have written rows of the same user, the INSERT for every
gap lock on them, and a cycle ends in `DeadlockVictim`. Gap locks that reach to
a neighbouring user only delay a statement or make it a victim; every
statement may be delayed or fail already. `Commit` may succeed on the server and
reject at the client, which is its second disjunct. `free` counts the
connections that no transaction holds; a statement outside a transaction needs
one to be free and returns it at once. Accounts that an operator deletes are left to
`Grants` and `UserViews`; here an account stays, and what is said of roles is said of
what the service does.

`GrantLedger` is to `Grants` what the abstract specification is to the detailed
one: `Ledger` instantiates it, `ImplementsLedger` is a property of
`grants_safety`, and `Refinement` its proof.

### From the code to `AccessTokens`

A grant goes `read` (the SELECT in `_enrichRoles`), `work` (bcrypt, or the
revocation of the old token), `save` (signed, the refresh token is being
stored), and its token joins `tokens` when it is answered. `ArriveCall` is
`authenticate` and `requireRole` together: they run without an `await`. A call
admitted to the role update may change the roles of anyone, its caller's too,
while other calls are in flight. A registration commits twice: between
`InsertUser` and `AssignDefault` the account is there, without roles or with those a
role update gives it, which `AssignDefault` replaces; a failure or a restart in
between leaves it as it is. `lastHeld` and `seen` are histories of the
table. Time is in whole seconds, as in the claims `iat` and `exp`.

### From the code to `UserViews`

The database is the sequence `versions` of its committed states, and a statement
reads the last one. A request goes `find`, `enrich`, `answer`, a role update
`commit` in between: `FindByUuid` and `ListAll` are the SELECTs on USERS,
`CommitRoles` the whole transaction, `Enrich` the SELECT of `_enrichRoles`, which
runs on the pool. `Replaced` is DELETE and INSERT IGNORE; for a user deleted since
the lookup the foreign key leaves nothing to insert. `arrived`
and `from` are histories: the version at the arrival, and the one the roles may not
precede, which for an update is its own commit. The columns that `toSafeJSON` shows
do not change while the row is there (ENABLED may, and is not shown), so a user
is shown as its id and roles.

### From the code to `ConnectionPool`

A client is one `await` that needs a connection, `pc` what it does once connected:
`query` (`pool.query`), `ping`, or a transaction `begin`, `write`, `commit`,
`rollback` of `UserPersistenceServiceImpl`. The pool belongs to mysql2 and is
external: `GetConnection` takes a free connection, else a new one, else a place
in the queue; `Release` and `Remove` serve the head of the queue in the same run of
the event loop, though the head learns of it later (`handed`). `Commit` is the
COMMIT, the release in `finally` and the request for the next connection, for
no `await` that can be overtaken lies between them. `ROLLBACK` fails only when
the connection is lost, and then MySQL has rolled back already. Locks are left
to `Accounts`: a wait for one ends, in an answer or an error.

`Wants` and `Has` map this to `PoolContract`: a client wants until its connection
is in hand. A connection that breaks is one that the client gives back.

### From the code to `HttpRoutes`

A request takes its path through the middleware alone, so there is one slot, used
again and again. `stage` is the middleware or handler it is in. A member of
the body is its kind and its length; null, 0 and false count as absent, which
is how the handlers ask (`!username`). `Serve` is the whole service: it answers, or
throws one of the errors listed for its route in `Failures`, deadlock and lock wait
timeout among them; a value that is not text may make a statement or bcrypt fail.
`LoseConnection` is a connection that is refused, has been closed or breaks under a
statement: it may happen to any service and to the probe, with MySQL up or down.
The probe is `GetConnection` (the pool may answer from memory) and `Ping` (a round
trip), and its `catch` answers 503. `TranslateDbError` and `StatusByCode` are the two
tables of the error path. `seen` is a history of `mysql` since the arrival, `failed`
of whether a connection of the request failed.

### From the code to `TokenClock`

A pair is signed, dated (`getRefreshTokenExpiry`) and stored at three readings of
Node's clock. `Seconds` is the `Math.floor` of the claims and MySQL's NOW();
`DateTime` is the rounding of a DATETIME column to which milliseconds are sent.
`MaxSkew` bounds the distance of the clocks, and stands for that of their
time zones too, for the driver sends local time as text. `env.js` does not ask
that the refresh TTL be longer than the access TTL: `RefreshOutlivesAccess` says
by how much it must be.

### From the code to `Process`

`Process` EXTENDS `ServerLifecycle` and adds what comes before it. `stage` is how far
`server.js` is: `import` (logger.js is the first to read `env`, which parses the
environment), `create` (`createApp`, with the pool), `listen`, `register`
(`process.on`), `up`; or `threw`, by an error that nothing catches, or `killed`, by
a signal without a handler. A variable is its validity: `tooLarge` is a PORT
that the schema admits and `listen` refuses. No event is handled before
`server.js` has run to its end (`Turns`); from then on a step is one of
`ServerLifecycle`, whose theorems therefore hold here too
(`ProcessImplementsServer`). Whether the port is free is decided in `Init` and
shows at the first turn.

### From the code to `ServerLifecycle`

`sock[c]` is a connection: `fresh` before its first request (Node counts it as
active, so `server.close` does not drop it), `busy`, `idle`, or `left`: the
client is gone, its handler not. `shut[s]` is one run of `shutdown`: `draining`
while its callback waits for the event 'close', `ending` while it awaits
`pool.end`. `server.close` on a server that does not listen calls back with an
error, but only at 'close' too: that is why a second signal does not cut the
drain short. The repositories keep the pool they were built with, so nothing
opens a new one after `closePool`. Time is left out: the timer may fire at any
moment after `shutdown`.

## 3. Runs

| Run | Instance | Shows |
| --- | --- | --- |
| `grants_safety` | 2 accounts, 3 strings, 2 requests, TTL 2, clock to 2 | type, safety and refinement of the grants |
| `grants_fanout` | 1 account, 4 strings, 2 requests, clock fixed | `BoundedFanOut` |
| `grants_single_use` | 1 account, 3 strings, 2 requests | `SingleUse` is violated |
| `accounts_safety` | 3 ids, 3 names, 3 addresses, 2 roles, 2 requests, pool of 2 | safety and `RoleWritesAreWhole` |
| `accounts_liveness` | 2 ids, 1 role, 3 requests, pool of 2 | `EveryRequestEnds` of `Accounts` |
| `accounts_whole_registration` | as safety, 2 addresses | `RegistrationIsWhole` is violated |
| `access_safety` | 2 accounts, registered before or meanwhile, 2 roles, 2 tokens, 1 grant, 1 call, TTL 2, clock to 3 | type, `SignedRolesAreOfOneMoment`, `AdmissionIsBounded` |
| `views_safety` | 2 users, 2 roles, 2 requests, 4 versions | type, `ListIsOfTwoMoments`, `AnswerIsOfOneMoment`, `UpdateShowsItsWrite` |
| `pool_contract` | 4 clients, 2 connections | type, `NoConnectionLeaks`, `NoTransactionIsInherited`; the pool implements `PoolContract`, with its fairness |
| `http_routes` | every route, bodies at the edges of its checks, failures at every statement | type, `ServiceIsEntitled`, `StatusIsTrue`, `EveryRequestIsAnswered` |
| `clock_safety` | 1 pair, TTLs of 1 and 2 s, skew of 500 ms, 25 readings in 5 s | type, `Lifetimes`, `RefreshOutlivesAccess` |
| `process` | 3 connections, 3 runs of shutdown, environments with up to one odd variable | type, `OnlyTheTimerCuts`, `PoolOutlivesClients`, `ExitOneHasReason`, `NobodyIsKilled`, `ShutdownEnds` |

Why the bounds are enough to be interesting: every race in section 1 but
one is between two requests. Three strings give a login and two children, or a chain
of two rotations; `grants_fanout` needs a fourth, so that three children of one
token (one more than requests) fit, and gives up time for it. TTL 2 with a clock
to 2 lets a token expire before, during and after a request. Three ids are the
bootstrap account and two registrations; three names and three addresses let these
two meet in both, in the name alone, in the address alone, or in neither, or run
into the bootstrap account. Two roles with one of them unseeded let
`create-role.js` run, an update fail on an unknown role, and updates ask for
different sets. The race of three is the one for connections: in
`accounts_liveness` two transactions hold both connections, waiting for a lock
or for each other in a deadlock, while the third request waits for a connection; one
role and two ids are enough for them to meet. A clock that runs one past TTL 2 lets a token
be admitted at its last second and refused at its expiry. Three runs of `shutdown` are one before, one during and one after the
drain of the others.

Four versions of the database let two registrations' commits, a deletion or two
updates fall between the two statements of a read. Four clients over two
connections put two in the queue, one behind another, while both connections
break; symmetry is not used where liveness is checked. The readings of the
clocks are the ends of each second and both sides of its half, where cutting
and rounding change their result. The lengths of the bodies are the bounds of
the schema and of the columns, and one beside each. One odd variable is enough
for an environment: the schema relates no two of them.

Bounds in guards: `StringsLeft` and `IdsLeft` let a request arrive only while a
string or id is left for it, so that the bound never stops a request half way;
`MaxTime` stops the clock; `TokensLeft` bounds the access tokens; the slots
`Shutdowns` bound the signals; `MaxVersions` bounds the commits of `UserViews`, where
only safety is checked; `Moments` are the readings of the clocks, and `Forget`
frees a pair that is no longer looked at. Deadlock checking is on, except
in the run `process`, where the process ends.

### Fairness

`Grants` assumes none: nothing in it waits for another request, so that its
requests end is a matter of the pool and of Express, below.
`Accounts` assumes `SF_vars(Step(r))`, because a request may find no free
connection, or a lock taken, again and again: the pool serves its waiters first
come first served, InnoDB grants locks in order, so whoever can proceed again
and again does. `Step` leaves out `Fail`, so that a request may not rely on
failing to end. Arrivals, crashes and operators have no fairness.
`ConnectionPool` assumes `WF_vars(Step(c))` for each client and nothing of the
order of service: a connection opens or is refused, a statement is answered or
fails, for a wait for a lock ends after `innodb_lock_wait_timeout`. From that
`pool_contract` derives the fairness of the contract, that no wait for a
connection is for ever, on which the strong fairness of `Accounts` rests.
`HttpRoutes` assumes `WF_vars(Handle)`: Express calls the next middleware and every
`await` settles. `Process` assumes weak fairness of `ForcedExit(s)` only: a timer
fires. It does not assume that a client ever leaves, that a handler ends or that
MySQL lets the pool close.

### Two disagreements

* `SingleUse`: `refresh` reads the token and revokes it in two statements, and
  the UPDATE does not ask whether the row was still unrevoked. Two refreshes
  that pass the SELECT together both get a pair, against the comments
  ("invalid, expired, or revoked" is refused; "rotation"). What the code does
  guarantee is `StaleIsRefused`, `RotatedIsDead` and `BoundedFanOut`.
* `RegistrationIsWhole`: the INSERT into USERS commits before the role
  transaction begins. A failure or crash in between leaves an account that has
  no role and cannot be registered again. What the code does guarantee is
  `CreatedHasRoles`, for registrations that were answered 201.

Three more were met while reading and are not runs, for no step of the system is
in question. The schemas "for the token endpoint" (UserDTO.js:89, 99) are used by
their tests only: a grant whose password or token is not text reaches the
service (`Bound` in `HttpRoutes`), where it may end in 500. The `docker run` of
README.md:54 sets no variable and `.dockerignore` keeps `.env` out of the image, so
that `load` of env.js throws. README.md:97 gives `DB_NAME` a default; env.js:35
gives it none.

## 4. Proofs

The proofs assume the named assumption of their module only: finite sets of
requests (and of strings and ids, which are bounds of the model) in `Grants` and
`Accounts`, positive TTLs and pool size, model values such as `NoValue`, `None` and
`Lost` outside the other sets, seeds that fit together, clocks that read natural
numbers (`TokenClockAssumption`), some connection (`ConnectionPoolAssumption`), and
that requests are requests (`HttpRoutesAssumption`). `ServerLifecycleProofs` assumes
nothing. Two theorems of `GrantsProofs` say in their own ASSUME that there is one
slot for requests; they are about what overlapping costs.

**Grants.** `IInv` is inductive. Its core is `RefreshBound`: past `findValid` a
request works for the owner of the row it read, and past `Revoke` that row is
dead. A dead row never comes back, so at the INSERT the parent is dead
(`RotatedIsDead`) and has the same owner (`SessionKeepsItsOwner`). `FreshApart`
keeps the INSERT of one request from touching the row of another, and
`StaleStays` and `BarredStays` say that what was so at the arrival still is when
the code reads it. `Refinement` adds that each action maps to a step of the
ledger or a stutter; `FanOutIsBounded` counts children and requests past
`findValid` together: a new request joins the count only while the token is
live, when it has no child yet.

`SingleUse` fails only because requests overlap. With one slot the bound on
children is one, so a token has one replacement whatever fails
(`SerialIsSingleUse`). `OneTip` then counts the tokens of a session: all but the
login's have a parent, no two the same, and no parent is live; two live tokens
would leave too few parents. So a login has one usable token at most
(`SerialSessionsHaveOneToken`). `SessionsAreTrees` says that no token is its own
ancestor: `Save` inserts a string that is nobody's parent yet.

**Accounts.** `IInv` is inductive. Its core is `OneWriter`: of two transactions
past their DELETE on one user none has written, for the second DELETE waits for
a writer, and an INSERT for every other holder. Hence what a transaction deleted
is what its commit still finds (`DeletedIsCurrent`), and the commit replaces
the whole set (`WholeCommit`, `RoleWritesAreWhole`). `SlotInv` collects what the
stage of one request says of its fields. `NoConnectionLost` follows from
`HoldersChange`: a step moves one connection, or none, or starts the pool anew.

What can be proved of `EveryRequestEnds` is its safety. `NoStandstill`: a request
that cannot go on waits for one that can. A transaction waits for a lock of a
rival, and either that rival goes on or it waits for a third that does
(`LockWaitsEnd`): a rival is past its DELETE, and in front of an INSERT all
rivals in front of theirs are a cycle that InnoDB breaks. Who waits for a
connection waits for transactions, which hold them all (`NoConnectionLost`).
`CanGoOn` writes out the guards, for ENABLED is out of reach; TLC finds the two
equal on the instance of `accounts_safety`. `RequestsWearOut`: each step leads to
a later stage, or takes a role off the loop it is in. So a request takes at most
13 steps and one for each turn of its loops. `NoStandstill` covers the INSERT of a
registration too: `InsertFindsAnId` shows that the bound `IdsLeft` on arrivals
leaves an id for each that comes to it.

**Access tokens.** `IInv` is inductive. `HistoryIsPast` says that the history
covers the present and does not run ahead of it; histories only grow
(`HistoryGrows`), so whatever a grant saw, its user held since the grant arrived
(`GrantInv`), its token says no more (`TokenInv`), and an admission before `exp`
is bounded.

**User views.** `IInv` says of each request, stage by stage, what its DTOs show:
the version its first SELECT saw (`FindInv`), that an update's own write stands
or was overtaken (`WriteInv`), and what follows for the answer (`AnswerInv`).
Versions are only appended, so what was read of one stays true (`StageLasts`). That a
user deleted between the two SELECTs is shown without roles rests on
`RolesHaveAccounts`: no version has roles of an absent account, for the cascade
removes them and INSERT IGNORE drops those that come later.

**Connection pool.** `Core` is what holds of the pool whoever its clients are: a
queue without repetition whose members hold nothing, one holder for a connection,
none lost. Each function of the pool keeps it, `Serve` after `Release` included;
the steps of the clients then only have to keep what relates a connection to
the stage of its holder: an idle client has none and does not wait, and a
dirty connection is held by a client inside its transaction. `StepsKeepContract`
shows on top of that that each step maps to one of `PoolContract` or a stutter.
`NoWakeupIsLost` adds two invariants: while the queue is not empty no connection
is free or closed (`Conserving`), and whoever awaits one is in the queue or
holds it (`NobodyForgotten`). Each function of the pool and each break keeps them,
which is why `Remove` must serve the queue too. Hence a client that cannot go on
has every connection in the hands of others that can (`NobodyWaitsInVain`).

**HTTP routes.** `Path` says what a request has passed when it reaches a stage,
`ErrorHasReason` that an error that will become 500 has its reason already, `Failing`
that a request whose connection failed is in the probe's `catch` or on its way to
the error handler with an error that no table knows, and `Witnessed` that the
history covers the present. The bodies may be of any length:
`SchemaFits` derives from the schema what fits the columns. `HandlingLeadsOn` is the
measure behind `EveryRequestIsAnswered`: each step leads to a later stage and none
drops the request; `OneAnswerEach` counts the answers.

**Token clock.** `Cutting` and `Rounding` bound the two conversions; `PairInv` says
which reading of the clock each part of a pair comes from. The lifetimes
follow by arithmetic.

**Lifecycle.** `IInv` is inductive. `PoolLast` says that an ended pool means no
listening and no open connection, which lasts, because a request needs a
connection and a connection a listening server; `ErrorsHaveReasons` that only a
later run of `shutdown` gets an error. `DrainNeverTurnsBack` says that after the
close no connection joins those waited for.

**Process.** Every step of the start leaves the server's variables alone
(`StepsAreOfTheServer`), so the process implements `ServerLifecycle` and keeps its
promises. `Untouched` says that a server whose `stage` is not `up` is as it began:
`NobodyIsKilled` follows. `Configured` says what the stages have checked, so that
no client meets a bad configuration (`OnlyConfiguredServe`).

Proved for every instance: `TypeOK` of eight modules; every safety property that
the passing runs check, `NobodyIsKilled`, the action property
`RoleWritesAreWhole` and the refinement `ImplementsLedger` included; the safety half
of `ImplementsContract`; and, stated in the proof modules only, the results named
above that no run checks. TLC agreed with each of these on a small instance
before it was proved.

Only model-checked: all liveness (`EveryRequestEnds`, `EveryRequestIsAnswered`,
`ShutdownEnds`, the fairness half of `ImplementsContract`), which, with ENABLED, is
beyond TLAPS. The proofs give the safety they rest on: in `Accounts` and the pool
somebody can always go on; in `Accounts` and `HttpRoutes` nobody goes on for ever.
That fairness turns this into an answer is for the runs to show.

## 5. Not modelled

The ports are abstract classes without behaviour. Security headers and CORS
but for the preflight, the wording of errors and logs and the masking of error
messages are left out: no property here could tell them apart. Password hashes
and JWT signatures are taken as sound. The UPDATE branch of
`UserRepository.save` has no caller. A handler whose client hung up may be cut
off by a clean exit, between any two of its statements: what that leaves in
the tables is what `Fail` and `Crash` of `Grants` and `Accounts` leave. An uncaught
exception alone ends in exit code 0, as a signal does; no document says
otherwise.

## 6. Plan

What is left, in this order.

1. `Service`: `Accounts` and `Grants` over one pool and one USERS table, and that
   each component's properties survive the composition.
2. `RoleBook`: the abstract specification of role management, one atomic write of
   roles per user, with `Accounts` and `UserViews` shown to implement it.
3. More proofs: the measure of `Accounts` for `ConnectionPool` and for the grants;
   that a role removed before a login is not in the token of that login.
