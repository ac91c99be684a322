------------------------------- MODULE Grants -------------------------------
(***************************************************************************)
(* The refresh tokens of the service: the password grant, the refresh      *)
(* grant with rotation, and revocation (AuthService.authenticate and       *)
(* .refresh, AuthRequestHandlerImpl.handleRevoke), over the table          *)
(* REFRESH_TOKENS.                                                         *)
(*                                                                         *)
(* One Node.js process serves any number of requests.  A request runs      *)
(* without interruption between two awaits, so an action is one SQL        *)
(* statement (or bcrypt call) of one request with the synchronous code     *)
(* that consumes its result, and requests interleave between actions.      *)
(* Any statement may fail, with or without its effect on the table: the    *)
(* connection can drop before or after MySQL commits.  The process may     *)
(* crash and restart at any time.  An operator edits USERS directly, which *)
(* is how an account becomes disabled or disappears: no endpoint does it.  *)
(*                                                                         *)
(* findByUsername and findByInternalId also read the roles of the user,    *)
(* which only end up in the access token; no step here depends on them.    *)
(***************************************************************************)
EXTENDS Naturals, FiniteSets

CONSTANTS
  Users,       \* accounts (rows of USERS)
  Tokens,      \* refresh token strings crypto.randomBytes may return
  Requests,    \* slots for requests in flight
  NoValue,     \* absent user, absent token; as a presented token: a string
               \* that the service never issued
  RefreshTTL,  \* JWT_REFRESH_TOKEN_EXPIRES_IN, in clock ticks
  MaxTime      \* bound: the clock stops here

ASSUME GrantsAssumption ==
  /\ NoValue \notin Users \cup Tokens
  /\ IsFiniteSet(Tokens) /\ IsFiniteSet(Requests)
  /\ RefreshTTL \in Nat \ {0}
  /\ MaxTime \in Nat

VARIABLES
  users,      \* [Users -> AccountState], the USERS rows
  rows,       \* [Tokens -> Row], the REFRESH_TOKENS rows
  now,        \* the clock read by NOW() in SQL and Date.now() in Node
  req,        \* [Requests -> Request], the requests in flight
  delivered,  \* tokens that reached a client in a response
  parent,     \* history: the token each token replaced, NoValue after a login
  arrival     \* history: what was already true when the request arrived

vars == <<users, rows, now, req, delivered, parent, arrival>>

-----------------------------------------------------------------------------
AccountState == {"enabled", "disabled", "deleted"}

\* A row that ON DELETE CASCADE removed stays as "deleted": the string is
\* never drawn again, and its owner is still known to the history.
Row == [state: {"unissued", "live", "revoked", "deleted"},
        userId: Users \cup {NoValue},
        expiresAt: Nat]

NoRow == [state |-> "unissued", userId |-> NoValue, expiresAt |-> 0]

Stage  == {"idle", "findValid", "findUser", "compare", "cleanup", "revoke",
           "mint", "save", "answer"}
Status == {"none", "ok", "unauthorized", "denied", "conflict", "error"}

Request == [pc: Stage,
            op: {"none", "password", "refresh", "revoke"},
            user: Users \cup {NoValue},     \* the account found
            token: Tokens \cup {NoValue},   \* the refresh token presented
            fresh: Tokens \cup {NoValue},   \* the refresh token minted
            expiresAt: Nat,                 \* of the minted token
            status: Status]                 \* of the answer

NoRequest == [pc |-> "idle", op |-> "none", user |-> NoValue,
              token |-> NoValue, fresh |-> NoValue, expiresAt |-> 0,
              status |-> "none"]

\* stale: the presented token was already invalid when the request arrived.
\* barred: the account has not been enabled at any time since the arrival.
Arrival == [stale: BOOLEAN, barred: BOOLEAN]
NoArrival == [stale |-> FALSE, barred |-> FALSE]

Init ==
  /\ users = [u \in Users |-> "enabled"]
  /\ rows = [t \in Tokens |-> NoRow]
  /\ now = 0
  /\ req = [r \in Requests |-> NoRequest]
  /\ delivered = {}
  /\ parent = [t \in Tokens |-> NoValue]
  /\ arrival = [r \in Requests |-> NoArrival]

-----------------------------------------------------------------------------
(* Helpers: the SQL of RefreshTokenRepository and the checks of            *)
(* AuthService.                                                            *)

Live(t) == rows[t].state = "live"

\* Mutant of Invalidate: the UPDATE matches no row.
InvalidateNothing(t) == rows

\* WHERE TOKEN = ? AND REVOKED = 0 AND EXPIRES_AT > NOW()
IsValid(row) == row.state = "live" /\ row.expiresAt > now

Presentable(t) == t # NoValue /\ IsValid(rows[t])

\* UPDATE REFRESH_TOKENS SET REVOKED = 1 WHERE TOKEN = ?
Invalidate(t) ==
  IF t # NoValue /\ Live(t) THEN [rows EXCEPT ![t].state = "revoked"] ELSE rows

\* Strings that crypto.randomBytes(48) may still return: 384 random bits do
\* not repeat.
Unissued ==
  {t \in Tokens : rows[t].state = "unissued" /\ \A r \in Requests : req[r].fresh # t}

\* Bound: a grant arrives only while a string is left for each grant that
\* may still mint one.
Minting == {r \in Requests : req[r].op \in {"password", "refresh"} /\ req[r].fresh = NoValue}
StringsLeft == Cardinality(Minting) < Cardinality(Unissued)

Goto(r, stage) == req' = [req EXCEPT ![r].pc = stage]

Answer(r, s) == req' = [req EXCEPT ![r].pc = "answer", ![r].status = s]

Throw(r) == Answer(r, "error")

\* The account as the request's subject: named by a password grant, owner of
\* the presented token of a refresh grant.
Subject(r) ==
  IF req[r].op = "password" THEN req[r].user
  ELSE IF req[r].token = NoValue THEN NoValue ELSE rows[req[r].token].userId
-----------------------------------------------------------------------------
(* Arrivals.  A body that names no grant, no username, no password or no   *)
(* token is answered 400 before any statement and is not modelled.  A      *)
(* client presents a token it was given, or a string of its own.           *)

ArrivePassword(r, u) ==
  /\ req[r].pc = "idle" /\ StringsLeft
  /\ req' = [req EXCEPT ![r] = [NoRequest EXCEPT !.pc = "findUser",
                                 !.op = "password", !.user = u]]
  /\ arrival' = [arrival EXCEPT ![r] = [stale |-> FALSE,
                                        barred |-> users[u] # "enabled"]]
  /\ UNCHANGED <<users, rows, now, delivered, parent>>

ArriveRefresh(r, t) ==
  /\ req[r].pc = "idle" /\ StringsLeft
  /\ req' = [req EXCEPT ![r] = [NoRequest EXCEPT !.pc = "findValid",
                                 !.op = "refresh", !.token = t]]
  /\ arrival' = [arrival EXCEPT ![r] =
       [stale  |-> ~Presentable(t),
        barred |-> t # NoValue /\ users[rows[t].userId] # "enabled"]]
  /\ UNCHANGED <<users, rows, now, delivered, parent>>

\* POST /auth/revoke of any authenticated caller.
ArriveRevoke(r, t) ==
  /\ req[r].pc = "idle"
  /\ req' = [req EXCEPT ![r] = [NoRequest EXCEPT !.pc = "revoke",
                                 !.op = "revoke", !.token = t]]
  /\ UNCHANGED <<users, rows, now, delivered, parent, arrival>>

-----------------------------------------------------------------------------
(* AuthService.authenticate *)

FindByUsername(r) ==
  /\ req[r].pc = "findUser" /\ req[r].op = "password"
  /\ IF users[req[r].user] = "enabled" THEN Goto(r, "compare")
                                       ELSE Answer(r, "unauthorized")
  /\ UNCHANGED <<users, rows, now, delivered, parent, arrival>>

\* bcrypt.compare, on the password hash read by findByUsername.
Compare(r) ==
  /\ req[r].pc = "compare"
  /\ Goto(r, "mint") \/ Answer(r, "unauthorized")
  /\ UNCHANGED <<users, rows, now, delivered, parent, arrival>>

-----------------------------------------------------------------------------
(* AuthService.refresh *)

\* Mutant of FindValid: the WHERE clause forgets REVOKED = 0.
FindValidIgnoringRevoked(r) ==
  /\ req[r].pc = "findValid"
  /\ IF req[r].token # NoValue /\ rows[req[r].token].state \in {"live", "revoked"}
                               /\ rows[req[r].token].expiresAt > now
     THEN req' = [req EXCEPT ![r].pc = "findUser",
                             ![r].user = rows[req[r].token].userId]
     ELSE Answer(r, "unauthorized")
  /\ UNCHANGED <<users, rows, now, delivered, parent, arrival>>

FindValid(r) ==
  /\ req[r].pc = "findValid"
  /\ IF Presentable(req[r].token)
     THEN req' = [req EXCEPT ![r].pc = "findUser",
                             ![r].user = rows[req[r].token].userId]
     ELSE Answer(r, "unauthorized")
  /\ UNCHANGED <<users, rows, now, delivered, parent, arrival>>

\* Mutants of AfterUserCheck: no rotation, no account check.
AfterUserCheckNoRotation(u) == IF users[u] = "enabled" THEN "mint" ELSE "cleanup"
AfterNoUserCheck(u) == "revoke"

\* if (!user || !user.enabled): clean up and refuse; otherwise rotate.
AfterUserCheck(u) == IF users[u] = "enabled" THEN "revoke" ELSE "cleanup"

FindByInternalId(r) ==
  /\ req[r].pc = "findUser" /\ req[r].op = "refresh"
  /\ Goto(r, AfterUserCheck(req[r].user))
  /\ UNCHANGED <<users, rows, now, delivered, parent, arrival>>

\* Mutant of CleanUp: the orphaned token is refused but not revoked.
CleanUpNothing(r) ==
  /\ req[r].pc = "cleanup"
  /\ Answer(r, "denied")
  /\ UNCHANGED <<users, rows, now, delivered, parent, arrival>>

\* Revoke the token of a missing or disabled account, then refuse.
CleanUp(r) ==
  /\ req[r].pc = "cleanup"
  /\ rows' = Invalidate(req[r].token)
  /\ Answer(r, "denied") \/ Throw(r)
  /\ UNCHANGED <<users, now, delivered, parent, arrival>>

\* The revocation of the presented token, by a refresh that rotates it or by
\* POST /auth/revoke.
Revoke(r) ==
  /\ req[r].pc = "revoke"
  /\ rows' = Invalidate(req[r].token)
  /\ \/ req[r].op = "refresh" /\ Goto(r, "mint")
     \/ req[r].op = "revoke" /\ Answer(r, "ok")
     \/ Throw(r)
  /\ UNCHANGED <<users, now, delivered, parent, arrival>>
-----------------------------------------------------------------------------
(* The end of both grants: a new token pair. *)

\* Mutants: an expiry that is not a date; the owner taken from the wrong row.
ExpiryOfNothing == NoValue
OwnerOverwritten(r) == CHOOSE u \in Users : u # req[r].user \/ Users = {req[r].user}

Expiry == now + RefreshTTL
Owner(r) == req[r].user

\* createAccessToken, createRefreshTokenString, getRefreshTokenExpiry.
Mint(r) ==
  /\ req[r].pc = "mint"
  /\ \E t \in Unissued :
       req' = [req EXCEPT ![r].pc = "save", ![r].fresh = t,
                          ![r].expiresAt = Expiry]
  /\ UNCHANGED <<users, rows, now, delivered, parent, arrival>>

Insert(r) ==
  /\ rows' = [rows EXCEPT ![req[r].fresh] =
                [state |-> "live", userId |-> Owner(r),
                 expiresAt |-> req[r].expiresAt]]
  /\ parent' = [parent EXCEPT ![req[r].fresh] = req[r].token]

\* Mutant of Save: the promise of the INSERT is not awaited.
SaveNotAwaited(r) ==
  /\ req[r].pc = "save"
  /\ Insert(r) \/ UNCHANGED <<rows, parent>>
  /\ Answer(r, "ok")
  /\ UNCHANGED <<users, now, delivered, arrival>>

\* INSERT, then SELECT by insertId: when the SELECT fails the row is there and
\* the client gets an error.  The foreign key refuses the row of an account
\* deleted since it was read, which the error handler answers with 409.
Save(r) ==
  /\ req[r].pc = "save"
  /\ IF users[req[r].user] # "deleted"
     THEN Insert(r) /\ (Answer(r, "ok") \/ Throw(r))
     ELSE Answer(r, "conflict") /\ UNCHANGED <<rows, parent>>
  /\ UNCHANGED <<users, now, delivered, arrival>>

-----------------------------------------------------------------------------
(* Failures, answers, and the world around the process. *)

Awaiting == {"findValid", "findUser", "compare", "cleanup", "revoke", "save"}

\* The awaited statement rejects and left no effect.
Fail(r) ==
  /\ req[r].pc \in Awaiting
  /\ Throw(r)
  /\ UNCHANGED <<users, rows, now, delivered, parent, arrival>>

\* The response is sent.  The client may be gone.
Respond(r) ==
  /\ req[r].pc = "answer" /\ req[r].status # "none"
  /\ req' = [req EXCEPT ![r] = NoRequest]
  /\ arrival' = [arrival EXCEPT ![r] = NoArrival]
  /\ \/ /\ req[r].status = "ok" /\ req[r].fresh # NoValue
        /\ delivered' = delivered \cup {req[r].fresh}
     \/ UNCHANGED delivered
  /\ UNCHANGED <<users, rows, now, parent>>

\* The process dies and restarts: requests are lost, the table is not.
Crash ==
  /\ \E r \in Requests : req[r].pc # "idle"
  /\ req' = [r \in Requests |-> NoRequest]
  /\ arrival' = [r \in Requests |-> NoArrival]
  /\ UNCHANGED <<users, rows, now, delivered, parent>>

Disable(u) ==
  /\ users[u] = "enabled"
  /\ users' = [users EXCEPT ![u] = "disabled"]
  /\ UNCHANGED <<rows, now, req, delivered, parent, arrival>>

Enable(u) ==
  /\ users[u] = "disabled"
  /\ users' = [users EXCEPT ![u] = "enabled"]
  /\ arrival' = [r \in Requests |->
       [arrival[r] EXCEPT !.barred = @ /\ Subject(r) # u]]
  /\ UNCHANGED <<rows, now, req, delivered, parent>>

\* REFRESH_TOKENS.USER_ID is ON DELETE CASCADE.
Delete(u) ==
  /\ users[u] # "deleted"
  /\ users' = [users EXCEPT ![u] = "deleted"]
  /\ rows' = [t \in Tokens |-> IF rows[t].userId = u
                               THEN [rows[t] EXCEPT !.state = "deleted"]
                               ELSE rows[t]]
  /\ UNCHANGED <<now, req, delivered, parent, arrival>>

Tick ==
  /\ now < MaxTime
  /\ now' = now + 1
  /\ UNCHANGED <<users, rows, req, delivered, parent, arrival>>

-----------------------------------------------------------------------------
\* The steps the event loop takes for a request it has accepted.
Step(r) ==
  \/ FindByUsername(r) \/ Compare(r)
  \/ FindValid(r) \/ FindByInternalId(r) \/ CleanUp(r) \/ Revoke(r)
  \/ Mint(r) \/ Save(r)
  \/ Fail(r) \/ Respond(r)

Arrive(r) ==
  \/ \E u \in Users : ArrivePassword(r, u)
  \/ \E t \in delivered \cup {NoValue} : ArriveRefresh(r, t) \/ ArriveRevoke(r, t)

Operator == \E u \in Users : Disable(u) \/ Enable(u) \/ Delete(u)

Next ==
  \/ \E r \in Requests : Arrive(r) \/ Step(r)
  \/ Crash \/ Operator \/ Tick

Spec == Init /\ [][Next]_vars
-----------------------------------------------------------------------------
(* Properties. *)

\* Type correctness of the table, the requests and the histories.
TypeOK ==
  /\ users \in [Users -> AccountState]
  /\ rows \in [Tokens -> Row]
  /\ now \in Nat
  /\ req \in [Requests -> Request]
  /\ delivered \in SUBSET Tokens
  /\ parent \in [Tokens -> Tokens \cup {NoValue}]
  /\ arrival \in [Requests -> Arrival]

\* Rotation never leaves a token and its replacement usable together: a token
\* that has been replaced is no longer live, in every interleaving of the
\* statements of AuthService.refresh and whichever of them fails.
RotatedIsDead == \A t \in Tokens : parent[t] # NoValue => ~Live(parent[t])

\* A session never changes hands: a replacement belongs to the account of the
\* token it replaces, though the account is read back by its id between two
\* awaits.
SessionKeepsItsOwner ==
  \A t \in Tokens : parent[t] # NoValue => rows[t].userId = rows[parent[t]].userId

\* The stages a refresh grant reaches only after findValid accepted its token.
Accepted(r) ==
  /\ req[r].op = "refresh"
  /\ \/ req[r].pc \in {"findUser", "cleanup", "revoke", "mint", "save"}
     \/ req[r].pc = "answer" /\ req[r].status \in {"ok", "denied", "conflict"}

\* A refresh grant that arrives with a revoked, expired or unknown token is
\* refused: what findValid reads cannot become valid again while the request
\* waits for it.  With RotatedIsDead: only overlapping refreshes of one token
\* can both succeed.
StaleIsRefused == \A r \in Requests : Accepted(r) => ~arrival[r].stale

\* No token pair is minted for an account that was disabled or deleted all the
\* time since the request arrived, on either grant.
BarredIsRefused ==
  \A r \in Requests :
    /\ req[r].op \in {"password", "refresh"}
    /\ \/ req[r].pc \in {"mint", "save"}
       \/ req[r].pc = "answer" /\ req[r].status = "ok"
    => ~arrival[r].barred

\* What an answer says of the presented token is true of the table: after the
\* answer of a rotation, of a refusal for a disabled account or of a
\* revocation, the token is not live.
AnswersMeanRevoked ==
  \A r \in Requests :
    /\ req[r].pc = "answer" /\ req[r].token # NoValue
    /\ req[r].status \in {"ok", "denied"}
    => ~Live(req[r].token)

\* A client never holds a refresh token that the table has not stored: the
\* INSERT commits before the answer, and strings are never reused.
AnsweredIsStored ==
  /\ \A t \in delivered : rows[t].state # "unissued"
  /\ \A r \in Requests : req[r].pc = "answer" /\ req[r].status = "ok" /\ req[r].fresh # NoValue
       => rows[req[r].fresh].state # "unissued"

\* Refresh grants past findValid with token t that have not stored a child.
Rotating(t) ==
  {r \in Requests : req[r].op = "refresh" /\ req[r].token = t
                      /\ req[r].pc \in {"findUser", "cleanup", "revoke", "mint", "save"}}

\* Concurrent refreshes of one token may all succeed (see SingleUse), but the
\* damage is bounded: a token has at most as many children as requests that
\* were in flight together before its revocation.
BoundedFanOut ==
  \A t \in Tokens :
    Cardinality({c \in Tokens : parent[c] = t}) + Cardinality(Rotating(t))
      <= Cardinality(Requests)

\* The rotation of README.md and of the comments in AuthService.refresh: a
\* refresh token is good for one new pair.  Not an invariant.
SingleUse ==
  \A t1, t2 \in Tokens : parent[t1] # NoValue /\ parent[t1] = parent[t2] => t1 = t2

LedgerStatus(state) ==
  CASE state = "unissued" -> "unissued"
    [] state = "live" -> "live"
    [] OTHER -> "dead"

Ledger == INSTANCE GrantLedger WITH
  status <- [t \in Tokens |-> LedgerStatus(rows[t].state)],
  owner  <- [t \in Tokens |-> rows[t].userId],
  parent <- parent

\* The service implements the ledger: tokens die for good, and every new token
\* comes from a login or from a dead token of the same account.
ImplementsLedger == Ledger!Spec
=============================================================================
