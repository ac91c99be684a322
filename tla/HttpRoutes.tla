----------------------------- MODULE HttpRoutes -----------------------------
(***************************************************************************)
(* The path of one request through Express: middleware, router, validation *)
(* of the body, the service behind the route, the error handler.  Every    *)
(* request takes this path alone, so one slot is enough.  Meanwhile MySQL  *)
(* goes down and comes back at any moment, and with MySQL up, too, any     *)
(* connection or statement of the request may fail.                        *)
(*                                                                         *)
(* What the services do is in Grants, Accounts and UserViews.  Here they   *)
(* are the outcomes they can have, as the errors they throw.               *)
(***************************************************************************)
EXTENDS Naturals, Sequences

CONSTANT Requests   \* the requests that clients send

Routes == {"preflight", "unknown", "health", "passwordGrant", "refreshGrant", "otherGrant",
           "register", "userinfo", "users", "patchRoles", "revoke"}
Fields == {"username", "email", "password", "refresh_token", "roles"}

\* A member of the JSON body: text of some length, an e-mail address, an array of
\* so many strings, or any other true value; null, 0 and false count as absent.
Field == [kind: {"absent", "text", "email", "strings", "other"}, length: Nat]
Request == [route: Routes,
            path: {"plain", "undecodable"},             \* the parameter :uuid
            json: BOOLEAN,                              \* the body parses, within 100kb
            bearer: {"none", "noSub", "user", "admin"}, \* a valid token, and its claims
            body: [Fields -> Field]]

ASSUME HttpRoutesAssumption == Requests \subseteq Request /\ Requests # {}

VARIABLES
  mysql,    \* "up" or "down"
  req,      \* the request in flight, or the last one
  stage,    \* where it is
  err,      \* what was passed to next(err)
  answers,  \* the statuses sent for it
  seen,     \* history: the values of mysql since it arrived
  failed    \* history: a connection or a statement of it failed

vars == <<mysql, req, stage, err, answers, seen, failed>>

-----------------------------------------------------------------------------
Stages == {"idle", "parse", "route", "authenticate", "requireRole", "validate",
           "service", "ping", "catch", "error", "done"}

Mysql == {"up", "down"}

\* Codes of AppError, codes of the driver, and errors without a code.
AppErrors == {"VALIDATION_ERROR", "UNAUTHORIZED", "FORBIDDEN", "NOT_FOUND", "CONFLICT",
              "FOREIGN_KEY_VIOLATION", "INTERNAL_ERROR"}
DriverErrors == {"ER_DUP_ENTRY", "ER_ROW_IS_REFERENCED_2", "ER_NO_REFERENCED_ROW_2",
                 "ER_DATA_TOO_LONG", "ER_LOCK_DEADLOCK", "ER_LOCK_WAIT_TIMEOUT", "ER_OTHER"}

\* MySQL cannot be reached, the connection breaks under the statement, MySQL has
\* no connection left, MySQL is stopping.
ConnectionErrors == {"ECONNREFUSED", "PROTOCOL_CONNECTION_LOST", "ER_CON_COUNT_ERROR",
                     "ER_SERVER_SHUTDOWN"}

Errors == AppErrors \cup DriverErrors \cup ConnectionErrors
            \cup {"none", "badBody", "badPath", "notAString", "rowGone"}

Init ==
  /\ mysql \in Mysql
  /\ req \in Requests
  /\ stage = "idle" /\ err = "none" /\ answers = <<>> /\ seen = {mysql}
  /\ failed = FALSE

\* JavaScript's truth of a member of the body.
Given(f) == f.kind # "absent" /\ ~(f.kind = "text" /\ f.length = 0)
IsText(f) == f.kind \in {"text", "email"}

RegisterSchema(body) ==
  /\ IsText(body.username) /\ body.username.length \in 3..100
  /\ body.email.kind = "email"
  /\ IsText(body.password) /\ body.password.length >= 8

\* The columns of USERS: an INSERT in strict mode rejects what is longer.
FitsColumns(body) == body.username.length <= 100 /\ body.email.length <= 255

RolesGiven(body) == body.roles.kind = "strings" /\ body.roles.length > 0

\* Mutant of Send: the handler goes on after it has answered.
SendAndGoOn(status) ==
  /\ answers' = Append(answers, status)
  /\ stage' = IF stage = "validate" THEN "service" ELSE "done"
  /\ UNCHANGED <<mysql, req, err, seen, failed>>

\* res.status(status).json(...); return.
Send(status) ==
  /\ answers' = Append(answers, status)
  /\ stage' = "done"
  /\ UNCHANGED <<mysql, req, err, seen, failed>>

\* Mutant of Throw: an async handler without try, whose rejection Express 4 ignores.
ThrowUncaught(e) ==
  /\ err' = e
  /\ stage' = "idle"
  /\ UNCHANGED <<mysql, req, answers, seen, failed>>

\* throw, caught by the handler, and next(err).
Throw(e) ==
  /\ err' = e
  /\ stage' = "error"
  /\ UNCHANGED <<mysql, req, answers, seen, failed>>

Goto(s) == stage' = s /\ UNCHANGED <<mysql, req, err, answers, seen, failed>>

-----------------------------------------------------------------------------
(* Middleware *)

Arrive ==
  /\ stage = "idle"
  /\ req' \in Requests
  /\ stage' = "parse" /\ err' = "none" /\ answers' = <<>>
  /\ seen' = {mysql} /\ failed' = FALSE
  /\ UNCHANGED mysql

\* cors answers a preflight; express.json reads every other body, whatever the route.
ParseBody ==
  /\ stage = "parse"
  /\ \/ req.route = "preflight" /\ Send(204)
     \/ req.route # "preflight" /\ ~req.json /\ Throw("badBody")
     \/ req.route # "preflight" /\ req.json /\ Goto("route")

Protected == {"userinfo", "users", "patchRoles", "revoke"}

\* Mutant of AdminOnly: requireRole is left out of one route.
AdminOnlyForgotten == {"users"}

AdminOnly == {"users", "patchRoles"}

\* Matching a path decodes its parameters.
Route ==
  /\ stage = "route"
  /\ \/ req.route = "unknown" /\ Send(404)
     \/ req.route = "patchRoles" /\ req.path = "undecodable" /\ Throw("badPath")
     \/ /\ req.route # "unknown" /\ ~(req.route = "patchRoles" /\ req.path = "undecodable")
        /\ Goto(IF req.route \in Protected THEN "authenticate"
                ELSE IF req.route = "health" THEN "service" ELSE "validate")

Authenticate ==
  /\ stage = "authenticate"
  /\ \/ req.bearer = "none" /\ Send(401)
     \/ req.bearer # "none" /\ Goto(IF req.route \in AdminOnly THEN "requireRole" ELSE "validate")

RequireRole ==
  /\ stage = "requireRole"
  /\ \/ req.bearer # "admin" /\ Send(403)
     \/ req.bearer = "admin" /\ Goto("validate")

-----------------------------------------------------------------------------
(* Handlers *)

\* The two routes that answer a bad request themselves.
Reject ==
  /\ stage = "validate"
  /\ \/ req.route = "otherGrant" /\ Send(400)
     \/ req.route = "revoke" /\ ~Given(req.body.refresh_token) /\ Send(400)
     \/ req.route = "userinfo" /\ req.bearer = "noSub" /\ Send(401)

\* What the handler and the service check before the first statement.
Valid(r) ==
  CASE r.route = "passwordGrant" -> Given(r.body.username) /\ Given(r.body.password)
    [] r.route = "refreshGrant" -> Given(r.body.refresh_token)
    [] r.route = "register" -> RegisterSchema(r.body)
    [] r.route = "patchRoles" -> RolesGiven(r.body)
    [] OTHER -> TRUE

Validate ==
  /\ stage = "validate"
  /\ req.route # "otherGrant"
  /\ req.route = "revoke" => Given(req.body.refresh_token)
  /\ req.route = "userinfo" => req.bearer # "noSub"
  /\ \/ Valid(req) /\ Goto("service")
     \/ ~Valid(req) /\ Throw("VALIDATION_ERROR")

\* Values of the body that are bound to a statement or compared by bcrypt as they are.
Bound(r) ==
  CASE r.route = "passwordGrant" -> {r.body.username, r.body.password}
    [] r.route \in {"refreshGrant", "revoke"} -> {r.body.refresh_token}
    [] OTHER -> {}

\* A statement that locks rows may be the victim of a deadlock, or wait too long.
Locked == {"ER_LOCK_DEADLOCK", "ER_LOCK_WAIT_TIMEOUT"}

\* How the service can fail although its connections hold.  When an operator
\* deletes the account meanwhile, a foreign key refuses the row of a grant, and
\* the row that an INSERT reads back is undefined.
Failures(r) ==
  CASE r.route \in {"passwordGrant", "refreshGrant"} ->
         {"UNAUTHORIZED", "ER_NO_REFERENCED_ROW_2", "rowGone"} \cup Locked
    [] r.route = "register" -> {"CONFLICT", "ER_DUP_ENTRY", "rowGone"} \cup Locked
    [] r.route = "userinfo" -> {"UNAUTHORIZED"}
    [] r.route = "patchRoles" -> {"VALIDATION_ERROR", "NOT_FOUND"} \cup Locked
    [] r.route = "revoke" -> Locked
    [] OTHER -> {}

\* One step for the statements of a service that got an answer to each; bcrypt
\* and MySQL may refuse a value that is not text.
Serve ==
  /\ stage = "service" /\ req.route # "health" /\ mysql = "up"
  /\ \/ /\ req.route = "register" => FitsColumns(req.body)
        /\ Send(IF req.route = "register" THEN 201 ELSE 200)
     \/ \E e \in Failures(req) : Throw(e)
     \/ req.route = "register" /\ ~FitsColumns(req.body) /\ Throw("ER_DATA_TOO_LONG")
     \/ \E f \in Bound(req) : ~IsText(f) /\ (Throw("notAString") \/ Throw("ER_OTHER"))

\* Mutant of GetConnection: the probe asks the pool for a connection, and is content.
GetConnectionOnly == Send(200)

\* getConnection(): an idle connection, though MySQL may have closed it, or a new one.
GetConnection == Goto("ping")

\* The round trip of conn.ping() on the connection.
Ping == mysql = "up" /\ Send(200)

\* Getting a connection, or a statement on it, fails with MySQL up or down.  The
\* probe catches the error itself, every other handler hands it to next(err).
LoseConnection ==
  /\ stage \in {"service", "ping"}
  /\ err' \in ConnectionErrors
  /\ stage' = IF req.route = "health" THEN "catch" ELSE "error"
  /\ failed' = TRUE
  /\ UNCHANGED <<mysql, req, answers, seen>>

Health ==
  \/ stage = "service" /\ req.route = "health" /\ GetConnection
  \/ stage = "ping" /\ Ping
  \/ stage = "catch" /\ Send(503)

TranslateDbError(e) ==
  CASE e = "ER_DUP_ENTRY" -> "CONFLICT"
    [] e \in {"ER_ROW_IS_REFERENCED_2", "ER_NO_REFERENCED_ROW_2"} -> "FOREIGN_KEY_VIOLATION"
    [] OTHER -> e

StatusByCode(code) ==
  CASE code = "VALIDATION_ERROR" -> 400
    [] code = "UNAUTHORIZED" -> 401
    [] code = "FORBIDDEN" -> 403
    [] code = "NOT_FOUND" -> 404
    [] code \in {"CONFLICT", "FOREIGN_KEY_VIOLATION"} -> 409
    [] OTHER -> 500

GlobalErrorHandler == stage = "error" /\ Send(StatusByCode(TranslateDbError(err)))

\* The response is over.
Finish == stage = "done" /\ Goto("idle")

\* MySQL stops or comes back.
MysqlTurns ==
  /\ mysql' \in Mysql \ {mysql}
  /\ seen' = seen \cup {mysql'}
  /\ UNCHANGED <<req, stage, err, answers, failed>>

Handle ==
  \/ ParseBody \/ Route \/ Authenticate \/ RequireRole \/ Reject \/ Validate
  \/ Serve \/ LoseConnection \/ Health \/ GlobalErrorHandler

Next == Arrive \/ Handle \/ Finish \/ MysqlTurns

Spec == Init /\ [][Next]_vars

\* Express calls the next middleware, and every await settles.
FairSpec == Spec /\ WF_vars(Handle)

-----------------------------------------------------------------------------
(* Properties *)

\* Type correctness, and at most one answer.
TypeOK ==
  /\ mysql \in Mysql /\ req \in Requests /\ stage \in Stages /\ err \in Errors
  /\ seen \in SUBSET Mysql /\ failed \in BOOLEAN
  /\ stage \in {"done", "idle"} \/ answers = <<>>
  /\ \E s \in {200, 201, 204, 400, 401, 403, 404, 409, 500, 503} : answers \in {<<>>, <<s>>}

\* A service runs only for a request whose body and path were read, whose token
\* names the caller the service needs, with the role it needs, and whose data
\* the service can use.  (README, the columns Auth and Body of its API tables.)
ServiceIsEntitled ==
  stage = "service" =>
    /\ req.json
    /\ req.route \in {"users", "patchRoles"} => req.bearer = "admin"
    /\ req.route \in {"userinfo", "revoke"} => req.bearer # "none"
    /\ req.route = "userinfo" => req.bearer # "noSub"
    /\ req.route = "register" =>
         /\ req.body.username.kind \in {"text", "email"} /\ req.body.username.length > 2
         /\ req.body.password.kind \in {"text", "email"} /\ req.body.password.length > 7
    /\ req.route = "patchRoles" => req.path = "plain" /\ req.body.roles.kind = "strings"

\* What may be wrong: the body or the path cannot be read, a connection or a
\* statement failed, another transaction or the deletion of the account got in
\* the way, a member of the body is not text, or the address is longer than its
\* column.
ReasonForServerError ==
  \/ ~req.json \/ req.path = "undecodable"
  \/ failed
  \/ err \in {"ER_LOCK_DEADLOCK", "ER_LOCK_WAIT_TIMEOUT", "rowGone"}
  \/ \E f \in {"username", "password", "refresh_token"} : req.body[f].kind \in {"strings", "other"}
  \/ req.route = "register" /\ req.body.email.length > 255

\* Every refusal by a check, a unique key or a foreign key is translated to a
\* status of its own, and what the schema of a registration admits fits the
\* columns, but for the address.
ServerErrorHasReason == answers = <<500>> => ReasonForServerError

\* A connection that fails is never taken for a fault of the client's, nor for
\* success, on the way through catch, next and the tables of codes.
FailureIsShown ==
  stage = "done" /\ failed => answers = IF req.route = "health" THEN <<503>> ELSE <<500>>

\* The health probe says that MySQL is up only if it was so since the request
\* arrived, whatever the pool remembers; and that it is down only if the probe's
\* own connection failed.
HealthIsCurrent ==
  req.route = "health" =>
    /\ answers = <<200>> => "up" \in seen
    /\ answers = <<503>> => failed

\* A status says what happened: 500 has one of the reasons named above, a failed
\* connection ends in 500 or 503 and in nothing else, and the probe's 200 is of a
\* moment since it was asked.
StatusIsTrue == ServerErrorHasReason /\ FailureIsShown /\ HealthIsCurrent

\* Every request is answered, whatever it is and whatever MySQL does.
EveryRequestIsAnswered == (stage = "parse") ~> (stage = "done" /\ Len(answers) = 1)
=============================================================================
