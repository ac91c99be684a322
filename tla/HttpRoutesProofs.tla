-------------------------- MODULE HttpRoutesProofs --------------------------
(***************************************************************************)
(* Theorems about HttpRoutes, for any set of requests: bodies of any       *)
(* length, any claims, any behaviour of MySQL.  The invariant says what a  *)
(* request has passed when it reaches a stage.                             *)
(***************************************************************************)
EXTENDS HttpRoutes, TLAPS

\* What the stages behind a request have established.
Read == stage \in {"route", "authenticate", "requireRole", "validate", "service"} =>
          req.json /\ answers = <<>>
Routed == stage \in {"authenticate", "requireRole", "validate", "service"} =>
            ~(req.route = "patchRoles" /\ req.path = "undecodable")
Chained == /\ stage = "authenticate" => req.route \in Protected
           /\ stage = "requireRole" => req.route \in AdminOnly
Known == stage \in {"requireRole", "validate", "service"} /\ req.route \in Protected =>
           req.bearer # "none"
Admitted == stage \in {"validate", "service"} /\ req.route \in AdminOnly => req.bearer = "admin"
Checked == stage = "service" =>
             /\ Valid(req)
             /\ req.route = "userinfo" => req.bearer # "noSub"
             /\ req.route = "revoke" => Given(req.body.refresh_token)

\* A failed connection has left the service: the probe's is caught, any other
\* is on its way to the error handler.
Failing ==
  /\ stage \in {"ping", "catch"} => req.route = "health"
  /\ stage = "catch" => failed
  /\ failed => /\ stage \in {"catch", "error", "done", "idle"}
               /\ stage = "error" => err \in ConnectionErrors /\ req.route # "health"

\* The error on its way to the handler, and the answer.
ErrorHasReason == stage = "error" /\ StatusByCode(TranslateDbError(err)) = 500 => ReasonForServerError
Witnessed == mysql \in seen

Path == Read /\ Routed /\ Chained /\ Known /\ Admitted /\ Checked
IInv ==
  /\ TypeOK /\ Path /\ Failing /\ Witnessed
  /\ ErrorHasReason /\ ServerErrorHasReason /\ FailureIsShown /\ HealthIsCurrent

-----------------------------------------------------------------------------
(* The table of errors *)

\* Only what no table knows becomes 500.
LEMMA Statuses ==
  ASSUME NEW e \in Errors
  PROVE  /\ StatusByCode(TranslateDbError(e)) \in {400, 401, 403, 404, 409, 500}
         /\ StatusByCode(TranslateDbError(e)) = 500 =>
              e \in {"INTERNAL_ERROR", "ER_DATA_TOO_LONG", "ER_LOCK_DEADLOCK",
                     "ER_LOCK_WAIT_TIMEOUT", "ER_OTHER", "none", "badBody", "badPath",
                     "notAString", "rowGone"} \cup ConnectionErrors
         /\ e \in ConnectionErrors => StatusByCode(TranslateDbError(e)) = 500
BY DEF Errors, AppErrors, DriverErrors, ConnectionErrors, StatusByCode, TranslateDbError

LEMMA RequestFields ==
  ASSUME NEW r \in Requests
  PROVE  /\ r \in Request
         /\ \A f \in Fields : r.body[f] \in Field
         /\ r.body.username \in Field /\ r.body.email \in Field /\ r.body.password \in Field
         /\ r.body.refresh_token \in Field /\ r.body.roles \in Field
<1>1. r \in Request
  BY HttpRoutesAssumption
<1>2. \A f \in Fields : r.body[f] \in Field
  BY <1>1 DEF Request
<1>3. QED
  BY <1>1, <1>2 DEF Fields

\* The schema of a registration admits nothing too long but the address.
LEMMA SchemaFits ==
  ASSUME NEW r \in Requests, RegisterSchema(r.body), ~FitsColumns(r.body)
  PROVE  r.body.email.length > 255
BY RequestFields DEF RegisterSchema, FitsColumns, Field

\* A bound value is one of three members of the body.
LEMMA BoundAreMembers ==
  ASSUME NEW r \in Requests, NEW f \in Bound(r), ~IsText(f), Valid(r),
         r.route = "revoke" => Given(r.body.refresh_token)
  PROVE  \E g \in {"username", "password", "refresh_token"} : r.body[g].kind \in {"strings", "other"}
<1>1. f \in {r.body.username, r.body.password, r.body.refresh_token}
  BY DEF Bound
<1>2. f \in Field /\ Given(f)
  BY <1>1, RequestFields DEF Valid, Bound
<1>3. f.kind \in {"strings", "other"}
  BY <1>2 DEF Field, IsText, Given
<1>4. QED
  BY <1>1, <1>3

-----------------------------------------------------------------------------
LEMMA Initially == Init => IInv
<1> SUFFICES ASSUME Init PROVE IInv
  OBVIOUS
<1>1. failed \in BOOLEAN /\ ~failed
  BY Zenon DEF Init
<1>2. /\ mysql \in Mysql /\ req \in Requests /\ seen \in SUBSET Mysql /\ mysql \in seen
      /\ stage = "idle" /\ err = "none" /\ answers = <<>>
  BY DEF Init
<1>3. TypeOK /\ Witnessed
  BY <1>1, <1>2 DEF TypeOK, Witnessed, Stages, Errors
<1>4. Path /\ Failing /\ ErrorHasReason /\ ServerErrorHasReason /\ FailureIsShown /\ HealthIsCurrent
  BY <1>1, <1>2 DEF Path, Read, Routed, Chained, Known, Admitted, Checked, Failing,
       ErrorHasReason, ServerErrorHasReason, FailureIsShown, HealthIsCurrent
<1> QED BY <1>3, <1>4 DEF IInv

\* A reason stays one while the request and its error do.
LEMMA ReasonsStay ==
  ASSUME req' = req, err' = err, failed' = failed, ReasonForServerError
  PROVE  ReasonForServerError'
BY Zenon DEF ReasonForServerError

\* An answer of any status but 500, and those of a failure only with a witness.
LEMMA SendKeeps ==
  ASSUME IInv, NEW s \in {200, 201, 204, 400, 401, 403, 404, 409, 500, 503}, Send(s),
         answers = <<>>,
         s = 500 => ReasonForServerError,
         failed => s = IF req.route = "health" THEN 503 ELSE 500,
         req.route = "health" /\ s = 200 => "up" \in seen,
         req.route = "health" /\ s = 503 => failed
  PROVE  IInv'
<1>1. answers' = <<s>> /\ stage' = "done" /\ UNCHANGED <<mysql, req, err, seen, failed>>
  BY DEF Send
<1>2. TypeOK'
  <2>1. failed' \in BOOLEAN
    BY <1>1, Zenon DEF IInv, TypeOK
  <2>2. mysql' \in Mysql /\ req' \in Requests /\ err' \in Errors /\ seen' \in SUBSET Mysql
    BY <1>1 DEF IInv, TypeOK
  <2> QED BY <1>1, <2>1, <2>2 DEF TypeOK, Stages
<1>3. Path' /\ Witnessed' /\ ErrorHasReason' /\ Failing'
  BY <1>1 DEF IInv, Path, Read, Routed, Chained, Known, Admitted, Checked, Witnessed, ErrorHasReason,
              Failing
<1>4. /\ answers' = <<500>> => s = 500
      /\ answers' = <<200>> => s = 200
      /\ answers' = <<503>> => s = 503
  BY <1>1
<1>5. ServerErrorHasReason'
  BY <1>1, <1>4, ReasonsStay DEF ServerErrorHasReason
<1>6. HealthIsCurrent'
  BY <1>1, <1>4 DEF HealthIsCurrent
<1>7. FailureIsShown'
  BY <1>1 DEF FailureIsShown
<1>8. QED
  BY <1>2, <1>3, <1>5, <1>6, <1>7 DEF IInv

LEMMA ThrowKeeps ==
  ASSUME IInv, NEW e \in Errors, Throw(e), answers = <<>>, ~failed,
         StatusByCode(TranslateDbError(e)) = 500 => ReasonForServerError'
  PROVE  IInv'
<1>1. err' = e /\ stage' = "error" /\ UNCHANGED <<mysql, req, answers, seen, failed>>
  BY DEF Throw
<1>2. TypeOK'
  BY <1>1 DEF IInv, TypeOK, Stages
<1>3. Path' /\ Witnessed' /\ Failing'
  BY <1>1 DEF IInv, Path, Read, Routed, Chained, Known, Admitted, Checked, Witnessed, Failing
<1>4. ErrorHasReason' /\ ServerErrorHasReason' /\ FailureIsShown' /\ HealthIsCurrent'
  BY <1>1 DEF ErrorHasReason, ServerErrorHasReason, FailureIsShown, HealthIsCurrent
<1>5. QED
  BY <1>2, <1>3, <1>4 DEF IInv

LEMMA GotoKeeps ==
  ASSUME IInv, NEW s \in Stages \ {"error", "done"}, Goto(s), answers = <<>> \/ s = "idle",
         Path', Failing'
  PROVE  IInv'
<1>1. stage' = s /\ UNCHANGED <<mysql, req, err, answers, seen, failed>>
  BY DEF Goto
<1>2. TypeOK' /\ Witnessed'
  <2>1. failed' \in BOOLEAN
    BY <1>1, Zenon DEF IInv, TypeOK
  <2>2. mysql' \in Mysql /\ req' \in Requests /\ err' \in Errors /\ seen' \in SUBSET Mysql
        /\ Witnessed'
    BY <1>1 DEF IInv, TypeOK, Witnessed
  <2>3. \E t \in {200, 201, 204, 400, 401, 403, 404, 409, 500, 503} : answers' \in {<<>>, <<t>>}
    BY <1>1 DEF IInv, TypeOK
  <2> QED BY <1>1, <2>1, <2>2, <2>3 DEF TypeOK, Stages
<1>3. ErrorHasReason' /\ FailureIsShown' /\ HealthIsCurrent'
  BY <1>1 DEF IInv, ErrorHasReason, FailureIsShown, HealthIsCurrent
<1>4. ServerErrorHasReason'
  BY <1>1, ReasonsStay DEF IInv, ServerErrorHasReason
<1>5. QED
  BY <1>2, <1>3, <1>4 DEF IInv

LEMMA Inductive == IInv /\ [Next]_vars => IInv'
<1>1. SUFFICES ASSUME IInv, [Next]_vars  PROVE IInv'
  OBVIOUS
<1>2. req \in Requests /\ req \in Request /\ err \in Errors /\ mysql \in Mysql /\ seen \in SUBSET Mysql
  BY <1>1, RequestFields DEF IInv, TypeOK
<1>3. /\ stage \notin {"done", "idle"} => answers = <<>>
      /\ stage \notin {"catch", "error", "done", "idle"} => ~failed
  BY <1>1 DEF IInv, TypeOK, Failing
<1> DEFINE PathParts == Path /\ Read /\ Routed /\ Chained /\ Known /\ Admitted /\ Checked
<1>4. CASE Arrive
  <2>1. req' \in Requests /\ stage' = "parse" /\ err' = "none" /\ answers' = <<>>
        /\ seen' = {mysql} /\ failed' = FALSE /\ mysql' = mysql
    BY <1>4 DEF Arrive
  <2>2. TypeOK' /\ Path' /\ Failing' /\ Witnessed'
    BY <1>2, <2>1 DEF TypeOK, Stages, Errors, Path, Read, Routed, Chained, Known, Admitted, Checked,
                      Failing, Witnessed
  <2>3. ErrorHasReason' /\ ServerErrorHasReason' /\ FailureIsShown' /\ HealthIsCurrent'
    BY <2>1 DEF ErrorHasReason, ServerErrorHasReason, FailureIsShown, HealthIsCurrent
  <2>4. QED
    BY <2>2, <2>3 DEF IInv
<1>5. CASE ParseBody
  <2>1. stage = "parse" /\ answers = <<>> /\ ~failed
    BY <1>5, <1>3 DEF ParseBody
  <2>2. CASE Send(204)
    BY <1>1, <2>1, <2>2, SendKeeps
  <2>3. CASE ~req.json /\ Throw("badBody")
    <3>1. ReasonForServerError'
      BY <2>3 DEF Throw, ReasonForServerError
    <3>2. QED
      BY <1>1, <2>1, <2>3, <3>1, ThrowKeeps DEF Errors
  <2>4. CASE req.json /\ Goto("route")
    <3>1. Path' /\ Failing'
      BY <2>1, <2>4 DEF Goto, Path, Read, Routed, Chained, Known, Admitted, Checked, Failing
    <3>2. QED
      BY <1>1, <2>1, <2>4, <3>1, GotoKeeps DEF Stages
  <2>5. QED
    BY <1>5, <2>2, <2>3, <2>4 DEF ParseBody
<1>6. CASE Route
  <2>1. stage = "route" /\ answers = <<>> /\ req.json /\ ~failed
    BY <1>1, <1>3, <1>6 DEF Route, IInv, Path, Read
  <2>2. CASE Send(404)
    BY <1>1, <2>1, <2>2, SendKeeps
  <2>3. CASE req.path = "undecodable" /\ Throw("badPath")
    <3>1. ReasonForServerError'
      BY <2>3 DEF Throw, ReasonForServerError
    <3>2. QED
      BY <1>1, <2>1, <2>3, <3>1, ThrowKeeps DEF Errors
  <2>4. ASSUME req.route # "unknown", ~(req.route = "patchRoles" /\ req.path = "undecodable"),
               Goto(IF req.route \in Protected THEN "authenticate"
                    ELSE IF req.route = "health" THEN "service" ELSE "validate")
        PROVE  IInv'
    <3>1. Path' /\ Failing'
      BY <2>1, <2>4 DEF Goto, Path, Read, Routed, Chained, Known, Admitted, Checked, Protected, AdminOnly, Valid, Failing
    <3>2. QED
      BY <1>1, <2>1, <2>4, <3>1, GotoKeeps DEF Stages
  <2>5. QED
    BY <1>6, <2>2, <2>3, <2>4 DEF Route
<1>7. CASE Authenticate
  <2>1. stage = "authenticate" /\ answers = <<>> /\ ~failed
    BY <1>3, <1>7 DEF Authenticate
  <2>2. CASE Send(401)
    BY <1>1, <2>1, <2>2, SendKeeps
  <2>3. CASE req.bearer # "none" /\ Goto(IF req.route \in AdminOnly THEN "requireRole" ELSE "validate")
    <3>1. Path' /\ Failing'
      BY <1>1, <2>1, <2>3 DEF IInv, Goto, Path, Read, Routed, Chained, Known, Admitted, Checked, Failing
    <3>2. QED
      BY <1>1, <2>1, <2>3, <3>1, GotoKeeps DEF Stages
  <2>4. QED
    BY <1>7, <2>2, <2>3 DEF Authenticate
<1>8. CASE RequireRole
  <2>1. stage = "requireRole" /\ answers = <<>> /\ ~failed
    BY <1>3, <1>8 DEF RequireRole
  <2>2. CASE Send(403)
    BY <1>1, <2>1, <2>2, SendKeeps
  <2>3. CASE req.bearer = "admin" /\ Goto("validate")
    <3>1. Path' /\ Failing'
      BY <1>1, <2>1, <2>3 DEF IInv, Goto, Path, Read, Routed, Chained, Known, Admitted, Checked, Failing
    <3>2. QED
      BY <1>1, <2>1, <2>3, <3>1, GotoKeeps DEF Stages
  <2>4. QED
    BY <1>8, <2>2, <2>3 DEF RequireRole
<1>9. CASE Reject
  <2>1. answers = <<>> /\ ~failed
    BY <1>3, <1>9 DEF Reject
  <2>2. Send(400) \/ Send(401)
    BY <1>9 DEF Reject
  <2>3. QED
    BY <1>1, <2>1, <2>2, SendKeeps
<1>10. CASE Validate
  <2>1. /\ stage = "validate" /\ answers = <<>> /\ ~failed
        /\ req.route = "revoke" => Given(req.body.refresh_token)
        /\ req.route = "userinfo" => req.bearer # "noSub"
    BY <1>3, <1>10 DEF Validate
  <2>2. CASE Valid(req) /\ Goto("service")
    <3>1. Path' /\ Failing'
      BY <1>1, <2>1, <2>2 DEF IInv, Goto, Path, Read, Routed, Chained, Known, Admitted, Checked, Failing
    <3>2. QED
      BY <1>1, <2>1, <2>2, <3>1, GotoKeeps DEF Stages
  <2>3. CASE Throw("VALIDATION_ERROR")
    <3>1. "VALIDATION_ERROR" \in Errors /\ StatusByCode(TranslateDbError("VALIDATION_ERROR")) = 400
      BY DEF Errors, AppErrors, StatusByCode, TranslateDbError
    <3>2. QED
      BY <1>1, <2>1, <2>3, <3>1, ThrowKeeps
  <2>4. QED
    BY <1>10, <2>2, <2>3 DEF Validate
<1>11. CASE Serve
  <2>1. /\ stage = "service" /\ answers = <<>> /\ ~failed /\ req.route # "health"
        /\ Valid(req) /\ (req.route = "revoke" => Given(req.body.refresh_token))
    BY <1>1, <1>2, <1>3, <1>11 DEF Serve, IInv, Path, Checked
  <2>2. CASE Send(IF req.route = "register" THEN 201 ELSE 200)
    <3>1. CASE req.route = "register" /\ Send(201)
      BY <1>1, <2>1, <3>1, SendKeeps
    <3>2. CASE req.route # "register" /\ Send(200)
      BY <1>1, <2>1, <3>2, SendKeeps
    <3>3. QED
      BY <2>2, <3>1, <3>2
  <2>3. ASSUME NEW e \in Failures(req), Throw(e)  PROVE IInv'
    <3>1. e \in {"UNAUTHORIZED", "ER_NO_REFERENCED_ROW_2", "rowGone", "CONFLICT", "ER_DUP_ENTRY",
                 "ER_LOCK_DEADLOCK", "ER_LOCK_WAIT_TIMEOUT", "VALIDATION_ERROR", "NOT_FOUND"}
      BY <2>3 DEF Failures, Locked
    <3>2. e \in Errors
      BY <3>1 DEF Errors, AppErrors, DriverErrors
    <3>3. StatusByCode(TranslateDbError(e)) = 500 => ReasonForServerError'
      <4>1. StatusByCode(TranslateDbError(e)) = 500 =>
              e \in {"ER_LOCK_DEADLOCK", "ER_LOCK_WAIT_TIMEOUT", "rowGone"}
        BY <3>1, <3>2, Statuses DEF ConnectionErrors
      <4>2. err' = e
        BY <2>3 DEF Throw
      <4>3. QED
        BY <4>1, <4>2 DEF ReasonForServerError
    <3>4. QED
      BY <1>1, <2>1, <2>3, <3>2, <3>3, ThrowKeeps
  <2>4. CASE req.route = "register" /\ ~FitsColumns(req.body) /\ Throw("ER_DATA_TOO_LONG")
    <3>1. req.body.email.length > 255
      BY <1>2, <2>1, <2>4, SchemaFits DEF Valid
    <3>2. ReasonForServerError'
      BY <2>4, <3>1 DEF Throw, ReasonForServerError
    <3>3. QED
      BY <1>1, <2>1, <2>4, <3>2, ThrowKeeps DEF Errors, DriverErrors
  <2>5. ASSUME NEW f \in Bound(req), ~IsText(f), NEW e \in {"notAString", "ER_OTHER"}, Throw(e)
        PROVE  IInv'
    <3>1. \E g \in {"username", "password", "refresh_token"} : req.body[g].kind \in {"strings", "other"}
      BY <1>2, <2>1, <2>5, BoundAreMembers
    <3>2. ReasonForServerError'
      BY <2>5, <3>1 DEF Throw, ReasonForServerError
    <3>3. QED
      BY <1>1, <2>1, <2>5, <3>2, ThrowKeeps DEF Errors, DriverErrors
  <2>6. QED
    BY <1>11, <2>2, <2>3, <2>4, <2>5 DEF Serve
<1>12. CASE LoseConnection
  <2>1. /\ stage \in {"service", "ping"} /\ err' \in ConnectionErrors /\ failed' = TRUE
        /\ stage' = IF req.route = "health" THEN "catch" ELSE "error"
        /\ UNCHANGED <<mysql, req, answers, seen>> /\ answers = <<>>
    BY <1>3, <1>12 DEF LoseConnection
  <2>2. TypeOK' /\ Witnessed'
    BY <1>1, <1>2, <2>1 DEF IInv, TypeOK, Witnessed, Stages, Errors
  <2>3. Path' /\ Failing'
    BY <2>1 DEF Path, Read, Routed, Chained, Known, Admitted, Checked, Failing
  <2>4. ErrorHasReason' /\ ServerErrorHasReason' /\ FailureIsShown' /\ HealthIsCurrent'
    BY <2>1 DEF ErrorHasReason, ReasonForServerError, ServerErrorHasReason, FailureIsShown,
                HealthIsCurrent
  <2>5. QED
    BY <2>2, <2>3, <2>4 DEF IInv
<1>13. CASE Health
  <2>1. CASE stage = "service" /\ req.route = "health" /\ Goto("ping")
    <3>1. Path' /\ Failing' /\ answers = <<>>
      BY <1>3, <2>1 DEF Goto, Path, Read, Routed, Chained, Known, Admitted, Checked, Failing
    <3>2. QED
      BY <1>1, <2>1, <3>1, GotoKeeps DEF Stages
  <2>2. CASE stage = "ping" /\ mysql = "up" /\ Send(200)
    <3>1. "up" \in seen /\ ~failed /\ answers = <<>>
      BY <1>1, <1>3, <2>2 DEF IInv, Witnessed
    <3>2. QED
      BY <1>1, <2>2, <3>1, SendKeeps
  <2>3. CASE stage = "catch" /\ Send(503)
    <3>1. failed /\ answers = <<>> /\ req.route = "health"
      BY <1>1, <1>3, <2>3 DEF IInv, Failing
    <3>2. QED
      BY <1>1, <2>3, <3>1, SendKeeps
  <2>4. QED
    BY <1>13, <2>1, <2>2, <2>3 DEF Health, GetConnection, Ping
<1>14. CASE GlobalErrorHandler
  <2>1. stage = "error" /\ answers = <<>> /\ Send(StatusByCode(TranslateDbError(err)))
    BY <1>3, <1>14 DEF GlobalErrorHandler
  <2>2. StatusByCode(TranslateDbError(err)) \in {400, 401, 403, 404, 409, 500}
    BY <1>2, Statuses
  <2>3. StatusByCode(TranslateDbError(err)) = 500 => ReasonForServerError
    BY <1>1, <2>1 DEF IInv, ErrorHasReason
  <2>4. failed => req.route # "health" /\ StatusByCode(TranslateDbError(err)) = 500
    BY <1>1, <1>2, <2>1, Statuses DEF IInv, Failing
  <2>5. QED
    BY <1>1, <2>1, <2>2, <2>3, <2>4, SendKeeps
<1>15. CASE Finish
  <2>1. Goto("idle")
    BY <1>15 DEF Finish
  <2>2. Path' /\ Failing'
    BY <2>1 DEF Goto, Path, Read, Routed, Chained, Known, Admitted, Checked, Failing
  <2>3. QED
    BY <1>1, <2>1, <2>2, GotoKeeps DEF Stages
<1>16. CASE MysqlTurns
  <2>1. mysql' \in Mysql /\ seen' = seen \cup {mysql'} /\ UNCHANGED <<req, stage, err, answers, failed>>
    BY <1>16 DEF MysqlTurns
  <2>2. TypeOK' /\ Witnessed'
    <3>1. failed' \in BOOLEAN
      BY <1>1, <2>1, Zenon DEF IInv, TypeOK
    <3>2. /\ mysql' \in Mysql /\ req' \in Requests /\ stage' \in Stages /\ err' \in Errors
          /\ seen' \in SUBSET Mysql /\ (stage' \in {"done", "idle"} \/ answers' = <<>>) /\ Witnessed'
      BY <1>1, <1>2, <2>1 DEF IInv, TypeOK, Witnessed
    <3>3. \E t \in {200, 201, 204, 400, 401, 403, 404, 409, 500, 503} : answers' \in {<<>>, <<t>>}
      BY <1>1, <2>1 DEF IInv, TypeOK
    <3> QED BY <3>1, <3>2, <3>3 DEF TypeOK
  <2>3. Path' /\ Failing'
    BY <1>1, <2>1 DEF IInv, Path, Read, Routed, Chained, Known, Admitted, Checked, Failing
  <2>4. ErrorHasReason' /\ ServerErrorHasReason' /\ FailureIsShown' /\ HealthIsCurrent'
    <3>1. ReasonForServerError => ReasonForServerError'
      BY <2>1, ReasonsStay
    <3>2. QED
      BY <1>1, <2>1, <3>1 DEF IInv, ErrorHasReason, ServerErrorHasReason, FailureIsShown, HealthIsCurrent
  <2>5. QED
    BY <2>2, <2>3, <2>4 DEF IInv
<1>17. CASE UNCHANGED vars
  <2>1. UNCHANGED <<mysql, req, stage, err, answers, seen, failed>>
    BY <1>17 DEF vars
  <2>2. TypeOK' /\ Path' /\ Failing' /\ Witnessed'
    <3>1. TypeOK'
      <4>1. failed' \in BOOLEAN
        BY <1>1, <2>1, Zenon DEF IInv, TypeOK
      <4>2. /\ mysql' \in Mysql /\ req' \in Requests /\ stage' \in Stages /\ err' \in Errors
            /\ seen' \in SUBSET Mysql /\ (stage' \in {"done", "idle"} \/ answers' = <<>>)
        BY <1>1, <1>2, <2>1 DEF IInv, TypeOK
      <4>3. \E t \in {200, 201, 204, 400, 401, 403, 404, 409, 500, 503} : answers' \in {<<>>, <<t>>}
        BY <1>1, <2>1 DEF IInv, TypeOK
      <4> QED BY <4>1, <4>2, <4>3 DEF TypeOK
    <3>2. Path' /\ Failing' /\ Witnessed'
      BY <1>1, <2>1 DEF IInv, Path, Read, Routed, Chained, Known, Admitted, Checked, Failing, Witnessed
    <3> QED BY <3>1, <3>2
  <2>3. ReasonForServerError => ReasonForServerError'
    BY <2>1, ReasonsStay
  <2>4. ErrorHasReason' /\ ServerErrorHasReason' /\ FailureIsShown' /\ HealthIsCurrent'
    BY <1>1, <2>1, <2>3 DEF IInv, ErrorHasReason, ServerErrorHasReason, FailureIsShown, HealthIsCurrent
  <2>5. QED
    BY <2>2, <2>4 DEF IInv
<1>18. QED
  BY <1>1, <1>4, <1>5, <1>6, <1>7, <1>8, <1>9, <1>10, <1>11, <1>12, <1>13, <1>14, <1>15, <1>16,
     <1>17 DEF Next, Handle

-----------------------------------------------------------------------------
(* Theorems *)

LEMMA Invariance == Spec => []IInv
BY Initially, Inductive, PTL DEF Spec

\* No step leaves the stages, the errors or the statuses of the code, and no
\* request is answered twice.
THEOREM TypeCorrect == Spec => []TypeOK
<1>1. IInv => TypeOK
  BY DEF IInv
<1>2. QED
  BY <1>1, Invariance, PTL

\* No service runs for a request that the middleware and the checks should have
\* stopped, whatever its body and its token.
THEOREM ServicesAreEntitled == Spec => []ServiceIsEntitled
<1>1. IInv => ServiceIsEntitled
  <2>1. SUFFICES ASSUME IInv, stage = "service"  PROVE ServiceIsEntitled
    BY DEF ServiceIsEntitled
  <2>2. /\ req.json /\ Valid(req) /\ (req.route = "userinfo" => req.bearer # "noSub")
        /\ (req.route \in Protected => req.bearer # "none")
        /\ (req.route \in AdminOnly => req.bearer = "admin")
        /\ ~(req.route = "patchRoles" /\ req.path = "undecodable")
    BY <2>1 DEF IInv, Path, Read, Routed, Known, Admitted, Checked
  <2>3. req \in Request /\ req.body.username \in Field /\ req.body.password \in Field
    BY <2>1, RequestFields DEF IInv, TypeOK
  <2>4. req.route = "register" =>
          /\ req.body.username.kind \in {"text", "email"} /\ req.body.username.length > 2
          /\ req.body.password.kind \in {"text", "email"} /\ req.body.password.length > 7
    BY <2>2, <2>3 DEF Valid, RegisterSchema, IsText, Field
  <2>5. req.route = "patchRoles" => req.path = "plain" /\ req.body.roles.kind = "strings"
    BY <2>2, <2>3 DEF Valid, RolesGiven, Request
  <2>6. QED
    BY <2>2, <2>4, <2>5 DEF ServiceIsEntitled, Protected, AdminOnly
<1>2. QED
  BY <1>1, Invariance, PTL

\* An answer 500 has one of the reasons named: the schema, the checks and the
\* table of codes leave no other.  A connection that failed ends in 500 or 503,
\* and the probe says that MySQL is up only of a moment since the probe came.
THEOREM StatusesAreTrue == Spec => []StatusIsTrue
<1>1. IInv => StatusIsTrue
  BY DEF IInv, StatusIsTrue
<1>2. QED
  BY <1>1, Invariance, PTL
-----------------------------------------------------------------------------
(* The way to the answer *)

\* How many steps a request is away from its end at most.
StepsLeft(s) ==
  CASE s = "parse" -> 9 [] s = "route" -> 8 [] s = "authenticate" -> 7
    [] s = "requireRole" -> 6 [] s = "validate" -> 5 [] s = "service" -> 4
    [] s = "ping" -> 3 [] s \in {"error", "catch"} -> 2 [] s = "done" -> 1 [] OTHER -> 0

\* A step of the request leads on, and it is never dropped without an answer.
LeadsOn == StepsLeft(stage') < StepsLeft(stage) /\ stage' # "idle"

\* A request that is over has had one answer, and none before.
OneAnswer == stage # "idle" => Len(answers) = IF stage = "done" THEN 1 ELSE 0

\* What the three ways to end a step do to the stage and the answers.
LEMMA WaysOn ==
  ASSUME answers = <<>>, stage \in Stages
  PROVE  /\ \A s : Send(s) /\ stage # "done" /\ stage # "idle" =>
                   LeadsOn /\ Len(answers') = 1 /\ stage' = "done"
         /\ \A e : Throw(e) => stage' = "error" /\ answers' = <<>>
         /\ \A s : Goto(s) => stage' = s /\ answers' = <<>>
<1>1. ASSUME NEW s, Send(s), stage # "done", stage # "idle"
      PROVE  LeadsOn /\ Len(answers') = 1 /\ stage' = "done"
  BY <1>1 DEF Send, LeadsOn, StepsLeft, Stages
<1> QED BY <1>1 DEF Throw, Goto

\* A step of the middleware, a handler or the error handler leads on, to one
\* answer or to a stage without.
LEMMA HandleLeadsOn ==
  ASSUME IInv, stage # "done", answers = <<>>, Handle
  PROVE  LeadsOn /\ OneAnswer'
<1>0. stage \in Stages
  BY DEF IInv, TypeOK
<1> DEFINE Sent == \E s : Send(s)
           Thrown == stage' = "error" /\ answers' = <<>>
           Gone(s) == stage' = s /\ answers' = <<>>
<1>1. Sent /\ stage # "idle" => LeadsOn /\ OneAnswer'
  BY <1>0, WaysOn DEF OneAnswer
<1>2. Thrown /\ stage \in {"parse", "route", "authenticate", "requireRole", "validate", "service"}
        => LeadsOn /\ OneAnswer'
  BY DEF LeadsOn, OneAnswer, StepsLeft
<1>3. CASE ParseBody
  <2>1. stage = "parse" /\ (Sent \/ Thrown \/ Gone("route"))
    BY <1>0, <1>3, WaysOn DEF ParseBody
  <2>2. Gone("route") => LeadsOn /\ OneAnswer'
    BY <2>1 DEF LeadsOn, OneAnswer, StepsLeft
  <2> QED BY <1>1, <1>2, <2>1, <2>2
<1>4. CASE Route
  <2>1. /\ stage = "route"
        /\ Sent \/ Thrown \/ Gone("authenticate") \/ Gone("service") \/ Gone("validate")
    BY <1>0, <1>4, WaysOn DEF Route
  <2>2. Gone("authenticate") \/ Gone("service") \/ Gone("validate") => LeadsOn /\ OneAnswer'
    BY <2>1 DEF LeadsOn, OneAnswer, StepsLeft
  <2> QED BY <1>1, <1>2, <2>1, <2>2
<1>5. CASE Authenticate
  <2>1. stage = "authenticate" /\ (Sent \/ Gone("requireRole") \/ Gone("validate"))
    BY <1>0, <1>5, WaysOn DEF Authenticate
  <2>2. Gone("requireRole") \/ Gone("validate") => LeadsOn /\ OneAnswer'
    BY <2>1 DEF LeadsOn, OneAnswer, StepsLeft
  <2> QED BY <1>1, <2>1, <2>2
<1>6. CASE RequireRole
  <2>1. stage = "requireRole" /\ (Sent \/ Gone("validate"))
    BY <1>0, <1>6, WaysOn DEF RequireRole
  <2>2. Gone("validate") => LeadsOn /\ OneAnswer'
    BY <2>1 DEF LeadsOn, OneAnswer, StepsLeft
  <2> QED BY <1>1, <2>1, <2>2
<1>7. CASE Reject \/ Validate
  <2>1. stage = "validate" /\ (Sent \/ Thrown \/ Gone("service"))
    BY <1>0, <1>7, WaysOn DEF Reject, Validate
  <2>2. Gone("service") => LeadsOn /\ OneAnswer'
    BY <2>1 DEF LeadsOn, OneAnswer, StepsLeft
  <2> QED BY <1>1, <1>2, <2>1, <2>2
<1>8. CASE Serve \/ LoseConnection \/ Health
  <2>1. CASE Serve
    <3>1. stage = "service" /\ (Sent \/ Thrown)
      BY <1>0, <2>1, WaysOn DEF Serve
    <3> QED BY <1>1, <1>2, <3>1
  <2>2. CASE LoseConnection
    <3>1. stage \in {"service", "ping"} /\ stage' \in {"catch", "error"} /\ answers' = <<>>
      BY <2>2 DEF LoseConnection
    <3> QED BY <3>1 DEF LeadsOn, OneAnswer, StepsLeft
  <2>3. CASE Health
    <3>1. \/ stage = "service" /\ Gone("ping")
          \/ stage # "idle" /\ Sent
      BY <1>0, <2>3, WaysOn DEF Health, GetConnection, Ping
    <3>2. stage = "service" /\ Gone("ping") => LeadsOn /\ OneAnswer'
      BY DEF LeadsOn, OneAnswer, StepsLeft
    <3> QED BY <1>1, <3>1, <3>2
  <2> QED BY <1>8, <2>1, <2>2, <2>3
<1>9. CASE GlobalErrorHandler
  <2>1. stage = "error" /\ Sent
    BY <1>9 DEF GlobalErrorHandler
  <2> QED BY <1>1, <2>1
<1> QED BY <1>3, <1>4, <1>5, <1>6, <1>7, <1>8, <1>9 DEF Handle

\* A request that is handled has no answer yet.
LEMMA Unanswered ==
  ASSUME IInv, Handle
  PROVE  stage \notin {"idle", "done"} /\ answers = <<>>
<1>1. stage \notin {"idle", "done"}
  BY DEF Handle, ParseBody, Route, Authenticate, RequireRole, Reject, Validate, Serve,
         LoseConnection, Health, GlobalErrorHandler
<1> QED BY <1>1 DEF IInv, TypeOK

\* Whichever middleware, check, service or error ends a request, the client gets
\* one answer, and the request is not over before: no error is lost between an
\* async handler and the error handler.
THEOREM OneAnswerEach == Spec => []OneAnswer
<1>1. Init => OneAnswer
  BY DEF Init, OneAnswer
<1>2. IInv /\ OneAnswer /\ [Next]_vars => OneAnswer'
  <2> SUFFICES ASSUME IInv, OneAnswer, [Next]_vars PROVE OneAnswer'
    OBVIOUS
  <2>1. CASE Arrive
    BY <2>1 DEF Arrive, OneAnswer
  <2>2. CASE Handle
    BY <2>2, Unanswered, HandleLeadsOn
  <2>3. CASE Finish
    BY <2>3 DEF Finish, Goto, OneAnswer
  <2>4. CASE UNCHANGED <<stage, answers>>
    BY <2>4 DEF OneAnswer
  <2> QED BY <2>1, <2>2, <2>3, <2>4 DEF Next, MysqlTurns, vars
<1> QED BY <1>1, <1>2, Invariance, PTL DEF Spec

\* Handling a request is short: each step brings it nearer to the end, nothing
\* else moves it on its way, and no step drops it without an answer.  With the
\* fairness of Express it is why EveryRequestIsAnswered holds.
THEOREM HandlingLeadsOn ==
  Spec => [][/\ Handle => LeadsOn
             /\ stage \notin {"idle", "done"} => Handle \/ UNCHANGED <<stage, answers>>]_vars
<1> DEFINE Onward == /\ Handle => LeadsOn
                     /\ stage \notin {"idle", "done"} => Handle \/ UNCHANGED <<stage, answers>>
<1>1. IInv /\ [Next]_vars => [Onward]_vars
  <2> SUFFICES ASSUME IInv, Next PROVE Onward
    BY DEF vars
  <2>1. Handle => LeadsOn
    BY Unanswered, HandleLeadsOn
  <2>2. stage \notin {"idle", "done"} => Handle \/ UNCHANGED <<stage, answers>>
    BY DEF Next, Arrive, Finish, MysqlTurns
  <2> QED BY <2>1, <2>2
<1> HIDE DEF Onward
<1>2. Spec => [][Onward]_vars
  BY <1>1, Invariance, PTL DEF Spec
<1> QED BY <1>2 DEF Onward
=============================================================================
