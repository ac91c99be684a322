---------------------------- MODULE GrantsProofs ----------------------------
(***************************************************************************)
(* Theorems about Grants, for any accounts, token strings, request slots,  *)
(* lifetime and clock.  The safety properties are seldom inductive: what   *)
(* keeps a replaced token dead is that a request past Revoke still names a *)
(* row that exists and is not live, and that the string another request is *)
(* about to insert is neither that row nor any other.  IInv says so.       *)
(***************************************************************************)
EXTENDS Grants, FiniteSetTheorems, TLAPS

Issued(t) == rows[t].state # "unissued"

\* A row has an owner exactly when it has been inserted.
RowsOwned ==
  \A t \in Tokens : IF Issued(t) THEN rows[t].userId \in Users
                                 ELSE rows[t].userId = NoValue

\* Each stage belongs to the grants whose code passes through it.
StagesMatch ==
  \A r \in Requests :
    /\ req[r].pc = "findValid" => req[r].op = "refresh"
    /\ req[r].pc = "findUser" => req[r].op \in {"password", "refresh"}
    /\ req[r].pc = "compare" => req[r].op = "password"
    /\ req[r].pc = "cleanup" => req[r].op = "refresh"
    /\ req[r].pc = "revoke" => req[r].op \in {"refresh", "revoke"}
    /\ req[r].pc \in {"mint", "save"} => req[r].op \in {"password", "refresh"}
    /\ req[r].op = "password" => req[r].token = NoValue /\ req[r].user \in Users

\* A string between its draw and its INSERT is in the hands of one request.
FreshApart ==
  /\ \A r \in Requests :
       /\ req[r].fresh # NoValue => req[r].pc \in {"save", "answer"}
       /\ req[r].pc = "save" => req[r].fresh \in Tokens /\ ~Issued(req[r].fresh)
  /\ \A r, s \in Requests :
       r # s /\ req[r].fresh # NoValue => req[r].fresh # req[s].fresh

\* Whatever a client presents has a row, or is no token of the service.
PresentedIssued ==
  \A r \in Requests : req[r].token # NoValue => Issued(req[r].token)

\* Past findValid a refresh works for the owner of the row it read, and past
\* Revoke that row is dead.
RefreshBound ==
  \A r \in Requests : req[r].op = "refresh" =>
    /\ req[r].pc \in {"findUser", "cleanup", "revoke", "mint", "save"} =>
         req[r].token # NoValue /\ req[r].user = rows[req[r].token].userId
    /\ req[r].pc \in {"mint", "save"} => ~Live(req[r].token)

\* The history names rows that exist.
ParentsIssued ==
  \A t \in Tokens : parent[t] # NoValue => Issued(t) /\ Issued(parent[t])

\* A token that was stale at the arrival still is when findValid reads it.
StaleStays ==
  \A r \in Requests :
    req[r].op = "refresh" /\ req[r].pc = "findValid" /\ arrival[r].stale
      => ~Presentable(req[r].token)

\* A barred request's account is not enabled, and the request has not passed
\* the check of the account.
BarredStays ==
  \A r \in Requests :
    req[r].op \in {"password", "refresh"} /\ arrival[r].barred =>
      /\ Subject(r) \in Users /\ users[Subject(r)] # "enabled"
      /\ req[r].pc \notin {"compare", "revoke", "mint", "save"}
      /\ ~(req[r].pc = "answer" /\ req[r].status = "ok")

IInv ==
  /\ TypeOK
  /\ RowsOwned /\ StagesMatch /\ FreshApart /\ PresentedIssued /\ AnsweredIsStored
  /\ RefreshBound /\ ParentsIssued /\ RotatedIsDead /\ SessionKeepsItsOwner
  /\ StaleStays /\ StaleIsRefused
  /\ BarredStays
  /\ AnswersMeanRevoked
-----------------------------------------------------------------------------
\* Sending a request to its answer keeps the slots well typed.
LEMMA AnswerTyped ==
  ASSUME TypeOK, NEW r \in Requests, NEW s \in Status, Answer(r, s)
  PROVE  req' \in [Requests -> Request]
<1>1. "answer" \in Stage
  BY DEF Stage
<1>2. [req[r] EXCEPT !.pc = "answer", !.status = s] \in Request
  BY <1>1 DEF TypeOK, Request
<1>3. req' = [req EXCEPT ![r] = [req[r] EXCEPT !.pc = "answer", !.status = s]]
  BY DEF TypeOK, Answer, Request
<1> QED BY <1>2, <1>3 DEF TypeOK

\* Every step keeps the table, the requests and the histories well typed.
LEMMA TypeStep == TypeOK /\ [Next]_vars => TypeOK'
<1> SUFFICES ASSUME TypeOK, [Next]_vars PROVE TypeOK'
  OBVIOUS
<1> USE GrantsAssumption DEF TypeOK
<1> DEFINE Slots == req' \in [Requests -> Request]
<1>1. ASSUME NEW r \in Requests, NEW u \in Users, ArrivePassword(r, u)
      PROVE  TypeOK'
  BY <1>1 DEF ArrivePassword, NoRequest, Request, Stage, Status, Arrival
<1>2. ASSUME NEW r \in Requests, NEW t \in delivered \cup {NoValue},
             ArriveRefresh(r, t) \/ ArriveRevoke(r, t)
      PROVE  TypeOK'
  <2>1. Slots
    <3>1. t \in Tokens \cup {NoValue}
      OBVIOUS
    <3>2. CASE ArriveRefresh(r, t)
      BY <3>1, <3>2 DEF ArriveRefresh, NoRequest, Request, Stage, Status
    <3>3. CASE ArriveRevoke(r, t)
      BY <3>1, <3>3 DEF ArriveRevoke, NoRequest, Request, Stage, Status
    <3> QED BY <1>2, <3>2, <3>3
  <2>2. arrival' \in [Requests -> Arrival]
    <3>1. CASE ArriveRevoke(r, t)
      BY <3>1 DEF ArriveRevoke
    <3>2. CASE ArriveRefresh(r, t)
      <4> DEFINE stale == ~Presentable(t)
                 barred == t # NoValue /\ users[rows[t].userId] # "enabled"
      <4>1. stale \in BOOLEAN /\ barred \in BOOLEAN
        OBVIOUS
      <4>2. [stale |-> stale, barred |-> barred] \in Arrival
        BY <4>1 DEF Arrival
      <4>3. arrival' = [arrival EXCEPT ![r] = [stale |-> stale, barred |-> barred]]
        BY <3>2 DEF ArriveRefresh
      <4> HIDE DEF stale, barred
      <4> QED BY <4>2, <4>3
    <3> QED BY <1>2, <3>1, <3>2
  <2> QED BY <1>2, <2>1, <2>2 DEF ArriveRefresh, ArriveRevoke
<1>3. ASSUME NEW r \in Requests, FindByUsername(r) \/ Compare(r)
      PROVE  TypeOK'
  BY <1>3 DEF FindByUsername, Compare, Goto, Answer, Request, Stage, Status
<1>4. ASSUME NEW r \in Requests, FindValid(r) \/ FindByInternalId(r)
      PROVE  TypeOK'
  BY <1>4 DEF FindValid, FindByInternalId, AfterUserCheck, Presentable, Goto, Answer,
              Request, Stage, Status, Row
<1>5. ASSUME NEW r \in Requests, CleanUp(r) \/ Revoke(r)
      PROVE  TypeOK'
  <2>1. rows' \in [Tokens -> Row]
    BY <1>5 DEF CleanUp, Revoke, Invalidate, Live, Row, Request
  <2>2. Slots
    BY <1>5 DEF CleanUp, Revoke, Goto, Answer, Throw, Request, Stage, Status
  <2> QED BY <1>5, <2>1, <2>2 DEF CleanUp, Revoke
<1>6. ASSUME NEW r \in Requests, Mint(r)
      PROVE  TypeOK'
  BY <1>6 DEF Mint, Unissued, Expiry, Request, Stage, Status
<1>7. ASSUME NEW r \in Requests, Save(r)
      PROVE  TypeOK'
  <2>1. rows' \in [Tokens -> Row] /\ parent' \in [Tokens -> Tokens \cup {NoValue}]
    BY <1>7 DEF Save, Insert, Owner, Row, Request
  <2>2. Slots
    BY <1>7 DEF Save, Answer, Throw, Request, Stage, Status
  <2> QED BY <1>7, <2>1, <2>2 DEF Save
<1>8. ASSUME NEW r \in Requests, Fail(r) \/ Respond(r)
      PROVE  TypeOK'
  <2>1. CASE Fail(r)
    <3>1. Slots
      BY <2>1, AnswerTyped DEF Fail, Throw, Status
    <3> QED BY <2>1, <3>1 DEF Fail
  <2>2. CASE Respond(r)
    <3>1. Slots
      BY <2>2 DEF Respond, NoRequest, Request, Stage, Status
    <3>2. NoArrival \in Arrival
      BY DEF NoArrival, Arrival
    <3>3. arrival' \in [Requests -> Arrival]
      BY <2>2, <3>2 DEF Respond
    <3>4. delivered' \in SUBSET Tokens
      BY <2>2 DEF Respond, Request
    <3> QED BY <2>2, <3>1, <3>3, <3>4 DEF Respond
  <2> QED BY <1>8, <2>1, <2>2
<1>9. CASE Crash
  BY <1>9 DEF Crash, NoRequest, NoArrival, Request, Stage, Status, Arrival
<1>10. ASSUME NEW u \in Users, Disable(u) \/ Enable(u) \/ Delete(u)
       PROVE  TypeOK'
  <2>1. CASE Disable(u)
    BY <2>1 DEF Disable, AccountState
  <2>2. CASE Enable(u)
    <3>1. arrival' \in [Requests -> Arrival]
      BY <2>2 DEF Enable, Arrival
    <3> QED BY <2>2, <3>1 DEF Enable, AccountState
  <2>3. CASE Delete(u)
    BY <2>3 DEF Delete, AccountState, Row
  <2> QED BY <1>10, <2>1, <2>2, <2>3
<1>11. CASE Tick
  BY <1>11 DEF Tick
<1>12. CASE UNCHANGED vars
  BY <1>12 DEF vars
<1> QED
  BY <1>1, <1>2, <1>3, <1>4, <1>5, <1>6, <1>7, <1>8, <1>9, <1>10, <1>11, <1>12
     DEF Next, Arrive, Step, Operator

\* Type correctness of the grants, for every value of the constants: no
\* statement, failure, crash or operator edit writes a value the table or the
\* request does not admit.
THEOREM TypeCorrect == Spec => []TypeOK
<1>1. Init => TypeOK
  BY GrantsAssumption
     DEF Init, TypeOK, AccountState, Row, NoRow, Request, NoRequest, Stage, Status,
         Arrival, NoArrival
<1> QED
  BY <1>1, TypeStep, PTL DEF Spec
-----------------------------------------------------------------------------
(* One lemma per part of IInv: a step keeps the part.                      *)

\* The actions that write the table.
LEMMA RowsChange ==
  [Next]_vars => \/ \E r \in Requests : CleanUp(r) \/ Revoke(r) \/ Save(r)
                 \/ \E u \in Users : Delete(u)
                 \/ UNCHANGED <<rows, parent>>
BY DEF Next, Arrive, Step, Operator, vars, ArrivePassword, ArriveRefresh, ArriveRevoke,
       FindByUsername, Compare, FindValid, FindByInternalId, Mint, Fail, Respond,
       Crash, Disable, Enable, Tick

\* What a step does to one slot: nothing (though an operator's edit may clear
\* its barred flag), an arrival, a step of its own, or the loss in a crash.
LEMMA SlotChange ==
  ASSUME TypeOK, [Next]_vars, NEW r \in Requests
  PROVE  \/ /\ req'[r] = req[r]
            /\ arrival'[r].stale = arrival[r].stale
            /\ arrival'[r].barred => arrival[r].barred
         \/ Arrive(r)
         \/ Step(r)
         \/ req'[r] = NoRequest
<1> USE DEF TypeOK, Arrival
<1>1. ASSUME NEW s \in Requests, s # r, Arrive(s) \/ Step(s)
      PROVE  req'[r] = req[r] /\ arrival'[r] = arrival[r]
  <2>1. CASE Arrive(s)
    BY <1>1, <2>1 DEF Arrive, ArrivePassword, ArriveRefresh, ArriveRevoke
  <2>2. CASE Step(s)
    BY <1>1, <2>2 DEF Step, FindByUsername, Compare, FindValid, FindByInternalId, CleanUp,
       Revoke, Mint, Save, Fail, Respond, Goto, Answer, Throw
  <2> QED BY <1>1, <2>1, <2>2
<1>2. CASE Crash
  BY <1>2 DEF Crash
<1>3. ASSUME NEW u \in Users, Enable(u)
      PROVE  /\ req'[r] = req[r]
             /\ arrival'[r].stale = arrival[r].stale
             /\ arrival'[r].barred => arrival[r].barred
  BY <1>3 DEF Enable
<1>4. CASE UNCHANGED <<req, arrival>>
  BY <1>4
<1>5. \/ \E s \in Requests : Arrive(s) \/ Step(s)
      \/ Crash
      \/ \E u \in Users : Enable(u)
      \/ UNCHANGED <<req, arrival>>
  BY DEF Next, Operator, vars, Disable, Delete, Tick
<1> QED BY <1>1, <1>2, <1>3, <1>4, <1>5

\* The slot of a request that has just arrived.
LEMMA ArriveSlot ==
  ASSUME TypeOK, NEW r \in Requests, Arrive(r)
  PROVE  /\ req'[r].pc \in {"findUser", "findValid", "revoke"}
         /\ req'[r].fresh = NoValue
         /\ rows' = rows /\ parent' = parent /\ delivered' = delivered
<1> USE DEF TypeOK, NoRequest
<1>1. ASSUME NEW u \in Users, ArrivePassword(r, u)
      PROVE  req'[r].pc = "findUser" /\ req'[r].fresh = NoValue
  BY <1>1 DEF ArrivePassword
<1>2. ASSUME NEW t \in Tokens \cup {NoValue}, ArriveRefresh(r, t)
      PROVE  req'[r].pc = "findValid" /\ req'[r].fresh = NoValue
  BY <1>2 DEF ArriveRefresh
<1>3. ASSUME NEW t \in Tokens \cup {NoValue}, ArriveRevoke(r, t)
      PROVE  req'[r].pc = "revoke" /\ req'[r].fresh = NoValue
  BY <1>3 DEF ArriveRevoke
<1>4. rows' = rows /\ parent' = parent /\ delivered' = delivered
  BY DEF Arrive, ArrivePassword, ArriveRefresh, ArriveRevoke
<1> QED BY <1>1, <1>2, <1>3, <1>4 DEF Arrive

\* A row that exists stays, keeps its owner, its expiry and its parent, and
\* does not come back to life: the only INSERT is of a string without a row.
LEMMA RowsAge ==
  ASSUME TypeOK, FreshApart, [Next]_vars, NEW t \in Tokens, Issued(t)
  PROVE  /\ Issued(t)'
         /\ rows'[t].userId = rows[t].userId
         /\ rows'[t].expiresAt = rows[t].expiresAt
         /\ ~Live(t) => ~Live(t)'
         /\ parent'[t] = parent[t]
<1> USE DEF TypeOK, Row, Issued, Live
<1>1. ASSUME NEW r \in Requests, CleanUp(r) \/ Revoke(r)
      PROVE  rows' = Invalidate(req[r].token) /\ parent' = parent
  BY <1>1 DEF CleanUp, Revoke
<1>2. ASSUME NEW u \in Tokens \cup {NoValue}, rows' = Invalidate(u), parent' = parent
      PROVE  /\ Issued(t)'
             /\ rows'[t].userId = rows[t].userId
             /\ rows'[t].expiresAt = rows[t].expiresAt
             /\ ~Live(t) => ~Live(t)'
             /\ parent'[t] = parent[t]
  BY <1>2 DEF Invalidate
<1>3. ASSUME NEW r \in Requests, CleanUp(r) \/ Revoke(r)
      PROVE  req[r].token \in Tokens \cup {NoValue}
  BY DEF Request
<1>4. ASSUME NEW r \in Requests, Save(r)
      PROVE  /\ rows'[t] = rows[t]
             /\ parent'[t] = parent[t]
  BY <1>4 DEF Save, Insert, FreshApart
<1>5. ASSUME NEW u \in Users, Delete(u)
      PROVE  /\ Issued(t)'
             /\ rows'[t].userId = rows[t].userId
             /\ rows'[t].expiresAt = rows[t].expiresAt
             /\ ~Live(t) => ~Live(t)'
             /\ parent'[t] = parent[t]
  BY <1>5 DEF Delete
<1>6. CASE UNCHANGED <<rows, parent>>
  BY <1>6
<1> QED BY <1>1, <1>2, <1>3, <1>4, <1>5, <1>6, RowsChange

\* A step keeps RowsOwned.
LEMMA RowsOwnedStep ==
  ASSUME TypeOK, RowsOwned, StagesMatch, FreshApart, PresentedIssued, RefreshBound,
         [Next]_vars
  PROVE  RowsOwned'
<1> USE DEF TypeOK, Row
<1> SUFFICES ASSUME NEW t \in Tokens
             PROVE  IF Issued(t)' THEN rows'[t].userId \in Users
                                  ELSE rows'[t].userId = NoValue
  BY DEF RowsOwned, Issued
<1>1. CASE Issued(t)
  BY <1>1, RowsAge DEF RowsOwned
<1>2. CASE ~Issued(t) /\ rows'[t] = rows[t]
  BY <1>2 DEF RowsOwned, Issued
<1>3. CASE ~Issued(t) /\ rows'[t] # rows[t]
  <2>1. ASSUME NEW r \in Requests, CleanUp(r) \/ Revoke(r)
        PROVE  FALSE
    BY <1>3, <2>1 DEF CleanUp, Revoke, Invalidate, Issued, Live
  <2>2. ASSUME NEW r \in Requests, Save(r)
        PROVE  Issued(t)' /\ rows'[t].userId \in Users
    <3>1. req[r].user \in Users
      BY <2>2 DEF Save, StagesMatch, RefreshBound, PresentedIssued, RowsOwned, Request
    <3>2. rows'[t] = [state |-> "live", userId |-> req[r].user, expiresAt |-> req[r].expiresAt]
      BY <1>3, <2>2 DEF Save, Insert, Owner
    <3> QED BY <3>1, <3>2 DEF Issued
  <2>3. ASSUME NEW u \in Users, Delete(u)
        PROVE  FALSE
    BY <1>3, <2>3, GrantsAssumption DEF Delete, RowsOwned, Issued
  <2> QED BY <1>3, <2>1, <2>2, <2>3, RowsChange
<1> QED BY <1>1, <1>2, <1>3

\* A step keeps StagesMatch.
LEMMA StagesMatchStep ==
  ASSUME TypeOK, StagesMatch, [Next]_vars
  PROVE  StagesMatch'
<1> DEFINE Match(q) ==
      /\ q.pc = "findValid" => q.op = "refresh"
      /\ q.pc = "findUser" => q.op \in {"password", "refresh"}
      /\ q.pc = "compare" => q.op = "password"
      /\ q.pc = "cleanup" => q.op = "refresh"
      /\ q.pc = "revoke" => q.op \in {"refresh", "revoke"}
      /\ q.pc \in {"mint", "save"} => q.op \in {"password", "refresh"}
      /\ q.op = "password" => q.token = NoValue /\ q.user \in Users
<1> SUFFICES ASSUME NEW r \in Requests PROVE Match(req'[r])
  BY DEF StagesMatch
<1>0. Match(req[r]) /\ req[r] \in Request
  BY DEF StagesMatch, TypeOK
<1> USE DEF TypeOK, Request
<1>1. CASE Arrive(r)
  <2>1. ASSUME NEW u \in Users, ArrivePassword(r, u) PROVE Match(req'[r])
    BY <2>1 DEF ArrivePassword, NoRequest
  <2>2. ASSUME NEW t \in Tokens \cup {NoValue}, ArriveRefresh(r, t) PROVE Match(req'[r])
    BY <2>2 DEF ArriveRefresh, NoRequest
  <2>3. ASSUME NEW t \in Tokens \cup {NoValue}, ArriveRevoke(r, t) PROVE Match(req'[r])
    BY <2>3 DEF ArriveRevoke, NoRequest
  <2> QED BY <1>1, <2>1, <2>2, <2>3 DEF Arrive
<1>2. CASE Step(r)
  <2>1. CASE FindByUsername(r) \/ Compare(r)
    BY <1>0, <2>1 DEF FindByUsername, Compare, Goto, Answer
  <2>2. CASE FindValid(r) \/ FindByInternalId(r)
    BY <1>0, <2>2 DEF FindValid, FindByInternalId, AfterUserCheck, Goto, Answer
  <2>3. CASE CleanUp(r) \/ Revoke(r)
    BY <1>0, <2>3 DEF CleanUp, Revoke, Goto, Answer, Throw
  <2>4. CASE Mint(r)
    BY <1>0, <2>4 DEF Mint
  <2>5. CASE Save(r) \/ Fail(r)
    BY <1>0, <2>5 DEF Save, Fail, Answer, Throw
  <2>6. CASE Respond(r)
    BY <2>6 DEF Respond, NoRequest
  <2> QED BY <1>2, <2>1, <2>2, <2>3, <2>4, <2>5, <2>6 DEF Step
<1>3. CASE req'[r] = NoRequest
  BY <1>3 DEF NoRequest
<1>4. CASE req'[r] = req[r]
  BY <1>0, <1>4
<1> QED BY <1>1, <1>2, <1>3, <1>4, SlotChange

\* A slot gets a string, and is about to insert it, only by Mint; it keeps the
\* string until the answer.
LEMMA FreshChange ==
  ASSUME TypeOK, FreshApart, [Next]_vars, NEW r \in Requests, ~Mint(r)
  PROVE  /\ req'[r].fresh # NoValue =>
              req'[r].fresh = req[r].fresh /\ req'[r].pc \in {req[r].pc, "answer"}
         /\ req'[r].pc = "save" => req'[r] = req[r]
<1> USE DEF TypeOK, Request, FreshApart
<1>1. CASE Arrive(r)
  BY <1>1, ArriveSlot
<1>2. CASE Step(r)
  <2>1. CASE FindByUsername(r) \/ Compare(r)
    BY <2>1 DEF FindByUsername, Compare, Goto, Answer
  <2>2. CASE FindValid(r) \/ FindByInternalId(r)
    BY <2>2 DEF FindValid, FindByInternalId, AfterUserCheck, Goto, Answer
  <2>3. CASE CleanUp(r) \/ Revoke(r)
    BY <2>3 DEF CleanUp, Revoke, Goto, Answer, Throw
  <2>4. CASE Save(r) \/ Fail(r)
    BY <2>4 DEF Save, Fail, Answer, Throw
  <2>5. CASE Respond(r)
    BY <2>5 DEF Respond, NoRequest
  <2> QED BY <1>2, <2>1, <2>2, <2>3, <2>4, <2>5 DEF Step
<1>3. CASE req'[r] = NoRequest
  BY <1>3 DEF NoRequest
<1>4. CASE req'[r] = req[r]
  BY <1>4
<1> QED BY <1>1, <1>2, <1>3, <1>4, SlotChange

\* A step keeps FreshApart: no two requests hold the same fresh string.
LEMMA FreshApartStep ==
  ASSUME TypeOK, RowsOwned, FreshApart, [Next]_vars
  PROVE  FreshApart'
<1> USE DEF TypeOK, Request
<1>1. ASSUME NEW r \in Requests, Mint(r)
      PROVE  /\ req'[r].fresh \in Unissued
             /\ req'[r].pc = "save"
             /\ rows' = rows
             /\ \A s \in Requests : s # r => req'[s] = req[s]
  BY <1>1 DEF Mint, Unissued
<1>2. ASSUME NEW r \in Requests
      PROVE  req'[r].fresh # NoValue => req'[r].pc \in {"save", "answer"}
  BY <1>1, FreshChange DEF FreshApart
<1>3. ASSUME NEW r \in Requests, req'[r].pc = "save"
      PROVE  req'[r].fresh \in Tokens /\ rows'[req'[r].fresh].state = "unissued"
  <2>1. CASE Mint(r)
    BY <1>1, <2>1 DEF Unissued, Issued
  <2>2. CASE ~Mint(r)
    <3> DEFINE t == req[r].fresh
    <3>1. req'[r] = req[r] /\ req[r].pc = "save"
      BY <1>3, <2>2, FreshChange
    <3>2. t \in Tokens /\ ~Issued(t)
      BY <3>1 DEF FreshApart
    <3> HIDE DEF t
    <3>3. ASSUME NEW s \in Requests, CleanUp(s) \/ Revoke(s)
          PROVE  rows'[t] = rows[t]
      BY <3>2, <3>3 DEF CleanUp, Revoke, Invalidate, Live, Issued, Row
    <3>4. ASSUME NEW s \in Requests, Save(s)
          PROVE  rows'[t] = rows[t]
      <4>1. req[s].pc = "save" /\ req'[s].pc = "answer"
        BY <3>4 DEF Save, Answer, Throw
      <4>2. req[s].fresh # t
        BY <3>1, <3>2, <4>1, GrantsAssumption DEF t, FreshApart
      <4> QED BY <3>2, <3>4, <4>2 DEF Save, Insert
    <3>5. ASSUME NEW u \in Users, Delete(u)
          PROVE  rows'[t] = rows[t]
      BY <3>2, <3>5, GrantsAssumption DEF Delete, RowsOwned
    <3>6. rows'[t] = rows[t]
      BY <3>3, <3>4, <3>5, RowsChange
    <3> QED BY <3>1, <3>2, <3>6 DEF t, Issued
  <2> QED BY <2>1, <2>2
<1>4. ASSUME NEW r \in Requests, NEW s \in Requests, r # s, req'[r].fresh # NoValue
      PROVE  req'[r].fresh # req'[s].fresh
  <2>1. CASE Mint(r)
    BY <1>1, <1>4, <2>1 DEF Unissued
  <2>2. CASE Mint(s)
    BY <1>1, <1>4, <2>2 DEF Unissued
  <2>3. CASE ~Mint(r) /\ ~Mint(s)
    BY <1>4, <2>3, FreshChange DEF FreshApart
  <2> QED BY <2>1, <2>2, <2>3
<1> QED
  BY <1>2, <1>3, <1>4 DEF FreshApart, Issued

\* A request presents the token it arrived with until its slot is free again.
LEMMA TokenKept ==
  ASSUME TypeOK, [Next]_vars, NEW r \in Requests
  PROVE  \/ /\ Arrive(r)
            /\ req'[r].token \in delivered \cup {NoValue}
         \/ req'[r] = NoRequest
         \/ req'[r].op = req[r].op /\ req'[r].token = req[r].token
<1> USE DEF TypeOK, Request
<1>1. CASE Arrive(r)
  <2>1. ASSUME NEW u \in Users, ArrivePassword(r, u) PROVE req'[r].token = NoValue
    BY <2>1 DEF ArrivePassword, NoRequest
  <2>2. ASSUME NEW t \in delivered \cup {NoValue}, ArriveRefresh(r, t) \/ ArriveRevoke(r, t)
        PROVE req'[r].token = t
    BY <2>2 DEF ArriveRefresh, ArriveRevoke, NoRequest
  <2> QED BY <1>1, <2>1, <2>2 DEF Arrive
<1>2. CASE Step(r)
  <2>1. CASE FindByUsername(r) \/ Compare(r)
    BY <2>1 DEF FindByUsername, Compare, Goto, Answer
  <2>2. CASE FindValid(r) \/ FindByInternalId(r)
    BY <2>2 DEF FindValid, FindByInternalId, AfterUserCheck, Goto, Answer
  <2>3. CASE CleanUp(r) \/ Revoke(r)
    BY <2>3 DEF CleanUp, Revoke, Goto, Answer, Throw
  <2>4. CASE Mint(r)
    BY <2>4 DEF Mint
  <2>5. CASE Save(r) \/ Fail(r)
    BY <2>5 DEF Save, Fail, Answer, Throw
  <2>6. CASE Respond(r)
    BY <2>6 DEF Respond
  <2> QED BY <1>2, <2>1, <2>2, <2>3, <2>4, <2>5, <2>6 DEF Step
<1> QED BY <1>1, <1>2, SlotChange

\* A step keeps PresentedIssued.
LEMMA PresentedIssuedStep ==
  ASSUME TypeOK, FreshApart, PresentedIssued, AnsweredIsStored, [Next]_vars
  PROVE  PresentedIssued'
<1> SUFFICES ASSUME NEW r \in Requests, req'[r].token # NoValue
             PROVE  rows'[req'[r].token].state # "unissued"
  BY DEF PresentedIssued, Issued
<1>1. req'[r].token \in delivered \/ req'[r].token = req[r].token
  BY TokenKept DEF NoRequest
<1>2. req'[r].token \in Tokens /\ rows[req'[r].token].state # "unissued"
  BY <1>1 DEF PresentedIssued, AnsweredIsStored, Issued, TypeOK, Request
<1> QED BY <1>2, RowsAge DEF Issued

\* A step keeps AnsweredIsStored: only Respond delivers, after Save.
LEMMA AnsweredIsStoredStep ==
  ASSUME TypeOK, FreshApart, AnsweredIsStored, [Next]_vars
  PROVE  AnsweredIsStored'
<1> USE DEF TypeOK, Request
<1>1. ASSUME NEW t \in delivered' PROVE rows'[t].state # "unissued"
  <2>1. \/ delivered' = delivered
        \/ \E r \in Requests : /\ req[r].pc = "answer" /\ req[r].status = "ok"
                               /\ req[r].fresh # NoValue
                               /\ delivered' = delivered \cup {req[r].fresh}
    <3>1. ASSUME NEW r \in Requests, Step(r), ~Respond(r) PROVE delivered' = delivered
      BY <3>1 DEF Step, FindByUsername, Compare, FindValid, FindByInternalId, CleanUp,
         Revoke, Mint, Save, Fail
    <3>2. ASSUME NEW r \in Requests, Respond(r)
          PROVE  \/ delivered' = delivered
                 \/ /\ req[r].pc = "answer" /\ req[r].status = "ok"
                    /\ req[r].fresh # NoValue
                    /\ delivered' = delivered \cup {req[r].fresh}
      BY <3>2 DEF Respond
    <3>3. ASSUME NEW r \in Requests, Arrive(r) PROVE delivered' = delivered
      BY <3>3, ArriveSlot
    <3>4. CASE Crash \/ Operator \/ Tick \/ UNCHANGED vars
      BY <3>4 DEF Crash, Operator, Disable, Enable, Delete, Tick, vars
    <3> QED BY <3>1, <3>2, <3>3, <3>4 DEF Next
  <2>2. t \in Tokens /\ rows[t].state # "unissued"
    BY <2>1 DEF AnsweredIsStored
  <2> QED BY <2>2, RowsAge DEF Issued
<1>2. ASSUME NEW r \in Requests,
             req'[r].pc = "answer", req'[r].status = "ok", req'[r].fresh # NoValue
      PROVE  rows'[req'[r].fresh].state # "unissued"
  <2>1. ~Mint(r)
    BY <1>2 DEF Mint
  <2>2. req'[r].fresh = req[r].fresh /\ req[r].fresh \in Tokens
    BY <1>2, <2>1, FreshChange
  <2>3. CASE req'[r] = req[r]
    BY <1>2, <2>2, <2>3, RowsAge DEF AnsweredIsStored, Issued
  <2>4. CASE Save(r)
    <3>1. Insert(r)
      BY <1>2, <2>4 DEF Save, Answer
    <3> QED BY <2>2, <3>1 DEF Insert
  <2>5. req'[r] = req[r] \/ Save(r)
    <3>1. ~Arrive(r)
      BY <1>2, ArriveSlot
    <3>2. req[r].pc \in {"save", "answer"}
      BY <1>2, <2>2 DEF FreshApart
    <3>3. ~Respond(r) /\ ~Fail(r) /\ req'[r] # NoRequest
      BY <1>2 DEF Respond, Fail, Throw, Answer, NoRequest
    <3>4. Step(r) => Save(r)
      BY <3>2, <3>3 DEF Step, FindByUsername, Compare, FindValid, FindByInternalId,
         CleanUp, Revoke, Mint
    <3> QED BY <3>1, <3>3, <3>4, SlotChange
  <2> QED BY <2>3, <2>4, <2>5
<1> QED BY <1>1, <1>2 DEF AnsweredIsStored

\* A step keeps RefreshBound.
LEMMA RefreshBoundStep ==
  ASSUME TypeOK, FreshApart, StagesMatch, PresentedIssued, RefreshBound, [Next]_vars
  PROVE  RefreshBound'
<1> DEFINE Bound(q, table) ==
      q.op = "refresh" =>
        /\ q.pc \in {"findUser", "cleanup", "revoke", "mint", "save"} =>
             q.token # NoValue /\ q.user = table[q.token].userId
        /\ q.pc \in {"mint", "save"} => table[q.token].state # "live"
<1> SUFFICES ASSUME NEW r \in Requests PROVE Bound(req'[r], rows')
  BY DEF RefreshBound, Live
<1> USE DEF TypeOK, Request
<1>1. Bound(req[r], rows)
  BY DEF RefreshBound, Live
<1>2. ASSUME req[r].token # NoValue
      PROVE  /\ rows'[req[r].token].userId = rows[req[r].token].userId
             /\ rows[req[r].token].state # "live" => rows'[req[r].token].state # "live"
  BY <1>2, RowsAge DEF PresentedIssued, Live
<1>3. CASE Arrive(r)
  <2>1. ASSUME NEW t \in Tokens \cup {NoValue}, ArriveRefresh(r, t)
        PROVE  req'[r].pc = "findValid"
    BY <2>1 DEF ArriveRefresh, NoRequest
  <2>2. ASSUME NEW t \in Tokens \cup {NoValue}, ArriveRevoke(r, t)
        PROVE  req'[r].op = "revoke"
    BY <2>2 DEF ArriveRevoke, NoRequest
  <2>3. ASSUME NEW u \in Users, ArrivePassword(r, u)
        PROVE  req'[r].op = "password"
    BY <2>3 DEF ArrivePassword, NoRequest
  <2> QED BY <1>3, <2>1, <2>2, <2>3 DEF Arrive
<1>4. CASE Step(r)
  <2>1. CASE FindByUsername(r) \/ Compare(r)
    BY <2>1 DEF FindByUsername, Compare, StagesMatch, Goto, Answer
  <2>2. CASE FindValid(r)
    BY <2>2 DEF FindValid, Presentable, Answer
  <2>3. CASE FindByInternalId(r)
    BY <1>1, <2>3 DEF FindByInternalId, AfterUserCheck, Goto
  <2>4. CASE CleanUp(r)
    BY <2>4 DEF CleanUp, Answer, Throw
  <2>5. CASE Revoke(r)
    <3>1. CASE req[r].op = "refresh" /\ req'[r] = [req[r] EXCEPT !.pc = "mint"]
      <4>1. req[r].pc = "revoke" /\ rows' = Invalidate(req[r].token)
        BY <2>5 DEF Revoke
      <4>2. rows'[req[r].token].state # "live"
        BY <1>1, <3>1, <4>1 DEF Invalidate, Live, Row
      <4> QED BY <1>1, <1>2, <3>1, <4>1, <4>2
    <3>2. CASE req'[r].pc = "answer" \/ req'[r].op # "refresh"
      BY <3>2
    <3> QED BY <2>5, <3>1, <3>2 DEF Revoke, Goto, Answer, Throw
  <2>6. CASE Mint(r)
    BY <1>1, <2>6 DEF Mint
  <2>7. CASE Save(r) \/ Fail(r)
    BY <2>7 DEF Save, Fail, Answer, Throw
  <2>8. CASE Respond(r)
    BY <2>8 DEF Respond, NoRequest
  <2> QED BY <1>4, <2>1, <2>2, <2>3, <2>4, <2>5, <2>6, <2>7, <2>8 DEF Step
<1>5. CASE req'[r] = NoRequest
  BY <1>5 DEF NoRequest
<1>6. CASE req'[r] = req[r]
  BY <1>1, <1>2, <1>6
<1> QED BY <1>3, <1>4, <1>5, <1>6, SlotChange

\* The three facts about a token and the token it replaces.
LEMMA LineageStep ==
  ASSUME TypeOK, FreshApart, StagesMatch, PresentedIssued, RefreshBound, ParentsIssued,
         RotatedIsDead, SessionKeepsItsOwner, [Next]_vars
  PROVE  ParentsIssued' /\ RotatedIsDead' /\ SessionKeepsItsOwner'
<1> DEFINE Lineage(t, table, p) ==
      p # NoValue => /\ table[t].state # "unissued"
                     /\ table[p].state \notin {"unissued", "live"}
                     /\ table[t].userId = table[p].userId
<1> SUFFICES ASSUME NEW t \in Tokens PROVE Lineage(t, rows', parent'[t])
  BY DEF ParentsIssued, RotatedIsDead, SessionKeepsItsOwner, Issued, Live
<1> USE DEF TypeOK, Request
<1>1. Lineage(t, rows, parent[t]) /\ parent[t] \in Tokens \cup {NoValue}
  BY DEF ParentsIssued, RotatedIsDead, SessionKeepsItsOwner, Issued, Live
<1>2. CASE parent'[t] = parent[t]
  BY <1>1, <1>2, RowsAge DEF Issued, Live
<1>3. CASE parent'[t] # parent[t]
  <2>1. PICK r \in Requests : Save(r) /\ Insert(r)
    <3>1. ASSUME NEW r \in Requests, CleanUp(r) \/ Revoke(r)
          PROVE  FALSE
      BY <1>3, <3>1 DEF CleanUp, Revoke
    <3>2. ASSUME NEW u \in Users, Delete(u)
          PROVE  FALSE
      BY <1>3, <3>2 DEF Delete
    <3>3. ASSUME NEW r \in Requests, Save(r)
          PROVE  Insert(r)
      BY <1>3, <3>3 DEF Save
    <3> QED BY <1>3, <3>1, <3>2, <3>3, RowsChange
  <2>2. t = req[r].fresh /\ parent'[t] = req[r].token
    BY <1>3, <2>1 DEF Insert
  <2>3. rows'[t].state = "live" /\ rows'[t].userId = req[r].user
    BY <2>1, <2>2 DEF Insert, Owner
  <2>4. ASSUME req[r].token # NoValue
        PROVE  /\ Issued(req[r].token) /\ ~Live(req[r].token)
               /\ req[r].user = rows[req[r].token].userId
    <3>1. req[r].pc = "save" /\ req[r].op = "refresh"
      BY <2>1, <2>4 DEF Save, StagesMatch
    <3> QED BY <2>4, <3>1 DEF RefreshBound, PresentedIssued
  <2> QED BY <2>2, <2>3, <2>4, RowsAge DEF Issued, Live
<1> QED BY <1>2, <1>3

\* A string that findValid would refuse, it refuses for good.
LEMMA InvalidForGood ==
  ASSUME TypeOK, FreshApart, [Next]_vars,
         NEW t \in Tokens \cup {NoValue}, t # NoValue => Issued(t), ~Presentable(t)
  PROVE  t # NoValue => ~(rows'[t].state = "live" /\ rows'[t].expiresAt > now')
<1> SUFFICES ASSUME t # NoValue PROVE ~(rows'[t].state = "live" /\ rows'[t].expiresAt > now')
  OBVIOUS
<1>1. now' \in Nat /\ now' >= now
  <2>1. CASE Tick
    BY <2>1 DEF Tick, TypeOK
  <2>2. CASE now' = now
    BY <2>2 DEF TypeOK
  <2>3. Tick \/ now' = now
    BY DEF Next, Arrive, Step, Operator, vars, ArrivePassword, ArriveRefresh, ArriveRevoke,
           FindByUsername, Compare, FindValid, FindByInternalId, CleanUp, Revoke, Mint,
           Save, Fail, Respond, Crash, Disable, Enable, Delete
  <2> QED BY <2>1, <2>2, <2>3
<1>2. CASE ~Live(t)
  BY <1>2, RowsAge DEF Live
<1>3. CASE Live(t)
  <2>1. ~(rows[t].expiresAt > now) /\ rows[t].expiresAt \in Nat /\ now \in Nat
    BY <1>3 DEF Presentable, IsValid, Live, TypeOK, Row
  <2>2. rows'[t].expiresAt = rows[t].expiresAt
    BY RowsAge
  <2> QED BY <1>1, <2>1, <2>2
<1> QED BY <1>2, <1>3

\* A step keeps what StaleIsRefused needs.
LEMMA StaleStep ==
  ASSUME TypeOK, FreshApart, StagesMatch, PresentedIssued, StaleStays, StaleIsRefused,
         [Next]_vars
  PROVE  StaleStays' /\ StaleIsRefused'
<1> DEFINE Past(q) ==
      \/ q.pc \in {"findUser", "cleanup", "revoke", "mint", "save"}
      \/ q.pc = "answer" /\ q.status \in {"ok", "denied", "conflict"}
    Valid(t) == t # NoValue /\ rows'[t].state = "live" /\ rows'[t].expiresAt > now'
<1> SUFFICES ASSUME NEW r \in Requests, req'[r].op = "refresh", arrival'[r].stale
             PROVE  /\ req'[r].pc = "findValid" => ~Valid(req'[r].token)
                    /\ ~Past(req'[r])
  BY DEF StaleStays, StaleIsRefused, Accepted, Presentable, IsValid
<1> USE DEF TypeOK, Request
<1>1. ASSUME req[r].op = "refresh", arrival[r].stale
      PROVE  /\ req[r].pc = "findValid" => ~Presentable(req[r].token)
             /\ ~Past(req[r])
  BY <1>1 DEF StaleStays, StaleIsRefused, Accepted
<1>2. ASSUME req[r].op = "refresh", arrival[r].stale, req[r].pc = "findValid"
      PROVE  ~Valid(req[r].token)
  BY <1>1, <1>2, InvalidForGood DEF PresentedIssued
<1>3. CASE Arrive(r)
  <2>1. ASSUME NEW t \in Tokens \cup {NoValue}, ArriveRefresh(r, t)
        PROVE  /\ req'[r].pc = "findValid" /\ req'[r].token = t
               /\ ~Presentable(t) /\ rows' = rows /\ now' = now
    BY <2>1 DEF ArriveRefresh, NoRequest
  <2>2. ASSUME NEW t \in Tokens \cup {NoValue}, ArriveRevoke(r, t)
        PROVE  FALSE
    BY <2>2 DEF ArriveRevoke, NoRequest
  <2>3. ASSUME NEW u \in Users, ArrivePassword(r, u)
        PROVE  FALSE
    BY <2>3 DEF ArrivePassword, NoRequest
  <2>4. PICK t \in Tokens \cup {NoValue} : ArriveRefresh(r, t)
    BY <1>3, <2>2, <2>3 DEF Arrive
  <2> QED BY <2>1, <2>4 DEF Presentable, IsValid
<1>4. CASE Step(r) /\ req'[r] # NoRequest
  <2>1. ~Respond(r)
    BY <1>4 DEF Respond
  <2>2. arrival'[r] = arrival[r] /\ req[r].op = "refresh"
    <3>1. arrival' = arrival
      BY <1>4, <2>1 DEF Step, FindByUsername, Compare, FindValid, FindByInternalId,
         CleanUp, Revoke, Mint, Save, Fail
    <3>2. req[r].pc # "idle"
      BY <1>4 DEF Step, FindByUsername, Compare, FindValid, FindByInternalId, CleanUp,
         Revoke, Mint, Save, Fail, Respond, Awaiting
    <3>3. ~Arrive(r)
      BY <3>2 DEF Arrive, ArrivePassword, ArriveRefresh, ArriveRevoke
    <3> QED BY <1>4, <3>1, <3>3, TokenKept
  <2>3. CASE FindByUsername(r) \/ Compare(r)
    BY <2>2, <2>3 DEF FindByUsername, Compare, StagesMatch
  <2>4. CASE FindValid(r)
    BY <1>1, <2>2, <2>4 DEF FindValid, Answer
  <2>5. CASE FindByInternalId(r) \/ CleanUp(r) \/ Revoke(r) \/ Mint(r) \/ Save(r)
    BY <1>1, <2>2, <2>5 DEF FindByInternalId, CleanUp, Revoke, Mint, Save
  <2>6. CASE Fail(r)
    BY <2>6 DEF Fail, Throw, Answer
  <2> QED BY <1>4, <2>1, <2>3, <2>4, <2>5, <2>6 DEF Step
<1>5. CASE req'[r] = NoRequest
  BY <1>5 DEF NoRequest
<1>6. CASE req'[r] = req[r] /\ arrival'[r].stale = arrival[r].stale
  BY <1>1, <1>2, <1>6
<1> QED BY <1>3, <1>4, <1>5, <1>6, SlotChange

\* After an answer that says so, the presented token is not live.
LEMMA AnswersMeanRevokedStep ==
  ASSUME TypeOK, FreshApart, StagesMatch, PresentedIssued, RefreshBound,
         AnswersMeanRevoked, [Next]_vars
  PROVE  AnswersMeanRevoked'
<1> SUFFICES ASSUME NEW r \in Requests,
                    req'[r].pc = "answer", req'[r].token # NoValue,
                    req'[r].status \in {"ok", "denied"}
             PROVE  rows'[req'[r].token].state # "live"
  BY DEF AnswersMeanRevoked, Live
<1> USE DEF TypeOK, Request
<1>1. ~Arrive(r) /\ req'[r] # NoRequest
  BY ArriveSlot DEF NoRequest
<1>2. req'[r].token = req[r].token /\ req[r].token \in Tokens /\ Issued(req[r].token)
  BY <1>1, TokenKept DEF PresentedIssued
<1>3. CASE req'[r] = req[r]
  BY <1>2, <1>3, RowsAge DEF AnswersMeanRevoked, Live
<1>4. CASE CleanUp(r) \/ Revoke(r)
  <2>1. rows' = Invalidate(req[r].token)
    BY <1>4 DEF CleanUp, Revoke
  <2> QED BY <1>2, <2>1 DEF Invalidate, Live, Row
<1>5. CASE Save(r)
  <2>1. req[r].op = "refresh" /\ req[r].pc = "save"
    BY <1>2, <1>5 DEF Save, StagesMatch
  <2> QED BY <1>2, <2>1, RowsAge DEF RefreshBound, Live
<1>6. CASE Step(r) /\ ~CleanUp(r) /\ ~Revoke(r) /\ ~Save(r)
  <2>1. CASE FindByUsername(r) \/ Compare(r)
    BY <2>1 DEF FindByUsername, Compare, Goto, Answer
  <2>2. CASE FindValid(r) \/ FindByInternalId(r)
    BY <2>2 DEF FindValid, FindByInternalId, AfterUserCheck, Goto, Answer
  <2>3. CASE Mint(r)
    BY <2>3 DEF Mint
  <2>4. CASE Fail(r) \/ Respond(r)
    BY <1>1, <2>4 DEF Fail, Throw, Answer, Respond
  <2> QED BY <1>6, <2>1, <2>2, <2>3, <2>4 DEF Step
<1> QED BY <1>1, <1>3, <1>4, <1>5, <1>6, SlotChange

\* A barred account is enabled only together with the clearing of the flag.
LEMMA BarredAccount ==
  ASSUME TypeOK, BarredStays, [Next]_vars, NEW r \in Requests,
         req[r].op \in {"password", "refresh"}, arrival[r].barred, arrival'[r].barred,
         ~Arrive(r)
  PROVE  users'[Subject(r)] # "enabled"
<1> DEFINE u == Subject(r)
<1>1. u \in Users /\ users[u] # "enabled"
  BY DEF BarredStays
<1>2. ASSUME NEW v \in Users, Enable(v) PROVE u # v
  <2>1. arrival'[r] = [arrival[r] EXCEPT !.barred = arrival[r].barred /\ Subject(r) # v]
    BY <1>2 DEF Enable
  <2>2. arrival'[r].barred = (arrival[r].barred /\ Subject(r) # v)
    BY <2>1 DEF TypeOK, Arrival
  <2> QED BY <2>2
<1> HIDE DEF u
<1>3. ASSUME NEW v \in Users, Enable(v) PROVE users'[u] = users[u]
  BY <1>1, <1>2, <1>3 DEF Enable, TypeOK
<1>4. ASSUME NEW v \in Users, Disable(v) \/ Delete(v) PROVE users'[u] # "enabled"
  BY <1>1, <1>4 DEF Disable, Delete, TypeOK
<1>5. \/ users' = users
      \/ \E v \in Users : Disable(v) \/ Enable(v) \/ Delete(v)
  BY DEF Next, Arrive, Step, Operator, vars, ArrivePassword, ArriveRefresh, ArriveRevoke,
         FindByUsername, Compare, FindValid, FindByInternalId, CleanUp, Revoke, Mint,
         Save, Fail, Respond, Crash, Tick
<1> QED BY <1>1, <1>3, <1>4, <1>5 DEF u

\* A step keeps what BarredIsRefused needs.
LEMMA BarredStep ==
  ASSUME TypeOK, RowsOwned, FreshApart, StagesMatch, PresentedIssued, AnsweredIsStored,
         RefreshBound, BarredStays, [Next]_vars
  PROVE  BarredStays'
<1> DEFINE Subj(q, table) ==
      IF q.op = "password" THEN q.user
      ELSE IF q.token = NoValue THEN NoValue ELSE table[q.token].userId
    Refused(q) ==
      /\ q.pc \notin {"compare", "revoke", "mint", "save"}
      /\ ~(q.pc = "answer" /\ q.status = "ok")
<1> SUFFICES ASSUME NEW r \in Requests,
                    req'[r].op \in {"password", "refresh"}, arrival'[r].barred
             PROVE  /\ Subj(req'[r], rows') \in Users
                    /\ users'[Subj(req'[r], rows')] # "enabled"
                    /\ Refused(req'[r])
  BY DEF BarredStays, Subject
<1> USE DEF TypeOK, Request
<1>1. ASSUME req[r].op \in {"password", "refresh"}, arrival[r].barred
      PROVE  /\ Subj(req[r], rows) \in Users
             /\ users[Subj(req[r], rows)] # "enabled"
             /\ Refused(req[r])
  BY <1>1 DEF BarredStays, Subject
<1>2. ASSUME req[r].op \in {"password", "refresh"}, arrival[r].barred, ~Arrive(r),
             req'[r].op = req[r].op, req'[r].token = req[r].token,
             req[r].op = "password" => req'[r].user = req[r].user
      PROVE  /\ Subj(req'[r], rows') \in Users
             /\ users'[Subj(req'[r], rows')] # "enabled"
  <2>1. Subj(req'[r], rows') = Subj(req[r], rows)
    <3>1. CASE req[r].op = "password"
      BY <1>2, <3>1
    <3>2. CASE req[r].op = "refresh"
      BY <1>2, <3>2, RowsAge DEF PresentedIssued
    <3> QED BY <1>2, <3>1, <3>2
  <2>2. users'[Subj(req[r], rows)] # "enabled"
    BY <1>2, BarredAccount DEF Subject
  <2> QED BY <1>1, <1>2, <2>1, <2>2
<1>3. CASE Arrive(r)
  <2>1. ASSUME NEW u \in Users, ArrivePassword(r, u)
        PROVE  /\ req'[r].op = "password" /\ req'[r].user = u /\ req'[r].pc = "findUser"
               /\ users[u] # "enabled" /\ users' = users
    BY <2>1 DEF ArrivePassword, NoRequest
  <2>2. ASSUME NEW t \in delivered \cup {NoValue}, ArriveRefresh(r, t)
        PROVE  /\ req'[r].op = "refresh" /\ req'[r].token = t /\ req'[r].pc = "findValid"
               /\ t # NoValue /\ users[rows[t].userId] # "enabled"
               /\ users' = users /\ rows' = rows
    BY <2>2 DEF ArriveRefresh, NoRequest
  <2>3. ASSUME NEW t \in delivered \cup {NoValue}, ArriveRefresh(r, t)
        PROVE  rows[t].userId \in Users
    BY <2>2, <2>3 DEF AnsweredIsStored, RowsOwned, Issued
  <2>4. ASSUME NEW t \in Tokens \cup {NoValue}, ArriveRevoke(r, t)
        PROVE  FALSE
    BY <2>4 DEF ArriveRevoke, NoRequest
  <2> QED BY <1>3, <2>1, <2>2, <2>3, <2>4 DEF Arrive
<1>4. CASE Step(r) /\ req'[r] # NoRequest
  <2>1. ~Respond(r)
    BY <1>4 DEF Respond
  <2>2. arrival' = arrival /\ users' = users
    BY <1>4, <2>1 DEF Step, FindByUsername, Compare, FindValid, FindByInternalId,
       CleanUp, Revoke, Mint, Save, Fail
  <2>3. req[r].pc # "idle"
    BY <1>4 DEF Step, FindByUsername, Compare, FindValid, FindByInternalId, CleanUp,
       Revoke, Mint, Save, Fail, Respond, Awaiting
  <2>4. ~Arrive(r)
    BY <2>3 DEF Arrive, ArrivePassword, ArriveRefresh, ArriveRevoke
  <2>5. req'[r].op = req[r].op /\ req'[r].token = req[r].token
    BY <1>4, <2>4, TokenKept
  <2>6. arrival[r].barred /\ req[r].op \in {"password", "refresh"}
    BY <2>2, <2>5
  <2>7. CASE FindByUsername(r)
    <3>1. users[req[r].user] # "enabled"
      BY <1>1, <2>6, <2>7 DEF FindByUsername
    <3>2. req'[r].user = req[r].user /\ Refused(req'[r])
      BY <2>7, <3>1 DEF FindByUsername, Answer
    <3> QED BY <1>2, <2>4, <2>5, <2>6, <3>2
  <2>8. CASE FindValid(r)
    <3>1. req[r].op = "refresh"
      BY <2>8 DEF FindValid, StagesMatch
    <3>2. Refused(req'[r])
      BY <2>8 DEF FindValid, Answer
    <3> QED BY <1>2, <2>4, <2>5, <2>6, <3>1, <3>2
  <2>9. CASE FindByInternalId(r)
    <3>1. users[req[r].user] # "enabled"
      BY <1>1, <2>6, <2>9 DEF FindByInternalId, RefreshBound
    <3>2. req'[r].user = req[r].user /\ Refused(req'[r])
      BY <2>9, <3>1 DEF FindByInternalId, AfterUserCheck, Goto
    <3> QED BY <1>2, <2>4, <2>5, <2>6, <3>2
  <2>10. CASE CleanUp(r) \/ Fail(r)
    <3>1. req'[r].user = req[r].user /\ Refused(req'[r])
      BY <2>10 DEF CleanUp, Fail, Answer, Throw
    <3> QED BY <1>2, <2>4, <2>5, <2>6, <3>1
  <2>11. ~Compare(r) /\ ~Revoke(r) /\ ~Mint(r) /\ ~Save(r)
    BY <1>1, <2>6 DEF Compare, Revoke, Mint, Save
  <2> QED BY <1>4, <2>1, <2>7, <2>8, <2>9, <2>10, <2>11 DEF Step
<1>5. CASE req'[r] = NoRequest
  BY <1>5 DEF NoRequest
<1>6. CASE req'[r] = req[r] /\ (arrival'[r].barred => arrival[r].barred) /\ ~Arrive(r)
  BY <1>1, <1>2, <1>6
<1> QED BY <1>3, <1>4, <1>5, <1>6, SlotChange
-----------------------------------------------------------------------------
\* IInv is inductive.
THEOREM Inductive == Spec => []IInv
<1>1. Init => IInv
  <2> SUFFICES ASSUME Init PROVE IInv
    OBVIOUS
  <2>1. TypeOK
    BY GrantsAssumption
       DEF Init, TypeOK, AccountState, Row, NoRow, Request, NoRequest, Stage, Status,
           Arrival, NoArrival
  <2> QED BY <2>1
     DEF Init, NoRow, NoRequest, NoArrival, IInv, RowsOwned, StagesMatch, FreshApart,
         PresentedIssued, AnsweredIsStored, RefreshBound, ParentsIssued, RotatedIsDead,
         SessionKeepsItsOwner, StaleStays, StaleIsRefused, Accepted, BarredStays,
         AnswersMeanRevoked, Issued, Live
<1>2. IInv /\ [Next]_vars => IInv'
  BY TypeStep, RowsOwnedStep, StagesMatchStep, FreshApartStep, PresentedIssuedStep,
     AnsweredIsStoredStep, RefreshBoundStep, LineageStep, StaleStep, BarredStep,
     AnswersMeanRevokedStep DEF IInv
<1> QED BY <1>1, <1>2, PTL DEF Spec

\* In every reachable state a replaced token is dead: whatever interleaves and
\* whatever fails, AuthService.refresh never leaves a token and its replacement
\* usable together.
THEOREM RotationKillsTheOld == Spec => []RotatedIsDead
BY Inductive, PTL DEF IInv

\* A replacement always belongs to the account of the token it replaces.
THEOREM SessionsStayHome == Spec => []SessionKeepsItsOwner
BY Inductive, PTL DEF IInv

\* A refresh that arrives with an invalid token never gets past findValid.
THEOREM StaleTokensRefused == Spec => []StaleIsRefused
BY Inductive, PTL DEF IInv

\* No pair is minted for an account that was barred during the whole request.
THEOREM BarredAccountsRefused == Spec => []BarredIsRefused
<1>1. IInv => BarredIsRefused
  BY DEF IInv, BarredStays, BarredIsRefused
<1> QED BY <1>1, Inductive, PTL

\* After an answer that implies it, the presented token is not live.
THEOREM AnswersAreTrue == Spec => []AnswersMeanRevoked
BY Inductive, PTL DEF IInv

\* A token in the hands of a client has a row.
THEOREM NoPhantomTokens == Spec => []AnsweredIsStored
BY Inductive, PTL DEF IInv
-----------------------------------------------------------------------------
(* The ledger.                                                             *)

\* Under the refinement mapping a step of the service is a step of the ledger.
LEMMA LedgerStep ==
  IInv /\ [Next]_vars => [Ledger!Next]_Ledger!vars
<1> SUFFICES ASSUME IInv, [Next]_vars PROVE [Ledger!Next]_Ledger!vars
  OBVIOUS
<1> DEFINE Abs(table) == [t \in Tokens |-> LedgerStatus(table[t].state)]
    Own(table) == [t \in Tokens |-> table[t].userId]
<1> USE DEF IInv, TypeOK, Row, Live
<1>1. ASSUME NEW r \in Requests, CleanUp(r) \/ Revoke(r)
      PROVE  [Ledger!Next]_Ledger!vars
  <2> DEFINE t == req[r].token
  <2>1. rows' = Invalidate(t) /\ parent' = parent /\ t \in Tokens \cup {NoValue}
    BY <1>1 DEF CleanUp, Revoke, Request
  <2> HIDE DEF t
  <2>2. CASE t # NoValue /\ Live(t)
    <3>1. Abs(rows') = [x \in Tokens |-> IF x \in {t} THEN "dead" ELSE Abs(rows)[x]]
      BY <2>1, <2>2 DEF Invalidate, LedgerStatus
    <3>2. Own(rows') = Own(rows)
      BY <2>1, <2>2 DEF Invalidate
    <3>3. \A x \in {t} : Abs(rows)[x] = "live"
      BY <2>1, <2>2 DEF LedgerStatus
    <3>4. {t} \in SUBSET Tokens
      BY <2>1, <2>2
    <3>5. Ledger!Kill({t})
      BY <2>1, <3>1, <3>2, <3>3 DEF Ledger!Kill
    <3> QED BY <3>4, <3>5 DEF Ledger!Next
  <2>3. CASE ~(t # NoValue /\ Live(t))
    BY <2>1, <2>3 DEF Invalidate, Ledger!vars
  <2> QED BY <2>2, <2>3
<1>2. ASSUME NEW r \in Requests, Save(r), Insert(r)
      PROVE  Ledger!Next
  <2>0. req[r].pc = "save" /\ req[r].fresh \in Tokens /\ req[r].user \in Users
    BY <1>2 DEF Save, FreshApart, Request, StagesMatch, RefreshBound, PresentedIssued,
                RowsOwned, Issued
  <2>t. PICK t \in Tokens : t = req[r].fresh
    BY <2>0
  <2>p. PICK p \in Tokens \cup {NoValue} : p = req[r].token
    BY DEF Request
  <2>u. PICK u \in Users : u = req[r].user
    BY <2>0
  <2>1. rows[t].state = "unissued"
    BY <2>0, <2>t DEF FreshApart, Issued
  <2>2. /\ Abs(rows') = [Abs(rows) EXCEPT ![t] = "live"]
        /\ Own(rows') = [Own(rows) EXCEPT ![t] = u]
        /\ parent' = [parent EXCEPT ![t] = p]
    BY <1>2, <2>t, <2>p, <2>u DEF Insert, Owner, LedgerStatus
  <2>3. Abs(rows)[t] = "unissued"
    BY <2>1 DEF LedgerStatus
  <2>4. Ledger!Issue(t, u, p)
    BY <2>2, <2>3 DEF Ledger!Issue
  <2>5. CASE p = NoValue
    <3>1. Ledger!Login(t, u)
      BY <2>4, <2>5 DEF Ledger!Login
    <3> QED BY <3>1 DEF Ledger!Next
  <2>6. CASE p # NoValue
    <3>1. /\ p \in Tokens /\ rows[p].state \notin {"unissued", "live"}
          /\ u = rows[p].userId
      BY <2>0, <2>p, <2>u, <2>6 DEF StagesMatch, RefreshBound, PresentedIssued, Issued
    <3>2. Abs(rows)[p] = "dead" /\ Own(rows)[p] = u
      BY <3>1 DEF LedgerStatus
    <3>3. Ledger!Rotate(t, p)
      BY <2>4, <3>2 DEF Ledger!Rotate
    <3> QED BY <3>1, <3>3 DEF Ledger!Next
  <2> QED BY <2>5, <2>6
<1>3. ASSUME NEW u \in Users, Delete(u)
      PROVE  [Ledger!Next]_Ledger!vars
  <2> DEFINE Mine == {t \in Tokens : rows[t].userId = u /\ Live(t)}
  <2>1. ASSUME NEW t \in Tokens
        PROVE  LedgerStatus(rows'[t].state) =
                 IF t \in Mine THEN "dead" ELSE LedgerStatus(rows[t].state)
    BY <1>3, GrantsAssumption DEF Delete, LedgerStatus, RowsOwned, Issued
  <2>2. Own(rows') = Own(rows) /\ parent' = parent
    BY <1>3 DEF Delete
  <2>3. \A t \in Mine : Abs(rows)[t] = "live"
    BY DEF LedgerStatus
  <2> HIDE DEF Mine
  <2>4. Abs(rows') = [t \in Tokens |-> IF t \in Mine THEN "dead" ELSE Abs(rows)[t]]
    BY <2>1
  <2>5. Ledger!Kill(Mine)
    BY <2>2, <2>3, <2>4 DEF Ledger!Kill
  <2>6. Mine \in SUBSET Tokens
    BY DEF Mine
  <2> QED BY <2>5, <2>6 DEF Ledger!Next
<1>4. CASE UNCHANGED <<rows, parent>>
  BY <1>4 DEF Ledger!vars
<1>5. ASSUME NEW r \in Requests, Save(r)
      PROVE  Insert(r) \/ UNCHANGED <<rows, parent>>
  BY <1>5 DEF Save
<1> QED BY <1>1, <1>2, <1>3, <1>4, <1>5, RowsChange

\* The service implements the ledger: every token comes from a login, or from
\* a dead token of the same account, and a dead token stays dead.
THEOREM Refinement == Spec => ImplementsLedger
<1>1. Init => Ledger!Init
  BY DEF Init, Ledger!Init, NoRow, LedgerStatus
<1> QED BY <1>1, LedgerStep, Inductive, PTL DEF Spec, ImplementsLedger, Ledger!Spec
-----------------------------------------------------------------------------
(* The bound on overlapping rotations.                                     *)

Children(t) == {c \in Tokens : parent[c] = t}

\* A request joins the rotations of a token only in findValid.
LEMMA RotatingJoins ==
  ASSUME TypeOK, StagesMatch, [Next]_vars, NEW t \in Tokens,
         NEW r \in Requests, r \in Rotating(t)', ~FindValid(r)
  PROVE  r \in Rotating(t)
<1> USE DEF TypeOK, Request
<1> DEFINE Stages == {"findUser", "cleanup", "revoke", "mint", "save"}
<1>1. req'[r].op = "refresh" /\ req'[r].token = t /\ req'[r].pc \in Stages
  BY DEF Rotating
<1>2. ~Arrive(r) /\ req'[r] # NoRequest
  <2>1. ASSUME NEW u \in Users, ArrivePassword(r, u) PROVE FALSE
    BY <1>1, <2>1 DEF ArrivePassword, NoRequest
  <2>2. ASSUME NEW x \in Tokens \cup {NoValue}, ArriveRefresh(r, x) PROVE FALSE
    BY <1>1, <2>2 DEF ArriveRefresh, NoRequest
  <2>3. ASSUME NEW x \in Tokens \cup {NoValue}, ArriveRevoke(r, x) PROVE FALSE
    BY <1>1, <2>3 DEF ArriveRevoke, NoRequest
  <2> QED BY <1>1, <2>1, <2>2, <2>3 DEF Arrive, NoRequest
<1>3. req[r].op = "refresh" /\ req[r].token = t
  BY <1>1, <1>2, TokenKept
<1>4. req[r].pc \in Stages
  <2>1. CASE Step(r)
    <3>1. ~Respond(r) /\ ~Fail(r)
      BY <1>1, <1>2 DEF Respond, Fail, Throw, Answer
    <3>2. ~FindByUsername(r) /\ ~Compare(r)
      BY <1>3 DEF FindByUsername, Compare, StagesMatch
    <3> QED BY <2>1, <3>1, <3>2 DEF Step, FindByInternalId, CleanUp, Revoke, Mint, Save
  <2>2. CASE req'[r] = req[r]
    BY <1>1, <2>2
  <2> QED BY <1>2, <2>1, <2>2, SlotChange
<1> QED BY <1>3, <1>4 DEF Rotating

\* A step keeps BoundedFanOut: a child is stored by a request that rotated.
LEMMA FanOutStep ==
  ASSUME IInv, BoundedFanOut, [Next]_vars
  PROVE  BoundedFanOut'
<1> SUFFICES ASSUME NEW t \in Tokens
             PROVE  Cardinality(Children(t)') + Cardinality(Rotating(t)')
                      <= Cardinality(Requests)
  BY DEF BoundedFanOut, Children
<1> DEFINE C == Children(t)
           R == Rotating(t)
<1>0. TypeOK /\ StagesMatch /\ FreshApart
  BY DEF IInv
<1>1. /\ C \in SUBSET Tokens /\ C' \in SUBSET Tokens
      /\ R \in SUBSET Requests /\ R' \in SUBSET Requests
  BY DEF Children, Rotating
<1>2. /\ IsFiniteSet(C) /\ IsFiniteSet(C') /\ IsFiniteSet(R) /\ IsFiniteSet(R')
      /\ Cardinality(C) \in Nat /\ Cardinality(C') \in Nat
      /\ Cardinality(R) \in Nat /\ Cardinality(R') \in Nat
      /\ Cardinality(R') <= Cardinality(Requests)
  BY <1>1, GrantsAssumption, FS_Subset, FS_CardinalityType
<1>3. Cardinality(C) + Cardinality(R) <= Cardinality(Requests)
  BY DEF BoundedFanOut, Children
<1>4. Cardinality(Requests) \in Nat
  BY GrantsAssumption, FS_CardinalityType
<1>5. CASE \E r \in Requests : FindValid(r) /\ r \in R'
  <2>1. PICK r \in Requests : FindValid(r) /\ r \in R'
    BY <1>5
  <2>2. req[r].token = t /\ Live(t)
    BY <1>0, <2>1 DEF FindValid, Answer, Rotating, Presentable, IsValid, Live, TypeOK, Request
  <2>3. C = {}
    BY <2>2, GrantsAssumption DEF Children, IInv, RotatedIsDead
  <2>4. C' = C
    BY <2>1 DEF FindValid, Children
  <2>5. Cardinality(C') = 0
    BY <2>3, <2>4, FS_EmptySet
  <2> QED BY <1>2, <1>4, <2>5
<1>6. CASE \E r \in R : Save(r) /\ Insert(r)
  <2>1. PICK r \in R : Save(r) /\ Insert(r)
    BY <1>6
  <2>2. r \in Requests /\ req[r].pc = "save"
    BY <2>1 DEF Save, Rotating
  <2>3. C' \subseteq C \cup {req[r].fresh}
    BY <1>0, <2>1 DEF Insert, Children, TypeOK
  <2>4. Cardinality(C') <= Cardinality(C) + 1
    <3> DEFINE D == C \cup {req[r].fresh}
    <3> HIDE DEF C
    <3>1. IsFiniteSet(D) /\ Cardinality(D) \in {Cardinality(C), Cardinality(C) + 1}
      BY <1>2, FS_AddElement
    <3>2. Cardinality(C') <= Cardinality(D)
      BY <2>3, <3>1, FS_Subset
    <3> HIDE DEF D
    <3> QED BY <1>2, <3>1, <3>2
  <2>5. R' \subseteq R \ {r}
    <3>1. r \notin R'
      BY <1>0, <2>1, <2>2 DEF Save, Answer, Throw, Rotating, TypeOK, Request
    <3>2. \A s \in Requests : ~FindValid(s) \/ s \notin R'
      <4> SUFFICES ASSUME NEW s \in Requests, FindValid(s) PROVE s \notin R'
        OBVIOUS
      <4>1. parent' = parent /\ rows' = rows
        BY DEF FindValid
      <4>2. rows[req[r].fresh].state = "unissued" /\ rows'[req[r].fresh].state = "live"
        BY <1>0, <2>1, <2>2 DEF FreshApart, Issued, Insert, TypeOK
      <4> QED BY <4>1, <4>2
    <3> QED BY <1>0, <1>1, <3>1, <3>2, RotatingJoins
  <2>6. Cardinality(R') <= Cardinality(R) - 1
    <3>1. IsFiniteSet(R \ {r}) /\ Cardinality(R \ {r}) = Cardinality(R) - 1
      BY <1>2, <2>1, FS_RemoveElement
    <3> QED BY <2>5, <3>1, FS_Subset
  <2> QED BY <1>2, <1>3, <1>4, <2>4, <2>6
<1>7. CASE /\ ~\E r \in Requests : FindValid(r) /\ r \in R'
           /\ ~\E r \in R : Save(r) /\ Insert(r)
  <2>1. R' \subseteq R
    BY <1>0, <1>1, <1>7, RotatingJoins
  <2>2. C' \subseteq C
    <3>1. CASE parent' = parent
      BY <3>1 DEF Children
    <3>2. CASE \E r \in Requests : Save(r) /\ Insert(r)
      <4>1. PICK r \in Requests : Save(r) /\ Insert(r)
        BY <3>2
      <4>2. req[r].token # t
        <5>1. r \notin R /\ req[r].pc = "save"
          BY <1>7, <4>1 DEF Save
        <5>2. req[r].op = "refresh" \/ req[r].token = NoValue
          BY <1>0, <5>1 DEF StagesMatch
        <5> QED BY <5>1, <5>2, GrantsAssumption DEF Rotating
      <4> QED BY <1>0, <4>1, <4>2 DEF Insert, Children, TypeOK
    <3>3. parent' = parent \/ \E r \in Requests : Save(r) /\ Insert(r)
      BY RowsChange DEF CleanUp, Revoke, Save, Delete
    <3> QED BY <3>1, <3>2, <3>3
  <2>3. Cardinality(R') <= Cardinality(R) /\ Cardinality(C') <= Cardinality(C)
    BY <1>2, <2>1, <2>2, FS_Subset
  <2> QED BY <1>2, <1>3, <1>4, <2>3
<1> QED BY <1>5, <1>6, <1>7

\* However many refreshes of one token overlap, it never has more replacements
\* than the process serves requests at a time.
THEOREM FanOutIsBounded == Spec => []BoundedFanOut
<1>1. Init => BoundedFanOut
  <2> SUFFICES ASSUME Init, NEW t \in Tokens
               PROVE  Cardinality(Children(t)) + Cardinality(Rotating(t))
                        <= Cardinality(Requests)
    BY DEF BoundedFanOut, Children
  <2>1. Children(t) = {} /\ Rotating(t) = {}
    BY GrantsAssumption DEF Init, Children, Rotating, NoRequest
  <2>2. Cardinality(Requests) \in Nat
    BY GrantsAssumption, FS_CardinalityType
  <2> QED BY <2>1, <2>2, FS_EmptySet
<1>2. IInv /\ BoundedFanOut /\ [Next]_vars => BoundedFanOut'
  BY FanOutStep
<1> QED BY <1>1, <1>2, Inductive, PTL DEF Spec
-----------------------------------------------------------------------------
(* What becomes of a token, and of the tokens that descend from a login.   *)

\* A revocation is for good and the history is never rewritten: whatever step
\* of whichever request comes next, a token that is dead stays dead, and a
\* token that was issued keeps its owner, its expiry and its parent.
THEOREM RevocationIsForGood ==
  Spec => [][\A t \in Tokens : Issued(t) =>
               /\ ~Live(t) => ~Live(t)'
               /\ Issued(t)'
               /\ rows'[t].userId = rows[t].userId
               /\ rows'[t].expiresAt = rows[t].expiresAt
               /\ parent'[t] = parent[t]]_vars
<1> DEFINE Kept ==
      \A t \in Tokens : Issued(t) =>
        /\ ~Live(t) => ~Live(t)'
        /\ Issued(t)'
        /\ rows'[t].userId = rows[t].userId
        /\ rows'[t].expiresAt = rows[t].expiresAt
        /\ parent'[t] = parent[t]
<1>1. IInv /\ [Next]_vars => Kept
  BY RowsAge DEF IInv
<1> HIDE DEF Kept
<1>2. IInv /\ [Next]_vars => [Kept]_vars
  BY <1>1
<1>3. Spec => [][Kept]_vars
  BY <1>2, Inductive, PTL DEF Spec
<1> QED BY <1>3 DEF Kept

\* Every set of tokens holds one that was issued by a login or descends from
\* outside the set: no token is its own ancestor.
SessionsHaveAStart ==
  \A S \in (SUBSET Tokens) \ {{}} : \E t \in S : parent[t] \notin S

\* A step keeps SessionsHaveAStart: the token that Save inserts is nobody's
\* parent yet.
LEMMA StartStep ==
  ASSUME IInv, SessionsHaveAStart, [Next]_vars
  PROVE  SessionsHaveAStart'
<1> SUFFICES ASSUME NEW S \in (SUBSET Tokens) \ {{}}
             PROVE  \E t \in S : parent'[t] \notin S
  BY DEF SessionsHaveAStart
<1>1. CASE parent' = parent
  BY <1>1 DEF SessionsHaveAStart
<1>2. CASE \E r \in Requests : Save(r) /\ Insert(r)
  <2>1. PICK r \in Requests : Save(r) /\ Insert(r)
    BY <1>2
  <2>2. PICK f \in Tokens : f = req[r].fresh
    BY <2>1 DEF IInv, FreshApart, Save
  <2>3. ~Issued(f)
    BY <2>1, <2>2 DEF IInv, FreshApart, Save
  <2>4. /\ parent'[f] = req[r].token
        /\ \A t \in Tokens \ {f} : parent'[t] = parent[t]
    BY <2>1, <2>2 DEF IInv, TypeOK, Insert
  <2>5. \A t \in Tokens : parent[t] # f
    BY <2>2, <2>3, GrantsAssumption DEF IInv, ParentsIssued
  <2>6. req[r].token # f
    BY <2>2, <2>3, GrantsAssumption DEF IInv, PresentedIssued
  <2>7. CASE S \ {f} = {}
    BY <2>4, <2>6, <2>7
  <2>8. CASE S \ {f} # {}
    <3>1. PICK t \in S \ {f} : parent[t] \notin S \ {f}
      BY <2>8 DEF SessionsHaveAStart
    <3> QED BY <2>4, <2>5, <3>1
  <2> QED BY <2>7, <2>8
<1>3. parent' = parent \/ \E r \in Requests : Save(r) /\ Insert(r)
  BY RowsChange DEF CleanUp, Revoke, Save, Delete
<1> QED BY <1>1, <1>2, <1>3

\* The tokens of a session form a tree under the token of its login: however
\* rotations of one token overlap, none closes a cycle.
THEOREM SessionsAreTrees == Spec => []SessionsHaveAStart
<1>1. Init => SessionsHaveAStart
  BY GrantsAssumption DEF Init, SessionsHaveAStart
<1>2. IInv /\ SessionsHaveAStart /\ [Next]_vars => SessionsHaveAStart'
  BY StartStep
<1> QED BY <1>1, <1>2, Inductive, PTL DEF Spec
-----------------------------------------------------------------------------
(* The promise that overlapping requests break.                            *)

\* The bound on children, when there is one slot.
LEMMA OneChild ==
  ASSUME Cardinality(Requests) = 1, TypeOK, BoundedFanOut
  PROVE  SingleUse
<1> SUFFICES ASSUME NEW t1 \in Tokens, NEW t2 \in Tokens,
                    parent[t1] # NoValue, parent[t1] = parent[t2], t1 # t2
             PROVE  FALSE
  BY DEF SingleUse
<1> DEFINE p == parent[t1]
<1>1. p \in Tokens
  BY DEF TypeOK
<1>2. /\ Children(p) \in SUBSET Tokens /\ IsFiniteSet(Children(p))
      /\ Rotating(p) \in SUBSET Requests /\ IsFiniteSet(Rotating(p))
  BY GrantsAssumption, FS_Subset DEF Children, Rotating
<1>3. Cardinality(Children(p)) \in Nat /\ Cardinality(Rotating(p)) \in Nat
  BY <1>2, FS_CardinalityType
<1>4. Cardinality(Children(p)) + Cardinality(Rotating(p)) <= 1
  BY <1>1 DEF BoundedFanOut, Children
<1>5. t1 \in Children(p) /\ t2 \in Children(p)
  BY DEF Children
<1> HIDE DEF p
<1>6. /\ IsFiniteSet(Children(p) \ {t1})
      /\ Cardinality(Children(p) \ {t1}) = Cardinality(Children(p)) - 1
  BY <1>2, <1>5, FS_RemoveElement
<1>7. Cardinality(Children(p) \ {t1}) = 0
  BY <1>3, <1>4, <1>6, FS_CardinalityType
<1>8. Children(p) \ {t1} = {}
  BY <1>6, <1>7, FS_EmptySet
<1> QED BY <1>5, <1>8

\* Served one at a time, refreshes do rotate as README.md says: a token is
\* good for one new pair, whatever fails and whenever the process crashes.
\* What breaks SingleUse is only that requests overlap.
THEOREM SerialIsSingleUse ==
  ASSUME Cardinality(Requests) = 1
  PROVE  Spec => []SingleUse
<1>1. TypeOK /\ BoundedFanOut => SingleUse
  BY OneChild
<1> QED BY <1>1, TypeCorrect, FanOutIsBounded, PTL

\* Whenever the tokens of S descend from one of them, at most one of them is
\* live.
OneLivePerSession ==
  \A S \in SUBSET Tokens : \A root \in S :
    (\A t \in S \ {root} : parent[t] \in S) =>
      \A a, b \in S : Live(a) /\ Live(b) => a = b

\* Two live tokens would leave the parents of a session fewer places than the
\* session has tokens with a parent.
LEMMA OneTip ==
  ASSUME TypeOK, RotatedIsDead, SingleUse
  PROVE  OneLivePerSession
<1> SUFFICES ASSUME NEW S \in SUBSET Tokens, NEW root \in S,
                    \A t \in S \ {root} : parent[t] \in S,
                    NEW a \in S, NEW b \in S, Live(a), Live(b), a # b
             PROVE  FALSE
  BY DEF OneLivePerSession
<1> DEFINE Born == S \ {root}
           Dead == (S \ {a}) \ {b}
<1>1. \A t \in Born : parent[t] \in Dead
  BY GrantsAssumption DEF RotatedIsDead
<1>2. \A s, t \in Born : parent[s] = parent[t] => s = t
  BY <1>1, GrantsAssumption DEF SingleUse
<1>3. IsFiniteSet(S)
  BY GrantsAssumption, FS_Subset
<1>4. /\ IsFiniteSet(Born) /\ Cardinality(Born) = Cardinality(S) - 1
      /\ IsFiniteSet(S \ {a}) /\ Cardinality(S \ {a}) = Cardinality(S) - 1
  BY <1>3, FS_RemoveElement
<1>5. IsFiniteSet(Dead) /\ Cardinality(Dead) = Cardinality(S) - 2
  <2>1. b \in S \ {a}
    OBVIOUS
  <2>2. IsFiniteSet(Dead) /\ Cardinality(Dead) = Cardinality(S \ {a}) - 1
    BY <1>4, <2>1, FS_RemoveElement
  <2>3. Cardinality(S) \in Nat
    BY <1>3, FS_CardinalityType
  <2> QED BY <1>4, <2>2, <2>3
<1>6. Cardinality(Born) <= Cardinality(Dead)
  <2> DEFINE par == [t \in Born |-> parent[t]]
  <2> HIDE DEF Born, Dead
  <2>1. par \in [Born -> Dead]
    BY <1>1
  <2>2. \A s, t \in Born : par[s] = par[t] => s = t
    BY <1>2
  <2> HIDE DEF par
  <2>3. par \in Injection(Born, Dead)
    BY <2>1, <2>2 DEF Injection, IsInjective
  <2> QED BY <1>5, <2>3, FS_Injection
<1>7. Cardinality(S) \in Nat
  BY <1>3, FS_CardinalityType
<1> HIDE DEF Born, Dead
<1> QED BY <1>4, <1>5, <1>6, <1>7

\* Served one at a time, a login has at most one usable refresh token at any
\* moment, however often its session was rotated: what rotation is for.
THEOREM SerialSessionsHaveOneToken ==
  ASSUME Cardinality(Requests) = 1
  PROVE  Spec => []OneLivePerSession
<1>1. TypeOK /\ RotatedIsDead /\ SingleUse => OneLivePerSession
  BY OneTip
<1> QED BY <1>1, TypeCorrect, RotationKillsTheOld, SerialIsSingleUse, PTL
=============================================================================
