--------------------------- MODULE AccountsProofs ---------------------------
(***************************************************************************)
(* Theorems about Accounts, for any tables, requests and pool size.  The   *)
(* invariant behind the whole replacement of a user's roles is that of two *)
(* transactions past their DELETE on one user, none has written, so that   *)
(* what a transaction deleted is what a commit still finds.                *)
(***************************************************************************)
EXTENDS Accounts, FiniteSetTheorems, TLAPS

\* What the stage q.pc of a request says of its locks L, of the catalogue, and
\* of its other fields: the locks are held from the DELETE to the end, and
\* nothing is written outside them; from the INSERT or the lookup on the user
\* is known, and of a registration not before; the roles to assign are some, are in ROLES once looked up, and the
\* loop of INSERTs covers them all; and what a status or a stage says of op.
SlotInv(q, r, L, cat) ==
  /\ r \in L => q.pc \in {"insertRole", "commit", "rollback"}
  /\ q.pc \in {"insertRole", "commit"} => r \in L
  /\ r \notin L => q.deleted = {} /\ q.inserted = {}
  /\ q.pc \in {"reload", "connect", "enrich"} \cup InTransaction => q.user # NoValue
  /\ q.pc \in {"findName", "findMail", "hash", "insertUser"} => q.user = NoValue
  /\ q.op # "none" => q.roles # {}
  /\ q.op = "none" => q.pc = "idle"
  /\ q.op = "register" => q.roles = {Citizen}
  /\ q.pc = "findRole" => q.roles \ q.left \subseteq cat
  /\ q.pc \in {"findUuid", "reload", "connect"} \cup InTransaction => q.roles \subseteq cat
  /\ q.pc \in {"connect", "begin", "delete"} => q.left = q.roles
  /\ q.pc = "insertRole" => q.left # {} /\ q.inserted \cup q.left = q.roles
  /\ q.pc = "commit" => q.inserted = q.roles
  /\ q.pc \in {"findName", "findMail", "hash", "insertUser", "reload"} => q.op = "register"
  /\ q.status \in {"created", "conflict"} => q.op = "register"
  /\ q.status # "none" => q.pc = "answer"

SlotsMatch ==
  /\ Citizen \in catalogue
  /\ \A r \in Requests : SlotInv(req[r], r, locks, catalogue)

\* Of two transactions past their DELETE on one user, none has written.
OneWriter ==
  \A r, s \in locks : r # s /\ req[r].user = req[s].user => ~HasWritten(r)

\* What a transaction deleted is still what is committed.
DeletedIsCurrent ==
  \A r \in locks : req[r].deleted = roleRows[req[r].user]

\* A registration past its INSERT works on the row it inserted.
RegistersItself ==
  \A r \in Requests : req[r].op = "register" =>
    /\ req[r].name \in Names /\ req[r].mail \in Mails
    /\ req[r].user # NoValue =>
         users[req[r].user] = [name |-> req[r].name, mail |-> req[r].mail]

\* An id has both a username and an address, or neither.
AccountsWhole ==
  \A u \in Ids : users[u] = NoAccount \/ (users[u].name \in Names /\ users[u].mail \in Mails)

\* After its commit a request's user has roles.
RolesStay == \A r \in Requests : req[r].pc = "enrich" => roleRows[req[r].user] # {}

IInv ==
  /\ TypeOK /\ NoConnectionLost
  /\ SlotsMatch /\ OneWriter /\ DeletedIsCurrent
  /\ RegistersItself /\ AccountsWhole /\ RolesStay
  /\ OneAccountEach /\ ConflictIsReal /\ CreatedHasRoles
-----------------------------------------------------------------------------
(* What a step does to a slot, to the tables and to the locks.             *)

\* The types of all but the pool, whose bound needs NoConnectionLost.
TypeData ==
  /\ users \in [Ids -> Account]
  /\ catalogue \in SUBSET Roles
  /\ roleRows \in [Ids -> SUBSET Roles]
  /\ req \in [Requests -> Request]
  /\ locks \in SUBSET Requests

\* A request goes through its code without touching another's slot.
LEMMA SlotChange ==
  ASSUME TypeOK, [Next]_vars, NEW r \in Requests
  PROVE  \/ req'[r] = req[r] /\ (r \in locks' <=> r \in locks)
         \/ Arrive(r) \/ Step(r) \/ Fail(r)
         \/ req'[r] = NoRequest /\ locks' = {}
<1> USE DEF TypeOK
<1>1. ASSUME NEW s \in Requests, s # r, Arrive(s)
      PROVE  req'[r] = req[r] /\ locks' = locks
  BY <1>1 DEF Arrive, ArriveRegister, ArriveUpdateRoles
<1>2. ASSUME NEW s \in Requests, s # r, Step(s)
      PROVE  req'[r] = req[r] /\ (r \in locks' <=> r \in locks)
  <2>1. CASE FindName(s) \/ FindMail(s) \/ Hash(s) \/ InsertUser(s) \/ Reload(s)
    BY <1>2, <2>1 DEF FindName, FindMail, Hash, InsertUser, Reload, Goto, Answer
  <2>2. CASE FindRole(s) \/ FindUuid(s) \/ Connect(s) \/ Begin(s) \/ InsertRole(s)
    BY <1>2, <2>2 DEF FindRole, FindUuid, Connect, Begin, InsertRole, Goto, Answer
  <2>3. CASE DeleteRoles(s) \/ DeadlockVictim(s) \/ Commit(s) \/ Rollback(s)
    BY <1>2, <2>3 DEF DeleteRoles, DeadlockVictim, Commit, Rollback, EndTransaction
  <2>4. CASE Enrich(s) \/ Respond(s)
    BY <1>2, <2>4 DEF Enrich, Respond, Answer
  <2> QED BY <1>2, <2>1, <2>2, <2>3, <2>4 DEF Step
<1>3. ASSUME NEW s \in Requests, s # r, Fail(s)
      PROVE  req'[r] = req[r] /\ locks' = locks
  BY <1>3 DEF Fail, Goto, Answer
<1>4. CASE Crash
  BY <1>4 DEF Crash
<1>5. CASE UNCHANGED vars \/ \E role \in Roles : CreateRole(role)
  BY <1>5 DEF vars, CreateRole
<1> QED BY <1>1, <1>2, <1>3, <1>4, <1>5 DEF Next

\* The writers of the tables.
LEMMA TablesChange ==
  ASSUME TypeOK, [Next]_vars
  PROVE  /\ catalogue \subseteq catalogue'
         /\ users' = users \/ \E r \in Requests : InsertUser(r)
         /\ roleRows' = roleRows \/ \E r \in Requests : Commit(r)
<1>1. ASSUME NEW r \in Requests, Arrive(r) \/ Fail(r)
      PROVE  UNCHANGED <<users, catalogue, roleRows>>
  BY <1>1 DEF Arrive, ArriveRegister, ArriveUpdateRoles, Fail
<1>2. ASSUME NEW r \in Requests, Step(r), ~InsertUser(r), ~Commit(r)
      PROVE  UNCHANGED <<users, catalogue, roleRows>>
  BY <1>2 DEF Step, FindName, FindMail, Hash, Reload, FindRole, FindUuid, Connect, Begin,
     DeleteRoles, InsertRole, DeadlockVictim, Rollback, Enrich, Respond
<1>3. ASSUME NEW r \in Requests, InsertUser(r)
      PROVE  UNCHANGED <<catalogue, roleRows>>
  BY <1>3 DEF InsertUser
<1>4. ASSUME NEW r \in Requests, Commit(r)
      PROVE  UNCHANGED <<users, catalogue>>
  BY <1>4 DEF Commit
<1>5. CASE Crash \/ UNCHANGED vars
  BY <1>5 DEF Crash, vars
<1>6. ASSUME NEW role \in Roles, CreateRole(role)
      PROVE  catalogue \subseteq catalogue' /\ UNCHANGED <<users, roleRows>>
  BY <1>6 DEF CreateRole
<1> QED BY <1>1, <1>2, <1>3, <1>4, <1>5, <1>6 DEF Next

\* Accounts stay, and a username or an address that is taken stays taken.
LEMMA UsersGrow ==
  ASSUME TypeOK, AccountsWhole, [Next]_vars
  PROVE  /\ \A u \in Ids : Exists(u) => users'[u] = users[u]
         /\ \A n \in Names, m \in Mails : Duplicate(n, m) => Duplicate(n, m)'
<1>1. ASSUME NEW r \in Requests, InsertUser(r), NEW u \in Ids, Exists(u)
      PROVE  users'[u] = users[u]
  BY <1>1 DEF InsertUser, Exists, TypeOK
<1>2. \A u \in Ids : Exists(u) => users'[u] = users[u]
  BY <1>1, TablesChange
<1>3. ASSUME NEW n \in Names, NEW m \in Mails, Duplicate(n, m)
      PROVE  Duplicate(n, m)'
  <2>1. PICK u \in Ids : users[u].name = n \/ users[u].mail = m
    BY <1>3 DEF Duplicate, NameTaken, MailTaken
  <2>2. Exists(u)
    BY <2>1, AccountsAssumption DEF Exists, AccountsWhole, NoAccount
  <2>3. users'[u] = users[u]
    BY <1>2, <2>2
  <2> QED BY <2>1, <2>3 DEF Duplicate, NameTaken, MailTaken
<1> QED BY <1>2, <1>3

\* Sending a request to a stage, or to its answer, keeps the slots well typed.
LEMMA MovesTyped ==
  ASSUME TypeOK, NEW r \in Requests
  PROVE  /\ \A stage \in Stage : Goto(r, stage) => req' \in [Requests -> Request]
         /\ \A s \in Status : Answer(r, s) => req' \in [Requests -> Request]
<1>1. "answer" \in Stage
  BY DEF Stage
<1>2. \A stage \in Stage : [req[r] EXCEPT !.pc = stage] \in Request
  BY DEF TypeOK, Request
<1>3. \A s \in Status : [req[r] EXCEPT !.pc = "answer", !.status = s] \in Request
  BY <1>1 DEF TypeOK, Request
<1>4. \A stage \in Stage : Goto(r, stage) => req' = [req EXCEPT ![r] = [req[r] EXCEPT !.pc = stage]]
  BY DEF TypeOK, Goto, Request
<1>5. \A s \in Status :
        Answer(r, s) => req' = [req EXCEPT ![r] = [req[r] EXCEPT !.pc = "answer", !.status = s]]
  BY DEF TypeOK, Answer, Request
<1> QED BY <1>2, <1>3, <1>4, <1>5 DEF TypeOK

\* Every step keeps the tables, the requests and the locks well typed.
LEMMA TypeStep ==
  ASSUME TypeOK, SlotsMatch, [Next]_vars
  PROVE  TypeData'
<1> DEFINE Slots == req' \in [Requests -> Request]
<1> USE DEF TypeData
<1>a. /\ users \in [Ids -> Account] /\ catalogue \in SUBSET Roles
      /\ roleRows \in [Ids -> SUBSET Roles]
      /\ req \in [Requests -> Request] /\ locks \in SUBSET Requests
  BY DEF TypeOK
<1>b. NoRequest \in Request
  BY DEF NoRequest, Request, Stage, Status
<1>c. /\ InTransaction \subseteq Stage /\ Querying \subseteq Stage
      /\ {"idle", "hash", "connect", "answer"} \subseteq Stage
  BY DEF Stage
<1>1. ASSUME NEW r \in Requests, Arrive(r)
      PROVE  TypeData'
  <2>1. Citizen \in Roles
    BY AccountsAssumption
  <2>2. ASSUME NEW n \in Names, NEW m \in Mails, ArriveRegister(r, n, m)
        PROVE  Slots
    <3>1. [NoRequest EXCEPT !.pc = "findName", !.op = "register", !.name = n, !.mail = m,
                            !.roles = {Citizen}] \in Request
      BY <1>b, <2>1 DEF Request, Stage, Querying
    <3> QED BY <1>a, <2>2, <3>1 DEF ArriveRegister
  <2>3. ASSUME NEW u \in Ids \cup {NoValue}, NEW R \in (SUBSET Roles) \ {{}},
               ArriveUpdateRoles(r, u, R)
        PROVE  Slots
    <3>1. [NoRequest EXCEPT !.pc = "findRole", !.op = "updateRoles", !.user = u,
                            !.roles = R, !.left = R] \in Request
      BY <1>b DEF Request, Stage, Querying
    <3> QED BY <1>a, <2>3, <3>1 DEF ArriveUpdateRoles
  <2> QED BY <1>1, <1>a, <2>2, <2>3 DEF Arrive, ArriveRegister, ArriveUpdateRoles
<1>2. ASSUME NEW r \in Requests, FindName(r) \/ FindMail(r) \/ Hash(r) \/ Connect(r) \/ Begin(r)
                                 \/ Enrich(r) \/ Fail(r)
      PROVE  TypeData'
  <2>1. Slots
    BY <1>2, <1>c, MovesTyped DEF FindName, FindMail, Hash, Connect, Begin, Enrich, Fail,
       Querying, InTransaction, Status
  <2> QED BY <1>2, <1>a, <2>1 DEF FindName, FindMail, Hash, Connect, Begin, Enrich, Fail
<1>3. ASSUME NEW r \in Requests, InsertUser(r)
      PROVE  TypeData'
  <2>1. CASE UNCHANGED users /\ Answer(r, "conflict")
    BY <1>3, <1>a, <2>1, MovesTyped DEF InsertUser, Status
  <2>2. ASSUME NEW u \in Ids,
               users' = [users EXCEPT ![u] = [name |-> req[r].name, mail |-> req[r].mail]],
               \/ req' = [req EXCEPT ![r] = [@ EXCEPT !.pc = "reload", !.user = u]]
               \/ req' = [req EXCEPT ![r] = [@ EXCEPT !.pc = "answer", !.user = u,
                                                      !.status = "error"]]
        PROVE  TypeData'
    <3>1. users' \in [Ids -> Account]
      BY <1>a, <2>2 DEF Account, Request
    <3>2. Slots
      <4>1. /\ [req[r] EXCEPT !.pc = "reload", !.user = u] \in Request
            /\ [req[r] EXCEPT !.pc = "answer", !.user = u, !.status = "error"] \in Request
        BY <1>a DEF Request, Stage, Querying, Status
      <4> QED BY <1>a, <2>2, <4>1
    <3> QED BY <1>3, <1>a, <3>1, <3>2 DEF InsertUser
  <2> QED BY <1>3, <2>1, <2>2 DEF InsertUser
<1>4. ASSUME NEW r \in Requests, Reload(r) \/ FindUuid(r)
      PROVE  TypeData'
  <2>1. CASE req' = [req EXCEPT ![r] = [@ EXCEPT !.pc = "connect", !.left = req[r].roles]]
    <3>1. [req[r] EXCEPT !.pc = "connect", !.left = req[r].roles] \in Request
      BY <1>a DEF Request, Stage
    <3> QED BY <1>4, <1>a, <2>1, <3>1 DEF Reload, FindUuid
  <2>2. CASE Answer(r, "notFound") /\ FindUuid(r)
    BY <1>a, <2>2, MovesTyped DEF FindUuid, Status
  <2> QED BY <1>4, <2>1, <2>2 DEF Reload, FindUuid
<1>5. ASSUME NEW r \in Requests, FindRole(r)
      PROVE  TypeData'
  <2>1. PICK role \in req[r].left :
          \/ Answer(r, "invalid")
          \/ req' = [req EXCEPT ![r] = [@ EXCEPT
               !.left = req[r].left \ {role},
               !.pc = IF req[r].left = {role} THEN "findUuid" ELSE "findRole"]]
    BY <1>5 DEF FindRole
  <2>2. Slots
    <3>1. CASE Answer(r, "invalid")
      BY <3>1, MovesTyped DEF Status
    <3> DEFINE q == [req[r] EXCEPT
                       !.left = req[r].left \ {role},
                       !.pc = IF req[r].left = {role} THEN "findUuid" ELSE "findRole"]
    <3>2. q \in Request
      BY <1>a DEF Request, Stage, Querying
    <3>3. Answer(r, "invalid") \/ req' = [req EXCEPT ![r] = q]
      BY <2>1
    <3> HIDE DEF q
    <3> QED BY <1>a, <3>1, <3>2, <3>3
  <2> QED BY <1>5, <1>a, <2>2 DEF FindRole
<1>6. ASSUME NEW r \in Requests, DeleteRoles(r)
      PROVE  TypeData'
  <2>1. roleRows[req[r].user] \in SUBSET Roles
    BY <1>6, <1>a DEF DeleteRoles, SlotsMatch, SlotInv, InTransaction, Request
  <2>2. Slots
    <3>1. [req[r] EXCEPT !.pc = "insertRole", !.deleted = roleRows[req[r].user]] \in Request
      BY <1>a, <2>1 DEF Request, Stage, InTransaction
    <3> QED BY <1>6, <1>a, <3>1 DEF DeleteRoles
  <2> QED BY <1>6, <1>a, <2>2 DEF DeleteRoles
<1>7. ASSUME NEW r \in Requests, InsertRole(r)
      PROVE  TypeData'
  <2>1. PICK role \in req[r].left :
          req' = [req EXCEPT ![r] = [@ EXCEPT
            !.inserted = req[r].inserted \cup ({role} \cap catalogue),
            !.left = req[r].left \ {role},
            !.pc = IF req[r].left = {role} THEN "commit" ELSE "insertRole"]]
    BY <1>7 DEF InsertRole
  <2>2. Slots
    <3> DEFINE q == [req[r] EXCEPT
                       !.inserted = req[r].inserted \cup ({role} \cap catalogue),
                       !.left = req[r].left \ {role},
                       !.pc = IF req[r].left = {role} THEN "commit" ELSE "insertRole"]
    <3>1. q \in Request
      BY <1>a DEF Request, Stage, InTransaction
    <3>2. req' = [req EXCEPT ![r] = q]
      BY <2>1
    <3> HIDE DEF q
    <3> QED BY <1>a, <3>1, <3>2
  <2> QED BY <1>7, <1>a, <2>2 DEF InsertRole
<1>8. ASSUME NEW r \in Requests, NEW stage \in {"enrich", "rollback"}, EndTransaction(r, stage)
      PROVE  Slots /\ locks' \in SUBSET Requests
  <2>1. [req[r] EXCEPT !.pc = stage, !.deleted = {}, !.inserted = {}] \in Request
    BY <1>8, <1>a DEF Request, Stage, InTransaction, Querying
  <2> QED BY <1>8, <1>a, <2>1 DEF EndTransaction
<1>9. ASSUME NEW r \in Requests, DeadlockVictim(r) \/ Commit(r)
      PROVE  TypeData'
  <2>1. Slots /\ locks' \in SUBSET Requests
    BY <1>8, <1>9 DEF DeadlockVictim, Commit
  <2>2. roleRows' \in [Ids -> SUBSET Roles]
    <3>1. CASE Commit(r)
      <4>1. req[r].user \in Ids
        BY <1>a, <3>1 DEF Commit, SlotsMatch, SlotInv, InTransaction, Request
      <4>2. Written(r) \in SUBSET Roles
        BY <1>a, <4>1 DEF Written, Request
      <4> QED BY <1>a, <3>1, <4>2 DEF Commit, Publish
    <3>2. CASE DeadlockVictim(r)
      BY <1>a, <3>2 DEF DeadlockVictim
    <3> QED BY <1>9, <3>1, <3>2
  <2> QED BY <1>9, <1>a, <2>1, <2>2 DEF DeadlockVictim, Commit
<1>10. ASSUME NEW r \in Requests, Rollback(r)
       PROVE  TypeData'
  <2>1. [req[r] EXCEPT !.pc = "answer", !.status = "error", !.deleted = {}, !.inserted = {}]
          \in Request
    BY <1>a DEF Request, Stage, Status
  <2> QED BY <1>10, <1>a, <2>1 DEF Rollback
<1>11. ASSUME NEW r \in Requests, Respond(r)
       PROVE  TypeData'
  BY <1>11, <1>a, <1>b DEF Respond
<1>12. CASE Crash
  BY <1>12, <1>a, <1>b DEF Crash
<1>13. CASE UNCHANGED vars \/ \E role \in Roles : CreateRole(role)
  BY <1>13, <1>a DEF vars, CreateRole
<1> QED
  BY <1>1, <1>2, <1>3, <1>4, <1>5, <1>6, <1>7, <1>9, <1>10, <1>11, <1>12, <1>13
     DEF Next, Step
-----------------------------------------------------------------------------
(* What the moves do to the fields of a slot.                              *)

SameTask(r) ==
  /\ req'[r].op = req[r].op /\ req'[r].roles = req[r].roles
  /\ req'[r].name = req[r].name /\ req'[r].mail = req[r].mail
SameWork(r) ==
  /\ req'[r].user = req[r].user /\ req'[r].left = req[r].left
  /\ req'[r].deleted = req[r].deleted /\ req'[r].inserted = req[r].inserted

\* Goto changes the stage only.
LEMMA GotoFields ==
  ASSUME TypeOK, NEW r \in Requests, NEW stage, Goto(r, stage)
  PROVE  /\ SameTask(r) /\ SameWork(r)
         /\ req'[r].pc = stage /\ req'[r].status = req[r].status
BY DEF TypeOK, Request, Goto, SameTask, SameWork

\* Answer changes the stage and the status.
LEMMA AnswerFields ==
  ASSUME TypeOK, NEW r \in Requests, NEW s, Answer(r, s)
  PROVE  /\ SameTask(r) /\ SameWork(r)
         /\ req'[r].pc = "answer" /\ req'[r].status = s
BY DEF TypeOK, Request, Answer, SameTask, SameWork

\* The end of a transaction forgets what it wrote.
LEMMA EndFields ==
  ASSUME TypeOK, NEW r \in Requests, NEW stage, EndTransaction(r, stage)
  PROVE  /\ SameTask(r) /\ req'[r].user = req[r].user /\ req'[r].left = req[r].left
         /\ req'[r].pc = stage /\ req'[r].status = req[r].status
         /\ req'[r].deleted = {} /\ req'[r].inserted = {} /\ r \notin locks'
BY DEF TypeOK, Request, EndTransaction, SameTask

\* The other actions that write several fields.
LEMMA RollbackFields ==
  ASSUME TypeOK, NEW r \in Requests, Rollback(r)
  PROVE  /\ SameTask(r) /\ req'[r].user = req[r].user
         /\ req'[r].pc = "answer" /\ req'[r].status = "error"
         /\ req'[r].deleted = {} /\ req'[r].inserted = {} /\ r \notin locks'
BY DEF TypeOK, Request, Rollback, SameTask

\* The INSERT into USERS fails on a duplicate, or makes the account of a new id.
LEMMA InsertUserFields ==
  ASSUME TypeOK, NEW r \in Requests, InsertUser(r)
  PROVE  /\ SameTask(r) /\ req'[r].left = req[r].left
         /\ req'[r].deleted = req[r].deleted /\ req'[r].inserted = req[r].inserted
         /\ req[r].pc = "insertUser" /\ locks' = locks
         /\ \/ /\ req'[r].pc = "answer" /\ req'[r].status = "conflict"
               /\ req'[r].user = req[r].user /\ users' = users
               /\ Duplicate(req[r].name, req[r].mail)
            \/ /\ \/ req'[r].pc = "reload" /\ req'[r].status = req[r].status
                  \/ req'[r].pc = "answer" /\ req'[r].status = "error"
               /\ req'[r].user \in Ids /\ ~Exists(req'[r].user)
               /\ users' = [users EXCEPT ![req'[r].user] =
                              [name |-> req[r].name, mail |-> req[r].mail]]
               /\ ~Duplicate(req[r].name, req[r].mail)
<1>1. CASE Answer(r, "conflict") /\ Duplicate(req[r].name, req[r].mail) /\ users' = users
  BY <1>1, AnswerFields DEF InsertUser, SameWork
<1>2. ASSUME NEW u \in Ids, ~Exists(u),
             users' = [users EXCEPT ![u] = [name |-> req[r].name, mail |-> req[r].mail]],
             ~Duplicate(req[r].name, req[r].mail),
             req' = [req EXCEPT ![r] = [@ EXCEPT !.pc = "reload", !.user = u]]
      PROVE  /\ SameTask(r) /\ req'[r].left = req[r].left
             /\ req'[r].deleted = req[r].deleted /\ req'[r].inserted = req[r].inserted
             /\ req'[r].pc = "reload" /\ req'[r].status = req[r].status /\ req'[r].user = u
  BY <1>2 DEF TypeOK, Request, SameTask
<1>3. ASSUME NEW u \in Ids, ~Exists(u),
             users' = [users EXCEPT ![u] = [name |-> req[r].name, mail |-> req[r].mail]],
             ~Duplicate(req[r].name, req[r].mail),
             req' = [req EXCEPT ![r] = [@ EXCEPT !.pc = "answer", !.user = u,
                                                 !.status = "error"]]
      PROVE  /\ SameTask(r) /\ req'[r].left = req[r].left
             /\ req'[r].deleted = req[r].deleted /\ req'[r].inserted = req[r].inserted
             /\ req'[r].pc = "answer" /\ req'[r].status = "error" /\ req'[r].user = u
  BY <1>3 DEF TypeOK, Request, SameTask
<1> HIDE DEF SameTask
<1>4. CASE \E u \in Ids :
             /\ ~Exists(u)
             /\ users' = [users EXCEPT ![u] = [name |-> req[r].name, mail |-> req[r].mail]]
             /\ ~Duplicate(req[r].name, req[r].mail)
             /\ \/ req' = [req EXCEPT ![r] = [@ EXCEPT !.pc = "reload", !.user = u]]
                \/ req' = [req EXCEPT ![r] = [@ EXCEPT !.pc = "answer", !.user = u,
                                                       !.status = "error"]]
  <2>1. PICK u \in Ids :
             /\ ~Exists(u)
             /\ users' = [users EXCEPT ![u] = [name |-> req[r].name, mail |-> req[r].mail]]
             /\ ~Duplicate(req[r].name, req[r].mail)
             /\ \/ req' = [req EXCEPT ![r] = [@ EXCEPT !.pc = "reload", !.user = u]]
                \/ req' = [req EXCEPT ![r] = [@ EXCEPT !.pc = "answer", !.user = u,
                                                       !.status = "error"]]
    BY <1>4
  <2>2. req[r].pc = "insertUser" /\ locks' = locks
    BY DEF InsertUser
  <2>3. CASE req' = [req EXCEPT ![r] = [@ EXCEPT !.pc = "reload", !.user = u]]
    <3>1. /\ SameTask(r) /\ req'[r].left = req[r].left
          /\ req'[r].deleted = req[r].deleted /\ req'[r].inserted = req[r].inserted
          /\ req'[r].pc = "reload" /\ req'[r].status = req[r].status /\ req'[r].user = u
      BY <1>2, <2>1, <2>3
    <3> QED BY <2>1, <2>2, <3>1
  <2>4. CASE req' = [req EXCEPT ![r] = [@ EXCEPT !.pc = "answer", !.user = u,
                                                 !.status = "error"]]
    <3>1. /\ SameTask(r) /\ req'[r].left = req[r].left
          /\ req'[r].deleted = req[r].deleted /\ req'[r].inserted = req[r].inserted
          /\ req'[r].pc = "answer" /\ req'[r].status = "error" /\ req'[r].user = u
      BY <1>3, <2>1, <2>4
    <3> QED BY <2>1, <2>2, <3>1
  <2> QED BY <2>1, <2>3, <2>4
<1> QED BY <1>1, <1>4 DEF InsertUser

\* The SELECT before the transaction starts its loop over the roles afresh.
LEMMA LookupFields ==
  ASSUME TypeOK, NEW r \in Requests,
         req' = [req EXCEPT ![r] = [@ EXCEPT !.pc = "connect", !.left = req[r].roles]]
  PROVE  /\ SameTask(r) /\ req'[r].user = req[r].user
         /\ req'[r].left = req[r].roles /\ req'[r].pc = "connect"
         /\ req'[r].deleted = req[r].deleted /\ req'[r].inserted = req[r].inserted
         /\ req'[r].status = req[r].status
BY DEF TypeOK, Request, SameTask

\* One turn of the loop that looks the roles up.
LEMMA FindRoleFields ==
  ASSUME TypeOK, NEW r \in Requests, FindRole(r)
  PROVE  \/ Answer(r, "invalid")
         \/ /\ SameTask(r) /\ req'[r].user = req[r].user
            /\ req'[r].deleted = req[r].deleted /\ req'[r].inserted = req[r].inserted
            /\ req'[r].status = req[r].status
            /\ \E role \in req[r].left \cap catalogue :
                 /\ req'[r].left = req[r].left \ {role}
                 /\ req'[r].pc = IF req[r].left = {role} THEN "findUuid" ELSE "findRole"
<1>1. PICK role \in req[r].left :
        \/ Answer(r, "invalid")
        \/ /\ role \in catalogue
           /\ req' = [req EXCEPT ![r] = [@ EXCEPT
                !.left = req[r].left \ {role},
                !.pc = IF req[r].left = {role} THEN "findUuid" ELSE "findRole"]]
  BY DEF FindRole
<1>2. CASE /\ role \in catalogue
           /\ req' = [req EXCEPT ![r] = [@ EXCEPT
                !.left = req[r].left \ {role},
                !.pc = IF req[r].left = {role} THEN "findUuid" ELSE "findRole"]]
  <2>1. /\ SameTask(r) /\ req'[r].user = req[r].user
        /\ req'[r].deleted = req[r].deleted /\ req'[r].inserted = req[r].inserted
        /\ req'[r].status = req[r].status /\ req'[r].left = req[r].left \ {role}
    BY <1>2 DEF TypeOK, Request, SameTask
  <2>2. req'[r].pc = IF req[r].left = {role} THEN "findUuid" ELSE "findRole"
    BY <1>2 DEF TypeOK, Request
  <2> QED BY <1>2, <2>1, <2>2
<1> QED BY <1>1, <1>2

\* The DELETE notes what was committed.
LEMMA DeleteRolesFields ==
  ASSUME TypeOK, NEW r \in Requests, DeleteRoles(r)
  PROVE  /\ SameTask(r) /\ req'[r].user = req[r].user /\ req'[r].left = req[r].left
         /\ req'[r].pc = "insertRole" /\ r \in locks'
         /\ req'[r].deleted = roleRows[req[r].user]
         /\ req'[r].inserted = req[r].inserted /\ req'[r].status = req[r].status
BY DEF TypeOK, Request, DeleteRoles, SameTask

\* One turn of the loop of INSERTs.
LEMMA InsertRoleFields ==
  ASSUME TypeOK, NEW r \in Requests, InsertRole(r)
  PROVE  /\ SameTask(r) /\ req'[r].user = req[r].user
         /\ req'[r].deleted = req[r].deleted /\ req'[r].status = req[r].status
         /\ \E role \in req[r].left :
              /\ req'[r].left = req[r].left \ {role}
              /\ req'[r].inserted = req[r].inserted \cup ({role} \cap catalogue)
              /\ req'[r].pc = IF req[r].left = {role} THEN "commit" ELSE "insertRole"
BY DEF TypeOK, Request, InsertRole, SameTask
-----------------------------------------------------------------------------
(* A step keeps every part of IInv.                                        *)

\* Every step keeps SlotsMatch.
LEMMA SlotStep ==
  ASSUME TypeOK, SlotsMatch, [Next]_vars
  PROVE  SlotsMatch'
<1> SUFFICES ASSUME NEW r \in Requests
             PROVE  SlotInv(req'[r], r, locks', catalogue')
  BY TablesChange DEF SlotsMatch
<1> USE DEF InTransaction, SameTask, SameWork
<1>1. /\ SlotInv(req[r], r, locks, catalogue)
      /\ \A L : r \notin L => SlotInv(NoRequest, r, L, catalogue')
      /\ Citizen \in catalogue
  BY DEF SlotsMatch, SlotInv, NoRequest
<1>2. catalogue \subseteq catalogue'
  BY TablesChange
<1>3. CASE Arrive(r)
  <2>1. r \notin locks' /\ catalogue' = catalogue /\ req[r].pc = "idle" /\ locks' = locks
    BY <1>1, <1>3 DEF Arrive, ArriveRegister, ArriveUpdateRoles, SlotInv
  <2>2. ASSUME NEW n \in Names, NEW m \in Mails, ArriveRegister(r, n, m)
        PROVE  SlotInv(req'[r], r, locks', catalogue')
    <3>1. req'[r] = [NoRequest EXCEPT !.pc = "findName", !.op = "register",
                               !.name = n, !.mail = m, !.roles = {Citizen}]
      BY <2>2 DEF ArriveRegister, TypeOK
    <3> QED BY <2>1, <3>1 DEF SlotInv, NoRequest
  <2>3. ASSUME NEW u \in Ids \cup {NoValue}, NEW R \in (SUBSET Roles) \ {{}},
               ArriveUpdateRoles(r, u, R)
        PROVE  SlotInv(req'[r], r, locks', catalogue')
    <3>1. req'[r] = [NoRequest EXCEPT !.pc = "findRole", !.op = "updateRoles",
                               !.user = u, !.roles = R, !.left = R]
      BY <2>3 DEF ArriveUpdateRoles, TypeOK
    <3>2. R # {}
      BY <2>3
    <3> QED BY <2>1, <3>1, <3>2 DEF SlotInv, NoRequest
  <2> QED BY <1>3, <2>1, <2>2, <2>3 DEF Arrive
<1>4. CASE FindName(r)
  BY <1>1, <1>2, <1>4, GotoFields, AnswerFields DEF FindName, SlotInv
<1>5. CASE FindMail(r)
  BY <1>1, <1>2, <1>5, GotoFields, AnswerFields DEF FindMail, SlotInv
<1>6. CASE Hash(r)
  BY <1>1, <1>2, <1>6, GotoFields DEF Hash, SlotInv
<1>7. CASE InsertUser(r)
  <2>1. /\ SameTask(r) /\ req[r].pc = "insertUser" /\ locks' = locks /\ r \notin locks
        /\ req[r].op = "register" /\ req'[r].left = req[r].left
        /\ req'[r].deleted = req[r].deleted /\ req'[r].inserted = req[r].inserted
    BY <1>1, <1>7, InsertUserFields DEF SlotInv
  <2>2. \/ req'[r].pc = "answer" /\ req'[r].status \in {"conflict", "error"}
        \/ /\ req'[r].pc = "reload" /\ req'[r].status = req[r].status
           /\ req'[r].user # NoValue
    BY <1>7, InsertUserFields, AccountsAssumption
  <2>3. req[r].roles = {Citizen} /\ catalogue' = catalogue
    BY <1>1, <1>7, <2>1 DEF SlotInv, InsertUser
  <2> QED BY <1>1, <2>1, <2>2, <2>3 DEF SlotInv
<1>8. CASE Reload(r)
  BY <1>1, <1>2, <1>8, LookupFields DEF Reload, SlotInv
<1>9. CASE FindRole(r)
  <2>1. CASE Answer(r, "invalid")
    BY <1>1, <1>2, <1>9, <2>1, AnswerFields DEF FindRole, SlotInv
  <2>2. CASE ~Answer(r, "invalid")
    <3>1. PICK role \in req[r].left \cap catalogue :
            /\ SameTask(r) /\ req'[r].user = req[r].user
            /\ req'[r].deleted = req[r].deleted /\ req'[r].inserted = req[r].inserted
            /\ req'[r].status = req[r].status
            /\ req'[r].left = req[r].left \ {role}
            /\ req'[r].pc = IF req[r].left = {role} THEN "findUuid" ELSE "findRole"
      BY <1>9, <2>2, FindRoleFields
    <3>2. /\ req[r].pc = "findRole" /\ r \notin locks /\ UNCHANGED <<catalogue, locks>>
          /\ req[r].roles \ req[r].left \subseteq catalogue
      BY <1>1, <1>9 DEF FindRole, SlotInv
    <3>3. CASE req[r].left = {role}
      BY <1>1, <3>1, <3>2, <3>3 DEF SlotInv
    <3>4. CASE req[r].left # {role}
      BY <1>1, <3>1, <3>2, <3>4 DEF SlotInv
    <3> QED BY <3>3, <3>4
  <2> QED BY <2>1, <2>2
<1>10. CASE FindUuid(r)
  <2>1. CASE Answer(r, "notFound")
    BY <1>1, <1>10, <2>1, AnswerFields DEF FindUuid, SlotInv
  <2>2. CASE /\ req[r].user # NoValue
             /\ req' = [req EXCEPT ![r] = [@ EXCEPT !.pc = "connect", !.left = req[r].roles]]
    <3>1. /\ SameTask(r) /\ req'[r].user = req[r].user
          /\ req'[r].left = req[r].roles /\ req'[r].pc = "connect"
          /\ req'[r].deleted = req[r].deleted /\ req'[r].inserted = req[r].inserted
          /\ req'[r].status = req[r].status
      BY <2>2, LookupFields
    <3>2. /\ req[r].pc = "findUuid" /\ r \notin locks /\ UNCHANGED <<catalogue, locks>>
          /\ req[r].roles \subseteq catalogue
      BY <1>1, <1>10 DEF FindUuid, SlotInv
    <3> QED BY <1>1, <2>2, <3>1, <3>2 DEF SlotInv
  <2> QED BY <1>10, <2>1, <2>2 DEF FindUuid
<1>11. CASE Connect(r)
  BY <1>1, <1>2, <1>11, GotoFields DEF Connect, SlotInv
<1>12. CASE Begin(r)
  BY <1>1, <1>2, <1>12, GotoFields DEF Begin, SlotInv
<1>13. CASE DeleteRoles(r)
  BY <1>1, <1>2, <1>13, DeleteRolesFields DEF DeleteRoles, SlotInv
<1>14. CASE InsertRole(r)
  <2>1. PICK role \in req[r].left :
          /\ req'[r].left = req[r].left \ {role}
          /\ req'[r].inserted = req[r].inserted \cup ({role} \cap catalogue)
          /\ req'[r].pc = IF req[r].left = {role} THEN "commit" ELSE "insertRole"
    BY <1>14, InsertRoleFields
  <2>2. /\ SameTask(r) /\ req'[r].user = req[r].user
        /\ req'[r].deleted = req[r].deleted /\ req'[r].status = req[r].status
        /\ req[r].pc = "insertRole" /\ r \in locks /\ UNCHANGED <<catalogue, locks>>
    BY <1>1, <1>14, InsertRoleFields DEF InsertRole, SlotInv
  <2>3. /\ req[r].inserted \cup req[r].left = req[r].roles
        /\ req[r].roles \subseteq catalogue
    BY <1>1, <2>2 DEF SlotInv
  <2>4. CASE req[r].left = {role}
    BY <1>1, <2>1, <2>2, <2>3, <2>4 DEF SlotInv
  <2>5. CASE req[r].left # {role}
    BY <1>1, <2>1, <2>2, <2>3, <2>5 DEF SlotInv
  <2> QED BY <2>4, <2>5
<1>15. CASE DeadlockVictim(r)
  BY <1>1, <1>2, <1>15, EndFields DEF DeadlockVictim, SlotInv
<1>16. CASE Commit(r)
  BY <1>1, <1>2, <1>16, EndFields DEF Commit, SlotInv
<1>17. CASE Rollback(r)
  BY <1>1, <1>2, <1>17, RollbackFields DEF Rollback, SlotInv
<1>18. CASE Enrich(r)
  BY <1>1, <1>2, <1>18, AnswerFields DEF Enrich, SlotInv
<1>19. CASE Respond(r)
  <2>1. req'[r] = NoRequest /\ r \notin locks'
    BY <1>1, <1>19 DEF Respond, TypeOK, SlotInv
  <2> QED BY <1>1, <2>1
<1>20. CASE Fail(r)
  BY <1>1, <1>2, <1>20, GotoFields, AnswerFields DEF Fail, Querying, SlotInv
<1>21. CASE req'[r] = NoRequest /\ locks' = {}
  BY <1>1, <1>21
<1>22. CASE req'[r] = req[r] /\ (r \in locks' <=> r \in locks)
  BY <1>1, <1>2, <1>22 DEF SlotInv
<1> QED
  BY <1>3, <1>4, <1>5, <1>6, <1>7, <1>8, <1>9, <1>10, <1>11, <1>12, <1>13, <1>14, <1>15,
     <1>16, <1>17, <1>18, <1>19, <1>20, <1>21, <1>22, SlotChange DEF Step

\* A request keeps its task and its user, but when it arrives, inserts its
\* account, or ends.
LEMMA TaskChange ==
  ASSUME TypeOK, [Next]_vars, NEW r \in Requests
  PROVE  \/ req'[r] = NoRequest
         \/ Arrive(r)
         \/ InsertUser(r)
         \/ SameTask(r) /\ req'[r].user = req[r].user
<1> USE DEF SameWork
<1>1. CASE FindName(r) \/ FindMail(r) \/ Hash(r) \/ Connect(r) \/ Begin(r) \/ Enrich(r) \/ Fail(r)
  BY <1>1, GotoFields, AnswerFields DEF FindName, FindMail, Hash, Connect, Begin, Enrich, Fail
<1>2. CASE Reload(r) \/ FindUuid(r)
  BY <1>2, LookupFields, AnswerFields DEF Reload, FindUuid
<1>3. CASE FindRole(r)
  BY <1>3, FindRoleFields, AnswerFields
<1>4. CASE DeleteRoles(r) \/ InsertRole(r) \/ Rollback(r)
  BY <1>4, DeleteRolesFields, InsertRoleFields, RollbackFields
<1>5. CASE DeadlockVictim(r) \/ Commit(r)
  BY <1>5, EndFields DEF DeadlockVictim, Commit
<1>6. CASE Respond(r)
  BY <1>6 DEF Respond, TypeOK
<1>7. CASE req'[r] = req[r]
  BY <1>7 DEF SameTask
<1> QED BY <1>1, <1>2, <1>3, <1>4, <1>5, <1>6, <1>7, SlotChange DEF Step

\* A transaction that holds locks has held them, or takes them with its DELETE;
\* only its INSERTs change what it has written.
LEMMA HolderChange ==
  ASSUME TypeOK, SlotsMatch, [Next]_vars, NEW r \in locks'
  PROVE  /\ r \in Requests /\ req'[r].user = req[r].user
         /\ \/ DeleteRoles(r)
            \/ InsertRole(r)
            \/ r \in locks /\ UNCHANGED <<req[r].deleted, req[r].inserted>>
<1>1. r \in Requests
  BY TypeStep DEF TypeData
<1>2. SlotInv(req[r], r, locks, catalogue)
  BY <1>1 DEF SlotsMatch
<1> USE DEF SameWork
<1>3. CASE Arrive(r)
  BY <1>2, <1>3 DEF Arrive, ArriveRegister, ArriveUpdateRoles, SlotInv
<1>4. CASE FindName(r) \/ FindMail(r) \/ Hash(r) \/ InsertUser(r) \/ Reload(r)
  BY <1>2, <1>4 DEF FindName, FindMail, Hash, InsertUser, Reload, SlotInv
<1>5. CASE FindRole(r) \/ FindUuid(r) \/ Connect(r) \/ Begin(r) \/ Enrich(r) \/ Respond(r)
  BY <1>2, <1>5 DEF FindRole, FindUuid, Connect, Begin, Enrich, Respond, SlotInv
<1>6. CASE DeleteRoles(r) \/ InsertRole(r)
  BY <1>1, <1>6, DeleteRolesFields, InsertRoleFields
<1>7. CASE DeadlockVictim(r) \/ Commit(r) \/ Rollback(r)
  BY <1>7 DEF DeadlockVictim, Commit, Rollback, EndTransaction
<1>8. CASE Fail(r)
  <2>1. r \in locks
    BY <1>8 DEF Fail
  <2>2. Goto(r, "rollback")
    BY <1>2, <1>8, <2>1 DEF Fail, SlotInv, Querying, InTransaction
  <2> QED BY <1>1, <2>1, <2>2, GotoFields
<1>9. CASE req'[r] = req[r] /\ r \in locks
  BY <1>1, <1>9
<1> QED
  BY <1>1, <1>3, <1>4, <1>5, <1>6, <1>7, <1>8, <1>9, SlotChange DEF Step

\* What a DELETE or an INSERT of r leaves alone.
LEMMA WriteAlone ==
  ASSUME TypeOK, NEW r \in Requests, DeleteRoles(r) \/ InsertRole(r)
  PROVE  /\ roleRows' = roleRows /\ locks' \subseteq locks \cup {r}
         /\ \A s \in Requests \ {r} : req'[s] = req[s]
BY DEF TypeOK, DeleteRoles, InsertRole

\* Of two transactions past their DELETE on one user, none has written.
LEMMA OneWriterStep ==
  ASSUME TypeOK, SlotsMatch, OneWriter, DeletedIsCurrent, [Next]_vars
  PROVE  OneWriter'
<1> SUFFICES ASSUME NEW r \in locks', NEW s \in locks', r # s, req'[r].user = req'[s].user
             PROVE  req'[r].deleted = {} /\ req'[r].inserted = {}
  BY DEF OneWriter, HasWritten
<1>1. /\ r \in Requests /\ s \in Requests
      /\ req[r].user = req[s].user
  BY HolderChange
<1>2. CASE DeleteRoles(r)
  <2>1. s \in locks /\ ~HasWritten(s)
    BY <1>1, <1>2, WriteAlone DEF DeleteRoles, Rivals
  <2>2. roleRows[req[r].user] = {}
    BY <1>1, <2>1 DEF DeletedIsCurrent, HasWritten
  <2>3. req[r].inserted = {}
    BY <1>1, <1>2 DEF SlotsMatch, SlotInv, DeleteRoles
  <2> QED BY <1>1, <1>2, <2>2, <2>3, DeleteRolesFields
<1>3. CASE InsertRole(r)
  BY <1>1, <1>3, WriteAlone DEF InsertRole, Rivals
<1>4. CASE DeleteRoles(s)
  <2>1. /\ r \in locks /\ ~HasWritten(r)
        /\ req'[r] = req[r]
    BY <1>1, <1>4, WriteAlone DEF DeleteRoles, Rivals
  <2> QED BY <2>1 DEF HasWritten
<1>5. CASE InsertRole(s)
  BY <1>1, <1>5, WriteAlone DEF InsertRole, Rivals
<1>6. CASE ~(DeleteRoles(r) \/ InsertRole(r) \/ DeleteRoles(s) \/ InsertRole(s))
  BY <1>1, <1>6, HolderChange DEF OneWriter, HasWritten
<1> QED BY <1>2, <1>3, <1>4, <1>5, <1>6

\* A commit replaces the whole of its user's roles by those asked for.
LEMMA WholeCommit ==
  ASSUME TypeOK, SlotsMatch, DeletedIsCurrent, NEW r \in Requests, Commit(r)
  PROVE  /\ req[r].pc = "commit" /\ r \in locks /\ r \notin locks'
         /\ req[r].user \in Ids /\ req[r].roles # {} /\ HasWritten(r)
         /\ roleRows' = [roleRows EXCEPT ![req[r].user] = req[r].roles]
<1>1. /\ req[r].pc = "commit" /\ r \in locks /\ r \notin locks'
      /\ req[r].user # NoValue /\ req[r].roles # {} /\ req[r].inserted = req[r].roles
  BY EndFields DEF Commit, SlotsMatch, SlotInv, InTransaction
<1>2. req[r].user \in Ids
  BY <1>1 DEF TypeOK, Request
<1>3. Written(r) = req[r].roles
  BY <1>1 DEF Written, DeletedIsCurrent
<1> QED BY <1>1, <1>2, <1>3 DEF Commit, Publish, HasWritten

\* What a transaction deleted is still what is committed.
LEMMA DeletedIsCurrentStep ==
  ASSUME TypeOK, SlotsMatch, OneWriter, DeletedIsCurrent, [Next]_vars
  PROVE  DeletedIsCurrent'
<1> SUFFICES ASSUME NEW r \in locks'
             PROVE  req'[r].deleted = roleRows'[req'[r].user]
  BY DEF DeletedIsCurrent
<1>1. r \in Requests /\ req'[r].user = req[r].user
  BY HolderChange
<1>2. CASE DeleteRoles(r)
  BY <1>1, <1>2, DeleteRolesFields, WriteAlone
<1>3. CASE InsertRole(r)
  <2>1. r \in locks
    BY <1>1, <1>3 DEF SlotsMatch, SlotInv, InsertRole
  <2> QED BY <1>1, <1>3, <2>1, InsertRoleFields, WriteAlone DEF DeletedIsCurrent
<1>4. CASE r \in locks /\ UNCHANGED <<req[r].deleted, req[r].inserted>>
  <2>1. CASE roleRows' = roleRows
    BY <1>1, <1>4, <2>1 DEF DeletedIsCurrent
  <2>2. ASSUME NEW s \in Requests, Commit(s)
        PROVE  roleRows'[req[r].user] = roleRows[req[r].user]
    <3>1. s \in locks /\ s # r /\ HasWritten(s)
      BY <2>2, WholeCommit
    <3>2. req[s].user # req[r].user
      BY <1>4, <3>1 DEF OneWriter
    <3>3. req[r].user \in Ids
      BY <1>1, <1>4 DEF SlotsMatch, SlotInv, InTransaction, TypeOK, Request
    <3> QED
      BY <2>2, <3>2, <3>3, WholeCommit DEF TypeOK
  <2> QED BY <1>1, <1>4, <2>1, <2>2, TablesChange DEF DeletedIsCurrent
<1> QED BY <1>2, <1>3, <1>4, HolderChange

\* A user that has roles keeps some.
LEMMA RolesNeverVanish ==
  ASSUME TypeOK, SlotsMatch, DeletedIsCurrent, [Next]_vars,
         NEW u \in Ids, roleRows[u] # {}
  PROVE  roleRows'[u] # {}
<1>1. ASSUME NEW r \in Requests, Commit(r)
      PROVE  roleRows'[u] # {}
  BY <1>1, WholeCommit DEF TypeOK
<1> QED BY <1>1, TablesChange

\* A registration past its INSERT works on the row it inserted.
LEMMA RegistersItselfStep ==
  ASSUME TypeOK, SlotsMatch, RegistersItself, AccountsWhole, [Next]_vars
  PROVE  RegistersItself'
<1> SUFFICES ASSUME NEW r \in Requests, req'[r].op = "register"
             PROVE  /\ req'[r].name \in Names /\ req'[r].mail \in Mails
                    /\ req'[r].user # NoValue =>
                         users'[req'[r].user] = [name |-> req'[r].name, mail |-> req'[r].mail]
  BY DEF RegistersItself
<1>1. CASE req'[r] = NoRequest
  BY <1>1 DEF NoRequest
<1>2. CASE Arrive(r)
  <2>1. ASSUME NEW n \in Names, NEW m \in Mails, ArriveRegister(r, n, m)
        PROVE  req'[r].name = n /\ req'[r].mail = m /\ req'[r].user = NoValue
    BY <2>1 DEF ArriveRegister, NoRequest, TypeOK
  <2>2. ASSUME NEW u, NEW R, ArriveUpdateRoles(r, u, R)
        PROVE  req'[r].op = "updateRoles"
    BY <2>2 DEF ArriveUpdateRoles, NoRequest, TypeOK
  <2> QED BY <1>2, <2>1, <2>2 DEF Arrive
<1>3. CASE InsertUser(r)
  <2>1. /\ SameTask(r) /\ req[r].name \in Names /\ req[r].mail \in Mails
    BY <1>3, InsertUserFields DEF SameTask, RegistersItself
  <2>2. CASE req'[r].user = req[r].user /\ users' = users
    BY <2>1, <2>2 DEF SameTask, RegistersItself
  <2>3. CASE /\ req'[r].user \in Ids
             /\ users' = [users EXCEPT ![req'[r].user] =
                            [name |-> req[r].name, mail |-> req[r].mail]]
    BY <2>1, <2>3 DEF SameTask, TypeOK
  <2> QED BY <1>3, <2>1, <2>2, <2>3, InsertUserFields DEF SameTask
<1>4. CASE SameTask(r) /\ req'[r].user = req[r].user
  <2>1. /\ req[r].name \in Names /\ req[r].mail \in Mails
        /\ req[r].user # NoValue =>
             users[req[r].user] = [name |-> req[r].name, mail |-> req[r].mail]
    BY <1>4 DEF SameTask, RegistersItself
  <2>2. ASSUME req[r].user # NoValue
        PROVE  users'[req[r].user] = users[req[r].user]
    <3>1. req[r].user \in Ids
      BY <2>2 DEF TypeOK, Request
    <3>2. Exists(req[r].user)
      BY <2>1, <2>2, AccountsAssumption DEF Exists
    <3> QED BY <3>1, <3>2, UsersGrow
  <2> QED BY <1>4, <2>1, <2>2 DEF SameTask
<1> QED BY <1>1, <1>2, <1>3, <1>4, TaskChange

\* What an INSERT into USERS inserts.
LEMMA InsertedRow ==
  ASSUME TypeOK, SlotsMatch, RegistersItself, NEW r \in Requests, InsertUser(r)
  PROVE  \/ users' = users
         \/ /\ req[r].name \in Names /\ req[r].mail \in Mails
            /\ \A v \in Ids : users[v].name # req[r].name /\ users[v].mail # req[r].mail
            /\ \E u \in Ids : users' = [users EXCEPT ![u] =
                                          [name |-> req[r].name, mail |-> req[r].mail]]
<1>1. req[r].op = "register"
  BY InsertUserFields DEF SlotsMatch, SlotInv
<1>2. req[r].name \in Names /\ req[r].mail \in Mails
  BY <1>1 DEF RegistersItself
<1> QED BY <1>2, InsertUserFields DEF Duplicate, NameTaken, MailTaken

\* An id has both a username and an address, or neither.
LEMMA AccountsWholeStep ==
  ASSUME TypeOK, SlotsMatch, RegistersItself, AccountsWhole, [Next]_vars
  PROVE  AccountsWhole'
<1>1. ASSUME NEW r \in Requests, InsertUser(r)
      PROVE  AccountsWhole'
  BY <1>1, InsertedRow DEF AccountsWhole, TypeOK
<1>2. CASE users' = users
  BY <1>2 DEF AccountsWhole
<1> QED BY <1>1, <1>2, TablesChange

\* No username and no address is given twice.
LEMMA OneAccountEachStep ==
  ASSUME TypeOK, SlotsMatch, RegistersItself, OneAccountEach, [Next]_vars
  PROVE  OneAccountEach'
<1>1. ASSUME NEW r \in Requests, InsertUser(r), users' # users
      PROVE  OneAccountEach'
  <2>1. PICK w \in Ids : users' = [users EXCEPT ![w] = [name |-> req[r].name,
                                                        mail |-> req[r].mail]]
    BY <1>1, InsertedRow
  <2>2. \A v \in Ids : users[v].name # req[r].name /\ users[v].mail # req[r].mail
    BY <1>1, InsertedRow
  <2>3. /\ \A v \in Ids \ {w} : users'[v] = users[v]
        /\ users'[w].name = req[r].name /\ users'[w].mail = req[r].mail
    BY <2>1 DEF TypeOK
  <2> QED BY <2>2, <2>3 DEF OneAccountEach, Exists
<1>2. CASE users' = users
  BY <1>2 DEF OneAccountEach, Exists
<1> QED BY <1>1, <1>2, TablesChange

\* How a request comes to the stage enrich, and to its status.
LEMMA StatusChange ==
  ASSUME TypeOK, SlotsMatch, [Next]_vars, NEW r \in Requests, req'[r] # req[r]
  PROVE  /\ req'[r].pc = "enrich" => Commit(r) /\ req'[r].user = req[r].user
         /\ req'[r].status = "created" =>
              Enrich(r) /\ req[r].op = "register" /\ SameTask(r) /\ SameWork(r)
         /\ req'[r].status = "conflict" =>
              /\ \/ FindName(r) /\ NameTaken(req[r].name)
                 \/ FindMail(r) /\ MailTaken(req[r].mail)
                 \/ InsertUser(r) /\ Duplicate(req[r].name, req[r].mail)
              /\ req[r].op = "register" /\ SameTask(r)
<1>1. SlotInv(req[r], r, locks, catalogue)
  BY DEF SlotsMatch
<1>2. CASE Arrive(r)
  <2>1. ASSUME NEW n, NEW m, ArriveRegister(r, n, m)
        PROVE  req'[r].pc = "findName" /\ req'[r].status = "none"
    BY <2>1 DEF ArriveRegister, NoRequest, TypeOK
  <2>2. ASSUME NEW u, NEW R, ArriveUpdateRoles(r, u, R)
        PROVE  req'[r].pc = "findRole" /\ req'[r].status = "none"
    BY <2>2 DEF ArriveUpdateRoles, NoRequest, TypeOK
  <2> QED BY <1>2, <2>1, <2>2 DEF Arrive
<1>3. CASE FindName(r)
  <2>1. req[r].op = "register" /\ req[r].status = "none"
    BY <1>1, <1>3 DEF FindName, SlotInv
  <2> QED BY <1>3, <2>1, GotoFields, AnswerFields DEF FindName
<1>4. CASE FindMail(r)
  <2>1. req[r].op = "register" /\ req[r].status = "none"
    BY <1>1, <1>4 DEF FindMail, SlotInv
  <2> QED BY <1>4, <2>1, GotoFields, AnswerFields DEF FindMail
<1>5. CASE Hash(r) \/ Connect(r) \/ Begin(r)
  BY <1>1, <1>5, GotoFields DEF Hash, Connect, Begin, SlotInv
<1>6. CASE InsertUser(r)
  BY <1>1, <1>6, InsertUserFields DEF SlotInv
<1>7. CASE Reload(r) \/ FindUuid(r)
  <2>1. req[r].status = "none"
    BY <1>1, <1>7 DEF Reload, FindUuid, SlotInv
  <2>2. CASE Answer(r, "notFound")
    BY <2>2, AnswerFields
  <2>3. CASE req' = [req EXCEPT ![r] = [@ EXCEPT !.pc = "connect", !.left = req[r].roles]]
    <3>1. req'[r].pc = "connect" /\ req'[r].status = req[r].status
      BY <2>3, LookupFields
    <3> QED BY <2>1, <3>1
  <2> QED BY <1>7, <2>2, <2>3 DEF Reload, FindUuid
<1>8. CASE FindRole(r)
  <2>1. req[r].status = "none"
    BY <1>1, <1>8 DEF FindRole, SlotInv
  <2>2. CASE Answer(r, "invalid")
    BY <2>2, AnswerFields
  <2>3. CASE ~Answer(r, "invalid")
    <3>1. req'[r].pc \in {"findUuid", "findRole"} /\ req'[r].status = req[r].status
      BY <1>8, <2>3, FindRoleFields
    <3> QED BY <2>1, <3>1
  <2> QED BY <2>2, <2>3
<1>9. CASE DeleteRoles(r)
  BY <1>1, <1>9, DeleteRolesFields DEF DeleteRoles, SlotInv
<1>10. CASE InsertRole(r)
  BY <1>1, <1>10, InsertRoleFields DEF InsertRole, SlotInv
<1>11. CASE DeadlockVictim(r) \/ Commit(r)
  BY <1>1, <1>11, EndFields DEF DeadlockVictim, Commit, SlotInv
<1>12. CASE Rollback(r)
  BY <1>12, RollbackFields
<1>13. CASE Enrich(r)
  BY <1>1, <1>13, AnswerFields DEF Enrich, SlotInv
<1>14. CASE Respond(r)
  BY <1>14 DEF Respond, NoRequest, TypeOK
<1>15. CASE Fail(r)
  BY <1>1, <1>15, GotoFields, AnswerFields DEF Fail, SlotInv, InTransaction
<1>16. CASE req'[r] = NoRequest
  BY <1>16 DEF NoRequest
<1> QED
  BY <1>2, <1>3, <1>4, <1>5, <1>6, <1>7, <1>8, <1>9, <1>10, <1>11, <1>12, <1>13, <1>14,
     <1>15, <1>16, SlotChange DEF Step

\* After its commit a request's user has roles.
LEMMA RolesStayStep ==
  ASSUME TypeOK, SlotsMatch, DeletedIsCurrent, RolesStay, [Next]_vars
  PROVE  RolesStay'
<1> SUFFICES ASSUME NEW r \in Requests, req'[r].pc = "enrich"
             PROVE  roleRows'[req'[r].user] # {}
  BY DEF RolesStay
<1>1. CASE req'[r] = req[r]
  <2>1. req[r].user \in Ids
    BY <1>1 DEF SlotsMatch, SlotInv, TypeOK, Request
  <2> QED BY <1>1, <2>1, RolesNeverVanish DEF RolesStay
<1>2. CASE req'[r] # req[r]
  BY <1>2, StatusChange, WholeCommit DEF TypeOK
<1> QED BY <1>1, <1>2

\* An answer 409 is the truth.
LEMMA ConflictIsRealStep ==
  ASSUME TypeOK, SlotsMatch, RegistersItself, AccountsWhole, ConflictIsReal, [Next]_vars
  PROVE  ConflictIsReal'
<1> SUFFICES ASSUME NEW r \in Requests, req'[r].status = "conflict"
             PROVE  Duplicate(req[r].name, req[r].mail)' 
  BY DEF ConflictIsReal
<1>1. /\ req[r].op = "register" /\ Duplicate(req[r].name, req[r].mail)
      /\ req'[r].name = req[r].name /\ req'[r].mail = req[r].mail
  <2>1. CASE req'[r] = req[r]
    BY <2>1 DEF ConflictIsReal, SlotsMatch, SlotInv
  <2>2. CASE req'[r] # req[r]
    BY <2>2, StatusChange DEF SameTask, Duplicate
  <2> QED BY <2>1, <2>2
<1>2. req[r].name \in Names /\ req[r].mail \in Mails
  BY <1>1 DEF RegistersItself
<1>3. PICK n \in Names, m \in Mails : n = req[r].name /\ m = req[r].mail
  BY <1>2
<1>4. Duplicate(n, m)'
  BY <1>1, <1>3, UsersGrow
<1> QED BY <1>1, <1>3, <1>4 DEF Duplicate, NameTaken, MailTaken

\* An account whose registration was answered 201 exists and has roles.
LEMMA CreatedHasRolesStep ==
  ASSUME TypeOK, SlotsMatch, DeletedIsCurrent, RegistersItself, AccountsWhole, RolesStay,
         CreatedHasRoles, [Next]_vars
  PROVE  CreatedHasRoles'
<1> SUFFICES ASSUME NEW r \in Requests, req'[r].status = "created"
             PROVE  /\ req'[r].user # NoValue
                    /\ users'[req'[r].user] = [name |-> req'[r].name, mail |-> req'[r].mail]
                    /\ roleRows'[req'[r].user] # {}
  BY DEF CreatedHasRoles
<1>1. /\ req[r].op = "register" /\ req[r].user # NoValue /\ roleRows[req[r].user] # {}
      /\ users[req[r].user] = [name |-> req[r].name, mail |-> req[r].mail]
      /\ SameTask(r) /\ req'[r].user = req[r].user
  <2>1. CASE req'[r] = req[r]
    BY <2>1 DEF CreatedHasRoles, SlotsMatch, SlotInv, SameTask
  <2>2. CASE req'[r] # req[r]
    <3>1. Enrich(r) /\ req[r].op = "register" /\ SameTask(r) /\ SameWork(r)
      BY <2>2, StatusChange
    <3>2. req[r].pc = "enrich" /\ req[r].user # NoValue
      BY <3>1 DEF Enrich, SlotsMatch, SlotInv
    <3> QED BY <3>1, <3>2 DEF RolesStay, RegistersItself, SameWork
  <2> QED BY <2>1, <2>2
<1>2. req[r].user \in Ids /\ req[r].name \in Names
  BY <1>1 DEF TypeOK, Request, RegistersItself
<1>3. Exists(req[r].user)
  BY <1>1, <1>2, AccountsAssumption DEF Exists
<1>4. users'[req[r].user] = users[req[r].user] /\ roleRows'[req[r].user] # {}
  BY <1>1, <1>2, <1>3, UsersGrow, RolesNeverVanish
<1> QED BY <1>1, <1>4 DEF SameTask

Holders == {r \in Requests : req[r].pc \in InTransaction}

\* A step leaves the connections of the pool and their holders alone, or moves
\* one connection between them, or starts the pool anew.
LEMMA HoldersChange ==
  ASSUME TypeOK, SlotsMatch, [Next]_vars
  PROVE  \/ Holders' = Holders /\ free' = free
         \/ Holders' = {} /\ free' = PoolSize
         \/ \E r \in Requests \ Holders :
              Holders' = Holders \cup {r} /\ free > 0 /\ free' = free - 1
         \/ \E r \in Holders : Holders' = Holders \ {r} /\ free' = free + 1
<1> USE DEF Holders
<1>1. ASSUME NEW r \in Requests, free' = free,
             \A s \in Requests \ {r} : req'[s] = req[s],
             req'[r].pc \in InTransaction <=> req[r].pc \in InTransaction
      PROVE  Holders' = Holders /\ free' = free
  <2>1. \A s \in Requests : req'[s].pc \in InTransaction <=> req[s].pc \in InTransaction
    BY <1>1
  <2> QED BY <1>1, <2>1
<1>2. ASSUME NEW r \in Requests, Arrive(r)
      PROVE  Holders' = Holders /\ free' = free
  <2>1. /\ req[r].pc = "idle" /\ free' = free
        /\ \A s \in Requests \ {r} : req'[s] = req[s]
    BY <1>2 DEF Arrive, ArriveRegister, ArriveUpdateRoles, TypeOK
  <2>2. req'[r].pc \in {"findName", "findRole"}
    <3>1. ASSUME NEW n, NEW m, ArriveRegister(r, n, m)
          PROVE  req'[r].pc = "findName"
      BY <3>1 DEF ArriveRegister, NoRequest, TypeOK
    <3>2. ASSUME NEW u, NEW R, ArriveUpdateRoles(r, u, R)
          PROVE  req'[r].pc = "findRole"
      BY <3>2 DEF ArriveUpdateRoles, NoRequest, TypeOK
    <3> QED BY <1>2, <3>1, <3>2 DEF Arrive
  <2> QED BY <1>1, <2>1, <2>2 DEF InTransaction
<1>3. ASSUME NEW r \in Requests, FindName(r) \/ FindMail(r) \/ Hash(r) \/ Begin(r) \/ Enrich(r)
                                 \/ Fail(r)
      PROVE  Holders' = Holders /\ free' = free
  <2>1. free' = free /\ \A s \in Requests \ {r} : req'[s] = req[s]
    BY <1>3 DEF FindName, FindMail, Hash, Begin, Enrich, Fail, Goto, Answer, TypeOK
  <2>2. req'[r].pc \in InTransaction <=> req[r].pc \in InTransaction
    <3>1. CASE FindName(r) \/ FindMail(r) \/ Hash(r) \/ Begin(r) \/ Enrich(r)
      BY <3>1, GotoFields, AnswerFields
         DEF FindName, FindMail, Hash, Begin, Enrich, InTransaction
    <3>2. CASE Fail(r)
      BY <3>2, GotoFields, AnswerFields DEF Fail, InTransaction, Querying
    <3> QED BY <1>3, <3>1, <3>2
  <2> QED BY <1>1, <2>1, <2>2
<1>4. ASSUME NEW r \in Requests, InsertUser(r)
      PROVE  Holders' = Holders /\ free' = free
  <2>1. free' = free /\ \A s \in Requests \ {r} : req'[s] = req[s]
    BY <1>4 DEF InsertUser, Answer, TypeOK
  <2> QED BY <1>1, <1>4, <2>1, InsertUserFields DEF InTransaction
<1>5. ASSUME NEW r \in Requests, Reload(r) \/ FindUuid(r)
      PROVE  Holders' = Holders /\ free' = free
  <2>1. free' = free /\ \A s \in Requests \ {r} : req'[s] = req[s]
    BY <1>5 DEF Reload, FindUuid, Answer, TypeOK
  <2>2. /\ req'[r].pc \in {"connect", "answer"}
        /\ req[r].pc \in {"reload", "findUuid"}
    BY <1>5, LookupFields, AnswerFields DEF Reload, FindUuid
  <2> QED BY <1>1, <2>1, <2>2 DEF InTransaction
<1>6. ASSUME NEW r \in Requests, FindRole(r)
      PROVE  Holders' = Holders /\ free' = free
  <2>1. free' = free /\ \A s \in Requests \ {r} : req'[s] = req[s]
    BY <1>6 DEF FindRole, Answer, TypeOK
  <2>2. req'[r].pc \in {"findRole", "findUuid", "answer"} /\ req[r].pc = "findRole"
    BY <1>6, FindRoleFields, AnswerFields DEF FindRole
  <2> QED BY <1>1, <2>1, <2>2 DEF InTransaction
<1>7. ASSUME NEW r \in Requests, DeleteRoles(r) \/ InsertRole(r)
      PROVE  Holders' = Holders /\ free' = free
  <2>1. free' = free /\ \A s \in Requests \ {r} : req'[s] = req[s]
    BY <1>7, WriteAlone DEF DeleteRoles, InsertRole
  <2>2. req'[r].pc \in {"insertRole", "commit"} /\ req[r].pc \in {"delete", "insertRole"}
    BY <1>7, DeleteRolesFields, InsertRoleFields DEF DeleteRoles, InsertRole
  <2> QED BY <1>1, <2>1, <2>2 DEF InTransaction
<1>8. ASSUME NEW r \in Requests, DeadlockVictim(r)
      PROVE  Holders' = Holders /\ free' = free
  <2>1. free' = free /\ \A s \in Requests \ {r} : req'[s] = req[s]
    BY <1>8 DEF DeadlockVictim, EndTransaction, TypeOK
  <2> QED BY <1>1, <1>8, <2>1, EndFields DEF DeadlockVictim, InTransaction
<1>9. ASSUME NEW r \in Requests, Connect(r)
      PROVE  /\ r \notin Holders /\ Holders' = Holders \cup {r}
             /\ free > 0 /\ free' = free - 1
  <2>1. /\ req'[r].pc = "begin" /\ req[r].pc = "connect" /\ free > 0 /\ free' = free - 1
        /\ \A s \in Requests \ {r} : req'[s] = req[s]
    BY <1>9 DEF Connect, Goto, TypeOK, Request, ConnectionFree
  <2>2. req'[r].pc \in InTransaction /\ req[r].pc \notin InTransaction
    BY <2>1 DEF InTransaction
  <2> QED BY <2>1, <2>2
<1>10. ASSUME NEW r \in Requests, req[r].pc \in InTransaction, req'[r].pc \notin InTransaction,
              \A s \in Requests \ {r} : req'[s] = req[s]
       PROVE  r \in Holders /\ Holders' = Holders \ {r}
  BY <1>10
<1>11. ASSUME NEW r \in Requests, Commit(r)
       PROVE  \/ Holders' = Holders /\ free' = free
              \/ r \in Holders /\ Holders' = Holders \ {r} /\ free' = free + 1
  <2>1. req[r].pc = "commit" /\ \A s \in Requests \ {r} : req'[s] = req[s]
    BY <1>11 DEF Commit, EndTransaction, TypeOK
  <2>2. CASE req'[r].pc = "rollback" /\ free' = free
    BY <1>1, <2>1, <2>2 DEF InTransaction
  <2>3. CASE req'[r].pc = "enrich" /\ free' = free + 1
    BY <1>10, <2>1, <2>3 DEF InTransaction
  <2> QED BY <1>11, <2>2, <2>3, EndFields DEF Commit
<1>12. ASSUME NEW r \in Requests, Rollback(r)
       PROVE  r \in Holders /\ Holders' = Holders \ {r} /\ free' = free + 1
  <2>1. req[r].pc = "rollback" /\ \A s \in Requests \ {r} : req'[s] = req[s]
    BY <1>12 DEF Rollback, TypeOK
  <2> QED BY <1>10, <1>12, <2>1, RollbackFields DEF Rollback, InTransaction
<1>13. ASSUME NEW r \in Requests, Respond(r)
       PROVE  Holders' = Holders /\ free' = free
  <2>1. /\ free' = free /\ req[r].pc = "answer" /\ req'[r].pc = "idle"
        /\ \A s \in Requests \ {r} : req'[s] = req[s]
    BY <1>13 DEF Respond, NoRequest, TypeOK
  <2> QED BY <1>1, <2>1 DEF InTransaction
<1>14. CASE Crash
  BY <1>14 DEF Crash, NoRequest, InTransaction
<1>15. CASE UNCHANGED vars \/ \E role \in Roles : CreateRole(role)
  BY <1>15 DEF vars, CreateRole
<1> HIDE DEF Holders
<1> QED
  BY <1>2, <1>3, <1>4, <1>5, <1>6, <1>7, <1>8, <1>9, <1>11, <1>12, <1>13, <1>14, <1>15
     DEF Next, Step

\* A step keeps the balance of the pool, which bounds free.
LEMMA NoConnectionLostStep ==
  ASSUME TypeOK, NoConnectionLost, SlotsMatch, [Next]_vars
  PROVE  NoConnectionLost' /\ free' \in 0..PoolSize
<1> DEFINE n == Cardinality(Holders)
           k == Cardinality(Holders')
<1>1. /\ IsFiniteSet(Holders) /\ n \in Nat /\ n + free = PoolSize
      /\ free \in Nat /\ PoolSize \in Nat
  <2>1. IsFiniteSet(Holders)
    BY AccountsAssumption, FS_Subset DEF Holders
  <2> QED BY <2>1, FS_CardinalityType, AccountsAssumption DEF NoConnectionLost, Holders, TypeOK
<1>2. k + free' = PoolSize /\ free' \in 0..PoolSize
  <2>1. CASE Holders' = Holders /\ free' = free
    BY <1>1, <2>1
  <2>2. CASE Holders' = {} /\ free' = PoolSize
    BY <1>1, <2>2, FS_EmptySet
  <2>3. ASSUME NEW r \in Requests \ Holders,
               Holders' = Holders \cup {r}, free > 0, free' = free - 1
        PROVE  k + free' = PoolSize /\ free' \in 0..PoolSize
    <3>1. k = n + 1
      BY <1>1, <2>3, FS_AddElement
    <3> HIDE DEF n, k
    <3> QED BY <1>1, <2>3, <3>1
  <2>4. ASSUME NEW r \in Holders, Holders' = Holders \ {r}, free' = free + 1
        PROVE  k + free' = PoolSize /\ free' \in 0..PoolSize
    <3>1. k = n - 1 /\ k \in Nat
      BY <1>1, <2>4, FS_RemoveElement, FS_CardinalityType
    <3> HIDE DEF n, k
    <3> QED BY <1>1, <2>4, <3>1
  <2> QED BY <2>1, <2>2, <2>3, <2>4, HoldersChange
<1>3. Holders' = {r \in Requests : req'[r].pc \in InTransaction}
  BY DEF Holders
<1>4. Cardinality({r \in Requests : req'[r].pc \in InTransaction}) = k
  BY <1>3
<1>5. free' + Cardinality({r \in Requests : req'[r].pc \in InTransaction}) = PoolSize
  <2>1. free' + k = k + free'
    <3>1. k \in Nat /\ free' \in Nat
      BY <1>1, <1>2, HoldersChange, FS_CardinalityType, FS_EmptySet, FS_AddElement, FS_RemoveElement
    <3> HIDE DEF k
    <3> QED BY <3>1
  <2> QED BY <1>2, <1>4, <2>1
<1> QED BY <1>2, <1>5 DEF NoConnectionLost
-----------------------------------------------------------------------------
(* The theorems.                                                           *)

\* IInv is inductive.
THEOREM Inductive == Spec => []IInv
<1>1. Init => IInv
  <2> SUFFICES ASSUME Init PROVE IInv
    OBVIOUS
  <2>1. /\ \A r \in Requests : req[r] = NoRequest
        /\ locks = {} /\ free = PoolSize
    BY DEF Init
  <2>2. TypeOK
    <3>1. NoRequest \in Request
      BY DEF NoRequest, Request, Stage, Status
    <3> QED BY <3>1, AccountsAssumption DEF Init, TypeOK, Account, NoAccount
  <2>3. NoConnectionLost
    <3>1. {r \in Requests : req[r].pc \in InTransaction} = {}
      BY <2>1 DEF NoRequest, InTransaction
    <3>2. Cardinality({r \in Requests : req[r].pc \in InTransaction}) = 0
      BY <3>1, FS_EmptySet
    <3> QED BY <2>1, <3>2, AccountsAssumption DEF NoConnectionLost
  <2>4. SlotsMatch
    BY <2>1, AccountsAssumption DEF Init, SlotsMatch, SlotInv, NoRequest, InTransaction
  <2>5. OneWriter /\ DeletedIsCurrent
    BY <2>1 DEF OneWriter, DeletedIsCurrent
  <2>6. RegistersItself /\ RolesStay /\ ConflictIsReal /\ CreatedHasRoles
    BY <2>1 DEF NoRequest, RegistersItself, RolesStay, ConflictIsReal, CreatedHasRoles
  <2>7. AccountsWhole /\ OneAccountEach
    BY AccountsAssumption DEF Init, AccountsWhole, OneAccountEach, Exists, NoAccount
  <2> QED BY <2>2, <2>3, <2>4, <2>5, <2>6, <2>7 DEF IInv
<1>2. IInv /\ [Next]_vars => IInv'
  <2> SUFFICES ASSUME IInv, [Next]_vars PROVE IInv'
    OBVIOUS
  <2>1. TypeOK' /\ NoConnectionLost'
    BY TypeStep, NoConnectionLostStep DEF IInv, TypeData, TypeOK
  <2> QED
    BY <2>1, SlotStep, OneWriterStep, DeletedIsCurrentStep, RegistersItselfStep,
       AccountsWholeStep, RolesStayStep, OneAccountEachStep, ConflictIsRealStep,
       CreatedHasRolesStep DEF IInv
<1> QED BY <1>1, <1>2, PTL DEF Spec

\* Type correctness of the accounts: in particular the pool never counts below
\* zero or above its limit, whatever fails and whichever transaction deadlocks.
THEOREM TypeCorrect == Spec => []TypeOK
BY Inductive, PTL DEF IInv

\* Every path through UserPersistenceServiceImpl's transactions gives back the
\* one connection it took.
THEOREM ConnectionsBalance == Spec => []NoConnectionLost
BY Inductive, PTL DEF IInv

\* Whatever registrations overlap, a username and an address name one account.
THEOREM AccountsAreUnique == Spec => []OneAccountEach
BY Inductive, PTL DEF IInv

\* A registration is answered 409 only when the name or the address is taken.
THEOREM ConflictsAreReal == Spec => []ConflictIsReal
BY Inductive, PTL DEF IInv

\* A registration answered 201 has made its account, and the account has roles.
THEOREM RegistrationsLast == Spec => []CreatedHasRoles
BY Inductive, PTL DEF IInv

\* Every change of a user's roles is the replacement of all of them by those of
\* one request: role transactions on one user are serial in effect.
THEOREM RolesChangeAsAWhole == Spec => RoleWritesAreWhole
<1>1. ASSUME IInv, [Next]_vars, NEW u \in Ids, roleRows'[u] # roleRows[u]
      PROVE  \E r \in Requests : /\ req[r].pc = "commit" /\ req[r].user = u
                                 /\ roleRows'[u] = req[r].roles
  <2>1. PICK r \in Requests : Commit(r)
    BY <1>1, TablesChange DEF IInv
  <2> QED BY <1>1, <2>1, WholeCommit DEF IInv, TypeOK
<1>2. IInv /\ [Next]_vars =>
        [\A u \in Ids : roleRows'[u] # roleRows[u] =>
           \E r \in Requests : /\ req[r].pc = "commit" /\ req[r].user = u
                               /\ roleRows'[u] = req[r].roles]_vars
  BY <1>1
<1> QED BY <1>2, Inductive, PTL DEF Spec, RoleWritesAreWhole

-----------------------------------------------------------------------------
(* What stays. *)

\* The service takes the last role from nobody: a user that has roles keeps some
\* through every role update, failure and crash.  (An operator may delete the
\* account with its roles; that is in Grants and UserViews.)
THEOREM RolesAreForEver ==
  ASSUME NEW u \in Ids
  PROVE  Spec => [](roleRows[u] # {} => [](roleRows[u] # {}))
<1> DEFINE P == roleRows[u] # {}
<1>1. IInv /\ P /\ [Next]_vars => P'
  BY RolesNeverVanish DEF IInv
<1> HIDE DEF P
<1>2. Spec => [](P => []P)
  BY <1>1, Inductive, PTL DEF Spec
<1> QED BY <1>2 DEF P

-----------------------------------------------------------------------------
(* AUTO_INCREMENT always has an id; the finite set Ids stands for that if   *)
(* one is left for every registration that is let in.                      *)

Unused == {u \in Ids : ~Exists(u)}

IdsSuffice == Cardinality(Inserting) <= Cardinality(Unused)

\* A step lets a registration in while an id is left, or uses one up for a
\* registration that then has it, or does neither.
LEMMA InsertingChange ==
  ASSUME IInv, [Next]_vars
  PROVE  \/ Inserting' \subseteq Inserting /\ Unused' = Unused
         \/ /\ IdsLeft /\ Unused' = Unused
            /\ \E r \in Requests : Inserting' \subseteq Inserting \cup {r}
         \/ \E r \in Inserting, u \in Unused :
              Inserting' \subseteq Inserting \ {r} /\ Unused' = Unused \ {u}
<1> USE DEF IInv
<1>1. CASE users' = users /\ \E r \in Requests : r \in Inserting' /\ r \notin Inserting
  <2>1. PICK r \in Requests : r \in Inserting' /\ r \notin Inserting
    BY <1>1
  <2>2. req'[r].op = "register" /\ req'[r].user = NoValue
    BY <2>1 DEF Inserting
  <2>3. ~(SameTask(r) /\ req'[r].user = req[r].user)
    BY <2>1, <2>2 DEF Inserting, SameTask
  <2>4. ~InsertUser(r)
    <3>1. ASSUME InsertUser(r)
          PROVE  SameTask(r) /\ req'[r].user = req[r].user
      BY <2>2, <3>1, InsertUserFields, AccountsAssumption
    <3> QED BY <2>3, <3>1
  <2>5. Arrive(r)
    BY <2>2, <2>3, <2>4, TaskChange DEF NoRequest
  <2>6. IdsLeft /\ \A s \in Requests \ {r} : req'[s] = req[s]
    <3>1. ASSUME NEW u, NEW R, ArriveUpdateRoles(r, u, R)
          PROVE  req'[r].op = "updateRoles"
      BY <3>1 DEF ArriveUpdateRoles, NoRequest, TypeOK
    <3> QED BY <2>2, <2>5, <3>1 DEF Arrive, ArriveRegister, TypeOK
  <2>7. Inserting' \subseteq Inserting \cup {r} /\ Unused' = Unused
    BY <1>1, <2>6 DEF Inserting, Unused, Exists
  <2> QED BY <2>6, <2>7
<1>2. CASE users' = users /\ ~\E r \in Requests : r \in Inserting' /\ r \notin Inserting
  BY <1>2 DEF Inserting, Unused, Exists
<1>3. CASE users' # users
  <2>1. PICK r \in Requests : InsertUser(r)
    BY <1>3, TablesChange
  <2>2. /\ req[r].pc = "insertUser" /\ req'[r].user \in Ids /\ ~Exists(req'[r].user)
        /\ users' = [users EXCEPT ![req'[r].user] = [name |-> req[r].name, mail |-> req[r].mail]]
    BY <1>3, <2>1, InsertUserFields
  <2>3. req[r].op = "register" /\ req[r].user = NoValue /\ req[r].name \in Names
    BY <2>2 DEF SlotsMatch, SlotInv, RegistersItself
  <2>4. \A s \in Requests \ {r} : req'[s] = req[s]
    BY <2>1 DEF InsertUser, Answer, TypeOK
  <2>5. r \in Inserting /\ Inserting' \subseteq Inserting \ {r}
    BY <2>2, <2>3, <2>4, AccountsAssumption DEF Inserting
  <2>6. req'[r].user \in Unused /\ Unused' = Unused \ {req'[r].user}
    BY <2>2, <2>3, AccountsAssumption DEF Unused, Exists, TypeOK
  <2> QED BY <2>5, <2>6
<1> QED BY <1>1, <1>2, <1>3

\* Every step keeps IdsSuffice.
LEMMA IdsSufficeStep ==
  ASSUME IInv, IdsSuffice, [Next]_vars
  PROVE  IdsSuffice'
<1> DEFINE A == Inserting
           B == Inserting'
           U == Unused
           V == Unused'
<1>1. /\ IsFiniteSet(A) /\ IsFiniteSet(B) /\ IsFiniteSet(U) /\ IsFiniteSet(V)
      /\ Cardinality(A) \in Nat /\ Cardinality(B) \in Nat
      /\ Cardinality(U) \in Nat /\ Cardinality(V) \in Nat
  <2>1. A \subseteq Requests /\ B \subseteq Requests /\ U \subseteq Ids /\ V \subseteq Ids
    BY DEF Inserting, Unused
  <2>2. IsFiniteSet(A) /\ IsFiniteSet(B) /\ IsFiniteSet(U) /\ IsFiniteSet(V)
    BY <2>1, AccountsAssumption, FS_Subset
  <2> QED BY <2>2, FS_CardinalityType
<1>2. Cardinality(A) <= Cardinality(U)
  BY DEF IdsSuffice
<1>3. IdsLeft <=> Cardinality(A) < Cardinality(U)
  BY DEF IdsLeft, Unused
<1>4. \/ B \subseteq A /\ V = U
      \/ IdsLeft /\ V = U /\ \E r \in Requests : B \subseteq A \cup {r}
      \/ \E r \in A, u \in U : B \subseteq A \ {r} /\ V = U \ {u}
  BY InsertingChange
<1>5. IdsSuffice' <=> Cardinality(B) <= Cardinality(V)
  BY DEF IdsSuffice
<1> HIDE DEF A, B, U, V
<1>6. CASE B \subseteq A /\ V = U
  BY <1>1, <1>2, <1>5, <1>6, FS_Subset
<1>7. ASSUME IdsLeft, V = U, NEW r \in Requests, B \subseteq A \cup {r}
      PROVE  Cardinality(B) <= Cardinality(V)
  <2>1. CASE r \in A
    <3>1. B \subseteq A
      BY <1>7, <2>1
    <3> QED BY <1>1, <1>2, <1>7, <3>1, FS_Subset
  <2>2. CASE r \notin A
    <3>1. IsFiniteSet(A \cup {r}) /\ Cardinality(A \cup {r}) = Cardinality(A) + 1
      BY <1>1, <2>2, FS_AddElement
    <3>2. Cardinality(B) <= Cardinality(A \cup {r})
      BY <1>7, <3>1, FS_Subset
    <3> QED BY <1>1, <1>3, <1>7, <3>1, <3>2
  <2> QED BY <2>1, <2>2
<1>8. ASSUME NEW r \in A, NEW u \in U, B \subseteq A \ {r}, V = U \ {u}
      PROVE  Cardinality(B) <= Cardinality(V)
  <2>1. /\ IsFiniteSet(A \ {r}) /\ Cardinality(A \ {r}) = Cardinality(A) - 1
        /\ Cardinality(V) = Cardinality(U) - 1
    BY <1>1, <1>8, FS_RemoveElement
  <2>2. Cardinality(B) <= Cardinality(A \ {r})
    BY <1>8, <2>1, FS_Subset
  <2> QED BY <1>1, <1>2, <2>1, <2>2
<1> QED BY <1>4, <1>5, <1>6, <1>7, <1>8

\* A registration that comes to its INSERT finds an id.
IdAtInsert == \A r \in Requests : req[r].pc = "insertUser" => \E u \in Ids : ~Exists(u)

LEMMA InsertFindsAnId == Spec => []IdAtInsert
<1>1. Init => IdsSuffice
  <2> SUFFICES ASSUME Init PROVE IdsSuffice
    OBVIOUS
  <2>1. Inserting = {}
    BY DEF Init, Inserting, NoRequest
  <2>2. Cardinality(Inserting) = 0
    BY <2>1, FS_EmptySet
  <2>3. IsFiniteSet(Unused)
    BY AccountsAssumption, FS_Subset DEF Unused
  <2>4. Cardinality(Unused) \in Nat
    BY <2>3, FS_CardinalityType
  <2> QED BY <2>2, <2>4 DEF IdsSuffice
<1>2. IInv /\ IdsSuffice /\ [Next]_vars => IdsSuffice'
  BY IdsSufficeStep
<1>3. IInv /\ IdsSuffice => IdAtInsert
  <2> SUFFICES ASSUME IInv, IdsSuffice, NEW r \in Requests, req[r].pc = "insertUser"
               PROVE  \E u \in Ids : ~Exists(u)
    BY DEF IdAtInsert
  <2>1. r \in Inserting
    BY DEF IInv, SlotsMatch, SlotInv, Inserting
  <2>2. IsFiniteSet(Inserting) /\ IsFiniteSet(Unused)
    BY AccountsAssumption, FS_Subset DEF Inserting, Unused
  <2>3. Cardinality(Inserting) \in Nat /\ Cardinality(Unused) \in Nat
    BY <2>2, FS_CardinalityType
  <2>4. Cardinality(Inserting) # 0
    BY <2>1, <2>2, FS_EmptySet
  <2>5. Cardinality(Unused) # 0
    BY <2>3, <2>4 DEF IdsSuffice
  <2>6. Unused # {}
    BY <2>2, <2>5, FS_EmptySet
  <2> QED BY <2>6 DEF Unused
<1> QED BY <1>1, <1>2, <1>3, Inductive, PTL DEF Spec

-----------------------------------------------------------------------------
(* Nobody waits for ever for want of a step of the others. *)

\* The guard of one of the steps of r: its call does not depend on others, or a
\* connection is free for it, and an id for a new row, or the lock it asks for is, or InnoDB has found the
\* cycle it is in.
CanGoOn(r) ==
  \/ req[r].pc \in {"hash", "begin", "commit", "rollback", "answer"}
  \/ req[r].pc \in (Querying \ {"insertUser"}) \cup {"connect"} /\ ConnectionFree
  \/ /\ req[r].pc = "insertUser" /\ ConnectionFree
     /\ Duplicate(req[r].name, req[r].mail) \/ \E u \in Ids : ~Exists(u)
  \/ req[r].pc = "delete" /\ \A s \in Rivals(r) : ~HasWritten(s)
  \/ /\ req[r].pc = "insertRole"
     /\ Rivals(r) = {} \/ \E s \in Rivals(r) : req[s].pc = "insertRole"

\* A request that waits waits for one that does not.  A transaction waits for
\* the lock of another on the same user, and that one is about to commit or to
\* roll back, or in a cycle that is broken.  Everyone else waits for a
\* connection while transactions hold all of them, and one of these goes on.
WaitsEnd ==
  \A r \in Requests : req[r].pc # "idle" /\ ~CanGoOn(r) =>
    IF req[r].pc \in InTransaction
    THEN \E s \in Rivals(r) : CanGoOn(s)
    ELSE /\ ~ConnectionFree
         /\ \E s \in Requests : req[s].pc \in InTransaction /\ CanGoOn(s)

\* A transaction that waits for a lock waits for a rival that goes on: chains of
\* lock waits have no second link that waits.
LEMMA LockWaitsEnd ==
  ASSUME IInv, NEW r \in Requests, req[r].pc \in InTransaction, ~CanGoOn(r)
  PROVE  \E s \in Rivals(r) : CanGoOn(s)
<1>1. req[r].pc \in {"delete", "insertRole"}
  BY DEF CanGoOn, InTransaction
<1>2. \A s \in Rivals(r) : /\ s \in Requests /\ s \in locks /\ s # r
                           /\ req[s].user = req[r].user
                           /\ req[s].pc \in {"insertRole", "commit", "rollback"}
  BY DEF IInv, TypeOK, Rivals, SlotsMatch, SlotInv
<1>3. CASE req[r].pc = "insertRole"
  BY <1>2, <1>3 DEF CanGoOn
<1>4. CASE req[r].pc = "delete"
  <2>1. PICK s \in Rivals(r) : HasWritten(s)
    BY <1>4 DEF CanGoOn
  <2>2. CASE CanGoOn(s)
    BY <2>1, <2>2
  <2>3. CASE ~CanGoOn(s)
    <3>1. req[s].pc = "insertRole"
      BY <1>2, <2>1, <2>3 DEF CanGoOn
    <3>2. PICK t \in Rivals(s) : req[t].pc # "insertRole"
      BY <2>3, <3>1 DEF CanGoOn
    <3>3. r \notin locks
      BY <1>4 DEF IInv, SlotsMatch, SlotInv
    <3>4. t \in Rivals(r)
      BY <1>2, <2>1, <3>2, <3>3 DEF Rivals
    <3>5. CanGoOn(t)
      BY <1>2, <3>2, <3>4 DEF CanGoOn
    <3> QED BY <3>4, <3>5
  <2> QED BY <2>2, <2>3
<1> QED BY <1>1, <1>3, <1>4

\* With no connection free, transactions hold them all, and the pool has one.
LEMMA SomeoneHolds ==
  ASSUME IInv, ~ConnectionFree
  PROVE  \E s \in Requests : req[s].pc \in InTransaction
<1> DEFINE H == {s \in Requests : req[s].pc \in InTransaction}
<1>1. free = 0
  BY AccountsAssumption DEF ConnectionFree, IInv, TypeOK
<1>2. IsFiniteSet(H)
  BY AccountsAssumption, FS_Subset
<1>3. Cardinality(H) \in Nat
  BY <1>2, FS_CardinalityType
<1>4. free + Cardinality(H) = PoolSize
  BY DEF IInv, NoConnectionLost
<1> HIDE DEF H
<1>5. Cardinality(H) # 0
  BY <1>1, <1>3, <1>4, AccountsAssumption
<1>6. H # {}
  BY <1>2, <1>5, FS_EmptySet
<1> QED BY <1>6 DEF H

\* However many requests are in flight, and however small the pool, a request
\* that waits waits for one that can go on: no cycle of waits for connections and
\* locks closes.  It is the safety in EveryRequestEnds.
THEOREM NoStandstill == Spec => []WaitsEnd
<1>1. IInv /\ IdAtInsert => WaitsEnd
  <2> SUFFICES ASSUME IInv, IdAtInsert, NEW r \in Requests, req[r].pc # "idle", ~CanGoOn(r)
               PROVE  IF req[r].pc \in InTransaction
                      THEN \E s \in Rivals(r) : CanGoOn(s)
                      ELSE /\ ~ConnectionFree
                           /\ \E s \in Requests : req[s].pc \in InTransaction /\ CanGoOn(s)
    BY DEF WaitsEnd
  <2>1. CASE req[r].pc \in InTransaction
    BY <2>1, LockWaitsEnd
  <2>2. CASE req[r].pc \notin InTransaction
    <3>1. req[r].pc \in Querying \cup {"connect"}
      <4>1. req[r].pc \in Stage
        BY DEF IInv, TypeOK, Request
      <4> QED BY <2>2, <4>1 DEF Stage, CanGoOn
    <3>2. ~ConnectionFree
      BY <3>1 DEF CanGoOn, IdAtInsert
    <3>3. PICK s \in Requests : req[s].pc \in InTransaction
      BY <3>2, SomeoneHolds
    <3>4. CASE CanGoOn(s)
      BY <2>2, <3>2, <3>3, <3>4
    <3>5. CASE ~CanGoOn(s)
      <4>1. PICK t \in Rivals(s) : CanGoOn(t)
        BY <3>3, <3>5, LockWaitsEnd
      <4>2. t \in Requests /\ req[t].pc \in InTransaction
        BY <4>1 DEF IInv, TypeOK, Rivals, SlotsMatch, SlotInv, InTransaction
      <4> QED BY <2>2, <3>2, <4>1, <4>2
    <3> QED BY <3>4, <3>5
  <2> QED BY <2>1, <2>2
<1> QED BY <1>1, Inductive, InsertFindsAnId, PTL

-----------------------------------------------------------------------------
(* A request does a bounded amount of work.                                *)

\* The stages in the order of the code; no await leads back.
StagesLeft(stage) ==
  CASE stage = "findName" -> 13 [] stage = "findMail" -> 12 [] stage = "hash" -> 11
    [] stage \in {"insertUser", "findRole"} -> 10 [] stage \in {"reload", "findUuid"} -> 9
    [] stage = "connect" -> 8 [] stage = "begin" -> 7 [] stage = "delete" -> 6
    [] stage = "insertRole" -> 5 [] stage = "commit" -> 4 [] stage = "rollback" -> 3
    [] stage = "enrich" -> 2 [] stage = "answer" -> 1 [] OTHER -> 0

\* The request goes on to a later stage, or the loop it is in to its next role.
Closer(r) ==
  \/ StagesLeft(req'[r].pc) < StagesLeft(req[r].pc)
  \/ /\ req'[r].pc = req[r].pc
     /\ \E role \in req[r].left : req'[r].left = req[r].left \ {role}

\* No step of a request leads back or leaves it where it was.
LEMMA StepLeadsOn ==
  ASSUME TypeOK, NEW r \in Requests, Step(r) \/ Fail(r)
  PROVE  Closer(r)
<1> USE DEF Closer, StagesLeft
<1>1. CASE FindName(r) \/ FindMail(r) \/ Hash(r)
  BY <1>1, GotoFields, AnswerFields DEF FindName, FindMail, Hash
<1>2. CASE InsertUser(r)
  <2>1. req[r].pc = "insertUser" /\ req'[r].pc \in {"answer", "reload"}
    BY <1>2, InsertUserFields
  <2> QED BY <2>1
<1>3. CASE Reload(r) \/ FindUuid(r)
  <2>1. req[r].pc \in {"reload", "findUuid"} /\ req'[r].pc \in {"answer", "connect"}
    BY <1>3, LookupFields, AnswerFields DEF Reload, FindUuid
  <2> QED BY <2>1
<1>4. CASE FindRole(r)
  <2>1. req[r].pc = "findRole"
    BY <1>4 DEF FindRole
  <2>2. CASE Answer(r, "invalid")
    BY <2>1, <2>2, AnswerFields
  <2>3. CASE ~Answer(r, "invalid")
    <3>1. PICK role \in req[r].left :
            /\ req'[r].left = req[r].left \ {role}
            /\ req'[r].pc = IF req[r].left = {role} THEN "findUuid" ELSE "findRole"
      BY <1>4, <2>3, FindRoleFields
    <3> QED BY <2>1, <3>1
  <2> QED BY <2>2, <2>3
<1>5. CASE Connect(r) \/ Begin(r)
  BY <1>5, GotoFields DEF Connect, Begin
<1>6. CASE DeleteRoles(r)
  <2>1. req[r].pc = "delete" /\ req'[r].pc = "insertRole"
    BY <1>6, DeleteRolesFields DEF DeleteRoles
  <2> QED BY <2>1
<1>7. CASE InsertRole(r)
  <2>1. req[r].pc = "insertRole"
    BY <1>7 DEF InsertRole
  <2>2. PICK role \in req[r].left :
          /\ req'[r].left = req[r].left \ {role}
          /\ req'[r].pc = IF req[r].left = {role} THEN "commit" ELSE "insertRole"
    BY <1>7, InsertRoleFields
  <2> QED BY <2>1, <2>2
<1>8. CASE DeadlockVictim(r) \/ Commit(r)
  BY <1>8, EndFields DEF DeadlockVictim, Commit
<1>9. CASE Rollback(r)
  <2>1. req[r].pc = "rollback" /\ req'[r].pc = "answer"
    BY <1>9, RollbackFields DEF Rollback
  <2> QED BY <2>1
<1>10. CASE Enrich(r)
  BY <1>10, AnswerFields DEF Enrich
<1>11. CASE Respond(r)
  <2>1. req[r].pc = "answer" /\ req'[r].pc = "idle"
    BY <1>11 DEF Respond, TypeOK, NoRequest
  <2> QED BY <2>1
<1>12. CASE Fail(r)
  <2>1. CASE req[r].pc \in Querying \cup {"connect", "hash"} /\ Answer(r, "error")
    BY <2>1, AnswerFields DEF Querying
  <2>2. CASE req[r].pc \in InTransaction \ {"rollback"} /\ Goto(r, "rollback")
    BY <2>2, GotoFields DEF InTransaction
  <2> QED BY <1>12, <2>1, <2>2 DEF Fail
<1> QED
  BY <1>1, <1>2, <1>3, <1>4, <1>5, <1>6, <1>7, <1>8, <1>9, <1>10, <1>11, <1>12 DEF Step

\* Nothing in the code retries: each step of a request, failed or not, brings it
\* closer to its answer, and no step of another takes it back.  With NoStandstill
\* it is why every request ends, as far as the scheduler lets it.
THEOREM RequestsWearOut ==
  Spec => [][\A r \in Requests :
               /\ Step(r) \/ Fail(r) => Closer(r)
               /\ req[r].pc # "idle" => Closer(r) \/ req'[r] = req[r]]_vars
<1> DEFINE Onward == \A r \in Requests :
                       /\ Step(r) \/ Fail(r) => Closer(r)
                       /\ req[r].pc # "idle" => Closer(r) \/ req'[r] = req[r]
<1>1. TypeOK /\ [Next]_vars => [Onward]_vars
  <2> SUFFICES ASSUME TypeOK, [Next]_vars, NEW r \in Requests
               PROVE  /\ Step(r) \/ Fail(r) => Closer(r)
                      /\ req[r].pc # "idle" => Closer(r) \/ req'[r] = req[r]
    OBVIOUS
  <2>1. Step(r) \/ Fail(r) => Closer(r)
    BY StepLeadsOn
  <2>2. ASSUME req[r].pc # "idle", req'[r] = NoRequest
        PROVE  Closer(r)
    <3>1. req[r].pc \in Stage \ {"idle"} /\ req'[r].pc = "idle"
      BY <2>2 DEF TypeOK, Request, NoRequest
    <3> QED BY <3>1 DEF Closer, StagesLeft, Stage, InTransaction, Querying
  <2>3. Arrive(r) => req[r].pc = "idle"
    BY DEF Arrive, ArriveRegister, ArriveUpdateRoles
  <2> QED BY <2>1, <2>2, <2>3, SlotChange
<1> HIDE DEF Onward
<1>2. Spec => [][Onward]_vars
  BY <1>1, TypeCorrect, PTL DEF Spec
<1> QED BY <1>2 DEF Onward
=============================================================================
