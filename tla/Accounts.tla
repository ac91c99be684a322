------------------------------ MODULE Accounts ------------------------------
(***************************************************************************)
(* Accounts and their roles: registration (AuthService.register) and the   *)
(* replacement of a user's roles (AuthRequestHandlerImpl.handleUpdateRoles)*)
(* over the tables USERS, ROLES and USERS_ROLES, with the connection pool  *)
(* both go through.                                                        *)
(*                                                                         *)
(* An action is one awaited call of one request with the synchronous code  *)
(* that consumes its result.  Outside a transaction a statement borrows a  *)
(* connection for its own duration, so it only needs one to be free; a     *)
(* transaction keeps one from getConnection to release.  A lookup that     *)
(* hits also reads the user's roles, which decide nothing here: that       *)
(* SELECT is part of the lookup.  Names, addresses and roles stand for the *)
(* strings MySQL's collation holds equal.                                  *)
(*                                                                         *)
(* InnoDB's locks are modelled on the rows of one user.  The locks that    *)
(* transactions on neighbouring users take on the gap between them only    *)
(* delay a statement or make it a deadlock victim, and every statement may *)
(* be delayed or fail.                                                     *)
(***************************************************************************)
EXTENDS Naturals, FiniteSets

CONSTANTS
  Ids,        \* USERS.id, as AUTO_INCREMENT hands them out
  Names,      \* usernames
  Mails,      \* e-mail addresses
  Roles,      \* role names a request may contain
  Requests,   \* slots for requests in flight
  NoValue,    \* absent id, username or address
  Citizen,    \* the default role
  Seeded,     \* the roles that 01_init.sql inserts
  Bootstrap,  \* the id of the account that 01_init.sql inserts,
  BootName, BootMail, BootRoles,  \* and its columns and roles
  PoolSize    \* DB_CONNECTION_LIMIT

ASSUME AccountsAssumption ==
  /\ NoValue \notin Ids \cup Names \cup Mails
  /\ IsFiniteSet(Requests) /\ IsFiniteSet(Ids)
  /\ Seeded \subseteq Roles /\ Citizen \in Seeded
  /\ Bootstrap \in Ids /\ BootName \in Names /\ BootMail \in Mails
  /\ BootRoles \subseteq Seeded /\ BootRoles # {}
  /\ PoolSize \in Nat \ {0}

VARIABLES
  users,      \* [Ids -> Account], the USERS rows
  catalogue,  \* the ROLES rows
  roleRows,   \* [Ids -> SUBSET Roles], the committed USERS_ROLES rows
  req,        \* [Requests -> Request], the requests in flight
  locks,      \* the transactions that hold the gap lock of their user's rows
  free        \* connections of the pool that no transaction holds

vars == <<users, catalogue, roleRows, req, locks, free>>

-----------------------------------------------------------------------------
Account == [name: Names \cup {NoValue}, mail: Mails \cup {NoValue}]
NoAccount == [name |-> NoValue, mail |-> NoValue]

InTransaction == {"begin", "delete", "insertRole", "commit", "rollback"}
Querying == {"findName", "findMail", "insertUser", "reload", "findRole", "findUuid",
             "enrich"}
Stage == {"idle", "hash", "connect", "answer"} \cup InTransaction \cup Querying
Status == {"none", "created", "ok", "invalid", "notFound", "conflict", "error"}

Request == [pc: Stage,
            op: {"none", "register", "updateRoles"},
            name: Names \cup {NoValue},
            mail: Mails \cup {NoValue},
            user: Ids \cup {NoValue},
            roles: SUBSET Roles,      \* the roles to assign
            left: SUBSET Roles,       \* those a loop has still to visit
            deleted: SUBSET Roles,    \* rows the transaction has deleted
            inserted: SUBSET Roles,   \* rows the transaction has inserted
            status: Status]

NoRequest == [pc |-> "idle", op |-> "none", name |-> NoValue, mail |-> NoValue,
              user |-> NoValue, roles |-> {}, left |-> {}, deleted |-> {},
              inserted |-> {}, status |-> "none"]

Init ==
  /\ users = [u \in Ids |-> IF u = Bootstrap
                            THEN [name |-> BootName, mail |-> BootMail]
                            ELSE NoAccount]
  /\ catalogue = Seeded
  /\ roleRows = [u \in Ids |-> IF u = Bootstrap THEN BootRoles ELSE {}]
  /\ req = [r \in Requests |-> NoRequest]
  /\ locks = {}
  /\ free = PoolSize

-----------------------------------------------------------------------------
(* Helpers *)

Exists(u) == users[u].name # NoValue
NameTaken(n) == \E u \in Ids : users[u].name = n
MailTaken(m) == \E u \in Ids : users[u].mail = m

\* Mutant of Duplicate: no unique key on the address.
DuplicateNameOnly(n, m) == NameTaken(n)

\* UK_USERS_USERNAME and UK_USERS_EMAIL.
Duplicate(n, m) == NameTaken(n) \/ MailTaken(m)

\* pool.query and pool.getConnection wait for a connection; the queue of
\* waiters has no limit.
ConnectionFree == free > 0

\* Bound: a registration arrives only while an id is left for each one that
\* may still insert.
Inserting == {r \in Requests : req[r].op = "register" /\ req[r].user = NoValue}
IdsLeft == Cardinality(Inserting) < Cardinality({u \in Ids : ~Exists(u)})

Goto(r, stage) == req' = [req EXCEPT ![r].pc = stage]

Answer(r, s) == req' = [req EXCEPT ![r] = [@ EXCEPT !.pc = "answer", !.status = s]]

\* Other transactions past their DELETE on the same user's rows.
Rivals(r) == {s \in locks \ {r} : req[s].user = req[r].user}

\* A transaction that deleted or inserted a row holds its record lock.
HasWritten(s) == req[s].deleted # {} \/ req[s].inserted # {}

\* The transaction of r ends: its locks go, and the request goes on at stage.
EndTransaction(r, stage) ==
  /\ req' = [req EXCEPT ![r] = [@ EXCEPT !.pc = stage, !.deleted = {}, !.inserted = {}]]
  /\ locks' = locks \ {r}

\* What a commit makes of the committed rows of the user.
Written(r) == (roleRows[req[r].user] \ req[r].deleted) \cup req[r].inserted

Publish(r) == roleRows' = [roleRows EXCEPT ![req[r].user] = Written(r)]
-----------------------------------------------------------------------------
(* Arrivals.  Malformed bodies are answered 400 before any statement and   *)
(* are not modelled.  The callers of updateRoles are administrators; NoValue*)
(* is a UUID of no account.  No code deletes an account, and an operator   *)
(* who does is left out here: Grants and UserViews have that.              *)

ArriveRegister(r, n, m) ==
  /\ req[r].pc = "idle" /\ IdsLeft
  /\ req' = [req EXCEPT ![r] = [NoRequest EXCEPT !.pc = "findName", !.op = "register",
                                 !.name = n, !.mail = m, !.roles = {Citizen}]]
  /\ UNCHANGED <<users, catalogue, roleRows, locks, free>>

ArriveUpdateRoles(r, u, R) ==
  /\ req[r].pc = "idle"
  /\ req' = [req EXCEPT ![r] = [NoRequest EXCEPT !.pc = "findRole", !.op = "updateRoles",
                                 !.user = u, !.roles = R, !.left = R]]
  /\ UNCHANGED <<users, catalogue, roleRows, locks, free>>

-----------------------------------------------------------------------------
(* AuthService.register, up to the transaction. *)

FindName(r) ==
  /\ req[r].pc = "findName" /\ ConnectionFree
  /\ IF NameTaken(req[r].name) THEN Answer(r, "conflict") ELSE Goto(r, "findMail")
  /\ UNCHANGED <<users, catalogue, roleRows, locks, free>>

FindMail(r) ==
  /\ req[r].pc = "findMail" /\ ConnectionFree
  /\ IF MailTaken(req[r].mail) THEN Answer(r, "conflict") ELSE Goto(r, "hash")
  /\ UNCHANGED <<users, catalogue, roleRows, locks, free>>

\* bcrypt.hash
Hash(r) ==
  /\ req[r].pc = "hash"
  /\ Goto(r, "insertUser")
  /\ UNCHANGED <<users, catalogue, roleRows, locks, free>>

\* The INSERT commits by itself.  ER_DUP_ENTRY becomes a ConflictError.  When
\* the connection breaks after the commit the request fails and the row stays.
InsertUser(r) ==
  /\ req[r].pc = "insertUser" /\ ConnectionFree
  /\ \/ /\ Duplicate(req[r].name, req[r].mail)
        /\ Answer(r, "conflict") /\ UNCHANGED users
     \/ /\ ~Duplicate(req[r].name, req[r].mail)
        /\ \E u \in Ids :
             /\ ~Exists(u)
             /\ users' = [users EXCEPT ![u] = [name |-> req[r].name, mail |-> req[r].mail]]
             /\ \/ req' = [req EXCEPT ![r] = [@ EXCEPT !.pc = "reload", !.user = u]]
                \/ req' = [req EXCEPT ![r] = [@ EXCEPT !.pc = "answer", !.user = u,
                                                       !.status = "error"]]
  /\ UNCHANGED <<catalogue, roleRows, locks, free>>

Reload(r) ==
  /\ req[r].pc = "reload" /\ ConnectionFree
  /\ req' = [req EXCEPT ![r] = [@ EXCEPT !.pc = "connect", !.left = req[r].roles]]
  /\ UNCHANGED <<users, catalogue, roleRows, locks, free>>

-----------------------------------------------------------------------------
(* UserPersistenceServiceImpl.updateRoles, up to the transaction. *)

\* One findByName of the loop.  The array's order is any order of the set.
FindRole(r) ==
  /\ req[r].pc = "findRole" /\ ConnectionFree
  /\ \E role \in req[r].left :
       \/ role \notin catalogue /\ Answer(r, "invalid")
       \/ /\ role \in catalogue
          /\ req' = [req EXCEPT ![r] = [@ EXCEPT
               !.left = req[r].left \ {role},
               !.pc = IF req[r].left = {role} THEN "findUuid" ELSE "findRole"]]
  /\ UNCHANGED <<users, catalogue, roleRows, locks, free>>

FindUuid(r) ==
  /\ req[r].pc = "findUuid" /\ ConnectionFree
  /\ IF req[r].user # NoValue
     THEN req' = [req EXCEPT ![r] = [@ EXCEPT !.pc = "connect", !.left = req[r].roles]]
     ELSE Answer(r, "notFound")
  /\ UNCHANGED <<users, catalogue, roleRows, locks, free>>

-----------------------------------------------------------------------------
(* The transaction that both operations run: RoleRepository.assignRoles    *)
(* between beginTransaction and commit.                                    *)

Connect(r) ==
  /\ req[r].pc = "connect" /\ ConnectionFree
  /\ free' = free - 1
  /\ Goto(r, "begin")
  /\ UNCHANGED <<users, catalogue, roleRows, locks>>

Begin(r) ==
  /\ req[r].pc = "begin"
  /\ Goto(r, "delete")
  /\ UNCHANGED <<users, catalogue, roleRows, locks, free>>

\* Mutant of DeleteRoles: the new roles are added to the old ones.
DeleteNoRoles(r) ==
  /\ req[r].pc = "delete"
  /\ \A s \in Rivals(r) : ~HasWritten(s)
  /\ Goto(r, "insertRole")
  /\ locks' = locks \cup {r}
  /\ UNCHANGED <<users, catalogue, roleRows, free>>

\* DELETE FROM USERS_ROLES WHERE USER_ID = ?: it waits for record locks on the
\* user's rows, deletes what is committed, and locks the gap.  Gap locks are
\* compatible: on a user without rows two transactions both hold one.
DeleteRoles(r) ==
  /\ req[r].pc = "delete"
  /\ \A s \in Rivals(r) : ~HasWritten(s)
  /\ req' = [req EXCEPT ![r] = [@ EXCEPT !.pc = "insertRole", !.deleted = roleRows[req[r].user]]]
  /\ locks' = locks \cup {r}
  /\ UNCHANGED <<users, catalogue, roleRows, free>>

\* One INSERT IGNORE ... SELECT of the loop: it waits for the gap locks of
\* other transactions, and skips a name that is not in ROLES.
InsertRole(r) ==
  /\ req[r].pc = "insertRole" /\ Rivals(r) = {}
  /\ \E role \in req[r].left :
       req' = [req EXCEPT ![r] = [@ EXCEPT
         !.inserted = req[r].inserted \cup ({role} \cap catalogue),
         !.left = req[r].left \ {role},
         !.pc = IF req[r].left = {role} THEN "commit" ELSE "insertRole"]]
  /\ UNCHANGED <<users, catalogue, roleRows, locks, free>>

\* Two inserts wait for each other's gap lock: InnoDB rolls one back.
DeadlockVictim(r) ==
  /\ req[r].pc = "insertRole"
  /\ \E s \in Rivals(r) : req[s].pc = "insertRole"
  /\ EndTransaction(r, "rollback")
  /\ UNCHANGED <<users, catalogue, roleRows, free>>

\* Mutant of Commit: the connection is released twice.
CommitReleasingTwice(r) ==
  /\ req[r].pc = "commit"
  /\ Publish(r)
  /\ EndTransaction(r, "enrich") /\ free' = free + 2
  /\ UNCHANGED <<users, catalogue>>

\* COMMIT, then the release of the finally block.  When the connection breaks
\* the commit may have happened although the request goes to its rollback.
Commit(r) ==
  /\ req[r].pc = "commit"
  /\ Publish(r)
  /\ \/ EndTransaction(r, "enrich") /\ free' = free + 1
     \/ EndTransaction(r, "rollback") /\ UNCHANGED free
  /\ UNCHANGED <<users, catalogue>>

\* Mutants of Rollback: the error is not thrown again; no release on this path.
RollbackSwallowed(r) ==
  /\ req[r].pc = "rollback"
  /\ EndTransaction(r, "enrich")
  /\ free' = free + 1
  /\ UNCHANGED <<users, catalogue, roleRows>>

RollbackWithoutRelease(r) ==
  /\ req[r].pc = "rollback"
  /\ req' = [req EXCEPT ![r] = [@ EXCEPT !.pc = "answer", !.status = "error",
                                           !.deleted = {}, !.inserted = {}]]
  /\ locks' = locks \ {r}
  /\ UNCHANGED <<users, catalogue, roleRows, free>>

\* catch: rollback and throw; finally: release.  A rollback that rejects runs
\* on a broken connection, whose transaction MySQL has rolled back itself.
Rollback(r) ==
  /\ req[r].pc = "rollback"
  /\ req' = [req EXCEPT ![r] = [@ EXCEPT !.pc = "answer", !.status = "error",
                                           !.deleted = {}, !.inserted = {}]]
  /\ locks' = locks \ {r}
  /\ free' = free + 1
  /\ UNCHANGED <<users, catalogue, roleRows>>

\* The roles of the answer are read after the transaction, from the pool.
Enrich(r) ==
  /\ req[r].pc = "enrich" /\ ConnectionFree
  /\ Answer(r, IF req[r].op = "register" THEN "created" ELSE "ok")
  /\ UNCHANGED <<users, catalogue, roleRows, locks, free>>

-----------------------------------------------------------------------------
(* Failures, answers, and the world around the process. *)

\* Mutant of Fail: every error of the driver is taken for a duplicate.
FailAsConflict(r) ==
  /\ \/ req[r].pc \in Querying \cup {"connect"} /\ ConnectionFree /\ Answer(r, "conflict")
     \/ req[r].pc = "hash" /\ Answer(r, "error")
     \/ req[r].pc \in InTransaction \ {"rollback"} /\ Goto(r, "rollback")
  /\ UNCHANGED <<users, catalogue, roleRows, locks, free>>

\* An awaited call rejects and left no effect: outside a transaction the error
\* is the answer, inside one the catch block comes first.
Fail(r) ==
  /\ \/ /\ req[r].pc \in Querying \cup {"connect"} /\ ConnectionFree
        /\ Answer(r, "error")
     \/ req[r].pc = "hash" /\ Answer(r, "error")
     \/ req[r].pc \in InTransaction \ {"rollback"} /\ Goto(r, "rollback")
  /\ UNCHANGED <<users, catalogue, roleRows, locks, free>>

Respond(r) ==
  /\ req[r].pc = "answer"
  /\ req' = [req EXCEPT ![r] = NoRequest]
  /\ UNCHANGED <<users, catalogue, roleRows, locks, free>>

\* The process dies and restarts: MySQL rolls its transactions back.
Crash ==
  /\ \E r \in Requests : req[r].pc # "idle"
  /\ req' = [r \in Requests |-> NoRequest]
  /\ locks' = {}
  /\ free' = PoolSize
  /\ UNCHANGED <<users, catalogue, roleRows>>

\* scripts/create-role.js: the SELECT before the INSERT decides no more than
\* UK_ROLES_NAME does.
CreateRole(role) ==
  /\ role \notin catalogue
  /\ catalogue' = catalogue \cup {role}
  /\ UNCHANGED <<users, roleRows, req, locks, free>>

-----------------------------------------------------------------------------
Arrive(r) ==
  \/ \E n \in Names, m \in Mails : ArriveRegister(r, n, m)
  \/ \E u \in {v \in Ids : Exists(v)} \cup {NoValue}, R \in (SUBSET Roles) \ {{}} :
       ArriveUpdateRoles(r, u, R)

\* The steps of an accepted request, when no call fails.
Step(r) ==
  \/ FindName(r) \/ FindMail(r) \/ Hash(r) \/ InsertUser(r) \/ Reload(r)
  \/ FindRole(r) \/ FindUuid(r)
  \/ Connect(r) \/ Begin(r) \/ DeleteRoles(r) \/ InsertRole(r) \/ DeadlockVictim(r)
  \/ Commit(r) \/ Rollback(r) \/ Enrich(r)
  \/ Respond(r)

Next ==
  \/ \E r \in Requests : Arrive(r) \/ Step(r) \/ Fail(r)
  \/ Crash
  \/ \E role \in Roles : CreateRole(role)

Spec == Init /\ [][Next]_vars

\* The event loop serves every pending continuation.  The pool serves its
\* waiters first come, first served, and InnoDB its lock waiters, so a request
\* that can proceed again and again is not passed over for ever.
Fairness == \A r \in Requests : SF_vars(Step(r))

FairSpec == Spec /\ Fairness
-----------------------------------------------------------------------------
(* Properties. *)

\* Type correctness of the tables, the requests, the locks and the pool.
TypeOK ==
  /\ users \in [Ids -> Account]
  /\ catalogue \in SUBSET Roles
  /\ roleRows \in [Ids -> SUBSET Roles]
  /\ req \in [Requests -> Request]
  /\ locks \in SUBSET Requests
  /\ free \in 0..PoolSize

\* Registrations that overlap between the two lookups and the INSERT still
\* give a username and an address to one account only.
OneAccountEach ==
  \A u, v \in Ids :
    Exists(u) /\ Exists(v) /\ (users[u].name = users[v].name \/ users[u].mail = users[v].mail)
      => u = v

\* An answer 409 is the truth, whether the lookup or the constraint found the
\* duplicate: the username or the address belongs to an account.
ConflictIsReal ==
  \A r \in Requests : req[r].status = "conflict" => Duplicate(req[r].name, req[r].mail)

\* An account whose registration was answered 201 exists, under the name asked
\* for, and has roles, whatever role updates overlap with it.
CreatedHasRoles ==
  \A r \in Requests : req[r].status = "created" =>
    /\ req[r].user # NoValue
    /\ users[req[r].user] = [name |-> req[r].name, mail |-> req[r].mail]
    /\ roleRows[req[r].user] # {}

\* The roles of a user change only as a whole, to what one request asked for:
\* no interleaving of two transactions leaves the union of two requests, a
\* part of one, or none at all.
RoleWritesAreWhole ==
  [][\A u \in Ids : roleRows'[u] # roleRows[u] =>
       \E r \in Requests : /\ req[r].pc = "commit" /\ req[r].user = u
                           /\ roleRows'[u] = req[r].roles]_vars

\* Every connection is in the pool or in the hands of one transaction: no path
\* through commit, rollback, deadlock or failure loses or doubles one.
NoConnectionLost ==
  free + Cardinality({r \in Requests : req[r].pc \in InTransaction}) = PoolSize

\* Every accepted request is answered, with fewer connections than requests too:
\* no request waits for a connection while it holds one, and every cycle of lock
\* waits is broken.
EveryRequestEnds ==
  \A r \in Requests : req[r].pc # "idle" ~> req[r].pc = "idle"

\* "Registers a new user with the default CITIZEN role" (AuthService.js): an
\* account has a role, or its registration is still on its way.  Not an
\* invariant: the INSERT into USERS commits before the transaction begins.
RegistrationIsWhole ==
  \A u \in Ids : Exists(u) /\ roleRows[u] = {} =>
    \E r \in Requests : /\ req[r].op = "register" /\ req[r].user = u
                        /\ req[r].pc \in {"reload", "connect"} \cup InTransaction
=============================================================================
