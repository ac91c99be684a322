----------------------------- MODULE UserViews ------------------------------
(***************************************************************************)
(* What clients are shown of users and their roles: the list of users,     *)
(* userinfo, and the answer to a role update.  Each reads USERS and        *)
(* USERS_ROLES in statements of their own, outside any transaction, while  *)
(* registrations, role updates and operators change both tables.           *)
(*                                                                         *)
(* The database is the sequence of its committed versions; a statement     *)
(* reads the last one.  A role transaction commits as a whole: that is     *)
(* RoleWritesAreWhole of Accounts, where its statements are modelled.      *)
(* A user is shown as [id, roles]: the columns that clients are shown (id, *)
(* uuid, username, email) never change while the row is there, so the id   *)
(* stands for them.  An operator may flip ENABLED, which nobody is shown.  *)
(***************************************************************************)
EXTENDS Naturals, Sequences

CONSTANTS
  Ids,          \* USERS.id
  Roles,        \* role names in the catalogue
  Requests,     \* slots for requests in flight
  Default,      \* CITIZEN
  Bootstrap, BootRoles,  \* the account of 01_init.sql and its roles
  MaxVersions   \* bound on the number of versions of the database

ASSUME UserViewsAssumption ==
  /\ Default \in Roles /\ Bootstrap \in Ids
  /\ BootRoles \in (SUBSET Roles) \ {{}}
  /\ MaxVersions \in Nat \ {0}

VARIABLES
  versions,     \* the committed versions of USERS and USERS_ROLES, oldest first
  registering,  \* the accounts whose registration has not assigned roles yet
  req           \* [Requests -> Request], the requests in flight

vars == <<versions, registering, req>>

-----------------------------------------------------------------------------
Version == [ids: SUBSET Ids, roles: [Ids -> SUBSET Roles]]
DTO == [id: Ids, roles: SUBSET Roles]

Request == [pc: {"idle", "find", "commit", "enrich", "answer"},
            op: {"none", "list", "userinfo", "updateRoles"},
            ids: SUBSET Ids,       \* the user it is about
            asked: SUBSET Roles,   \* the roles an update assigns
            dtos: SUBSET DTO,      \* the users read so far
            arrived: Nat,          \* history: the version it arrived at
            from: Nat,             \* history: the version its answer may not precede
            status: {"none", "ok", "unauthorized", "notFound", "error"}]

NoRequest == [pc |-> "idle", op |-> "none", ids |-> {}, asked |-> {}, dtos |-> {},
              arrived |-> 0, from |-> 0, status |-> "none"]

Init ==
  /\ versions = <<[ids |-> {Bootstrap},
                   roles |-> [u \in Ids |-> IF u = Bootstrap THEN BootRoles ELSE {}]]>>
  /\ registering = {}
  /\ req = [r \in Requests |-> NoRequest]

db == versions[Len(versions)]

\* A write transaction commits: a new version.
Commit(ids, roles) ==
  /\ Len(versions) < MaxVersions
  /\ versions' = Append(versions, [ids |-> ids, roles |-> roles])

\* Mutant of ToDTOs: the roles of an entity are null if nobody set them.
ToDTOsUnguarded(ids) == {[id |-> u, roles |-> {"null"}] : u \in ids}

\* The rows of USERS as DTOs: without roles until _enrichRoles reads them.
ToDTOs(ids) == {[id |-> u, roles |-> {}] : u \in ids}

\* Mutant of Enriched: a user without rows is shown with the default role.
EnrichedWithDefault(dtos) ==
  {[id |-> d.id, roles |-> IF db.roles[d.id] = {} THEN {Default} ELSE db.roles[d.id]] :
     d \in dtos}

\* Mutant of Enriched: a connection that never ended its transaction reads the
\* snapshot it began with.
EnrichedOldSnapshot(dtos) ==
  {[id |-> d.id, roles |-> versions[1].roles[d.id]] : d \in dtos}

\* SELECT ... FROM USERS_ROLES JOIN ROLES: the roles of each user of the DTOs
\* read before; a user without rows has the empty list.
Enriched(dtos) == {[id |-> d.id, roles |-> db.roles[d.id]] : d \in dtos}

\* Mutant of Replaced: the roles are added to those the user has.
ReplacedAdding(u, asked) == IF u \in db.ids THEN db.roles[u] \cup asked ELSE {}

\* assignRoles: DELETE and INSERT IGNORE.  For a user deleted since the lookup
\* the foreign key rejects the rows, and IGNORE drops them.
Replaced(u, asked) == IF u \in db.ids THEN asked ELSE {}

-----------------------------------------------------------------------------
(* Requests *)

Throw(r, status) == req' = [req EXCEPT ![r].status = status, ![r].pc = "answer"]

Arrive(r, op, ids, asked) ==
  /\ req[r].pc = "idle"
  /\ req' = [req EXCEPT ![r] = [pc |-> "find", op |-> op, ids |-> ids, asked |-> asked,
                                dtos |-> {}, arrived |-> Len(versions),
                                from |-> Len(versions), status |-> "none"]]
  /\ UNCHANGED <<versions, registering>>

ArriveList(r) == Arrive(r, "list", {}, {})
ArriveUserinfo(r) == \E u \in Ids : Arrive(r, "userinfo", {u}, {})
ArriveUpdateRoles(r) ==
  \E u \in Ids, asked \in (SUBSET Roles) \ {{}} : Arrive(r, "updateRoles", {u}, asked)

\* userRepository.listAll.  An empty table needs no second statement.
ListAll(r) ==
  /\ req[r].pc = "find" /\ req[r].op = "list"
  /\ req' = [req EXCEPT ![r].dtos = ToDTOs(db.ids),
                        ![r].pc = IF db.ids = {} THEN "answer" ELSE "enrich",
                        ![r].status = IF db.ids = {} THEN "ok" ELSE "none"]
  /\ UNCHANGED <<versions, registering>>

\* findByExternalUuid for userinfo and for a role update, whose loop over the
\* role names is in Accounts.
FindByUuid(r) ==
  /\ req[r].pc = "find" /\ req[r].op # "list"
  /\ \/ /\ req[r].ids \subseteq db.ids
        /\ req' = [req EXCEPT ![r].dtos = ToDTOs(req[r].ids),
                              ![r].pc = IF req[r].op = "userinfo" THEN "enrich" ELSE "commit"]
     \/ /\ ~ req[r].ids \subseteq db.ids
        /\ Throw(r, IF req[r].op = "userinfo" THEN "unauthorized" ELSE "notFound")
  /\ UNCHANGED <<versions, registering>>

\* The transaction of updateRoles.
CommitRoles(r) ==
  /\ req[r].pc = "commit"
  /\ Commit(db.ids, [u \in Ids |-> IF u \in req[r].ids THEN Replaced(u, req[r].asked)
                                   ELSE db.roles[u]])
  /\ req' = [req EXCEPT ![r].pc = "enrich", ![r].from = Len(versions) + 1]
  /\ UNCHANGED registering

\* The second SELECT, from the pool: after the transaction, for an update.
Enrich(r) ==
  /\ req[r].pc = "enrich"
  /\ req' = [req EXCEPT ![r].dtos = Enriched(@), ![r].pc = "answer", ![r].status = "ok"]
  /\ UNCHANGED <<versions, registering>>

\* A statement rejects, before the commit of an update or after it.
Fail(r) ==
  /\ req[r].pc \in {"find", "commit", "enrich"}
  /\ Throw(r, "error")
  /\ UNCHANGED <<versions, registering>>

Respond(r) ==
  /\ req[r].pc = "answer"
  /\ req' = [req EXCEPT ![r] = NoRequest]
  /\ UNCHANGED <<versions, registering>>

-----------------------------------------------------------------------------
(* The other writers *)

\* The two commits of a registration: the INSERT into USERS, and the roles, in
\* place of any that a role update gave the user in between.
InsertUser(u) ==
  /\ \A k \in DOMAIN versions : u \notin versions[k].ids
  /\ Commit(db.ids \cup {u}, db.roles)
  /\ registering' = registering \cup {u}
  /\ UNCHANGED req

AssignDefault(u) ==
  /\ u \in registering
  /\ Commit(db.ids, [db.roles EXCEPT ![u] = Replaced(u, {Default})])
  /\ registering' = registering \ {u}
  /\ UNCHANGED req

\* An operator deletes an account; the cascade removes its roles.
Delete(u) ==
  /\ u \in db.ids
  /\ Commit(db.ids \ {u}, [db.roles EXCEPT ![u] = {}])
  /\ UNCHANGED <<req, registering>>

Step(r) ==
  \/ ArriveList(r) \/ ArriveUserinfo(r) \/ ArriveUpdateRoles(r)
  \/ ListAll(r) \/ FindByUuid(r) \/ CommitRoles(r) \/ Enrich(r) \/ Fail(r) \/ Respond(r)

Next ==
  \/ \E r \in Requests : Step(r)
  \/ \E u \in Ids : InsertUser(u) \/ AssignDefault(u) \/ Delete(u)

Spec == Init /\ [][Next]_vars

-----------------------------------------------------------------------------
(* Properties *)

\* Type correctness of the versions and the requests.
TypeOK ==
  /\ versions \in Seq(Version) /\ Len(versions) \in 1..MaxVersions
  /\ registering \in SUBSET Ids
  /\ req \in [Requests -> Request]

Answered(r, op) == req[r].pc = "answer" /\ req[r].op = op /\ req[r].status = "ok"
Since(k) == k..Len(versions)

\* The list of users is made of two moments since its request arrived: the
\* accounts are exactly those of one, the roles of all of them those of one
\* later moment.  Nobody is missing, and no two users are shown with roles
\* that were never in the database together.
ListIsOfTwoMoments ==
  \A r \in Requests : Answered(r, "list") =>
    \E j \in Since(req[r].from) : \E k \in Since(j) :
      /\ {d.id : d \in req[r].dtos} = versions[j].ids
      /\ \A d \in req[r].dtos : d.roles = versions[k].roles[d.id]

\* Userinfo and the answer to a role update show one user that was there at a
\* moment of the request, with the roles of one later moment, for an update not
\* before its own commit: either the user as it was at that later moment, or,
\* deleted in between, without roles.  Roles are never shown of an account
\* that did not have them, nor an account that was not there.
AnswerIsOfOneMoment ==
  \A r \in Requests : Answered(r, "userinfo") \/ Answered(r, "updateRoles") =>
    /\ {d.id : d \in req[r].dtos} = req[r].ids
    /\ \E k \in Since(req[r].from) :
         /\ \E j \in req[r].arrived..k : req[r].ids \subseteq versions[j].ids
         /\ \A d \in req[r].dtos :
              /\ d.roles = versions[k].roles[d.id]
              /\ d.id \in versions[k].ids \/ d.roles = {}

\* The answer to a role update shows the roles it asked for, unless a later
\* version changed them again, or the account was gone when it committed.
UpdateShowsItsWrite ==
  \A r \in Requests : Answered(r, "updateRoles") =>
    \A d \in req[r].dtos : d.roles # req[r].asked =>
      \/ d.id \notin versions[req[r].from].ids
      \/ \E k \in req[r].from + 1..Len(versions) :
           versions[k].roles[d.id] # versions[k - 1].roles[d.id]
=============================================================================
