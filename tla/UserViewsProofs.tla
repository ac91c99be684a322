-------------------------- MODULE UserViewsProofs ---------------------------
(***************************************************************************)
(* Theorems about UserViews, for any sets of users, roles and requests.    *)
(*                                                                         *)
(* The inductive invariant says of each request, stage by stage, what its  *)
(* DTOs show.  Versions are only appended, so what a request has read of   *)
(* one stays true (StageLasts).                                            *)
(***************************************************************************)
EXTENDS UserViews, TLAPS

IdsOf(dtos) == {d.id : d \in dtos}

ListAnswer(r) ==
  \E j \in Since(req[r].from) : \E k \in Since(j) :
    /\ IdsOf(req[r].dtos) = versions[j].ids
    /\ \A d \in req[r].dtos : d.roles = versions[k].roles[d.id]

OneAnswer(r) ==
  /\ IdsOf(req[r].dtos) = req[r].ids
  /\ \E k \in Since(req[r].from) :
       /\ \E j \in req[r].arrived..k : req[r].ids \subseteq versions[j].ids
       /\ \A d \in req[r].dtos :
            d.roles = versions[k].roles[d.id] /\ (d.id \in versions[k].ids \/ d.roles = {})

\* The user was gone at the commit, or its roles have been changed since.
Overtaken(r, u) ==
  \/ u \notin versions[req[r].from].ids
  \/ \E k \in req[r].from + 1..Len(versions) :
       versions[k].roles[u] # versions[k - 1].roles[u]

\* What the first SELECT found.
FindInv(r) ==
  /\ req[r].pc \in {"commit", "enrich"} /\ req[r].op # "list" =>
       /\ IdsOf(req[r].dtos) = req[r].ids
       /\ \E j \in req[r].arrived..Len(versions) : req[r].ids \subseteq versions[j].ids
  /\ req[r].pc = "enrich" /\ req[r].op = "list" =>
       \E j \in Since(req[r].from) : IdsOf(req[r].dtos) = versions[j].ids

\* What an update finds of its own write.
WriteInv(r) ==
  req[r].pc = "enrich" /\ req[r].op = "updateRoles" =>
    \A u \in req[r].ids : db.roles[u] = req[r].asked \/ Overtaken(r, u)

\* What an answer shows.
AnswerInv(r) ==
  req[r].pc = "answer" /\ req[r].status = "ok" =>
    /\ req[r].op = "list" => ListAnswer(r)
    /\ req[r].op # "list" => OneAnswer(r)
    /\ req[r].op = "updateRoles" =>
         \A d \in req[r].dtos : d.roles = req[r].asked \/ Overtaken(r, d.id)

StageInv(r) ==
  /\ req[r].pc # "idle" =>
       /\ req[r].from \in 1..Len(versions) /\ req[r].arrived \in 1..Len(versions)
       /\ req[r].op # "none"
  /\ req[r].pc = "commit" => req[r].op = "updateRoles"
  /\ FindInv(r) /\ WriteInv(r) /\ AnswerInv(r)

\* No version has roles of an account that is not there: they are deleted with
\* it, and INSERT IGNORE drops those of a deleted one.
RolesOfAccounts(v) == \A u \in Ids : v.roles[u] # {} => u \in v.ids

RolesHaveAccounts == \A k \in 1..Len(versions) : RolesOfAccounts(versions[k])

IInv == TypeOK /\ RolesHaveAccounts /\ \A r \in Requests : StageInv(r)

-----------------------------------------------------------------------------
(* The operators *)

LEMMA ToDTOsShow ==
  ASSUME NEW ids \in SUBSET Ids
  PROVE  ToDTOs(ids) \in SUBSET DTO /\ IdsOf(ToDTOs(ids)) = ids
<1>1. \A d \in ToDTOs(ids) : d \in DTO /\ d.id \in ids
  BY DEF ToDTOs, DTO
<1>2. \A u \in ids : [id |-> u, roles |-> {}] \in ToDTOs(ids)
  BY DEF ToDTOs
<1>3. \A u \in ids : u \in IdsOf(ToDTOs(ids))
  <2>1. \A u \in ids : [id |-> u, roles |-> {}].id = u
    OBVIOUS
  <2>2. QED
    BY <1>2, <2>1, Zenon DEF IdsOf
<1>4. \A u \in IdsOf(ToDTOs(ids)) : u \in ids
  BY <1>1 DEF IdsOf
<1>5. QED
  BY <1>1, <1>3, <1>4

\* A statement reads the last version, and every version has its type.
LEMMA VersionTypes ==
  ASSUME TypeOK
  PROVE  /\ db \in Version
         /\ \A k \in 1..Len(versions) : versions[k] \in Version
         /\ Len(versions) \in Nat \ {0} /\ Len(versions) \in 1..Len(versions)
<1>1. Len(versions) \in Nat \ {0} /\ Len(versions) \in 1..Len(versions)
  BY UserViewsAssumption DEF TypeOK
<1>2. \A k \in 1..Len(versions) : versions[k] \in Version
  <2>1. versions \in Seq(Version)
    BY DEF TypeOK
  <2>2. QED
    BY <2>1
<1>3. QED
  BY <1>1, <1>2 DEF db

LEMMA EnrichedShows ==
  ASSUME TypeOK, NEW dtos \in SUBSET DTO
  PROVE  /\ Enriched(dtos) \in SUBSET DTO
         /\ IdsOf(Enriched(dtos)) = IdsOf(dtos)
         /\ \A d \in Enriched(dtos) : d.roles = db.roles[d.id]
<1>1. db.roles \in [Ids -> SUBSET Roles]
  BY VersionTypes DEF Version
<1>2. \A d \in Enriched(dtos) :
        d \in DTO /\ d.roles = db.roles[d.id] /\ \E e \in dtos : d.id = e.id
  BY <1>1 DEF DTO, Enriched
<1>3. \A e \in dtos : [id |-> e.id, roles |-> db.roles[e.id]] \in Enriched(dtos)
  BY DEF Enriched
<1>4. \A e \in dtos : \E d \in Enriched(dtos) : e.id = d.id
  <2>1. \A e \in dtos : [id |-> e.id, roles |-> db.roles[e.id]].id = e.id
    OBVIOUS
  <2>2. QED
    BY <1>3, <2>1, Zenon
<1>5. IdsOf(Enriched(dtos)) = IdsOf(dtos)
  <2>1. \A u \in IdsOf(Enriched(dtos)) : u \in IdsOf(dtos)
    BY <1>2, Zenon DEF IdsOf
  <2>2. \A u \in IdsOf(dtos) : u \in IdsOf(Enriched(dtos))
    BY <1>4, Zenon DEF IdsOf
  <2>3. QED
    BY <2>1, <2>2
<1>6. Enriched(dtos) \in SUBSET DTO /\ \A d \in Enriched(dtos) : d.roles = db.roles[d.id]
  BY <1>2
<1>7. QED
  BY <1>5, <1>6, Zenon

\* A commit appends one version and changes none.
LEMMA CommitAppends ==
  ASSUME TypeOK, NEW ids \in SUBSET Ids, NEW roles \in [Ids -> SUBSET Roles],
         Commit(ids, roles)
  PROVE  /\ versions' \in Seq(Version) /\ Len(versions') \in 1..MaxVersions
         /\ Len(versions') = Len(versions) + 1
         /\ \A k \in 1..Len(versions) : versions'[k] = versions[k]
         /\ versions'[Len(versions')] = [ids |-> ids, roles |-> roles]
<1>1. [ids |-> ids, roles |-> roles] \in Version
  BY DEF Version
<1>. QED
  BY <1>1, UserViewsAssumption DEF TypeOK, Commit

-----------------------------------------------------------------------------
(* What a step leaves alone *)

\* Versions are appended, one at a time.
Appends ==
  /\ Len(versions') \in {Len(versions), Len(versions) + 1}
  /\ \A k \in 1..Len(versions) : versions'[k] = versions[k]

\* A request that a step leaves alone keeps what was said of it.
LEMMA StageLasts ==
  ASSUME TypeOK, Appends, NEW r \in Requests, StageInv(r), req'[r] = req[r]
  PROVE  StageInv(r)'
<1>1. Len(versions) \in Nat \ {0} /\ Len(versions') \in Nat
  BY VersionTypes DEF Appends
<1>2. CASE req[r].pc = "idle"
  BY <1>2 DEF StageInv, FindInv, WriteInv, AnswerInv
<1>3. CASE req[r].pc # "idle"
  <2>. DEFINE from == req[r].from
  <2>1. /\ from \in 1..Len(versions) /\ from \in 1..Len(versions')
        /\ req[r].arrived \in 1..Len(versions) /\ req[r].arrived \in 1..Len(versions')
    BY <1>1, <1>3 DEF StageInv, Appends
  <2>2. \A k \in from..Len(versions) : k \in from..Len(versions') /\ versions'[k] = versions[k]
    BY <1>1, <2>1 DEF Appends
  <2>3. \A k \in from + 1..Len(versions) :
          k \in from + 1..Len(versions') /\ versions'[k] = versions[k]
                                          /\ versions'[k - 1] = versions[k - 1]
    BY <1>1, <2>1 DEF Appends
  <2>4. ASSUME NEW u, Overtaken(r, u)  PROVE Overtaken(r, u)'
    BY <2>1, <2>2, <2>3, <2>4 DEF Overtaken
  <2>9. \A k \in req[r].arrived..Len(versions) :
          k \in req[r].arrived..Len(versions') /\ versions'[k] = versions[k]
    BY <1>1, <2>1 DEF Appends
  <2>5. FindInv(r)'
    BY <1>1, <2>2, <2>9 DEF StageInv, FindInv, Since
  <2>6. WriteInv(r)'
    <3>1. SUFFICES ASSUME req[r].pc = "enrich", req[r].op = "updateRoles",
                          NEW u \in req[r].ids
                   PROVE  db'.roles[u] = req[r].asked \/ Overtaken(r, u)'
      BY DEF WriteInv
    <3>2. db.roles[u] = req[r].asked \/ Overtaken(r, u)
      BY <3>1 DEF StageInv, WriteInv
    <3>3. CASE db'.roles[u] = db.roles[u]
      BY <2>4, <3>2, <3>3
    <3>4. CASE db'.roles[u] # db.roles[u]
      <4>1. Len(versions') = Len(versions) + 1
        BY <1>1, <3>4 DEF Appends, db
      <4>2. versions'[Len(versions')].roles[u] # versions'[Len(versions') - 1].roles[u]
        BY <1>1, <3>4, <4>1 DEF Appends, db
      <4>3. Len(versions') \in from + 1..Len(versions')
        BY <1>1, <2>1, <4>1
      <4>4. QED
        BY <4>2, <4>3 DEF Overtaken
    <3>5. QED
      BY <3>3, <3>4
  <2>7. AnswerInv(r)'
    <3>1. ListAnswer(r) => ListAnswer(r)'
      <4>1. SUFFICES ASSUME ListAnswer(r)  PROVE ListAnswer(r)'
        OBVIOUS
      <4>2. PICK j \in from..Len(versions) :
              /\ IdsOf(req[r].dtos) = versions[j].ids
              /\ \E k \in j..Len(versions) :
                   \A d \in req[r].dtos : d.roles = versions[k].roles[d.id]
        BY <4>1, Zenon DEF ListAnswer, Since
      <4>3. PICK k \in j..Len(versions) :
              \A d \in req[r].dtos : d.roles = versions[k].roles[d.id]
        BY <4>2
      <4>4. k \in from..Len(versions) /\ k \in j..Len(versions')
        BY <1>1, <2>1 DEF Appends
      <4>5. QED
        BY <2>2, <4>2, <4>4, <4>3 DEF ListAnswer, Since
    <3>2. OneAnswer(r) => OneAnswer(r)'
      <4>1. SUFFICES ASSUME OneAnswer(r)  PROVE OneAnswer(r)'
        OBVIOUS
      <4>2. PICK k \in from..Len(versions) :
              /\ \E j \in req[r].arrived..k : req[r].ids \subseteq versions[j].ids
              /\ \A d \in req[r].dtos :
                   /\ d.roles = versions[k].roles[d.id]
                   /\ d.id \in versions[k].ids \/ d.roles = {}
        BY <4>1, Zenon DEF OneAnswer, Since
      <4>3. \E j \in req[r].arrived..k : req[r].ids \subseteq versions'[j].ids
        BY <1>1, <2>1, <2>9, <4>2
      <4>4. k \in from..Len(versions') /\ versions'[k] = versions[k]
        BY <2>2, <4>2
      <4>5. QED
        BY <4>1, <4>2, <4>3, <4>4 DEF OneAnswer, Since
    <3>3. QED
      BY <2>4, <3>1, <3>2 DEF StageInv, AnswerInv
  <2>8. QED
    BY <2>1, <2>5, <2>6, <2>7 DEF StageInv
<1>4. QED
  BY <1>2, <1>3

-----------------------------------------------------------------------------
(* The invariant is inductive *)

LEMMA Initially == Init => IInv
<1>1. SUFFICES ASSUME Init  PROVE IInv
  OBVIOUS
<1>2. versions \in Seq(Version) /\ Len(versions) = 1
  BY <1>1, UserViewsAssumption DEF Init, Version
<1>3. NoRequest \in Request /\ NoRequest.pc = "idle"
  BY DEF NoRequest, Request
<1>4. TypeOK
  BY <1>1, <1>2, <1>3, UserViewsAssumption DEF Init, TypeOK
<1>5. RolesHaveAccounts
  <2>1. /\ versions[1].ids = {Bootstrap}
        /\ versions[1].roles = [u \in Ids |-> IF u = Bootstrap THEN BootRoles ELSE {}]
    BY <1>1 DEF Init
  <2>2. \A u \in Ids : versions[1].roles[u] # {} => u \in versions[1].ids
    BY <2>1
  <2>3. QED
    BY <1>2, <2>2 DEF RolesHaveAccounts, RolesOfAccounts
<1>6. QED
  BY <1>1, <1>3, <1>4, <1>5 DEF Init, IInv, StageInv, FindInv, WriteInv, AnswerInv

\* An appended version must not have roles of absent accounts.
LEMMA RolesKeepAccounts ==
  ASSUME IInv, Appends,
         Len(versions') # Len(versions) => RolesOfAccounts(versions'[Len(versions')])
  PROVE  RolesHaveAccounts'
<1>1. Len(versions) \in Nat
  BY VersionTypes DEF IInv
<1>2. ASSUME NEW k \in 1..Len(versions')  PROVE RolesOfAccounts(versions'[k])
  <2>1. CASE k \in 1..Len(versions)
    BY <2>1 DEF IInv, RolesHaveAccounts, Appends
  <2>2. CASE k \notin 1..Len(versions)
    BY <1>1, <1>2, <2>2 DEF Appends
  <2>3. QED
    BY <2>1, <2>2
<1>3. QED
  BY <1>2 DEF RolesHaveAccounts, RolesOfAccounts

\* What a step must do to keep the invariant: append a version with no roles of
\* absent accounts, or none, and keep the invariant of the request that acts.
LEMMA Suffices ==
  ASSUME IInv, TypeOK', RolesHaveAccounts', Appends, NEW r \in Requests, StageInv(r)',
         \A q \in Requests : q = r \/ req'[q] = req[q]
  PROVE  IInv'
<1>1. \A q \in Requests : req'[q] = req[q] => StageInv(q)'
  BY StageLasts DEF IInv
<1>2. QED
  BY <1>1 DEF IInv

LEMMA QuietAppends ==
  ASSUME IInv, UNCHANGED <<versions, registering>>, req' \in [Requests -> Request]
  PROVE  TypeOK' /\ RolesHaveAccounts' /\ Appends
BY DEF IInv, TypeOK, RolesHaveAccounts, Appends

LEMMA ArriveKeeps ==
  ASSUME IInv, NEW r \in Requests, NEW ids \in SUBSET Ids, NEW asked \in SUBSET Roles,
         NEW op \in {"list", "userinfo", "updateRoles"}, Arrive(r, op, ids, asked)
  PROVE  IInv'
<1>1. TypeOK /\ Len(versions) \in Nat \ {0} /\ UNCHANGED versions
  BY VersionTypes DEF IInv, Arrive
<1>. DEFINE new == [pc |-> "find", op |-> op, ids |-> ids, asked |-> asked, dtos |-> {},
                    arrived |-> Len(versions), from |-> Len(versions), status |-> "none"]
<1>2. new \in Request /\ req' = [req EXCEPT ![r] = new]
  <2>1. new \in Request
    BY <1>1 DEF Request
  <2>2. QED
    BY <2>1, Zenon DEF Arrive
<1>3. req' \in [Requests -> Request]
  BY <1>1, <1>2 DEF TypeOK
<1>4. TypeOK' /\ RolesHaveAccounts' /\ Appends
  BY <1>1, <1>3, QuietAppends DEF Arrive
<1>5. req'[r] = new /\ \A q \in Requests : q = r \/ req'[q] = req[q]
  BY <1>1, <1>2 DEF TypeOK
<1>6. StageInv(r)'
  BY <1>1, <1>5 DEF StageInv, FindInv, WriteInv, AnswerInv
<1>7. QED
  BY <1>4, <1>5, <1>6, Suffices

LEMMA ThrowKeeps ==
  ASSUME IInv, NEW r \in Requests, UNCHANGED <<versions, registering>>, req[r].pc # "idle",
         NEW status \in {"unauthorized", "notFound", "error"}, Throw(r, status)
  PROVE  IInv'
<1>1. TypeOK /\ req[r] \in Request /\ Len(versions) \in Nat
  BY VersionTypes DEF IInv, TypeOK
<1>2. req' \in [Requests -> Request] /\ \A q \in Requests : q = r \/ req'[q] = req[q]
  BY <1>1 DEF TypeOK, Throw, Request
<1>3. TypeOK' /\ RolesHaveAccounts' /\ Appends
  BY <1>1, <1>2, QuietAppends
<1>4. /\ req'[r].pc = "answer" /\ req'[r].status # "ok"
      /\ req'[r].from = req[r].from /\ req'[r].arrived = req[r].arrived
      /\ req'[r].op = req[r].op
  BY <1>1 DEF TypeOK, Throw, Request
<1>5. StageInv(r)'
  BY <1>4 DEF IInv, StageInv, FindInv, WriteInv, AnswerInv
<1>6. QED
  BY <1>2, <1>3, <1>5, Suffices

LEMMA RespondKeeps ==
  ASSUME IInv, NEW r \in Requests, Respond(r)
  PROVE  IInv'
<1>1. TypeOK /\ NoRequest \in Request /\ NoRequest.pc = "idle"
  BY DEF IInv, NoRequest, Request
<1>2. req' \in [Requests -> Request] /\ \A q \in Requests : q = r \/ req'[q] = req[q]
  BY <1>1 DEF TypeOK, Respond
<1>3. TypeOK' /\ RolesHaveAccounts' /\ Appends
  BY <1>1, <1>2, QuietAppends DEF Respond
<1>4. req'[r].pc = "idle"
  BY <1>1 DEF TypeOK, Respond
<1>5. StageInv(r)'
  BY <1>4 DEF StageInv, FindInv, WriteInv, AnswerInv
<1>6. QED
  BY <1>2, <1>3, <1>5, Suffices

LEMMA ListAllKeeps ==
  ASSUME IInv, NEW r \in Requests, ListAll(r)
  PROVE  IInv'
<1>1. TypeOK /\ req[r] \in Request /\ db.ids \in SUBSET Ids
  BY VersionTypes DEF IInv, TypeOK, Version
<1>2. ToDTOs(db.ids) \in SUBSET DTO /\ IdsOf(ToDTOs(db.ids)) = db.ids
  BY <1>1, ToDTOsShow
<1>3. req' \in [Requests -> Request] /\ \A q \in Requests : q = r \/ req'[q] = req[q]
  BY <1>1, <1>2 DEF TypeOK, ListAll, Request
<1>4. TypeOK' /\ RolesHaveAccounts' /\ Appends /\ versions' = versions
  BY <1>1, <1>3, QuietAppends DEF ListAll
<1>5. /\ req'[r].dtos = ToDTOs(db.ids) /\ req'[r].op = "list" /\ req'[r].from = req[r].from
      /\ req'[r].arrived = req[r].arrived
      /\ req'[r].pc \in {"answer", "enrich"}
      /\ req'[r].pc = "answer" => db.ids = {}
  BY <1>1 DEF TypeOK, ListAll, Request
<1>6. /\ req[r].from \in 1..Len(versions) /\ Len(versions) \in req[r].from..Len(versions)
      /\ req[r].arrived \in 1..Len(versions)
  <2>1. /\ req[r].from \in 1..Len(versions) /\ Len(versions) \in Nat
        /\ req[r].arrived \in 1..Len(versions)
    BY <1>1, VersionTypes DEF IInv, StageInv, ListAll
  <2>2. QED
    BY <2>1
<1>7. \E j \in req[r].from..Len(versions) :
        IdsOf(req'[r].dtos) = versions[j].ids
  BY <1>2, <1>5, <1>6 DEF db
<1>8. req'[r].pc = "answer" => ListAnswer(r)'
  <2>1. SUFFICES ASSUME db.ids = {}  PROVE ListAnswer(r)'
    BY <1>5
  <2>2. ToDTOs(db.ids) = {}
    BY <2>1 DEF ToDTOs
  <2>3. Len(versions) \in Len(versions)..Len(versions)
    BY <1>1, VersionTypes
  <2>4. QED
    BY <1>2, <1>4, <1>5, <1>6, <2>2, <2>3 DEF ListAnswer, Since, db
<1>9. StageInv(r)'
  BY <1>4, <1>5, <1>6, <1>7, <1>8 DEF StageInv, FindInv, WriteInv, AnswerInv, Since
<1>10. QED
  BY <1>3, <1>4, <1>9, Suffices

LEMMA FindByUuidKeeps ==
  ASSUME IInv, NEW r \in Requests, FindByUuid(r)
  PROVE  IInv'
<1>1. TypeOK /\ req[r] \in Request
  BY DEF IInv, TypeOK
<1>2. CASE req[r].ids \subseteq db.ids
  <2>1. /\ ToDTOs(req[r].ids) \in SUBSET DTO
        /\ IdsOf(ToDTOs(req[r].ids)) = req[r].ids
    BY <1>1, ToDTOsShow DEF Request
  <2>2. req' \in [Requests -> Request] /\ \A q \in Requests : q = r \/ req'[q] = req[q]
    BY <1>1, <1>2, <2>1 DEF TypeOK, FindByUuid, Request
  <2>3. TypeOK' /\ RolesHaveAccounts' /\ Appends
    BY <1>1, <2>2, QuietAppends DEF FindByUuid
  <2>4. /\ req'[r].dtos = ToDTOs(req[r].ids) /\ req'[r].ids = req[r].ids
        /\ req'[r].op = req[r].op /\ req[r].op # "list" /\ req'[r].from = req[r].from
        /\ req'[r].pc = IF req[r].op = "userinfo" THEN "enrich" ELSE "commit"
        /\ req'[r].arrived = req[r].arrived
        /\ req[r].pc = "find" /\ versions' = versions
    BY <1>1, <1>2 DEF TypeOK, FindByUuid, Request
  <2>5. req[r].op # "none"
    BY <2>4 DEF IInv, StageInv
  <2>6. req[r].op \in {"userinfo", "updateRoles"}
    BY <1>1, <2>4, <2>5 DEF Request
  <2>9. \E j \in req[r].arrived..Len(versions) : req[r].ids \subseteq versions[j].ids
    <3>1. Len(versions) \in Nat /\ req[r].arrived \in 1..Len(versions)
      BY <1>1, <2>4, VersionTypes DEF IInv, StageInv
    <3>2. Len(versions) \in req[r].arrived..Len(versions)
      BY <3>1
    <3>3. QED
      BY <1>2, <3>2 DEF db
  <2>7. StageInv(r)'
    BY <2>1, <2>4, <2>6, <2>9 DEF IInv, StageInv, FindInv, WriteInv, AnswerInv
  <2>8. QED
    BY <2>2, <2>3, <2>7, Suffices
<1>3. CASE ~ req[r].ids \subseteq db.ids
  <2>1. Throw(r, IF req[r].op = "userinfo" THEN "unauthorized" ELSE "notFound")
    BY <1>3 DEF FindByUuid
  <2>2. QED
    BY <2>1, ThrowKeeps DEF FindByUuid
<1>4. QED
  BY <1>2, <1>3

LEMMA EnrichKeeps ==
  ASSUME IInv, NEW r \in Requests, Enrich(r)
  PROVE  IInv'
<1>1. TypeOK /\ req[r] \in Request /\ req[r].pc = "enrich"
  BY DEF IInv, TypeOK, Enrich
<1>. DEFINE shown == Enriched(req[r].dtos)
<1>2. /\ shown \in SUBSET DTO /\ IdsOf(shown) = IdsOf(req[r].dtos)
      /\ \A d \in shown : d.roles = db.roles[d.id]
  BY <1>1, EnrichedShows DEF Request
<1>3. req' \in [Requests -> Request] /\ \A q \in Requests : q = r \/ req'[q] = req[q]
  BY <1>1, <1>2 DEF TypeOK, Enrich, Request
<1>4. TypeOK' /\ RolesHaveAccounts' /\ Appends /\ versions' = versions
  BY <1>1, <1>3, QuietAppends DEF Enrich
<1>5. /\ req'[r].dtos = shown /\ req'[r].ids = req[r].ids /\ req'[r].asked = req[r].asked
      /\ req'[r].op = req[r].op /\ req'[r].from = req[r].from /\ req'[r].pc = "answer"
      /\ req'[r].arrived = req[r].arrived
  BY <1>1 DEF TypeOK, Enrich, Request
<1>6. /\ Len(versions) \in Nat /\ req[r].from \in 1..Len(versions) /\ req[r].op # "none"
      /\ req[r].arrived \in 1..Len(versions)
  BY <1>1, VersionTypes DEF IInv, StageInv
<1>7. req[r].op = "list" => ListAnswer(r)'
  <2>1. SUFFICES ASSUME req[r].op = "list"  PROVE ListAnswer(r)'
    OBVIOUS
  <2>2. PICK j \in req[r].from..Len(versions) : IdsOf(req[r].dtos) = versions[j].ids
    BY <1>1, <2>1 DEF IInv, StageInv, FindInv, Since
  <2>3. Len(versions) \in j..Len(versions)
    BY <1>6
  <2>4. QED
    BY <1>2, <1>4, <1>5, <2>2, <2>3 DEF ListAnswer, Since, db
<1>8. req[r].op # "list" => OneAnswer(r)'
  <2>1. SUFFICES ASSUME req[r].op # "list"  PROVE OneAnswer(r)'
    OBVIOUS
  <2>2. /\ IdsOf(req[r].dtos) = req[r].ids
        /\ \E j \in req[r].arrived..Len(versions) : req[r].ids \subseteq versions[j].ids
    BY <1>1, <2>1 DEF IInv, StageInv, FindInv
  <2>3. Len(versions) \in req[r].from..Len(versions)
    BY <1>6
  <2>4. ASSUME NEW d \in shown  PROVE d.id \in db.ids \/ d.roles = {}
    <3>1. d.id \in Ids /\ Len(versions) \in 1..Len(versions)
      BY <1>1, <1>2, VersionTypes DEF DTO
    <3>2. db.roles[d.id] # {} => d.id \in db.ids
      BY <3>1 DEF IInv, RolesHaveAccounts, RolesOfAccounts, db
    <3>3. QED
      BY <1>2, <3>2
  <2>5. QED
    BY <1>2, <1>4, <1>5, <2>2, <2>3, <2>4 DEF OneAnswer, Since, db
<1>9. req[r].op = "updateRoles" =>
        \A d \in shown : d.roles = req[r].asked \/ Overtaken(r, d.id)'
  <2>1. SUFFICES ASSUME req[r].op = "updateRoles", NEW d \in shown
                 PROVE  d.roles = req[r].asked \/ Overtaken(r, d.id)'
    OBVIOUS
  <2>2. d.id \in IdsOf(shown)
    BY DEF IdsOf
  <2>3. d.id \in req[r].ids
    BY <1>1, <1>2, <2>1, <2>2 DEF IInv, StageInv, FindInv
  <2>4. db.roles[d.id] = req[r].asked \/ Overtaken(r, d.id)
    BY <1>1, <2>1, <2>3 DEF IInv, StageInv, WriteInv
  <2>5. QED
    BY <1>2, <1>4, <1>5, <2>4 DEF Overtaken
<1>10. StageInv(r)'
  BY <1>4, <1>5, <1>6, <1>7, <1>8, <1>9 DEF StageInv, FindInv, WriteInv, AnswerInv
<1>11. QED
  BY <1>3, <1>4, <1>10, Suffices

LEMMA CommitRolesKeeps ==
  ASSUME IInv, NEW r \in Requests, CommitRoles(r)
  PROVE  IInv'
<1>1. TypeOK /\ req[r] \in Request /\ req[r].pc = "commit" /\ db \in Version
  BY VersionTypes DEF IInv, TypeOK, CommitRoles
<1>. DEFINE roles == [u \in Ids |-> IF u \in req[r].ids THEN Replaced(u, req[r].asked)
                                   ELSE db.roles[u]]
<1>2. roles \in [Ids -> SUBSET Roles] /\ db.ids \in SUBSET Ids
  BY <1>1 DEF Request, Version, Replaced
<1>3. /\ versions' \in Seq(Version) /\ Len(versions') \in 1..MaxVersions
      /\ Len(versions') = Len(versions) + 1
      /\ \A k \in 1..Len(versions) : versions'[k] = versions[k]
      /\ versions'[Len(versions')] = [ids |-> db.ids, roles |-> roles]
  BY <1>1, <1>2, CommitAppends DEF CommitRoles
<1>4. Len(versions) \in Nat /\ Len(versions) + 1 \in Nat
  BY <1>1, VersionTypes
<1>5. req' \in [Requests -> Request] /\ \A q \in Requests : q = r \/ req'[q] = req[q]
  BY <1>1, <1>4 DEF TypeOK, CommitRoles, Request
<1>6. TypeOK' /\ RolesHaveAccounts' /\ Appends
  <2>1. TypeOK' /\ Appends
    BY <1>1, <1>3, <1>5 DEF TypeOK, Appends, CommitRoles
  <2>2. ASSUME NEW u \in Ids, u \notin db.ids  PROVE roles[u] = {}
    BY <2>2, VersionTypes DEF IInv, RolesHaveAccounts, RolesOfAccounts, Replaced, db
  <2>3. RolesOfAccounts(versions'[Len(versions')])
    BY <1>3, <2>2 DEF RolesOfAccounts
  <2>4. QED
    BY <2>1, <2>3, RolesKeepAccounts
<1>7. /\ req'[r].dtos = req[r].dtos /\ req'[r].ids = req[r].ids
      /\ req'[r].asked = req[r].asked /\ req'[r].op = req[r].op
      /\ req'[r].from = Len(versions') /\ req'[r].pc = "enrich"
      /\ req'[r].arrived = req[r].arrived /\ req[r].arrived \in 1..Len(versions)
  <2>1. req[r].arrived \in 1..Len(versions)
    BY <1>1 DEF IInv, StageInv
  <2>2. QED
    BY <1>1, <1>3, <2>1 DEF TypeOK, CommitRoles, Request
<1>8. /\ req[r].op = "updateRoles" /\ IdsOf(req[r].dtos) = req[r].ids
      /\ \E j \in req[r].arrived..Len(versions') : req[r].ids \subseteq versions'[j].ids
  <2>1. /\ req[r].op = "updateRoles" /\ IdsOf(req[r].dtos) = req[r].ids
        /\ \E j \in req[r].arrived..Len(versions) : req[r].ids \subseteq versions[j].ids
    BY <1>1 DEF IInv, StageInv, FindInv
  <2>2. QED
    BY <1>3, <1>4, <1>7, <2>1
<1>9. ASSUME NEW u \in req[r].ids  PROVE db'.roles[u] = req[r].asked \/ Overtaken(r, u)'
  <2>1. u \in Ids /\ db' = [ids |-> db.ids, roles |-> roles]
    BY <1>1, <1>3 DEF Request, db
  <2>2. CASE u \in db.ids
    BY <2>1, <2>2 DEF Replaced
  <2>3. CASE u \notin db.ids
    BY <1>3, <1>7, <2>3 DEF Overtaken
  <2>4. QED
    BY <2>2, <2>3
<1>10. StageInv(r)'
  BY <1>3, <1>4, <1>7, <1>8, <1>9 DEF StageInv, FindInv, WriteInv, AnswerInv
<1>11. QED
  BY <1>5, <1>6, <1>10, Suffices

\* The other writers append a version and touch no request.
LEMMA WritersKeep ==
  ASSUME IInv, NEW u \in Ids, InsertUser(u) \/ AssignDefault(u) \/ Delete(u)
  PROVE  IInv'
<1>1. TypeOK /\ db \in Version
  BY VersionTypes DEF IInv
<1>7. \A v \in Ids : db.roles[v] # {} => v \in db.ids
  BY <1>1, VersionTypes DEF IInv, RolesHaveAccounts, RolesOfAccounts, db
<1>2. PICK ids \in SUBSET Ids, roles \in [Ids -> SUBSET Roles] :
        Commit(ids, roles) /\ \A v \in Ids : roles[v] # {} => v \in ids
  <2>1. db.ids \in SUBSET Ids /\ db.roles \in [Ids -> SUBSET Roles]
    BY <1>1 DEF Version
  <2>2. CASE InsertUser(u)
    <3>1. db.ids \cup {u} \in SUBSET Ids /\ \A v \in Ids : db.roles[v] # {} => v \in db.ids \cup {u}
      BY <1>7, <2>1
    <3>2. QED
      BY <2>1, <2>2, <3>1 DEF InsertUser
  <2>3. CASE AssignDefault(u)
    <3>. DEFINE new == [db.roles EXCEPT ![u] = Replaced(u, {Default})]
    <3>1. new \in [Ids -> SUBSET Roles] /\ \A v \in Ids : new[v] # {} => v \in db.ids
      BY <1>7, <2>1, UserViewsAssumption DEF Replaced
    <3>2. Commit(db.ids, new)
      BY <2>3 DEF AssignDefault
    <3>. HIDE DEF new
    <3>3. QED
      BY <2>1, <3>1, <3>2
  <2>4. CASE Delete(u)
    <3>. DEFINE new == [db.roles EXCEPT ![u] = {}]
    <3>1. /\ new \in [Ids -> SUBSET Roles] /\ db.ids \ {u} \in SUBSET Ids
          /\ \A v \in Ids : new[v] # {} => v \in db.ids \ {u}
      BY <1>7, <2>1
    <3>2. Commit(db.ids \ {u}, new)
      BY <2>4 DEF Delete
    <3>. HIDE DEF new
    <3>3. QED
      BY <3>1, <3>2
  <2>5. QED
    BY <2>2, <2>3, <2>4
<1>3. /\ versions' \in Seq(Version) /\ Len(versions') \in 1..MaxVersions
      /\ Len(versions') = Len(versions) + 1
      /\ \A k \in 1..Len(versions) : versions'[k] = versions[k]
      /\ versions'[Len(versions')] = [ids |-> ids, roles |-> roles]
  BY <1>1, <1>2, CommitAppends
<1>4. registering' \in SUBSET Ids /\ req' = req
  BY <1>1 DEF TypeOK, InsertUser, AssignDefault, Delete
<1>5. TypeOK' /\ Appends
  BY <1>1, <1>3, <1>4 DEF TypeOK, Appends
<1>8. RolesHaveAccounts'
  <2>1. RolesOfAccounts(versions'[Len(versions')])
    BY <1>2, <1>3 DEF RolesOfAccounts
  <2>2. QED
    BY <1>5, <2>1, RolesKeepAccounts
<1>6. QED
  BY <1>1, <1>4, <1>5, <1>8, StageLasts DEF IInv

LEMMA Inductive == IInv /\ [Next]_vars => IInv'
<1>1. SUFFICES ASSUME IInv, [Next]_vars  PROVE IInv'
  OBVIOUS
<1>2. ASSUME NEW r \in Requests, Step(r)  PROVE IInv'
  <2>1. CASE ArriveList(r)
    BY <1>1, <2>1, ArriveKeeps DEF ArriveList
  <2>2. CASE ArriveUserinfo(r)
    <3>1. PICK u \in Ids : Arrive(r, "userinfo", {u}, {})
      BY <2>2 DEF ArriveUserinfo
    <3>2. QED
      BY <1>1, <3>1, ArriveKeeps
  <2>3. CASE ArriveUpdateRoles(r)
    <3>1. PICK u \in Ids, asked \in SUBSET Roles : Arrive(r, "updateRoles", {u}, asked)
      BY <2>3 DEF ArriveUpdateRoles
    <3>2. QED
      BY <1>1, <3>1, ArriveKeeps
  <2>4. CASE ListAll(r)
    BY <1>1, <2>4, ListAllKeeps
  <2>5. CASE FindByUuid(r)
    BY <1>1, <2>5, FindByUuidKeeps
  <2>6. CASE CommitRoles(r)
    BY <1>1, <2>6, CommitRolesKeeps
  <2>7. CASE Enrich(r)
    BY <1>1, <2>7, EnrichKeeps
  <2>8. CASE Fail(r)
    BY <1>1, <2>8, ThrowKeeps DEF Fail
  <2>9. CASE Respond(r)
    BY <1>1, <2>9, RespondKeeps
  <2>10. QED
    BY <1>2, <2>1, <2>2, <2>3, <2>4, <2>5, <2>6, <2>7, <2>8, <2>9 DEF Step
<1>3. ASSUME NEW u \in Ids, InsertUser(u) \/ AssignDefault(u) \/ Delete(u)  PROVE IInv'
  BY <1>1, <1>3, WritersKeep
<1>4. CASE UNCHANGED vars
  <2>1. TypeOK /\ TypeOK' /\ RolesHaveAccounts' /\ Appends
    BY <1>1, <1>4 DEF vars, IInv, TypeOK, RolesHaveAccounts, Appends
  <2>2. QED
    BY <1>1, <1>4, <2>1, StageLasts DEF vars, IInv
<1>5. QED
  BY <1>1, <1>2, <1>3, <1>4 DEF Next

LEMMA Invariant == Spec => []IInv
BY Initially, Inductive, PTL DEF Spec

-----------------------------------------------------------------------------
\* Type correctness of the versions and the requests.
THEOREM TypeCorrect == Spec => []TypeOK
<1>1. IInv => TypeOK
  BY DEF IInv
<1>2. QED
  BY <1>1, Invariant, PTL

\* The list of users (UserPersistenceServiceImpl.listAll) shows the accounts of
\* one moment with the roles of one later moment, whatever changes between its
\* two statements.
THEOREM ListsAreOfTwoMoments == Spec => []ListIsOfTwoMoments
<1>1. IInv => ListIsOfTwoMoments
  BY DEF IInv, StageInv, AnswerInv, ListIsOfTwoMoments, ListAnswer, Answered, IdsOf
<1>2. QED
  BY <1>1, Invariant, PTL

\* Userinfo and the answer to a role update show one user that was there at a
\* moment of the request, with its roles of a later moment, or, if it was
\* deleted in between, with none (UserPersistenceServiceImpl._enrichRoles).
THEOREM AnswersAreOfOneMoment == Spec => []AnswerIsOfOneMoment
<1>1. IInv => AnswerIsOfOneMoment
  BY DEF IInv, StageInv, AnswerInv, AnswerIsOfOneMoment, OneAnswer, Answered, IdsOf
<1>2. QED
  BY <1>1, Invariant, PTL

\* A role update shows its own write, or that of somebody who came later
\* (UserPersistenceServiceImpl.updateRoles, whose last read is outside its
\* transaction).
THEOREM UpdatesShowTheirWrites == Spec => []UpdateShowsItsWrite
<1>1. IInv => UpdateShowsItsWrite
  BY DEF IInv, StageInv, AnswerInv, UpdateShowsItsWrite, Overtaken, Answered
<1>2. QED
  BY <1>1, Invariant, PTL
=============================================================================
