---------------------------- MODULE AccessTokens ----------------------------
(***************************************************************************)
(* The roles in access tokens.  A grant reads the roles of its user, works *)
(* on (the password hash, or the revocation of the old token), signs a JWT *)
(* with the roles it read, stores the refresh token, and answers.  A route *)
(* behind authenticate and requireRole trusts the JWT until it expires and *)
(* never looks at the tables, while the roles of its user may change.      *)
(*                                                                         *)
(* What the grant checks besides is in module Grants, and the transaction  *)
(* that changes roles in module Accounts: its property RoleWritesAreWhole  *)
(* is why a change is one action here.  A JWT counts whole seconds, and so *)
(* does the clock: iat and the time of its verification are both rounded   *)
(* down.                                                                   *)
(***************************************************************************)
EXTENDS Naturals, FiniteSets

CONSTANTS
  Users,      \* accounts
  Roles,      \* role names
  Citizen,    \* the role a registration gives
  Required,   \* the role that the protected routes ask for: ADMIN
  Grants,     \* slots for grants in flight
  Calls,      \* slots for calls of protected routes in flight
  NoValue,    \* no user; the time at which a role was held that never was
  TTL,        \* JWT_ACCESS_TOKEN_EXPIRES_IN
  MaxTime,    \* bound: the clock stops here
  MaxTokens   \* bound: access tokens signed

ASSUME AccessTokensAssumption ==
  /\ NoValue \notin Users \cup Roles \cup Nat
  /\ Citizen \in Roles /\ Required \in Roles
  /\ TTL \in Nat \ {0} /\ MaxTime \in Nat /\ MaxTokens \in Nat

VARIABLES
  account,   \* [Users -> {"none", "registering", "there"}]: the row of USERS
  roleRows,  \* [Users -> SUBSET Roles], the committed USERS_ROLES rows
  now,       \* the clock
  grant,     \* [Grants -> Grant], the grants in flight
  tokens,    \* the access tokens that reached a client
  call,      \* [Calls -> Call], the calls in flight
  lastHeld   \* history: when each user last held each role

vars == <<account, roleRows, now, grant, tokens, call, lastHeld>>

-----------------------------------------------------------------------------
\* seen: history, the sets of roles the user had since the grant arrived.
Grant == [pc: {"idle", "read", "work", "save"},
          user: Users \cup {NoValue}, roles: SUBSET Roles,
          since: Nat, exp: Nat, seen: SUBSET (SUBSET Roles)]

NoGrant == [pc |-> "idle", user |-> NoValue, roles |-> {}, since |-> 0, exp |-> 0,
            seen |-> {}]

\* since: history, when the grant of the token arrived.
Token == [user: Users, roles: SUBSET Roles, since: Nat, exp: Nat]

\* at, held, since, exp: history of an admitted call: when it was admitted,
\* when its caller last held the required role, and the times of its token.
Call == [pc: {"idle", "handling", "answer"},
         status: {"none", "ok", "unauthorized", "forbidden", "error"},
         at: Nat, held: Nat \cup {NoValue}, since: Nat, exp: Nat]

NoCall == [pc |-> "idle", status |-> "none", at |-> 0, held |-> NoValue, since |-> 0,
           exp |-> 0]

\* The process starts on a database with a past.  An account that lost the
\* second half of its registration has no roles.
Init ==
  /\ account \in [Users -> {"none", "there"}]
  /\ roleRows \in [Users -> SUBSET Roles]
  /\ \A u \in Users : account[u] = "none" => roleRows[u] = {}
  /\ now = 0
  /\ grant = [g \in Grants |-> NoGrant]
  /\ tokens = {}
  /\ call = [c \in Calls |-> NoCall]
  /\ lastHeld = [u \in Users |-> [role \in Roles |->
                   IF role \in roleRows[u] THEN 0 ELSE NoValue]]

-----------------------------------------------------------------------------
(* Grants. *)

\* Bound: a grant arrives only while a token is left for it.
TokensLeft ==
  Cardinality(tokens) + Cardinality({g \in Grants : grant[g].pc # "idle"}) < MaxTokens

\* A grant for a user that is not there is refused, and left out.
ArriveGrant(g, u) ==
  /\ grant[g].pc = "idle" /\ TokensLeft /\ account[u] # "none"
  /\ grant' = [grant EXCEPT ![g] = [NoGrant EXCEPT !.pc = "read", !.user = u,
                                      !.since = now, !.seen = {roleRows[u]}]]
  /\ UNCHANGED <<account, roleRows, now, tokens, call, lastHeld>>

\* Mutants of RolesOf: the default role is added to what is read; an outer
\* join gives a user without roles one null.
RolesOfWithDefault(u) == roleRows[u] \cup {Citizen}
RolesOfOuterJoin(u) == IF roleRows[u] = {} THEN {NoValue} ELSE roleRows[u]

\* RoleRepository.findNamesByUserId: one SELECT.
RolesOf(u) == roleRows[u]

\* The roles that findByUsername and findByInternalId add to the user.
ReadRoles(g) ==
  /\ grant[g].pc = "read"
  /\ grant' = [grant EXCEPT ![g] = [@ EXCEPT !.pc = "work", !.roles = RolesOf(grant[g].user)]]
  /\ UNCHANGED <<account, roleRows, now, tokens, call, lastHeld>>

\* bcrypt.compare or the revocation has returned: createAccessToken.
CreateAccessToken(g) ==
  /\ grant[g].pc = "work"
  /\ grant' = [grant EXCEPT ![g] = [@ EXCEPT !.pc = "save", !.exp = now + TTL]]
  /\ UNCHANGED <<account, roleRows, now, tokens, call, lastHeld>>

\* The refresh token is stored, and the pair is sent.
AnswerGrant(g) ==
  /\ grant[g].pc = "save"
  /\ tokens' = tokens \cup {[user |-> grant[g].user, roles |-> grant[g].roles,
                             since |-> grant[g].since, exp |-> grant[g].exp]}
  /\ grant' = [grant EXCEPT ![g] = NoGrant]
  /\ UNCHANGED <<account, roleRows, now, call, lastHeld>>

\* The grant is refused, fails, or finds its client gone.
DropGrant(g) ==
  /\ grant[g].pc # "idle"
  /\ grant' = [grant EXCEPT ![g] = NoGrant]
  /\ UNCHANGED <<account, roleRows, now, tokens, call, lastHeld>>

-----------------------------------------------------------------------------
(* The roles in the tables.  Histories follow them. *)

Assign(u, R) ==
  /\ roleRows' = [roleRows EXCEPT ![u] = R]
  /\ lastHeld' = [lastHeld EXCEPT ![u] = [role \in Roles |->
                    IF role \in roleRows[u] \cup R THEN now ELSE lastHeld[u][role]]]
  /\ grant' = [g \in Grants |-> IF grant[g].user = u
                                THEN [grant[g] EXCEPT !.seen = grant[g].seen \cup {R}]
                                ELSE grant[g]]

\* The two commits of a registration: the INSERT into USERS, and the role, in
\* place of any that a role update gave the account in between.
InsertUser(u) ==
  /\ account[u] = "none"
  /\ account' = [account EXCEPT ![u] = "registering"]
  /\ UNCHANGED <<roleRows, now, grant, tokens, call, lastHeld>>

AssignDefault(u) ==
  /\ account[u] = "registering"
  /\ account' = [account EXCEPT ![u] = "there"]
  /\ Assign(u, {Citizen})
  /\ UNCHANGED <<now, tokens, call>>

\* The role transaction fails: the account stays without its role.
FailRegistration(u) ==
  /\ account[u] = "registering"
  /\ account' = [account EXCEPT ![u] = "there"]
  /\ UNCHANGED <<roleRows, now, grant, tokens, call, lastHeld>>

-----------------------------------------------------------------------------
(* Protected routes. *)

\* Mutant of VerifyAccessToken: the expiry is not looked at.
VerifySignatureOnly(k) == TRUE

\* jwt.verify refuses a token at its exp.
VerifyAccessToken(k) == now < k.exp

\* requireRole('ADMIN')
RequireRole(k) == Required \in k.roles

Refuse(c, s) == call' = [call EXCEPT ![c] = [NoCall EXCEPT !.pc = "answer", !.status = s]]

\* The token becomes req.user; what it said stays as history.
Admit(c, k) ==
  call' = [call EXCEPT ![c] = [NoCall EXCEPT !.pc = "handling", !.at = now,
             !.held = lastHeld[k.user][Required], !.since = k.since, !.exp = k.exp]]

\* authenticate and requireRole run without an await.
ArriveCall(c, k) ==
  /\ call[c].pc = "idle"
  /\ \/ ~VerifyAccessToken(k) /\ Refuse(c, "unauthorized")
     \/ VerifyAccessToken(k) /\ ~RequireRole(k) /\ Refuse(c, "forbidden")
     \/ VerifyAccessToken(k) /\ RequireRole(k) /\ Admit(c, k)
  /\ UNCHANGED <<account, roleRows, now, grant, tokens, lastHeld>>

\* PATCH /users/:uuid/roles commits, for any user that is there, the caller too.  The commit
\* may still be answered with an error.
UpdateRoles(c, u, R) ==
  /\ call[c].pc = "handling" /\ account[u] # "none"
  /\ Assign(u, R)
  /\ \E s \in {"ok", "error"} :
       call' = [call EXCEPT ![c] = [@ EXCEPT !.pc = "answer", !.status = s]]
  /\ UNCHANGED <<account, now, tokens>>

\* GET /users, or an update that fails or finds no user.
EndCall(c) ==
  /\ call[c].pc = "handling"
  /\ \E s \in {"ok", "error"} :
       call' = [call EXCEPT ![c] = [@ EXCEPT !.pc = "answer", !.status = s]]
  /\ UNCHANGED <<account, roleRows, now, grant, tokens, lastHeld>>

AnswerCall(c) ==
  /\ call[c].pc = "answer"
  /\ call' = [call EXCEPT ![c] = NoCall]
  /\ UNCHANGED <<account, roleRows, now, grant, tokens, lastHeld>>

-----------------------------------------------------------------------------
\* A restart loses the requests and the second half of registrations; access
\* tokens outlive it.
Crash ==
  /\ account' = [u \in Users |-> IF account[u] = "registering" THEN "there"
                                 ELSE account[u]]
  /\ grant' = [g \in Grants |-> NoGrant]
  /\ call' = [c \in Calls |-> NoCall]
  /\ UNCHANGED <<roleRows, now, tokens, lastHeld>>

Tick ==
  /\ now < MaxTime
  /\ now' = now + 1
  /\ lastHeld' = [u \in Users |-> [role \in Roles |->
                    IF role \in roleRows[u] THEN now + 1 ELSE lastHeld[u][role]]]
  /\ UNCHANGED <<account, roleRows, grant, tokens, call>>

GrantStep(g) ==
  \/ \E u \in Users : ArriveGrant(g, u)
  \/ ReadRoles(g) \/ CreateAccessToken(g) \/ AnswerGrant(g) \/ DropGrant(g)

CallStep(c) ==
  \/ \E k \in tokens : ArriveCall(c, k)
  \/ \E u \in Users, R \in (SUBSET Roles) \ {{}} : UpdateRoles(c, u, R)
  \/ EndCall(c) \/ AnswerCall(c)

Next ==
  \/ \E g \in Grants : GrantStep(g)
  \/ \E c \in Calls : CallStep(c)
  \/ \E u \in Users : InsertUser(u) \/ AssignDefault(u) \/ FailRegistration(u)
  \/ Crash \/ Tick

Spec == Init /\ [][Next]_vars
-----------------------------------------------------------------------------
(* Properties. *)

\* Type correctness of the tables, the requests, the tokens and the history.
TypeOK ==
  /\ account \in [Users -> {"none", "registering", "there"}]
  /\ roleRows \in [Users -> SUBSET Roles]
  /\ now \in Nat
  /\ grant \in [Grants -> Grant]
  /\ tokens \in SUBSET Token
  /\ call \in [Calls -> Call]
  /\ lastHeld \in [Users -> [Roles -> Nat \cup {NoValue}]]

\* The roles that a grant signs are the user's roles of one moment since the
\* grant arrived: never those of an older login, never a mixture of two updates.
SignedRolesAreOfOneMoment ==
  \A g \in Grants :
    grant[g].pc \in {"work", "save"} => grant[g].roles \in grant[g].seen

\* How long a role may outlive its removal: a caller that requireRole admits
\* held the role less than TTL ago, plus the time that its grant took.
AdmissionIsBounded ==
  \A c \in Calls :
    call[c].pc = "handling" =>
      /\ call[c].held # NoValue
      /\ call[c].at - call[c].held < call[c].exp - call[c].since
=============================================================================
