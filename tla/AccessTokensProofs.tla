------------------------- MODULE AccessTokensProofs -------------------------
(***************************************************************************)
(* Theorems about AccessTokens, for any number of accounts, roles, grants, *)
(* calls and tokens, and any TTL.                                          *)
(***************************************************************************)
EXTENDS AccessTokens, TLAPS

\* Whether the history has user u hold the role at some time from t on.
HeldSince(u, role, t) == lastHeld[u][role] # NoValue /\ t <= lastHeld[u][role]

\* The history does not run ahead of the clock, and knows the present.
HistoryIsPast ==
  \A u \in Users, role \in Roles :
    /\ lastHeld[u][role] # NoValue => lastHeld[u][role] <= now
    /\ role \in roleRows[u] => HeldSince(u, role, now)

\* What one grant has seen, and signs: roles its user held since it arrived.
GrantInv(g) ==
  grant[g].pc # "idle" =>
    /\ grant[g].user \in Users /\ grant[g].since <= now
    /\ roleRows[grant[g].user] \in grant[g].seen
    /\ \A R \in grant[g].seen : \A role \in R : HeldSince(grant[g].user, role, grant[g].since)
    /\ grant[g].pc \in {"work", "save"} => grant[g].roles \in grant[g].seen

\* The roles of a token were held since its grant arrived.
TokenInv(k) == \A role \in k.roles : HeldSince(k.user, role, k.since)

IInv ==
  /\ TypeOK
  /\ HistoryIsPast
  /\ \A g \in Grants : GrantInv(g)
  /\ \A k \in tokens : TokenInv(k)
  /\ AdmissionIsBounded

\* What a step may do to the histories: they only grow.
HistoryGrows ==
  \A u \in Users, role \in Roles, t \in Nat : HeldSince(u, role, t) => HeldSince(u, role, t)'

-----------------------------------------------------------------------------
\* The invariant holds when the process starts.
LEMMA Initially == Init => IInv
<1>1. SUFFICES ASSUME Init  PROVE IInv
  OBVIOUS
<1>2. NoGrant \in Grant /\ NoGrant.pc = "idle"
  BY AccessTokensAssumption DEF NoGrant, Grant
<1>3. NoCall \in Call /\ NoCall.pc = "idle"
  BY DEF NoCall, Call
<1>4. TypeOK
  BY <1>1, <1>2, <1>3 DEF Init, TypeOK
<1>5. HistoryIsPast
  BY <1>1, AccessTokensAssumption DEF Init, HistoryIsPast, HeldSince
<1>6. QED
  BY <1>1, <1>2, <1>3, <1>4, <1>5 DEF Init, IInv, GrantInv, AdmissionIsBounded

\* A step that leaves the tables, the clock and the history alone keeps what
\* they say, and what they say of grants and tokens that it leaves alone.
LEMMA QuietKeeps ==
  ASSUME IInv, UNCHANGED <<roleRows, now, lastHeld>>
  PROVE  /\ HistoryIsPast'
         /\ \A g \in Grants : grant'[g] = grant[g] => GrantInv(g)'
         /\ \A k \in tokens : TokenInv(k)'
  BY DEF IInv, HistoryIsPast, HeldSince, GrantInv, TokenInv

\* The types of one grant and one call, in use or not.
LEMMA Slots ==
  ASSUME IInv
  PROVE  /\ \A g \in Grants : grant[g] \in Grant
         /\ \A c \in Calls : call[c] \in Call
         /\ NoGrant \in Grant /\ NoCall \in Call
         /\ NoGrant.pc = "idle" /\ NoCall.pc = "idle"
  BY AccessTokensAssumption DEF IInv, TypeOK, NoGrant, Grant, NoCall, Call

\* A step of a grant keeps the invariant.
LEMMA GrantsKeep ==
  ASSUME IInv, NEW g \in Grants, GrantStep(g)
  PROVE  IInv'
<1>1. UNCHANGED <<account, roleRows, now, lastHeld, call>>
  BY DEF GrantStep, ArriveGrant, ReadRoles, CreateAccessToken, AnswerGrant, DropGrant
<1>2. \A h \in Grants : h # g => grant'[h] = grant[h]
  BY DEF GrantStep, ArriveGrant, ReadRoles, CreateAccessToken, AnswerGrant, DropGrant,
         IInv, TypeOK
<1>3. /\ grant' \in [Grants -> Grant] /\ grant'[g] \in Grant
      /\ GrantInv(g)'
      /\ tokens' \in SUBSET Token
      /\ \A k \in tokens' : TokenInv(k)'
  <2>1. CASE \E u \in Users : ArriveGrant(g, u)
    <3>1. PICK u \in Users : ArriveGrant(g, u)
      BY <2>1
    <3>2. /\ roleRows[u] \in SUBSET Roles /\ now \in Nat
          /\ grant'[g] = [pc |-> "read", user |-> u, roles |-> {}, since |-> now,
                          exp |-> 0, seen |-> {roleRows[u]}]
          /\ tokens' = tokens
      BY <3>1 DEF ArriveGrant, NoGrant, IInv, TypeOK
    <3>3. /\ grant'[g].pc = "read" /\ grant'[g].user = u /\ grant'[g].since = now
          /\ grant'[g].seen = {roleRows[u]} /\ grant'[g] \in Grant
      BY <3>2 DEF Grant
    <3>4. grant' \in [Grants -> Grant]
      BY <3>1, <3>3 DEF ArriveGrant, IInv, TypeOK
    <3>5. \A role \in roleRows[u] : HeldSince(u, role, now)'
      BY <1>1, <3>2 DEF IInv, HistoryIsPast, HeldSince
    <3>6. GrantInv(g)'
      BY <1>1, <3>2, <3>3, <3>5 DEF GrantInv
    <3>7. QED
      BY <1>1, <3>2, <3>3, <3>4, <3>6, QuietKeeps DEF IInv, TypeOK
  <2>2. CASE ReadRoles(g)
    <3>1. /\ grant[g].pc = "read" /\ grant[g] \in Grant /\ tokens' = tokens
          /\ grant[g].user \in Users
      BY <2>2 DEF ReadRoles, IInv, TypeOK, GrantInv
    <3>2. /\ grant'[g] = [grant[g] EXCEPT !.pc = "work", !.roles = roleRows[grant[g].user]]
          /\ roleRows[grant[g].user] \in SUBSET Roles
      BY <2>2, <3>1 DEF ReadRoles, RolesOf, IInv, TypeOK
    <3>3. /\ grant'[g] \in Grant /\ grant'[g].user = grant[g].user
          /\ grant'[g].since = grant[g].since /\ grant'[g].seen = grant[g].seen
          /\ grant'[g].roles = roleRows[grant[g].user]
      BY <3>1, <3>2 DEF Grant
    <3>4. grant' \in [Grants -> Grant]
      BY <2>2, <3>3 DEF ReadRoles, IInv, TypeOK
    <3>5. GrantInv(g)'
      BY <1>1, <3>1, <3>3 DEF GrantInv, IInv, HeldSince
    <3>6. QED
      BY <1>1, <3>1, <3>3, <3>4, <3>5, QuietKeeps DEF IInv, TypeOK
  <2>3. CASE CreateAccessToken(g)
    <3>1. grant[g].pc = "work" /\ grant[g] \in Grant /\ tokens' = tokens /\ now + TTL \in Nat
      BY <2>3, AccessTokensAssumption DEF CreateAccessToken, IInv, TypeOK
    <3>2. grant'[g] = [grant[g] EXCEPT !.pc = "save", !.exp = now + TTL]
      BY <2>3 DEF CreateAccessToken, IInv, TypeOK
    <3>3. /\ grant'[g] \in Grant /\ grant'[g].user = grant[g].user
          /\ grant'[g].since = grant[g].since /\ grant'[g].seen = grant[g].seen
          /\ grant'[g].roles = grant[g].roles
      BY <3>1, <3>2 DEF Grant
    <3>4. grant' \in [Grants -> Grant]
      BY <2>3, <3>3 DEF CreateAccessToken, IInv, TypeOK
    <3>5. GrantInv(g)'
      BY <1>1, <3>1, <3>3 DEF GrantInv, IInv, HeldSince
    <3>6. QED
      BY <1>1, <3>1, <3>3, <3>4, <3>5, QuietKeeps DEF IInv, TypeOK
  <2>4. CASE AnswerGrant(g)
    <3>0. PICK k : k = [user |-> grant[g].user, roles |-> grant[g].roles,
                        since |-> grant[g].since, exp |-> grant[g].exp]
      OBVIOUS
    <3>1. grant[g].pc = "save" /\ grant[g] \in Grant /\ GrantInv(g)
      BY <2>4 DEF AnswerGrant, IInv, TypeOK
    <3>2. grant'[g] = NoGrant /\ grant' \in [Grants -> Grant] /\ tokens' = tokens \cup {k}
      BY <2>4, <3>0, Slots DEF AnswerGrant, IInv, TypeOK
    <3>3. k \in Token
      BY <3>0, <3>1 DEF GrantInv, Grant, Token
    <3>4. TokenInv(k)'
      BY <1>1, <3>0, <3>1 DEF GrantInv, TokenInv, HeldSince
    <3>5. GrantInv(g)'
      BY <3>2, Slots DEF GrantInv
    <3>6. QED
      BY <1>1, <3>2, <3>3, <3>4, <3>5, Slots, QuietKeeps DEF IInv, TypeOK
  <2>5. CASE DropGrant(g)
    <3>1. grant'[g] = NoGrant /\ grant' \in [Grants -> Grant] /\ tokens' = tokens
      BY <2>5, Slots DEF DropGrant, IInv, TypeOK
    <3>2. GrantInv(g)'
      BY <3>1, Slots DEF GrantInv
    <3>3. QED
      BY <1>1, <3>1, <3>2, Slots, QuietKeeps DEF IInv, TypeOK
  <2>6. QED
    BY <2>1, <2>2, <2>3, <2>4, <2>5 DEF GrantStep
<1>4. TypeOK'
  BY <1>1, <1>3 DEF IInv, TypeOK
<1>5. \A h \in Grants : GrantInv(h)'
  BY <1>1, <1>2, <1>3, QuietKeeps
<1>6. AdmissionIsBounded'
  BY <1>1 DEF IInv, AdmissionIsBounded
<1>7. QED
  BY <1>1, <1>3, <1>4, <1>5, <1>6, QuietKeeps DEF IInv

\* A commit of roles keeps what the history says of the present and of the past.
LEMMA AssignKeeps ==
  ASSUME IInv, NEW u \in Users, NEW R \in SUBSET Roles, Assign(u, R), now' = now
  PROVE  /\ roleRows' \in [Users -> SUBSET Roles]
         /\ lastHeld' \in [Users -> [Roles -> Nat \cup {NoValue}]]
         /\ grant' \in [Grants -> Grant]
         /\ HistoryIsPast' /\ HistoryGrows
         /\ \A g \in Grants : GrantInv(g)'
<1>1. roleRows' \in [Users -> SUBSET Roles] /\ roleRows'[u] = R
      /\ \A v \in Users : v # u => roleRows'[v] = roleRows[v]
  BY DEF Assign, IInv, TypeOK
<1>2. /\ \A role \in Roles : lastHeld'[u][role] =
            IF role \in roleRows[u] \cup R THEN now ELSE lastHeld[u][role]
      /\ \A v \in Users : v # u => lastHeld'[v] = lastHeld[v]
  BY DEF Assign, IInv, TypeOK
<1>3. lastHeld' \in [Users -> [Roles -> Nat \cup {NoValue}]]
  BY DEF Assign, IInv, TypeOK
<1>4. /\ now \in Nat /\ NoValue \notin Nat
      /\ \A v \in Users, role \in Roles : lastHeld[v][role] \in Nat \cup {NoValue}
  BY AccessTokensAssumption DEF IInv, TypeOK
<1>5. HistoryIsPast'
  <2>1. SUFFICES ASSUME NEW v \in Users, NEW role \in Roles
                 PROVE  /\ lastHeld'[v][role] # NoValue => lastHeld'[v][role] <= now
                        /\ role \in roleRows'[v] =>
                             lastHeld'[v][role] # NoValue /\ now <= lastHeld'[v][role]
    BY DEF HistoryIsPast, HeldSince
  <2>2. CASE v = u
    BY <1>1, <1>2, <1>4, <2>2 DEF IInv, HistoryIsPast, HeldSince
  <2>3. CASE v # u
    BY <1>1, <1>2, <2>3 DEF IInv, HistoryIsPast, HeldSince
  <2>4. QED
    BY <2>2, <2>3
<1>6. HistoryGrows
  <2>1. SUFFICES ASSUME NEW v \in Users, NEW role \in Roles, NEW t \in Nat,
                        lastHeld[v][role] # NoValue, t <= lastHeld[v][role]
                 PROVE  lastHeld'[v][role] # NoValue /\ t <= lastHeld'[v][role]
    BY DEF HistoryGrows, HeldSince
  <2>2. lastHeld[v][role] <= now
    BY <2>1 DEF IInv, HistoryIsPast
  <2>3. QED
    BY <1>2, <1>4, <2>1, <2>2
<1>7. \A g \in Grants :
        /\ grant[g].user # u => grant'[g] = grant[g]
        /\ grant[g].user = u => grant'[g] = [grant[g] EXCEPT !.seen = grant[g].seen \cup {R}]
  BY DEF Assign
<1>8. ASSUME NEW g \in Grants
      PROVE  grant'[g] \in Grant /\ GrantInv(g)'
  <2>1. grant[g] \in Grant /\ GrantInv(g)
    BY DEF IInv, TypeOK
  <2>2. /\ grant'[g] \in Grant /\ grant'[g].pc = grant[g].pc
        /\ grant'[g].user = grant[g].user /\ grant'[g].since = grant[g].since
        /\ grant'[g].roles = grant[g].roles /\ grant[g].seen \subseteq grant'[g].seen
        /\ grant[g].user = u => grant'[g].seen = grant[g].seen \cup {R}
        /\ grant[g].user # u => grant'[g].seen = grant[g].seen
    <3>1. CASE grant[g].user # u
      BY <1>7, <2>1, <3>1
    <3>2. CASE grant[g].user = u
      <4>1. grant'[g] = [grant[g] EXCEPT !.seen = grant[g].seen \cup {R}]
        BY <1>7, <3>2
      <4>2. grant[g].seen \cup {R} \in SUBSET (SUBSET Roles)
        BY <2>1 DEF Grant
      <4>3. QED
        BY <2>1, <3>2, <4>1, <4>2 DEF Grant
    <3>3. QED
      BY <3>1, <3>2
  <2>3. SUFFICES ASSUME grant[g].pc # "idle"  PROVE GrantInv(g)'
    BY <2>2 DEF GrantInv
  <2>4. grant[g].user \in Users /\ grant[g].since \in Nat /\ grant[g].since <= now
    BY <2>1, <2>3 DEF GrantInv, Grant
  <2>5. roleRows'[grant[g].user] \in grant'[g].seen
    BY <1>1, <2>1, <2>2, <2>3, <2>4 DEF GrantInv
  <2>6. ASSUME NEW S \in grant'[g].seen, NEW role \in S
        PROVE  HeldSince(grant[g].user, role, grant[g].since)'
    <3>1. role \in Roles
      BY <2>2, <2>6 DEF Grant
    <3>2. CASE S \in grant[g].seen
      <4>1. HeldSince(grant[g].user, role, grant[g].since)
        BY <2>1, <2>3, <2>6, <3>2 DEF GrantInv
      <4>2. lastHeld[grant[g].user][role] <= now
        BY <2>4, <3>1, <4>1 DEF HeldSince, IInv, HistoryIsPast
      <4>3. lastHeld'[grant[g].user][role] # NoValue
            /\ grant[g].since <= lastHeld'[grant[g].user][role]
        BY <1>2, <1>4, <2>4, <3>1, <4>1 DEF HeldSince
      <4>4. QED
        BY <2>2, <4>3 DEF HeldSince
    <3>3. CASE S = R /\ grant[g].user = u
      <4>1. lastHeld'[u][role] = now
        BY <1>2, <2>6, <3>1, <3>3
      <4>2. QED
        BY <1>4, <2>2, <2>4, <3>3, <4>1 DEF HeldSince
    <3>4. QED
      BY <2>2, <2>6, <3>2, <3>3
  <2>7. \A S \in grant'[g].seen : \A role \in S :
          lastHeld'[grant'[g].user][role] # NoValue
          /\ grant'[g].since <= lastHeld'[grant'[g].user][role]
    BY <2>2, <2>6 DEF HeldSince
  <2>8. QED
    BY <2>1, <2>2, <2>3, <2>4, <2>5, <2>7 DEF GrantInv, HeldSince
<1>9. grant' \in [Grants -> Grant]
  <2>1. DOMAIN grant' = Grants /\ grant' = [g \in Grants |-> grant'[g]]
    BY DEF Assign
  <2>2. QED
    BY <1>8, <2>1
<1>10. QED
  BY <1>1, <1>3, <1>5, <1>6, <1>8, <1>9

\* Tokens keep their meaning while the history grows.
LEMMA TokensKeep ==
  ASSUME IInv, HistoryGrows
  PROVE  \A k \in tokens : TokenInv(k)'
<1>1. \A k \in tokens : k.user \in Users /\ k.roles \subseteq Roles /\ k.since \in Nat
  BY DEF IInv, TypeOK, Token
<1>2. QED
  BY <1>1 DEF IInv, HistoryGrows, TokenInv, HeldSince

\* A registration keeps the invariant, whether it ends or fails.
LEMMA RegistrationKeeps ==
  ASSUME IInv, NEW u \in Users, InsertUser(u) \/ AssignDefault(u) \/ FailRegistration(u)
  PROVE  IInv'
<1>1. account' \in [Users -> {"none", "registering", "there"}]
  BY DEF InsertUser, AssignDefault, FailRegistration, IInv, TypeOK
<1>2. CASE AssignDefault(u)
  <2>1. Assign(u, {Citizen}) /\ {Citizen} \in SUBSET Roles
        /\ UNCHANGED <<now, tokens, call>>
    BY <1>2, AccessTokensAssumption DEF AssignDefault
  <2>2. AdmissionIsBounded'
    BY <2>1 DEF IInv, AdmissionIsBounded
  <2>3. QED
    BY <1>1, <2>1, <2>2, AssignKeeps, TokensKeep DEF IInv, TypeOK
<1>3. CASE InsertUser(u) \/ FailRegistration(u)
  <2>1. UNCHANGED <<roleRows, now, grant, tokens, call, lastHeld>>
    BY <1>3 DEF InsertUser, FailRegistration
  <2>2. QED
    BY <1>1, <2>1, QuietKeeps DEF IInv, TypeOK, AdmissionIsBounded
<1>4. QED
  BY <1>2, <1>3

\* A step of a call keeps the invariant; the roles of the token bound an
\* admission.
LEMMA CallsKeep ==
  ASSUME IInv, NEW c \in Calls, CallStep(c)
  PROVE  IInv'
<1>1. CASE \E k \in tokens : ArriveCall(c, k)
  <2>1. PICK k \in tokens : ArriveCall(c, k)
    BY <1>1
  <2>2. UNCHANGED <<account, roleRows, now, grant, tokens, lastHeld>>
    BY <2>1 DEF ArriveCall
  <2>3. \A d \in Calls : d # c => call'[d] = call[d]
    BY <2>1 DEF ArriveCall, Refuse, Admit, IInv, TypeOK
  <2>4. /\ k \in Token /\ TokenInv(k) /\ now \in Nat
        /\ lastHeld[k.user][Required] \in Nat \cup {NoValue}
    BY AccessTokensAssumption DEF IInv, TypeOK, Token
  <2>5. \/ \E s \in {"unauthorized", "forbidden"} :
             call'[c] = [pc |-> "answer", status |-> s, at |-> 0, held |-> NoValue,
                         since |-> 0, exp |-> 0]
        \/ /\ VerifyAccessToken(k) /\ RequireRole(k)
           /\ call'[c] = [pc |-> "handling", status |-> "none", at |-> now,
                          held |-> lastHeld[k.user][Required], since |-> k.since,
                          exp |-> k.exp]
    <3>2. CASE ~VerifyAccessToken(k)
      BY <2>1, <3>2 DEF ArriveCall, Refuse, Admit, NoCall, IInv, TypeOK
    <3>3. CASE VerifyAccessToken(k) /\ ~RequireRole(k)
      BY <2>1, <3>3 DEF ArriveCall, Refuse, Admit, NoCall, IInv, TypeOK
    <3>4. CASE VerifyAccessToken(k) /\ RequireRole(k)
      BY <2>1, <3>4 DEF ArriveCall, Refuse, Admit, NoCall, IInv, TypeOK
    <3>5. QED
      BY <3>2, <3>3, <3>4
  <2>6. call'[c] \in Call
    BY <2>4, <2>5 DEF Call, Token
  <2>7. call' \in [Calls -> Call]
    BY <2>1, <2>6 DEF ArriveCall, Refuse, Admit, IInv, TypeOK
  <2>8. ASSUME call'[c].pc = "handling"
        PROVE  /\ call'[c].held # NoValue
               /\ call'[c].at - call'[c].held < call'[c].exp - call'[c].since
    <3>1. now < k.exp /\ Required \in k.roles
      BY <2>5, <2>8 DEF VerifyAccessToken, RequireRole
    <3>2. lastHeld[k.user][Required] # NoValue /\ k.since <= lastHeld[k.user][Required]
      BY <2>4, <3>1 DEF TokenInv, HeldSince
    <3>3. now - lastHeld[k.user][Required] < k.exp - k.since
      BY <2>4, <3>1, <3>2 DEF Token
    <3>4. QED
      BY <2>5, <2>8, <3>2, <3>3
  <2>9. AdmissionIsBounded'
    BY <2>3, <2>8 DEF AdmissionIsBounded, IInv
  <2>10. QED
    BY <2>2, <2>7, <2>9, QuietKeeps DEF IInv, TypeOK
<1>2. CASE \E u \in Users, R \in (SUBSET Roles) \ {{}} : UpdateRoles(c, u, R)
  <2>1. PICK u \in Users, R \in SUBSET Roles : UpdateRoles(c, u, R)
    BY <1>2
  <2>2. Assign(u, R) /\ UNCHANGED <<account, now, tokens>>
    BY <2>1 DEF UpdateRoles
  <2>3. call' \in [Calls -> Call] /\ call'[c].pc = "answer"
        /\ \A d \in Calls : d # c => call'[d] = call[d]
    <3>1. call \in [Calls -> Call]
      BY DEF IInv, TypeOK
    <3>2. \E s \in {"ok", "error"} :
            call' = [call EXCEPT ![c] = [@ EXCEPT !.pc = "answer", !.status = s]]
      BY <2>1 DEF UpdateRoles
    <3>3. QED
      BY <3>1, <3>2 DEF Call
  <2>4. AdmissionIsBounded'
    BY <2>3 DEF AdmissionIsBounded, IInv
  <2>5. QED
    BY <2>2, <2>3, <2>4, AssignKeeps, TokensKeep DEF IInv, TypeOK
<1>3. CASE EndCall(c) \/ AnswerCall(c)
  <2>1. UNCHANGED <<account, roleRows, now, grant, tokens, lastHeld>>
    BY <1>3 DEF EndCall, AnswerCall
  <2>2. call' \in [Calls -> Call] /\ call'[c].pc # "handling"
        /\ \A d \in Calls : d # c => call'[d] = call[d]
    <3>1. CASE EndCall(c)
      <4>1. call \in [Calls -> Call]
        BY DEF IInv, TypeOK
      <4>2. \E s \in {"ok", "error"} :
              call' = [call EXCEPT ![c] = [@ EXCEPT !.pc = "answer", !.status = s]]
        BY <3>1 DEF EndCall
      <4>3. QED
        BY <4>1, <4>2 DEF Call
    <3>2. CASE AnswerCall(c)
      BY <3>2, Slots DEF AnswerCall, IInv, TypeOK
    <3>3. QED
      BY <1>3, <3>1, <3>2
  <2>3. AdmissionIsBounded'
    BY <2>2 DEF AdmissionIsBounded, IInv
  <2>4. QED
    BY <2>1, <2>2, <2>3, QuietKeeps DEF IInv, TypeOK
<1>4. QED
  BY <1>1, <1>2, <1>3 DEF CallStep

\* A restart keeps the invariant: no grant and no call is left.
LEMMA CrashKeeps ==
  ASSUME IInv, Crash
  PROVE  IInv'
<1>1. /\ UNCHANGED <<roleRows, now, tokens, lastHeld>>
      /\ account' \in [Users -> {"none", "registering", "there"}]
      /\ grant' \in [Grants -> Grant] /\ call' \in [Calls -> Call]
      /\ \A g \in Grants : grant'[g].pc = "idle"
      /\ \A c \in Calls : call'[c].pc = "idle"
  BY Slots DEF Crash, IInv, TypeOK
<1>2. (\A g \in Grants : GrantInv(g)') /\ AdmissionIsBounded'
  BY <1>1 DEF GrantInv, AdmissionIsBounded
<1>3. QED
  BY <1>1, <1>2, QuietKeeps DEF IInv, TypeOK

\* The clock keeps the invariant: the roles of the present are held on.
LEMMA TickKeeps ==
  ASSUME IInv, Tick
  PROVE  IInv'
<1>1. /\ now \in Nat /\ now' = now + 1 /\ NoValue \notin Nat
      /\ UNCHANGED <<account, roleRows, grant, tokens, call>>
      /\ \A u \in Users, role \in Roles :
           /\ lastHeld[u][role] \in Nat \cup {NoValue}
           /\ lastHeld'[u][role] = IF role \in roleRows[u] THEN now + 1 ELSE lastHeld[u][role]
           /\ lastHeld[u][role] # NoValue => lastHeld[u][role] <= now
  BY AccessTokensAssumption DEF Tick, IInv, TypeOK, HistoryIsPast
<1>2. lastHeld' \in [Users -> [Roles -> Nat \cup {NoValue}]]
  BY DEF Tick, IInv, TypeOK
<1>3. TypeOK'
  BY <1>1, <1>2 DEF IInv, TypeOK
<1>4. HistoryIsPast'
  <2>1. SUFFICES ASSUME NEW u \in Users, NEW role \in Roles
                 PROVE  /\ lastHeld'[u][role] # NoValue => lastHeld'[u][role] <= now'
                        /\ role \in roleRows[u] =>
                             lastHeld'[u][role] # NoValue /\ now' <= lastHeld'[u][role]
    BY <1>1 DEF HistoryIsPast, HeldSince
  <2>2. now + 1 \in Nat
    BY <1>1
  <2>3. QED
    BY <1>1, <2>2
<1>5. HistoryGrows
  <2>1. SUFFICES ASSUME NEW u \in Users, NEW role \in Roles, NEW t \in Nat,
                        lastHeld[u][role] # NoValue, t <= lastHeld[u][role]
                 PROVE  lastHeld'[u][role] # NoValue /\ t <= lastHeld'[u][role]
    BY DEF HistoryGrows, HeldSince
  <2>2. now + 1 \in Nat
    BY <1>1
  <2>3. QED
    BY <1>1, <2>1, <2>2
<1>6. ASSUME NEW g \in Grants
      PROVE  GrantInv(g)'
  <2>1. grant[g] \in Grant /\ GrantInv(g)
    BY <1>6 DEF IInv, TypeOK
  <2>2. SUFFICES ASSUME grant[g].pc # "idle"  PROVE GrantInv(g)'
    BY <1>1 DEF GrantInv
  <2>3. /\ grant[g].user \in Users /\ grant[g].since \in Nat /\ grant[g].since <= now'
    BY <1>1, <2>1, <2>2 DEF GrantInv, Grant
  <2>4. \A R \in grant[g].seen : \A role \in R : HeldSince(grant[g].user, role, grant[g].since)'
    <3>1. SUFFICES ASSUME NEW R \in grant[g].seen, NEW role \in R
                   PROVE  /\ lastHeld'[grant[g].user][role] # NoValue
                          /\ grant[g].since <= lastHeld'[grant[g].user][role]
      BY <1>1 DEF HeldSince
    <3>2. role \in Roles
      BY <2>1 DEF Grant
    <3>3. HeldSince(grant[g].user, role, grant[g].since)
      BY <2>1, <2>2 DEF GrantInv
    <3>4. QED
      BY <1>5, <2>3, <3>2, <3>3 DEF HistoryGrows, HeldSince
  <2>5. QED
    BY <1>1, <2>1, <2>2, <2>3, <2>4 DEF GrantInv, HeldSince
<1>7. AdmissionIsBounded'
  BY <1>1 DEF IInv, AdmissionIsBounded
<1>8. QED
  BY <1>1, <1>3, <1>4, <1>5, <1>6, <1>7, TokensKeep DEF IInv

\* The invariant is inductive.
THEOREM Inductive == Spec => []IInv
<1>1. IInv /\ [Next]_vars => IInv'
  <2>1. SUFFICES ASSUME IInv, [Next]_vars  PROVE IInv'
    OBVIOUS
  <2>2. CASE UNCHANGED vars
    <3>1. UNCHANGED <<account, roleRows, now, grant, tokens, call, lastHeld>>
      BY <2>2 DEF vars
    <3>2. QED
      BY <2>1, <3>1, QuietKeeps DEF IInv, TypeOK, AdmissionIsBounded
  <2>3. CASE Next
    BY <2>1, <2>3, GrantsKeep, CallsKeep, RegistrationKeeps, CrashKeeps, TickKeeps DEF Next
  <2>4. QED
    BY <2>1, <2>2, <2>3
<1>2. QED
  BY Initially, <1>1, PTL DEF Spec

-----------------------------------------------------------------------------
\* The tables, the requests, the tokens and the history keep their types.
THEOREM TypeCorrect == Spec => []TypeOK
<1>1. IInv => TypeOK
  BY DEF IInv
<1>2. QED
  BY Inductive, <1>1, PTL

\* The roles a grant signs are those of one moment since it arrived.
THEOREM SignedRolesAreReal == Spec => []SignedRolesAreOfOneMoment
<1>1. IInv => SignedRolesAreOfOneMoment
  BY DEF IInv, GrantInv, SignedRolesAreOfOneMoment
<1>2. QED
  BY Inductive, <1>1, PTL

\* A role outlives its removal by less than the lifetime of a token and the time
\* its grant took, whatever the TTL.
THEOREM StalenessIsBounded == Spec => []AdmissionIsBounded
<1>1. IInv => AdmissionIsBounded
  BY DEF IInv
<1>2. QED
  BY Inductive, <1>1, PTL
=============================================================================
