-------------------------- MODULE TokenClockProofs --------------------------
(***************************************************************************)
(* Theorems about TokenClock, for any TTLs, any skew and any readings of   *)
(* the clocks.  The arithmetic is in Cutting and Rounding; the invariant   *)
(* says which reading of the clock each part of a pair comes from.         *)
(***************************************************************************)
EXTENDS TokenClock, TLAPS

\* What is stored of a pair, stage by stage.
PairInv(p) ==
  /\ pair[p].pc \in {"signed", "dated", "stored"} =>
       pair[p].signed <= node /\ pair[p].exp = Seconds(pair[p].signed) + AccessTTL
  /\ pair[p].pc \in {"dated", "stored"} =>
       /\ pair[p].signed <= pair[p].dated /\ pair[p].dated <= node
       /\ pair[p].expiry = RefreshTokenExpiry(pair[p].dated)
  /\ pair[p].pc = "stored" => pair[p].expiresAt = DateTime(pair[p].expiry)

IInv == TypeOK /\ \A p \in Pairs : PairInv(p)

-----------------------------------------------------------------------------
(* The arithmetic of the two conversions *)

\* Cutting off: the second s has begun at t, or will begin after it.
LEMMA Cutting ==
  ASSUME NEW t \in Nat, NEW s \in Nat
  PROVE  Seconds(t) \in Nat /\ (Seconds(t) < s <=> t < 1000 * s)
BY DEF Seconds

\* Rounding moves a time by half a second at most.
LEMMA Rounding ==
  ASSUME NEW t \in Nat
  PROVE  /\ DateTime(t) \in Nat
         /\ 1000 * DateTime(t) <= t + 500 /\ 1000 * DateTime(t) > t - 500
BY DEF DateTime

LEMMA Conversions ==
  ASSUME NEW t \in Nat
  PROVE  /\ Seconds(t) \in Nat /\ Seconds(t) + AccessTTL \in Nat /\ RefreshTokenExpiry(t) \in Nat
         /\ 1000 * Seconds(t) <= t /\ 1000 * Seconds(t) > t - 1000
BY TokenClockAssumption DEF Seconds, RefreshTokenExpiry

-----------------------------------------------------------------------------
LEMMA Initially == Init => IInv
<1>1. SUFFICES ASSUME Init  PROVE IInv
  OBVIOUS
<1>2. NoPair \in Pair /\ NoPair.pc = "none"
  BY DEF NoPair, Pair
<1>3. QED
  BY <1>1, <1>2 DEF Init, IInv, TypeOK, PairInv

LEMMA Inductive == IInv /\ [Next]_vars => IInv'
<1>1. SUFFICES ASSUME IInv, [Next]_vars  PROVE IInv'
  OBVIOUS
<1>2. node \in Nat /\ db \in Nat /\ \A p \in Pairs : pair[p] \in Pair
  BY <1>1, TokenClockAssumption DEF IInv, TypeOK
<1>3. ASSUME NEW p \in Pairs, CreateAccessToken(p)  PROVE IInv'
  <2>1. Seconds(node) + AccessTTL \in Nat
    BY <1>2, Conversions
  <2>2. TypeOK'
    BY <1>1, <1>2, <1>3, <2>1 DEF IInv, TypeOK, CreateAccessToken, Pair
  <2>3. QED
    BY <1>1, <1>2, <1>3, <2>1, <2>2 DEF IInv, TypeOK, PairInv, CreateAccessToken, Pair
<1>4. ASSUME NEW p \in Pairs, GetRefreshTokenExpiry(p)  PROVE IInv'
  <2>1. RefreshTokenExpiry(node) \in Nat
    BY <1>2, Conversions
  <2>2. TypeOK'
    BY <1>1, <1>2, <1>4, <2>1 DEF IInv, TypeOK, GetRefreshTokenExpiry, Pair
  <2>3. QED
    BY <1>1, <1>2, <1>4, <2>1, <2>2 DEF IInv, TypeOK, PairInv, GetRefreshTokenExpiry, Pair
<1>5. ASSUME NEW p \in Pairs, Save(p)  PROVE IInv'
  <2>1. DateTime(pair[p].expiry) \in Nat
    BY <1>2, Rounding DEF Pair
  <2>2. TypeOK'
    BY <1>1, <1>2, <1>5, <2>1 DEF IInv, TypeOK, Save, Pair
  <2>3. QED
    BY <1>1, <1>2, <1>5, <2>1, <2>2 DEF IInv, TypeOK, PairInv, Save, Pair
<1>6. ASSUME NEW p \in Pairs, Forget(p)  PROVE IInv'
  <2>1. NoPair \in Pair /\ NoPair.pc = "none"
    BY DEF NoPair, Pair
  <2>2. QED
    BY <1>1, <1>6, <2>1 DEF IInv, TypeOK, PairInv, Forget
<1>7. CASE AdvanceNode
  <2>1. node' \in Moments /\ node' \in Nat /\ node < node' /\ Close(node', db) /\ pair' = pair
        /\ db' = db
    BY <1>7, TokenClockAssumption DEF AdvanceNode
  <2>2. QED
    BY <1>1, <1>2, <2>1 DEF IInv, TypeOK, PairInv, Pair
<1>8. CASE AdvanceDb
  BY <1>1, <1>8 DEF AdvanceDb, IInv, TypeOK, PairInv
<1>9. CASE UNCHANGED vars
  BY <1>1, <1>9 DEF vars, IInv, TypeOK, PairInv
<1>10. QED
  BY <1>1, <1>3, <1>4, <1>5, <1>6, <1>7, <1>8, <1>9 DEF Next

LEMMA Invariant == Spec => []IInv
BY Initially, Inductive, PTL DEF Spec

-----------------------------------------------------------------------------
\* Type correctness of the clocks and the pairs.
THEOREM TypeCorrect == Spec => []TypeOK
<1>1. IInv => TypeOK
  BY DEF IInv
<1>2. QED
  BY <1>1, Invariant, PTL

\* When each token of a stored pair is good, in milliseconds.
LEMMA WhenGood ==
  ASSUME IInv, NEW p \in Pairs, Stored(p)
  PROVE  /\ node \in Nat /\ db \in Nat /\ node - db <= MaxSkew /\ db - node <= MaxSkew
         /\ pair[p].signed \in Nat /\ pair[p].dated \in Nat
         /\ pair[p].signed <= pair[p].dated
         /\ Verify(p) => node < pair[p].signed + AccessTTL * 1000
         /\ ~ Verify(p) => node > pair[p].signed + AccessTTL * 1000 - 1000
         /\ FindValid(p) => db < pair[p].dated + RefreshTTL * 1000 + 500
         /\ ~ FindValid(p) => db > pair[p].dated + RefreshTTL * 1000 - 500
<1>1. /\ node \in Nat /\ db \in Nat /\ pair[p] \in Pair
      /\ node - db <= MaxSkew /\ db - node <= MaxSkew
  <2>1. node \in Nat /\ db \in Nat /\ pair[p] \in Pair
    BY TokenClockAssumption DEF IInv, TypeOK
  <2>2. node - db \in -MaxSkew..MaxSkew
    BY DEF IInv, TypeOK, Close
  <2>3. QED
    BY <2>1, <2>2, TokenClockAssumption
<1>2. /\ pair[p].signed \in Nat /\ pair[p].dated \in Nat
      /\ pair[p].expiry \in Nat /\ pair[p].expiresAt \in Nat /\ pair[p].exp \in Nat
  BY <1>1 DEF Pair
<1>3. /\ pair[p].signed <= pair[p].dated
      /\ pair[p].exp = Seconds(pair[p].signed) + AccessTTL
      /\ pair[p].expiry = pair[p].dated + RefreshTTL * 1000
      /\ pair[p].expiresAt = DateTime(pair[p].expiry)
  BY DEF IInv, PairInv, Stored, RefreshTokenExpiry
<1>4. Verify(p) <=> node < 1000 * pair[p].exp
  BY <1>1, <1>2, Cutting DEF Verify
<1>5. FindValid(p) <=> db < 1000 * pair[p].expiresAt
  <2>1. Seconds(db) \in Nat /\ (Seconds(db) < pair[p].expiresAt <=> db < 1000 * pair[p].expiresAt)
    BY <1>1, <1>2, Cutting
  <2>2. QED
    BY <1>2, <2>1 DEF FindValid
<1>6. /\ Seconds(pair[p].signed) \in Nat
      /\ 1000 * Seconds(pair[p].signed) <= pair[p].signed
      /\ 1000 * Seconds(pair[p].signed) > pair[p].signed - 1000
  BY <1>2, Conversions
<1>7. /\ 1000 * pair[p].expiresAt <= pair[p].expiry + 500
      /\ 1000 * pair[p].expiresAt > pair[p].expiry - 500
  BY <1>2, <1>3, Rounding
<1>8. QED
  BY <1>1, <1>2, <1>3, <1>4, <1>5, <1>6, <1>7, TokenClockAssumption

\* An access token lives for its TTL less up to a second, a refresh token for its
\* TTL, give or take half a second and the skew (TokenService.createAccessToken,
\* verifyAccessToken, getRefreshTokenExpiry, RefreshTokenRepository.findValid).
THEOREM TokensLive == Spec => []Lifetimes
<1>1. IInv => AccessLifetime
  BY WhenGood, TokenClockAssumption DEF AccessLifetime
<1>2. IInv => RefreshLifetime
  BY WhenGood, TokenClockAssumption DEF RefreshLifetime
<1>3. QED
  BY <1>1, <1>2, Invariant, PTL DEF Lifetimes

\* With room between the TTLs, a good access token has a good refresh token
\* beside it.
THEOREM RefreshOutlives == Spec => []RefreshOutlivesAccess
<1>1. IInv => RefreshOutlivesAccess
  BY WhenGood, TokenClockAssumption DEF RefreshOutlivesAccess
<1>2. QED
  BY <1>1, Invariant, PTL
=============================================================================
