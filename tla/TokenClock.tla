----------------------------- MODULE TokenClock -----------------------------
(***************************************************************************)
(* How long a token pair lives.  The access token carries times of the     *)
(* clock of Node in whole seconds, cut off.  The refresh token expires at  *)
(* a time of the clock of Node too, but MySQL rounds it to a DATETIME and  *)
(* compares it with its own clock, cut off to seconds by NOW().            *)
(*                                                                         *)
(* Clocks are in milliseconds.  They run apart by at most MaxSkew, which   *)
(* stands for the difference of their time zones too: the driver sends the *)
(* local time of Node as text.  Grants has one clock in units of its own;  *)
(* this module says what that clock is worth.                              *)
(***************************************************************************)
EXTENDS Integers

CONSTANTS
  Pairs,       \* token pairs
  AccessTTL,   \* JWT_ACCESS_TOKEN_EXPIRES_IN, in seconds
  RefreshTTL,  \* JWT_REFRESH_TOKEN_EXPIRES_IN, in seconds
  MaxSkew,     \* bound on the distance of the clocks
  Moments      \* the readings of the clocks that are looked at: a bound

ASSUME TokenClockAssumption ==
  /\ AccessTTL \in Nat \ {0} /\ RefreshTTL \in Nat \ {0}
  /\ MaxSkew \in Nat /\ Moments \in SUBSET Nat

VARIABLES
  node,  \* the clock of Node
  db,    \* the clock of MySQL
  pair   \* [Pairs -> Pair]

vars == <<node, db, pair>>

-----------------------------------------------------------------------------
Pair == [pc: {"none", "signed", "dated", "stored"},
         signed: Nat,     \* history: when the access token was signed
         exp: Nat,        \* its claim, in seconds
         dated: Nat,      \* history: when the refresh token's expiry was computed
         expiry: Nat,     \* that expiry, a Date
         expiresAt: Nat]  \* EXPIRES_AT, in seconds

NoPair == [pc |-> "none", signed |-> 0, exp |-> 0, dated |-> 0, expiry |-> 0, expiresAt |-> 0]

Close(n, d) == n - d \in -MaxSkew..MaxSkew

Init ==
  /\ node \in Moments /\ db \in Moments /\ Close(node, db)
  /\ pair = [p \in Pairs |-> NoPair]

\* Math.floor(ms / 1000), and NOW().
Seconds(ms) == ms \div 1000

\* A Date sent with its milliseconds to a DATETIME column, which rounds.
DateTime(ms) == (ms + 500) \div 1000

\* Mutant of RefreshTokenExpiry: the TTL of the access token.
RefreshTokenExpiryOfAccess(now) == now + AccessTTL * 1000

\* Mutant of RefreshTokenExpiry: the TTL with the wrong sign.
RefreshTokenExpiryInThePast(now) == now - RefreshTTL * 1000

\* Date.now() + ttl * 1000
RefreshTokenExpiry(now) == now + RefreshTTL * 1000

-----------------------------------------------------------------------------
(* A pair is made in three steps, for time may pass between them. *)

CreateAccessToken(p) ==
  /\ pair[p].pc = "none"
  /\ pair' = [pair EXCEPT ![p].pc = "signed", ![p].signed = node,
                          ![p].exp = Seconds(node) + AccessTTL]
  /\ UNCHANGED <<node, db>>

GetRefreshTokenExpiry(p) ==
  /\ pair[p].pc = "signed"
  /\ pair' = [pair EXCEPT ![p].pc = "dated", ![p].dated = node,
                          ![p].expiry = RefreshTokenExpiry(node)]
  /\ UNCHANGED <<node, db>>

Save(p) ==
  /\ pair[p].pc = "dated"
  /\ pair' = [pair EXCEPT ![p].pc = "stored", ![p].expiresAt = DateTime(pair[p].expiry)]
  /\ UNCHANGED <<node, db>>

\* Bound: a pair that is not looked at any more makes room for another.
Forget(p) ==
  /\ pair[p].pc = "stored"
  /\ pair' = [pair EXCEPT ![p] = NoPair]
  /\ UNCHANGED <<node, db>>

AdvanceNode ==
  /\ \E m \in Moments : m > node /\ Close(m, db) /\ node' = m
  /\ UNCHANGED <<db, pair>>

AdvanceDb ==
  /\ \E m \in Moments : m > db /\ Close(node, m) /\ db' = m
  /\ UNCHANGED <<node, pair>>

Next ==
  \/ \E p \in Pairs : CreateAccessToken(p) \/ GetRefreshTokenExpiry(p) \/ Save(p) \/ Forget(p)
  \/ AdvanceNode \/ AdvanceDb

Spec == Init /\ [][Next]_vars

-----------------------------------------------------------------------------
(* What happens to a token presented now *)

\* Mutant of Verify: the claim is still good at its own second.
VerifyInclusive(p) == Seconds(node) <= pair[p].exp

\* jwt.verify.
Verify(p) == Seconds(node) < pair[p].exp

\* EXPIRES_AT > NOW()
FindValid(p) == pair[p].expiresAt > Seconds(db)

-----------------------------------------------------------------------------
(* Properties *)

\* Type correctness of the clocks and the pairs.
TypeOK ==
  /\ node \in Moments /\ db \in Moments /\ Close(node, db)
  /\ pair \in [Pairs -> Pair]

Stored(p) == pair[p].pc = "stored"

\* An access token is good for its TTL, less up to a second: never longer, and
\* never a whole second shorter, wherever in a second it was signed.
AccessLifetime ==
  \A p \in Pairs : Stored(p) =>
    LET age == node - pair[p].signed
    IN /\ Verify(p) => age < AccessTTL * 1000
       /\ ~ Verify(p) => age > AccessTTL * 1000 - 1000

\* A refresh token is good for its TTL, give or take half a second of rounding
\* and the distance of the two clocks.
RefreshLifetime ==
  \A p \in Pairs : Stored(p) =>
    LET age == node - pair[p].dated
    IN /\ FindValid(p) => age < RefreshTTL * 1000 + 500 + MaxSkew
       /\ ~ FindValid(p) => age > RefreshTTL * 1000 - 500 - MaxSkew

\* Both, whenever in a second and on whichever clock the times are taken.
Lifetimes == AccessLifetime /\ RefreshLifetime

\* Where the TTLs leave room for rounding and skew, no client holds a good access
\* token with a dead refresh token: expiry alone never ends a session early.
RefreshOutlivesAccess ==
  RefreshTTL * 1000 >= AccessTTL * 1000 + 500 + MaxSkew =>
    \A p \in Pairs : Stored(p) /\ Verify(p) => FindValid(p)
=============================================================================
