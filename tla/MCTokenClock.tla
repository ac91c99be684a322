---------------------------- MODULE MCTokenClock ----------------------------
(***************************************************************************)
(* Model checking of TokenClock on small instances.                        *)
(***************************************************************************)
EXTENDS TokenClock

\* In each of five seconds: its ends, and both sides of the half.
AroundTheHalf == {1000 * s + ms : s \in 0..4, ms \in {0, 1, 499, 500, 999}}
=============================================================================
