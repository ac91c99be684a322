--------------------------- MODULE MCAccessTokens ---------------------------
(***************************************************************************)
(* Model checking of AccessTokens on small instances.                      *)
(***************************************************************************)
EXTENDS AccessTokens, TLC

\* Accounts are interchangeable.
Symmetry == Permutations(Users)
=============================================================================
