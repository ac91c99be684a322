------------------------------ MODULE MCGrants ------------------------------
(***************************************************************************)
(* Model checking of Grants on small instances.                            *)
(***************************************************************************)
EXTENDS Grants, TLC

\* Accounts, strings and slots are interchangeable: no action and no property
\* of the safety runs tells two of them apart.
Symmetry == Permutations(Users) \cup Permutations(Tokens) \cup Permutations(Requests)
=============================================================================
