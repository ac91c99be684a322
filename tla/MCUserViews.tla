---------------------------- MODULE MCUserViews -----------------------------
(***************************************************************************)
(* Model checking of UserViews on small instances.                         *)
(***************************************************************************)
EXTENDS UserViews, TLC

\* Request slots are interchangeable.
Symmetry == Permutations(Requests)
=============================================================================
