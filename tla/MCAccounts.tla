----------------------------- MODULE MCAccounts -----------------------------
(***************************************************************************)
(* Model checking of Accounts on small instances.                          *)
(***************************************************************************)
EXTENDS Accounts, TLC

\* Request slots are interchangeable, and so are the ids AUTO_INCREMENT may
\* still hand out.
Symmetry == Permutations(Requests) \cup Permutations(Ids \ {Bootstrap})
              \cup Permutations(Names \ {BootName}) \cup Permutations(Mails \ {BootMail})
=============================================================================
