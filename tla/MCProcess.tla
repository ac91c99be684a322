------------------------------ MODULE MCProcess ------------------------------
(***************************************************************************)
(* Model checking of Process, and of ServerLifecycle as a part of it:      *)
(* every environment of which at most one variable is not good.            *)
(***************************************************************************)
EXTENDS Process

Good == [n \in Names |-> "good"]

\* Only NODE_ENV can be production, and only PORT too large; JWT_ISSUER can be
\* any text.
OddValues(n) ==
  {"absent"} \cup (IF n = "JWT_ISSUER" THEN {} ELSE {"invalid"})
    \cup (IF n = "NODE_ENV" THEN {"production"} ELSE {})
    \cup (IF n = "PORT" THEN {"tooLarge"} ELSE {})

UpToOneOdd == {Good} \cup UNION {{[Good EXCEPT ![n] = v] : v \in OddValues(n)} : n \in Names}
=============================================================================
