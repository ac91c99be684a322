----------------------------- MODULE GrantLedger -----------------------------
(***************************************************************************)
(* What refresh token rotation promises, with the database, the requests   *)
(* and the clock left out.  A token is unissued, then live, then dead, and *)
(* never goes back.  A login makes an unissued token live for its user.  A *)
(* rotation makes an unissued token live for the user of its parent, and   *)
(* only when the parent is already dead: the two are never live together.  *)
(* Any set of live tokens may die at once (a revocation kills one, the     *)
(* deletion of an account all of its own).                                 *)
(*                                                                         *)
(* The ledger does not promise that a token has one child: the service     *)
(* does not keep that promise (SingleUse in module Grants).                *)
(***************************************************************************)
CONSTANTS
  Users,    \* the accounts
  Tokens,   \* the refresh token strings
  NoValue   \* the parent of a token issued by a login, the owner of none

VARIABLES
  status,   \* [Tokens -> {"unissued", "live", "dead"}]
  owner,    \* [Tokens -> Users \cup {NoValue}]
  parent    \* [Tokens -> Tokens \cup {NoValue}]: the token rotated into it

vars == <<status, owner, parent>>

Init ==
  /\ status = [t \in Tokens |-> "unissued"]
  /\ owner  = [t \in Tokens |-> NoValue]
  /\ parent = [t \in Tokens |-> NoValue]

Issue(t, u, p) ==
  /\ status[t] = "unissued"
  /\ status' = [status EXCEPT ![t] = "live"]
  /\ owner'  = [owner  EXCEPT ![t] = u]
  /\ parent' = [parent EXCEPT ![t] = p]

Login(t, u) == Issue(t, u, NoValue)

Rotate(t, p) ==
  /\ status[p] = "dead"
  /\ Issue(t, owner[p], p)

Kill(T) ==
  /\ \A t \in T : status[t] = "live"
  /\ status' = [t \in Tokens |-> IF t \in T THEN "dead" ELSE status[t]]
  /\ UNCHANGED <<owner, parent>>

Next ==
  \/ \E t \in Tokens, u \in Users : Login(t, u)
  \/ \E t, p \in Tokens : Rotate(t, p)
  \/ \E T \in SUBSET Tokens : Kill(T)

Spec == Init /\ [][Next]_vars
=============================================================================
