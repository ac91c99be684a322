---------------------------- MODULE PoolContract ----------------------------
(***************************************************************************)
(* What the rest of the service relies on when it takes a connection from  *)
(* the pool, with the queue, the opening of connections and what is done   *)
(* with them left out: nobody shares a connection, a client that waits has *)
(* none, and every wait ends, with a connection or with an error, however  *)
(* long the others wait and however often connections break.  Module       *)
(* Accounts counts its connections, and takes its fairness, on this.       *)
(***************************************************************************)
CONSTANTS
  Clients,  \* the awaits in flight that need a connection
  Conns,    \* the connections
  None      \* no connection

VARIABLES
  wants,  \* the clients that wait for a connection
  has     \* [Clients -> Conns \cup {None}]

vars == <<wants, has>>

Init == wants = {} /\ has = [c \in Clients |-> None]

Ask(c) ==
  /\ c \notin wants /\ has[c] = None
  /\ wants' = wants \cup {c}
  /\ UNCHANGED has

Take(c) ==
  /\ c \in wants
  /\ wants' = wants \ {c}
  /\ \E k \in Conns : /\ \A d \in Clients : has[d] # k
                      /\ has' = [has EXCEPT ![c] = k]

Refuse(c) ==
  /\ c \in wants
  /\ wants' = wants \ {c}
  /\ UNCHANGED has

\* The client is done, or needs a connection once more.
Give(c) ==
  /\ has[c] # None
  /\ has' = [has EXCEPT ![c] = None]
  /\ wants' \in {wants, wants \cup {c}}

Next == \E c \in Clients : Ask(c) \/ Take(c) \/ Refuse(c) \/ Give(c)

Fairness == \A c \in Clients : /\ WF_vars(Take(c) \/ Refuse(c))
                               /\ WF_vars(Give(c))

Spec == Init /\ [][Next]_vars /\ Fairness
=============================================================================
