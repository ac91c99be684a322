-------------------------- MODULE ServerLifecycle --------------------------
(***************************************************************************)
(* The end of the process: server.js, closePool, and the HTTP server of    *)
(* Node 20 as server.js uses it.  shutdown runs at every signal and every  *)
(* uncaught exception, so it may run several times.  Each run hands        *)
(* server.close a callback and arms a timer of ten seconds.                *)
(*                                                                         *)
(* server.close stops listening and drops the idle connections.  The       *)
(* callbacks wait for the event 'close', which comes once no connection is *)
(* open; a callback that was handed over when the server did not listen    *)
(* gets an error then.  A connection without a request yet counts as       *)
(* active, and keep-alive lets a connection that answered after the close  *)
(* take one more request.                                                  *)
(***************************************************************************)
EXTENDS Naturals

CONSTANTS
  Conns,     \* slots for connections of clients
  Shutdowns  \* bound: runs of shutdown

VARIABLES
  server,  \* "listening", "closed", or "failed": it could not listen
  sock,    \* [Conns -> Socket]
  shut,    \* [Shutdowns -> Shutdown], the runs of shutdown
  pool,    \* "open", or "ending" once pool.end was called
  exit     \* how the process exited

vars == <<server, sock, shut, pool, exit>>

\* "fresh": no request yet; "busy": its handler runs; "idle": kept alive;
\* "left": the client is gone and its handler still runs.
Socket == {"none", "fresh", "busy", "idle", "left"}

\* err: whether the callback gets an error.
Shutdown == [pc: {"none", "draining", "ending"}, err: BOOLEAN]

NoShutdown == [pc |-> "none", err |-> FALSE]

Init ==
  /\ server \in {"listening", "failed"}
  /\ sock = [c \in Conns |-> "none"]
  /\ shut = [s \in Shutdowns |-> NoShutdown]
  /\ pool = "open"
  /\ exit = "no"

Running == exit = "no"

-----------------------------------------------------------------------------
(* Clients and handlers. *)

Become(c, state) ==
  /\ sock' = [sock EXCEPT ![c] = state]
  /\ UNCHANGED <<server, shut, pool, exit>>

Connect(c) ==
  /\ Running /\ server = "listening" /\ sock[c] = "none"
  /\ Become(c, "fresh")

Request(c) ==
  /\ Running /\ sock[c] \in {"fresh", "idle"}
  /\ Become(c, "busy")

\* The answer is sent; the connection is kept, or not.
Respond(c) ==
  /\ Running /\ sock[c] = "busy"
  /\ \E state \in {"idle", "none"} : Become(c, state)

\* The client closes, or an idle connection times out.
Hangup(c) ==
  /\ Running
  /\ \/ sock[c] \in {"fresh", "idle"} /\ Become(c, "none")
     \/ sock[c] = "busy" /\ Become(c, "left")

\* A handler without a client ends, its statements refused by now or not.
FinishLeft(c) ==
  /\ Running /\ sock[c] = "left"
  /\ Become(c, "none")

-----------------------------------------------------------------------------
(* The end. *)

\* Mutant of Shut: the pool is ended next to server.close, without waiting.
ShutBoth(s) ==
  /\ Running /\ shut[s].pc = "none"
  /\ shut' = [shut EXCEPT ![s] = [pc |-> "draining", err |-> server # "listening"]]
  /\ server' = IF server = "listening" THEN "closed" ELSE server
  /\ sock' = [c \in Conns |-> IF sock[c] = "idle" THEN "none" ELSE sock[c]]
  /\ pool' = "ending"
  /\ UNCHANGED exit

\* shutdown: a signal, an uncaught exception, or the error of a server that
\* could not listen.
Shut(s) ==
  /\ Running /\ shut[s].pc = "none"
  /\ shut' = [shut EXCEPT ![s] = [pc |-> "draining", err |-> server # "listening"]]
  /\ server' = IF server = "listening" THEN "closed" ELSE server
  /\ sock' = [c \in Conns |-> IF sock[c] = "idle" THEN "none" ELSE sock[c]]
  /\ UNCHANGED <<pool, exit>>

Open == {c \in Conns : sock[c] \in {"fresh", "busy", "idle"}}

\* Mutant of Drained: a server that does not listen calls back at once.
DrainedAtOnce == server # "listening"

Drained == server # "listening" /\ Open = {}

\* 'close': every waiting callback runs up to its await of pool.end.
CloseEvent ==
  /\ Running /\ Drained
  /\ \E s \in Shutdowns : shut[s].pc = "draining"
  /\ shut' = [s \in Shutdowns |-> IF shut[s].pc = "draining"
                                  THEN [shut[s] EXCEPT !.pc = "ending"] ELSE shut[s]]
  /\ pool' = "ending"
  /\ UNCHANGED <<server, sock, exit>>

\* Mutants of ExitCode: process.exit(err && 1); process.exit(1) for the first, too.
ExitCodeUndefined(s) == IF shut[s].err THEN "one" ELSE "undefined"
ExitCodeOne(s) == "one"

ExitCode(s) == IF shut[s].err THEN "one" ELSE "zero"

\* pool.end settles, for good or bad: the second end of a pool fails.
Exit(s) ==
  /\ Running /\ shut[s].pc = "ending"
  /\ exit' = ExitCode(s)
  /\ UNCHANGED <<server, sock, shut, pool>>

\* Mutant of ForcedExit: the callback clears the timer.
ForcedExitWhileDraining(s) ==
  /\ Running /\ shut[s].pc = "draining"
  /\ exit' = "forced"
  /\ UNCHANGED <<server, sock, shut, pool>>

\* The timer: process.exit(1).
ForcedExit(s) ==
  /\ Running /\ shut[s].pc # "none"
  /\ exit' = "forced"
  /\ UNCHANGED <<server, sock, shut, pool>>

Next ==
  \/ \E c \in Conns : Connect(c) \/ Request(c) \/ Respond(c) \/ Hangup(c) \/ FinishLeft(c)
  \/ \E s \in Shutdowns : Shut(s) \/ Exit(s) \/ ForcedExit(s)
  \/ CloseEvent

Spec == Init /\ [][Next]_vars
-----------------------------------------------------------------------------
(* Properties. *)

\* Type correctness of the server, its connections and the runs of shutdown.
TypeOK ==
  /\ server \in {"listening", "closed", "failed"}
  /\ sock \in [Conns -> Socket]
  /\ shut \in [Shutdowns -> Shutdown]
  /\ pool \in {"open", "ending"}
  /\ exit \in {"no", "zero", "one", "forced"}

\* Only the timer cuts a client off.  A second signal in the middle of the
\* drain does not, though its callback exits with 1: it waits for the drain too.
OnlyTheTimerCuts == exit \in {"zero", "one"} => \A c \in Conns : sock[c] # "busy"

\* No handler whose client waits finds the pool closed.
PoolOutlivesClients == pool = "ending" => \A c \in Conns : sock[c] # "busy"

\* The exit code is 1 only after a second run of shutdown, a failure to listen,
\* or the timer; an uncaught exception alone ends in exit code 0.
ExitOneHasReason ==
  exit = "one" => \/ server = "failed"
                  \/ \E s, t \in Shutdowns : s # t /\ shut[s].pc # "none" /\ shut[t].pc # "none"

\* After shutdown has run the process exits, whatever clients and MySQL do.
ShutdownEnds == \A s \in Shutdowns : shut[s].pc # "none" ~> ~Running
=============================================================================
