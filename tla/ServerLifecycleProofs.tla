----------------------- MODULE ServerLifecycleProofs -----------------------
(***************************************************************************)
(* Theorems about ServerLifecycle, for any number of connections and runs  *)
(* of shutdown, and about Process, which composes the start with it.       *)
(***************************************************************************)
EXTENDS Process, TLAPS

\* The pool is ended only once the server neither listens nor has a connection,
\* and no connection comes after that.
PoolLast == pool = "ending" => Drained

\* A callback is past its drain, or has ended the process, only with the pool.
CallbacksWait ==
  /\ \A s \in Shutdowns : shut[s].pc = "ending" => pool = "ending"
  /\ exit \in {"zero", "one"} => pool = "ending"

\* An error has a reason: the server did not listen, or an earlier shutdown.
ErrorsHaveReasons ==
  /\ server = "closed" => \E s \in Shutdowns : shut[s].pc # "none"
  /\ \A s \in Shutdowns : shut[s].err =>
       /\ shut[s].pc # "none"
       /\ \/ server = "failed"
          \/ \E t \in Shutdowns : t # s /\ shut[t].pc # "none"
  /\ exit = "one" => \E s \in Shutdowns : shut[s].err

IInv == TypeOK /\ PoolLast /\ CallbacksWait /\ ErrorsHaveReasons

-----------------------------------------------------------------------------
\* The invariant holds when the process starts.
LEMMA Initially == Init => IInv
  BY DEF Init, IInv, TypeOK, PoolLast, CallbacksWait, ErrorsHaveReasons, Socket, Shutdown,
         NoShutdown

\* A step of a client or a handler keeps it: after the drain no client is left
\* to ask, and none comes.
LEMMA ClientsKeep ==
  ASSUME IInv, NEW c \in Conns,
         Connect(c) \/ Request(c) \/ Respond(c) \/ Hangup(c) \/ FinishLeft(c)
  PROVE  IInv'
<1>1. /\ UNCHANGED <<server, shut, pool, exit>>
      /\ \E state \in Socket : sock' = [sock EXCEPT ![c] = state]
  BY DEF Connect, Request, Respond, Hangup, FinishLeft, Become, Socket
<1>2. TypeOK'
  BY <1>1 DEF IInv, TypeOK
<1>3. PoolLast'
  <2>1. SUFFICES ASSUME pool = "ending"  PROVE Drained'
    BY <1>1 DEF PoolLast
  <2>2. Drained
    BY <2>1 DEF IInv, PoolLast
  <2>3. sock[c] \in {"none", "left"} /\ server # "listening"
    BY <2>2 DEF Drained, Open, IInv, TypeOK, Socket
  <2>4. sock' = [sock EXCEPT ![c] = "none"]
    BY <2>3 DEF Connect, Request, Respond, Hangup, FinishLeft, Become
  <2>5. QED
    BY <2>2, <2>4, <1>1 DEF Drained, Open, IInv, TypeOK
<1>4. CallbacksWait' /\ ErrorsHaveReasons'
  BY <1>1 DEF IInv, CallbacksWait, ErrorsHaveReasons
<1>5. QED
  BY <1>2, <1>3, <1>4 DEF IInv

\* A run of shutdown keeps it: its callback has an error only after another run.
LEMMA ShutKeeps ==
  ASSUME IInv, NEW s \in Shutdowns, Shut(s)
  PROVE  IInv'
<1>1. TypeOK'
  BY DEF IInv, TypeOK, Shut, Shutdown, Socket
<1>2. PoolLast'
  BY DEF IInv, TypeOK, PoolLast, Drained, Open, Shut
<1>3. CallbacksWait'
  BY DEF IInv, TypeOK, CallbacksWait, Shut, Running
<1>4. ErrorsHaveReasons'
  <2>1. shut'[s].pc = "draining" /\ shut'[s].err = (server # "listening")
    BY DEF IInv, TypeOK, Shut, Shutdown
  <2>2. \A t \in Shutdowns : t # s => shut'[t] = shut[t]
    BY DEF IInv, TypeOK, Shut
  <2>3. exit = "no" /\ exit' = "no"
    BY DEF Shut, Running
  <2>4. shut[s].pc = "none" /\ (server' = "failed" <=> server = "failed")
    BY DEF Shut
  <2>5. ASSUME NEW t \in Shutdowns, shut'[t].err
        PROVE  /\ shut'[t].pc # "none"
               /\ server' = "failed" \/ \E u \in Shutdowns : u # t /\ shut'[u].pc # "none"
    <3>1. CASE t = s
      <4>1. server \in {"closed", "failed"}
        BY <2>1, <2>5, <3>1 DEF IInv, TypeOK
      <4>2. QED
        BY <2>1, <2>2, <2>4, <3>1, <4>1 DEF IInv, ErrorsHaveReasons
    <3>2. CASE t # s
      BY <2>1, <2>2, <2>5, <3>2 DEF IInv, ErrorsHaveReasons
    <3>3. QED
      BY <3>1, <3>2
  <2>6. QED
    BY <2>1, <2>3, <2>5 DEF ErrorsHaveReasons
<1>5. QED
  BY <1>1, <1>2, <1>3, <1>4 DEF IInv

\* The event 'close' keeps it.
LEMMA CloseKeeps ==
  ASSUME IInv, CloseEvent
  PROVE  IInv'
<1>1. \A s \in Shutdowns : /\ shut'[s].err = shut[s].err
                           /\ shut'[s].pc # "none" <=> shut[s].pc # "none"
  BY DEF CloseEvent, IInv, TypeOK, Shutdown
<1>2. TypeOK'
  BY DEF CloseEvent, IInv, TypeOK, Shutdown
<1>3. PoolLast' /\ CallbacksWait'
  BY DEF CloseEvent, IInv, PoolLast, CallbacksWait, Drained, Open
<1>4. ErrorsHaveReasons'
  BY <1>1 DEF CloseEvent, IInv, ErrorsHaveReasons
<1>5. QED
  BY <1>2, <1>3, <1>4 DEF IInv

\* The end of the process keeps it.
LEMMA ExitsKeep ==
  ASSUME IInv, NEW s \in Shutdowns, Exit(s) \/ ForcedExit(s)
  PROVE  IInv'
<1>1. /\ UNCHANGED <<server, sock, shut, pool>>
      /\ exit' \in {"zero", "one", "forced"}
      /\ exit' = "one" => shut[s].err
      /\ exit' \in {"zero", "one"} => shut[s].pc = "ending"
  BY DEF Exit, ForcedExit, ExitCode
<1>2. QED
  BY <1>1 DEF IInv, TypeOK, PoolLast, Drained, Open, CallbacksWait, ErrorsHaveReasons

\* The invariant is inductive.
THEOREM Inductive == Spec => []IInv
<1>1. IInv /\ [Next]_vars => IInv'
  <2>1. SUFFICES ASSUME IInv, [Next]_vars  PROVE IInv'
    OBVIOUS
  <2>2. CASE UNCHANGED vars
    BY <2>1, <2>2 DEF vars, IInv, TypeOK, PoolLast, Drained, Open, CallbacksWait,
                      ErrorsHaveReasons
  <2>3. CASE Next
    BY <2>1, <2>3, ClientsKeep, ShutKeeps, CloseKeeps, ExitsKeep DEF Next
  <2>4. QED
    BY <2>1, <2>2, <2>3
<1>2. QED
  BY Initially, <1>1, PTL DEF Spec

-----------------------------------------------------------------------------
\* The server, its connections and the runs of shutdown keep their types.
THEOREM TypeCorrect == Spec => []TypeOK
<1>1. IInv => TypeOK
  BY DEF IInv
<1>2. QED
  BY Inductive, <1>1, PTL

\* No handler whose client waits finds the pool closed.
THEOREM PoolOutlives == Spec => []PoolOutlivesClients
<1>1. IInv => PoolOutlivesClients
  BY DEF IInv, PoolLast, Drained, Open, PoolOutlivesClients
<1>2. QED
  BY Inductive, <1>1, PTL

\* Every exit but the forced one leaves no client without an answer, however
\* many signals and exceptions came before it.
THEOREM DrainIsComplete == Spec => []OnlyTheTimerCuts
<1>1. IInv => OnlyTheTimerCuts
  BY DEF IInv, CallbacksWait, PoolLast, Drained, Open, OnlyTheTimerCuts
<1>2. QED
  BY Inductive, <1>1, PTL

\* Exit code 1 without the timer means two runs of shutdown, or no listening.
THEOREM ExitOneIsExplained == Spec => []ExitOneHasReason
<1>1. IInv => ExitOneHasReason
  <2>1. SUFFICES ASSUME IInv, exit = "one", server # "failed"
                 PROVE  \E s, t \in Shutdowns :
                          s # t /\ shut[s].pc # "none" /\ shut[t].pc # "none"
    BY DEF ExitOneHasReason
  <2>2. QED
    BY <2>1 DEF IInv, ErrorsHaveReasons
<1>2. QED
  BY Inductive, <1>1, PTL

\* The drain never turns back: once the server has closed, or could not listen,
\* no connection joins those it waits for, keep-alive or not, and neither the
\* shutdown nor the end of the pool is undone.
THEOREM DrainNeverTurnsBack ==
  Spec => [][/\ server # "listening" => server' = server /\ Open' \subseteq Open
             /\ \A s \in Shutdowns : shut[s].pc # "none" => shut'[s].pc # "none"
             /\ pool = "ending" => pool' = "ending"]_vars
<1> DEFINE Onward ==
      /\ server # "listening" => server' = server /\ Open' \subseteq Open
      /\ \A s \in Shutdowns : shut[s].pc # "none" => shut'[s].pc # "none"
      /\ pool = "ending" => pool' = "ending"
<1>1. IInv /\ [Next]_vars => [Onward]_vars
  <2> SUFFICES ASSUME IInv, Next PROVE Onward
    BY DEF vars
  <2> USE DEF IInv, TypeOK
  <2>1. ASSUME NEW c \in Conns,
               Connect(c) \/ Request(c) \/ Respond(c) \/ Hangup(c) \/ FinishLeft(c)
        PROVE  Onward
    BY <2>1 DEF Connect, Request, Respond, Hangup, FinishLeft, Become, Open
  <2>2. ASSUME NEW s \in Shutdowns, Shut(s)
        PROVE  Onward
    <3>1. server # "listening" => server' = server /\ Open' \subseteq Open
      BY <2>2 DEF Shut, Open
    <3>2. \A t \in Shutdowns : shut[t].pc # "none" => shut'[t].pc # "none"
      BY <2>2 DEF Shut, Shutdown
    <3> QED BY <2>2, <3>1, <3>2 DEF Shut
  <2>3. CASE CloseEvent
    <3>1. \A t \in Shutdowns : shut[t].pc # "none" => shut'[t].pc # "none"
      BY <2>3 DEF CloseEvent, Shutdown
    <3> QED BY <2>3, <3>1 DEF CloseEvent, Open
  <2>4. ASSUME NEW s \in Shutdowns, Exit(s) \/ ForcedExit(s)
        PROVE  Onward
    BY <2>4 DEF Exit, ForcedExit, Open
  <2> QED BY <2>1, <2>2, <2>3, <2>4 DEF Next
<1> HIDE DEF Onward
<1>2. Spec => [][Onward]_vars
  BY <1>1, Inductive, PTL DEF Spec
<1> QED BY <1>2 DEF Onward

-----------------------------------------------------------------------------
(* The whole process *)

\* Every step of the process is a step of ServerLifecycle or leaves its state
\* alone: server.js has no second way to touch the server or the pool.
LEMMA StepsAreOfTheServer == [ProcessNext]_processVars => [Next]_vars
<1>1. SUFFICES ASSUME [ProcessNext]_processVars  PROVE Next \/ UNCHANGED vars
  OBVIOUS
<1>2. CASE UNCHANGED processVars
  BY <1>2 DEF processVars
<1>3. CASE Import \/ CreateApp \/ Listen \/ Register \/ Kill
  BY <1>3 DEF Import, CreateApp, Listen, Register, Kill, Goto
<1>4. CASE Live(Next)
  BY <1>4 DEF Live
<1>5. QED
  BY <1>1, <1>2, <1>3, <1>4 DEF ProcessNext

\* The process, from its import on, implements ServerLifecycle: what is proved
\* of a server that runs holds of one that is still starting, or never started.
THEOREM ProcessImplementsServer == ProcessSpec => Spec
<1>1. ProcessInit => Init
  BY DEF ProcessInit
<1>2. QED
  BY <1>1, StepsAreOfTheServer, PTL DEF ProcessSpec, Spec

\* Until the event loop turns, and for ever in a process whose start threw or was
\* killed, the server is as it began: no connection, no shutdown, the pool open.
Untouched == stage # "up" => Init

\* The stages the start goes through keep the server untouched.
THEOREM StartTouchesNothing == ProcessSpec => []Untouched
<1>1. ProcessInit => Untouched
  BY DEF ProcessInit, Untouched
<1>2. Untouched /\ [ProcessNext]_processVars => Untouched'
  <2>1. SUFFICES ASSUME Untouched, [ProcessNext]_processVars, stage' # "up"
                 PROVE  Init'
    BY DEF Untouched
  <2>2. CASE UNCHANGED processVars
    BY <2>1, <2>2 DEF processVars, vars, Untouched, Init
  <2>3. CASE Import \/ CreateApp \/ Listen \/ Register \/ Kill
    <3>1. UNCHANGED vars /\ stage # "up"
      BY <2>3 DEF Import, CreateApp, Listen, Register, Kill, Goto
    <3>2. QED
      BY <2>1, <3>1 DEF vars, Untouched, Init
  <2>4. CASE Live(Next)
    BY <2>1, <2>4 DEF Live, Turns
  <2>5. QED
    BY <2>1, <2>2, <2>3, <2>4 DEF ProcessNext
<1>3. QED
  BY <1>1, <1>2, PTL DEF ProcessSpec

\* A process that its start or an early signal ended had no client.
THEOREM NobodyIsKilledEarly == ProcessSpec => []NobodyIsKilled
<1>1. Untouched => NobodyIsKilled
  BY DEF Untouched, Init, NobodyIsKilled
<1>2. QED
  BY StartTouchesNothing, <1>1, PTL

\* A process that listens has a configuration the schema admits, a logger that
\* starts, and a port that listen accepts: none of the three is found out late.
Configured ==
  /\ stage \in {"create", "listen", "register", "up"} => Parsed /\ LoggerStarts
  /\ stage \in {"register", "up"} => environ["PORT"] # "tooLarge"

\* A client is accepted only by a process that is configured.
ServesConfigured ==
  (\E c \in Conns : sock[c] # "none") => /\ stage = "up" /\ Parsed /\ LoggerStarts
                                         /\ environ["PORT"] # "tooLarge"

\* Nothing wrong with the configuration is found out with a client on the line.
THEOREM OnlyConfiguredServe == ProcessSpec => []ServesConfigured
<1>1. ProcessInit => Configured
  BY DEF ProcessInit, Configured
<1>2. Configured /\ [ProcessNext]_processVars => Configured'
  <2>1. SUFFICES ASSUME Configured, [ProcessNext]_processVars  PROVE Configured'
    OBVIOUS
  <2>2. /\ UNCHANGED given
        /\ \/ UNCHANGED stage
           \/ Parsed /\ LoggerStarts /\ stage' = "create"
           \/ stage = "create" /\ stage' = "listen"
           \/ stage = "listen" /\ environ["PORT"] # "tooLarge" /\ stage' = "register"
           \/ stage = "register" /\ stage' = "up"
           \/ stage' \in {"threw", "killed"}
    BY <2>1 DEF ProcessNext, processVars, Import, CreateApp, Listen, Register, Kill, Goto,
                Live
  <2>3. (Parsed' <=> Parsed) /\ (LoggerStarts' <=> LoggerStarts)
    BY <2>2 DEF given, Parsed, LoggerStarts
  <2>4. QED
    BY <2>1, <2>2, <2>3 DEF given, Configured
<1>3. Configured /\ Untouched => ServesConfigured
  BY DEF Configured, Untouched, Init, ServesConfigured
<1>4. QED
  BY <1>1, <1>2, <1>3, StartTouchesNothing, PTL DEF ProcessSpec

\* The theorems about the server, carried to the process that the run checks:
\* the types, the pool, the drain and the exit codes.
THEOREM ProcessKeepsTheServersPromises ==
  ProcessSpec => /\ []TypeOK
                 /\ []PoolOutlivesClients
                 /\ []OnlyTheTimerCuts
                 /\ []ExitOneHasReason
  BY ProcessImplementsServer, TypeCorrect, PoolOutlives, DrainIsComplete, ExitOneIsExplained,
     PTL
=============================================================================
