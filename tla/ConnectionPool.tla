--------------------------- MODULE ConnectionPool ---------------------------
(***************************************************************************)
(* The connection pool (db.js) and the three ways the service uses it: one *)
(* statement (pool.query), a transaction (UserPersistenceServiceImpl) and  *)
(* the health probe (ping).  The pool belongs to mysql2 and is external:   *)
(* its free connections, its queue of waiters, and that a connection which *)
(* breaks leaves the pool at once, whoever holds it.                       *)
(*                                                                         *)
(* A client is one await that needs a connection.  What the pool does with *)
(* a waiter it does before any other client runs: a connection that is     *)
(* given back belongs to the head of the queue from that moment on, though *)
(* the head learns of it later (process.nextTick).                         *)
(*                                                                         *)
(* What the statements say, and the locks they wait for, is in Accounts.   *)
(***************************************************************************)
EXTENDS Naturals, Sequences

CONSTANTS
  Clients,  \* the awaits in flight that need a connection
  Conns,    \* as many as DB_CONNECTION_LIMIT allows
  None,     \* no connection held
  Lost      \* the connection held has broken

ASSUME ConnectionPoolAssumption ==
  /\ Conns # {}
  /\ None \notin Conns /\ Lost \notin Conns /\ None # Lost

VARIABLES
  pool,  \* what mysql2 keeps, see Pool
  pc     \* [Clients -> Stage]: what the client does once it is connected

vars == <<pool, pc>>

Transaction == {"begin", "write", "commit", "rollback"}
Stage == {"idle", "query", "ping"} \cup Transaction

Pool == [conn: [Conns -> {"closed", "opening", "handed", "open"}],
         held: [Clients -> Conns \cup {None, Lost}],
         free: SUBSET Conns,
         dirty: SUBSET Conns,   \* those with a transaction open
         queue: Seq(Clients)]

State(conn, held, free, dirty, queue) ==
  [conn |-> conn, held |-> held, free |-> free, dirty |-> dirty, queue |-> queue]

Init ==
  /\ pool = State([k \in Conns |-> "closed"], [c \in Clients |-> None], {}, {}, <<>>)
  /\ pc = [c \in Clients |-> "idle"]

-----------------------------------------------------------------------------
(* The pool of mysql2, as functions of its state. *)

\* k, in state s, belongs to c.
Grant(p, c, k, s) ==
  State([p.conn EXCEPT ![k] = s], [p.held EXCEPT ![c] = k], p.free \ {k}, p.dirty, p.queue)

Enqueue(p, c) == State(p.conn, p.held, p.free, p.dirty, Append(p.queue, c))

Closed(p) == {k \in Conns : p.conn[k] = "closed"}

\* A free connection, else a new one, else the queue.
GetConnection(p, c) ==
  CASE p.free # {} -> Grant(p, c, CHOOSE k \in p.free : TRUE, "handed")
    [] p.free = {} /\ Closed(p) # {} -> Grant(p, c, CHOOSE k \in Closed(p) : TRUE, "opening")
    [] OTHER -> Enqueue(p, c)

\* The head of the queue tries once more.
Serve(p) ==
  IF p.queue = <<>> THEN p
  ELSE GetConnection(State(p.conn, p.held, p.free, p.dirty, Tail(p.queue)), Head(p.queue))

\* A connection that broke has already left the pool.
Release(p, c) ==
  Serve(State(p.conn, [p.held EXCEPT ![c] = None],
              IF p.held[c] = Lost THEN p.free ELSE p.free \cup {p.held[c]},
              p.dirty, p.queue))

\* k leaves the pool; those who hold a connection are then as in held.
Remove(p, k, held) ==
  Serve(State([p.conn EXCEPT ![k] = "closed"], held, p.free \ {k}, p.dirty \ {k}, p.queue))

Connected(c) == pool.held[c] \in Conns /\ pool.conn[pool.held[c]] = "open"

\* The client has its connection, or had it until it broke.
InHand(c) == Connected(c) \/ pool.held[c] = Lost

-----------------------------------------------------------------------------
(* The connections. *)

Goto(c, stage) == pc' = [pc EXCEPT ![c] = stage]

\* The await for a connection is over.
Obtain(c) ==
  /\ pool.held[c] \in Conns /\ pool.conn[pool.held[c]] \in {"opening", "handed"}
  /\ pool' = State([pool.conn EXCEPT ![pool.held[c]] = "open"], pool.held, pool.free,
                   pool.dirty, pool.queue)
  /\ UNCHANGED pc

\* MySQL refuses the connection: getConnection throws.
OpenFails(c) ==
  /\ pool.held[c] \in Conns /\ pool.conn[pool.held[c]] = "opening"
  /\ pool' = Remove(pool, pool.held[c], [pool.held EXCEPT ![c] = None])
  /\ Goto(c, "idle")

\* MySQL or the network closes a connection, free, on its way or in use.
Break(k) ==
  /\ pool.conn[k] \in {"handed", "open"}
  /\ pool' = Remove(pool, k, [c \in Clients |-> IF pool.held[c] = k THEN Lost
                                                ELSE pool.held[c]])
  /\ UNCHANGED pc

-----------------------------------------------------------------------------
(* The clients. *)

Ask(c, stage) ==
  /\ pc[c] = "idle"
  /\ pool' = GetConnection(pool, c)
  /\ Goto(c, stage)

\* Mutant of Ping: it releases in the try block, not in finally.
PingWithoutFinally(c) ==
  /\ pc[c] = "ping" /\ InHand(c)
  /\ \/ Connected(c) /\ pool' = Release(pool, c)
     \/ pool' = State(pool.conn, [pool.held EXCEPT ![c] = None], pool.free, pool.dirty,
                      pool.queue)
  /\ Goto(c, "idle")

\* The finally of ping releases whether the probe succeeds or not.
Ping(c) ==
  /\ pc[c] = "ping" /\ InHand(c)
  /\ pool' = Release(pool, c)
  /\ Goto(c, "idle")

\* pool.query gives its connection back whatever the statement did.
Query(c) ==
  /\ pc[c] = "query" /\ InHand(c)
  /\ pool' = Release(pool, c)
  /\ Goto(c, "idle")

Begin(c) ==
  /\ pc[c] = "begin" /\ Connected(c)
  /\ pool' = State(pool.conn, pool.held, pool.free, pool.dirty \cup {pool.held[c]}, pool.queue)
  /\ Goto(c, "write")

Write(c) ==
  /\ pc[c] = "write" /\ Connected(c)
  /\ Goto(c, "commit")
  /\ UNCHANGED pool

\* BEGIN, a statement or COMMIT fails, as each does on a connection that is
\* lost: the catch clause rolls back.
StatementFails(c) ==
  /\ pc[c] \in {"begin", "write", "commit"} /\ InHand(c)
  /\ Goto(c, "rollback")
  /\ UNCHANGED pool

\* The pool once the transaction of c has ended.
Ended(c) ==
  State(pool.conn, pool.held, pool.free, pool.dirty \ {pool.held[c]}, pool.queue)

\* Mutant of Commit: the roles are read back inside the try block, before the
\* release.
CommitEnrichFirst(c) ==
  /\ pc[c] = "commit" /\ Connected(c)
  /\ pool' = GetConnection(Ended(c), c)
  /\ Goto(c, "query")

\* The release, and in the same run of the event loop the query for the roles
\* of the answer: it waits behind whoever waits already.
Commit(c) ==
  /\ pc[c] = "commit" /\ Connected(c)
  /\ pool' = GetConnection(Release(Ended(c), c), c)
  /\ Goto(c, "query")

\* Mutant of Rollback: the catch clause only throws.
RollbackForgotten(c) ==
  /\ pc[c] = "rollback" /\ InHand(c)
  /\ pool' = Release(pool, c)
  /\ Goto(c, "idle")

\* ROLLBACK fails only on a connection that is lost: MySQL has rolled back by
\* then.  The finally clause releases either way.
Rollback(c) ==
  /\ pc[c] = "rollback" /\ InHand(c)
  /\ pool' = Release(Ended(c), c)
  /\ Goto(c, "idle")

-----------------------------------------------------------------------------
Step(c) ==
  \/ Obtain(c) \/ OpenFails(c)
  \/ Query(c) \/ Ping(c)
  \/ Begin(c) \/ Write(c) \/ StatementFails(c) \/ Commit(c) \/ Rollback(c)

Next ==
  \/ \E c \in Clients : Step(c) \/ \E stage \in {"query", "ping", "begin"} : Ask(c, stage)
  \/ \E k \in Conns : Break(k)

Spec == Init /\ [][Next]_vars

\* Every await settles: a connection opens or is refused, a statement is
\* answered or fails (a wait for a lock ends after innodb_lock_wait_timeout).
\* Nothing is assumed of the order in which waiters are served.
Fairness == \A c \in Clients : WF_vars(Step(c))

FairSpec == Spec /\ Fairness
-----------------------------------------------------------------------------
(* Properties. *)

\* Type correctness of the pool.  A client stands in the queue once, and holds
\* nothing while it does.
TypeOK ==
  /\ pool \in Pool
  /\ pc \in [Clients -> Stage]
  /\ \A i \in 1..Len(pool.queue) : pool.held[pool.queue[i]] = None
  /\ \A i, j \in 1..Len(pool.queue) : pool.queue[i] = pool.queue[j] => i = j

\* However clients end, fail, or lose their connection: a connection that is
\* open is free or belongs to exactly one client that still needs it.
NoConnectionLeaks ==
  /\ \A k \in Conns :
       pool.conn[k] # "closed" /\ k \notin pool.free =>
         \E c \in Clients : pc[c] # "idle" /\ pool.held[c] = k
  /\ \A c, d \in Clients : pool.held[c] \in Conns /\ pool.held[c] = pool.held[d] => c = d

\* A transaction ends with the client that began it: no statement of another
\* request ever runs inside it, to be lost when it is rolled back.
NoTransactionIsInherited ==
  \A k \in pool.dirty :
    \E c \in Clients : pool.held[c] = k /\ pc[c] \in {"write", "commit", "rollback"}

\* What the contract sees of the clients.
Wants == {c \in Clients : pc[c] # "idle" /\ ~InHand(c)}
Has == [c \in Clients |-> IF Connected(c) THEN pool.held[c] ELSE None]

\* The pool and its three users keep the contract that module Accounts is
\* built on, from weak fairness alone: no client waits for a connection while it
\* holds one, and none is passed over for ever.
Contract == INSTANCE PoolContract WITH wants <- Wants, has <- Has

ImplementsContract == Contract!Spec
=============================================================================
