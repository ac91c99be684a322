------------------------ MODULE ConnectionPoolProofs ------------------------
(***************************************************************************)
(* Theorems about ConnectionPool, for any number of clients and            *)
(* connections.  The functions of the pool are shown to keep Core, what    *)
(* holds of a pool whoever its clients are; the steps of the clients then  *)
(* only have to keep what relates a connection to the stage of its holder. *)
(***************************************************************************)
EXTENDS ConnectionPool, SequenceTheorems, TLAPS

Queued(p, c) == \E i \in 1..Len(p.queue) : p.queue[i] = c

Unused(p, c) == p.held[c] = None /\ ~Queued(p, c)

QueueSound(p) ==
  /\ \A i \in 1..Len(p.queue) : p.held[p.queue[i]] = None
  /\ \A i, j \in 1..Len(p.queue) : p.queue[i] = p.queue[j] => i = j

\* Held by one client, counted by the pool, and not among the free ones.
HoldersSound(p) ==
  /\ \A c, d \in Clients : p.held[c] \in Conns /\ p.held[c] = p.held[d] => c = d
  /\ \A c \in Clients : p.held[c] \in Conns => p.conn[p.held[c]] # "closed" /\ p.held[c] \notin p.free

NothingLeaks(p) ==
  \A k \in Conns : p.conn[k] # "closed" /\ k \notin p.free => \E c \in Clients : p.held[c] = k

Core(p) == p \in Pool /\ QueueSound(p) /\ HoldersSound(p) /\ NothingLeaks(p)

\* The holders of p are those of q too.
Keeps(p, q) == \A d \in Clients : p.held[d] # None => q.held[d] = p.held[d]

-----------------------------------------------------------------------------
(* The functions of the pool *)

LEMMA GrantKeepsCore ==
  ASSUME NEW p, Core(p), NEW c \in Clients, Unused(p, c), NEW k \in Conns,
         k \in p.free \/ p.conn[k] = "closed", NEW s \in {"opening", "handed"}
  PROVE  LET q == Grant(p, c, k, s)
         IN /\ Core(q) /\ Keeps(p, q) /\ q.dirty = p.dirty
            /\ \A d \in Clients : Unused(p, d) /\ d # c => Unused(q, d)
<1> DEFINE q == Grant(p, c, k, s)
<1>1. /\ q.conn = [p.conn EXCEPT ![k] = s] /\ q.held = [p.held EXCEPT ![c] = k]
      /\ q.free = p.free \ {k} /\ q.dirty = p.dirty /\ q.queue = p.queue
  BY DEF Grant, State
<1>2. q \in Pool
  BY DEF Core, Pool, Grant, State
<1>3. \A d \in Clients : p.held[d] # k
  BY DEF Core, HoldersSound
<1>4. QueueSound(q)
  BY <1>1 DEF Core, Pool, QueueSound, Unused, Queued
<1>5. HoldersSound(q)
  BY <1>1, <1>3 DEF Core, Pool, HoldersSound, Unused
<1>6. NothingLeaks(q)
  BY <1>1, ConnectionPoolAssumption DEF Core, Pool, NothingLeaks, Unused
<1>7. Keeps(p, q) /\ \A d \in Clients : Unused(p, d) /\ d # c => Unused(q, d)
  BY <1>1 DEF Core, Pool, Keeps, Unused, Queued
<1>8. QED
  BY <1>1, <1>2, <1>4, <1>5, <1>6, <1>7 DEF Core

LEMMA EnqueueKeepsCore ==
  ASSUME NEW p, Core(p), NEW c \in Clients, Unused(p, c)
  PROVE  LET q == Enqueue(p, c)
         IN /\ Core(q) /\ Keeps(p, q) /\ q.dirty = p.dirty
            /\ \A d \in Clients : Unused(p, d) /\ d # c => Unused(q, d)
<1> DEFINE q == Enqueue(p, c)
<1>1. /\ q.conn = p.conn /\ q.held = p.held /\ q.free = p.free /\ q.dirty = p.dirty
      /\ q.queue = Append(p.queue, c) /\ q \in Pool
  BY DEF Enqueue, State, Core, Pool
<1>2. /\ Len(q.queue) = Len(p.queue) + 1
      /\ \A i \in 1..Len(p.queue) : q.queue[i] = p.queue[i]
      /\ q.queue[Len(p.queue) + 1] = c
      /\ Len(p.queue) \in Nat
  BY <1>1 DEF Core, Pool
<1>3. QueueSound(q)
  BY <1>1, <1>2 DEF Core, QueueSound, Unused, Queued
<1>4. HoldersSound(q) /\ NothingLeaks(q)
  BY <1>1 DEF Core, HoldersSound, NothingLeaks
<1>5. Keeps(p, q) /\ \A d \in Clients : Unused(p, d) /\ d # c => Unused(q, d)
  BY <1>1, <1>2 DEF Keeps, Unused, Queued
<1>6. QED
  BY <1>1, <1>3, <1>4, <1>5 DEF Core

LEMMA GetConnectionKeepsCore ==
  ASSUME NEW p, Core(p), NEW c \in Clients, Unused(p, c)
  PROVE  LET q == GetConnection(p, c)
         IN /\ Core(q) /\ Keeps(p, q) /\ q.dirty = p.dirty
            /\ \A d \in Clients : Unused(p, d) /\ d # c => Unused(q, d)
<1>1. CASE p.free # {}
  <2> DEFINE k == CHOOSE j \in p.free : TRUE
  <2>1. k \in p.free
    BY <1>1
  <2>2. k \in Conns
    BY <2>1 DEF Core, Pool
  <2>3. GetConnection(p, c) = Grant(p, c, k, "handed")
    BY <1>1 DEF GetConnection
  <2> HIDE DEF k
  <2>4. QED
    BY <2>1, <2>2, <2>3, GrantKeepsCore
<1>2. CASE p.free = {} /\ Closed(p) # {}
  <2> DEFINE k == CHOOSE j \in Closed(p) : TRUE
  <2>1. k \in Closed(p)
    BY <1>2
  <2>2. k \in Conns /\ p.conn[k] = "closed"
    BY <2>1 DEF Closed
  <2>3. GetConnection(p, c) = Grant(p, c, k, "opening")
    BY <1>2 DEF GetConnection
  <2> HIDE DEF k
  <2>4. QED
    BY <2>2, <2>3, GrantKeepsCore
<1>3. CASE p.free = {} /\ Closed(p) = {}
  <2>1. GetConnection(p, c) = Enqueue(p, c)
    BY <1>3 DEF GetConnection
  <2>2. QED
    BY <2>1, EnqueueKeepsCore
<1>4. QED
  BY <1>1, <1>2, <1>3

\* Where c stands, for those who rely on the pool.
View(p, c) ==
  IF p.held[c] = Lost \/ (p.held[c] \in Conns /\ p.conn[p.held[c]] = "open")
  THEN p.held[c] ELSE None

LEMMA NothingInView ==
  ASSUME NEW p, NEW c, p.held[c] = None
  PROVE  View(p, c) = None
BY ConnectionPoolAssumption DEF View

LEMMA GrantKeepsView ==
  ASSUME NEW p, Core(p), NEW c \in Clients, p.held[c] = None, NEW k \in Conns,
         k \in p.free \/ p.conn[k] = "closed", NEW s \in {"opening", "handed"},
         NEW d \in Clients
  PROVE  View(Grant(p, c, k, s), d) = View(p, d)
<1> DEFINE q == Grant(p, c, k, s)
<1>1. q.conn = [p.conn EXCEPT ![k] = s] /\ q.held = [p.held EXCEPT ![c] = k]
  BY DEF Grant, State
<1>2. p.held \in [Clients -> Conns \cup {None, Lost}] /\ p.held[d] # k
      /\ p.conn \in [Conns -> {"closed", "opening", "handed", "open"}]
  BY DEF Core, Pool, HoldersSound
<1> HIDE DEF q
<1>3. CASE d = c
  <2>1. View(p, d) = None
    BY <1>3, NothingInView
  <2>2. q.held[d] = k /\ q.conn[k] # "open" /\ k # Lost
    BY <1>1, <1>2, <1>3, ConnectionPoolAssumption
  <2>3. View(q, d) = None
    BY <2>2 DEF View
  <2>4. QED
    BY <2>1, <2>3 DEF q
<1>4. CASE d # c
  <2>1. q.held[d] = p.held[d] /\ \A j \in Conns : j # k => q.conn[j] = p.conn[j]
    BY <1>1, <1>2, <1>4
  <2>2. QED
    BY <2>1, <1>2 DEF View, q
<1>5. QED
  BY <1>3, <1>4

LEMMA GetConnectionKeepsView ==
  ASSUME NEW p, Core(p), NEW c \in Clients, p.held[c] = None, NEW d \in Clients
  PROVE  View(GetConnection(p, c), d) = View(p, d)
<1>1. CASE p.free # {}
  <2> DEFINE k == CHOOSE j \in p.free : TRUE
  <2>1. k \in p.free
    BY <1>1
  <2>2. k \in Conns
    BY <2>1 DEF Core, Pool
  <2>3. GetConnection(p, c) = Grant(p, c, k, "handed")
    BY <1>1 DEF GetConnection
  <2> HIDE DEF k
  <2>4. QED
    BY <2>1, <2>2, <2>3, GrantKeepsView
<1>2. CASE p.free = {} /\ Closed(p) # {}
  <2> DEFINE k == CHOOSE j \in Closed(p) : TRUE
  <2>1. k \in Closed(p)
    BY <1>2
  <2>2. k \in Conns /\ p.conn[k] = "closed"
    BY <2>1 DEF Closed
  <2>3. GetConnection(p, c) = Grant(p, c, k, "opening")
    BY <1>2 DEF GetConnection
  <2> HIDE DEF k
  <2>4. QED
    BY <2>2, <2>3, GrantKeepsView
<1>3. CASE p.free = {} /\ Closed(p) = {}
  <2>1. GetConnection(p, c) = Enqueue(p, c)
    BY <1>3 DEF GetConnection
  <2>2. Enqueue(p, c).conn = p.conn /\ Enqueue(p, c).held = p.held
    BY DEF Enqueue, State
  <2>3. QED
    BY <2>1, <2>2 DEF View
<1>4. QED
  BY <1>1, <1>2, <1>3

LEMMA ServeKeepsCore ==
  ASSUME NEW p, Core(p)
  PROVE  LET q == Serve(p)
         IN /\ Core(q) /\ Keeps(p, q) /\ q.dirty = p.dirty
            /\ \A d \in Clients : Unused(p, d) => Unused(q, d)
            /\ \A d \in Clients : View(q, d) = View(p, d)
<1>1. CASE p.queue = <<>>
  BY <1>1 DEF Serve, Keeps
<1>2. CASE p.queue # <<>>
  <2> DEFINE c == Head(p.queue)
             r == State(p.conn, p.held, p.free, p.dirty, Tail(p.queue))
  <2>1. /\ r.conn = p.conn /\ r.held = p.held /\ r.free = p.free /\ r.dirty = p.dirty
        /\ r.queue = Tail(p.queue) /\ r \in Pool /\ c \in Clients /\ c = p.queue[1]
    BY <1>2 DEF Core, Pool, State
  <2>2. /\ Len(p.queue) \in Nat \ {0} /\ Len(r.queue) = Len(p.queue) - 1
        /\ \A i \in 1..Len(r.queue) : r.queue[i] = p.queue[i + 1]
    <3>1. p.queue \in Seq(Clients)
      BY DEF Core, Pool
    <3>2. QED
      BY <1>2, <2>1, <3>1, HeadTailProperties, LenProperties, EmptySeq
  <2>3. QueueSound(r)
    <3>1. \A i \in 1..Len(r.queue) : i + 1 \in 1..Len(p.queue)
      BY <2>2
    <3>2. \A i \in 1..Len(r.queue) : p.held[r.queue[i]] = None
      BY <2>2, <3>1 DEF Core, QueueSound
    <3>3. \A i, j \in 1..Len(r.queue) : r.queue[i] = r.queue[j] => i = j
      <4>1. TAKE i, j \in 1..Len(r.queue)
      <4>2. r.queue[i] = r.queue[j] => i + 1 = j + 1
        BY <2>2, <3>1 DEF Core, QueueSound
      <4>3. QED
        BY <4>2, <2>2
    <3>4. QED
      BY <2>1, <3>2, <3>3 DEF QueueSound
  <2>4. HoldersSound(r) /\ NothingLeaks(r)
    BY <2>1 DEF Core, HoldersSound, NothingLeaks
  <2>5. Unused(r, c)
    BY <2>1, <2>2 DEF Core, QueueSound, Unused, Queued
  <2>6. \A d \in Clients : Unused(p, d) => Unused(r, d) /\ d # c
    BY <2>1, <2>2 DEF Unused, Queued
  <2>7. Keeps(p, r) /\ Core(r) /\ r.dirty = p.dirty
    BY <2>1, <2>3, <2>4 DEF Core, Keeps
  <2>8. Serve(p) = GetConnection(r, c)
    BY <1>2 DEF Serve
  <2>9. \A d \in Clients : View(r, d) = View(p, d)
    BY <2>1 DEF View
  <2> HIDE DEF c, r
  <2>10. \A d \in Clients : View(Serve(p), d) = View(p, d)
    BY <2>1, <2>5, <2>7, <2>8, <2>9, GetConnectionKeepsView DEF Unused
  <2>11. QED
    BY <2>1, <2>5, <2>6, <2>7, <2>8, <2>10, GetConnectionKeepsCore DEF Keeps
<1>3. QED
  BY <1>1, <1>2

LEMMA ReleaseKeepsCore ==
  ASSUME NEW p, Core(p), NEW c \in Clients, p.held[c] # None
  PROVE  LET q == Release(p, c)
         IN /\ Core(q) /\ q.dirty = p.dirty /\ Unused(q, c)
            /\ \A d \in Clients : Unused(p, d) => Unused(q, d)
            /\ \A d \in Clients : d # c /\ p.held[d] # None => q.held[d] = p.held[d]
            /\ \A d \in Clients : d # c => View(q, d) = View(p, d)
<1> DEFINE r == State(p.conn, [p.held EXCEPT ![c] = None],
                      IF p.held[c] = Lost THEN p.free ELSE p.free \cup {p.held[c]},
                      p.dirty, p.queue)
<1>1. /\ r.conn = p.conn /\ r.held = [p.held EXCEPT ![c] = None] /\ r.dirty = p.dirty
      /\ r.free = (IF p.held[c] = Lost THEN p.free ELSE p.free \cup {p.held[c]})
      /\ r.queue = p.queue
  BY DEF State
<1>2. p.held \in [Clients -> Conns \cup {None, Lost}] /\ p.queue \in Seq(Clients)
      /\ p.conn \in [Conns -> {"closed", "opening", "handed", "open"}] /\ p.free \subseteq Conns
  BY DEF Core, Pool
<1>3. r \in Pool
  BY <1>2 DEF Core, Pool, State
<1>4. Release(p, c) = Serve(r)
  BY DEF Release
<1> HIDE DEF r
<1>5. ~Queued(p, c)
  BY DEF Core, QueueSound, Queued
<1>6. \A i \in 1..Len(p.queue) : p.queue[i] \in Clients
  BY <1>2
<1>7. QueueSound(r)
  BY <1>1, <1>2, <1>5, <1>6 DEF Core, QueueSound, Queued
<1>8. HoldersSound(r)
  BY <1>1, <1>2, ConnectionPoolAssumption DEF Core, HoldersSound
<1>9. NothingLeaks(r)
  BY <1>1, <1>2, ConnectionPoolAssumption DEF Core, NothingLeaks
<1>10. Core(r) /\ Unused(r, c) /\ \A d \in Clients : Unused(p, d) => Unused(r, d)
  BY <1>1, <1>2, <1>3, <1>5, <1>7, <1>8, <1>9 DEF Core, Unused, Queued
<1>11. \A d \in Clients : d # c => r.held[d] = p.held[d]
  BY <1>1, <1>2
<1>12. /\ Core(Serve(r)) /\ Keeps(r, Serve(r)) /\ Serve(r).dirty = r.dirty
       /\ \A d \in Clients : Unused(r, d) => Unused(Serve(r), d)
       /\ \A d \in Clients : View(Serve(r), d) = View(r, d)
  BY <1>10, ServeKeepsCore
<1>13. r.dirty = p.dirty /\ r.conn = p.conn
  BY <1>1
<1>14. \A d \in Clients : d # c => View(r, d) = View(p, d)
  BY <1>11, <1>13 DEF View
<1>15. QED
  BY <1>10, <1>11, <1>4, <1>12, <1>13, <1>14 DEF Keeps

LEMMA RemoveKeepsCore ==
  ASSUME NEW p, Core(p), NEW k \in Conns, NEW h \in [Clients -> Conns \cup {None, Lost}],
         \A d \in Clients : IF p.held[d] = k THEN h[d] \in {None, Lost} ELSE h[d] = p.held[d]
  PROVE  LET q == Remove(p, k, h)
         IN /\ Core(q) /\ q.dirty = p.dirty \ {k}
            /\ \A d \in Clients : h[d] = None /\ ~Queued(p, d) => Unused(q, d)
            /\ \A d \in Clients : h[d] # None => q.held[d] = h[d]
            /\ \A d \in Clients : p.held[d] # k => View(q, d) = View(p, d)
<1> DEFINE r == State([p.conn EXCEPT ![k] = "closed"], h, p.free \ {k}, p.dirty \ {k}, p.queue)
<1>1. /\ r.conn = [p.conn EXCEPT ![k] = "closed"] /\ r.held = h /\ r.free = p.free \ {k}
      /\ r.dirty = p.dirty \ {k} /\ r.queue = p.queue
  BY DEF State
<1>2. p.held \in [Clients -> Conns \cup {None, Lost}] /\ p.queue \in Seq(Clients)
      /\ p.conn \in [Conns -> {"closed", "opening", "handed", "open"}] /\ p.free \subseteq Conns
  BY DEF Core, Pool
<1>3. r \in Pool
  BY <1>2 DEF Core, Pool, State
<1>4. Remove(p, k, h) = Serve(r)
  BY DEF Remove
<1> HIDE DEF r
<1>5. \A i \in 1..Len(p.queue) : p.queue[i] \in Clients
  BY <1>2
<1>6. QueueSound(r)
  BY <1>1, <1>2, <1>5, ConnectionPoolAssumption DEF Core, QueueSound
<1>7. HoldersSound(r)
  BY <1>1, <1>2, ConnectionPoolAssumption DEF Core, HoldersSound
<1>8. NothingLeaks(r)
  BY <1>1, <1>2 DEF Core, NothingLeaks
<1>9. Core(r) /\ \A d \in Clients : h[d] = None /\ ~Queued(p, d) => Unused(r, d)
  BY <1>1, <1>3, <1>6, <1>7, <1>8 DEF Core, Unused, Queued
<1>10. \A d \in Clients : p.held[d] # k => View(r, d) = View(p, d)
  BY <1>1, <1>2 DEF View
<1>11. /\ Core(Serve(r)) /\ Keeps(r, Serve(r)) /\ Serve(r).dirty = r.dirty
       /\ \A d \in Clients : Unused(r, d) => Unused(Serve(r), d)
       /\ \A d \in Clients : View(Serve(r), d) = View(r, d)
  BY <1>9, ServeKeepsCore
<1>12. QED
  BY <1>1, <1>9, <1>4, <1>10, <1>11 DEF Keeps

-----------------------------------------------------------------------------
(* The invariant: whoever is idle has nothing to do with the pool, and an   *)
(* open transaction belongs to a client on its way through one.             *)

Writing == {"write", "commit", "rollback"}

IdleUnused == \A c \in Clients : pc[c] = "idle" => Unused(pool, c)

DirtyHeld ==
  \A k \in pool.dirty : \E c \in Clients : pool.held[c] = k /\ pc[c] \in Writing

IInv == pc \in [Clients -> Stage] /\ Core(pool) /\ IdleUnused /\ DirtyHeld

LEMMA Initially == Init => IInv
<1> SUFFICES ASSUME Init PROVE IInv
  OBVIOUS
<1>1. pool = State([k \in Conns |-> "closed"], [c \in Clients |-> None], {}, {}, <<>>)
      /\ pc = [c \in Clients |-> "idle"]
  BY DEF Init
<1>2. /\ pool.conn = [k \in Conns |-> "closed"] /\ pool.held = [c \in Clients |-> None]
      /\ pool.free = {} /\ pool.dirty = {} /\ pool.queue = <<>>
  BY <1>1 DEF State
<1>3. pool \in Pool
  BY <1>1 DEF State, Pool
<1>4. Len(pool.queue) = 0
  BY <1>2, EmptySeq
<1>5. Core(pool)
  BY <1>2, <1>3, <1>4, ConnectionPoolAssumption
     DEF Core, QueueSound, HoldersSound, NothingLeaks
<1>6. QED
  BY <1>1, <1>2, <1>4, <1>5 DEF IInv, IdleUnused, DirtyHeld, Unused, Queued, Stage

\* Who holds a connection with a transaction on it, is writing.
LEMMA HolderIsWriting ==
  ASSUME IInv, NEW c \in Clients, pool.held[c] \in pool.dirty
  PROVE  pc[c] \in Writing
BY DEF IInv, DirtyHeld, Core, Pool, HoldersSound

\* A client that moves on from a stage other than idle to one other than idle.
LEMMA PoolUnchanged ==
  ASSUME IInv, NEW c \in Clients, NEW stage \in Stage \ {"idle"}, Goto(c, stage), UNCHANGED pool,
         pc[c] \in Writing => stage \in Writing
  PROVE  IInv'
<1>1. pc' \in [Clients -> Stage] /\ Core(pool)'
  BY DEF IInv, Goto
<1>2. IdleUnused'
  BY DEF IInv, IdleUnused, Goto
<1>3. DirtyHeld'
  BY DEF IInv, DirtyHeld, Goto
<1>4. QED
  BY <1>1, <1>2, <1>3 DEF IInv

LEMMA AskPreserves ==
  ASSUME IInv, NEW c \in Clients, NEW stage \in {"query", "ping", "begin"}, Ask(c, stage)
  PROVE  IInv'
<1>1. Unused(pool, c) /\ Core(pool)
  BY DEF Ask, IInv, IdleUnused
<1>2. /\ Core(pool') /\ Keeps(pool, pool') /\ pool.dirty = pool.dirty'
      /\ \A d \in Clients : Unused(pool, d) /\ d # c => Unused(pool', d)
  BY <1>1, GetConnectionKeepsCore DEF Ask
<1>3. pc' = [pc EXCEPT ![c] = stage] /\ pc' \in [Clients -> Stage]
  BY DEF Ask, Goto, IInv, Stage, Transaction
<1>4. IdleUnused'
  BY <1>2, <1>3 DEF IInv, IdleUnused
<1>5. DirtyHeld'
  BY <1>1, <1>2, <1>3, ConnectionPoolAssumption
     DEF IInv, DirtyHeld, Keeps, Core, Pool, Unused, Ask, Writing
<1>6. QED
  BY <1>2, <1>3, <1>4, <1>5 DEF IInv

LEMMA ObtainPreserves ==
  ASSUME IInv, NEW c \in Clients, Obtain(c)
  PROVE  IInv'
<1> DEFINE k == pool.held[c]
<1>1. k \in Conns /\ pool.conn[k] \in {"opening", "handed"} /\ pc' = pc
      /\ pool' = State([pool.conn EXCEPT ![k] = "open"], pool.held, pool.free, pool.dirty, pool.queue)
  BY DEF Obtain
<1>2. /\ pool'.conn = [pool.conn EXCEPT ![k] = "open"] /\ pool'.held = pool.held
      /\ pool'.free = pool.free /\ pool'.dirty = pool.dirty /\ pool'.queue = pool.queue
  BY <1>1 DEF State
<1>3. pool' \in Pool
  BY <1>1 DEF IInv, Core, Pool, State
<1>4. QueueSound(pool')
  BY <1>2 DEF IInv, Core, QueueSound
<1>5. HoldersSound(pool') /\ NothingLeaks(pool')
  BY <1>1, <1>2 DEF IInv, Core, Pool, HoldersSound, NothingLeaks
<1>6. IdleUnused' /\ DirtyHeld'
  BY <1>1, <1>2 DEF IInv, IdleUnused, DirtyHeld, Unused, Queued
<1>7. QED
  BY <1>1, <1>3, <1>4, <1>5, <1>6 DEF IInv, Core

\* A release by c, whose connection has no transaction on it in p, followed by
\* any stage: p is the pool, or the pool without the transaction of c.
LEMMA ReleasePreserves ==
  ASSUME IInv, NEW c \in Clients, pool.held[c] # None, NEW p, Core(p),
         p.held = pool.held, p.queue = pool.queue, p.dirty = pool.dirty \ {pool.held[c]}
  PROVE  LET q == Release(p, c)
         IN /\ Core(q) /\ Unused(q, c)
            /\ \A d \in Clients \ {c} : pc[d] = "idle" => Unused(q, d)
            /\ \A k \in q.dirty : \E d \in Clients \ {c} : q.held[d] = k /\ pc[d] \in Writing
<1> DEFINE q == Release(p, c)
<1>1. /\ Core(q) /\ q.dirty = p.dirty /\ Unused(q, c)
      /\ \A d \in Clients : Unused(p, d) => Unused(q, d)
      /\ \A d \in Clients : d # c /\ p.held[d] # None => q.held[d] = p.held[d]
  BY ReleaseKeepsCore
<1> HIDE DEF q
<1>2. \A d \in Clients \ {c} : pc[d] = "idle" => Unused(q, d)
  BY <1>1 DEF IInv, IdleUnused, Unused, Queued
<1>3. ASSUME NEW k \in q.dirty
      PROVE  \E d \in Clients \ {c} : q.held[d] = k /\ pc[d] \in Writing
  <2>1. k \in pool.dirty /\ k # pool.held[c] /\ k \in Conns
    BY <1>1 DEF IInv, Core, Pool
  <2>2. PICK d \in Clients : pool.held[d] = k /\ pc[d] \in Writing
    BY <2>1 DEF IInv, DirtyHeld
  <2>3. QED
    BY <1>1, <2>1, <2>2, ConnectionPoolAssumption
<1>4. QED
  BY <1>1, <1>2, <1>3 DEF q

LEMMA ReleaseToIdlePreserves ==
  ASSUME IInv, NEW c \in Clients, pool.held[c] # None, NEW p, Core(p),
         p.held = pool.held, p.queue = pool.queue, p.dirty = pool.dirty \ {pool.held[c]},
         pool' = Release(p, c), Goto(c, "idle")
  PROVE  IInv'
<1>1. /\ Core(pool') /\ Unused(pool', c)
      /\ \A d \in Clients \ {c} : pc[d] = "idle" => Unused(pool', d)
      /\ \A k \in pool'.dirty : \E d \in Clients \ {c} : pool'.held[d] = k /\ pc[d] \in Writing
  BY ReleasePreserves
<1>2. pc' = [pc EXCEPT ![c] = "idle"] /\ pc' \in [Clients -> Stage]
  BY DEF Goto, IInv, Stage
<1>3. IdleUnused' /\ DirtyHeld'
  BY <1>1, <1>2 DEF IInv, IdleUnused, DirtyHeld
<1>4. QED
  BY <1>1, <1>2, <1>3 DEF IInv

LEMMA InHandHolds ==
  ASSUME IInv, NEW c \in Clients, InHand(c)
  PROVE  pool.held[c] # None
BY ConnectionPoolAssumption DEF InHand, Connected

LEMMA UseOncePreserves ==
  ASSUME IInv, NEW c \in Clients, Query(c) \/ Ping(c)
  PROVE  IInv'
<1>1. pc[c] \in {"query", "ping"} /\ InHand(c) /\ pool' = Release(pool, c) /\ Goto(c, "idle")
  BY DEF Query, Ping
<1>2. pool.held[c] \notin pool.dirty
  BY <1>1, HolderIsWriting DEF Writing
<1>3. QED
  BY <1>1, <1>2, InHandHolds, ReleaseToIdlePreserves DEF IInv

\* The end of a transaction changes nothing but dirty.
LEMMA EndedIsCore ==
  ASSUME IInv, NEW c \in Clients
  PROVE  /\ Core(Ended(c)) /\ Ended(c).held = pool.held /\ Ended(c).queue = pool.queue
         /\ Ended(c).dirty = pool.dirty \ {pool.held[c]}
<1> DEFINE q == Ended(c)
<1>1. /\ q.conn = pool.conn /\ q.held = pool.held /\ q.free = pool.free
      /\ q.dirty = pool.dirty \ {pool.held[c]} /\ q.queue = pool.queue /\ q \in Pool
  BY DEF Ended, State, IInv, Core, Pool
<1> HIDE DEF q
<1>2. QueueSound(q) /\ HoldersSound(q) /\ NothingLeaks(q)
  BY <1>1 DEF IInv, Core, QueueSound, HoldersSound, NothingLeaks
<1>3. QED
  BY <1>1, <1>2 DEF Core, q

LEMMA RollbackPreserves ==
  ASSUME IInv, NEW c \in Clients, Rollback(c)
  PROVE  IInv'
BY EndedIsCore, InHandHolds, ReleaseToIdlePreserves DEF Rollback

LEMMA CommitPreserves ==
  ASSUME IInv, NEW c \in Clients, Commit(c)
  PROVE  IInv'
<1> DEFINE q == Release(Ended(c), c)
<1>1. pool.held[c] # None
  BY InHandHolds DEF Commit, InHand
<1>2. /\ Core(q) /\ Unused(q, c)
      /\ \A d \in Clients \ {c} : pc[d] = "idle" => Unused(q, d)
      /\ \A k \in q.dirty : \E d \in Clients \ {c} : q.held[d] = k /\ pc[d] \in Writing
  BY <1>1, EndedIsCore, ReleasePreserves
<1>3. pool' = GetConnection(q, c)
  BY DEF Commit
<1> HIDE DEF q
<1>4. /\ Core(pool') /\ Keeps(q, pool') /\ pool'.dirty = q.dirty
      /\ \A d \in Clients : Unused(q, d) /\ d # c => Unused(pool', d)
  BY <1>2, <1>3, GetConnectionKeepsCore
<1>5. pc' = [pc EXCEPT ![c] = "query"] /\ pc' \in [Clients -> Stage]
  BY DEF Commit, Goto, IInv, Stage
<1>6. IdleUnused'
  BY <1>2, <1>4, <1>5 DEF IInv, IdleUnused
<1>7. DirtyHeld'
  BY <1>2, <1>4, <1>5, ConnectionPoolAssumption DEF IInv, DirtyHeld, Keeps, Core, Pool
<1>8. QED
  BY <1>4, <1>5, <1>6, <1>7 DEF IInv

LEMMA BeginPreserves ==
  ASSUME IInv, NEW c \in Clients, Begin(c)
  PROVE  IInv'
<1>1. /\ pool.held[c] \in Conns /\ pc' = [pc EXCEPT ![c] = "write"]
      /\ pool' = State(pool.conn, pool.held, pool.free, pool.dirty \cup {pool.held[c]}, pool.queue)
  BY DEF Begin, Connected, Goto
<1>2. /\ pool'.conn = pool.conn /\ pool'.held = pool.held /\ pool'.free = pool.free
      /\ pool'.dirty = pool.dirty \cup {pool.held[c]} /\ pool'.queue = pool.queue
  BY <1>1 DEF State
<1>3. pool' \in Pool
  BY <1>1 DEF IInv, Core, Pool, State
<1>4. QueueSound(pool') /\ HoldersSound(pool') /\ NothingLeaks(pool')
  BY <1>2 DEF IInv, Core, QueueSound, HoldersSound, NothingLeaks
<1>5. pc' \in [Clients -> Stage] /\ IdleUnused'
  BY <1>1, <1>2 DEF IInv, IdleUnused, Unused, Queued, Stage, Transaction
<1>6. DirtyHeld'
  BY <1>1, <1>2 DEF IInv, DirtyHeld, Writing
<1>7. QED
  BY <1>3, <1>4, <1>5, <1>6 DEF IInv, Core

\* A connection k leaves the pool, and the clients in N go idle.
LEMMA RemovePreserves ==
  ASSUME IInv, NEW k \in Conns, NEW h \in [Clients -> Conns \cup {None, Lost}],
         \A d \in Clients : IF pool.held[d] = k THEN h[d] \in {None, Lost} ELSE h[d] = pool.held[d]
  PROVE  LET q == Remove(pool, k, h)
         IN /\ Core(q)
            /\ \A d \in Clients : pc[d] = "idle" => Unused(q, d)
            /\ \A d \in Clients : pool.held[d] = k /\ h[d] = None => Unused(q, d)
            /\ \A j \in q.dirty : \E d \in Clients : /\ pool.held[d] # k
                                                    /\ q.held[d] = j /\ pc[d] \in Writing
<1> DEFINE q == Remove(pool, k, h)
<1>1. /\ Core(q) /\ q.dirty = pool.dirty \ {k}
      /\ \A d \in Clients : h[d] = None /\ ~Queued(pool, d) => Unused(q, d)
      /\ \A d \in Clients : h[d] # None => q.held[d] = h[d]
  BY RemoveKeepsCore DEF IInv
<1> HIDE DEF q
<1>2. \A d \in Clients : pc[d] = "idle" => Unused(q, d)
  BY <1>1, ConnectionPoolAssumption DEF IInv, IdleUnused, Unused
<1>3. \A d \in Clients : pool.held[d] = k /\ h[d] = None => Unused(q, d)
  <2>1. \A d \in Clients : pool.held[d] = k => ~Queued(pool, d)
    BY ConnectionPoolAssumption DEF IInv, Core, QueueSound, Queued
  <2>2. QED
    BY <1>1, <2>1
<1>4. ASSUME NEW j \in q.dirty
      PROVE  \E d \in Clients : pool.held[d] # k /\ q.held[d] = j /\ pc[d] \in Writing
  <2>1. j \in pool.dirty /\ j # k /\ j \in Conns
    BY <1>1 DEF IInv, Core, Pool
  <2>2. PICK d \in Clients : pool.held[d] = j /\ pc[d] \in Writing
    BY <2>1 DEF IInv, DirtyHeld
  <2>3. h[d] = j
    BY <2>1, <2>2
  <2>4. QED
    BY <1>1, <2>1, <2>2, <2>3, ConnectionPoolAssumption
<1>5. QED
  BY <1>1, <1>2, <1>3, <1>4 DEF q

LEMMA OpenFailsPreserves ==
  ASSUME IInv, NEW c \in Clients, OpenFails(c)
  PROVE  IInv'
<1> DEFINE k == pool.held[c]
           h == [pool.held EXCEPT ![c] = None]
<1>1. k \in Conns /\ pool' = Remove(pool, k, h) /\ pc' = [pc EXCEPT ![c] = "idle"]
  BY DEF OpenFails, Goto
<1>2. /\ h \in [Clients -> Conns \cup {None, Lost}] /\ h[c] = None
      /\ \A d \in Clients : IF pool.held[d] = k THEN h[d] \in {None, Lost} ELSE h[d] = pool.held[d]
  BY <1>1 DEF IInv, Core, Pool, HoldersSound
<1>3. k = pool.held[c]
  OBVIOUS
<1> HIDE DEF k, h
<1>4. /\ Core(pool')
      /\ \A d \in Clients : pc[d] = "idle" => Unused(pool', d)
      /\ \A d \in Clients : pool.held[d] = k /\ h[d] = None => Unused(pool', d)
      /\ \A j \in pool'.dirty : \E d \in Clients : /\ pool.held[d] # k
                                                  /\ pool'.held[d] = j /\ pc[d] \in Writing
  BY <1>1, <1>2, RemovePreserves
<1>5. pc' \in [Clients -> Stage] /\ IdleUnused'
  BY <1>1, <1>2, <1>3, <1>4 DEF IInv, IdleUnused, Stage
<1>6. DirtyHeld'
  BY <1>1, <1>3, <1>4 DEF IInv, DirtyHeld
<1>7. QED
  BY <1>4, <1>5, <1>6 DEF IInv

LEMMA BreakPreserves ==
  ASSUME IInv, NEW k \in Conns, Break(k)
  PROVE  IInv'
<1> DEFINE h == [c \in Clients |-> IF pool.held[c] = k THEN Lost ELSE pool.held[c]]
<1>1. pool' = Remove(pool, k, h) /\ pc' = pc
  BY DEF Break
<1>2. /\ h \in [Clients -> Conns \cup {None, Lost}]
      /\ \A d \in Clients : IF pool.held[d] = k THEN h[d] \in {None, Lost} ELSE h[d] = pool.held[d]
  BY DEF IInv, Core, Pool
<1> HIDE DEF h
<1>3. /\ Core(pool')
      /\ \A d \in Clients : pc[d] = "idle" => Unused(pool', d)
      /\ \A j \in pool'.dirty : \E d \in Clients : /\ pool.held[d] # k
                                                  /\ pool'.held[d] = j /\ pc[d] \in Writing
  BY <1>1, <1>2, RemovePreserves
<1>4. IdleUnused' /\ DirtyHeld'
  BY <1>1, <1>3 DEF IInv, IdleUnused, DirtyHeld
<1>5. QED
  BY <1>1, <1>3, <1>4 DEF IInv

LEMMA NextPreserves == IInv /\ [Next]_vars => IInv'
<1> SUFFICES ASSUME IInv, [Next]_vars PROVE IInv'
  OBVIOUS
<1>1. ASSUME NEW c \in Clients, Obtain(c) PROVE IInv'
  BY <1>1, ObtainPreserves
<1>2. ASSUME NEW c \in Clients, OpenFails(c) PROVE IInv'
  BY <1>2, OpenFailsPreserves
<1>3. ASSUME NEW c \in Clients, Query(c) \/ Ping(c) PROVE IInv'
  BY <1>3, UseOncePreserves
<1>4. ASSUME NEW c \in Clients, Begin(c) PROVE IInv'
  BY <1>4, BeginPreserves
<1>5. ASSUME NEW c \in Clients, Write(c) PROVE IInv'
  BY <1>5, PoolUnchanged DEF Write, Stage, Transaction, Writing
<1>6. ASSUME NEW c \in Clients, StatementFails(c) PROVE IInv'
  BY <1>6, PoolUnchanged DEF StatementFails, Stage, Transaction, Writing
<1>7. ASSUME NEW c \in Clients, Commit(c) PROVE IInv'
  BY <1>7, CommitPreserves
<1>8. ASSUME NEW c \in Clients, Rollback(c) PROVE IInv'
  BY <1>8, RollbackPreserves
<1>9. ASSUME NEW c \in Clients, NEW stage \in {"query", "ping", "begin"}, Ask(c, stage) PROVE IInv'
  BY <1>9, AskPreserves
<1>10. ASSUME NEW k \in Conns, Break(k) PROVE IInv'
  BY <1>10, BreakPreserves
<1>11. CASE UNCHANGED vars
  BY <1>11 DEF vars, IInv, IdleUnused, DirtyHeld
<1>12. QED
  BY <1>1, <1>2, <1>3, <1>4, <1>5, <1>6, <1>7, <1>8, <1>9, <1>10, <1>11 DEF Next, Step

THEOREM Invariance == Spec => []IInv
<1>1. QED
  BY Initially, NextPreserves, PTL DEF Spec

\* However the clients and the connections behave, the pool keeps its type,
\* nobody waits twice, and nobody waits for a connection while it holds one
\* (updateRoles and saveUser release before they read the roles again).
THEOREM TypeCorrect == Spec => []TypeOK
<1>1. IInv => TypeOK
  BY DEF IInv, Core, QueueSound, TypeOK
<1>2. QED
  BY <1>1, Invariance, PTL

\* No path through finally loses a connection or gives it back twice.
THEOREM NothingIsLost == Spec => []NoConnectionLeaks
<1>1. IInv => NoConnectionLeaks
  <2>1. SUFFICES ASSUME IInv PROVE NoConnectionLeaks
    OBVIOUS
  <2>2. \A c \in Clients : pool.held[c] \in Conns => pc[c] # "idle"
    BY <2>1, ConnectionPoolAssumption DEF IInv, IdleUnused, Unused
  <2>3. QED
    BY <2>1, <2>2 DEF IInv, Core, HoldersSound, NothingLeaks, NoConnectionLeaks
<1>2. QED
  BY <1>1, Invariance, PTL

\* A connection comes back to the pool without a transaction: every catch
\* clause has rolled back, or the connection is gone.
THEOREM TransactionsEnd == Spec => []NoTransactionIsInherited
<1>1. IInv => NoTransactionIsInherited
  BY DEF IInv, DirtyHeld, Writing, NoTransactionIsInherited
<1>2. QED
  BY <1>1, Invariance, PTL

-----------------------------------------------------------------------------
(* The contract *)

LEMMA SeenByContract ==
  ASSUME NEW c \in Clients
  PROVE  /\ Has[c] = IF View(pool, c) \in Conns THEN View(pool, c) ELSE None
         /\ Has'[c] = IF View(pool', c) \in Conns THEN View(pool', c) ELSE None
         /\ c \in Wants <=> pc[c] # "idle" /\ View(pool, c) = None
         /\ c \in Wants' <=> pc'[c] # "idle" /\ View(pool', c) = None
         /\ Connected(c) <=> View(pool, c) \in Conns
         /\ pool.held[c] = Lost => View(pool, c) = Lost
BY ConnectionPoolAssumption DEF Wants, Has, View, Connected, InHand

\* The others are seen where they were, when their stage and their view stay.
LEMMA OthersStay ==
  ASSUME NEW c \in Clients, NEW stage, pc \in [Clients -> Stage], pc' = [pc EXCEPT ![c] = stage],
         \A d \in Clients \ {c} : View(pool', d) = View(pool, d)
  PROVE  /\ \A d \in Clients \ {c} : Has'[d] = Has[d]
         /\ \A d \in Clients \ {c} : d \in Wants' <=> d \in Wants
BY SeenByContract

\* A step that changes what is seen of one client.
LEMMA OneMoves ==
  ASSUME NEW c \in Clients, NEW k, Has'[c] = k, \A d \in Clients \ {c} : Has'[d] = Has[d],
         \A d \in Clients \ {c} : d \in Wants' <=> d \in Wants
  PROVE  /\ Has' = [Has EXCEPT ![c] = k]
         /\ Has[c] = k => Has' = Has
         /\ c \in Wants' => Wants' = Wants \cup {c}
         /\ c \notin Wants' => Wants' = Wants \ {c}
         /\ (c \in Wants' <=> c \in Wants) => Wants' = Wants
<1>1. /\ Has' = [Has EXCEPT ![c] = k]
      /\ Has[c] = k => Has' = Has
  BY DEF Has
<1>2. Wants \subseteq Clients /\ Wants' \subseteq Clients
  BY DEF Wants
<1>3. QED
  BY <1>1, <1>2

ContractStep == Contract!Next \/ UNCHANGED <<Wants, Has>>

LEMMA AskIsAllowed ==
  ASSUME IInv, NEW c \in Clients, NEW stage \in {"query", "ping", "begin"}, Ask(c, stage)
  PROVE  ContractStep
<1>1. Core(pool) /\ pool.held[c] = None /\ pc \in [Clients -> Stage]
  BY DEF Ask, IInv, IdleUnused, Unused
<1>2. pc' = [pc EXCEPT ![c] = stage] /\ pc[c] = "idle" /\ pool' = GetConnection(pool, c)
  BY DEF Ask, Goto
<1>3. \A d \in Clients : View(pool', d) = View(pool, d)
  BY <1>1, <1>2, GetConnectionKeepsView
<1>4. View(pool, c) = None
  BY <1>1, NothingInView
<1>5. c \notin Wants /\ c \in Wants' /\ Has[c] = None /\ Has'[c] = None
  BY <1>1, <1>2, <1>3, <1>4, SeenByContract, ConnectionPoolAssumption
<1>6. /\ \A d \in Clients \ {c} : Has'[d] = Has[d]
      /\ \A d \in Clients \ {c} : d \in Wants' <=> d \in Wants
  BY <1>1, <1>2, <1>3, OthersStay
<1>7. Has' = Has /\ Wants' = Wants \cup {c}
  BY <1>5, <1>6, OneMoves
<1>8. QED
  BY <1>5, <1>7 DEF ContractStep, Contract!Next, Contract!Ask

LEMMA ObtainIsAllowed ==
  ASSUME IInv, NEW c \in Clients, Obtain(c)
  PROVE  ContractStep
<1> DEFINE k == pool.held[c]
<1>1. k \in Conns /\ pool.conn[k] \in {"opening", "handed"} /\ pc' = pc
      /\ pool' = State([pool.conn EXCEPT ![k] = "open"], pool.held, pool.free, pool.dirty, pool.queue)
  BY DEF Obtain
<1>2. pool'.conn = [pool.conn EXCEPT ![k] = "open"] /\ pool'.held = pool.held
  BY <1>1 DEF State
<1>3. pool.conn \in [Conns -> {"closed", "opening", "handed", "open"}]
      /\ \A d \in Clients \ {c} : pool.held[d] # k
  BY <1>1 DEF IInv, Core, Pool, HoldersSound
<1>4. \A d \in Clients \ {c} : View(pool', d) = View(pool, d)
  BY <1>2, <1>3 DEF View
<1>5. View(pool, c) = None /\ View(pool', c) = k
  BY <1>1, <1>2, <1>3, ConnectionPoolAssumption DEF View
<1>6. pc[c] # "idle" /\ pc \in [Clients -> Stage]
  BY <1>1, ConnectionPoolAssumption DEF IInv, IdleUnused, Unused
<1>7. c \in Wants /\ c \notin Wants' /\ Has'[c] = k
  BY <1>1, <1>5, <1>6, SeenByContract, ConnectionPoolAssumption
<1>8. /\ \A d \in Clients \ {c} : Has'[d] = Has[d]
      /\ \A d \in Clients \ {c} : d \in Wants' <=> d \in Wants
  BY <1>1, <1>4, SeenByContract
<1>9. Has' = [Has EXCEPT ![c] = k] /\ Wants' = Wants \ {c}
  BY <1>7, <1>8, OneMoves
<1>10. \A d \in Clients : Has[d] # k
  BY <1>1, <1>3, <1>5, ConnectionPoolAssumption DEF Has, Connected
<1> HIDE DEF k
<1>11. QED
  BY <1>1, <1>7, <1>9, <1>10 DEF ContractStep, Contract!Next, Contract!Take

\* A client that lets its connection go and is then seen as wanting one, or as
\* idle; a client whose connection was lost is seen as nothing before and after.
LEMMA GiveIsAllowed ==
  ASSUME IInv, NEW c \in Clients, InHand(c), NEW stage, pc' = [pc EXCEPT ![c] = stage],
         \A d \in Clients \ {c} : View(pool', d) = View(pool, d),
         View(pool', c) = None,
         stage = "idle" \/ Connected(c)
  PROVE  ContractStep
<1>1. pc \in [Clients -> Stage]
  BY DEF IInv
<1>2. /\ \A d \in Clients \ {c} : Has'[d] = Has[d]
      /\ \A d \in Clients \ {c} : d \in Wants' <=> d \in Wants
  BY <1>1, OthersStay
<1>3. Has'[c] = None /\ c \notin Wants
  BY SeenByContract, ConnectionPoolAssumption DEF InHand
<1>4. Has' = [Has EXCEPT ![c] = None] /\ Wants' \in {Wants, Wants \cup {c}}
  BY <1>2, <1>3, OneMoves
<1>5. CASE Connected(c)
  <2>1. Has[c] # None
    BY <1>5, SeenByContract, ConnectionPoolAssumption
  <2>2. QED
    BY <1>4, <2>1 DEF ContractStep, Contract!Next, Contract!Give
<1>6. CASE ~Connected(c)
  <2>1. Has[c] = None /\ c \notin Wants'
    BY <1>1, <1>6, SeenByContract, ConnectionPoolAssumption
  <2>2. Has' = Has /\ Wants' = Wants
    BY <1>2, <1>3, <2>1, OneMoves
  <2>3. QED
    BY <2>2 DEF ContractStep
<1>7. QED
  BY <1>5, <1>6

LEMMA ReleaseView ==
  ASSUME IInv, NEW c \in Clients, InHand(c), NEW p, Core(p), p.held = pool.held, p.conn = pool.conn
  PROVE  LET q == Release(p, c)
         IN /\ Core(q) /\ Unused(q, c) /\ View(q, c) = None
            /\ \A d \in Clients \ {c} : View(q, d) = View(pool, d)
<1>1. p.held[c] # None
  BY InHandHolds
<1>2. /\ Core(Release(p, c)) /\ Unused(Release(p, c), c)
      /\ \A d \in Clients : d # c => View(Release(p, c), d) = View(p, d)
  BY <1>1, ReleaseKeepsCore
<1>3. View(Release(p, c), c) = None
  BY <1>2, NothingInView DEF Unused
<1>4. \A d \in Clients : View(p, d) = View(pool, d)
  BY DEF View
<1>5. QED
  BY <1>2, <1>3, <1>4

LEMMA UseOnceIsAllowed ==
  ASSUME IInv, NEW c \in Clients, Query(c) \/ Ping(c)
  PROVE  ContractStep
<1>1. InHand(c) /\ pool' = Release(pool, c) /\ pc' = [pc EXCEPT ![c] = "idle"]
  BY DEF Query, Ping, Goto
<1>2. View(pool', c) = None /\ \A d \in Clients \ {c} : View(pool', d) = View(pool, d)
  BY <1>1, ReleaseView DEF IInv
<1>3. QED
  BY <1>1, <1>2, GiveIsAllowed

LEMMA EndedKeepsConnections ==
  ASSUME NEW c
  PROVE  Ended(c).conn = pool.conn
BY DEF Ended, State

LEMMA RollbackIsAllowed ==
  ASSUME IInv, NEW c \in Clients, Rollback(c)
  PROVE  ContractStep
<1>1. InHand(c) /\ pool' = Release(Ended(c), c) /\ pc' = [pc EXCEPT ![c] = "idle"]
  BY DEF Rollback, Goto
<1>2. View(pool', c) = None /\ \A d \in Clients \ {c} : View(pool', d) = View(pool, d)
  BY <1>1, EndedIsCore, EndedKeepsConnections, ReleaseView
<1>3. QED
  BY <1>1, <1>2, GiveIsAllowed

LEMMA CommitIsAllowed ==
  ASSUME IInv, NEW c \in Clients, Commit(c)
  PROVE  ContractStep
<1> DEFINE q == Release(Ended(c), c)
<1>1. Connected(c) /\ InHand(c) /\ pc' = [pc EXCEPT ![c] = "query"]
  BY DEF Commit, Goto, InHand
<1>2. /\ Core(q) /\ Unused(q, c) /\ View(q, c) = None
      /\ \A d \in Clients \ {c} : View(q, d) = View(pool, d)
  BY <1>1, EndedIsCore, EndedKeepsConnections, ReleaseView
<1>3. pool' = GetConnection(q, c)
  BY DEF Commit
<1> HIDE DEF q
<1>4. \A d \in Clients : View(pool', d) = View(q, d)
  BY <1>2, <1>3, GetConnectionKeepsView DEF Unused
<1>5. QED
  BY <1>1, <1>2, <1>4, GiveIsAllowed

\* A statement that keeps its connection is not seen.
LEMMA StatementIsAllowed ==
  ASSUME IInv, NEW c \in Clients, InHand(c), NEW stage, pc' = [pc EXCEPT ![c] = stage],
         pool'.held = pool.held, pool'.conn = pool.conn
  PROVE  ContractStep
<1>1. \A d \in Clients : View(pool', d) = View(pool, d)
  BY DEF View
<1>2. pc \in [Clients -> Stage]
  BY DEF IInv
<1>3. /\ \A d \in Clients \ {c} : Has'[d] = Has[d]
      /\ \A d \in Clients \ {c} : d \in Wants' <=> d \in Wants
  BY <1>1, <1>2, OthersStay
<1>4. View(pool, c) # None
  BY SeenByContract, ConnectionPoolAssumption DEF InHand
<1>5. Has'[c] = Has[c] /\ c \notin Wants /\ c \notin Wants'
  BY <1>1, <1>4, SeenByContract
<1>6. Has' = Has /\ Wants' = Wants
  BY <1>3, <1>5, OneMoves
<1>7. QED
  BY <1>6 DEF ContractStep

LEMMA BeginIsAllowed ==
  ASSUME IInv, NEW c \in Clients, Begin(c)
  PROVE  ContractStep
<1>1. InHand(c) /\ pc' = [pc EXCEPT ![c] = "write"]
      /\ pool'.held = pool.held /\ pool'.conn = pool.conn
  BY DEF Begin, InHand, Goto, State
<1>2. QED
  BY <1>1, StatementIsAllowed

LEMMA WriteIsAllowed ==
  ASSUME IInv, NEW c \in Clients, Write(c) \/ StatementFails(c)
  PROVE  ContractStep
<1>1. CASE Write(c)
  BY <1>1, StatementIsAllowed DEF Write, InHand, Goto
<1>2. CASE StatementFails(c)
  BY <1>2, StatementIsAllowed DEF StatementFails, Goto
<1>3. QED
  BY <1>1, <1>2

LEMMA OpenFailsIsAllowed ==
  ASSUME IInv, NEW c \in Clients, OpenFails(c)
  PROVE  ContractStep
<1> DEFINE k == pool.held[c]
           h == [pool.held EXCEPT ![c] = None]
<1>1. /\ k \in Conns /\ pool.conn[k] = "opening" /\ pool' = Remove(pool, k, h)
      /\ pc' = [pc EXCEPT ![c] = "idle"]
  BY DEF OpenFails, Goto
<1>2. /\ h \in [Clients -> Conns \cup {None, Lost}] /\ h[c] = None
      /\ \A d \in Clients : IF pool.held[d] = k THEN h[d] \in {None, Lost} ELSE h[d] = pool.held[d]
      /\ \A d \in Clients \ {c} : pool.held[d] # k
  BY <1>1 DEF IInv, Core, Pool, HoldersSound
<1>3. ~Queued(pool, c) /\ Core(pool) /\ pc \in [Clients -> Stage] /\ pc[c] # "idle"
  BY <1>1, ConnectionPoolAssumption DEF IInv, Core, QueueSound, Queued, IdleUnused, Unused
<1>4. View(pool, c) = None
  BY <1>1, ConnectionPoolAssumption DEF View
<1> HIDE DEF k, h
<1>5. Unused(pool', c) /\ \A d \in Clients \ {c} : View(pool', d) = View(pool, d)
  BY <1>1, <1>2, <1>3, RemoveKeepsCore
<1>6. View(pool', c) = None
  BY <1>5, NothingInView DEF Unused
<1>7. c \in Wants /\ c \notin Wants' /\ Has'[c] = None /\ Has[c] = None
  BY <1>1, <1>3, <1>4, <1>6, SeenByContract, ConnectionPoolAssumption
<1>8. /\ \A d \in Clients \ {c} : Has'[d] = Has[d]
      /\ \A d \in Clients \ {c} : d \in Wants' <=> d \in Wants
  BY <1>1, <1>3, <1>5, OthersStay
<1>9. Has' = Has /\ Wants' = Wants \ {c}
  BY <1>7, <1>8, OneMoves
<1>10. QED
  BY <1>7, <1>9 DEF ContractStep, Contract!Next, Contract!Refuse

LEMMA BreakIsAllowed ==
  ASSUME IInv, NEW k \in Conns, Break(k)
  PROVE  ContractStep
<1> DEFINE h == [c \in Clients |-> IF pool.held[c] = k THEN Lost ELSE pool.held[c]]
<1>1. pool' = Remove(pool, k, h) /\ pc' = pc /\ pool.conn[k] \in {"handed", "open"}
  BY DEF Break
<1>2. /\ h \in [Clients -> Conns \cup {None, Lost}]
      /\ \A d \in Clients : IF pool.held[d] = k THEN h[d] = Lost ELSE h[d] = pool.held[d]
  BY DEF IInv, Core, Pool
<1> HIDE DEF h
<1>3. /\ \A d \in Clients : h[d] # None => pool'.held[d] = h[d]
      /\ \A d \in Clients : pool.held[d] # k => View(pool', d) = View(pool, d)
  BY <1>1, <1>2, RemoveKeepsCore DEF IInv
<1>4. pc \in [Clients -> Stage]
  BY DEF IInv
<1>5. CASE \A c \in Clients : pool.held[c] # k
  <2>1. \A d \in Clients : Has'[d] = Has[d] /\ (d \in Wants' <=> d \in Wants)
    BY <1>1, <1>3, <1>5, SeenByContract
  <2>2. Has' = Has /\ Wants' = Wants
    BY <2>1 DEF Has, Wants
  <2>3. QED
    BY <2>2 DEF ContractStep
<1>6. CASE \E c \in Clients : pool.held[c] = k
  <2>1. PICK c \in Clients : pool.held[c] = k
    BY <1>6
  <2>2. pc[c] # "idle" /\ \A d \in Clients \ {c} : pool.held[d] # k
    BY <2>1, ConnectionPoolAssumption DEF IInv, Core, HoldersSound, IdleUnused, Unused
  <2>3. View(pool', c) = Lost
    BY <1>2, <1>3, <2>1, ConnectionPoolAssumption DEF View
  <2>4. c \notin Wants' /\ Has'[c] = None
    BY <2>3, SeenByContract, ConnectionPoolAssumption
  <2>5. /\ \A d \in Clients \ {c} : Has'[d] = Has[d]
        /\ \A d \in Clients \ {c} : d \in Wants' <=> d \in Wants
    BY <1>1, <1>3, <2>2, SeenByContract
  <2>6. CASE pool.conn[k] = "open"
    <3>1. Has[c] # None /\ c \notin Wants
      BY <2>1, <2>6, ConnectionPoolAssumption DEF Has, Wants, Connected, InHand
    <3>2. Has' = [Has EXCEPT ![c] = None] /\ Wants' = Wants
      BY <2>4, <2>5, <3>1, OneMoves
    <3>3. QED
      BY <3>1, <3>2 DEF ContractStep, Contract!Next, Contract!Give
  <2>7. CASE pool.conn[k] = "handed"
    <3>1. Has[c] = None /\ c \in Wants
      BY <2>1, <2>2, <2>7, ConnectionPoolAssumption DEF Has, Wants, Connected, InHand
    <3>2. Has' = Has /\ Wants' = Wants \ {c}
      BY <2>4, <2>5, <3>1, OneMoves
    <3>3. QED
      BY <3>1, <3>2 DEF ContractStep, Contract!Next, Contract!Refuse
  <2>8. QED
    BY <1>1, <2>6, <2>7
<1>7. QED
  BY <1>5, <1>6

\* The safety of the contract: whatever breaks, a step of the pool and its users
\* is a step of the contract or is not seen by it (its fairness is checked by
\* TLC in ImplementsContract).
THEOREM StepsKeepContract == Spec => Contract!Init /\ [][Contract!Next]_<<Wants, Has>>
<1>1. Init => Contract!Init
  BY ConnectionPoolAssumption DEF Init, State, Contract!Init, Wants, Has, Connected, InHand
<1>2. IInv /\ [Next]_vars => [Contract!Next]_<<Wants, Has>>
  <2>1. SUFFICES ASSUME IInv, [Next]_vars PROVE ContractStep
    BY DEF ContractStep
  <2>2. ASSUME NEW c \in Clients, Step(c) PROVE ContractStep
    BY <2>1, <2>2, ObtainIsAllowed, OpenFailsIsAllowed, UseOnceIsAllowed, BeginIsAllowed,
       WriteIsAllowed, CommitIsAllowed, RollbackIsAllowed DEF Step
  <2>3. CASE UNCHANGED vars
    BY <2>3 DEF vars, ContractStep, Wants, Has, Connected, InHand
  <2>4. QED
    BY <2>1, <2>2, <2>3, AskIsAllowed, BreakIsAllowed DEF Next
<1>3. QED
  BY <1>1, <1>2, Invariance, PTL DEF Spec

-----------------------------------------------------------------------------
(* Nobody waits in vain *)

\* The connections the pool could give to someone now.
Spare(p) == p.free \cup Closed(p)

\* No connection lies idle, and none that could be opened stays closed, while
\* somebody waits: the wakeup of a waiter is never lost.
Conserving(p) == p.queue # <<>> => Spare(p) = {}

\* Whoever awaits something is in the queue, or holds what it awaits.
NobodyForgotten == \A c \in Clients : pc[c] # "idle" => ~Unused(pool, c)

LEMMA GrantConserves ==
  ASSUME NEW p, p \in Pool, NEW c \in Clients, NEW k \in Spare(p), NEW s \in {"opening", "handed"}
  PROVE  LET q == Grant(p, c, k, s)
         IN /\ q.queue = p.queue /\ Spare(q) \subseteq Spare(p) \ {k} /\ ~Unused(q, c)
            /\ \A d \in Clients : d # c /\ Unused(q, d) => Unused(p, d)
<1> DEFINE q == Grant(p, c, k, s)
<1>1. /\ q.conn = [p.conn EXCEPT ![k] = s] /\ q.held = [p.held EXCEPT ![c] = k]
      /\ q.free = p.free \ {k} /\ q.queue = p.queue
  BY DEF Grant, State
<1>2. /\ p.conn \in [Conns -> {"closed", "opening", "handed", "open"}] /\ p.free \subseteq Conns
      /\ p.held \in [Clients -> Conns \cup {None, Lost}]
  BY DEF Pool
<1> HIDE DEF q
<1>3. k \in Conns /\ k # None
  BY <1>2, ConnectionPoolAssumption DEF Spare, Closed
<1>4. Spare(q) \subseteq Spare(p) \ {k}
  BY <1>1, <1>2, <1>3 DEF Spare, Closed
<1>5. ~Unused(q, c) /\ \A d \in Clients : d # c /\ Unused(q, d) => Unused(p, d)
  BY <1>1, <1>2, <1>3 DEF Unused, Queued
<1>6. QED
  BY <1>1, <1>4, <1>5 DEF q

\* Either the pool conserves, and a connection is spare only with nobody in the
\* queue, or the one connection that is spare is given away.
LEMMA GetConnectionConserves ==
  ASSUME NEW p, p \in Pool, NEW c \in Clients, NEW k,
         Conserving(p) \/ Spare(p) \subseteq {k}
  PROVE  LET q == GetConnection(p, c)
         IN /\ Conserving(q) /\ ~Unused(q, c)
            /\ \A d \in Clients : d # c /\ Unused(q, d) => Unused(p, d)
<1>1. ASSUME NEW j \in Spare(p), NEW s \in {"opening", "handed"},
             GetConnection(p, c) = Grant(p, c, j, s)
      PROVE  LET q == GetConnection(p, c)
             IN /\ Conserving(q) /\ ~Unused(q, c)
                /\ \A d \in Clients : d # c /\ Unused(q, d) => Unused(p, d)
  <2> DEFINE q == Grant(p, c, j, s)
  <2>1. /\ q.queue = p.queue /\ Spare(q) \subseteq Spare(p) \ {j} /\ ~Unused(q, c)
        /\ \A d \in Clients : d # c /\ Unused(q, d) => Unused(p, d)
    BY GrantConserves
  <2> HIDE DEF q
  <2>2. Conserving(q)
    BY <2>1 DEF Conserving
  <2>3. QED
    BY <1>1, <2>1, <2>2 DEF q
<1>2. CASE p.free # {}
  <2> DEFINE j == CHOOSE i \in p.free : TRUE
  <2>1. j \in Spare(p)
    BY <1>2 DEF Spare
  <2>2. GetConnection(p, c) = Grant(p, c, j, "handed")
    BY <1>2 DEF GetConnection
  <2> HIDE DEF j
  <2>3. QED
    BY <2>1, <2>2, <1>1
<1>3. CASE p.free = {} /\ Closed(p) # {}
  <2> DEFINE j == CHOOSE i \in Closed(p) : TRUE
  <2>1. j \in Spare(p)
    BY <1>3 DEF Spare
  <2>2. GetConnection(p, c) = Grant(p, c, j, "opening")
    BY <1>3 DEF GetConnection
  <2> HIDE DEF j
  <2>3. QED
    BY <2>1, <2>2, <1>1
<1>4. CASE p.free = {} /\ Closed(p) = {}
  <2> DEFINE q == Enqueue(p, c)
  <2>1. /\ q.conn = p.conn /\ q.held = p.held /\ q.free = p.free /\ q.queue = Append(p.queue, c)
        /\ p.queue \in Seq(Clients)
    BY DEF Enqueue, State, Pool
  <2>2. /\ Len(q.queue) = Len(p.queue) + 1 /\ Len(p.queue) \in Nat
        /\ \A i \in 1..Len(p.queue) : q.queue[i] = p.queue[i]
        /\ q.queue[Len(p.queue) + 1] = c
    BY <2>1
  <2>3. GetConnection(p, c) = q
    BY <1>4 DEF GetConnection
  <2> HIDE DEF q
  <2>4. Conserving(q)
    BY <1>4, <2>1 DEF Conserving, Spare, Closed
  <2>5. ~Unused(q, c) /\ \A d \in Clients : d # c /\ Unused(q, d) => Unused(p, d)
    BY <2>1, <2>2 DEF Unused, Queued
  <2>6. QED
    BY <2>3, <2>4, <2>5
<1>5. QED
  BY <1>2, <1>3, <1>4

LEMMA ServeConserves ==
  ASSUME NEW p, p \in Pool, NEW k, p.queue # <<>> => Spare(p) \subseteq {k}
  PROVE  LET q == Serve(p)
         IN /\ Conserving(q)
            /\ \A d \in Clients : Unused(q, d) => Unused(p, d)
<1>1. CASE p.queue = <<>>
  BY <1>1 DEF Serve, Conserving
<1>2. CASE p.queue # <<>>
  <2> DEFINE c == Head(p.queue)
             r == State(p.conn, p.held, p.free, p.dirty, Tail(p.queue))
  <2>1. /\ r.conn = p.conn /\ r.held = p.held /\ r.free = p.free
        /\ r.queue = Tail(p.queue) /\ r \in Pool /\ c \in Clients /\ c = p.queue[1]
        /\ p.queue \in Seq(Clients)
    BY <1>2 DEF Pool, State
  <2>2. /\ Len(p.queue) \in Nat \ {0} /\ Len(r.queue) = Len(p.queue) - 1
        /\ \A i \in 1..Len(r.queue) : r.queue[i] = p.queue[i + 1]
    BY <1>2, <2>1, HeadTailProperties, LenProperties, EmptySeq
  <2>3. Serve(p) = GetConnection(r, c)
    BY <1>2 DEF Serve
  <2> HIDE DEF c, r
  <2>4. Spare(r) \subseteq {k}
    BY <1>2, <2>1 DEF Spare, Closed
  <2>5. ASSUME NEW d \in Clients, d # c, Unused(r, d)  PROVE Unused(p, d)
    <3>1. \A i \in 1..Len(p.queue) : i = 1 \/ i - 1 \in 1..Len(r.queue)
      BY <2>2
    <3>2. \A i \in 1..Len(p.queue) : i # 1 => p.queue[i] = r.queue[i - 1]
      BY <2>2, <3>1
    <3>3. QED
      BY <2>1, <2>5, <3>1, <3>2 DEF Unused, Queued
  <2>6. /\ Conserving(GetConnection(r, c)) /\ ~Unused(GetConnection(r, c), c)
        /\ \A d \in Clients : d # c /\ Unused(GetConnection(r, c), d) => Unused(r, d)
    BY <2>1, <2>4, GetConnectionConserves
  <2>7. QED
    BY <2>3, <2>5, <2>6
<1>3. QED
  BY <1>1, <1>2

LEMMA ReleaseConserves ==
  ASSUME NEW p, p \in Pool, Conserving(p), NEW c \in Clients, p.held[c] # None
  PROVE  LET q == Release(p, c)
         IN /\ Conserving(q)
            /\ \A d \in Clients : d # c /\ Unused(q, d) => Unused(p, d)
<1> DEFINE r == State(p.conn, [p.held EXCEPT ![c] = None],
                      IF p.held[c] = Lost THEN p.free ELSE p.free \cup {p.held[c]},
                      p.dirty, p.queue)
<1>1. /\ r.conn = p.conn /\ r.held = [p.held EXCEPT ![c] = None] /\ r.queue = p.queue
      /\ r.free = (IF p.held[c] = Lost THEN p.free ELSE p.free \cup {p.held[c]})
  BY DEF State
<1>2. r \in Pool /\ p.held \in [Clients -> Conns \cup {None, Lost}]
  BY DEF Pool, State
<1>3. Release(p, c) = Serve(r)
  BY DEF Release
<1> HIDE DEF r
<1>4. r.queue # <<>> => Spare(r) \subseteq {p.held[c]}
  BY <1>1 DEF Conserving, Spare, Closed
<1>5. /\ Conserving(Serve(r))
      /\ \A d \in Clients : Unused(Serve(r), d) => Unused(r, d)
  BY <1>2, <1>4, ServeConserves
<1>6. \A d \in Clients : d # c /\ Unused(r, d) => Unused(p, d)
  BY <1>1, <1>2 DEF Unused, Queued
<1>7. QED
  BY <1>3, <1>5, <1>6

LEMMA RemoveConserves ==
  ASSUME NEW p, p \in Pool, Conserving(p), NEW k \in Conns,
         NEW h \in [Clients -> Conns \cup {None, Lost}],
         \A d \in Clients : p.held[d] # k => h[d] = p.held[d]
  PROVE  LET q == Remove(p, k, h)
         IN /\ Conserving(q)
            /\ \A d \in Clients : Unused(q, d) => h[d] = None /\ ~Queued(p, d)
<1> DEFINE r == State([p.conn EXCEPT ![k] = "closed"], h, p.free \ {k}, p.dirty \ {k}, p.queue)
<1>1. /\ r.conn = [p.conn EXCEPT ![k] = "closed"] /\ r.held = h /\ r.free = p.free \ {k}
      /\ r.queue = p.queue
  BY DEF State
<1>2. r \in Pool /\ p.conn \in [Conns -> {"closed", "opening", "handed", "open"}]
  BY DEF Pool, State
<1>3. Remove(p, k, h) = Serve(r)
  BY DEF Remove
<1> HIDE DEF r
<1>4. r.queue # <<>> => Spare(r) \subseteq {k}
  BY <1>1, <1>2 DEF Conserving, Spare, Closed
<1>5. /\ Conserving(Serve(r))
      /\ \A d \in Clients : Unused(Serve(r), d) => Unused(r, d)
  BY <1>2, <1>4, ServeConserves
<1>6. QED
  BY <1>1, <1>3, <1>5 DEF Unused, Queued

ServedInv == Conserving(pool) /\ NobodyForgotten

\* A step that releases keeps it: p is the pool, without the transaction of c or
\* with it.
LEMMA ReleaseKeepsServed ==
  ASSUME IInv, ServedInv, NEW c \in Clients, InHand(c), NEW p, Core(p), p.conn = pool.conn,
         p.held = pool.held, p.free = pool.free, p.queue = pool.queue,
         pool' = Release(p, c), Goto(c, "idle")
  PROVE  ServedInv'
<1>1. Conserving(p) /\ \A d \in Clients : Unused(p, d) => Unused(pool, d)
  BY DEF ServedInv, Conserving, Spare, Closed, Unused, Queued
<1>2. p.held[c] # None /\ p \in Pool
  BY InHandHolds DEF Core
<1>3. Conserving(pool') /\ \A d \in Clients : d # c /\ Unused(pool', d) => Unused(p, d)
  BY <1>1, <1>2, ReleaseConserves
<1>4. NobodyForgotten'
  BY <1>1, <1>3 DEF ServedInv, NobodyForgotten, Goto, IInv
<1>5. QED
  BY <1>3, <1>4 DEF ServedInv

\* The release of a commit and the request for the next connection.
LEMMA CommitKeepsServed ==
  ASSUME IInv, ServedInv, NEW c \in Clients, Commit(c)
  PROVE  ServedInv'
<1> DEFINE p == Ended(c)
           q == Release(p, c)
<1>1. /\ p.conn = pool.conn /\ p.held = pool.held /\ p.free = pool.free /\ p.queue = pool.queue
      /\ Core(p)
  BY EndedIsCore DEF Ended, State
<1>2. pool.held[c] # None /\ pool' = GetConnection(q, c) /\ pc' = [pc EXCEPT ![c] = "query"]
  BY InHandHolds DEF Commit, InHand, Goto
<1> HIDE DEF p
<1>3. Conserving(p) /\ \A d \in Clients : Unused(p, d) => Unused(pool, d)
  BY <1>1 DEF ServedInv, Conserving, Spare, Closed, Unused, Queued
<1>4. Core(q)
  BY <1>1, <1>2, ReleaseKeepsCore
<1>5. Conserving(q) /\ \A d \in Clients : d # c /\ Unused(q, d) => Unused(p, d)
  BY <1>1, <1>2, <1>3, <1>4, ReleaseConserves DEF Core
<1> HIDE DEF q
<1>6. /\ Conserving(pool') /\ ~Unused(pool', c)
      /\ \A d \in Clients : d # c /\ Unused(pool', d) => Unused(q, d)
  BY <1>2, <1>4, <1>5, GetConnectionConserves DEF Core
<1>7. NobodyForgotten'
  BY <1>2, <1>3, <1>5, <1>6 DEF ServedInv, NobodyForgotten, IInv
<1>8. QED
  BY <1>6, <1>7 DEF ServedInv

LEMMA AskKeepsServed ==
  ASSUME IInv, ServedInv, NEW c \in Clients, NEW stage \in {"query", "ping", "begin"},
         Ask(c, stage)
  PROVE  ServedInv'
<1>1. pool' = GetConnection(pool, c) /\ pc' = [pc EXCEPT ![c] = stage] /\ pool \in Pool
  BY DEF Ask, Goto, IInv, Core
<1>2. /\ Conserving(pool') /\ ~Unused(pool', c)
      /\ \A d \in Clients : d # c /\ Unused(pool', d) => Unused(pool, d)
  BY <1>1, GetConnectionConserves DEF ServedInv
<1>3. NobodyForgotten'
  BY <1>1, <1>2 DEF ServedInv, NobodyForgotten, IInv
<1>4. QED
  BY <1>2, <1>3 DEF ServedInv

\* A connection that is refused, or breaks, makes room for a new one.
LEMMA RemoveKeepsServed ==
  ASSUME IInv, ServedInv, (\E c \in Clients : OpenFails(c)) \/ (\E k \in Conns : Break(k))
  PROVE  ServedInv'
<1>1. pool \in Pool /\ pool.held \in [Clients -> Conns \cup {None, Lost}]
  BY DEF IInv, Core, Pool
<1>2. ASSUME NEW c \in Clients, OpenFails(c)  PROVE ServedInv'
  <2> DEFINE h == [pool.held EXCEPT ![c] = None]
  <2>1. /\ pool.held[c] \in Conns /\ pool' = Remove(pool, pool.held[c], h)
        /\ pc' = [pc EXCEPT ![c] = "idle"]
    BY <1>2 DEF OpenFails, Goto
  <2>2. /\ h \in [Clients -> Conns \cup {None, Lost}]
        /\ \A d \in Clients : d # c => h[d] = pool.held[d]
        /\ \A d \in Clients : pool.held[d] # pool.held[c] => h[d] = pool.held[d]
    BY <1>1
  <2> HIDE DEF h
  <2>3. /\ Conserving(pool')
        /\ \A d \in Clients : Unused(pool', d) => h[d] = None /\ ~Queued(pool, d)
    BY <1>1, <2>1, <2>2, RemoveConserves DEF ServedInv
  <2>4. NobodyForgotten'
    BY <2>1, <2>2, <2>3 DEF ServedInv, NobodyForgotten, IInv, Unused
  <2>5. QED
    BY <2>3, <2>4 DEF ServedInv
<1>3. ASSUME NEW k \in Conns, Break(k)  PROVE ServedInv'
  <2> DEFINE h == [c \in Clients |-> IF pool.held[c] = k THEN Lost ELSE pool.held[c]]
  <2>1. pool' = Remove(pool, k, h) /\ pc' = pc
    BY <1>3 DEF Break
  <2>2. /\ h \in [Clients -> Conns \cup {None, Lost}]
        /\ \A d \in Clients : pool.held[d] # k => h[d] = pool.held[d]
        /\ \A d \in Clients : h[d] = None => pool.held[d] = None
    BY <1>1, ConnectionPoolAssumption
  <2> HIDE DEF h
  <2>3. /\ Conserving(pool')
        /\ \A d \in Clients : Unused(pool', d) => h[d] = None /\ ~Queued(pool, d)
    BY <1>1, <2>1, <2>2, RemoveConserves DEF ServedInv
  <2>4. NobodyForgotten'
    BY <2>1, <2>2, <2>3 DEF ServedInv, NobodyForgotten, Unused
  <2>5. QED
    BY <2>3, <2>4 DEF ServedInv
<1>4. QED
  BY <1>2, <1>3

\* A step that leaves the holders, the queue and what is spare alone keeps it.
LEMMA UseKeepsServed ==
  ASSUME IInv, ServedInv, NEW c \in Clients, pool'.held = pool.held,
         pool'.free = pool.free, pool'.queue = pool.queue, Closed(pool') \subseteq Closed(pool),
         pool.held[c] # None, \A d \in Clients : d # c => pc'[d] = pc[d]
  PROVE  ServedInv'
<1>1. Conserving(pool')
  BY DEF ServedInv, Conserving, Spare
<1>2. NobodyForgotten'
  BY DEF ServedInv, NobodyForgotten, Unused, Queued
<1>3. QED
  BY <1>1, <1>2 DEF ServedInv

LEMMA StepKeepsServed ==
  ASSUME IInv, ServedInv, NEW c \in Clients, Step(c)
  PROVE  ServedInv'
<1>1. CASE Obtain(c)
  <2>1. /\ pool.held[c] \in Conns /\ pc' = pc
        /\ pool'.held = pool.held /\ pool'.free = pool.free /\ pool'.queue = pool.queue
        /\ pool'.conn = [pool.conn EXCEPT ![pool.held[c]] = "open"]
    BY <1>1 DEF Obtain, State
  <2>2. Closed(pool') \subseteq Closed(pool)
    BY <2>1 DEF Closed, IInv, Core, Pool
  <2>3. QED
    BY <2>1, <2>2, UseKeepsServed, ConnectionPoolAssumption
<1>2. CASE Begin(c) \/ Write(c) \/ StatementFails(c)
  <2>1. /\ InHand(c) /\ \A d \in Clients : d # c => pc'[d] = pc[d]
        /\ pool'.held = pool.held /\ pool'.free = pool.free /\ pool'.queue = pool.queue
        /\ pool'.conn = pool.conn
    BY <1>2 DEF Begin, Write, StatementFails, State, InHand, Goto, IInv
  <2>2. Closed(pool') \subseteq Closed(pool)
    BY <2>1 DEF Closed
  <2>3. QED
    BY <2>1, <2>2, InHandHolds, UseKeepsServed
<1>3. CASE Query(c) \/ Ping(c)
  BY <1>3, ReleaseKeepsServed DEF Query, Ping, IInv
<1>4. CASE Rollback(c)
  <2>1. /\ Core(Ended(c)) /\ Ended(c).conn = pool.conn /\ Ended(c).held = pool.held
        /\ Ended(c).free = pool.free /\ Ended(c).queue = pool.queue
    BY EndedIsCore DEF Ended, State
  <2>2. QED
    BY <1>4, <2>1, ReleaseKeepsServed DEF Rollback
<1>5. QED
  BY <1>1, <1>2, <1>3, <1>4, CommitKeepsServed, RemoveKeepsServed DEF Step

\* The wakeup of a waiter is never lost and no await is forgotten, whatever
\* fails or breaks.
THEOREM NoWakeupIsLost == Spec => [](Conserving(pool) /\ NobodyForgotten)
<1>1. Init => ServedInv
  BY EmptySeq DEF Init, State, ServedInv, Conserving, NobodyForgotten
<1>2. IInv /\ ServedInv /\ [Next]_vars => ServedInv'
  <2>1. SUFFICES ASSUME IInv, ServedInv, [Next]_vars  PROVE ServedInv'
    OBVIOUS
  <2>2. CASE UNCHANGED vars
    BY <2>1, <2>2 DEF vars, ServedInv, NobodyForgotten
  <2>3. QED
    BY <2>1, <2>2, StepKeepsServed, AskKeepsServed, RemoveKeepsServed DEF Next
<1>3. QED
  BY <1>1, <1>2, Invariance, PTL DEF Spec, ServedInv

\* The guard of one of the steps of c: the await of its connection can end, or
\* what it does with it.
CanGoOn(c) ==
  \/ pool.held[c] \in Conns /\ pool.conn[pool.held[c]] \in {"opening", "handed"}
  \/ pc[c] # "idle" /\ InHand(c)

\* Nobody waits in vain: a client that cannot go on is in the queue, and then
\* every connection is with another client that can.  So the pool and its users
\* never come to a standstill, however small the pool.
WaitsForOthers ==
  \A c \in Clients : pc[c] # "idle" /\ ~CanGoOn(c) =>
    /\ Queued(pool, c)
    /\ \A k \in Conns : \E d \in Clients \ {c} : pool.held[d] = k /\ CanGoOn(d)

\* A pool.query that waits does so only for connections that are in use.
THEOREM NobodyWaitsInVain == Spec => []WaitsForOthers
<1>1. IInv /\ ServedInv => WaitsForOthers
  <2>1. SUFFICES ASSUME IInv, ServedInv, NEW c \in Clients, pc[c] # "idle", ~CanGoOn(c)
                 PROVE  /\ Queued(pool, c)
                        /\ \A k \in Conns : \E d \in Clients \ {c} :
                             pool.held[d] = k /\ CanGoOn(d)
    BY DEF WaitsForOthers
  <2>2. /\ pool.conn \in [Conns -> {"closed", "opening", "handed", "open"}]
        /\ pool.held \in [Clients -> Conns \cup {None, Lost}]
        /\ pool.queue \in Seq(Clients)
    BY <2>1 DEF IInv, Core, Pool
  <2>3. ASSUME NEW d \in Clients, pool.held[d] # None
        PROVE  CanGoOn(d)
    <3>1. pc[d] # "idle"
      BY <2>1, <2>3 DEF IInv, IdleUnused, Unused
    <3>2. CASE pool.held[d] = Lost
      BY <3>1, <3>2 DEF CanGoOn, InHand
    <3>3. CASE pool.held[d] \in Conns
      <4>1. pool.conn[pool.held[d]] \in {"opening", "handed", "open"}
        BY <2>1, <2>2, <3>3 DEF IInv, Core, HoldersSound
      <4>2. QED
        BY <3>1, <3>3, <4>1 DEF CanGoOn, InHand, Connected
    <3>4. QED
      BY <2>2, <2>3, <3>2, <3>3
  <2>4. pool.held[c] = None /\ Queued(pool, c)
    BY <2>1, <2>3 DEF ServedInv, NobodyForgotten, Unused
  <2>5. pool.queue # <<>>
    BY <2>2, <2>4, EmptySeq DEF Queued
  <2>6. \A k \in Conns : pool.conn[k] # "closed" /\ k \notin pool.free
    BY <2>1, <2>5 DEF ServedInv, Conserving, Spare, Closed
  <2>7. ASSUME NEW k \in Conns
        PROVE  \E d \in Clients \ {c} : pool.held[d] = k /\ CanGoOn(d)
    <3>1. PICK d \in Clients : pool.held[d] = k
      BY <2>1, <2>6 DEF IInv, Core, NothingLeaks
    <3>2. pool.held[d] # None /\ d # c
      BY <2>4, <3>1, ConnectionPoolAssumption
    <3>3. QED
      BY <2>3, <3>1, <3>2
  <2>8. QED
    BY <2>4, <2>7
<1>2. QED
  BY <1>1, Invariance, NoWakeupIsLost, PTL DEF ServedInv
=============================================================================
