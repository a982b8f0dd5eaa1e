---------------------------- MODULE SqlitePool ----------------------------
(***************************************************************************)
(* The connection pool of prax-sqlite (pool.rs, connection.rs): a tokio    *)
(* semaphore in front of a FIFO queue of idle connections.  A connection   *)
(* that is too old, or has been idle for too long, is closed by the next   *)
(* get that meets it at the front of the queue.  A pool of in-memory       *)
(* databases never keeps a connection.                                     *)
(*                                                                         *)
(* Time advances in ticks up to MaxTime.  A limit that is None is one      *)
(* above MaxTime.                                                          *)
(***************************************************************************)
EXTENDS Semaphore

CONSTANTS
  Conn,            (* identities of SQLite connections                     *)
  NoConn,          (* "no connection yet"                                  *)
  Prewarmed,       (* the connections with_pool_config tries to open; its  *)
                   (* length is PoolConfig::min_connections                *)
  HasTimeout,      (* PoolConfig::connection_timeout is not None           *)
  IdleTimeout,     (* PoolConfig::idle_timeout                             *)
  MaxLifetime,     (* PoolConfig::max_lifetime                             *)
  MaxTime          (* the bound on the clock                               *)

ASSUME PoolAssumption ==
  /\ NoConn \notin Conn
  /\ Prewarmed \in Seq(Conn)
  /\ \A i, j \in 1..Len(Prewarmed) : Prewarmed[i] = Prewarmed[j] => i = j
  /\ HasTimeout \in BOOLEAN
  /\ {IdleTimeout, MaxLifetime, MaxTime} \subseteq Nat

VARIABLES
  idle,      (* SqlitePool.idle_connections: PooledConnections, [conn,     *)
             (* created, used]                                             *)
  conn,      (* SqliteConnection.conn: what each request has checked out   *)
  created,   (* SqliteConnection.created_at; 0 when there is none          *)
  inMemory,  (* config.path.is_memory(); never changes                     *)
  now        (* the clock                                                  *)

connVars == <<idle, conn, created, inMemory, now>>
poolVars == <<semVars, connVars>>

(* Requests that have, or are about to have, a connection of their own. *)
Occupying == {r \in Req : lease[r] \in {"opening", "held"}}

IdleConns == {idle[i].conn : i \in 1..Len(idle)}
HeldConns == {conn[r] : r \in {q \in Req : conn[q] # NoConn}}
OpenConns == IdleConns \cup HeldConns

(* with_pool_config: a connection that cannot be opened is left out. *)
PoolInit ==
  /\ SemInit
  /\ inMemory \in BOOLEAN
  /\ \E n \in 0..Len(Prewarmed) :
       /\ inMemory => n = 0
       /\ idle = [i \in 1..n |-> [conn |-> Prewarmed[i], created |-> 0, used |-> 0]]
  /\ conn = [r \in Req |-> NoConn]
  /\ created = [r \in Req |-> 0]
  /\ now = 0

Tick ==
  /\ now < MaxTime
  /\ now' = now + 1
  /\ UNCHANGED <<semVars, idle, conn, created, inMemory>>

---------------------------------------------------------------------------
(* Waiting for a permit *)

(* get finds a permit available, *)
Acquire(r) == TakePermit(r) /\ UNCHANGED connVars

(* or finds none and waits. *)
Enqueue(r) == WaitInQueue(r) /\ UNCHANGED connVars

(* connection_timeout elapses: get fails. *)
Timeout(r) ==
  /\ HasTimeout
  /\ StopWaiting(r)
  /\ UNCHANGED connVars

(* The caller drops the future of get while it waits, after the permit was *)
(* handed over, or while open_connection is under way.                     *)
CancelGet(r) ==
  /\ \/ StopWaiting(r)
     \/ lease[r] \in {"granted", "opening"} /\ DropPermit(r)
  /\ UNCHANGED connVars

---------------------------------------------------------------------------
(* From the permit to the connection *)

Expired(e) == now - e.created > MaxLifetime \/ now - e.used > IdleTimeout

(* r is handed the i-th idle connection; those in front of it are closed.  *)
TakeIdle(r, i, rest) ==
  /\ Advance(r, "granted", "held")
  /\ ~ inMemory
  /\ \A j \in 1..i - 1 : Expired(idle[j])
  /\ ~ Expired(idle[i])
  /\ idle' = rest
  /\ conn' = [conn EXCEPT ![r] = idle[i].conn]
  /\ created' = [created EXCEPT ![r] = now]
  /\ UNCHANGED <<inMemory, now>>

(* Mutant of PopIdle: the connection is left in the queue. *)
PopPeeks(r) ==
  \E i \in 1..Len(idle) : TakeIdle(r, i, SubSeq(idle, i, Len(idle)))

(* The loop over pop_front finds a connection that has not expired.        *)
PopIdle(r) ==
  \E i \in 1..Len(idle) : TakeIdle(r, i, SubSeq(idle, i + 1, Len(idle)))

(* Mutant of FindNone: a new connection is opened while some are idle. *)
FindNoneAtFront(r) ==
  /\ Advance(r, "granted", "opening")
  /\ idle # <<>> => Expired(Head(idle))
  /\ UNCHANGED connVars

(* The loop closes every idle connection and finds none to reuse, or the   *)
(* database is in memory.  The mutex is released.                          *)
FindNone(r) ==
  /\ Advance(r, "granted", "opening")
  /\ inMemory \/ \A i \in 1..Len(idle) : Expired(idle[i])
  /\ idle' = IF inMemory THEN idle ELSE <<>>
  /\ UNCHANGED <<conn, created, inMemory, now>>

(* open_connection succeeds: c is a connection nobody has. *)
Open(r, c) ==
  /\ Advance(r, "opening", "held")
  /\ c \in Conn \ OpenConns
  /\ conn' = [conn EXCEPT ![r] = c]
  /\ created' = [created EXCEPT ![r] = now]
  /\ UNCHANGED <<idle, inMemory, now>>

(* open_connection fails: get returns the error and drops the permit. *)
OpenFails(r) ==
  /\ lease[r] = "opening"
  /\ DropPermit(r)
  /\ UNCHANGED connVars

---------------------------------------------------------------------------
(* Drop of the SqliteConnection *)

(* The connection leaves r, and the idle queue becomes q. *)
GiveBackInto(r, q) ==
  /\ Advance(r, "held", "returned")
  /\ idle' = q
  /\ conn' = [conn EXCEPT ![r] = NoConn]
  /\ created' = [created EXCEPT ![r] = 0]
  /\ UNCHANGED <<inMemory, now>>

Returned(r) == [conn |-> conn[r], created |-> created[r], used |-> now]

(* Mutant of GiveBack: the queue is used as a stack. *)
GiveBackFirst(r) ==
  GiveBackInto(r, IF inMemory THEN idle ELSE <<Returned(r)>> \o idle)

(* Drop::drop: push_back, unless there is no queue to return to. *)
GiveBack(r) ==
  GiveBackInto(r, IF inMemory THEN idle ELSE Append(idle, Returned(r)))

(* Mutant of Release: the permit is counted again but nobody is woken.     *)
WakeNobody(r) ==
  /\ lease[r] = "returned"
  /\ permits' = permits + 1
  /\ lease' = [lease EXCEPT ![r] = "none"]
  /\ UNCHANGED <<queue, connVars>>

(* Then the field permit is dropped. *)
Release(r) ==
  /\ lease[r] = "returned"
  /\ DropPermit(r)
  /\ UNCHANGED connVars

---------------------------------------------------------------------------
Progress(r) ==
  \/ PopIdle(r)
  \/ FindNone(r)
  \/ \E c \in Conn : Open(r, c)
  \/ Release(r)

PoolNext ==
  \/ Tick
  \/ \E r \in Req :
       \/ Acquire(r)
       \/ Enqueue(r)
       \/ Timeout(r)
       \/ CancelGet(r)
       \/ Progress(r)
       \/ OpenFails(r)
       \/ GiveBack(r)

PoolSpec == PoolInit /\ [][PoolNext]_poolVars

(* Callers that eventually drop what they hold.  No timer needs to fire. *)
HonestCallers ==
  /\ PoolSpec
  /\ \A r \in Req : WF_poolVars(Progress(r)) /\ WF_poolVars(GiveBack(r))

---------------------------------------------------------------------------
(* Properties *)

(* The larger of min_connections and max_connections. *)
Capacity ==
  IF Len(Prewarmed) > MaxConnections THEN Len(Prewarmed) ELSE MaxConnections

(* Connections idle, in use and being opened never exceed that, although   *)
(* Drop pushes a connection back without looking at the queue's length and *)
(* open_connection runs outside the mutex.                                 *)
ConnectionsBounded == Len(idle) + Cardinality(Occupying) <= Capacity

(* get stops at the first connection that has not expired, and yet leaves  *)
(* no connection behind that has been idle for too long: the queue is      *)
(* sorted by last_used, because every return is stamped under the mutex    *)
(* and goes to the back.                                                   *)
SweepIsComplete ==
  [][\A r \in Req :
       lease[r] = "granted" /\ lease'[r] \in {"opening", "held"}
         => \A i \in 1..Len(idle') : now - idle'[i].used <= IdleTimeout]_poolVars

(* As long as callers give back what they hold, every waiting request is   *)
(* served (or times out): a freed permit always wakes the first waiter.    *)
Served == \A r \in Req : lease[r] = "queued" ~> lease[r] # "queued"

(* What the pool promises its callers; a session is open while it is idle  *)
(* or held, and belongs to the request that holds it.                      *)
Sessions == INSTANCE SessionPool WITH
  Client <- Req,
  Session <- Conn,
  NoSession <- NoConn,
  open <- OpenConns,
  owned <- conn

(* The pool implements the abstract one, expiry included: a connection     *)
(* that somebody owns is never closed by another request's sweep.          *)
ImplementsSessionPool == Sessions!Spec
===========================================================================
