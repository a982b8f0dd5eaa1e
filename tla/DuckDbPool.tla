---------------------------- MODULE DuckDbPool ----------------------------
(***************************************************************************)
(* The connection pool of prax-duckdb (pool.rs): a tokio semaphore with    *)
(* MaxConnections permits in front of a LIFO vector of idle connections.   *)
(*                                                                         *)
(* A request is one call of DuckDbPool::get and the PooledConnection it    *)
(* yields; Semaphore says how it advances.  The steps are the points at    *)
(* which another thread can run: the pool's mutex is released between the  *)
(* pop and the opening of a new connection, and Drop pushes the connection *)
(* back before the permit field is dropped.                                *)
(***************************************************************************)
EXTENDS Semaphore

CONSTANTS
  Conn,            (* identities of DuckDB connections                     *)
  NoConn,          (* "no connection yet"                                  *)
  Prewarmed        (* the connections with_pool_config opens, in order;    *)
                   (* its length is PoolConfig::min_connections            *)

ASSUME PoolAssumption ==
  /\ NoConn \notin Conn
  /\ Prewarmed \in Seq(Conn)
  /\ \A i, j \in 1..Len(Prewarmed) : Prewarmed[i] = Prewarmed[j] => i = j

VARIABLES
  idle,      (* DuckDbPool.connections: the last element is popped first   *)
  conn,      (* PooledConnection.conn: what each request has checked out    *)
  poisoned   (* requests whose PooledConnection.poisoned flag is set       *)

connVars == <<idle, conn, poisoned>>
poolVars == <<semVars, connVars>>

(* Requests that have, or are about to have, a connection of their own. *)
Occupying == {r \in Req : lease[r] \in {"opening", "held"}}

IdleConns == {idle[i] : i \in 1..Len(idle)}
HeldConns == {conn[r] : r \in {q \in Req : conn[q] # NoConn}}
OpenConns == IdleConns \cup HeldConns

TypeOK ==
  /\ SemTypeOK
  /\ idle \in Seq(Conn)
  /\ conn \in [Req -> Conn \cup {NoConn}]
  /\ poisoned \in SUBSET Req

PoolInit ==
  /\ SemInit
  /\ idle = Prewarmed
  /\ conn = [r \in Req |-> NoConn]
  /\ poisoned = {}

---------------------------------------------------------------------------
(* Waiting for a permit *)

(* get finds a permit available, *)
Acquire(r) == TakePermit(r) /\ UNCHANGED connVars

(* or finds none and waits. *)
Enqueue(r) == WaitInQueue(r) /\ UNCHANGED connVars

(* Mutant of Timeout: get waits without a timer. *)
NoTimer(r) == StopWaiting(r) /\ UNCHANGED connVars /\ FALSE

(* connection_timeout_ms elapses: get fails with DuckDbError::Timeout. *)
Timeout(r) == StopWaiting(r) /\ UNCHANGED connVars

(* The caller drops the future of get while it waits, or after the permit  *)
(* was handed over and before the future is polled again.                  *)
CancelGet(r) ==
  /\ \/ StopWaiting(r)
     \/ lease[r] = "granted" /\ DropPermit(r)
  /\ UNCHANGED connVars

---------------------------------------------------------------------------
(* From the permit to the connection *)

(* r is handed the last idle connection; rest stays idle. *)
PopInto(r, rest) ==
  /\ Advance(r, "granted", "held")
  /\ idle # <<>>
  /\ idle' = rest
  /\ conn' = [conn EXCEPT ![r] = idle[Len(idle)]]
  /\ UNCHANGED poisoned

(* Mutants of PopIdle: the connection is left in the vector, or another    *)
(* one than the one handed out is removed.                                 *)
Peek(r) == PopInto(r, idle)
RemoveFirst(r) == PopInto(r, Tail(idle))

(* connections.pop() finds an idle connection. *)
PopIdle(r) == PopInto(r, SubSeq(idle, 1, Len(idle) - 1))

(* Mutant of FindEmpty: a new connection is opened although some are idle. *)
PreferNew(r) == Advance(r, "granted", "opening") /\ UNCHANGED connVars

(* connections.pop() finds none; the pool's mutex is released. *)
FindEmpty(r) ==
  /\ Advance(r, "granted", "opening")
  /\ idle = <<>>
  /\ UNCHANGED connVars

(* create_connection succeeds: c is a connection nobody has. *)
Open(r, c) ==
  /\ Advance(r, "opening", "held")
  /\ c \in Conn \ OpenConns
  /\ conn' = [conn EXCEPT ![r] = c]
  /\ UNCHANGED <<idle, poisoned>>

(* create_connection fails: get returns the error and drops the permit. *)
OpenFails(r) ==
  /\ lease[r] = "opening"
  /\ DropPermit(r)
  /\ UNCHANGED connVars

---------------------------------------------------------------------------
(* From the connection back to the pool *)

(* PooledConnection::poison. *)
Poison(r) ==
  /\ lease[r] = "held"
  /\ poisoned' = poisoned \cup {r}
  /\ UNCHANGED <<semVars, idle, conn>>

(* Drop, first half: return_connection takes the connection back unless    *)
(* MaxConnections are idle already.                                        *)
Recycle(r) ==
  /\ Advance(r, "held", "returned")
  /\ r \notin poisoned
  /\ idle' = IF Len(idle) < MaxConnections THEN Append(idle, conn[r]) ELSE idle
  /\ conn' = [conn EXCEPT ![r] = NoConn]
  /\ UNCHANGED poisoned

(* Drop, first half, of a poisoned connection: it is closed. *)
Discard(r) ==
  /\ Advance(r, "held", "returned")
  /\ r \in poisoned
  /\ conn' = [conn EXCEPT ![r] = NoConn]
  /\ poisoned' = poisoned \ {r}
  /\ UNCHANGED idle

(* Mutants of Release: the permit is forgotten, or it is counted again but *)
(* nobody is woken.                                                        *)
ForgetPermit(r) ==
  /\ Advance(r, "returned", "none")
  /\ UNCHANGED connVars

WakeNobody(r) ==
  /\ lease[r] = "returned"
  /\ permits' = permits + 1
  /\ lease' = [lease EXCEPT ![r] = "none"]
  /\ UNCHANGED <<queue, connVars>>

(* Drop, second half: the field _permit is dropped. *)
Release(r) ==
  /\ lease[r] = "returned"
  /\ DropPermit(r)
  /\ UNCHANGED connVars

---------------------------------------------------------------------------
(* Steps the pool and its callers' threads take, as opposed to those only  *)
(* a caller decides on.                                                    *)
Progress(r) ==
  \/ PopIdle(r)
  \/ FindEmpty(r)
  \/ \E c \in Conn : Open(r, c)
  \/ Release(r)

GiveBack(r) == Recycle(r) \/ Discard(r)

PoolNext ==
  \E r \in Req :
    \/ Acquire(r)
    \/ Enqueue(r)
    \/ Timeout(r)
    \/ CancelGet(r)
    \/ Progress(r)
    \/ OpenFails(r)
    \/ Poison(r)
    \/ GiveBack(r)

PoolSpec == PoolInit /\ [][PoolNext]_poolVars

(* Callers that may hold a connection for ever, and the timer of get. *)
TimedCallers ==
  /\ PoolSpec
  /\ \A r \in Req : WF_poolVars(Progress(r)) /\ WF_poolVars(Timeout(r))

---------------------------------------------------------------------------
(* Properties *)

(* The larger of min_connections and max_connections. *)
Capacity ==
  IF Len(Prewarmed) > MaxConnections THEN Len(Prewarmed) ELSE MaxConnections

(* Connections idle, in use and being opened never exceed that, although   *)
(* create_connection runs outside the mutex that was read to justify it    *)
(* and connections are pushed back before their permit is freed.           *)
ConnectionsBounded == Len(idle) + Cardinality(Occupying) <= Capacity

(* A connection belongs to one place at a time: to one request or to one   *)
(* slot of the idle vector.                                                *)
ExclusiveCheckout ==
  /\ \A q, r \in Req : conn[q] # NoConn /\ conn[q] = conn[r] => q = r
  /\ \A i \in 1..Len(idle), r \in Req : conn[r] # idle[i]
  /\ \A i, j \in 1..Len(idle) : idle[i] = idle[j] => i = j

(* get returns, with a connection or an error, even when the holders of    *)
(* all connections never give them back.                                   *)
GetReturns ==
  \A r \in Req : lease[r] \in {"queued", "granted", "opening"}
                   ~> lease[r] \in {"none", "held"}

(* What the pool promises its callers.  A session is open while it is idle *)
(* or held, and belongs to the request that holds it.                      *)
Sessions == INSTANCE SessionPool WITH
  Client <- Req,
  Session <- Conn,
  NoSession <- NoConn,
  open <- OpenConns,
  owned <- conn

(* The pool implements the abstract one: every checkout hands out a        *)
(* session nobody else owns, and opens a new one only below the capacity.  *)
ImplementsSessionPool == Sessions!Spec
===========================================================================
