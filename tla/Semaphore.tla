----------------------------- MODULE Semaphore -----------------------------
(***************************************************************************)
(* The tokio::sync::Semaphore that the pools of prax-duckdb and            *)
(* prax-sqlite put in front of their connections: a count of available     *)
(* permits and a FIFO queue of waiters.  A freed permit is handed to the   *)
(* first waiter at once and is never seen as available by anybody else.    *)
(*                                                                         *)
(* A request is one call of the pool's get and the pooled connection it    *)
(* yields.  lease[r] follows it:                                           *)
(*                                                                         *)
(*   none -> queued -> granted -> opening -> held -> returned -> none      *)
(*                                                                         *)
(* (queued and opening are skipped when a permit or an idle connection is  *)
(* at hand.)  It owns a permit from granted to returned.                   *)
(***************************************************************************)
EXTENDS Naturals, Sequences, FiniteSets

CONSTANTS
  Req,             (* requests: users of the pool                          *)
  MaxConnections   (* PoolConfig::max_connections, the number of permits   *)

ASSUME SemaphoreAssumption ==
  /\ IsFiniteSet(Req)
  /\ MaxConnections \in Nat

VARIABLES
  permits,   (* available permits                                          *)
  queue,     (* requests waiting for a permit                              *)
  lease      (* how far each request is                                    *)

semVars == <<permits, queue, lease>>

LeaseState == {"none", "queued", "granted", "opening", "held", "returned"}
WithPermit == {"granted", "opening", "held", "returned"}

(* Requests that own one of the permits. *)
Permitted == {r \in Req : lease[r] \in WithPermit}

SemTypeOK ==
  /\ permits \in 0..MaxConnections
  /\ queue \in Seq(Req)
  /\ lease \in [Req -> LeaseState]

SemInit ==
  /\ permits = MaxConnections
  /\ queue = <<>>
  /\ lease = [r \in Req |-> "none"]

(* r moves on without the semaphore. *)
Advance(r, from, to) ==
  /\ lease[r] = from
  /\ lease' = [lease EXCEPT ![r] = to]
  /\ UNCHANGED <<permits, queue>>

(* acquire_owned finds a permit available. *)
TakePermit(r) ==
  /\ lease[r] = "none"
  /\ permits > 0
  /\ permits' = permits - 1
  /\ lease' = [lease EXCEPT ![r] = "granted"]
  /\ UNCHANGED queue

(* acquire_owned finds none and waits. *)
WaitInQueue(r) ==
  /\ lease[r] = "none"
  /\ permits = 0
  /\ queue' = Append(queue, r)
  /\ lease' = [lease EXCEPT ![r] = "queued"]
  /\ UNCHANGED permits

(* The future of acquire_owned is dropped: the waiter leaves the queue and *)
(* nobody else moves.                                                      *)
StopWaiting(r) ==
  /\ lease[r] = "queued"
  /\ \E i \in 1..Len(queue) :
       /\ queue[i] = r
       /\ queue' = SubSeq(queue, 1, i - 1) \o SubSeq(queue, i + 1, Len(queue))
  /\ lease' = [lease EXCEPT ![r] = "none"]
  /\ UNCHANGED permits

(* The permit of r is dropped: the first waiter gets it or, when nobody    *)
(* waits, it becomes available.                                            *)
DropPermit(r) ==
  \/ /\ queue = <<>>
     /\ permits' = permits + 1
     /\ lease' = [lease EXCEPT ![r] = "none"]
     /\ UNCHANGED queue
  \/ /\ queue # <<>>
     /\ queue' = Tail(queue)
     /\ lease' = [lease EXCEPT ![r] = "none", ![Head(queue)] = "granted"]
     /\ UNCHANGED permits

---------------------------------------------------------------------------
(* Properties of whoever uses the semaphore *)

(* No permit is lost or minted on any path through get and Drop (timeout,  *)
(* cancellation, failed open, poisoned or recycled connection): free       *)
(* permits and requests that own one always add up to max_connections, so  *)
(* the pool's count of connections in use neither underflows nor drifts.   *)
PermitAccounting == permits + Cardinality(Permitted) = MaxConnections

(* No lost wakeup: while a request waits, no permit lies unused, and the   *)
(* queue holds exactly the waiting requests, each once.                    *)
NoIdlePermitWhileWaiting ==
  /\ queue # <<>> => permits = 0
  /\ \A r \in Req : lease[r] = "queued" <=> \E i \in 1..Len(queue) : queue[i] = r
  /\ \A i, j \in 1..Len(queue) : queue[i] = queue[j] => i = j
===========================================================================
