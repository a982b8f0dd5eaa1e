---------------------------- MODULE SqliteProofs ----------------------------
(***************************************************************************)
(* The safety properties of SqlitePool and of SqliteEngine on top of it,   *)
(* for any set of requests, any max_connections, any number of prewarmed   *)
(* connections, any limits on age and idleness and a clock of any range.   *)
(* What concerns the semaphore alone comes from SemaphoreProofs.           *)
(***************************************************************************)
EXTENDS SqliteEngine, SemaphoreProofs

PooledConnection == [conn : Conn, created : Nat, used : Nat]

ConnTypeOK ==
  /\ idle \in Seq(PooledConnection)
  /\ conn \in [Req -> Conn \cup {NoConn}]
  /\ created \in [Req -> Nat]
  /\ inMemory \in BOOLEAN
  /\ now \in Nat

(* A request holds a connection exactly from get's return to Drop. *)
HoldersHold == \A r \in Req : conn[r] # NoConn <=> lease[r] = "held"

(* No connection is in two hands, or in use and idle, or idle twice. *)
ExclusiveCheckout ==
  /\ \A p, q \in Req : conn[p] # NoConn /\ conn[p] = conn[q] => p = q
  /\ \A r \in Req, i \in 1..Len(idle) : conn[r] # idle[i].conn
  /\ \A i, j \in 1..Len(idle) : idle[i].conn = idle[j].conn => i = j

(* The idle queue is sorted by the time of the last use. *)
StampsAscend ==
  /\ \A i \in 1..Len(idle) : idle[i].used <= now
  /\ \A i, j \in 1..Len(idle) : i <= j => idle[i].used <= idle[j].used

(* A pool of in-memory databases never keeps a connection. *)
MemoryKeepsNone == inMemory => idle = <<>>

ConnInv ==
  /\ ConnTypeOK
  /\ HoldersHold
  /\ ConnectionsBounded
  /\ ExclusiveCheckout
  /\ StampsAscend
  /\ MemoryKeepsNone

PoolInv == SemInv /\ ConnInv

---------------------------------------------------------------------------
(* What was used later has been idle for less long. *)
LEMMA LaterIsFresher ==
  ASSUME NEW t \in Nat, NEW limit \in Nat, NEW a \in Nat, NEW b \in Nat,
         t - a <= limit, a <= b
  PROVE  t - b <= limit
OBVIOUS

(* What is left of a queue when its first i elements are gone. *)
LEMMA SuffixProperties ==
  ASSUME NEW S, NEW q \in Seq(S), NEW i \in 1..Len(q),
         NEW s, s = SubSeq(q, i + 1, Len(q))
  PROVE  /\ s \in Seq(S)
         /\ Len(s) = Len(q) - i
         /\ \A k \in 1..Len(q) - i : i + k \in 1..Len(q) /\ s[k] = q[i + k]
<1>1. Len(q) \in Nat /\ \A k \in 1..Len(q) : q[k] \in S
  BY LenProperties, ElementOfSeq
<1>2. \A k \in i + 1..Len(q) : q[k] \in S
  BY <1>1
<1>3. /\ s \in Seq(S)
      /\ Len(s) = IF i + 1 <= Len(q) THEN Len(q) - (i + 1) + 1 ELSE 0
      /\ \A k \in 1..Len(q) - (i + 1) + 1 : s[k] = q[i + 1 + k - 1]
  BY <1>1, <1>2, SubSeqProperties, i + 1 \in Int, Len(q) \in Int
<1>4. QED
  BY <1>1, <1>3

(* The pool of with_pool_config satisfies the invariant. *)
LEMMA InitInv == PoolInit => PoolInv
<1> SUFFICES ASSUME PoolInit PROVE PoolInv
  OBVIOUS
<1> USE PoolAssumption, SemaphoreAssumption DEF PoolInit
<1>1. SemInv
  BY SemInitInv
<1>2. PICK n \in 0..Len(Prewarmed) :
        /\ inMemory => n = 0
        /\ idle = [i \in 1..n |-> [conn |-> Prewarmed[i], created |-> 0, used |-> 0]]
  OBVIOUS
<1>3. /\ Len(Prewarmed) \in Nat
      /\ n \in Nat
      /\ \A i \in 1..n : i \in 1..Len(Prewarmed) /\ Prewarmed[i] \in Conn
  BY LenProperties, ElementOfSeq
<1>4. idle \in Seq(PooledConnection) /\ Len(idle) = n
  <2>1. \A i \in 1..n : [conn |-> Prewarmed[i], created |-> 0, used |-> 0] \in PooledConnection
    BY <1>3 DEF PooledConnection
  <2>2. QED
    BY <1>2, <1>3, <2>1, IsASeq
<1>5. ConnTypeOK
  BY <1>4 DEF ConnTypeOK
<1>6. HoldersHold
  BY DEF HoldersHold, SemInit
<1>7. ConnectionsBounded
  <2>1. Occupying = {}
    BY DEF Occupying, SemInit
  <2>2. QED
    BY <1>3, <1>4, <2>1, FS_EmptySet DEF ConnectionsBounded, Capacity
<1>8. ExclusiveCheckout
  <2>1. \A i \in 1..n : idle[i].conn = Prewarmed[i]
    BY <1>2
  <2>2. QED
    BY <1>3, <1>4, <2>1 DEF ExclusiveCheckout
<1>9. StampsAscend
  BY <1>2, <1>4 DEF StampsAscend
<1>10. MemoryKeepsNone
  BY <1>2, <1>3, <1>4, EmptySeq DEF MemoryKeepsNone
<1>11. QED
  BY <1>1, <1>5, <1>6, <1>7, <1>8, <1>9, <1>10 DEF PoolInv, ConnInv

---------------------------------------------------------------------------
(* The effect of a step of one request on the number that is counted. *)
LEMMA OccupyingAdds ==
  ASSUME NEW r \in Req, r \notin Occupying, Occupying' = Occupying \cup {r}
  PROVE  Cardinality(Occupying') = Cardinality(Occupying) + 1
BY FiniteRequests, FS_AddElement DEF Occupying

(* ... of one that has no connection any longer. *)
LEMMA OccupyingDrops ==
  ASSUME NEW r \in Req, r \in Occupying, Occupying' = Occupying \ {r}
  PROVE  Cardinality(Occupying') = Cardinality(Occupying) - 1
BY FiniteRequests, FS_RemoveElement DEF Occupying

(* What the invariant says of the numbers, for the arithmetic below. *)
LEMMA Counts ==
  ASSUME ConnTypeOK
  PROVE  /\ Cardinality(Permitted) \in Nat
         /\ Cardinality(Occupying) \in Nat
         /\ Cardinality(Occupying) <= Cardinality(Permitted)
         /\ Len(idle) \in Nat
         /\ MaxConnections \in Nat
         /\ Capacity \in Nat
         /\ MaxConnections <= Capacity
<1>1. Permitted \in SUBSET Req /\ Occupying \in SUBSET Permitted
  BY DEF Permitted, Occupying, WithPermit
<1>2. Len(Prewarmed) \in Nat /\ Len(idle) \in Nat
  BY PoolAssumption, LenProperties DEF ConnTypeOK
<1>3. IsFiniteSet(Permitted)
  BY <1>1, FiniteRequests
<1>4. Cardinality(Occupying) <= Cardinality(Permitted)
  BY <1>1, <1>3, FS_Subset
<1>5. QED
  BY <1>1, <1>2, <1>4, FiniteRequests, SemaphoreAssumption DEF Capacity

(* Every idle connection is a pooled connection. *)
LEMMA IdleTypes ==
  ASSUME ConnTypeOK, NEW i \in 1..Len(idle)
  PROVE  idle[i] \in PooledConnection /\ idle[i].conn \in Conn /\ idle[i].used \in Nat
<1>1. idle[i] \in PooledConnection
  BY ElementOfSeq DEF ConnTypeOK
<1>2. QED
  BY <1>1 DEF PooledConnection

---------------------------------------------------------------------------
(* A step that moves requests among the states without a connection, and   *)
(* leaves the connections alone: taking a permit, waiting, giving up, and  *)
(* all the ways to lose a permit.                                          *)
LEMMA WaitingInv ==
  ASSUME PoolInv, SemInv', UNCHANGED connVars,
         \A q \in Req : /\ lease'[q] = "held" <=> lease[q] = "held"
                        /\ lease'[q] = "opening" => lease[q] = "opening"
  PROVE  PoolInv'
<1> USE DEF PoolInv, ConnInv, connVars
<1>1. ConnTypeOK'
  BY DEF ConnTypeOK
<1>2. HoldersHold' /\ ExclusiveCheckout' /\ StampsAscend' /\ MemoryKeepsNone'
  BY DEF HoldersHold, ExclusiveCheckout, StampsAscend, MemoryKeepsNone
<1>3. ConnectionsBounded'
  <2>1. Occupying' \in SUBSET Occupying /\ IsFiniteSet(Occupying)
    BY FiniteRequests DEF Occupying
  <2>2. /\ Cardinality(Occupying') <= Cardinality(Occupying)
        /\ Cardinality(Occupying') \in Nat
    BY <2>1, FS_Subset, FS_CardinalityType
  <2>3. QED
    BY <2>2, Counts DEF ConnectionsBounded
<1>4. QED
  BY <1>1, <1>2, <1>3

(* get finds a permit available. *)
LEMMA AcquireInv ==
  ASSUME PoolInv, NEW r \in Req, Acquire(r)
  PROVE  PoolInv'
<1>1. lease[r] = "none"
  BY DEF Acquire, TakePermit
<1>2. SemInv' /\ \A q \in Req : lease'[q] = IF q = r THEN "granted" ELSE lease[q]
  BY TakePermitInv DEF Acquire, PoolInv
<1>3. QED
  BY <1>1, <1>2, WaitingInv DEF Acquire

(* get waits. *)
LEMMA EnqueueInv ==
  ASSUME PoolInv, NEW r \in Req, Enqueue(r)
  PROVE  PoolInv'
<1>1. lease[r] = "none"
  BY DEF Enqueue, WaitInQueue
<1>2. SemInv' /\ \A q \in Req : lease'[q] = IF q = r THEN "queued" ELSE lease[q]
  BY WaitInQueueInv DEF Enqueue, PoolInv
<1>3. QED
  BY <1>1, <1>2, WaitingInv DEF Enqueue

(* get gives up waiting: its timer, or its caller. *)
LEMMA GiveUpInv ==
  ASSUME PoolInv, NEW r \in Req, StopWaiting(r), UNCHANGED connVars
  PROVE  PoolInv'
<1>1. lease[r] = "queued"
  BY DEF StopWaiting
<1>2. SemInv' /\ \A q \in Req : lease'[q] = IF q = r THEN "none" ELSE lease[q]
  BY StopWaitingInv DEF PoolInv
<1>3. QED
  BY <1>1, <1>2, WaitingInv

(* The permit of r is dropped: an abandoned or failed get, or the end of   *)
(* Drop.                                                                   *)
LEMMA LosePermitInv ==
  ASSUME PoolInv, NEW r \in Req, lease[r] \in {"granted", "opening", "returned"},
         DropPermit(r), UNCHANGED connVars
  PROVE  PoolInv'
<1>1. /\ SemInv'
      /\ lease'[r] = "none"
      /\ \A q \in Req \ {r} :
           \/ lease'[q] = lease[q]
           \/ lease[q] = "queued" /\ lease'[q] = "granted"
  BY DropPermitInv DEF PoolInv, WithPermit
<1>2. QED
  BY <1>1, WaitingInv

(* Time passes. *)
LEMMA TickInv ==
  ASSUME PoolInv, Tick
  PROVE  PoolInv'
<1> USE DEF PoolInv, ConnInv, Tick
<1>1. SemInv'
  BY SemStutter
<1>2. ConnTypeOK'
  BY DEF ConnTypeOK
<1>3. HoldersHold' /\ ConnectionsBounded' /\ ExclusiveCheckout' /\ MemoryKeepsNone'
  BY DEF semVars, HoldersHold, ConnectionsBounded, Occupying, ExclusiveCheckout, MemoryKeepsNone
<1>4. StampsAscend'
  <2>1. now \in Nat
    BY DEF ConnTypeOK
  <2>2. ASSUME NEW i \in 1..Len(idle)
        PROVE  idle[i].used <= now + 1
    BY <2>1, IdleTypes DEF StampsAscend
  <2>3. QED
    BY <2>2 DEF StampsAscend
<1>5. QED
  BY <1>1, <1>2, <1>3, <1>4

(* What the i-th idle connection leaves in the queue when it is handed to  *)
(* r: the connections behind it, none of them idle for longer.             *)
LEMMA PopIdleFacts ==
  ASSUME PoolInv, NEW r \in Req, PopIdle(r)
  PROVE  \E i \in 1..Len(idle) :
           /\ TakeIdle(r, i, SubSeq(idle, i + 1, Len(idle)))
           /\ Len(idle) \in Nat
           /\ idle' \in Seq(PooledConnection)
           /\ Len(idle') = Len(idle) - i
           /\ \A k \in 1..Len(idle') : /\ i + k \in 1..Len(idle)
                                       /\ idle'[k] = idle[i + k]
           /\ idle[i].conn \in Conn
           /\ idle[i].conn # NoConn
           /\ \A q \in Req : conn'[q] = IF q = r THEN idle[i].conn ELSE conn[q]
<1> USE DEF PoolInv, ConnInv
<1>1. PICK i \in 1..Len(idle) : TakeIdle(r, i, SubSeq(idle, i + 1, Len(idle)))
  BY DEF PopIdle
<1>2. idle' = SubSeq(idle, i + 1, Len(idle)) /\ idle \in Seq(PooledConnection)
  BY <1>1 DEF TakeIdle, ConnTypeOK
<1>3. /\ Len(idle) \in Nat
      /\ idle' \in Seq(PooledConnection)
      /\ Len(idle') = Len(idle) - i
      /\ \A k \in 1..Len(idle) - i : i + k \in 1..Len(idle) /\ idle'[k] = idle[i + k]
  BY <1>2, SuffixProperties, LenProperties
<1>4. idle[i].conn \in Conn
  BY IdleTypes
<1>5. idle[i].conn # NoConn
  BY <1>4, PoolAssumption
<1>6. \A q \in Req : conn'[q] = IF q = r THEN idle[i].conn ELSE conn[q]
  BY <1>1 DEF TakeIdle, ConnTypeOK
<1>7. QED
  BY <1>1, <1>3, <1>4, <1>5, <1>6

(* An idle connection is handed to r, which had a permit. *)
LEMMA PopIdleInv ==
  ASSUME PoolInv, NEW r \in Req, PopIdle(r)
  PROVE  PoolInv'
<1> USE DEF PoolInv, ConnInv
<1>1. PICK i \in 1..Len(idle) :
        /\ TakeIdle(r, i, SubSeq(idle, i + 1, Len(idle)))
        /\ Len(idle) \in Nat
        /\ idle' \in Seq(PooledConnection)
        /\ Len(idle') = Len(idle) - i
        /\ \A k \in 1..Len(idle') : /\ i + k \in 1..Len(idle)
                                    /\ idle'[k] = idle[i + k]
        /\ idle[i].conn \in Conn
        /\ idle[i].conn # NoConn
        /\ \A q \in Req : conn'[q] = IF q = r THEN idle[i].conn ELSE conn[q]
  BY PopIdleFacts
<1>2. /\ Advance(r, "granted", "held")
      /\ lease[r] = "granted"
      /\ ~ inMemory
      /\ UNCHANGED <<inMemory, now>>
  BY <1>1 DEF TakeIdle, Advance
<1>3. /\ SemInv'
      /\ \A q \in Req : lease'[q] = IF q = r THEN "held" ELSE lease[q]
  BY <1>2, AdvanceInv DEF WithPermit
<1>4. ConnTypeOK'
  BY <1>1, <1>2 DEF ConnTypeOK, TakeIdle
<1>5. HoldersHold'
  BY <1>1, <1>3 DEF HoldersHold
<1>6. ConnectionsBounded'
  <2>1. Occupying' = Occupying \cup {r} /\ r \notin Occupying
    BY <1>2, <1>3 DEF Occupying
  <2>2. Cardinality(Occupying') = Cardinality(Occupying) + 1
    BY <2>1, OccupyingAdds
  <2>3. QED
    BY <1>1, <2>2, Counts DEF ConnectionsBounded
<1>7. ExclusiveCheckout'
  <2> DEFINE c == idle[i].conn
  <2>1. \A q \in Req : conn[q] # c
    BY DEF ExclusiveCheckout
  <2>2. \A k \in 1..Len(idle') : idle'[k].conn # c
    <3>1. ASSUME NEW k \in 1..Len(idle')
          PROVE  i + k # i /\ i + k \in 1..Len(idle) /\ idle'[k] = idle[i + k]
      BY <1>1
    <3>2. QED
      BY <3>1 DEF ExclusiveCheckout
  <2> HIDE DEF c
  <2>3. \A q \in Req : conn'[q] = IF q = r THEN c ELSE conn[q]
    BY <1>1 DEF c
  <2>4. \A p, q \in Req : conn'[p] # NoConn /\ conn'[p] = conn'[q] => p = q
    BY <2>1, <2>3 DEF ExclusiveCheckout
  <2>5. \A q \in Req, k \in 1..Len(idle') : conn'[q] # idle'[k].conn
    BY <1>1, <2>2, <2>3 DEF ExclusiveCheckout
  <2>6. \A j, k \in 1..Len(idle') : idle'[j].conn = idle'[k].conn => j = k
    <3>1. ASSUME NEW j \in 1..Len(idle'), NEW k \in 1..Len(idle'), idle'[j].conn = idle'[k].conn
          PROVE  j = k
      <4>1. /\ i + j \in 1..Len(idle) /\ i + k \in 1..Len(idle)
            /\ idle[i + j].conn = idle[i + k].conn
        BY <1>1, <3>1
      <4>2. i + j = i + k
        BY <4>1 DEF ExclusiveCheckout
      <4>3. QED
        BY <1>1, <4>2
    <3>2. QED
      BY <3>1
  <2>7. QED
    BY <2>4, <2>5, <2>6 DEF ExclusiveCheckout
<1>8. StampsAscend'
  <2>1. ASSUME NEW j \in 1..Len(idle'), NEW k \in 1..Len(idle')
        PROVE  /\ idle'[j].used <= now
               /\ j <= k => idle'[j].used <= idle'[k].used
    <3>1. /\ i + j \in 1..Len(idle) /\ i + k \in 1..Len(idle)
          /\ idle'[j] = idle[i + j] /\ idle'[k] = idle[i + k]
          /\ j <= k => i + j <= i + k
      BY <1>1
    <3>2. QED
      BY <3>1 DEF StampsAscend
  <2>2. QED
    BY <1>2, <2>1 DEF StampsAscend
<1>9. MemoryKeepsNone'
  BY <1>2 DEF MemoryKeepsNone
<1>10. QED
  BY <1>3, <1>4, <1>5, <1>6, <1>7, <1>8, <1>9

(* The sweep leaves nothing in the queue: then every open connection is    *)
(* backed by a permit of its own, and so is the one about to be opened.    *)
LEMMA FindNoneInv ==
  ASSUME PoolInv, NEW r \in Req, FindNone(r)
  PROVE  PoolInv' /\ idle' = <<>>
<1> USE DEF PoolInv, ConnInv, FindNone
<1>1. /\ SemInv'
      /\ lease[r] = "granted"
      /\ \A q \in Req : lease'[q] = IF q = r THEN "opening" ELSE lease[q]
  BY AdvanceInv DEF WithPermit, Advance
<1>2. idle' = <<>> /\ Len(idle') = 0
  BY DEF MemoryKeepsNone
<1>3. ConnTypeOK'
  BY <1>2 DEF ConnTypeOK
<1>4. HoldersHold'
  BY <1>1 DEF HoldersHold
<1>5. ConnectionsBounded'
  <2>1. /\ Cardinality(Occupying') <= Cardinality(Permitted')
        /\ Cardinality(Occupying') \in Nat
        /\ Cardinality(Permitted') \in Nat
        /\ MaxConnections \in Nat
        /\ Capacity \in Nat
        /\ MaxConnections <= Capacity
    <3>1. Occupying' \in SUBSET Permitted' /\ Permitted' \in SUBSET Req
      BY DEF Occupying, Permitted, WithPermit
    <3>2. QED
      BY <3>1, FiniteRequests, FS_Subset, Counts
  <2>2. Cardinality(Permitted') <= MaxConnections
    BY <1>1, <2>1 DEF SemInv, SemTypeOK, PermitAccounting
  <2>3. Capacity' = Capacity
    BY DEF Capacity
  <2>4. QED
    BY <1>2, <2>1, <2>2, <2>3 DEF ConnectionsBounded
<1>6. ExclusiveCheckout' /\ StampsAscend' /\ MemoryKeepsNone'
  BY <1>2 DEF ExclusiveCheckout, StampsAscend, MemoryKeepsNone
<1>7. QED
  BY <1>1, <1>2, <1>3, <1>4, <1>5, <1>6

(* The new connection is nobody else's. *)
LEMMA OpenInv ==
  ASSUME PoolInv, NEW r \in Req, NEW c \in Conn, Open(r, c)
  PROVE  PoolInv'
<1> USE DEF PoolInv, ConnInv, Open
<1>1. \A q \in Req : conn'[q] = IF q = r THEN c ELSE conn[q]
  BY DEF ConnTypeOK
<1>2. /\ SemInv'
      /\ lease[r] = "opening"
      /\ \A q \in Req : lease'[q] = IF q = r THEN "held" ELSE lease[q]
  BY AdvanceInv DEF WithPermit, Advance
<1>3. ConnTypeOK'
  BY DEF ConnTypeOK
<1>4. HoldersHold'
  BY <1>1, <1>2, PoolAssumption DEF HoldersHold
<1>5. ConnectionsBounded'
  <2>1. Occupying' = Occupying
    BY <1>2 DEF Occupying
  <2>2. QED
    BY <2>1 DEF ConnectionsBounded
<1>6. ExclusiveCheckout'
  <2>1. \A q \in Req : conn[q] # c
    BY PoolAssumption DEF OpenConns, HeldConns
  <2>2. \A i \in 1..Len(idle) : idle[i].conn # c
    BY DEF OpenConns, IdleConns
  <2>3. QED
    BY <1>1, <2>1, <2>2 DEF ExclusiveCheckout
<1>7. StampsAscend' /\ MemoryKeepsNone'
  BY DEF StampsAscend, MemoryKeepsNone
<1>8. QED
  BY <1>2, <1>3, <1>4, <1>5, <1>6, <1>7

(* Drop puts the connection at the back of the queue, or nowhere. *)
LEMMA GiveBackInv ==
  ASSUME PoolInv, NEW r \in Req, GiveBack(r)
  PROVE  PoolInv'
<1> USE DEF PoolInv, ConnInv
<1>1. /\ Advance(r, "held", "returned")
      /\ lease[r] = "held"
      /\ idle' = IF inMemory THEN idle ELSE Append(idle, Returned(r))
      /\ conn' = [conn EXCEPT ![r] = NoConn]
      /\ created' = [created EXCEPT ![r] = 0]
      /\ UNCHANGED <<inMemory, now>>
  BY DEF GiveBack, GiveBackInto, Advance
<1>2. conn[r] \in Conn /\ conn[r] # NoConn
  BY <1>1, PoolAssumption DEF HoldersHold, ConnTypeOK
<1>3. /\ SemInv'
      /\ \A q \in Req : lease'[q] = IF q = r THEN "returned" ELSE lease[q]
  BY <1>1, AdvanceInv DEF WithPermit
<1>4. \A q \in Req : conn'[q] = IF q = r THEN NoConn ELSE conn[q]
  BY <1>1 DEF ConnTypeOK
<1>5. Cardinality(Occupying') = Cardinality(Occupying) - 1
  <2>1. Occupying' = Occupying \ {r} /\ r \in Occupying
    BY <1>1, <1>3 DEF Occupying
  <2>2. QED
    BY <2>1, OccupyingDrops
<1>6. HoldersHold'
  BY <1>3, <1>4 DEF HoldersHold
<1>7. created' \in [Req -> Nat] /\ conn' \in [Req -> Conn \cup {NoConn}]
  BY <1>1 DEF ConnTypeOK
<1>8. CASE inMemory
  <2>1. ConnTypeOK'
    BY <1>1, <1>7, <1>8 DEF ConnTypeOK
  <2>2. ConnectionsBounded'
    BY <1>1, <1>5, <1>8, Counts DEF ConnectionsBounded
  <2>3. ExclusiveCheckout'
    <3>1. \A i \in 1..Len(idle) : idle[i].conn # NoConn
      BY IdleTypes, PoolAssumption
    <3>2. QED
      BY <1>1, <1>4, <1>8, <3>1 DEF ExclusiveCheckout
  <2>4. StampsAscend' /\ MemoryKeepsNone'
    BY <1>1, <1>8 DEF StampsAscend, MemoryKeepsNone
  <2>5. QED
    BY <1>3, <1>6, <2>1, <2>2, <2>3, <2>4
<1>9. CASE ~ inMemory
  <2> DEFINE n == Len(idle)
             e == Returned(r)
  <2>1. e \in PooledConnection /\ e.conn = conn[r] /\ e.used = now
    BY <1>2 DEF Returned, PooledConnection, ConnTypeOK
  <2> HIDE DEF e
  <2>2. /\ n \in Nat
        /\ idle' \in Seq(PooledConnection)
        /\ Len(idle') = n + 1
        /\ \A i \in 1..n : idle'[i] = idle[i]
        /\ idle'[n + 1] = e
    BY <1>1, <1>9, <2>1, AppendProperties, LenProperties DEF ConnTypeOK, e
  <2>3. ConnTypeOK'
    BY <1>1, <1>7, <2>2 DEF ConnTypeOK
  <2>4. ConnectionsBounded'
    BY <1>5, <2>2, Counts DEF ConnectionsBounded
  <2>5. \A i \in 1..n : /\ idle[i].conn \in Conn
                        /\ idle[i].used \in Nat
                        /\ idle[i].used <= now
                        /\ idle[i].conn # conn[r]
    BY IdleTypes DEF StampsAscend, ExclusiveCheckout
  <2> HIDE DEF n
  <2>6. ExclusiveCheckout'
    <3>1. /\ \A q \in Req, i \in 1..n : conn[q] # idle[i].conn
          /\ \A i, j \in 1..n : idle[i].conn = idle[j].conn => i = j
          /\ \A p, q \in Req : conn[p] # NoConn /\ conn[p] = conn[q] => p = q
      BY DEF ExclusiveCheckout, n
    <3>2. \A p, q \in Req : conn'[p] # NoConn /\ conn'[p] = conn'[q] => p = q
      BY <1>4, <3>1
    <3>3. \A i \in 1..n + 1, q \in Req : conn'[q] # idle'[i].conn
      <4>1. ASSUME NEW q \in Req, NEW i \in 1..n
            PROVE  conn'[q] # idle'[i].conn
        BY <1>4, <2>2, <2>5, <3>1, PoolAssumption
      <4>2. ASSUME NEW q \in Req
            PROVE  conn'[q] # idle'[n + 1].conn
        BY <1>2, <1>4, <2>1, <2>2, <3>1
      <4>3. QED
        BY <2>2, <4>1, <4>2
    <3>4. \A i, j \in 1..n + 1 : idle'[i].conn = idle'[j].conn => i = j
      BY <2>1, <2>2, <2>5, <3>1
    <3>5. QED
      BY <2>2, <3>2, <3>3, <3>4 DEF ExclusiveCheckout
  <2>7. StampsAscend'
    <3>1. \A i \in 1..n + 1 : idle'[i].used <= now
      BY <2>1, <2>2, <2>5 DEF ConnTypeOK
    <3>2. \A i, j \in 1..n + 1 : i <= j => idle'[i].used <= idle'[j].used
      <4>1. ASSUME NEW i \in 1..n + 1, NEW j \in 1..n, i <= j
            PROVE  idle'[i].used <= idle'[j].used
        BY <2>2, <4>1 DEF StampsAscend, n
      <4>2. ASSUME NEW i \in 1..n + 1
            PROVE  idle'[i].used <= idle'[n + 1].used
        BY <2>1, <2>2, <3>1
      <4>3. QED
        BY <2>2, <4>1, <4>2
    <3>3. QED
      BY <1>1, <2>2, <3>1, <3>2 DEF StampsAscend
  <2>8. MemoryKeepsNone'
    BY <1>1, <1>9 DEF MemoryKeepsNone
  <2>9. QED
    BY <1>3, <1>6, <2>3, <2>4, <2>6, <2>7, <2>8
<1>10. QED
  BY <1>8, <1>9

---------------------------------------------------------------------------
(* Every step of the pool preserves the invariant. *)
LEMMA StepInv == PoolInv /\ [PoolNext]_poolVars => PoolInv'
<1> SUFFICES ASSUME PoolInv, [PoolNext]_poolVars PROVE PoolInv'
  OBVIOUS
<1>1. ASSUME NEW r \in Req, CancelGet(r) PROVE PoolInv'
  BY <1>1, GiveUpInv, LosePermitInv DEF CancelGet
<1>2. ASSUME NEW r \in Req, Progress(r) PROVE PoolInv'
  <2>1. CASE Release(r)
    BY <2>1, LosePermitInv DEF Release
  <2>2. QED
    BY <1>2, <2>1, PopIdleInv, FindNoneInv, OpenInv DEF Progress
<1>3. ASSUME NEW r \in Req, OpenFails(r) PROVE PoolInv'
  BY <1>3, LosePermitInv DEF OpenFails
<1>4. ASSUME NEW r \in Req, Timeout(r) PROVE PoolInv'
  BY <1>4, GiveUpInv DEF Timeout
<1>5. CASE UNCHANGED poolVars
  <2>1. SemInv' /\ UNCHANGED connVars /\ lease' = lease
    BY <1>5, SemStutter DEF poolVars, semVars, PoolInv
  <2>2. QED
    BY <2>1, WaitingInv
<1>6. QED
  BY <1>1, <1>2, <1>3, <1>4, <1>5, TickInv, AcquireInv, EnqueueInv, GiveBackInv
     DEF PoolNext

(* PoolInv is an invariant of the pool. *)
THEOREM PoolInvariant == PoolSpec => []PoolInv
<1>1. PoolInit => PoolInv
  BY InitInv
<1>2. PoolInv /\ [PoolNext]_poolVars => PoolInv'
  BY StepInv
<1>3. QED
  BY <1>1, <1>2, PTL DEF PoolSpec

(* Drop appends to the queue without looking at its length, and            *)
(* open_connection runs outside the mutex; yet at most                     *)
(* max(min_connections, max_connections) connections exist.                *)
THEOREM ConnectionsAreBounded == PoolSpec => []ConnectionsBounded
<1>1. PoolInv => ConnectionsBounded
  BY DEF PoolInv, ConnInv
<1>2. QED
  BY <1>1, PoolInvariant, PTL

(* On every path through get and Drop, free and owned permits add up to    *)
(* max_connections: none is lost, none is minted.                          *)
THEOREM PermitsConserved == PoolSpec => []PermitAccounting
<1>1. PoolInv => PermitAccounting
  BY DEF PoolInv, SemInv
<1>2. QED
  BY <1>1, PoolInvariant, PTL

(* A permit never lies unused while somebody waits for one.                *)
THEOREM NoLostWakeup == PoolSpec => []NoIdlePermitWhileWaiting
<1>1. PoolInv => NoIdlePermitWhileWaiting
  BY DEF PoolInv, SemInv
<1>2. QED
  BY <1>1, PoolInvariant, PTL

(* No connection is in two hands, or in use and idle, or idle twice: a     *)
(* request has its connection to itself while it holds it.                 *)
THEOREM CheckoutIsExclusive == PoolSpec => []ExclusiveCheckout
<1>1. PoolInv => ExclusiveCheckout
  BY DEF PoolInv, ConnInv
<1>2. QED
  BY <1>1, PoolInvariant, PTL

---------------------------------------------------------------------------
(* The sweep of get *)

Sweep(r) == lease[r] = "granted" /\ lease'[r] \in {"opening", "held"}

(* Only the loop of get itself takes a request from its permit to its      *)
(* connection.                                                             *)
LEMMA OnlyGetSweeps ==
  ASSUME PoolInv, [PoolNext]_poolVars, NEW r \in Req, Sweep(r)
  PROVE  PopIdle(r) \/ FindNone(r)
<1> USE DEF PoolInv, Sweep
<1>1. ASSUME NEW q \in Req, Advance(q, "granted", "held") \/ Advance(q, "granted", "opening")
      PROVE  q = r
  BY <1>1 DEF Advance, SemInv, SemTypeOK
<1>2. ASSUME NEW q \in Req, Advance(q, "opening", "held") \/ Advance(q, "held", "returned")
      PROVE  FALSE
  BY <1>2 DEF Advance, SemInv, SemTypeOK
<1>3. ASSUME NEW q \in Req, TakePermit(q) \/ WaitInQueue(q) \/ StopWaiting(q)
      PROVE  FALSE
  BY <1>3, TakePermitInv, WaitInQueueInv, StopWaitingInv DEF TakePermit, WaitInQueue, StopWaiting
<1>4. ASSUME NEW q \in Req, lease[q] \in WithPermit, DropPermit(q)
      PROVE  FALSE
  <2>1. /\ lease'[q] = "none"
        /\ \A p \in Req \ {q} : \/ lease'[p] = lease[p]
                                \/ lease[p] = "queued" /\ lease'[p] = "granted"
    BY <1>4, DropPermitInv
  <2>2. QED
    BY <2>1
<1>5. ASSUME NEW q \in Req, Progress(q)
      PROVE  PopIdle(r) \/ FindNone(r)
  <2>1. CASE PopIdle(q)
    <3>1. Advance(q, "granted", "held")
      BY <2>1 DEF PopIdle, TakeIdle
    <3>2. QED
      BY <1>1, <2>1, <3>1
  <2>2. CASE FindNone(q)
    <3>1. Advance(q, "granted", "opening")
      BY <2>2 DEF FindNone
    <3>2. QED
      BY <1>1, <2>2, <3>1
  <2>3. CASE \E c \in Conn : Open(q, c)
    BY <1>2, <2>3 DEF Open
  <2>4. CASE Release(q)
    BY <1>4, <2>4 DEF Release, WithPermit
  <2>5. QED
    BY <1>5, <2>1, <2>2, <2>3, <2>4 DEF Progress
<1>6. ASSUME NEW q \in Req,
             Acquire(q) \/ Enqueue(q) \/ Timeout(q) \/ CancelGet(q) \/ OpenFails(q) \/ GiveBack(q)
      PROVE  FALSE
  BY <1>2, <1>3, <1>4, <1>6
     DEF Acquire, Enqueue, Timeout, CancelGet, OpenFails, GiveBack, GiveBackInto, WithPermit
<1>7. CASE Tick \/ UNCHANGED poolVars
  BY <1>7 DEF Tick, semVars, poolVars
<1>8. QED
  BY <1>5, <1>6, <1>7 DEF PoolNext

(* After the sweep no connection in the queue has been idle for too long:  *)
(* those behind the first that has not expired were returned later.        *)
LEMMA SweepStep ==
  ASSUME PoolInv, [PoolNext]_poolVars, NEW r \in Req, Sweep(r)
  PROVE  \A i \in 1..Len(idle') : now - idle'[i].used <= IdleTimeout
<1> USE DEF PoolInv, ConnInv
<1>1. CASE PopIdle(r)
  <2>1. PICK i \in 1..Len(idle) :
          /\ TakeIdle(r, i, SubSeq(idle, i + 1, Len(idle)))
          /\ Len(idle) \in Nat
          /\ \A k \in 1..Len(idle') : /\ i + k \in 1..Len(idle)
                                      /\ idle'[k] = idle[i + k]
    BY <1>1, PopIdleFacts
  <2>2. now - idle[i].used <= IdleTimeout
    <3>1. ~ Expired(idle[i])
      BY <2>1 DEF TakeIdle
    <3>2. now \in Nat /\ idle[i].used \in Nat /\ IdleTimeout \in Nat
      BY IdleTypes, PoolAssumption DEF ConnTypeOK
    <3>3. QED
      BY <3>1, <3>2 DEF Expired
  <2>3. ASSUME NEW k \in 1..Len(idle')
        PROVE  now - idle'[k].used <= IdleTimeout
    <3>1. i + k \in 1..Len(idle) /\ idle'[k] = idle[i + k] /\ i <= i + k
      BY <2>1
    <3>2. idle[i].used <= idle[i + k].used
      BY <3>1 DEF StampsAscend
    <3>3. /\ now \in Nat /\ IdleTimeout \in Nat
          /\ idle[i].used \in Nat /\ idle[i + k].used \in Nat
      BY <3>1, IdleTypes, PoolAssumption DEF ConnTypeOK
    <3>4. now - idle[i + k].used <= IdleTimeout
      BY <2>2, <3>2, <3>3, LaterIsFresher
    <3>5. QED
      BY <3>1, <3>4
  <2>4. QED
    BY <2>3
<1>2. CASE FindNone(r)
  BY <1>2, FindNoneInv
<1>3. QED
  BY <1>1, <1>2, OnlyGetSweeps

(* get stops at the first connection that has not expired, and yet leaves  *)
(* none behind that has been idle for too long.                            *)
THEOREM SweepsAreComplete == PoolSpec => SweepIsComplete
<1> DEFINE Complete ==
             \A r \in Req :
               lease[r] = "granted" /\ lease'[r] \in {"opening", "held"}
                 => \A i \in 1..Len(idle') : now - idle'[i].used <= IdleTimeout
<1>1. PoolInv /\ [PoolNext]_poolVars => [Complete]_poolVars
  BY SweepStep DEF Sweep
<1>2. QED
  BY <1>1, PoolInvariant, PTL DEF PoolSpec, SweepIsComplete

---------------------------------------------------------------------------
(* The pool implements SessionPool. *)

Holders == {r \in Req : conn[r] # NoConn}

(* A set that is enumerated by a function on a finite set is no larger. *)
LEMMA ImageIsSmaller ==
  ASSUME NEW S, NEW f, IsFiniteSet(S)
  PROVE  /\ IsFiniteSet({f[x] : x \in S})
         /\ Cardinality({f[x] : x \in S}) <= Cardinality(S)
<1> DEFINE T == {f[x] : x \in S}
           g == [x \in S |-> f[x]]
<1>1. g \in Surjection(S, T)
  BY DEF Surjection
<1> HIDE DEF T, g
<1>2. IsFiniteSet(T) /\ Cardinality(T) <= Cardinality(S)
  BY <1>1, FS_Surjection
<1>3. QED
  BY <1>2 DEF T

(* No more connections are open than the counted ones. *)
LEMMA OpenAreCounted ==
  ASSUME PoolInv
  PROVE  /\ IsFiniteSet(OpenConns)
         /\ Cardinality(OpenConns) \in Nat
         /\ Cardinality(OpenConns) <= Len(idle) + Cardinality(Holders)
         /\ Cardinality(Holders) \in Nat
         /\ Len(idle) \in Nat
<1> USE DEF PoolInv, ConnInv
<1>1. Len(idle) \in Nat
  BY Counts
<1>2. IsFiniteSet(IdleConns) /\ Cardinality(IdleConns) <= Len(idle)
  <2> DEFINE f == [i \in 1..Len(idle) |-> idle[i].conn]
  <2>1. IsFiniteSet(1..Len(idle)) /\ Cardinality(1..Len(idle)) = Len(idle)
    <3>1. 1 \in Int /\ Len(idle) \in Int
      BY <1>1
    <3>2. /\ IsFiniteSet(1..Len(idle))
          /\ Cardinality(1..Len(idle)) = IF 1 > Len(idle) THEN 0 ELSE Len(idle) - 1 + 1
      BY <3>1, FS_Interval, Zenon
    <3>3. (IF 1 > Len(idle) THEN 0 ELSE Len(idle) - 1 + 1) = Len(idle)
      BY <1>1
    <3>4. QED
      BY <3>2, <3>3
  <2>2. IdleConns = {f[i] : i \in 1..Len(idle)}
    BY DEF IdleConns
  <2> HIDE DEF f
  <2>3. QED
    BY <2>1, <2>2, ImageIsSmaller
<1>3. IsFiniteSet(HeldConns) /\ Cardinality(HeldConns) <= Cardinality(Holders)
  <2>1. IsFiniteSet(Holders)
    BY FiniteRequests DEF Holders
  <2>2. HeldConns = {conn[r] : r \in Holders}
    BY DEF HeldConns, Holders
  <2>3. QED
    BY <2>1, <2>2, ImageIsSmaller
<1>4. /\ IsFiniteSet(OpenConns)
      /\ Cardinality(OpenConns)
           = Cardinality(IdleConns) + Cardinality(HeldConns) - Cardinality(IdleConns \cap HeldConns)
  BY <1>2, <1>3, FS_Union DEF OpenConns
<1>5. /\ Cardinality(IdleConns) \in Nat
      /\ Cardinality(HeldConns) \in Nat
      /\ Cardinality(IdleConns \cap HeldConns) \in Nat
      /\ Cardinality(OpenConns) \in Nat
  BY <1>2, <1>3, <1>4, FS_Intersection, FS_CardinalityType
<1>6. Cardinality(Holders) \in Nat
  BY FiniteRequests DEF Holders
<1>7. QED
  BY <1>1, <1>2, <1>3, <1>4, <1>5, <1>6

(* Both modules count with the same operator. *)
LEMMA SameCardinality ==
  ASSUME NEW S
  PROVE  Sessions!Cardinality(S) = Cardinality(S)
BY DEF Sessions!Cardinality, Cardinality, Sessions!IsFiniteSet, IsFiniteSet

(* Nobody owns an idle connection. *)
LEMMA IdleIsUnowned ==
  ASSUME PoolInv
  PROVE  /\ IdleConns \cap HeldConns = {}
         /\ Sessions!Owned = HeldConns
<1>1. Sessions!Owned = HeldConns
  BY DEF Sessions!Owned, HeldConns
<1>2. IdleConns \cap HeldConns = {}
  BY DEF PoolInv, ConnInv, ExclusiveCheckout, IdleConns, HeldConns
<1>3. QED
  BY <1>1, <1>2

(* The prewarmed connections are the sessions open at the start. *)
LEMMA SessionInit == PoolInit => Sessions!Init
<1> SUFFICES ASSUME PoolInit PROVE Sessions!Init
  OBVIOUS
<1>1. PoolInv
  BY InitInv
<1>2. Holders = {}
  BY DEF Holders, PoolInit
<1>3. Cardinality(OpenConns) <= Len(idle)
  BY <1>1, <1>2, OpenAreCounted, FS_EmptySet
<1>4. Len(idle) <= Capacity
  BY <1>1, Counts DEF PoolInv, ConnInv, ConnectionsBounded
<1>5. OpenConns \in SUBSET Conn
  <2>1. IdleConns \in SUBSET Conn
    BY <1>1, IdleTypes DEF PoolInv, ConnInv, IdleConns
  <2>2. HeldConns = {}
    BY <1>2 DEF HeldConns, Holders
  <2>3. QED
    BY <2>1, <2>2 DEF OpenConns
<1>6. Cardinality(OpenConns) <= Capacity
  BY <1>1, <1>3, <1>4, OpenAreCounted, Counts DEF PoolInv, ConnInv
<1>7. QED
  BY <1>5, <1>6, SameCardinality DEF Sessions!Init, PoolInit

(* A step that leaves the idle queue and the connections held alone. *)
LEMMA SessionStutter ==
  ASSUME UNCHANGED <<idle, conn>>
  PROVE  UNCHANGED Sessions!sessionVars
BY DEF Sessions!sessionVars, OpenConns, IdleConns, HeldConns

(* Popping hands out an open session nobody owns, after retiring the       *)
(* expired ones in front of it, which nobody owns either.                  *)
LEMMA SessionCheckOut ==
  ASSUME PoolInv, NEW r \in Req, PopIdle(r)
  PROVE  Sessions!CheckOut(r)
<1> USE DEF PoolInv, ConnInv
<1>1. PICK i \in 1..Len(idle) :
        /\ TakeIdle(r, i, SubSeq(idle, i + 1, Len(idle)))
        /\ Len(idle) \in Nat
        /\ Len(idle') = Len(idle) - i
        /\ \A k \in 1..Len(idle') : /\ i + k \in 1..Len(idle)
                                    /\ idle'[k] = idle[i + k]
        /\ idle[i].conn \in Conn
        /\ idle[i].conn # NoConn
        /\ \A q \in Req : conn'[q] = IF q = r THEN idle[i].conn ELSE conn[q]
  BY PopIdleFacts
<1> DEFINE n == Len(idle)
           c == idle[i].conn
           expired == {idle[j].conn : j \in 1..i - 1}
<1>2. lease[r] = "granted" /\ conn' = [conn EXCEPT ![r] = c]
  BY <1>1 DEF TakeIdle, Advance
<1>3. conn[r] = NoConn
  BY <1>2 DEF HoldersHold
<1>4. c \in IdleConns /\ c \notin Sessions!Owned
  BY IdleIsUnowned DEF IdleConns
<1>5. expired \subseteq IdleConns \ {c}
  <2>1. ASSUME NEW j \in 1..i - 1
        PROVE  j \in 1..n /\ j # i
    BY <1>1
  <2>2. QED
    BY <2>1 DEF IdleConns, ExclusiveCheckout
<1>6. IdleConns \ expired = IdleConns' \cup {c}
  <2>1. IdleConns' = {idle[k].conn : k \in i + 1..n}
    <3>1. ASSUME NEW k \in i + 1..n
          PROVE  k - i \in 1..Len(idle') /\ idle'[k - i] = idle[k]
      <4>1. k - i \in 1..Len(idle') /\ i + (k - i) = k
        BY <1>1
      <4>2. idle'[k - i] = idle[i + (k - i)]
        BY <1>1, <4>1
      <4>3. QED
        BY <4>1, <4>2
    <3>2. ASSUME NEW k \in 1..Len(idle')
          PROVE  i + k \in i + 1..n /\ idle'[k] = idle[i + k]
      BY <1>1
    <3>3. IdleConns' = {idle'[k].conn : k \in 1..Len(idle')}
      BY DEF IdleConns
    <3> HIDE DEF n
    <3>4. \A k \in i + 1..n : idle[k].conn \in IdleConns'
      BY <3>1, <3>3
    <3>5. \A x \in IdleConns' : \E k \in i + 1..n : x = idle[k].conn
      BY <3>2, <3>3
    <3>6. QED
      BY <3>4, <3>5
  <2>2. \A j, k \in 1..n : idle[j].conn = idle[k].conn => j = k
    BY DEF ExclusiveCheckout
  <2>3. \A k \in 1..n : idle[k].conn \in expired <=> k < i
    <3>1. ASSUME NEW k \in 1..n, idle[k].conn \in expired
          PROVE  k < i
      <4>1. PICK j \in 1..i - 1 : idle[k].conn = idle[j].conn
        BY <3>1
      <4>2. j \in 1..n
        BY <1>1
      <4>3. QED
        BY <2>2, <4>1, <4>2
    <3>2. ASSUME NEW k \in 1..n, k < i
          PROVE  idle[k].conn \in expired
      BY <3>2
    <3>3. QED
      BY <3>1, <3>2
  <2> HIDE DEF expired
  <2>4. IdleConns \ expired = {idle[k].conn : k \in i..n}
    <3>1. \A k \in 1..n : k < i \/ k \in i..n
      BY <1>1
    <3>2. \A k \in i..n : k \in 1..n /\ ~(k < i)
      BY <1>1
    <3> HIDE DEF n
    <3>3. IdleConns = {idle[k].conn : k \in 1..n}
      BY DEF IdleConns, n
    <3>4. QED
      BY <2>3, <3>1, <3>2, <3>3
  <2>5. i..n = i + 1..n \cup {i}
    BY <1>1
  <2> HIDE DEF n
  <2>6. QED
    BY <2>1, <2>4, <2>5
<1> HIDE DEF n, c, expired
<1>7. HeldConns' = HeldConns \cup {c}
  <2>1. c # NoConn /\ \A q \in Req : conn'[q] = IF q = r THEN c ELSE conn[q]
    BY <1>1 DEF c
  <2>2. QED
    BY <1>3, <2>1 DEF HeldConns
<1>8. expired \cap HeldConns = {}
  BY <1>5, IdleIsUnowned
<1>9. OpenConns' = OpenConns \ expired
  BY <1>5, <1>6, <1>7, <1>8 DEF OpenConns
<1>10. expired \in SUBSET (OpenConns \ {c}) /\ expired \subseteq OpenConns \ Sessions!Owned
  BY <1>5, <1>8, IdleIsUnowned DEF OpenConns
<1>11. c \in OpenConns \ Sessions!Owned
  BY <1>4 DEF OpenConns
<1>12. Sessions!Retire(expired)
  BY <1>9, <1>10 DEF Sessions!Retire
<1>13. QED
  BY <1>2, <1>3, <1>10, <1>11, <1>12 DEF Sessions!CheckOut

(* A sweep that finds nothing retires the idle sessions: nobody owns them. *)
LEMMA SessionSweep ==
  ASSUME PoolInv, NEW r \in Req, FindNone(r)
  PROVE  Sessions!Retire(IdleConns) /\ IdleConns \in SUBSET OpenConns /\ UNCHANGED conn
<1>1. UNCHANGED conn /\ idle' = <<>>
  BY FindNoneInv DEF FindNone
<1>2. IdleConns' = {} /\ HeldConns' = HeldConns
  BY <1>1 DEF IdleConns, HeldConns
<1>3. OpenConns' = OpenConns \ IdleConns
  BY <1>2, IdleIsUnowned DEF OpenConns
<1>4. QED
  BY <1>1, <1>3, IdleIsUnowned DEF OpenConns, Sessions!Retire

(* Opening a connection happens below the capacity: the request that opens *)
(* is counted in Occupying and holds nothing yet.                          *)
LEMMA SessionOpenFor ==
  ASSUME PoolInv, NEW r \in Req, NEW c \in Conn, Open(r, c)
  PROVE  Sessions!OpenFor(r)
<1> USE DEF Open, Advance
<1>1. conn[r] = NoConn
  BY DEF PoolInv, ConnInv, HoldersHold
<1>2. Cardinality(OpenConns) < Capacity
  <2>1. r \in Occupying /\ Holders \in SUBSET (Occupying \ {r})
    BY <1>1 DEF Occupying, Holders, PoolInv, ConnInv, HoldersHold
  <2>2. /\ IsFiniteSet(Occupying)
        /\ IsFiniteSet(Occupying \ {r})
        /\ Cardinality(Occupying \ {r}) = Cardinality(Occupying) - 1
    BY <2>1, FiniteRequests, FS_RemoveElement DEF Occupying
  <2>3. Cardinality(Holders) <= Cardinality(Occupying \ {r})
    BY <2>1, <2>2, FS_Subset
  <2>4. QED
    BY <2>2, <2>3, OpenAreCounted, Counts DEF PoolInv, ConnInv, ConnectionsBounded
<1>3. OpenConns' = OpenConns \cup {c}
  <2>1. \A q \in Req : conn'[q] = IF q = r THEN c ELSE conn[q]
    BY DEF PoolInv, ConnInv, ConnTypeOK
  <2>2. c # NoConn
    BY PoolAssumption
  <2>3. HeldConns' = HeldConns \cup {c}
    BY <1>1, <2>1, <2>2 DEF HeldConns
  <2>4. IdleConns' = IdleConns
    BY DEF IdleConns
  <2>5. QED
    BY <2>3, <2>4 DEF OpenConns
<1>4. QED
  BY <1>1, <1>2, <1>3, SameCardinality DEF Sessions!OpenFor

(* Drop keeps the session open, unless the database is in memory. *)
LEMMA SessionCheckIn ==
  ASSUME PoolInv, NEW r \in Req, GiveBack(r)
  PROVE  Sessions!CheckIn(r)
<1> USE DEF PoolInv, ConnInv
<1>1. /\ lease[r] = "held"
      /\ conn' = [conn EXCEPT ![r] = NoConn]
      /\ idle' \in {idle, Append(idle, Returned(r))}
  BY DEF GiveBack, GiveBackInto, Advance
<1>2. conn[r] \in Conn /\ conn[r] # NoConn
  BY <1>1, PoolAssumption DEF HoldersHold, ConnTypeOK
<1>3. HeldConns' = HeldConns \ {conn[r]} /\ conn[r] \in HeldConns
  <2>1. \A q \in Req : conn'[q] = IF q = r THEN NoConn ELSE conn[q]
    BY <1>1 DEF ConnTypeOK
  <2>2. \A q \in Req : conn[q] = conn[r] => q = r
    BY <1>2 DEF ExclusiveCheckout
  <2>3. QED
    BY <1>2, <2>1, <2>2 DEF HeldConns
<1>4. conn[r] \notin IdleConns
  BY DEF IdleConns, ExclusiveCheckout
<1>5. CASE idle' = idle
  <2>1. OpenConns' = OpenConns \ {conn[r]}
    BY <1>3, <1>4, <1>5 DEF OpenConns, IdleConns
  <2>2. QED
    BY <1>1, <1>2, <2>1 DEF Sessions!CheckIn
<1>6. CASE idle' = Append(idle, Returned(r))
  <2> DEFINE n == Len(idle)
  <2>1. Returned(r) \in PooledConnection /\ Returned(r).conn = conn[r]
    BY <1>2 DEF Returned, PooledConnection, ConnTypeOK
  <2>2. /\ n \in Nat
        /\ Len(idle') = n + 1
        /\ \A i \in 1..n : idle'[i] = idle[i]
        /\ idle'[n + 1].conn = conn[r]
    BY <1>6, <2>1, AppendProperties, LenProperties DEF ConnTypeOK
  <2>3. 1..n + 1 = 1..n \cup {n + 1}
    BY <2>2
  <2>4. IdleConns' = IdleConns \cup {conn[r]}
    BY <2>2, <2>3 DEF IdleConns
  <2>5. OpenConns' = OpenConns
    BY <1>3, <2>4 DEF OpenConns
  <2>6. QED
    BY <1>1, <1>2, <2>5 DEF Sessions!CheckIn
<1>7. QED
  BY <1>1, <1>5, <1>6

(* Every step of the pool is one of SessionPool or leaves it unchanged. *)
LEMMA SessionStep ==
  PoolInv /\ [PoolNext]_poolVars => [Sessions!Next]_(Sessions!sessionVars)
<1> SUFFICES ASSUME PoolInv, [PoolNext]_poolVars
             PROVE  [Sessions!Next]_(Sessions!sessionVars)
  OBVIOUS
<1>1. ASSUME NEW r \in Req, PopIdle(r) PROVE Sessions!Next
  BY <1>1, SessionCheckOut DEF Sessions!Next
<1>2. ASSUME NEW r \in Req, FindNone(r) PROVE Sessions!Next
  BY <1>2, SessionSweep DEF Sessions!Next
<1>3. ASSUME NEW r \in Req, NEW c \in Conn, Open(r, c) PROVE Sessions!Next
  BY <1>3, SessionOpenFor DEF Sessions!Next
<1>4. ASSUME NEW r \in Req, GiveBack(r) PROVE Sessions!Next
  BY <1>4, SessionCheckIn DEF Sessions!Next
<1>5. ASSUME NEW r \in Req,
             \/ Acquire(r) \/ Enqueue(r) \/ Timeout(r) \/ CancelGet(r)
             \/ Release(r) \/ OpenFails(r)
      PROVE  UNCHANGED Sessions!sessionVars
  BY <1>5, SessionStutter DEF Acquire, Enqueue, Timeout, CancelGet, Release, OpenFails, connVars
<1>6. CASE Tick \/ UNCHANGED poolVars
  BY <1>6, SessionStutter DEF Tick, poolVars, connVars
<1>7. QED
  BY <1>1, <1>2, <1>3, <1>4, <1>5, <1>6 DEF PoolNext, Progress

(* Seen from its callers, the pool hands out at most                       *)
(* max(min_connections, max_connections) sessions, each to one caller, and *)
(* a sweep never closes a connection somebody owns.                        *)
THEOREM PoolImplementsSessionPool == PoolSpec => ImplementsSessionPool
<1>1. PoolInit => Sessions!Init
  BY SessionInit
<1>2. PoolInv /\ [PoolNext]_poolVars => [Sessions!Next]_(Sessions!sessionVars)
  BY SessionStep
<1>3. QED
  BY <1>1, <1>2, PoolInvariant, PTL DEF PoolSpec, ImplementsSessionPool, Sessions!Spec

---------------------------------------------------------------------------
(* The engine *)

Job == [req : Req, by : {"call", "guard", "stash"}, op : Sql]

CallTypeOK ==
  /\ pc \in [Req -> Where]
  /\ reply \in [Req -> {"none", "ok", "err"}]
  /\ result \in [Req -> {"none", "done", "ok", "err", "lost"}]
  /\ session \in [Conn -> Req \cup {NoTx, Leaked}]
  /\ committed \in SUBSET (Req \cup {Leaked})
  /\ chan \in [Conn -> Seq(Job)]
  /\ guard \in [Req -> {"none", "armed"} \cup Conn]
  /\ stash \in SUBSET Req

(* Calls that await a statement, with the statement they await. *)
Awaits(r, op) ==
  \/ pc[r] \in {"query", "stmt"} /\ op = "STMT"
  \/ pc[r] = "begin" /\ op = "BEGIN"
  \/ pc[r] = "commit" /\ op = "COMMIT"
  \/ pc[r] = "undo" /\ op = "ROLLBACK"

(* Calls that are past get. *)
Live(r) == pc[r] \in {"query", "begin", "body", "stmt", "commit", "undo"}

LiveCallsHold == \A r \in Req : Live(r) => lease[r] = "held"

(* A call has at most one answer to look at, and only while it awaits one. *)
RepliesAwaited ==
  \A r \in Req : reply[r] # "none" => pc[r] \in {"query", "begin", "stmt", "commit", "undo"}

(* What the thread of c has not run yet: guards send ROLLBACK, stashed     *)
(* engines send statements, and a statement of a call is the one that call *)
(* awaits on this very connection, unless its future was dropped.          *)
JobsKnown ==
  \A c \in Conn : \A j \in JobsOf(c) :
    /\ j.by = "guard" => j.op = "ROLLBACK"
    /\ j.by = "stash" => j.op = "STMT"
    /\ j.by = "call" =>
         \/ MayCancel /\ pc[j.req] = "ended"
         \/ conn[j.req] = c /\ reply[j.req] = "none" /\ Awaits(j.req, j.op)

(* Behind the statement of a live call no other call has sent anything.    *)
LastInLine ==
  \A r \in Req : Live(r) =>
    \A i, k \in 1..Len(chan[conn[r]]) :
      chan[conn[r]][i].req = r /\ chan[conn[r]][i].by = "call" /\ i < k
        => chan[conn[r]][k].by # "call"

(* The BEGIN of r succeeded and r has not come to an end. *)
Inside(r) ==
  \/ pc[r] \in {"body", "stmt", "commit", "undo"}
  \/ pc[r] = "begin" /\ reply[r] = "ok"

(* Then everything that former users of its connection had sent has run:   *)
(* the connection is in the transaction of r, unless it was ended.         *)
InsideAlone ==
  \A r \in Req : Inside(r) =>
    /\ session[conn[r]] \in {r, NoTx}
    /\ \A j \in JobsOf(conn[r]) : j.by = "call" => j.req = r

(* A COMMIT that answered Ok to its call committed that call.              *)
CommitAnswered == \A r \in Req : pc[r] = "commit" /\ reply[r] = "ok" => r \in committed

CallInv ==
  /\ CallTypeOK
  /\ LiveCallsHold
  /\ RepliesAwaited
  /\ JobsKnown
  /\ LastInLine
  /\ InsideAlone
  /\ CommitAnswered
  /\ OkMeansCommitted

EngineInv == PoolInv /\ CallInv

(* The guard is armed from BEGIN to the end of the call, and its task is   *)
(* spawned by that end.                                                    *)
GuardKnown ==
  \A r \in Req :
    /\ pc[r] \in {"body", "stmt", "commit", "undo"} => guard[r] = "armed"
    /\ guard[r] \in Conn => pc[r] = "ended"

(* The transaction of r may still be open, with r to end it.               *)
Owning(r) ==
  \/ pc[r] \in {"body", "stmt"}
  \/ pc[r] = "begin" /\ reply[r] = "ok"
  \/ pc[r] = "commit" /\ reply[r] # "ok"
  \/ pc[r] = "undo" /\ reply[r] = "none"

(* Whatever opened the transaction a connection is in, somebody will end   *)
(* it: the call that holds the connection or the guard of a former one.    *)
EndInSight ==
  \A c \in Conn :
    session[c] # NoTx => RollbackPending(c) \/ \E r \in Req : conn[r] = c /\ Owning(r)

GuardInv == GuardKnown /\ EndInSight

---------------------------------------------------------------------------
(* The pool below the engine *)

(* An engine that starts has a pool that starts, and each of its steps is  *)
(* a step of the pool or does not touch it.                                *)
LEMMA EnginePoolStep == [EngineNext]_engineVars => [PoolNext]_poolVars
<1> SUFFICES ASSUME [EngineNext]_engineVars PROVE [PoolNext]_poolVars
  OBVIOUS
<1>1. ASSUME NEW r \in Req, Start(r) PROVE PoolNext
  BY <1>1 DEF Start, PoolNext
<1>2. ASSUME NEW r \in Req, GetTimesOut(r) PROVE PoolNext
  BY <1>2 DEF GetTimesOut, PoolNext
<1>3. ASSUME NEW r \in Req, Get(r) PROVE PoolNext
  BY <1>3 DEF Get, GetFindsNone, GetCannotOpen, GetPops, GetOpens, PoolNext, Progress
<1>4. ASSUME NEW r \in Req, Resume(r) PROVE UNCHANGED poolVars
  BY <1>4 DEF Resume, QueryReturns, Began, BeginFailed, Sent, CommitReturns, CommitFails,
     UndoReturns
<1>5. ASSUME NEW r \in Req,
             Body(r) \/ LeaveBody(r) \/ GuardSends(r) \/ StashSends(r)
              \/ StashDropped(r) \/ Reuse(r)
      PROVE  UNCHANGED poolVars
  BY <1>5 DEF Body, Send, Stash, LeaveBody, ReturnOk, ReturnErr, ReturnFromBody, Panic,
     GuardSends, StashSends, StashDropped, Reuse
<1>6. ASSUME NEW r \in Req, Cancel(r) PROVE [PoolNext]_poolVars
  BY <1>6 DEF Cancel, CancelWaiting, CancelUnguarded, CancelGuarded, PoolNext
<1>7. ASSUME NEW r \in Req, HandBack(r) \/ FreePermit(r) PROVE PoolNext
  BY <1>7 DEF HandBack, FreePermit, PoolNext, Progress
<1>8. ASSUME NEW c \in Conn, RunNext(c) PROVE UNCHANGED poolVars
  BY <1>8 DEF RunNext
<1>9. CASE TimePasses
  BY <1>9 DEF TimePasses, PoolNext
<1>10. CASE UNCHANGED engineVars
  BY <1>10 DEF engineVars
<1>11. QED
  BY <1>1, <1>2, <1>3, <1>4, <1>5, <1>6, <1>7, <1>8, <1>9, <1>10 DEF EngineNext

(* With panics, dropped calls and stashed engines, the engine uses the     *)
(* pool only in ways the pool allows.                                      *)
THEOREM EngineUsesPool == EngineSpec => UsesPool
<1>1. EngineInit => PoolInit
  BY DEF EngineInit
<1>2. [EngineNext]_engineVars => [PoolNext]_poolVars
  BY EnginePoolStep
<1>3. QED
  BY <1>1, <1>2, PTL DEF EngineSpec, UsesPool, PoolSpec

(* So that everything proved of the pool holds below the engine. *)
LEMMA EnginePoolInv == EngineSpec => []PoolInv
BY EngineUsesPool, PoolInvariant, PTL DEF UsesPool

---------------------------------------------------------------------------
(* The channels of the connections *)

(* What lies in a channel is a job. *)
LEMMA JobTypes ==
  ASSUME CallTypeOK, NEW c \in Conn, NEW j \in JobsOf(c)
  PROVE  /\ j \in Job
         /\ j.req \in Req
         /\ j.by \in {"call", "guard", "stash"}
         /\ j.op \in Sql
<1>1. PICK i \in 1..Len(chan[c]) : j = chan[c][i]
  BY DEF JobsOf
<1>2. chan[c] \in Seq(Job)
  BY DEF CallTypeOK
<1>3. j \in Job
  BY <1>1, <1>2, ElementOfSeq
<1>4. QED
  BY <1>3 DEF Job

(* A job is sent: it is the last one of its channel. *)
LEMMA PostFacts ==
  ASSUME CallTypeOK, NEW r \in Req, NEW by \in {"call", "guard", "stash"}, NEW op \in Sql,
         NEW c \in Conn, Post(r, by, op, c)
  PROVE  /\ chan' \in [Conn -> Seq(Job)]
         /\ \A d \in Conn \ {c} : chan'[d] = chan[d] /\ JobsOf(d)' = JobsOf(d)
         /\ Len(chan[c]) \in Nat
         /\ Len(chan'[c]) = Len(chan[c]) + 1
         /\ \A i \in 1..Len(chan[c]) : chan'[c][i] = chan[c][i]
         /\ chan'[c][Len(chan[c]) + 1] = [req |-> r, by |-> by, op |-> op]
         /\ JobsOf(c)' = JobsOf(c) \cup {[req |-> r, by |-> by, op |-> op]}
<1> DEFINE j == [req |-> r, by |-> by, op |-> op]
           q == chan[c]
<1>1. j \in Job /\ q \in Seq(Job)
  BY DEF Job, CallTypeOK
<1>2. chan' = [chan EXCEPT ![c] = Append(q, j)]
  BY DEF Post
<1> HIDE DEF j
<1>3. /\ Append(q, j) \in Seq(Job)
      /\ Len(q) \in Nat
      /\ Len(Append(q, j)) = Len(q) + 1
      /\ \A i \in 1..Len(q) : Append(q, j)[i] = q[i]
      /\ Append(q, j)[Len(q) + 1] = j
  BY <1>1, AppendProperties, LenProperties
<1>4. /\ chan' \in [Conn -> Seq(Job)]
      /\ \A d \in Conn : chan'[d] = IF d = c THEN Append(q, j) ELSE chan[d]
  BY <1>2, <1>3 DEF CallTypeOK
<1>5. \A d \in Conn \ {c} : JobsOf(d)' = JobsOf(d)
  BY <1>4 DEF JobsOf
<1>6. JobsOf(c)' = JobsOf(c) \cup {j}
  <2>1. 1..Len(q) + 1 = 1..Len(q) \cup {Len(q) + 1}
    BY <1>3
  <2>2. JobsOf(c)' = {Append(q, j)[i] : i \in 1..Len(q) + 1}
    BY <1>3, <1>4 DEF JobsOf
  <2>3. JobsOf(c) = {q[i] : i \in 1..Len(q)}
    BY DEF JobsOf
  <2> HIDE DEF q
  <2>4. QED
    BY <1>3, <2>1, <2>2, <2>3
<1>7. QED
  BY <1>3, <1>4, <1>5, <1>6 DEF j

(* ... and nothing is taken out. *)
LEMMA PostGrows ==
  ASSUME CallTypeOK, NEW r \in Req, NEW by \in {"call", "guard", "stash"}, NEW op \in Sql,
         NEW c \in Conn, Post(r, by, op, c)
  PROVE  /\ \A d \in Conn : \A j \in JobsOf(d) : j \in JobsOf(d)'
         /\ [req |-> r, by |-> by, op |-> op] \in JobsOf(c)'
<1>1. /\ chan' \in [Conn -> Seq(Job)]
      /\ \A d \in Conn \ {c} : chan'[d] = chan[d] /\ JobsOf(d)' = JobsOf(d)
      /\ Len(chan[c]) \in Nat
      /\ Len(chan'[c]) = Len(chan[c]) + 1
      /\ \A i \in 1..Len(chan[c]) : chan'[c][i] = chan[c][i]
      /\ chan'[c][Len(chan[c]) + 1] = [req |-> r, by |-> by, op |-> op]
      /\ JobsOf(c)' = JobsOf(c) \cup {[req |-> r, by |-> by, op |-> op]}
  BY PostFacts
<1>2. JobsOf(c)' = JobsOf(c) \cup {[req |-> r, by |-> by, op |-> op]}
  BY <1>1
<1>3. ASSUME NEW d \in Conn, NEW j \in JobsOf(d)
      PROVE  j \in JobsOf(d)'
  <2>1. CASE d = c
    BY <1>2, <2>1
  <2>2. CASE d # c
    BY <1>1, <2>2
  <2>3. QED
    BY <2>1, <2>2
<1>4. QED
  BY <1>2, <1>3

(* The first job of a channel is taken out. *)
LEMMA TakeFacts ==
  ASSUME CallTypeOK, NEW c \in Conn, chan[c] # <<>>, chan' = [chan EXCEPT ![c] = Tail(@)]
  PROVE  /\ chan' \in [Conn -> Seq(Job)]
         /\ \A d \in Conn \ {c} : chan'[d] = chan[d] /\ JobsOf(d)' = JobsOf(d)
         /\ Head(chan[c]) \in JobsOf(c)
         /\ Head(chan[c]) = chan[c][1]
         /\ Len(chan[c]) \in Nat \ {0}
         /\ Len(chan'[c]) = Len(chan[c]) - 1
         /\ \A i \in 1..Len(chan'[c]) : i + 1 \in 1..Len(chan[c]) /\ chan'[c][i] = chan[c][i + 1]
         /\ JobsOf(c)' \subseteq JobsOf(c)
         /\ \A j \in JobsOf(c) : j = chan[c][1] \/ j \in JobsOf(c)'
<1> DEFINE q == chan[c]
<1>1. q \in Seq(Job) /\ q # <<>>
  BY DEF CallTypeOK
<1>2. /\ Head(q) = q[1]
      /\ Tail(q) \in Seq(Job)
      /\ Len(q) \in Nat \ {0}
      /\ Len(Tail(q)) = Len(q) - 1
      /\ \A i \in 1..Len(Tail(q)) : Tail(q)[i] = q[i + 1]
  BY <1>1, HeadTailProperties, EmptySeq
<1>3. /\ chan' \in [Conn -> Seq(Job)]
      /\ \A d \in Conn : chan'[d] = IF d = c THEN Tail(q) ELSE chan[d]
  BY <1>2 DEF CallTypeOK
<1>4. \A d \in Conn \ {c} : JobsOf(d)' = JobsOf(d)
  BY <1>3 DEF JobsOf
<1>5. \A i \in 1..Len(chan'[c]) : i + 1 \in 1..Len(q) /\ chan'[c][i] = q[i + 1]
  BY <1>2, <1>3
<1>6. JobsOf(c)' \subseteq JobsOf(c)
  BY <1>5 DEF JobsOf
<1>7. Head(q) \in JobsOf(c)
  BY <1>2 DEF JobsOf
<1>8. ASSUME NEW j \in JobsOf(c), j # chan[c][1]
      PROVE  j \in JobsOf(c)'
  <2>1. PICK i \in 1..Len(q) : j = q[i]
    BY DEF JobsOf
  <2>2. i - 1 \in 1..Len(chan'[c]) /\ i - 1 + 1 = i
    BY <1>2, <1>3, <1>8, <2>1
  <2>3. j = chan'[c][i - 1]
    BY <1>5, <2>1, <2>2
  <2>4. QED
    BY <2>2, <2>3 DEF JobsOf
<1>9. QED
  BY <1>2, <1>3, <1>4, <1>5, <1>6, <1>7, <1>8

(* What a statement can do to the transaction of the session it runs in.   *)
LEMMA OutcomeFacts ==
  ASSUME NEW op \in Sql, NEW r, NEW s, NEW o \in Outcomes(op, r, s)
  PROVE  /\ o[1] \in {"ok", "err"}
         /\ op = "STMT" => o[2] = s
         /\ op = "BEGIN" => \/ o[1] = "ok" /\ s = NoTx /\ o[2] = r
                            \/ o[1] = "err" /\ o[2] = s
         /\ op = "COMMIT" => \/ o[1] = "ok" /\ s # NoTx /\ o[2] = NoTx
                             \/ o[1] = "err" /\ o[2] \in {s, NoTx}
         /\ op = "ROLLBACK" => o[2] \in {s, NoTx}
         /\ op = "ROLLBACK" /\ "ROLLBACK" \notin Failing => o[2] = NoTx
<1>1. CASE op = "STMT"
  BY <1>1 DEF Outcomes
<1>2. CASE op = "BEGIN"
  BY <1>2 DEF Outcomes
<1>3. CASE op = "COMMIT"
  BY <1>3 DEF Outcomes
<1>4. CASE op = "ROLLBACK"
  BY <1>4 DEF Outcomes
<1>5. QED
  BY <1>1, <1>2, <1>3, <1>4 DEF Sql

(* A call that awaits nothing, or has its answer, has sent nothing that    *)
(* was not run.                                                            *)
LEMMA NothingSent ==
  ASSUME EngineInv, NEW r \in Req, pc[r] # "ended",
         reply[r] # "none" \/ pc[r] \in {"idle", "getQuery", "getTx", "body"}
  PROVE  \A c \in Conn : \A j \in JobsOf(c) : j.by = "call" => j.req # r
BY DEF EngineInv, CallInv, JobsKnown, Awaits

(* A live call has a connection, which no other request has.               *)
LEMMA LiveConn ==
  ASSUME EngineInv, NEW r \in Req, Live(r)
  PROVE  /\ conn[r] \in Conn
         /\ conn[r] # NoConn
         /\ \A q \in Req : conn[q] = conn[r] => q = r
<1>1. conn[r] # NoConn
  BY DEF EngineInv, CallInv, LiveCallsHold, PoolInv, ConnInv, HoldersHold
<1>2. conn[r] \in Conn
  BY <1>1 DEF EngineInv, PoolInv, ConnInv, ConnTypeOK
<1>3. QED
  BY <1>1, <1>2 DEF EngineInv, PoolInv, ConnInv, ExclusiveCheckout

---------------------------------------------------------------------------
(* The steps of the engine preserve CallInv.  PoolInv' is known of each.   *)

(* At the start nobody has called. *)
LEMMA CallInitInv == EngineInit => CallInv
<1> SUFFICES ASSUME EngineInit PROVE CallInv
  OBVIOUS
<1> USE DEF EngineInit, CallInit
<1>1. CallTypeOK
  BY DEF CallTypeOK, Where
<1>2. \A r \in Req : ~ Live(r) /\ ~ Inside(r)
  BY DEF Live, Inside
<1>3. \A c \in Conn : JobsOf(c) = {}
  BY DEF JobsOf
<1>4. QED
  BY <1>1, <1>2, <1>3 DEF CallInv, LiveCallsHold, RepliesAwaited, JobsKnown, LastInLine,
     InsideAlone, CommitAnswered, OkMeansCommitted

(* The state of the calls and of the sessions stays as it is, and so does  *)
(* the connection of every call that is past get.                          *)
LEMMA QuietInv ==
  ASSUME EngineInv, PoolInv', UNCHANGED <<callVars, dbVars>>,
         guard' \in [Req -> {"none", "armed"} \cup Conn], stash' \in SUBSET Req,
         \A q \in Req : Live(q) => conn'[q] = conn[q]
  PROVE  CallInv'
<1> USE DEF EngineInv, CallInv, callVars, dbVars
<1>1. CallTypeOK'
  BY DEF CallTypeOK
<1>2. \A c \in Conn : JobsOf(c)' = JobsOf(c)
  BY DEF JobsOf
<1>3. \A q \in Req : /\ Live(q)' <=> Live(q)
                     /\ Inside(q)' <=> Inside(q)
                     /\ Inside(q) => Live(q)
                     /\ \A op : /\ Awaits(q, op)' <=> Awaits(q, op)
                                /\ Awaits(q, op) => Live(q)
  BY DEF Live, Inside, Awaits
<1>4. LiveCallsHold'
  <2>1. \A q \in Req : Live(q) => conn'[q] # NoConn
    BY LiveConn
  <2>2. QED
    BY <1>3, <2>1 DEF LiveCallsHold, PoolInv, ConnInv, HoldersHold
<1>5. JobsKnown'
  BY <1>2, <1>3, JobTypes DEF JobsKnown
<1>6. LastInLine'
  BY <1>3 DEF LastInLine
<1>7. InsideAlone'
  BY <1>2, <1>3, LiveConn DEF InsideAlone
<1>8. QED
  BY <1>1, <1>4, <1>5, <1>6, <1>7 DEF RepliesAwaited, CommitAnswered, OkMeansCommitted

(* The call of r ends: with Ok only if it was committed, and with a        *)
(* statement of its own under way only if its future was dropped.          *)
LEMMA FinishInv ==
  ASSUME EngineInv, PoolInv', NEW r \in Req, NEW v \in {"done", "ok", "err", "lost"},
         Finish(r, v), v = "ok" => r \in committed,
         UNCHANGED <<conn, stash, dbVars>>,
         guard' \in [Req -> {"none", "armed"} \cup Conn],
         MayCancel \/ \A c \in Conn : \A j \in JobsOf(c) : j.by = "call" => j.req # r
  PROVE  CallInv'
<1> USE DEF EngineInv, CallInv, dbVars
<1>1. /\ \A q \in Req : /\ pc'[q] = IF q = r THEN "ended" ELSE pc[q]
                        /\ reply'[q] = IF q = r THEN "none" ELSE reply[q]
                        /\ result'[q] = IF q = r THEN v ELSE result[q]
      /\ CallTypeOK'
  BY DEF Finish, CallTypeOK, Where
<1>2. \A c \in Conn : JobsOf(c)' = JobsOf(c)
  BY DEF JobsOf
<1>3. \A q \in Req : /\ Live(q)' => Live(q) /\ q # r
                     /\ Inside(q)' => Inside(q) /\ q # r
                     /\ \A op : Awaits(q, op) /\ q # r => Awaits(q, op)'
  BY <1>1 DEF Live, Inside, Awaits
<1>4. LiveCallsHold'
  <2>1. \A q \in Req : Live(q) => conn'[q] # NoConn
    BY LiveConn
  <2>2. QED
    BY <1>3, <2>1 DEF LiveCallsHold, PoolInv, ConnInv, HoldersHold
<1>5. RepliesAwaited'
  BY <1>1 DEF RepliesAwaited
<1>6. JobsKnown'
  <2>1. ASSUME NEW c \in Conn, NEW j \in JobsOf(c), j.by = "call"
        PROVE  \/ MayCancel /\ pc'[j.req] = "ended"
               \/ conn'[j.req] = c /\ reply'[j.req] = "none" /\ Awaits(j.req, j.op)'
    <3>1. j.req \in Req
      BY JobTypes
    <3>2. CASE j.req = r
      BY <1>1, <2>1, <3>1, <3>2
    <3>3. CASE j.req # r
      BY <1>1, <1>3, <2>1, <3>1, <3>3 DEF JobsKnown
    <3>4. QED
      BY <3>2, <3>3
  <2>2. QED
    BY <1>2, <2>1 DEF JobsKnown
<1>7. LastInLine'
  BY <1>3 DEF LastInLine
<1>8. InsideAlone'
  BY <1>2, <1>3, LiveConn DEF InsideAlone, Inside, Live
<1>9. CommitAnswered' /\ OkMeansCommitted'
  BY <1>1 DEF CommitAnswered, OkMeansCommitted
<1>10. QED
  BY <1>1, <1>4, <1>5, <1>6, <1>7, <1>8, <1>9

(* The call of r, which has nothing under way, goes on to wait for the     *)
(* pool, or into the closure once its BEGIN has succeeded.                 *)
LEMMA MoveInv ==
  ASSUME EngineInv, PoolInv', NEW r \in Req, NEW to \in {"getQuery", "getTx", "body"},
         pc[r] # "ended",
         pc' = [pc EXCEPT ![r] = to],
         reply' = [reply EXCEPT ![r] = "none"],
         UNCHANGED <<result, conn, stash, dbVars>>,
         guard' \in [Req -> {"none", "armed"} \cup Conn],
         reply[r] # "none" \/ pc[r] \in {"idle", "getQuery", "getTx", "body"},
         to = "body" => Inside(r)
  PROVE  CallInv'
<1> USE DEF EngineInv, CallInv, dbVars
<1>1. /\ \A q \in Req : /\ pc'[q] = IF q = r THEN to ELSE pc[q]
                        /\ reply'[q] = IF q = r THEN "none" ELSE reply[q]
      /\ CallTypeOK'
  BY DEF CallTypeOK, Where
<1>2. \A c \in Conn : JobsOf(c)' = JobsOf(c)
  BY DEF JobsOf
<1>3. \A q \in Req : /\ Live(q)' => Live(q)
                     /\ Inside(q)' => Inside(q)
                     /\ \A op : Awaits(q, op) /\ q # r => Awaits(q, op)'
  BY <1>1 DEF Live, Inside, Awaits
<1>4. LiveCallsHold'
  <2>1. \A q \in Req : Live(q) => conn'[q] # NoConn
    BY LiveConn
  <2>2. QED
    BY <1>3, <2>1 DEF LiveCallsHold, PoolInv, ConnInv, HoldersHold
<1>5. RepliesAwaited'
  BY <1>1 DEF RepliesAwaited
<1>6. JobsKnown'
  <2>1. ASSUME NEW c \in Conn, NEW j \in JobsOf(c), j.by = "call"
        PROVE  \/ MayCancel /\ pc'[j.req] = "ended"
               \/ conn'[j.req] = c /\ reply'[j.req] = "none" /\ Awaits(j.req, j.op)'
    <3>1. j.req \in Req /\ j.req # r
      BY <2>1, JobTypes, NothingSent
    <3>2. QED
      BY <1>1, <1>3, <2>1, <3>1 DEF JobsKnown
  <2>2. QED
    BY <1>2, <2>1 DEF JobsKnown
<1>7. LastInLine'
  BY <1>3 DEF LastInLine
<1>8. InsideAlone'
  BY <1>2, <1>3, LiveConn DEF InsideAlone, Inside, Live
<1>9. CommitAnswered' /\ OkMeansCommitted'
  BY <1>1 DEF CommitAnswered, OkMeansCommitted
<1>10. QED
  BY <1>1, <1>4, <1>5, <1>6, <1>7, <1>8, <1>9

(* The closure of r sends a statement, or its end does. *)
LEMMA SendInv ==
  ASSUME EngineInv, PoolInv', NEW r \in Req,
         NEW to \in {"stmt", "commit", "undo"}, NEW op \in Sql,
         to = "stmt" => op = "STMT",
         to = "commit" => op = "COMMIT",
         to = "undo" => op = "ROLLBACK",
         Goto(r, "body", to), Post(r, "call", op, conn[r]),
         UNCHANGED <<reply, result, conn, guard, stash, session, committed>>
  PROVE  CallInv'
<1> USE DEF EngineInv, CallInv
<1> DEFINE job == [req |-> r, by |-> "call", op |-> op]
<1>1. /\ pc[r] = "body"
      /\ \A q \in Req : pc'[q] = IF q = r THEN to ELSE pc[q]
      /\ pc' \in [Req -> Where]
  BY DEF Goto, CallTypeOK, Where
<1>2. Live(r) /\ Inside(r) /\ reply[r] = "none"
  BY <1>1 DEF Live, Inside, RepliesAwaited, CallTypeOK
<1>3. PICK c \in Conn : c = conn[r]
  BY <1>2, LiveConn
<1>4. Post(r, "call", op, c) /\ \A q \in Req : conn[q] = c => q = r
  BY <1>2, <1>3, LiveConn
<1>5. /\ chan' \in [Conn -> Seq(Job)]
      /\ \A d \in Conn \ {c} : chan'[d] = chan[d] /\ JobsOf(d)' = JobsOf(d)
      /\ Len(chan[c]) \in Nat
      /\ Len(chan'[c]) = Len(chan[c]) + 1
      /\ \A i \in 1..Len(chan[c]) : chan'[c][i] = chan[c][i]
      /\ chan'[c][Len(chan[c]) + 1] = job
      /\ JobsOf(c)' = JobsOf(c) \cup {job}
  BY <1>4, PostFacts
<1>6. \A d \in Conn : \A j : j \in JobsOf(d)' => j \in JobsOf(d) \/ (d = c /\ j = job)
  BY <1>5
<1> HIDE DEF job
<1>7. CallTypeOK'
  BY <1>1, <1>5 DEF CallTypeOK
<1>8. \A q \in Req : /\ Live(q)' <=> Live(q)
                     /\ Inside(q)' <=> Inside(q)
                     /\ \A o : Awaits(q, o) /\ q # r => Awaits(q, o)'
  BY <1>1 DEF Live, Inside, Awaits
<1>9. LiveCallsHold'
  <2>1. \A q \in Req : Live(q) => conn'[q] # NoConn
    BY LiveConn
  <2>2. QED
    BY <1>8, <2>1 DEF LiveCallsHold, PoolInv, ConnInv, HoldersHold
<1>10. RepliesAwaited' /\ CommitAnswered' /\ OkMeansCommitted'
  BY <1>1, <1>2 DEF RepliesAwaited, CommitAnswered, OkMeansCommitted
<1>11. \A d \in Conn : \A j \in JobsOf(d) : j.by = "call" => j.req # r
  BY <1>1, NothingSent
<1>12. JobsKnown'
  <2>1. ASSUME NEW d \in Conn, NEW j, j \in JobsOf(d)', j.by = "call"
        PROVE  \/ MayCancel /\ pc'[j.req] = "ended"
               \/ conn'[j.req] = d /\ reply'[j.req] = "none" /\ Awaits(j.req, j.op)'
    <3>1. CASE d = c /\ j = job
      <4>1. Awaits(r, op)'
        BY <1>1 DEF Awaits
      <4>2. QED
        BY <1>2, <1>3, <3>1, <4>1 DEF job
    <3>2. CASE j \in JobsOf(d)
      <4>1. j.req \in Req /\ j.req # r
        BY <1>11, <2>1, <3>2, JobTypes
      <4>2. QED
        BY <1>1, <1>8, <2>1, <3>2, <4>1 DEF JobsKnown
    <3>3. QED
      BY <1>6, <2>1, <3>1, <3>2
  <2>2. ASSUME NEW d \in Conn, NEW j, j \in JobsOf(d)'
        PROVE  /\ j.by = "guard" => j.op = "ROLLBACK"
               /\ j.by = "stash" => j.op = "STMT"
    BY <1>6, <2>2 DEF JobsKnown, job
  <2>3. QED
    BY <2>1, <2>2 DEF JobsKnown
<1>13. LastInLine'
  <2>1. ASSUME NEW q \in Req, Live(q)', q # r
        PROVE  conn[q] \in Conn \ {c}
    BY <1>8, <1>4, <2>1, LiveConn
  <2>2. \A i \in 1..Len(chan[c]) : chan[c][i].req # r \/ chan[c][i].by # "call"
    BY <1>11 DEF JobsOf
  <2>3. ASSUME NEW i \in 1..Len(chan'[c]), NEW k \in 1..Len(chan'[c]), i < k
        PROVE  ~(chan'[c][i].req = r /\ chan'[c][i].by = "call")
    <3>1. i \in 1..Len(chan[c])
      BY <1>5, <2>3
    <3>2. chan'[c][i] = chan[c][i]
      BY <1>5, <3>1
    <3>3. QED
      BY <2>2, <3>1, <3>2
  <2>4. ASSUME NEW q \in Req, Live(q)'
        PROVE  \A i, k \in 1..Len(chan'[conn'[q]]) :
                 chan'[conn'[q]][i].req = q /\ chan'[conn'[q]][i].by = "call" /\ i < k
                   => chan'[conn'[q]][k].by # "call"
    <3>1. CASE q = r
      BY <1>3, <2>3, <3>1
    <3>2. CASE q # r
      BY <1>5, <1>8, <2>1, <2>4, <3>2 DEF LastInLine
    <3>3. QED
      BY <3>1, <3>2
  <2>5. QED
    BY <2>4 DEF LastInLine
<1>14. InsideAlone'
  <2>1. ASSUME NEW q \in Req, Inside(q)', NEW j, j \in JobsOf(conn[q])', j.by = "call"
        PROVE  j.req = q
    <3>1. Inside(q) /\ conn[q] \in Conn
      BY <1>8, <2>1, LiveConn DEF Inside, Live
    <3>2. CASE j \in JobsOf(conn[q])
      BY <2>1, <3>1, <3>2 DEF InsideAlone
    <3>3. CASE conn[q] = c /\ j = job
      BY <1>4, <2>1, <3>3 DEF job
    <3>4. QED
      BY <1>6, <2>1, <3>1, <3>2, <3>3
  <2>2. QED
    BY <1>8, <2>1 DEF InsideAlone
<1>15. QED
  BY <1>7, <1>9, <1>10, <1>12, <1>13, <1>14

(* A guard or a stashed engine sends something. *)
LEMMA PostBesideInv ==
  ASSUME EngineInv, PoolInv', NEW r \in Req, NEW c \in Conn,
         NEW by \in {"guard", "stash"}, NEW op \in Sql,
         by = "guard" => op = "ROLLBACK",
         by = "stash" => op = "STMT",
         Post(r, by, op, c),
         UNCHANGED <<callVars, conn, stash, session, committed>>,
         guard' \in [Req -> {"none", "armed"} \cup Conn]
  PROVE  CallInv'
<1> USE DEF EngineInv, CallInv, callVars
<1> DEFINE job == [req |-> r, by |-> by, op |-> op]
<1>1. /\ chan' \in [Conn -> Seq(Job)]
      /\ \A d \in Conn \ {c} : chan'[d] = chan[d] /\ JobsOf(d)' = JobsOf(d)
      /\ Len(chan[c]) \in Nat
      /\ Len(chan'[c]) = Len(chan[c]) + 1
      /\ \A i \in 1..Len(chan[c]) : chan'[c][i] = chan[c][i]
      /\ chan'[c][Len(chan[c]) + 1] = job
      /\ JobsOf(c)' = JobsOf(c) \cup {job}
  BY PostFacts
<1>2. job.by = by /\ job.by # "call" /\ job.op = op
  OBVIOUS
<1> HIDE DEF job
<1>3. \A d \in Conn : \A j : j \in JobsOf(d)' => j \in JobsOf(d) \/ (d = c /\ j = job)
  BY <1>1
<1>4. CallTypeOK'
  BY <1>1 DEF CallTypeOK
<1>5. \A q \in Req : /\ Live(q)' <=> Live(q)
                     /\ Inside(q)' <=> Inside(q)
                     /\ Inside(q) => Live(q)
                     /\ \A o : Awaits(q, o)' <=> Awaits(q, o)
  BY DEF Live, Inside, Awaits
<1>6. LiveCallsHold'
  <2>1. \A q \in Req : Live(q) => conn'[q] # NoConn
    BY LiveConn
  <2>2. QED
    BY <1>5, <2>1 DEF LiveCallsHold, PoolInv, ConnInv, HoldersHold
<1>7. JobsKnown'
  <2>1. ASSUME NEW d \in Conn, NEW j, j \in JobsOf(d)'
        PROVE  /\ j.by = "guard" => j.op = "ROLLBACK"
               /\ j.by = "stash" => j.op = "STMT"
               /\ j.by = "call" =>
                    \/ MayCancel /\ pc'[j.req] = "ended"
                    \/ conn'[j.req] = d /\ reply'[j.req] = "none" /\ Awaits(j.req, j.op)'
    <3>1. CASE d = c /\ j = job
      BY <1>2, <3>1
    <3>2. CASE j \in JobsOf(d)
      <4>1. j.req \in Req
        BY <3>2, JobTypes
      <4>2. QED
        BY <1>5, <3>2, <4>1 DEF JobsKnown
    <3>3. QED
      BY <1>3, <2>1, <3>1, <3>2
  <2>2. QED
    BY <2>1 DEF JobsKnown
<1>8. LastInLine'
  <2>1. ASSUME NEW q \in Req, Live(q)
        PROVE  \A i, k \in 1..Len(chan'[conn[q]]) :
                 chan'[conn[q]][i].req = q /\ chan'[conn[q]][i].by = "call" /\ i < k
                   => chan'[conn[q]][k].by # "call"
    <3>1. conn[q] \in Conn
      BY <2>1, LiveConn
    <3>2. CASE conn[q] = c
      <4>1. ASSUME NEW i \in 1..Len(chan'[c]), NEW k \in 1..Len(chan'[c]),
                   chan'[c][i].req = q, chan'[c][i].by = "call", i < k
            PROVE  chan'[c][k].by # "call"
        <5>1. CASE k = Len(chan[c]) + 1
          BY <1>1, <1>2, <5>1
        <5>2. CASE k # Len(chan[c]) + 1
          <6>1. i \in 1..Len(chan[c]) /\ k \in 1..Len(chan[c])
            BY <1>1, <4>1, <5>2
          <6>2. QED
            BY <1>1, <2>1, <3>2, <4>1, <6>1 DEF LastInLine
        <5>3. QED
          BY <5>1, <5>2
      <4>2. QED
        BY <3>2, <4>1
    <3>3. CASE conn[q] # c
      BY <1>1, <2>1, <3>1, <3>3 DEF LastInLine
    <3>4. QED
      BY <3>2, <3>3
  <2>2. QED
    BY <1>5, <2>1 DEF LastInLine
<1>9. InsideAlone'
  <2>1. ASSUME NEW q \in Req, Inside(q), NEW j, j \in JobsOf(conn[q])', j.by = "call"
        PROVE  j.req = q
    <3>1. conn[q] \in Conn
      BY <1>5, <2>1, LiveConn
    <3>2. j \in JobsOf(conn[q])
      BY <1>2, <1>3, <2>1, <3>1
    <3>3. QED
      BY <2>1, <3>2 DEF InsideAlone
  <2>2. QED
    BY <1>5, <2>1 DEF InsideAlone
<1>10. QED
  BY <1>4, <1>6, <1>7, <1>8, <1>9 DEF RepliesAwaited, CommitAnswered, OkMeansCommitted

(* get hands c to the call of r, which sends its first statement: what is  *)
(* already in the channel is not its own.                                  *)
LEMMA FirstStatementInv ==
  ASSUME EngineInv, PoolInv', NEW r \in Req, NEW c \in Conn,
         NEW to \in {"query", "begin"}, NEW op \in Sql,
         to = "query" => op = "STMT",
         to = "begin" => op = "BEGIN",
         pc[r] \in {"getQuery", "getTx"},
         pc' = [pc EXCEPT ![r] = to],
         Post(r, "call", op, c),
         conn' = [conn EXCEPT ![r] = c],
         \A q \in Req : conn[q] # c,
         session' = session \/ session' = [session EXCEPT ![c] = NoTx],
         UNCHANGED <<reply, result, guard, stash, committed>>
  PROVE  CallInv'
<1> USE DEF EngineInv, CallInv
<1> DEFINE job == [req |-> r, by |-> "call", op |-> op]
<1>1. /\ chan' \in [Conn -> Seq(Job)]
      /\ \A d \in Conn \ {c} : chan'[d] = chan[d] /\ JobsOf(d)' = JobsOf(d)
      /\ Len(chan[c]) \in Nat
      /\ Len(chan'[c]) = Len(chan[c]) + 1
      /\ \A i \in 1..Len(chan[c]) : chan'[c][i] = chan[c][i]
      /\ chan'[c][Len(chan[c]) + 1] = job
      /\ JobsOf(c)' = JobsOf(c) \cup {job}
  BY PostFacts
<1>2. job.req = r /\ job.by = "call" /\ job.op = op
  OBVIOUS
<1> HIDE DEF job
<1>3. \A d \in Conn : \A j : j \in JobsOf(d)' => j \in JobsOf(d) \/ (d = c /\ j = job)
  BY <1>1
<1>4. /\ \A q \in Req : pc'[q] = IF q = r THEN to ELSE pc[q]
      /\ pc' \in [Req -> Where]
      /\ \A q \in Req : conn'[q] = IF q = r THEN c ELSE conn[q]
      /\ reply[r] = "none"
  BY DEF CallTypeOK, Where, PoolInv, ConnInv, ConnTypeOK, RepliesAwaited
<1>5. /\ session' \in [Conn -> Req \cup {NoTx, Leaked}]
      /\ \A d \in Conn \ {c} : session'[d] = session[d]
  BY DEF CallTypeOK
<1>6. CallTypeOK'
  BY <1>1, <1>4, <1>5 DEF CallTypeOK
<1>7. \A q \in Req : /\ Live(q)' <=> Live(q) \/ q = r
                     /\ Inside(q)' <=> Inside(q) /\ q # r
                     /\ \A o : Awaits(q, o) /\ q # r => Awaits(q, o)'
  BY <1>4 DEF Live, Inside, Awaits
<1>8. \A q \in Req \ {r} :
        Live(q) => conn'[q] = conn[q] /\ conn[q] \in Conn \ {c} /\ conn[q] # NoConn
  BY <1>4, LiveConn
<1>9. LiveCallsHold'
  <2>1. \A q \in Req : Live(q)' => conn'[q] # NoConn
    BY <1>4, <1>7, <1>8, PoolAssumption
  <2>2. QED
    BY <2>1 DEF LiveCallsHold, PoolInv, ConnInv, HoldersHold
<1>10. RepliesAwaited' /\ CommitAnswered' /\ OkMeansCommitted'
  BY <1>4 DEF RepliesAwaited, CommitAnswered, OkMeansCommitted
<1>11. \A d \in Conn : \A j \in JobsOf(d) : j.by = "call" => j.req # r
  BY NothingSent
<1>12. JobsKnown'
  <2>1. ASSUME NEW d \in Conn, NEW j, j \in JobsOf(d)'
        PROVE  /\ j.by = "guard" => j.op = "ROLLBACK"
               /\ j.by = "stash" => j.op = "STMT"
               /\ j.by = "call" =>
                    \/ MayCancel /\ pc'[j.req] = "ended"
                    \/ conn'[j.req] = d /\ reply'[j.req] = "none" /\ Awaits(j.req, j.op)'
    <3>1. CASE d = c /\ j = job
      <4>1. Awaits(r, op)'
        BY <1>4 DEF Awaits
      <4>2. QED
        BY <1>2, <1>4, <3>1, <4>1
    <3>2. CASE j \in JobsOf(d)
      <4>1. j.req \in Req
        BY <3>2, JobTypes
      <4>2. j.by = "call" => j.req # r
        BY <1>11, <3>2
      <4>3. QED
        BY <1>4, <1>7, <3>2, <4>1, <4>2 DEF JobsKnown
    <3>3. QED
      BY <1>3, <2>1, <3>1, <3>2
  <2>2. QED
    BY <2>1 DEF JobsKnown
<1>13. LastInLine'
  <2>1. ASSUME NEW i \in 1..Len(chan'[c]), NEW k \in 1..Len(chan'[c]), i < k
        PROVE  ~(chan'[c][i].req = r /\ chan'[c][i].by = "call")
    <3>1. i \in 1..Len(chan[c])
      BY <1>1, <2>1
    <3>2. chan'[c][i] = chan[c][i]
      BY <1>1, <3>1
    <3>3. chan[c][i] \in JobsOf(c)
      BY <3>1 DEF JobsOf
    <3>4. QED
      BY <1>11, <3>2, <3>3
  <2>2. ASSUME NEW q \in Req, Live(q)'
        PROVE  \A i, k \in 1..Len(chan'[conn'[q]]) :
                 chan'[conn'[q]][i].req = q /\ chan'[conn'[q]][i].by = "call" /\ i < k
                   => chan'[conn'[q]][k].by # "call"
    <3>1. CASE q = r
      BY <1>4, <2>1, <3>1
    <3>2. CASE q # r
      <4>1. Live(q) /\ conn'[q] = conn[q] /\ chan'[conn[q]] = chan[conn[q]]
        BY <1>1, <1>7, <1>8, <2>2, <3>2
      <4>2. QED
        BY <4>1 DEF LastInLine
    <3>3. QED
      BY <3>1, <3>2
  <2>3. QED
    BY <2>2 DEF LastInLine
<1>14. InsideAlone'
  <2>1. ASSUME NEW q \in Req, Inside(q)'
        PROVE  /\ session'[conn'[q]] \in {q, NoTx}
               /\ \A j : j \in JobsOf(conn[q])' /\ j.by = "call" => j.req = q
               /\ conn'[q] = conn[q]
    <3>1. Inside(q) /\ Live(q) /\ q # r
      BY <1>7, <2>1 DEF Inside, Live
    <3>2. conn'[q] = conn[q] /\ conn[q] \in Conn \ {c}
      BY <1>8, <3>1
    <3>3. /\ session'[conn[q]] = session[conn[q]]
          /\ \A j : j \in JobsOf(conn[q])' => j \in JobsOf(conn[q])
      BY <1>3, <1>5, <3>2
    <3>4. QED
      BY <3>1, <3>2, <3>3 DEF InsideAlone
  <2>2. QED
    BY <2>1 DEF InsideAlone
<1>15. QED
  BY <1>6, <1>9, <1>10, <1>12, <1>13, <1>14

(* The name of a finished call is taken by a new one. *)
LEMMA ReuseInv ==
  ASSUME EngineInv, PoolInv', NEW r \in Req, Reuse(r)
  PROVE  CallInv'
<1> USE DEF EngineInv, CallInv
<1>1. /\ pc[r] = "ended"
      /\ \A q \in Req : /\ pc'[q] = IF q = r THEN "idle" ELSE pc[q]
                        /\ result'[q] = IF q = r THEN "none" ELSE result[q]
      /\ session' = [c \in Conn |-> IF session[c] = r THEN Leaked ELSE session[c]]
      /\ committed' = committed \ {r}
      /\ UNCHANGED <<poolVars, reply, guard, stash, chan>>
      /\ \A c \in Conn : \A j \in JobsOf(c) : j.req # r
  BY DEF Reuse, Forget, Goto, CallTypeOK
<1>2. CallTypeOK'
  BY <1>1 DEF CallTypeOK, Where, Reuse, Forget, Goto
<1>3. \A c \in Conn : JobsOf(c)' = JobsOf(c)
  BY <1>1 DEF JobsOf
<1>4. conn' = conn /\ lease' = lease
  BY <1>1 DEF poolVars, semVars, connVars
<1>5. \A q \in Req : /\ Live(q)' <=> Live(q)
                     /\ Inside(q)' => Inside(q) /\ q # r
                     /\ Inside(q) => Live(q)
                     /\ \A o : Awaits(q, o) => Awaits(q, o)'
  BY <1>1 DEF Live, Inside, Awaits
<1>6. LiveCallsHold' /\ LastInLine'
  BY <1>1, <1>4, <1>5 DEF LiveCallsHold, LastInLine
<1>7. RepliesAwaited' /\ CommitAnswered' /\ OkMeansCommitted'
  BY <1>1 DEF RepliesAwaited, CommitAnswered, OkMeansCommitted
<1>8. JobsKnown'
  <2>1. ASSUME NEW c \in Conn, NEW j \in JobsOf(c), j.by = "call"
        PROVE  \/ MayCancel /\ pc'[j.req] = "ended"
               \/ conn'[j.req] = c /\ reply'[j.req] = "none" /\ Awaits(j.req, j.op)'
    <3>1. j.req \in Req /\ j.req # r
      BY <1>1, JobTypes
    <3>2. QED
      BY <1>1, <1>4, <1>5, <2>1, <3>1 DEF JobsKnown
  <2>2. QED
    BY <1>3, <2>1 DEF JobsKnown
<1>9. InsideAlone'
  <2>1. ASSUME NEW q \in Req, Inside(q)'
        PROVE  session'[conn[q]] \in {q, NoTx}
    <3>1. Inside(q) /\ q # r /\ conn[q] \in Conn
      BY <1>5, <2>1, LiveConn
    <3>2. session[conn[q]] \in {q, NoTx}
      BY <3>1 DEF InsideAlone
    <3>3. QED
      BY <1>1, <3>1, <3>2, CallAssumption
  <2>2. ASSUME NEW q \in Req, Inside(q)', NEW j, j \in JobsOf(conn[q])', j.by = "call"
        PROVE  j.req = q
    <3>1. Inside(q) /\ conn[q] \in Conn
      BY <1>5, <2>2, LiveConn
    <3>2. PICK c \in Conn : c = conn[q] /\ c = conn'[q]
      BY <1>4, <3>1
    <3>3. j \in JobsOf(c)
      BY <1>3, <2>2, <3>2
    <3>4. QED
      BY <2>2, <3>1, <3>2, <3>3 DEF InsideAlone
  <2>3. QED
    BY <1>4, <2>1, <2>2 DEF InsideAlone
<1>10. QED
  BY <1>2, <1>6, <1>7, <1>8, <1>9

(* The thread of c runs j, which answers v and leaves the session in the   *)
(* transaction s; the call that awaits this statement gets the answer.     *)
Runs(c, j, v, s) ==
  /\ j = chan[c][1]
  /\ chan[c] # <<>>
  /\ chan' = [chan EXCEPT ![c] = Tail(@)]
  /\ <<v, s>> \in Outcomes(j.op, j.req, session[c])
  /\ session' = [session EXCEPT ![c] = s]
  /\ committed' = IF j.op = "COMMIT" /\ v = "ok"
                    THEN committed \cup {session[c]} ELSE committed
  /\ \A q \in Req :
       \/ reply'[q] = reply[q]
       \/ /\ q = j.req /\ j.by = "call" /\ reply'[q] = v
          /\ conn[q] = c /\ reply[q] = "none" /\ Awaits(q, j.op)
  /\ j.by = "call" /\ pc[j.req] # "ended" => reply'[j.req] = v
  /\ reply' \in [Req -> {"none", "ok", "err"}]
  /\ UNCHANGED <<poolVars, pc, result, guard, stash>>

(* What the thread of c does with the first statement in its channel, and  *)
(* who gets the answer: the call that awaits this statement, or nobody.    *)
LEMMA RunFacts ==
  ASSUME EngineInv, NEW c \in Conn, RunNext(c)
  PROVE  \E j \in JobsOf(c), v \in {"ok", "err"}, s \in {NoTx, session[c], chan[c][1].req} :
           Runs(c, j, v, s)
<1> USE DEF EngineInv, CallInv
<1>1. /\ chan[c] # <<>>
      /\ chan' = [chan EXCEPT ![c] = Tail(@)]
      /\ UNCHANGED <<poolVars, pc, result, guard, stash>>
  BY DEF RunNext
<1>2. PICK j : j = Head(chan[c])
  OBVIOUS
<1>3. j \in JobsOf(c) /\ j = chan[c][1]
  BY <1>1, <1>2, TakeFacts
<1>4. PICK v \in {"ok", "err"} :
        /\ Execute(c, j.op, j.req, v)
        /\ IF j.by = "call" THEN Answer(j.req, v) ELSE UNCHANGED reply
  BY <1>2 DEF RunNext
<1>5. PICK o \in Outcomes(j.op, j.req, session[c]) :
        /\ o[1] = v
        /\ session' = [session EXCEPT ![c] = o[2]]
        /\ committed' = IF j.op = "COMMIT" /\ v = "ok"
                          THEN committed \cup {session[c]} ELSE committed
  BY <1>4 DEF Execute
<1>6. j.req \in Req /\ j.op \in Sql /\ j.by \in {"call", "guard", "stash"}
  BY <1>3, JobTypes
<1>7. o = <<v, o[2]>> /\ o[2] \in {NoTx, session[c], j.req}
  <2>1. CASE j.op = "STMT"
    BY <1>5, <2>1 DEF Outcomes
  <2>2. CASE j.op = "BEGIN"
    BY <1>5, <2>2 DEF Outcomes
  <2>3. CASE j.op = "COMMIT"
    BY <1>5, <2>3 DEF Outcomes
  <2>4. CASE j.op = "ROLLBACK"
    BY <1>5, <2>4 DEF Outcomes
  <2>5. QED
    BY <1>6, <2>1, <2>2, <2>3, <2>4 DEF Sql
<1>8. /\ reply' \in [Req -> {"none", "ok", "err"}]
      /\ \A q \in Req : \/ reply'[q] = reply[q]
                        \/ q = j.req /\ j.by = "call" /\ pc[q] # "ended" /\ reply'[q] = v
      /\ j.by = "call" /\ pc[j.req] \notin {"idle", "ended"} => reply'[j.req] = v
  BY <1>4, <1>6 DEF Answer, CallTypeOK
<1>9. j.by = "call" /\ pc[j.req] # "ended"
        => conn[j.req] = c /\ reply[j.req] = "none" /\ Awaits(j.req, j.op)
  BY <1>3 DEF JobsKnown
<1>10. j.by = "call" /\ pc[j.req] # "ended" => pc[j.req] # "idle"
  BY <1>9 DEF Awaits
<1> HIDE DEF EngineInv, CallInv
<1>11. /\ <<v, o[2]>> \in Outcomes(j.op, j.req, session[c])
       /\ o[2] \in {NoTx, session[c], chan[c][1].req}
  BY <1>3, <1>7
<1>12. /\ \A q \in Req :
            \/ reply'[q] = reply[q]
            \/ /\ q = j.req /\ j.by = "call" /\ reply'[q] = v
               /\ conn[q] = c /\ reply[q] = "none" /\ Awaits(q, j.op)
       /\ j.by = "call" /\ pc[j.req] # "ended" => reply'[j.req] = v
  BY <1>6, <1>8, <1>9, <1>10
<1>13. PICK s : s = o[2]
  OBVIOUS
<1>14. /\ j = chan[c][1]
       /\ chan[c] # <<>>
       /\ chan' = [chan EXCEPT ![c] = Tail(@)]
       /\ UNCHANGED <<poolVars, pc, result, guard, stash>>
  BY <1>1, <1>3
<1>15. /\ <<v, s>> \in Outcomes(j.op, j.req, session[c])
       /\ session' = [session EXCEPT ![c] = s]
       /\ s \in {NoTx, session[c], chan[c][1].req}
  BY <1>5, <1>11, <1>13
<1>16. committed' = IF j.op = "COMMIT" /\ v = "ok"
                      THEN committed \cup {session[c]} ELSE committed
  BY <1>5
<1>17. Runs(c, j, v, s)
  BY <1>8, <1>12, <1>14, <1>15, <1>16, Zenon DEF Runs
<1>18. QED
  BY <1>3, <1>15, <1>17, Zenon

(* The thread of a connection runs a statement. *)
LEMMA RunInv ==
  ASSUME EngineInv, PoolInv', NEW c \in Conn, RunNext(c)
  PROVE  CallInv'
<1>1. PICK j \in JobsOf(c), v \in {"ok", "err"}, s \in {NoTx, session[c], chan[c][1].req} :
        Runs(c, j, v, s)
  BY RunFacts, Zenon
<1> USE DEF EngineInv, CallInv, Runs
<1>2. j.req \in Req /\ j.op \in Sql /\ j.by \in {"call", "guard", "stash"}
  BY JobTypes
<1>3. /\ j.op = "BEGIN" =>
           (v = "ok" /\ session[c] = NoTx /\ s = j.req) \/ (v = "err" /\ s = session[c])
      /\ j.op = "COMMIT" /\ v = "ok" => session[c] # NoTx
      /\ j.op # "BEGIN" => s \in {session[c], NoTx}
  <2> DEFINE o == <<v, s>>
  <2>1. o[1] = v /\ o[2] = s /\ o \in Outcomes(j.op, j.req, session[c])
    BY <1>1
  <2> HIDE DEF o
  <2>2. QED
    BY <1>2, <2>1, OutcomeFacts DEF Sql
<1>4. /\ chan' \in [Conn -> Seq(Job)]
      /\ \A d \in Conn \ {c} : chan'[d] = chan[d] /\ JobsOf(d)' = JobsOf(d)
      /\ Len(chan[c]) \in Nat \ {0}
      /\ Len(chan'[c]) = Len(chan[c]) - 1
      /\ \A i \in 1..Len(chan'[c]) : i + 1 \in 1..Len(chan[c]) /\ chan'[c][i] = chan[c][i + 1]
      /\ JobsOf(c)' \subseteq JobsOf(c)
  BY <1>1, TakeFacts
<1>5. conn' = conn /\ lease' = lease /\ pc' = pc
  BY <1>1 DEF poolVars, semVars, connVars
<1>6. /\ session' \in [Conn -> Req \cup {NoTx, Leaked}]
      /\ session'[c] = s
      /\ \A d \in Conn \ {c} : session'[d] = session[d]
  BY <1>1, <1>2 DEF CallTypeOK
<1>7. committed \subseteq committed' /\ committed' \in SUBSET (Req \cup {Leaked})
  <2>1. session[c] \in Req \cup {NoTx, Leaked}
    BY DEF CallTypeOK
  <2>2. QED
    BY <1>1, <1>3, <2>1 DEF CallTypeOK
<1>8. CallTypeOK'
  BY <1>1, <1>4, <1>6, <1>7 DEF CallTypeOK
<1>9. LiveCallsHold'
  BY <1>5 DEF LiveCallsHold, Live
<1>10. RepliesAwaited'
  BY <1>1, <1>5 DEF RepliesAwaited, Awaits
(* The statement was the only one its call had sent. *)
<1>11. ASSUME j.by = "call", pc[j.req] # "ended", NEW k, k \in JobsOf(c)'
       PROVE  k.by # "call"
  <2>1. conn[j.req] = c /\ Live(j.req)
    BY <1>11 DEF JobsKnown, Awaits, Live
  <2>2. PICK i \in 1..Len(chan'[c]) : k = chan'[c][i]
    BY <1>11 DEF JobsOf
  <2>3. i + 1 \in 1..Len(chan[c]) /\ 1 \in 1..Len(chan[c]) /\ 1 < i + 1 /\ k = chan[c][i + 1]
    BY <1>4, <2>2
  <2>4. QED
    BY <1>1, <1>2, <1>11, <2>1, <2>3 DEF LastInLine
<1>12. JobsKnown'
  <2>1. ASSUME NEW d \in Conn, NEW k, k \in JobsOf(d)'
        PROVE  /\ k.by = "guard" => k.op = "ROLLBACK"
               /\ k.by = "stash" => k.op = "STMT"
               /\ k.by = "call" =>
                    \/ MayCancel /\ pc[k.req] = "ended"
                    \/ conn[k.req] = d /\ reply'[k.req] = "none" /\ Awaits(k.req, k.op)
    <3>1. k \in JobsOf(d)
      BY <1>4, <2>1
    <3>2. k.req \in Req
      BY <3>1, JobTypes
    <3>3. CASE k.by = "call" /\ pc[k.req] # "ended"
      <4>1. conn[k.req] = d /\ reply[k.req] = "none" /\ Awaits(k.req, k.op)
        BY <3>1, <3>3 DEF JobsKnown
      <4>2. reply'[k.req] = reply[k.req]
        <5>1. CASE k.req = j.req /\ j.by = "call" /\ conn[k.req] = c
          BY <1>11, <2>1, <3>3, <4>1, <5>1
        <5>2. QED
          BY <1>1, <3>2, <5>1
      <4>3. QED
        BY <3>1, <3>3, <4>1, <4>2 DEF JobsKnown
    <3>4. CASE ~(k.by = "call" /\ pc[k.req] # "ended")
      BY <3>1, <3>4 DEF JobsKnown, Awaits
    <3>5. QED
      BY <3>3, <3>4
  <2>2. QED
    BY <1>5, <2>1 DEF JobsKnown, Awaits
<1>13. LastInLine'
  <2>1. ASSUME NEW q \in Req, Live(q)
        PROVE  \A i, k \in 1..Len(chan'[conn[q]]) :
                 chan'[conn[q]][i].req = q /\ chan'[conn[q]][i].by = "call" /\ i < k
                   => chan'[conn[q]][k].by # "call"
    <3>1. conn[q] \in Conn
      BY <2>1, LiveConn
    <3>2. CASE conn[q] = c
      <4>1. ASSUME NEW i \in 1..Len(chan'[c]), NEW k \in 1..Len(chan'[c]),
                   chan'[c][i].req = q, chan'[c][i].by = "call", i < k
            PROVE  chan'[c][k].by # "call"
        <5>1. /\ i + 1 \in 1..Len(chan[c]) /\ k + 1 \in 1..Len(chan[c]) /\ i + 1 < k + 1
              /\ chan'[c][i] = chan[c][i + 1] /\ chan'[c][k] = chan[c][k + 1]
          BY <1>4, <4>1
        <5>2. chan[conn[q]][i + 1].req = q /\ chan[conn[q]][i + 1].by = "call"
          BY <3>2, <4>1, <5>1
        <5>3. chan[conn[q]][k + 1].by # "call"
          BY <2>1, <3>2, <5>1, <5>2 DEF LastInLine
        <5>4. QED
          BY <3>2, <5>1, <5>3
      <4>2. QED
        BY <3>2, <4>1
    <3>3. CASE conn[q] # c
      <4>1. chan'[conn[q]] = chan[conn[q]]
        BY <1>4, <3>1, <3>3
      <4>2. QED
        BY <2>1, <4>1 DEF LastInLine
    <3>4. QED
      BY <3>2, <3>3
  <2>2. QED
    BY <1>5, <2>1 DEF LastInLine, Live
<1>14. InsideAlone'
  <2>1. ASSUME NEW q \in Req, Inside(q), NEW d \in Conn, d = conn[q]
        PROVE  /\ session'[d] \in {q, NoTx}
               /\ \A i \in 1..Len(chan'[d]) : chan'[d][i].by = "call" => chan'[d][i].req = q
    <3>0. \A k : k \in JobsOf(d)' <=> \E i \in 1..Len(chan'[d]) : k = chan'[d][i]
      BY DEF JobsOf
    <3>1. session[d] \in {q, NoTx} /\ \A k \in JobsOf(d) : k.by = "call" => k.req = q
      BY <2>1 DEF InsideAlone
    <3>2. CASE d = c
      <4>1. j.op # "BEGIN"
        <5>1. SUFFICES ASSUME j.op = "BEGIN" PROVE FALSE
          OBVIOUS
        <5>2. j.by = "call"
          BY <1>2, <5>1 DEF JobsKnown
        <5>3. j.req = q
          BY <3>1, <3>2, <5>2
        <5>4. pc[q] # "ended"
          BY <2>1 DEF Inside
        <5>5. reply[q] = "none" /\ Awaits(q, "BEGIN")
          BY <5>1, <5>2, <5>3, <5>4 DEF JobsKnown
        <5>6. QED
          BY <2>1, <5>5 DEF Inside, Awaits
      <4>2. QED
        BY <1>3, <1>4, <1>6, <3>0, <3>1, <3>2, <4>1
    <3>3. CASE d # c
      BY <1>4, <1>6, <3>0, <3>1, <3>3
    <3>4. QED
      BY <3>2, <3>3
  <2>2. ASSUME NEW q \in Req, Inside(q)', ~ Inside(q)
        PROVE  /\ conn[q] = c
               /\ session'[c] \in {q, NoTx}
               /\ \A i \in 1..Len(chan'[c]) : chan'[c][i].by # "call"
    <3>0. \A i \in 1..Len(chan'[c]) : chan'[c][i] \in JobsOf(c)'
      BY DEF JobsOf
    <3>1. pc[q] = "begin" /\ reply'[q] = "ok" /\ reply[q] # "ok"
      BY <1>5, <2>2 DEF Inside
    <3>2. q = j.req /\ j.by = "call" /\ v = "ok" /\ conn[q] = c /\ Awaits(q, j.op)
      BY <1>1, <3>1
    <3>3. j.op = "BEGIN"
      BY <3>1, <3>2 DEF Awaits
    <3>4. QED
      BY <1>3, <1>6, <1>11, <3>0, <3>1, <3>2, <3>3
  <2>3. ASSUME NEW q \in Req, Inside(q)'
        PROVE  /\ session'[conn'[q]] \in {q, NoTx}
               /\ \A i \in 1..Len(chan'[conn'[q]]) :
                    chan'[conn'[q]][i].by = "call" => chan'[conn'[q]][i].req = q
    <3>1. Live(q)
      BY <1>5, <2>3 DEF Inside, Live
    <3>2. PICK d \in Conn : d = conn[q] /\ d = conn'[q]
      BY <1>5, <3>1, LiveConn
    <3>3. CASE Inside(q)
      <4>1. /\ session'[d] \in {q, NoTx}
            /\ \A i \in 1..Len(chan'[d]) : chan'[d][i].by = "call" => chan'[d][i].req = q
        BY <2>1, <3>2, <3>3
      <4>2. QED
        BY <3>2, <4>1
    <3>4. CASE ~ Inside(q)
      BY <2>2, <2>3, <3>2, <3>4
    <3>5. QED
      BY <3>3, <3>4
  <2>4. ASSUME NEW q \in Req, Inside(q)', NEW k, k \in JobsOf(conn[q])', k.by = "call"
        PROVE  k.req = q
    <3>1. PICK i \in 1..Len(chan'[conn'[q]]) : k = chan'[conn'[q]][i]
      BY <2>4 DEF JobsOf
    <3>2. QED
      BY <2>3, <2>4, <3>1
  <2>5. QED
    BY <2>3, <2>4 DEF InsideAlone
<1>15. CommitAnswered'
  <2>1. ASSUME NEW q \in Req, pc[q] = "commit", reply'[q] = "ok", reply[q] # "ok"
        PROVE  q \in committed'
    <3>1. q = j.req /\ v = "ok" /\ conn[q] = c /\ j.op = "COMMIT"
      BY <1>1, <2>1 DEF Awaits
    <3>2. session[c] \in {q, NoTx}
      BY <2>1, <3>1 DEF InsideAlone, Inside
    <3>3. QED
      BY <1>1, <1>3, <3>1, <3>2
  <2>2. QED
    BY <1>5, <1>7, <2>1 DEF CommitAnswered
<1>16. OkMeansCommitted'
  BY <1>1, <1>7 DEF OkMeansCommitted
<1>17. QED
  BY <1>8, <1>9, <1>10, <1>12, <1>13, <1>14, <1>15, <1>16

(* A call ends while nothing it has sent is under way. *)
LEMMA ResultInv ==
  ASSUME EngineInv, PoolInv', NEW r \in Req,
         QueryReturns(r) \/ BeginFailed(r) \/ CommitReturns(r) \/ CommitFails(r)
           \/ UndoReturns(r) \/ Panic(r)
  PROVE  CallInv'
<1> USE DEF EngineInv, CallInv
<1>1. PICK v \in {"done", "ok", "err", "lost"} :
        /\ Finish(r, v)
        /\ v = "ok" => pc[r] = "commit" /\ reply[r] = "ok"
        /\ pc[r] # "ended" /\ (reply[r] # "none" \/ pc[r] = "body")
  BY DEF QueryReturns, BeginFailed, CommitReturns, CommitFails, UndoReturns, Panic
<1>2. UNCHANGED <<poolVars, stash, dbVars>>
  BY DEF QueryReturns, BeginFailed, CommitReturns, CommitFails, UndoReturns, Panic
<1>3. conn' = conn
  BY <1>2 DEF poolVars, connVars
<1>4. guard' \in [Req -> {"none", "armed"} \cup Conn]
  <2>1. Live(r) => conn[r] \in Conn
    BY LiveConn
  <2>2. CASE CommitFails(r) \/ Panic(r)
    <3>1. conn[r] \in Conn /\ guard' = [guard EXCEPT ![r] = conn[r]]
      BY <2>1, <2>2 DEF CommitFails, Panic, SpawnRollback, Live
    <3>2. QED
      BY <3>1 DEF CallTypeOK
  <2>3. CASE QueryReturns(r) \/ BeginFailed(r) \/ CommitReturns(r) \/ UndoReturns(r)
    BY <2>3 DEF QueryReturns, BeginFailed, CommitReturns, UndoReturns, Disarm, CallTypeOK
  <2>4. QED
    BY <2>2, <2>3
<1>5. v = "ok" => r \in committed
  BY <1>1 DEF CommitAnswered
<1>6. \A c \in Conn : \A j \in JobsOf(c) : j.by = "call" => j.req # r
  BY <1>1, NothingSent
<1> HIDE DEF EngineInv, CallInv
<1>7. QED
  BY <1>1, <1>2, <1>3, <1>4, <1>5, <1>6, FinishInv

(* A call fails or is dropped while it waits for the pool, or is dropped   *)
(* later, with its statement under way.                                    *)
LEMMA LostInv ==
  ASSUME EngineInv, PoolInv', NEW r \in Req,
         GetTimesOut(r) \/ GetCannotOpen(r) \/ Cancel(r)
  PROVE  CallInv'
<1>1. PICK v \in {"err", "lost"} : Finish(r, v)
  BY DEF GetTimesOut, GetCannotOpen, Cancel, CancelWaiting, CancelUnguarded, CancelGuarded
<1>2. UNCHANGED <<conn, stash, dbVars>>
  BY DEF GetTimesOut, GetCannotOpen, Cancel, CancelWaiting, CancelUnguarded, CancelGuarded,
     Timeout, OpenFails, CancelGet, poolVars, connVars
<1>3. guard' \in [Req -> {"none", "armed"} \cup Conn]
  <2>1. CASE UNCHANGED guard
    BY <2>1 DEF EngineInv, CallInv, CallTypeOK
  <2>2. CASE CancelGuarded(r)
    <3>1. conn[r] \in Conn
      BY <2>2, LiveConn DEF CancelGuarded, Live
    <3>2. QED
      BY <2>2, <3>1 DEF CancelGuarded, SpawnRollback, Disarm, EngineInv, CallInv, CallTypeOK
  <2>3. QED
    BY <2>1, <2>2 DEF GetTimesOut, GetCannotOpen, Cancel, CancelWaiting, CancelUnguarded
<1>4. MayCancel \/ Getting(r)
  BY DEF GetTimesOut, GetCannotOpen, Cancel, CancelWaiting, CancelUnguarded, CancelGuarded
<1>5. Getting(r) => \A c \in Conn : \A j \in JobsOf(c) : j.by = "call" => j.req # r
  BY NothingSent DEF Getting
<1>6. QED
  BY <1>1, <1>2, <1>3, <1>4, <1>5, FinishInv

(* get hands over an idle connection, or opens one. *)
LEMMA GetInv ==
  ASSUME EngineInv, PoolInv', NEW r \in Req, GetPops(r) \/ GetOpens(r)
  PROVE  CallInv'
<1>1. \E c \in Conn :
        /\ conn' = [conn EXCEPT ![r] = c]
        /\ \A q \in Req : conn[q] # c
        /\ FirstStatement(r, c)
        /\ session' = session \/ session' = [session EXCEPT ![c] = NoTx]
  <2>1. CASE GetPops(r)
    <3>1. PICK i \in 1..Len(idle) :
            /\ TakeIdle(r, i, SubSeq(idle, i + 1, Len(idle)))
            /\ idle[i].conn \in Conn
            /\ \A q \in Req : conn'[q] = IF q = r THEN idle[i].conn ELSE conn[q]
      BY <2>1, PopIdleFacts DEF GetPops, EngineInv
    <3>2. conn' = [conn EXCEPT ![r] = idle[i].conn] /\ \A q \in Req : conn[q] # idle[i].conn
      BY <3>1 DEF TakeIdle, EngineInv, PoolInv, ConnInv, ExclusiveCheckout
    <3>3. conn'[r] = idle[i].conn /\ session' = session
      BY <2>1, <3>1 DEF GetPops
    <3>4. FirstStatement(r, idle[i].conn)
      BY <2>1, <3>3 DEF GetPops
    <3>5. QED
      BY <3>1, <3>2, <3>3, <3>4
  <2>2. CASE GetOpens(r)
    <3>1. PICK c \in Conn :
            /\ Open(r, c)
            /\ FirstStatement(r, c)
            /\ session' = [session EXCEPT ![c] = NoTx]
      BY <2>2 DEF GetOpens
    <3>2. conn' = [conn EXCEPT ![r] = c] /\ \A q \in Req : conn[q] # c
      BY <3>1, PoolAssumption DEF Open, OpenConns, HeldConns
    <3>3. QED
      BY <3>1, <3>2
  <2>3. QED
    BY <2>1, <2>2
<1>2. PICK c \in Conn :
        /\ conn' = [conn EXCEPT ![r] = c]
        /\ \A q \in Req : conn[q] # c
        /\ FirstStatement(r, c)
        /\ session' = session \/ session' = [session EXCEPT ![c] = NoTx]
  BY <1>1
<1>3. UNCHANGED <<reply, result, guard, stash, committed>>
  BY DEF GetPops, GetOpens
<1>4. CASE Goto(r, "getQuery", "query") /\ Post(r, "call", "STMT", c)
  BY <1>2, <1>3, <1>4, FirstStatementInv DEF Goto, Sql
<1>5. CASE Goto(r, "getTx", "begin") /\ Post(r, "call", "BEGIN", c)
  BY <1>2, <1>3, <1>5, FirstStatementInv DEF Goto, Sql
<1>6. QED
  BY <1>2, <1>4, <1>5 DEF FirstStatement

(* A call starts, or goes on in its closure. *)
LEMMA GoOnInv ==
  ASSUME EngineInv, PoolInv', NEW r \in Req, Start(r) \/ Began(r) \/ Sent(r)
  PROVE  CallInv'
<1> USE DEF EngineInv, CallInv
<1>1. CASE Start(r)
  <2>1. PICK to \in {"getQuery", "getTx"} : Goto(r, "idle", to)
    BY <1>1 DEF Start
  <2>2. pc[r] = "idle" /\ pc' = [pc EXCEPT ![r] = to]
    BY <2>1 DEF Goto
  <2>3. UNCHANGED <<reply, result, conn, guard, stash, dbVars>>
    BY <1>1 DEF Start, Acquire, Enqueue, connVars
  <2>4. reply[r] = "none"
    BY <2>2 DEF RepliesAwaited, CallTypeOK
  <2>5. reply' = [reply EXCEPT ![r] = "none"]
    BY <2>3, <2>4 DEF CallTypeOK
  <2>6. guard' \in [Req -> {"none", "armed"} \cup Conn]
    BY <2>3 DEF CallTypeOK
  <2> HIDE DEF EngineInv, CallInv
  <2>7. QED
    BY <2>2, <2>3, <2>5, <2>6, MoveInv
<1>2. CASE Began(r)
  <2>1. /\ pc[r] = "begin" /\ pc' = [pc EXCEPT ![r] = "body"]
        /\ reply[r] = "ok" /\ reply' = [reply EXCEPT ![r] = "none"]
        /\ UNCHANGED <<result, conn, stash, dbVars>>
    BY <1>2 DEF Began, Goto, Consume, poolVars, connVars
  <2>2. guard' \in [Req -> {"none", "armed"} \cup Conn]
    BY <1>2 DEF Began, CallTypeOK
  <2> HIDE DEF EngineInv, CallInv
  <2>3. Inside(r)
    BY <2>1 DEF Inside
  <2>4. QED
    BY <2>1, <2>2, <2>3, MoveInv
<1>3. CASE Sent(r)
  <2>1. /\ pc[r] = "stmt" /\ pc' = [pc EXCEPT ![r] = "body"]
        /\ reply[r] # "none" /\ reply' = [reply EXCEPT ![r] = "none"]
        /\ UNCHANGED <<result, conn, guard, stash, dbVars>>
    BY <1>3 DEF Sent, Goto, Consume, poolVars, connVars
  <2>2. guard' \in [Req -> {"none", "armed"} \cup Conn]
    BY <2>1 DEF CallTypeOK
  <2> HIDE DEF EngineInv, CallInv
  <2>3. Inside(r)
    BY <2>1 DEF Inside
  <2>4. QED
    BY <2>1, <2>2, <2>3, MoveInv
<1>4. QED
  BY <1>1, <1>2, <1>3

(* The steps that are no business of the calls. *)
LEMMA BesideInv ==
  ASSUME EngineInv, PoolInv', NEW r \in Req,
         GetFindsNone(r) \/ Stash(r) \/ StashDropped(r) \/ HandBack(r) \/ FreePermit(r)
  PROVE  CallInv'
<1>1. UNCHANGED <<callVars, guard, dbVars>>
  BY DEF GetFindsNone, Stash, StashDropped, HandBack, FreePermit
<1>2. \A q \in Req : Live(q) => conn'[q] = conn[q]
  <2>1. CASE HandBack(r)
    <3>1. ~ Live(r)
      BY <2>1 DEF HandBack, Unreferenced, Live
    <3>2. conn' = [conn EXCEPT ![r] = NoConn]
      BY <2>1 DEF HandBack, GiveBack, GiveBackInto
    <3>3. QED
      BY <3>1, <3>2 DEF EngineInv, PoolInv, ConnInv, ConnTypeOK
  <2>2. QED
    BY <2>1 DEF GetFindsNone, Stash, StashDropped, FreePermit, FindNone, Release, poolVars, connVars
<1>3. /\ guard' \in [Req -> {"none", "armed"} \cup Conn]
      /\ stash' \in SUBSET Req
  BY <1>1 DEF GetFindsNone, Stash, StashDropped, HandBack, FreePermit,
       EngineInv, CallInv, CallTypeOK
<1>4. QED
  BY <1>1, <1>2, <1>3, QuietInv

(* A guard's task or a stashed engine sends something. *)
LEMMA OthersSendInv ==
  ASSUME EngineInv, PoolInv', NEW r \in Req, GuardSends(r) \/ StashSends(r)
  PROVE  CallInv'
<1> USE DEF EngineInv, CallInv
<1>1. CASE GuardSends(r)
  <2>1. PICK c \in Conn : c = guard[r]
    BY <1>1 DEF GuardSends, Spawned
  <2>2. /\ Post(r, "guard", "ROLLBACK", c)
        /\ UNCHANGED <<callVars, conn, stash, session, committed>>
        /\ guard' \in [Req -> {"none", "armed"} \cup Conn]
    BY <1>1, <2>1 DEF GuardSends, Disarm, CallTypeOK, poolVars, connVars
  <2> HIDE DEF EngineInv, CallInv
  <2>3. QED
    BY <2>2, PostBesideInv DEF Sql
<1>2. CASE StashSends(r)
  <2>1. PICK c \in Conn : c = conn[r]
    BY <1>2 DEF StashSends, PoolInv, ConnInv, ConnTypeOK
  <2>2. /\ Post(r, "stash", "STMT", c)
        /\ UNCHANGED <<callVars, conn, stash, session, committed>>
        /\ guard' \in [Req -> {"none", "armed"} \cup Conn]
    BY <1>2, <2>1 DEF StashSends, CallTypeOK, poolVars, connVars
  <2> HIDE DEF EngineInv, CallInv
  <2>3. QED
    BY <2>2, PostBesideInv DEF Sql
<1>3. QED
  BY <1>1, <1>2

(* The closure sends a statement, or returns. *)
LEMMA BodyInv ==
  ASSUME EngineInv, PoolInv', NEW r \in Req, Send(r) \/ ReturnOk(r) \/ ReturnErr(r)
  PROVE  CallInv'
<1>1. UNCHANGED <<reply, result, conn, guard, stash, session, committed>>
  BY DEF Send, ReturnOk, ReturnErr, ReturnFromBody, poolVars, connVars
<1>2. CASE Send(r)
  BY <1>1, <1>2, SendInv DEF Send, Sql
<1>3. CASE ReturnOk(r)
  BY <1>1, <1>3, SendInv DEF ReturnOk, ReturnFromBody, Sql
<1>4. CASE ReturnErr(r)
  BY <1>1, <1>4, SendInv DEF ReturnErr, ReturnFromBody, Sql
<1>5. QED
  BY <1>2, <1>3, <1>4

(* Every step of the engine preserves the invariant. *)
LEMMA CallStepInv == EngineInv /\ PoolInv' /\ [EngineNext]_engineVars => CallInv'
<1> SUFFICES ASSUME EngineInv, PoolInv', [EngineNext]_engineVars PROVE CallInv'
  OBVIOUS
<1>1. ASSUME NEW r \in Req, Get(r) PROVE CallInv'
  BY <1>1, BesideInv, LostInv, GetInv DEF Get
<1>2. ASSUME NEW r \in Req, Resume(r) PROVE CallInv'
  BY <1>2, ResultInv, GoOnInv DEF Resume
<1>3. ASSUME NEW r \in Req, Body(r) \/ LeaveBody(r) PROVE CallInv'
  BY <1>3, BodyInv, BesideInv, ResultInv DEF Body, LeaveBody
<1>4. ASSUME NEW r \in Req,
             Start(r) \/ GetTimesOut(r) \/ Cancel(r) \/ GuardSends(r) \/ StashSends(r)
               \/ StashDropped(r) \/ HandBack(r) \/ FreePermit(r) \/ Reuse(r)
      PROVE  CallInv'
  BY <1>4, GoOnInv, LostInv, OthersSendInv, BesideInv, ReuseInv
<1>5. CASE TimePasses \/ UNCHANGED engineVars
  <2>1. UNCHANGED <<callVars, dbVars, guard, stash, conn>>
    BY <1>5 DEF TimePasses, Tick, engineVars, poolVars, connVars
  <2>2. guard' \in [Req -> {"none", "armed"} \cup Conn] /\ stash' \in SUBSET Req
    BY <2>1 DEF EngineInv, CallInv, CallTypeOK
  <2>3. QED
    BY <2>1, <2>2, QuietInv
<1>6. ASSUME NEW c \in Conn, RunNext(c) PROVE CallInv'
  BY <1>6, RunInv
<1>7. QED
  BY <1>1, <1>2, <1>3, <1>4, <1>5, <1>6 DEF EngineNext

(* EngineInv is an invariant of the engine. *)
THEOREM EngineInvariant == EngineSpec => []EngineInv
<1>1. EngineInit => EngineInv
  BY InitInv, CallInitInv DEF EngineInit, EngineInv
<1>2. EngineInv /\ [EngineNext]_engineVars => EngineInv'
  <2>1. EngineInv /\ [EngineNext]_engineVars => PoolInv'
    BY EnginePoolStep, StepInv DEF EngineInv
  <2>2. QED
    BY <2>1, CallStepInv DEF EngineInv
<1>3. QED
  BY <1>1, <1>2, PTL DEF EngineSpec

(* While f runs its connection is in its own transaction or in none,       *)
(* whatever failed, panicked or dropped calls have left queued on it.      *)
THEOREM ClosuresRunAlone == EngineSpec => []NeverInsideAnother
<1>1. EngineInv => NeverInsideAnother
  BY DEF EngineInv, CallInv, InsideAlone, Inside, NeverInsideAnother
<1>2. QED
  BY <1>1, EngineInvariant, PTL

(* A transaction that reports Ok was committed.                            *)
THEOREM OkIsDurable == EngineSpec => []OkMeansCommitted
<1>1. EngineInv => OkMeansCommitted
  BY DEF EngineInv, CallInv
<1>2. QED
  BY <1>1, EngineInvariant, PTL

---------------------------------------------------------------------------
(* When no call is dropped and no ROLLBACK fails, a transaction that is    *)
(* open on a connection always has somebody to end it.                     *)

(* At first no connection is in a transaction and no guard exists. *)
LEMMA GuardInitInv == EngineInit => GuardInv
<1> SUFFICES ASSUME EngineInit PROVE GuardInv
  OBVIOUS
<1>1. GuardKnown
  BY GuardAssumption DEF EngineInit, CallInit, GuardKnown
<1>2. EndInSight
  BY DEF EngineInit, EndInSight
<1>3. QED
  BY <1>1, <1>2 DEF GuardInv

(* Nothing that was sent is taken out, and no spawned guard is touched.    *)
LEMMA PendingKept ==
  ASSUME \A c \in Conn : \A j \in JobsOf(c) : j \in JobsOf(c)',
         \A q \in Req : guard[q] \in Conn => guard'[q] = guard[q]
  PROVE  \A c \in Conn : RollbackPending(c) => RollbackPending(c)'
<1> SUFFICES ASSUME NEW c \in Conn, RollbackPending(c) PROVE RollbackPending(c)'
  OBVIOUS
<1>1. CASE \E q \in Req : guard[q] = c
  BY <1>1 DEF RollbackPending
<1>2. CASE \E j \in JobsOf(c) : j.op = "ROLLBACK"
  <2>1. PICK j \in JobsOf(c) : j.op = "ROLLBACK"
    BY <1>2
  <2>2. j \in JobsOf(c)'
    BY <2>1
  <2>3. QED
    BY <2>1, <2>2 DEF RollbackPending
<1>3. QED
  BY <1>1, <1>2 DEF RollbackPending

(* No transaction is opened, no pending ROLLBACK is lost, and whoever had  *)
(* a transaction to end still has, or spawns its guard.                    *)
LEMMA EndKept ==
  ASSUME GuardInv,
         \A c \in Conn : session'[c] # NoTx => session[c] # NoTx,
         \A c \in Conn : RollbackPending(c) => RollbackPending(c)',
         \A q \in Req : Owning(q) => \/ conn'[q] = conn[q] /\ Owning(q)'
                                     \/ guard'[q] = conn[q]
  PROVE  EndInSight'
<1> SUFFICES ASSUME NEW c \in Conn, session'[c] # NoTx
             PROVE  RollbackPending(c)' \/ \E r \in Req : conn'[r] = c /\ Owning(r)'
  BY DEF EndInSight
<1>1. RollbackPending(c) \/ \E r \in Req : conn[r] = c /\ Owning(r)
  BY DEF GuardInv, EndInSight
<1>2. CASE RollbackPending(c)
  BY <1>2
<1>3. ASSUME NEW r \in Req, conn[r] = c, Owning(r)
      PROVE  RollbackPending(c)' \/ (conn'[r] = c /\ Owning(r)')
  <2>1. CASE guard'[r] = c
    BY <2>1 DEF RollbackPending
  <2>2. QED
    BY <1>3, <2>1
<1>4. QED
  BY <1>1, <1>2, <1>3

(* The calls, the guards and the channels stay as they are. *)
LEMMA GuardQuiet ==
  ASSUME EngineInv, GuardInv, UNCHANGED <<callVars, guard, dbVars>>,
         \A q \in Req : Live(q) => conn'[q] = conn[q]
  PROVE  GuardInv'
<1> USE DEF callVars, dbVars
<1>1. GuardKnown'
  BY DEF GuardInv, GuardKnown
<1>2. \A c \in Conn : RollbackPending(c) => RollbackPending(c)'
  BY PendingKept DEF JobsOf
<1>3. \A q \in Req : Owning(q) => conn'[q] = conn[q] /\ Owning(q)'
  BY DEF Owning, Live
<1>4. QED
  BY <1>1, <1>2, <1>3, EndKept DEF GuardInv

(* A call ends. *)
LEMMA GuardResult ==
  ASSUME EngineInv, GuardInv, NEW r \in Req,
         QueryReturns(r) \/ BeginFailed(r) \/ CommitReturns(r) \/ CommitFails(r)
           \/ UndoReturns(r) \/ Panic(r) \/ GetTimesOut(r) \/ GetCannotOpen(r)
  PROVE  GuardInv'
<1> USE DEF EngineInv, CallInv, GuardInv
<1>1. PICK v : Finish(r, v)
  BY DEF QueryReturns, BeginFailed, CommitReturns, CommitFails, UndoReturns, Panic,
     GetTimesOut, GetCannotOpen
<1>2. \A q \in Req : /\ pc'[q] = IF q = r THEN "ended" ELSE pc[q]
                     /\ reply'[q] = IF q = r THEN "none" ELSE reply[q]
  BY <1>1 DEF Finish, CallTypeOK
<1>3. UNCHANGED <<conn, dbVars>>
  BY DEF QueryReturns, BeginFailed, CommitReturns, CommitFails, UndoReturns, Panic,
     GetTimesOut, GetCannotOpen, Timeout, OpenFails, poolVars, connVars
<1>4. /\ pc[r] # "ended"
      /\ \A q \in Req \ {r} : guard'[q] = guard[q]
      /\ Owning(r) => guard'[r] = conn[r]
  <2>1. CASE QueryReturns(r) \/ BeginFailed(r) \/ GetTimesOut(r) \/ GetCannotOpen(r)
    BY <2>1 DEF QueryReturns, BeginFailed, GetTimesOut, GetCannotOpen, Getting, Owning
  <2>2. CASE CommitReturns(r) \/ UndoReturns(r)
    BY <2>2 DEF CommitReturns, UndoReturns, Disarm, Owning, CallTypeOK
  <2>3. CASE CommitFails(r) \/ Panic(r)
    BY <2>3 DEF CommitFails, Panic, SpawnRollback, CallTypeOK
  <2>4. QED
    BY <2>1, <2>2, <2>3
<1>5. GuardKnown'
  BY <1>2, <1>4 DEF GuardKnown
<1>6. \A c \in Conn : RollbackPending(c) => RollbackPending(c)'
  <2>1. \A q \in Req : guard[q] \in Conn => guard'[q] = guard[q]
    BY <1>4 DEF GuardKnown
  <2>2. \A c \in Conn : JobsOf(c)' = JobsOf(c)
    BY <1>3 DEF dbVars, JobsOf
  <2>3. QED
    BY <2>1, <2>2, PendingKept
<1>7. \A q \in Req : Owning(q) => \/ conn'[q] = conn[q] /\ Owning(q)'
                                  \/ guard'[q] = conn[q]
  BY <1>2, <1>3, <1>4 DEF Owning
<1>8. \A c \in Conn : session'[c] = session[c]
  BY <1>3 DEF dbVars
<1>9. QED
  BY <1>5, <1>6, <1>7, <1>8, EndKept

(* A call goes from one place to the next, and may send a statement.       *)
LEMMA GuardMove ==
  ASSUME EngineInv, GuardInv, NEW r \in Req,
         Start(r) \/ Began(r) \/ Sent(r) \/ Send(r) \/ ReturnOk(r) \/ ReturnErr(r)
  PROVE  GuardInv'
<1> USE DEF EngineInv, CallInv, GuardInv
<1>1. UNCHANGED <<conn, session>>
  BY DEF Start, Acquire, Enqueue, Began, Sent, Send, ReturnOk, ReturnErr, ReturnFromBody,
     poolVars, connVars, dbVars
<1>2. /\ \A q \in Req \ {r} : pc'[q] = pc[q] /\ reply'[q] = reply[q]
      /\ Owning(r) => Owning(r)'
  <2>1. CASE Start(r)
    BY <2>1 DEF Start, Goto, CallTypeOK, Owning
  <2>2. CASE Began(r) \/ Sent(r)
    BY <2>2 DEF Began, Sent, Goto, Consume, CallTypeOK, Owning
  <2>3. CASE Send(r) \/ ReturnOk(r) \/ ReturnErr(r)
    <3>1. pc[r] = "body" /\ reply[r] = "none" /\ reply' = reply
      BY <2>3 DEF Send, ReturnOk, ReturnErr, ReturnFromBody, Goto, RepliesAwaited
    <3>2. QED
      BY <2>3, <3>1 DEF Send, ReturnOk, ReturnErr, ReturnFromBody, Goto, CallTypeOK, Owning
  <2>4. QED
    BY <2>1, <2>2, <2>3
<1>3. GuardKnown'
  <2>1. CASE Start(r) \/ Began(r)
    BY <2>1, GuardAssumption DEF Start, Began, Goto, CallTypeOK, GuardKnown
  <2>2. CASE Sent(r) \/ Send(r) \/ ReturnOk(r) \/ ReturnErr(r)
    BY <2>2 DEF Sent, Send, ReturnOk, ReturnErr, ReturnFromBody, Goto, CallTypeOK, GuardKnown
  <2>3. QED
    BY <2>1, <2>2
<1>4. \A q \in Req : guard[q] \in Conn => guard'[q] = guard[q]
  <2>1. CASE Began(r)
    <3>1. guard' = [guard EXCEPT ![r] = "armed"] /\ guard[r] \notin Conn
      BY <2>1 DEF Began, Goto, GuardKnown
    <3>2. QED
      BY <3>1 DEF CallTypeOK
  <2>2. QED
    BY <2>1 DEF Start, Sent, Send, ReturnOk, ReturnErr, ReturnFromBody
<1>5. \A c \in Conn : \A j \in JobsOf(c) : j \in JobsOf(c)'
  <2>1. CASE Start(r) \/ Began(r) \/ Sent(r)
    BY <2>1 DEF Start, Began, Sent, dbVars, JobsOf
  <2>2. CASE Send(r) \/ ReturnOk(r) \/ ReturnErr(r)
    <3>1. PICK op \in Sql, c \in Conn : Post(r, "call", op, c)
      <4>1. conn[r] \in Conn
        BY <2>2, LiveConn DEF Send, ReturnOk, ReturnErr, ReturnFromBody, Goto, Live
      <4>2. QED
        BY <2>2, <4>1 DEF Send, ReturnOk, ReturnErr, ReturnFromBody, Sql
    <3>2. QED
      BY <3>1, PostGrows
  <2>3. QED
    BY <2>1, <2>2
<1>6. \A c \in Conn : RollbackPending(c) => RollbackPending(c)'
  BY <1>4, <1>5, PendingKept
<1>7. \A q \in Req : Owning(q) => conn'[q] = conn[q] /\ Owning(q)'
  BY <1>1, <1>2 DEF Owning
<1>8. QED
  BY <1>1, <1>3, <1>6, <1>7, EndKept

(* get hands over a connection: r had nothing to end. *)
LEMMA GuardGet ==
  ASSUME EngineInv, GuardInv, NEW r \in Req, GetPops(r) \/ GetOpens(r)
  PROVE  GuardInv'
<1> USE DEF EngineInv, CallInv, GuardInv
<1>1. PICK c \in Conn :
        /\ FirstStatement(r, c)
        /\ conn' = [conn EXCEPT ![r] = c]
        /\ session' = session \/ session' = [session EXCEPT ![c] = NoTx]
  <2>1. CASE GetPops(r)
    <3>1. PICK i \in 1..Len(idle) :
            /\ TakeIdle(r, i, SubSeq(idle, i + 1, Len(idle)))
            /\ idle[i].conn \in Conn
            /\ \A q \in Req : conn'[q] = IF q = r THEN idle[i].conn ELSE conn[q]
      BY <2>1, PopIdleFacts DEF GetPops
    <3>2. conn' = [conn EXCEPT ![r] = idle[i].conn] /\ conn'[r] = idle[i].conn
      BY <3>1 DEF TakeIdle
    <3>3. QED
      BY <2>1, <3>1, <3>2 DEF GetPops
  <2>2. CASE GetOpens(r)
    BY <2>2 DEF GetOpens, Open
  <2>3. QED
    BY <2>1, <2>2
<1>2. PICK op \in Sql : Post(r, "call", op, c)
  BY <1>1 DEF FirstStatement, Sql
<1>3. /\ Getting(r)
      /\ pc'[r] \in {"query", "begin"}
      /\ \A q \in Req \ {r} : pc'[q] = pc[q]
      /\ UNCHANGED <<reply, guard>>
  BY <1>1 DEF FirstStatement, Goto, Getting, GetPops, GetOpens, CallTypeOK
<1>4. \A d \in Conn : \A j \in JobsOf(d) : j \in JobsOf(d)'
  BY <1>2, PostGrows
<1>5. \A d \in Conn : RollbackPending(d) => RollbackPending(d)'
  BY <1>3, <1>4, PendingKept
<1>6. GuardKnown'
  BY <1>3 DEF GuardKnown, Getting
<1>7. \A q \in Req : Owning(q) => conn'[q] = conn[q] /\ Owning(q)'
  BY <1>1, <1>3 DEF Owning, Getting, PoolInv, ConnInv, ConnTypeOK
<1>8. \A d \in Conn : session'[d] # NoTx => session[d] # NoTx
  BY <1>1 DEF CallTypeOK
<1>9. QED
  BY <1>5, <1>6, <1>7, <1>8, EndKept

(* The ROLLBACK of a spawned guard goes from its task to the channel.      *)
LEMMA GuardPosts ==
  ASSUME EngineInv, GuardInv, NEW r \in Req, GuardSends(r) \/ StashSends(r)
  PROVE  GuardInv'
<1> USE DEF EngineInv, CallInv, GuardInv
<1>1. /\ UNCHANGED <<pc, reply, conn, session>>
  BY DEF GuardSends, StashSends, callVars, poolVars, connVars
<1>2. \A q \in Req : Owning(q) => conn'[q] = conn[q] /\ Owning(q)'
  BY <1>1 DEF Owning
<1>3. CASE GuardSends(r)
  <2>1. PICK c \in Conn : c = guard[r]
    BY <1>3 DEF GuardSends, Spawned
  <2>2. Post(r, "guard", "ROLLBACK", c) /\ pc[r] = "ended"
    BY <1>3, <2>1 DEF GuardSends, GuardKnown
  <2>3. \A q \in Req : guard'[q] = IF q = r THEN "none" ELSE guard[q]
    BY <1>3 DEF GuardSends, Disarm, CallTypeOK
  <2>4. GuardKnown'
    BY <1>1, <2>2, <2>3, GuardAssumption DEF GuardKnown
  <2>5. /\ \A d \in Conn : \A j \in JobsOf(d) : j \in JobsOf(d)'
        /\ [req |-> r, by |-> "guard", op |-> "ROLLBACK"] \in JobsOf(c)'
    BY <2>2, PostGrows DEF Sql
  <2>6. \A d \in Conn : RollbackPending(d) => RollbackPending(d)'
    <3>1. RollbackPending(c)'
      BY <2>5 DEF RollbackPending
    <3>2. ASSUME NEW d \in Conn, RollbackPending(d), d # c
          PROVE  RollbackPending(d)'
      <4>1. CASE \E q \in Req : guard[q] = d
        BY <2>1, <2>3, <3>2, <4>1 DEF RollbackPending
      <4>2. CASE \E j \in JobsOf(d) : j.op = "ROLLBACK"
        <5>1. PICK j \in JobsOf(d) : j.op = "ROLLBACK"
          BY <4>2
        <5>2. j \in JobsOf(d)'
          BY <2>5
        <5>3. QED
          BY <5>1, <5>2 DEF RollbackPending
      <4>3. QED
        BY <3>2, <4>1, <4>2 DEF RollbackPending
    <3>3. QED
      BY <3>1, <3>2
  <2>7. QED
    BY <1>1, <1>2, <2>4, <2>6, EndKept
<1>4. CASE StashSends(r)
  <2>1. PICK c \in Conn : Post(r, "stash", "STMT", c)
    BY <1>4 DEF StashSends, PoolInv, ConnInv, ConnTypeOK
  <2>2. \A d \in Conn : \A j \in JobsOf(d) : j \in JobsOf(d)'
    BY <2>1, PostGrows DEF Sql
  <2>3. guard' = guard
    BY <1>4 DEF StashSends
  <2>4. \A d \in Conn : RollbackPending(d) => RollbackPending(d)'
    BY <2>2, <2>3, PendingKept
  <2>5. GuardKnown'
    BY <1>1, <2>3 DEF GuardKnown
  <2>6. QED
    BY <1>1, <1>2, <2>4, <2>5, EndKept
<1>5. QED
  BY <1>3, <1>4

(* The name of a finished call is taken by a new one. *)
LEMMA GuardReuse ==
  ASSUME EngineInv, GuardInv, NEW r \in Req, Reuse(r)
  PROVE  GuardInv'
<1> USE DEF EngineInv, CallInv, GuardInv
<1>1. /\ pc[r] = "ended"
      /\ \A q \in Req : pc'[q] = IF q = r THEN "idle" ELSE pc[q]
      /\ session' = [c \in Conn |-> IF session[c] = r THEN Leaked ELSE session[c]]
      /\ UNCHANGED <<poolVars, reply, guard, chan>>
      /\ guard[r] \notin Conn
  BY DEF Reuse, Forget, Goto, CallTypeOK, Spawned
<1>2. GuardKnown'
  BY <1>1 DEF GuardKnown
<1>3. \A c \in Conn : RollbackPending(c) => RollbackPending(c)'
  BY <1>1, PendingKept DEF JobsOf
<1>4. \A q \in Req : Owning(q) => conn'[q] = conn[q] /\ Owning(q)'
  BY <1>1 DEF Owning, poolVars, connVars
<1>5. \A c \in Conn : session'[c] # NoTx => session[c] # NoTx
  BY <1>1, CallAssumption
<1>6. QED
  BY <1>2, <1>3, <1>4, <1>5, EndKept

(* A statement runs: only the BEGIN of a call that is still there opens a  *)
(* transaction, and only a ROLLBACK that ends it is taken out.             *)
LEMMA GuardRun ==
  ASSUME ~ MayCancel, "ROLLBACK" \notin Failing,
         EngineInv, GuardInv, NEW d \in Conn, RunNext(d)
  PROVE  GuardInv'
<1>1. PICK j \in JobsOf(d), v \in {"ok", "err"}, s \in {NoTx, session[d], chan[d][1].req} :
        Runs(d, j, v, s)
  BY RunFacts, Zenon
<1> USE DEF EngineInv, CallInv, GuardInv, Runs
<1>2. j.req \in Req /\ j.op \in Sql /\ j.by \in {"call", "guard", "stash"}
  BY JobTypes
<1>3. /\ j.op = "BEGIN" =>
           (v = "ok" /\ session[d] = NoTx /\ s = j.req) \/ (v = "err" /\ s = session[d])
      /\ j.op = "COMMIT" /\ v = "ok" => s = NoTx
      /\ j.op = "ROLLBACK" => s = NoTx
      /\ j.op # "BEGIN" => s \in {session[d], NoTx}
  <2> DEFINE o == <<v, s>>
  <2>1. o[1] = v /\ o[2] = s /\ o \in Outcomes(j.op, j.req, session[d])
    BY <1>1
  <2> HIDE DEF o
  <2>2. QED
    BY <1>2, <2>1, OutcomeFacts DEF Sql
<1>4. /\ \A c \in Conn \ {d} : JobsOf(c)' = JobsOf(c)
      /\ \A k \in JobsOf(d) : k = j \/ k \in JobsOf(d)'
  BY <1>1, TakeFacts
<1>5. conn' = conn
  BY <1>1 DEF poolVars, connVars
<1>6. /\ session'[d] = s
      /\ \A c \in Conn \ {d} : session'[c] = session[c]
  BY <1>1 DEF CallTypeOK
<1>7. GuardKnown'
  BY <1>1 DEF GuardKnown
<1>8. ASSUME NEW c \in Conn, RollbackPending(c), c # d \/ j.op # "ROLLBACK"
      PROVE  RollbackPending(c)'
  <2>1. CASE \E q \in Req : guard[q] = c
    BY <1>1, <2>1 DEF RollbackPending
  <2>2. CASE \E k \in JobsOf(c) : k.op = "ROLLBACK"
    <3>1. PICK k \in JobsOf(c) : k.op = "ROLLBACK"
      BY <2>2
    <3>2. k \in JobsOf(c)'
      BY <1>4, <1>8, <3>1
    <3>3. QED
      BY <3>1, <3>2 DEF RollbackPending
  <2>3. QED
    BY <1>8, <2>1, <2>2 DEF RollbackPending
<1>9. ASSUME NEW c \in Conn, session'[c] # NoTx
      PROVE  RollbackPending(c)' \/ \E r \in Req : conn[r] = c /\ Owning(r)'
  <2>1. CASE c # d
    <3>1. session[c] # NoTx
      BY <1>6, <1>9, <2>1
    <3>2. ASSUME NEW r \in Req, conn[r] = c, Owning(r)
          PROVE  Owning(r)'
      <4>1. reply'[r] = reply[r] /\ pc'[r] = pc[r]
        BY <1>1, <2>1, <3>2
      <4>2. QED
        BY <3>2, <4>1 DEF Owning
    <3>3. QED
      BY <1>8, <2>1, <3>1, <3>2 DEF EndInSight
  <2>2. CASE c = d /\ session[d] = NoTx
    <3>1. j.op = "BEGIN" /\ v = "ok"
      BY <1>3, <1>6, <1>9, <2>2
    <3>2. j.by = "call"
      BY <1>2, <3>1 DEF JobsKnown
    <3>3. conn[j.req] = d /\ Awaits(j.req, "BEGIN")
      BY <3>1, <3>2 DEF JobsKnown
    <3>4. pc[j.req] = "begin" /\ reply'[j.req] = "ok"
      BY <1>1, <3>1, <3>2, <3>3 DEF Awaits
    <3>5. Owning(j.req)'
      BY <1>1, <3>4 DEF Owning
    <3>6. QED
      BY <1>2, <2>2, <3>3, <3>5
  <2>3. CASE c = d /\ session[d] # NoTx
    <3>1. j.op # "ROLLBACK" /\ ~(j.op = "COMMIT" /\ v = "ok")
      BY <1>3, <1>6, <1>9, <2>3
    <3>2. ASSUME NEW r \in Req, conn[r] = d, Owning(r)
          PROVE  Owning(r)'
      <4>1. CASE reply'[r] = reply[r]
        BY <1>1, <3>2, <4>1 DEF Owning
      <4>2. CASE reply'[r] = v /\ reply[r] = "none" /\ Awaits(r, j.op)
        BY <1>1, <3>1, <3>2, <4>2 DEF Owning, Awaits
      <4>3. QED
        BY <1>1, <4>1, <4>2
    <3>3. QED
      BY <1>8, <2>3, <3>1, <3>2 DEF EndInSight
  <2>4. QED
    BY <2>1, <2>2, <2>3
<1>10. EndInSight'
  BY <1>5, <1>9 DEF EndInSight
<1>11. QED
  BY <1>7, <1>10

(* Every step preserves it. *)
LEMMA GuardStepInv ==
  ASSUME ~ MayCancel, "ROLLBACK" \notin Failing,
         EngineInv, GuardInv, [EngineNext]_engineVars
  PROVE  GuardInv'
<1>1. ASSUME NEW r \in Req,
             GetFindsNone(r) \/ Stash(r) \/ StashDropped(r) \/ HandBack(r) \/ FreePermit(r)
      PROVE  GuardInv'
  <2>1. UNCHANGED <<callVars, guard, dbVars>>
    BY <1>1 DEF GetFindsNone, Stash, StashDropped, HandBack, FreePermit
  <2>2. \A q \in Req : Live(q) => conn'[q] = conn[q]
    <3>1. CASE HandBack(r)
      BY <3>1 DEF HandBack, Unreferenced, GiveBack, GiveBackInto, Live, EngineInv, PoolInv,
         ConnInv, ConnTypeOK
    <3>2. QED
      BY <1>1, <3>1
         DEF GetFindsNone, Stash, StashDropped, FreePermit, FindNone, Release, poolVars, connVars
  <2>3. QED
    BY <2>1, <2>2, GuardQuiet
<1>2. ASSUME NEW r \in Req, Cancel(r) PROVE FALSE
  BY <1>2 DEF Cancel, CancelWaiting, CancelUnguarded, CancelGuarded
<1>3. CASE TimePasses \/ UNCHANGED engineVars
  <2>1. UNCHANGED <<callVars, guard, dbVars, conn>>
    BY <1>3 DEF TimePasses, Tick, engineVars, poolVars, connVars
  <2>2. QED
    BY <2>1, GuardQuiet
<1>4. ASSUME NEW r \in Req, Get(r) \/ Resume(r)
      PROVE  GuardInv'
  BY <1>1, <1>4, GuardResult, GuardMove, GuardGet DEF Get, Resume
<1>5. ASSUME NEW r \in Req, Body(r) \/ LeaveBody(r)
      PROVE  GuardInv'
  BY <1>1, <1>5, GuardResult, GuardMove DEF Body, LeaveBody
<1>6. QED
  BY <1>1, <1>2, <1>3, <1>4, <1>5, GuardResult, GuardMove, GuardPosts, GuardReuse, GuardRun
     DEF EngineNext

(* When no future is dropped and no ROLLBACK fails, a connection whose     *)
(* transaction is open goes back to the pool only with the ROLLBACK of a   *)
(* guard on its way.  (A dropped BEGIN has no guard, a failed ROLLBACK is  *)
(* only logged: neither hypothesis can be left out.)                       *)
THEOREM OpenTransactionsAreGuarded ==
  ~ MayCancel /\ "ROLLBACK" \notin Failing => (EngineSpec => []OpenTransactionIsGuarded)
<1> SUFFICES ASSUME ~ MayCancel, "ROLLBACK" \notin Failing
             PROVE  EngineSpec => []OpenTransactionIsGuarded
  OBVIOUS
<1>1. EngineInit => GuardInv
  BY GuardInitInv
<1>2. EngineInv /\ GuardInv /\ [EngineNext]_engineVars => GuardInv'
  BY GuardStepInv
<1>3. EngineInv /\ GuardInv => OpenTransactionIsGuarded
  <2>1. SUFFICES ASSUME EngineInv, GuardInv, NEW c \in IdleConns, session[c] # NoTx
                 PROVE  RollbackPending(c)
    BY DEF OpenTransactionIsGuarded
  <2>2. PICK i \in 1..Len(idle) : c = idle[i].conn
    BY DEF IdleConns
  <2>3. c \in Conn /\ \A r \in Req : conn[r] # c
    BY <2>1, <2>2, IdleTypes DEF EngineInv, PoolInv, ConnInv, ExclusiveCheckout
  <2>4. QED
    BY <2>1, <2>3 DEF GuardInv, EndInSight
<1>4. QED
  BY <1>1, <1>2, <1>3, EngineInvariant, PTL DEF EngineSpec

===========================================================================
