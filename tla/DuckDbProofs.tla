---------------------------- MODULE DuckDbProofs ----------------------------
(***************************************************************************)
(* The safety properties of the prax-duckdb pool and engine, for any set   *)
(* of requests, any max_connections, any number of prewarmed connections   *)
(* and any set of statements that may fail.                                *)
(*                                                                         *)
(* Of the pool, PoolInv is the conjunction of the checked invariants and   *)
(* of HoldersHold, which ties PooledConnection.conn to the state of the    *)
(* lease; what concerns the semaphore alone comes from SemaphoreProofs.    *)
(* Of the engine, HandleInv says who else pins the connection of a call:   *)
(* it holds with dropped futures too.  TxInv says which transaction each   *)
(* session is in, and holds when no future is dropped.                     *)
(***************************************************************************)
EXTENDS DuckDbEngine, SemaphoreProofs

HoldersHold == \A r \in Req : conn[r] # NoConn <=> lease[r] = "held"

(* What the invariant says of the connections. *)
ConnInv ==
  /\ TypeOK
  /\ HoldersHold
  /\ ConnectionsBounded
  /\ ExclusiveCheckout

PoolInv == SemInv /\ ConnInv

---------------------------------------------------------------------------
(* The prewarmed pool satisfies the invariant. *)
LEMMA InitInv == PoolInit => PoolInv
<1> SUFFICES ASSUME PoolInit PROVE PoolInv
  OBVIOUS
<1> USE PoolAssumption, SemaphoreAssumption DEF PoolInit
<1>1. SemInv
  BY SemInitInv
<1>2. TypeOK
  BY <1>1 DEF TypeOK, SemInv
<1>3. HoldersHold
  BY DEF HoldersHold, SemInit
<1>4. ConnectionsBounded
  <2>1. Occupying = {}
    BY DEF Occupying, SemInit
  <2>2. QED
    BY <2>1, FS_EmptySet, LenProperties DEF ConnectionsBounded, Capacity
<1>5. ExclusiveCheckout
  <2>1. \A i \in 1..Len(idle) : idle[i] \in Conn
    BY ElementOfSeq
  <2>2. QED
    BY <2>1 DEF ExclusiveCheckout
<1>6. QED
  BY <1>1, <1>2, <1>3, <1>4, <1>5 DEF PoolInv, ConnInv

---------------------------------------------------------------------------
(* The effect of a step of one request on the number that is counted. *)
LEMMA OccupyingAdds ==
  ASSUME NEW r \in Req, r \notin Occupying, Occupying' = Occupying \cup {r}
  PROVE  Cardinality(Occupying') = Cardinality(Occupying) + 1
BY FiniteRequests, FS_AddElement DEF Occupying

(* ... of one that has no connection any longer. *)
LEMMA OccupyingDrops ==
  ASSUME NEW r \in Req, r \in Occupying, Occupying' = Occupying \ {r}
  PROVE  Cardinality(Occupying') = Cardinality(Occupying) - 1
BY FiniteRequests, FS_RemoveElement DEF Occupying

(* What the invariant says of the numbers, for the arithmetic below. *)
LEMMA Counts ==
  ASSUME TypeOK
  PROVE  /\ Cardinality(Permitted) \in Nat
         /\ Cardinality(Occupying) \in Nat
         /\ Cardinality(Occupying) <= Cardinality(Permitted)
         /\ Len(idle) \in Nat
         /\ MaxConnections \in Nat
         /\ Capacity \in Nat
         /\ MaxConnections <= Capacity
<1>1. Permitted \in SUBSET Req /\ Occupying \in SUBSET Permitted
  BY DEF Permitted, Occupying, WithPermit
<1>2. Len(Prewarmed) \in Nat /\ Len(idle) \in Nat
  BY PoolAssumption, LenProperties DEF TypeOK
<1>3. IsFiniteSet(Permitted)
  BY <1>1, FiniteRequests
<1>4. Cardinality(Occupying) <= Cardinality(Permitted)
  BY <1>1, <1>3, FS_Subset
<1>5. QED
  BY <1>1, <1>2, <1>4, FiniteRequests, SemaphoreAssumption DEF Capacity

---------------------------------------------------------------------------
(* A step that moves requests among the states without a connection, and   *)
(* leaves the connections alone: taking a permit, waiting, giving up, and  *)
(* all the ways to lose a permit.                                          *)
LEMMA WaitingInv ==
  ASSUME PoolInv, SemInv', UNCHANGED connVars,
         \A q \in Req : /\ lease'[q] = "held" <=> lease[q] = "held"
                        /\ lease'[q] = "opening" => lease[q] = "opening"
  PROVE  PoolInv'
<1> USE DEF PoolInv, ConnInv, connVars
<1>1. TypeOK'
  BY DEF TypeOK, SemInv
<1>2. HoldersHold' /\ ExclusiveCheckout'
  BY DEF HoldersHold, ExclusiveCheckout
<1>3. ConnectionsBounded'
  <2>1. Occupying' \in SUBSET Occupying /\ IsFiniteSet(Occupying)
    BY FiniteRequests DEF Occupying
  <2>2. /\ Cardinality(Occupying') <= Cardinality(Occupying)
        /\ Cardinality(Occupying') \in Nat
    BY <2>1, FS_Subset, FS_CardinalityType
  <2>3. QED
    BY <2>2, Counts DEF ConnectionsBounded
<1>4. QED
  BY <1>1, <1>2, <1>3

(* get finds a permit available. *)
LEMMA AcquireInv ==
  ASSUME PoolInv, NEW r \in Req, Acquire(r)
  PROVE  PoolInv'
<1>1. lease[r] = "none"
  BY DEF Acquire, TakePermit
<1>2. SemInv' /\ \A q \in Req : lease'[q] = IF q = r THEN "granted" ELSE lease[q]
  BY TakePermitInv DEF Acquire, PoolInv
<1>3. QED
  BY <1>1, <1>2, WaitingInv DEF Acquire

(* get waits. *)
LEMMA EnqueueInv ==
  ASSUME PoolInv, NEW r \in Req, Enqueue(r)
  PROVE  PoolInv'
<1>1. lease[r] = "none"
  BY DEF Enqueue, WaitInQueue
<1>2. SemInv' /\ \A q \in Req : lease'[q] = IF q = r THEN "queued" ELSE lease[q]
  BY WaitInQueueInv DEF Enqueue, PoolInv
<1>3. QED
  BY <1>1, <1>2, WaitingInv DEF Enqueue

(* get gives up waiting: its timer, or its caller. *)
LEMMA GiveUpInv ==
  ASSUME PoolInv, NEW r \in Req, StopWaiting(r), UNCHANGED connVars
  PROVE  PoolInv'
<1>1. lease[r] = "queued"
  BY DEF StopWaiting
<1>2. SemInv' /\ \A q \in Req : lease'[q] = IF q = r THEN "none" ELSE lease[q]
  BY StopWaitingInv DEF PoolInv
<1>3. QED
  BY <1>1, <1>2, WaitingInv

(* The permit of r is dropped: an abandoned or failed get, or the end of   *)
(* Drop.                                                                   *)
LEMMA LosePermitInv ==
  ASSUME PoolInv, NEW r \in Req, lease[r] \in {"granted", "opening", "returned"},
         DropPermit(r), UNCHANGED connVars
  PROVE  PoolInv'
<1>1. /\ SemInv'
      /\ lease'[r] = "none"
      /\ \A q \in Req \ {r} :
           \/ lease'[q] = lease[q]
           \/ lease[q] = "queued" /\ lease'[q] = "granted"
  BY DropPermitInv DEF PoolInv, WithPermit
<1>2. QED
  BY <1>1, WaitingInv

(* idle[Len(idle)] is handed to r, which had a permit. *)
LEMMA PopIdleInv ==
  ASSUME PoolInv, NEW r \in Req, PopIdle(r)
  PROVE  PoolInv'
<1> USE DEF PoolInv, ConnInv
<1> DEFINE n == Len(idle)
           c == idle[n]
<1>1. /\ Advance(r, "granted", "held")
      /\ lease[r] = "granted"
      /\ idle # <<>>
      /\ idle' = SubSeq(idle, 1, n - 1)
      /\ conn' = [conn EXCEPT ![r] = c]
      /\ UNCHANGED poisoned
  BY DEF PopIdle, PopInto, Advance
<1>2. n \in Nat \ {0} /\ c \in Conn
  <2>1. idle \in Seq(Conn)
    BY DEF TypeOK
  <2>2. n \in Nat \ {0}
    BY <1>1, <2>1, EmptySeq
  <2>3. QED
    BY <2>1, <2>2, ElementOfSeq
<1>3. /\ idle' \in Seq(Conn)
      /\ Len(idle') = n - 1
      /\ \A i \in 1..n - 1 : idle'[i] = idle[i]
  <2>1. \A i \in 1..n - 1 : idle[i] \in Conn
    BY <1>2, ElementOfSeq DEF TypeOK
  <2> HIDE DEF n
  <2>2. /\ SubSeq(idle, 1, n - 1) \in Seq(Conn)
        /\ Len(SubSeq(idle, 1, n - 1)) = IF 1 <= n - 1 THEN n - 1 - 1 + 1 ELSE 0
        /\ \A i \in 1..n - 1 - 1 + 1 : SubSeq(idle, 1, n - 1)[i] = idle[1 + i - 1]
    BY <1>2, <2>1, SubSeqProperties, 1 \in Int, n - 1 \in Int
  <2>3. QED
    BY <1>1, <1>2, <2>2
<1> HIDE DEF n, c
<1>4. NoConn \notin Conn
  BY PoolAssumption
<1>5. /\ SemInv'
      /\ \A q \in Req : lease'[q] = IF q = r THEN "held" ELSE lease[q]
  BY <1>1, AdvanceInv DEF WithPermit
<1>6. \A q \in Req : conn'[q] = IF q = r THEN c ELSE conn[q]
  BY <1>1 DEF TypeOK
<1>7. TypeOK'
  BY <1>1, <1>2, <1>3, <1>5 DEF TypeOK, SemInv
<1>8. HoldersHold'
  BY <1>2, <1>4, <1>5, <1>6 DEF HoldersHold
<1>10. ConnectionsBounded'
  <2>1. Occupying' = Occupying \cup {r} /\ r \notin Occupying
    BY <1>1, <1>5 DEF Occupying
  <2>2. Cardinality(Occupying') = Cardinality(Occupying) + 1
    BY <2>1, OccupyingAdds
  <2>3. n + Cardinality(Occupying) <= Capacity
    BY DEF ConnectionsBounded, n
  <2>4. QED
    BY <1>2, <1>3, <2>2, <2>3, Counts DEF ConnectionsBounded
<1>11. ExclusiveCheckout'
  <2>1. \A q \in Req : conn[q] # c
    BY <1>2 DEF ExclusiveCheckout, n, c
  <2>2. \A i \in 1..n - 1 : idle[i] # c
    <3>1. ASSUME NEW i \in 1..n - 1
          PROVE  i \in 1..n /\ n \in 1..n /\ i # n
      BY <1>2
    <3>2. QED
      BY <3>1 DEF ExclusiveCheckout, n, c
  <2>3. \A q \in Req, i \in 1..n - 1 : conn[q] # idle[i]
    BY <1>2 DEF ExclusiveCheckout, n
  <2>4. \A i, j \in 1..n - 1 : idle[i] = idle[j] => i = j
    BY <1>2 DEF ExclusiveCheckout, n
  <2>5. \A q, s \in Req : conn[q] # NoConn /\ conn[q] = conn[s] => q = s
    BY DEF ExclusiveCheckout
  <2>6. QED
    BY <1>3, <1>6, <2>1, <2>2, <2>3, <2>4, <2>5 DEF ExclusiveCheckout
<1>12. QED
  BY <1>5, <1>7, <1>8, <1>10, <1>11

(* The pool was empty when it was looked at: then every open connection is *)
(* backed by a permit of its own, and so is the one about to be opened.    *)
LEMMA FindEmptyInv ==
  ASSUME PoolInv, NEW r \in Req, FindEmpty(r)
  PROVE  PoolInv'
<1> USE DEF PoolInv, ConnInv, FindEmpty, connVars
<1>1. /\ SemInv'
      /\ lease[r] = "granted"
      /\ \A q \in Req : lease'[q] = IF q = r THEN "opening" ELSE lease[q]
  BY AdvanceInv DEF WithPermit, Advance
<1>3. TypeOK'
  BY <1>1 DEF TypeOK, SemInv
<1>4. HoldersHold'
  BY <1>1 DEF HoldersHold
<1>6. ConnectionsBounded'
  <2>1. Cardinality(Occupying') <= Cardinality(Permitted') /\ Len(idle') = 0
    <3>1. Occupying' \in SUBSET Permitted' /\ IsFiniteSet(Permitted')
      BY FiniteRequests DEF Occupying, Permitted, WithPermit
    <3>2. QED
      BY <3>1, FS_Subset
  <2>2. Cardinality(Permitted') <= MaxConnections
    <3>1. Cardinality(Permitted') \in Nat /\ MaxConnections \in Nat /\ permits' \in Nat
      BY <1>1, FiniteRequests, SemaphoreAssumption DEF Permitted, SemInv, SemTypeOK
    <3>2. QED
      BY <1>1, <3>1 DEF SemInv, PermitAccounting
  <2>3. Cardinality(Occupying') \in Nat
    BY FiniteRequests DEF Occupying
  <2>4. QED
    <3>1. Cardinality(Permitted') \in Nat
      BY FiniteRequests DEF Permitted
    <3>2. QED
      BY <2>1, <2>2, <2>3, <3>1, Counts DEF ConnectionsBounded, Capacity
<1>7. ExclusiveCheckout'
  BY DEF ExclusiveCheckout
<1>8. QED
  BY <1>1, <1>3, <1>4, <1>6, <1>7

(* The new connection is nobody else's. *)
LEMMA OpenInv ==
  ASSUME PoolInv, NEW r \in Req, NEW c \in Conn, Open(r, c)
  PROVE  PoolInv'
<1> USE DEF PoolInv, ConnInv, Open
<1>1. \A q \in Req : conn'[q] = IF q = r THEN c ELSE conn[q]
  BY DEF TypeOK
<1>2. /\ SemInv'
      /\ lease[r] = "opening"
      /\ \A q \in Req : lease'[q] = IF q = r THEN "held" ELSE lease[q]
  BY AdvanceInv DEF WithPermit, Advance
<1>3. TypeOK'
  BY <1>2 DEF TypeOK, SemInv
<1>4. HoldersHold'
  BY <1>1, <1>2, PoolAssumption DEF HoldersHold
<1>5. ConnectionsBounded'
  <2>1. Occupying' = Occupying
    BY <1>2 DEF Occupying
  <2>2. QED
    BY <2>1 DEF ConnectionsBounded
<1>6. ExclusiveCheckout'
  <2>1. \A q \in Req : conn[q] # c
    BY PoolAssumption DEF OpenConns, HeldConns
  <2>2. \A i \in 1..Len(idle) : idle[i] # c
    BY DEF OpenConns, IdleConns
  <2>3. QED
    BY <1>1, <2>1, <2>2 DEF ExclusiveCheckout
<1>7. QED
  BY <1>2, <1>3, <1>4, <1>5, <1>6

(* Poisoning moves nothing. *)
LEMMA PoisonInv ==
  ASSUME PoolInv, NEW r \in Req, Poison(r)
  PROVE  PoolInv'
<1> USE DEF PoolInv, ConnInv, Poison
<1>1. SemInv'
  BY SemStutter
<1>2. TypeOK' /\ HoldersHold' /\ ConnectionsBounded' /\ ExclusiveCheckout'
  BY <1>1 DEF TypeOK, SemInv, semVars, HoldersHold, ConnectionsBounded, Occupying, ExclusiveCheckout
<1>3. QED
  BY <1>1, <1>2

(* Both ways to give a connection up: it goes to the end of the idle       *)
(* vector or nowhere.                                                      *)
LEMMA GiveBackInv ==
  ASSUME PoolInv, NEW r \in Req, GiveBack(r)
  PROVE  PoolInv'
<1> USE DEF PoolInv, ConnInv
<1>1. /\ Advance(r, "held", "returned")
      /\ lease[r] = "held"
      /\ conn' = [conn EXCEPT ![r] = NoConn]
      /\ poisoned' \in SUBSET Req
  BY DEF GiveBack, Recycle, Discard, TypeOK, Advance
<1>2. conn[r] \in Conn
  BY <1>1 DEF HoldersHold, TypeOK
<1>3. /\ SemInv'
      /\ \A q \in Req : lease'[q] = IF q = r THEN "returned" ELSE lease[q]
  BY <1>1, AdvanceInv DEF WithPermit
<1>4. \A q \in Req : conn'[q] = IF q = r THEN NoConn ELSE conn[q]
  BY <1>1 DEF TypeOK
<1>5. Cardinality(Occupying') = Cardinality(Occupying) - 1
  <2>1. Occupying' = Occupying \ {r} /\ r \in Occupying
    BY <1>1, <1>3 DEF Occupying
  <2>2. QED
    BY <2>1, OccupyingDrops
<1>6. HoldersHold'
  BY <1>3, <1>4 DEF HoldersHold
<1>7. CASE idle' = idle
  <2>1. TypeOK'
    BY <1>1, <1>3, <1>7 DEF TypeOK, SemInv
  <2>2. ConnectionsBounded'
    BY <1>5, <1>7, Counts DEF ConnectionsBounded
  <2>3. ExclusiveCheckout'
    BY <1>4, <1>7, ElementOfSeq, PoolAssumption DEF ExclusiveCheckout, TypeOK
  <2>4. QED
    BY <1>3, <1>6, <2>1, <2>2, <2>3
<1>8. CASE idle' = Append(idle, conn[r])
  <2> DEFINE n == Len(idle)
  <2>1. /\ n \in Nat
        /\ idle' \in Seq(Conn)
        /\ Len(idle') = n + 1
        /\ \A i \in 1..n : idle'[i] = idle[i] /\ idle[i] \in Conn
        /\ idle'[n + 1] = conn[r]
    BY <1>2, <1>8, AppendProperties, LenProperties, ElementOfSeq DEF TypeOK
  <2>2. TypeOK'
    BY <1>1, <1>3, <2>1 DEF TypeOK, SemInv
  <2>3. ConnectionsBounded'
    BY <1>5, <2>1, Counts DEF ConnectionsBounded
  <2>4. ExclusiveCheckout'
    <3>1. /\ \A i \in 1..n : idle[i] # conn[r]
          /\ \A q \in Req, i \in 1..n : conn[q] # idle[i]
          /\ \A i, j \in 1..n : idle[i] = idle[j] => i = j
          /\ \A p, q \in Req : conn[p] # NoConn /\ conn[p] = conn[q] => p = q
      BY DEF ExclusiveCheckout
    <3>2. NoConn \notin Conn /\ conn[r] # NoConn
      BY <1>2, PoolAssumption
    <3>3. \A p, q \in Req : conn'[p] # NoConn /\ conn'[p] = conn'[q] => p = q
      BY <1>4, <3>1
    <3> HIDE DEF n
    <3>4. \A i \in 1..n + 1, q \in Req : conn'[q] # idle'[i]
      <4>1. ASSUME NEW q \in Req, NEW i \in 1..n
            PROVE  conn'[q] # idle'[i]
        BY <1>4, <2>1, <3>1, <3>2
      <4>2. ASSUME NEW q \in Req
            PROVE  conn'[q] # idle'[n + 1]
        BY <1>4, <2>1, <3>1, <3>2
      <4>3. QED
        BY <2>1, <4>1, <4>2
    <3>5. \A i, j \in 1..n + 1 : idle'[i] = idle'[j] => i = j
      BY <2>1, <3>1
    <3>6. QED
      BY <2>1, <3>3, <3>4, <3>5 DEF ExclusiveCheckout
  <2>5. QED
    BY <1>3, <1>6, <2>2, <2>3, <2>4
<1>9. QED
  BY <1>7, <1>8 DEF GiveBack, Recycle, Discard

---------------------------------------------------------------------------
(* Every step of the pool preserves the invariant. *)
LEMMA StepInv == PoolInv /\ [PoolNext]_poolVars => PoolInv'
<1> SUFFICES ASSUME PoolInv, [PoolNext]_poolVars PROVE PoolInv'
  OBVIOUS
<1>1. ASSUME NEW r \in Req, CancelGet(r) PROVE PoolInv'
  BY <1>1, GiveUpInv, LosePermitInv DEF CancelGet
<1>2. ASSUME NEW r \in Req, Progress(r) PROVE PoolInv'
  <2>1. CASE Release(r)
    BY <2>1, LosePermitInv DEF Release
  <2>2. QED
    BY <1>2, <2>1, PopIdleInv, FindEmptyInv, OpenInv DEF Progress
<1>3. ASSUME NEW r \in Req, OpenFails(r) PROVE PoolInv'
  BY <1>3, LosePermitInv DEF OpenFails
<1>4. ASSUME NEW r \in Req, Timeout(r) PROVE PoolInv'
  BY <1>4, GiveUpInv DEF Timeout
<1>5. CASE UNCHANGED poolVars
  <2>1. SemInv' /\ UNCHANGED connVars /\ lease' = lease
    BY <1>5, SemStutter DEF poolVars, semVars, PoolInv
  <2>2. QED
    BY <2>1, WaitingInv
<1>6. QED
  BY <1>1, <1>2, <1>3, <1>4, <1>5, AcquireInv, EnqueueInv, PoisonInv, GiveBackInv
     DEF PoolNext

(* PoolInv is an invariant of the pool. *)
THEOREM PoolInvariant == PoolSpec => []PoolInv
<1>1. PoolInit => PoolInv
  BY InitInv
<1>2. PoolInv /\ [PoolNext]_poolVars => PoolInv'
  BY StepInv
<1>3. QED
  BY <1>1, <1>2, PTL DEF PoolSpec

(* The variables keep their types; in particular the count of available    *)
(* permits stays within 0..max_connections.                                *)
THEOREM PoolTypeOK == PoolSpec => []TypeOK
<1>1. PoolInv => TypeOK
  BY DEF PoolInv, ConnInv
<1>2. QED
  BY <1>1, PoolInvariant, PTL

(* On every path through get and Drop, free and owned permits add up to    *)
(* max_connections: none is lost, none is minted.                          *)
THEOREM PermitsConserved == PoolSpec => []PermitAccounting
<1>1. PoolInv => PermitAccounting
  BY DEF PoolInv, SemInv
<1>2. QED
  BY <1>1, PoolInvariant, PTL

(* No connection is in two hands, or in use and idle, or idle twice.       *)
THEOREM CheckoutIsExclusive == PoolSpec => []ExclusiveCheckout
<1>1. PoolInv => ExclusiveCheckout
  BY DEF PoolInv, ConnInv
<1>2. QED
  BY <1>1, PoolInvariant, PTL

(* At most max(min_connections, max_connections) connections exist.        *)
THEOREM ConnectionsAreBounded == PoolSpec => []ConnectionsBounded
<1>1. PoolInv => ConnectionsBounded
  BY DEF PoolInv, ConnInv
<1>2. QED
  BY <1>1, PoolInvariant, PTL

(* A permit never lies unused while somebody waits for one.                *)
THEOREM NoLostWakeup == PoolSpec => []NoIdlePermitWhileWaiting
<1>1. PoolInv => NoIdlePermitWhileWaiting
  BY DEF PoolInv, SemInv
<1>2. QED
  BY <1>1, PoolInvariant, PTL

---------------------------------------------------------------------------
(* The pool implements SessionPool. *)

Holders == {r \in Req : conn[r] # NoConn}

(* A set that is enumerated by a function on a finite set is no larger. *)
LEMMA ImageIsSmaller ==
  ASSUME NEW S, NEW f, IsFiniteSet(S)
  PROVE  /\ IsFiniteSet({f[x] : x \in S})
         /\ Cardinality({f[x] : x \in S}) <= Cardinality(S)
<1> DEFINE T == {f[x] : x \in S}
           g == [x \in S |-> f[x]]
<1>1. g \in Surjection(S, T)
  BY DEF Surjection
<1> HIDE DEF T, g
<1>2. IsFiniteSet(T) /\ Cardinality(T) <= Cardinality(S)
  BY <1>1, FS_Surjection
<1>3. QED
  BY <1>2 DEF T

(* No more connections are open than the counted ones. *)
LEMMA OpenAreCounted ==
  ASSUME PoolInv
  PROVE  /\ IsFiniteSet(OpenConns)
         /\ Cardinality(OpenConns) \in Nat
         /\ Cardinality(OpenConns) <= Len(idle) + Cardinality(Holders)
         /\ Cardinality(Holders) \in Nat
         /\ Len(idle) \in Nat
<1> USE DEF PoolInv, ConnInv
<1>1. Len(idle) \in Nat
  BY Counts
<1>2. IsFiniteSet(IdleConns) /\ Cardinality(IdleConns) <= Len(idle)
  <2>1. IsFiniteSet(1..Len(idle)) /\ Cardinality(1..Len(idle)) = Len(idle)
    <3>1. 1 \in Int /\ Len(idle) \in Int
      BY <1>1
    <3>2. /\ IsFiniteSet(1..Len(idle))
          /\ Cardinality(1..Len(idle)) = IF 1 > Len(idle) THEN 0 ELSE Len(idle) - 1 + 1
      BY <3>1, FS_Interval, Zenon
    <3>3. (IF 1 > Len(idle) THEN 0 ELSE Len(idle) - 1 + 1) = Len(idle)
      BY <1>1
    <3>4. QED
      BY <3>2, <3>3
  <2>2. QED
    BY <2>1, ImageIsSmaller DEF IdleConns
<1>3. IsFiniteSet(HeldConns) /\ Cardinality(HeldConns) <= Cardinality(Holders)
  <2>1. IsFiniteSet(Holders)
    BY FiniteRequests DEF Holders
  <2>2. HeldConns = {conn[r] : r \in Holders}
    BY DEF HeldConns, Holders
  <2>3. QED
    BY <2>1, <2>2, ImageIsSmaller
<1>4. /\ IsFiniteSet(OpenConns)
      /\ Cardinality(OpenConns)
           = Cardinality(IdleConns) + Cardinality(HeldConns) - Cardinality(IdleConns \cap HeldConns)
  BY <1>2, <1>3, FS_Union DEF OpenConns
<1>5. /\ Cardinality(IdleConns) \in Nat
      /\ Cardinality(HeldConns) \in Nat
      /\ Cardinality(IdleConns \cap HeldConns) \in Nat
      /\ Cardinality(OpenConns) \in Nat
  BY <1>2, <1>3, <1>4, FS_Intersection, FS_CardinalityType
<1>6. Cardinality(Holders) \in Nat
  BY FiniteRequests DEF Holders
<1>7. QED
  BY <1>1, <1>2, <1>3, <1>4, <1>5, <1>6

(* Both modules count with the same operator. *)
LEMMA SameCardinality ==
  ASSUME NEW S
  PROVE  Sessions!Cardinality(S) = Cardinality(S)
BY DEF Sessions!Cardinality, Cardinality, Sessions!IsFiniteSet, IsFiniteSet

(* The prewarmed connections are the sessions open at the start. *)
LEMMA SessionInit == PoolInit => Sessions!Init
<1> SUFFICES ASSUME PoolInit PROVE Sessions!Init
  OBVIOUS
<1>1. PoolInv
  BY InitInv
<1>2. Holders = {}
  BY DEF Holders, PoolInit
<1>3. Cardinality(OpenConns) <= Len(idle)
  BY <1>1, <1>2, OpenAreCounted, FS_EmptySet
<1>4. Len(idle) <= Capacity
  BY SemaphoreAssumption, PoolAssumption, LenProperties DEF PoolInit, Capacity
<1>5. OpenConns \in SUBSET Conn
  <2>1. IdleConns \in SUBSET Conn
    BY <1>1, ElementOfSeq DEF PoolInv, ConnInv, TypeOK, IdleConns
  <2>2. HeldConns = {}
    BY <1>2 DEF HeldConns, Holders
  <2>3. QED
    BY <2>1, <2>2 DEF OpenConns
<1>6. Cardinality(OpenConns) <= Capacity
  BY <1>1, <1>3, <1>4, OpenAreCounted, Counts DEF PoolInv, ConnInv
<1>7. QED
  BY <1>5, <1>6, SameCardinality DEF Sessions!Init, PoolInit

(* A step that leaves the idle vector and the connections held alone. *)
LEMMA SessionStutter ==
  ASSUME UNCHANGED <<idle, conn>>
  PROVE  UNCHANGED Sessions!sessionVars
BY DEF Sessions!sessionVars, OpenConns, IdleConns, HeldConns

(* Popping an idle connection hands out an open session nobody owns. *)
LEMMA SessionCheckOut ==
  ASSUME PoolInv, PoolInv', NEW r \in Req, PopIdle(r)
  PROVE  Sessions!CheckOut(r)
<1> DEFINE n == Len(idle)
           c == idle[n]
<1>1. /\ lease[r] = "granted"
      /\ idle # <<>>
      /\ idle' = SubSeq(idle, 1, n - 1)
      /\ conn' = [conn EXCEPT ![r] = c]
  BY DEF PopIdle, PopInto, Advance
<1>2. n \in Nat \ {0} /\ n \in 1..n /\ c \in Conn
  <2>1. idle \in Seq(Conn)
    BY DEF PoolInv, ConnInv, TypeOK
  <2>2. n \in Nat \ {0}
    BY <1>1, <2>1, EmptySeq
  <2>3. QED
    BY <2>1, <2>2, ElementOfSeq
<1>3. /\ Len(idle') = n - 1
      /\ \A i \in 1..n - 1 : idle'[i] = idle[i]
  <2>1. \A i \in 1..n - 1 : idle[i] \in Conn
    BY <1>2, ElementOfSeq DEF PoolInv, ConnInv, TypeOK
  <2> HIDE DEF n
  <2>2. /\ Len(SubSeq(idle, 1, n - 1)) = IF 1 <= n - 1 THEN n - 1 - 1 + 1 ELSE 0
        /\ \A i \in 1..n - 1 - 1 + 1 : SubSeq(idle, 1, n - 1)[i] = idle[1 + i - 1]
    BY <1>2, <2>1, SubSeqProperties, 1 \in Int, n - 1 \in Int
  <2>3. QED
    BY <1>1, <1>2, <2>2
<1>4. conn[r] = NoConn
  BY <1>1 DEF PoolInv, ConnInv, HoldersHold
<1>5. c \in OpenConns
  BY <1>2 DEF OpenConns, IdleConns
<1>6. \A q \in Req : conn[q] # c
  BY <1>2 DEF PoolInv, ConnInv, ExclusiveCheckout
<1> HIDE DEF n, c
<1>7. OpenConns' = OpenConns
  <2>1. IdleConns = IdleConns' \cup {c}
    <3>1. 1..n = 1..n - 1 \cup {n}
      BY <1>2
    <3>2. IdleConns' = {idle[i] : i \in 1..n - 1}
      BY <1>3 DEF IdleConns
    <3>3. QED
      BY <3>1, <3>2 DEF IdleConns, n, c
  <2>2. HeldConns' = HeldConns \cup {c}
    <3>1. \A q \in Req : conn'[q] = IF q = r THEN c ELSE conn[q]
      BY <1>1 DEF PoolInv, ConnInv, TypeOK
    <3>2. c # NoConn
      BY <1>2, PoolAssumption
    <3>3. QED
      BY <1>4, <3>1, <3>2 DEF HeldConns
  <2>3. QED
    BY <2>1, <2>2 DEF OpenConns
<1>8. c \notin Sessions!Owned
  BY <1>6 DEF Sessions!Owned
<1>9. Sessions!Retire({})
  BY <1>7 DEF Sessions!Retire
<1>10. conn' = [conn EXCEPT ![r] = c] /\ c \in OpenConns \ Sessions!Owned
  BY <1>1, <1>5, <1>8
<1>11. {} \in SUBSET (OpenConns \ {c})
  OBVIOUS
<1>12. QED
  BY <1>4, <1>9, <1>10, <1>11, Zenon DEF Sessions!CheckOut

(* Opening a connection happens below the capacity: the request that opens *)
(* is counted in Occupying and holds nothing yet.                          *)
LEMMA SessionOpenFor ==
  ASSUME PoolInv, NEW r \in Req, NEW c \in Conn, Open(r, c)
  PROVE  Sessions!OpenFor(r)
<1> USE DEF Open, Advance
<1>1. conn[r] = NoConn
  BY DEF PoolInv, ConnInv, HoldersHold
<1>2. Cardinality(OpenConns) < Capacity
  <2>1. r \in Occupying /\ Holders \in SUBSET (Occupying \ {r})
    BY <1>1 DEF Occupying, Holders, PoolInv, ConnInv, HoldersHold
  <2>2. /\ IsFiniteSet(Occupying)
        /\ IsFiniteSet(Occupying \ {r})
        /\ Cardinality(Occupying \ {r}) = Cardinality(Occupying) - 1
    BY <2>1, FiniteRequests, FS_RemoveElement DEF Occupying
  <2>3. Cardinality(Holders) <= Cardinality(Occupying \ {r})
    BY <2>1, <2>2, FS_Subset
  <2>4. QED
    BY <2>2, <2>3, OpenAreCounted, Counts DEF PoolInv, ConnInv, ConnectionsBounded
<1>3. OpenConns' = OpenConns \cup {c}
  <2>1. \A q \in Req : conn'[q] = IF q = r THEN c ELSE conn[q]
    BY DEF PoolInv, ConnInv, TypeOK
  <2>2. c # NoConn
    BY PoolAssumption
  <2>3. HeldConns' = HeldConns \cup {c}
    BY <1>1, <2>1, <2>2 DEF HeldConns
  <2>4. IdleConns' = IdleConns
    BY DEF IdleConns
  <2>5. QED
    BY <2>3, <2>4 DEF OpenConns
<1>4. QED
  BY <1>1, <1>2, <1>3, SameCardinality DEF Sessions!OpenFor

(* Recycling keeps the session open, discarding closes it. *)
LEMMA SessionCheckIn ==
  ASSUME PoolInv, NEW r \in Req, GiveBack(r)
  PROVE  Sessions!CheckIn(r)
<1>1. /\ lease[r] = "held"
      /\ conn' = [conn EXCEPT ![r] = NoConn]
      /\ idle' \in {idle, Append(idle, conn[r])}
  BY DEF GiveBack, Recycle, Discard, Advance
<1>2. conn[r] \in Conn /\ conn[r] # NoConn
  BY <1>1, PoolAssumption DEF PoolInv, ConnInv, HoldersHold, TypeOK
<1>3. HeldConns' = HeldConns \ {conn[r]} /\ conn[r] \in HeldConns
  <2>1. \A q \in Req : conn'[q] = IF q = r THEN NoConn ELSE conn[q]
    BY <1>1 DEF PoolInv, ConnInv, TypeOK
  <2>2. \A q \in Req : conn[q] = conn[r] => q = r
    BY <1>2 DEF PoolInv, ConnInv, ExclusiveCheckout
  <2>3. QED
    BY <1>2, <2>1, <2>2 DEF HeldConns
<1>4. conn[r] \notin IdleConns
  BY DEF IdleConns, PoolInv, ConnInv, ExclusiveCheckout
<1>5. CASE idle' = idle
  <2>1. OpenConns' = OpenConns \ {conn[r]}
    BY <1>3, <1>4, <1>5 DEF OpenConns, IdleConns
  <2>2. QED
    BY <1>1, <1>2, <2>1 DEF Sessions!CheckIn
<1>6. CASE idle' = Append(idle, conn[r])
  <2> DEFINE n == Len(idle)
  <2>1. /\ n \in Nat
        /\ Len(idle') = n + 1
        /\ \A i \in 1..n : idle'[i] = idle[i]
        /\ idle'[n + 1] = conn[r]
    BY <1>2, <1>6, AppendProperties, LenProperties DEF PoolInv, ConnInv, TypeOK
  <2>2. 1..n + 1 = 1..n \cup {n + 1}
    BY <2>1
  <2>3. IdleConns' = IdleConns \cup {conn[r]}
    BY <2>1, <2>2 DEF IdleConns
  <2>4. OpenConns' = OpenConns
    BY <1>3, <2>3 DEF OpenConns
  <2>5. QED
    BY <1>1, <1>2, <2>4 DEF Sessions!CheckIn
<1>7. QED
  BY <1>1, <1>5, <1>6

(* Every step of the pool is one of SessionPool or leaves it unchanged. *)
LEMMA SessionStep ==
  PoolInv /\ PoolInv' /\ [PoolNext]_poolVars => [Sessions!Next]_(Sessions!sessionVars)
<1> SUFFICES ASSUME PoolInv, PoolInv', [PoolNext]_poolVars
             PROVE  [Sessions!Next]_(Sessions!sessionVars)
  OBVIOUS
<1>1. ASSUME NEW r \in Req, PopIdle(r) PROVE Sessions!Next
  BY <1>1, SessionCheckOut DEF Sessions!Next
<1>2. ASSUME NEW r \in Req, NEW c \in Conn, Open(r, c) PROVE Sessions!Next
  BY <1>2, SessionOpenFor DEF Sessions!Next
<1>3. ASSUME NEW r \in Req, GiveBack(r) PROVE Sessions!Next
  BY <1>3, SessionCheckIn DEF Sessions!Next
<1>4. ASSUME NEW r \in Req,
             \/ Acquire(r) \/ Enqueue(r) \/ Timeout(r) \/ CancelGet(r)
             \/ FindEmpty(r) \/ Release(r) \/ OpenFails(r) \/ Poison(r)
      PROVE  UNCHANGED Sessions!sessionVars
  BY <1>4, SessionStutter DEF Acquire, Enqueue, Timeout, CancelGet, FindEmpty,
     Release, OpenFails, Poison, connVars
<1>5. CASE UNCHANGED poolVars
  BY <1>5, SessionStutter DEF poolVars, connVars
<1>6. QED
  BY <1>1, <1>2, <1>3, <1>4, <1>5 DEF PoolNext, Progress

(* Seen from its callers, the pool hands out at most                       *)
(* max(min_connections, max_connections) sessions, each to one caller.     *)
THEOREM PoolImplementsSessionPool == PoolSpec => ImplementsSessionPool
<1>1. PoolInit => Sessions!Init
  BY SessionInit
<1>2. PoolInv /\ PoolInv' /\ [PoolNext]_poolVars => [Sessions!Next]_(Sessions!sessionVars)
  BY SessionStep
<1>3. QED
  BY <1>1, <1>2, PoolInvariant, PTL DEF PoolSpec, ImplementsSessionPool, Sessions!Spec
---------------------------------------------------------------------------
(* The engine *)

Job == [req : Req, by : {"call", "guard", "stash"}, op : Sql, conn : Conn]

HandleTypeOK ==
  /\ pc \in [Req -> Where]
  /\ jobs \in SUBSET Job
  /\ guard \in [Req -> {"none", "armed", "spawned"}]
  /\ stash \in [Req -> {"none", "open", "stmt"}]

(* Calls that are past get.  Their guard exists from Began on. *)
Live == {"query", "begin", "body", "stmt", "commit", "undo"}
Guarded == {"body", "stmt", "commit", "undo"}

(* How far the pool has served a call, and who else holds its connection. *)
HandlesOf(r) ==
  /\ pc[r] = "idle" => lease[r] = "none"
  /\ Getting(r) => lease[r] \in {"queued", "granted", "opening"}
  /\ pc[r] \in Live => lease[r] = "held"
  /\ pc[r] = "ended" => lease[r] \in {"none", "held", "returned"}
  /\ guard[r] = "armed" => pc[r] \in Guarded
  /\ guard[r] = "spawned" => pc[r] = "ended" /\ lease[r] = "held"
  /\ stash[r] # "none" => pc[r] \in Guarded \cup {"ended"} /\ lease[r] = "held"

(* A job of a guard or of a stashed engine belongs to a handle that still  *)
(* pins the connection it runs on, and is the only one of that handle.     *)
HandleOfJob(j) ==
  /\ j.by = "guard" =>
       j.op = "ROLLBACK" /\ guard[j.req] = "spawned" /\ conn[j.req] = j.conn
  /\ j.by = "stash" =>
       j.op = "STMT" /\ stash[j.req] = "stmt" /\ conn[j.req] = j.conn

HandleInv ==
  /\ HandleTypeOK
  /\ \A r \in Req : HandlesOf(r)
  /\ \A j \in jobs : HandleOfJob(j)

EngineInv == PoolInv /\ HandleInv

(* What is added when no future is dropped. *)

TxTypeOK ==
  /\ reply \in [Req -> {"none", "ok", "err"}]
  /\ result \in [Req -> {"none", "done", "ok", "err", "lost"}]
  /\ session \in [Conn -> Req \cup {NoTx, Leaked}]
  /\ committed \in SUBSET (Req \cup {Leaked})

(* The statement a call awaits. *)
Awaits(r, op) ==
  \/ pc[r] \in {"query", "stmt"} /\ op = "STMT"
  \/ pc[r] = "begin" /\ op = "BEGIN"
  \/ pc[r] = "commit" /\ op = "COMMIT"
  \/ pc[r] = "undo" /\ op = "ROLLBACK"

(* The job of a call is the statement the call awaits, on its connection. *)
AwaitedJob(j) ==
  j.by = "call" => reply[j.req] = "none" /\ conn[j.req] = j.conn /\ Awaits(j.req, j.op)

(* The connection of r is certainly in the transaction of r, ... *)
Inside(r) ==
  \/ pc[r] \in {"body", "stmt"}
  \/ pc[r] = "begin" /\ reply[r] = "ok"
  \/ pc[r] = "commit" /\ reply[r] = "none"
  \/ pc[r] = "ended" /\ guard[r] = "spawned"

(* ... or certainly in none; after a failed COMMIT or ROLLBACK it may be   *)
(* either, and is not given back before it is known or poisoned.           *)
Outside(r) ==
  \/ pc[r] = "query"
  \/ pc[r] = "begin" /\ reply[r] # "ok"
  \/ pc[r] \in {"commit", "undo"} /\ reply[r] = "ok"
  \/ pc[r] = "ended" /\ guard[r] # "spawned" /\ r \notin poisoned

SessionOf(r) ==
  lease[r] = "held" =>
    /\ session[conn[r]] \in {NoTx, r}
    /\ Inside(r) => session[conn[r]] = r
    /\ Outside(r) => session[conn[r]] = NoTx

(* The only answers and results there are, and what they say of COMMIT. *)
AnswersOf(r) ==
  /\ reply[r] # "none" => pc[r] \in Live \ {"body"}
  /\ result[r] # "none" => pc[r] = "ended"
  /\ r \in committed <=> \/ pc[r] = "commit" /\ reply[r] = "ok"
                         \/ result[r] = "ok"

TxInv ==
  /\ TxTypeOK
  /\ \A r \in Req : SessionOf(r) /\ AnswersOf(r)
  /\ \A j \in jobs : AwaitedJob(j)
  /\ NoInheritedTransaction

---------------------------------------------------------------------------
(* The pool below the engine *)

(* Each step of the engine is a step of the pool or does not touch it. *)
LEMMA EnginePoolStep ==
  ASSUME HandleTypeOK, [EngineNext]_engineVars
  PROVE  [PoolNext]_poolVars
<1>1. ASSUME NEW r \in Req, Start(r) \/ GetTimesOut(r) PROVE PoolNext
  BY <1>1 DEF Start, GetTimesOut, PoolNext
<1>2. ASSUME NEW r \in Req, Get(r) PROVE PoolNext
  BY <1>2 DEF Get, GetFindsNoIdle, GetCannotOpen, GetPops, GetOpens, PoolNext, Progress
<1>3. ASSUME NEW r \in Req, Resume(r) PROVE [PoolNext]_poolVars
  <2>1. CASE UndoReturns(r)
    BY <2>1 DEF UndoReturns, PoolNext
  <2>2. QED
    BY <1>3, <2>1 DEF Resume, QueryReturns, Began, BeginFailed, Sent, CommitReturns,
       CommitFailed
<1>4. ASSUME NEW r \in Req,
             Body(r) \/ LeaveBody(r) \/ StashSends(r) \/ StashDropped(r) \/ Reuse(r)
      PROVE  UNCHANGED poolVars
  BY <1>4 DEF Body, Send, Stash, LeaveBody, ReturnOk, ReturnErr, ReturnFromBody, Panic,
     SpawnRollback, StashSends, StashDropped, Reuse
<1>5. ASSUME NEW r \in Req, Cancel(r) PROVE [PoolNext]_poolVars
  <2>1. CASE CancelWaiting(r)
    BY <2>1 DEF CancelWaiting, PoolNext
  <2>2. CASE CancelUnguarded(r)
    BY <2>2 DEF CancelUnguarded
  <2>3. CASE CancelGuarded(r) /\ SpawnRollback(r)
    BY <2>3 DEF SpawnRollback
  <2>4. CASE CancelGuarded(r) /\ RollbackInDrop(r)
    BY <2>4 DEF RollbackInDrop, PoolNext
  <2>5. QED
    BY <1>5, <2>1, <2>2, <2>3, <2>4 DEF Cancel, CancelGuarded
<1>6. ASSUME NEW r \in Req, HandBack(r) \/ FreePermit(r) PROVE PoolNext
  BY <1>6 DEF HandBack, FreePermit, PoolNext, Progress, GiveBack
<1>7. ASSUME NEW j \in jobs, RunCall(j) \/ RunStash(j) PROVE UNCHANGED poolVars
  BY <1>7 DEF RunCall, RunStash
<1>8. ASSUME NEW j \in jobs, RunGuard(j) PROVE [PoolNext]_poolVars
  BY <1>8 DEF RunGuard, PoolNext, HandleTypeOK, Job
<1>9. CASE UNCHANGED engineVars
  BY <1>9 DEF engineVars
<1>10. QED
  BY <1>1, <1>2, <1>3, <1>4, <1>5, <1>6, <1>7, <1>8, <1>9 DEF EngineNext

---------------------------------------------------------------------------
(* The other requests when r takes a step: the most that can happen to one *)
(* is that it is handed the permit it waits for.                           *)
OthersWait(r) ==
  \A q \in Req \ {r} :
    /\ pc'[q] = pc[q]
    /\ guard'[q] = guard[q]
    /\ stash'[q] = stash[q]
    /\ conn'[q] = conn[q]
    /\ \/ lease'[q] = lease[q]
       \/ lease[q] = "queued" /\ lease'[q] = "granted"

(* So a step of r has only r to care for, and the job it posts or runs. *)
LEMMA HandleFrame ==
  ASSUME HandleInv, HandleTypeOK', NEW r \in Req, OthersWait(r), HandlesOf(r)',
         \A j \in jobs' : HandleOfJob(j)' \/ (j \in jobs /\ j.req # r)
  PROVE  HandleInv'
<1>1. ASSUME NEW q \in Req, q # r PROVE HandlesOf(q)'
  BY <1>1 DEF HandleInv, HandlesOf, OthersWait, Getting, Live, Guarded
<1>2. ASSUME NEW j \in jobs', j \in jobs, j.req # r PROVE HandleOfJob(j)'
  BY <1>2 DEF HandleInv, HandleTypeOK, Job, HandleOfJob, OthersWait
<1>3. QED
  BY <1>1, <1>2 DEF HandleInv

(* What the invariants say of the connection of a request that holds one. *)
LEMMA HeldConn ==
  ASSUME PoolInv, NEW r \in Req, lease[r] = "held"
  PROVE  /\ conn[r] \in Conn
         /\ conn[r] # NoConn
         /\ conn[r] \in OpenConns
         /\ conn[r] \notin IdleConns
         /\ \A q \in Req : conn[q] = conn[r] => q = r
<1>1. conn[r] # NoConn /\ conn[r] \in Conn
  BY DEF PoolInv, ConnInv, HoldersHold, TypeOK
<1>2. QED
  BY <1>1 DEF PoolInv, ConnInv, ExclusiveCheckout, OpenConns, HeldConns, IdleConns

(* get: r begins to wait for a permit or gets one at once, ... *)
LEMMA WaitStep ==
  ASSUME PoolInv, NEW r \in Req, Acquire(r) \/ Enqueue(r)
  PROVE  /\ lease[r] = "none"
         /\ lease'[r] \in {"granted", "queued"}
         /\ \A q \in Req \ {r} : lease'[q] = lease[q]
         /\ UNCHANGED connVars
BY DEF Acquire, Enqueue, TakePermit, WaitInQueue, PoolInv, ConnInv, TypeOK, SemTypeOK

(* ... gives up waiting, ... *)
LEMMA GiveUpStep ==
  ASSUME PoolInv, NEW r \in Req, StopWaiting(r)
  PROVE  /\ lease[r] = "queued"
         /\ lease'[r] = "none"
         /\ \A q \in Req \ {r} : lease'[q] = lease[q]
BY DEF StopWaiting, PoolInv, ConnInv, TypeOK, SemTypeOK

(* ... loses a permit it owned, ... *)
LEMMA DropStep ==
  ASSUME PoolInv, NEW r \in Req, lease[r] \in WithPermit, DropPermit(r)
  PROVE  /\ lease'[r] = "none"
         /\ \A q \in Req \ {r} :
              \/ lease'[q] = lease[q]
              \/ lease[q] = "queued" /\ lease'[q] = "granted"
BY DropPermitInv DEF PoolInv

(* ... or moves on with the permit it has. *)
LEMMA AdvanceStep ==
  ASSUME PoolInv, NEW r \in Req, NEW from, NEW to \in LeaseState, Advance(r, from, to)
  PROVE  /\ lease[r] = from
         /\ lease'[r] = to
         /\ \A q \in Req \ {r} : lease'[q] = lease[q]
BY DEF Advance, PoolInv, ConnInv, TypeOK, SemTypeOK

(* A connection that is taken from the pool is the one r then holds. *)
LEMMA TakeStep ==
  ASSUME PoolInv, NEW r \in Req, PopIdle(r) \/ \E c \in Conn : Open(r, c)
  PROVE  /\ lease[r] \in {"granted", "opening"}
         /\ lease'[r] = "held"
         /\ conn'[r] \in Conn
         /\ conn'[r] \notin HeldConns
         /\ \A q \in Req \ {r} : lease'[q] = lease[q] /\ conn'[q] = conn[q]
<1> USE DEF PoolInv, ConnInv, TypeOK, SemTypeOK
<1>1. CASE PopIdle(r)
  <2>1. idle # <<>> /\ Len(idle) \in 1..Len(idle) /\ idle[Len(idle)] \in Conn
    BY <1>1 DEF PopIdle, PopInto
  <2>2. idle[Len(idle)] \notin HeldConns
    BY <2>1 DEF ExclusiveCheckout, HeldConns
  <2>3. QED
    BY <1>1, <2>1, <2>2 DEF PopIdle, PopInto, Advance
<1>2. ASSUME NEW c \in Conn, Open(r, c)
      PROVE  /\ lease[r] \in {"granted", "opening"}
             /\ lease'[r] = "held"
             /\ conn'[r] \in Conn
             /\ conn'[r] \notin HeldConns
             /\ \A q \in Req \ {r} : lease'[q] = lease[q] /\ conn'[q] = conn[q]
  BY <1>2 DEF Open, Advance, OpenConns
<1>3. QED
  BY <1>1, <1>2

(* A job is posted: nothing else joins the jobs. *)
LEMMA PostTypes ==
  ASSUME HandleTypeOK, NEW r \in Req, NEW by \in {"call", "guard", "stash"},
         NEW op \in Sql, NEW c \in Conn, Post(r, by, op, c)
  PROVE  /\ jobs' \in SUBSET Job
         /\ \A j \in jobs' : \/ j \in jobs
                             \/ j.req = r /\ j.by = by /\ j.op = op /\ j.conn = c
BY DEF Post, HandleTypeOK, Job

---------------------------------------------------------------------------
(* The steps of the engine preserve HandleInv *)

(* At the start nobody has called. *)
LEMMA HandleInitInv == EngineInit => HandleInv
BY DEF EngineInit, CallInit, PoolInit, SemInit, HandleInv, HandleTypeOK, Where, HandlesOf,
   HandleOfJob, Getting, Live

(* While r waits for the pool it has no handle and no job but its own.     *)
LEMMA HandleGet ==
  ASSUME EngineInv, NEW r \in Req,
         Start(r) \/ GetTimesOut(r) \/ GetFindsNoIdle(r) \/ GetCannotOpen(r)
          \/ CancelWaiting(r)
  PROVE  HandleInv'
<1> USE DEF EngineInv, HandleInv, HandleTypeOK
<1>1. /\ pc[r] \in {"idle", "getQuery", "getTx"}
      /\ pc'[r] \in {"getQuery", "getTx", "ended"}
      /\ pc' = [pc EXCEPT ![r] = pc'[r]]
      /\ UNCHANGED <<jobs, guard, stash, conn>>
  BY DEF Start, GetTimesOut, GetFindsNoIdle, GetCannotOpen, CancelWaiting, Goto, Finish,
     Getting, Acquire, Enqueue, Timeout, FindEmpty, OpenFails, CancelGet, callVars, txVars,
     dbVars, connVars, Where
<1>2. /\ \A q \in Req \ {r} : \/ lease'[q] = lease[q]
                              \/ lease[q] = "queued" /\ lease'[q] = "granted"
      /\ pc'[r] = "ended" => lease'[r] = "none"
      /\ Getting(r)' => lease'[r] \in {"queued", "granted", "opening"}
  <2>1. CASE Start(r)
    BY <2>1, WaitStep DEF Start, Goto
  <2>2. CASE GetTimesOut(r)
    BY <2>2, GiveUpStep DEF GetTimesOut, Timeout, Finish, Getting
  <2>3. CASE GetFindsNoIdle(r)
    <3>1. lease'[r] = "opening" /\ \A q \in Req \ {r} : lease'[q] = lease[q]
      BY <2>3, AdvanceStep DEF GetFindsNoIdle, FindEmpty, LeaseState
    <3>2. QED
      BY <2>3, <3>1 DEF GetFindsNoIdle, callVars, Getting
  <2>4. CASE GetCannotOpen(r)
    BY <2>4, DropStep DEF GetCannotOpen, OpenFails, Finish, Getting, WithPermit
  <2>5. CASE CancelWaiting(r)
    BY <2>5, GiveUpStep, DropStep DEF CancelWaiting, CancelGet, Finish, Getting, WithPermit
  <2>6. QED
    BY <2>1, <2>2, <2>3, <2>4, <2>5
<1>3. OthersWait(r)
  BY <1>1, <1>2 DEF OthersWait
<1>4. guard[r] = "none" /\ stash[r] = "none"
  BY <1>1 DEF HandlesOf, Guarded
<1>5. HandlesOf(r)'
  BY <1>1, <1>2, <1>4 DEF HandlesOf, Live, Getting
<1>6. \A j \in jobs' : HandleOfJob(j)' \/ (j \in jobs /\ j.req # r)
  BY <1>1, <1>4 DEF HandleOfJob
<1>7. HandleTypeOK'
  BY <1>1 DEF Where
<1> HIDE DEF EngineInv, HandleInv, HandleTypeOK
<1>8. QED
  BY <1>3, <1>5, <1>6, <1>7, HandleFrame DEF EngineInv

(* get returns: r holds a connection and has posted its first statement. *)
LEMMA HandleFirst ==
  ASSUME EngineInv, NEW r \in Req, GetPops(r) \/ GetOpens(r)
  PROVE  HandleInv'
<1> USE DEF EngineInv, HandleInv, HandleTypeOK
<1>1. /\ PopIdle(r) \/ \E c \in Conn : Open(r, c)
      /\ UNCHANGED <<guard, stash>>
  BY DEF GetPops, GetOpens, txVars
<1>2. /\ lease'[r] = "held"
      /\ conn'[r] \in Conn
      /\ \A q \in Req \ {r} : lease'[q] = lease[q] /\ conn'[q] = conn[q]
  BY <1>1, TakeStep
<1>3. PICK c \in Conn : FirstStatement(r, c)
  BY <1>2 DEF GetPops, GetOpens
<1>4. /\ pc[r] \in {"getQuery", "getTx"}
      /\ pc'[r] \in {"query", "begin"}
      /\ pc' = [pc EXCEPT ![r] = pc'[r]]
  BY <1>3 DEF FirstStatement, Goto, Where
<1>5. /\ jobs' \in SUBSET Job
      /\ \A j \in jobs' : j \in jobs \/ (j.req = r /\ j.by = "call")
  <2>1. Post(r, "call", "STMT", c) \/ Post(r, "call", "BEGIN", c)
    BY <1>3 DEF FirstStatement
  <2>2. QED
    BY <2>1, PostTypes DEF Sql
<1>6. guard[r] = "none" /\ stash[r] = "none"
  BY <1>4 DEF HandlesOf, Guarded
<1>7. HandlesOf(r)'
  BY <1>1, <1>2, <1>4, <1>6 DEF HandlesOf, Live, Getting
<1>8. OthersWait(r)
  BY <1>1, <1>2, <1>4 DEF OthersWait
<1>9. \A j \in jobs' : HandleOfJob(j)' \/ (j \in jobs /\ j.req # r)
  BY <1>5, <1>6 DEF HandleOfJob
<1>10. HandleTypeOK'
  BY <1>1, <1>4, <1>5 DEF Where
<1> HIDE DEF EngineInv, HandleInv, HandleTypeOK
<1>11. QED
  BY <1>7, <1>8, <1>9, <1>10, HandleFrame DEF EngineInv

(* A call that runs, whose connection stays where it is: it moves on, and  *)
(* may post a statement of its own.                                        *)
LEMMA HandleMove ==
  ASSUME EngineInv, NEW r \in Req,
         pc[r] \in Live, pc'[r] \in Live \cup {"ended"}, pc' = [pc EXCEPT ![r] = pc'[r]],
         UNCHANGED <<semVars, conn>>,
         guard'[r] \in {"none", "armed"}, guard' = [guard EXCEPT ![r] = guard'[r]],
         stash'[r] \in {stash[r], "open"}, stash[r] # "none" => stash'[r] = stash[r],
         stash' = [stash EXCEPT ![r] = stash'[r]],
         guard'[r] = "armed" \/ stash'[r] # "none" => pc'[r] \in Guarded \cup {"ended"},
         guard'[r] = "armed" => pc'[r] \in Guarded,
         jobs' \in SUBSET Job,
         \A j \in jobs' : j \in jobs \/ (j.req = r /\ j.by = "call")
  PROVE  HandleInv'
<1> USE DEF EngineInv, HandleInv, HandleTypeOK
<1>1. lease[r] = "held" /\ guard[r] # "spawned"
  BY DEF HandlesOf, Live
<1>2. HandlesOf(r)'
  BY <1>1 DEF HandlesOf, Live, Getting, Guarded, semVars
<1>3. OthersWait(r)
  BY DEF OthersWait, semVars
<1>4. \A j \in jobs' : HandleOfJob(j)' \/ (j \in jobs /\ j.req # r)
  BY <1>1 DEF HandleOfJob, Job
<1>5. HandleTypeOK'
  BY DEF Where, Live
<1> HIDE DEF EngineInv, HandleInv, HandleTypeOK
<1>6. QED
  BY <1>2, <1>3, <1>4, <1>5, HandleFrame DEF EngineInv

(* What a call does when it is polled, what f does, and a call that is     *)
(* dropped before it has a guard.                                          *)
LEMMA HandleRuns ==
  ASSUME EngineInv, NEW r \in Req,
         Resume(r) \/ Body(r) \/ ReturnOk(r) \/ ReturnErr(r) \/ CancelUnguarded(r)
  PROVE  HandleInv'
<1> USE DEF EngineInv, HandleInv, HandleTypeOK
<1>1. pc[r] \in Live
  BY DEF Resume, QueryReturns, Began, BeginFailed, Sent, CommitReturns, CommitFailed,
     UndoReturns, Body, Send, Stash, ReturnOk, ReturnErr, ReturnFromBody, CancelUnguarded,
     Goto, Live
<1>2. /\ lease[r] = "held" /\ conn[r] \in Conn
      /\ guard[r] = "none" \/ (guard[r] = "armed" /\ pc[r] \in Guarded)
      /\ stash[r] # "none" => pc[r] \in Guarded
  <2>1. HandlesOf(r) /\ pc[r] # "ended" /\ guard[r] \in {"none", "armed", "spawned"}
    BY <1>1 DEF Live
  <2>2. lease[r] = "held"
    BY <1>1, <2>1 DEF HandlesOf
  <2>3. QED
    BY <2>1, <2>2, HeldConn DEF HandlesOf
<1>3. UNCHANGED <<semVars, conn>>
  BY DEF Resume, QueryReturns, Began, BeginFailed, Sent, CommitReturns, CommitFailed,
     UndoReturns, Body, Send, Stash, ReturnOk, ReturnErr, ReturnFromBody, CancelUnguarded,
     poolVars, connVars, Poison
<1>4. /\ jobs' \in SUBSET Job
      /\ \A j \in jobs' : j \in jobs \/ (j.req = r /\ j.by = "call")
  <2>1. ASSUME NEW op \in Sql, Post(r, "call", op, conn[r])
        PROVE  /\ jobs' \in SUBSET Job
               /\ \A j \in jobs' : j \in jobs \/ (j.req = r /\ j.by = "call")
    BY <1>2, <2>1, PostTypes
  <2>2. CASE Send(r) \/ ReturnOk(r) \/ ReturnErr(r) \/ CommitFailed(r)
    BY <2>1, <2>2 DEF Send, ReturnOk, ReturnErr, ReturnFromBody, CommitFailed, Sql
  <2>3. CASE ~ (Send(r) \/ ReturnOk(r) \/ ReturnErr(r) \/ CommitFailed(r))
    BY <2>3 DEF Resume, QueryReturns, Began, BeginFailed, Sent, CommitReturns,
       UndoReturns, Body, Stash, CancelUnguarded, dbVars
  <2>4. QED
    BY <2>2, <2>3
<1>5. /\ pc'[r] \in Live \cup {"ended"}
      /\ pc' = [pc EXCEPT ![r] = pc'[r]]
      /\ guard'[r] \in {"none", "armed"}
      /\ guard' = [guard EXCEPT ![r] = guard'[r]]
      /\ stash'[r] \in {stash[r], "open"}
      /\ stash[r] # "none" => stash'[r] = stash[r]
      /\ stash' = [stash EXCEPT ![r] = stash'[r]]
      /\ guard'[r] = "armed" => pc'[r] \in Guarded
      /\ stash'[r] # "none" => pc'[r] \in Guarded \cup {"ended"}
  <2>1. CASE QueryReturns(r) \/ BeginFailed(r) \/ CancelUnguarded(r)
    BY <1>2, <2>1 DEF QueryReturns, BeginFailed, CancelUnguarded, Finish, txVars, Guarded
  <2>2. CASE Began(r)
    BY <1>2, <2>2 DEF Began, Goto, Live, Guarded
  <2>3. CASE Sent(r) \/ Send(r) \/ ReturnOk(r) \/ ReturnErr(r) \/ CommitFailed(r)
    BY <1>2, <2>3 DEF Sent, Send, ReturnOk, ReturnErr, ReturnFromBody, CommitFailed, Goto,
       txVars, Live, Guarded
  <2>4. CASE CommitReturns(r) \/ UndoReturns(r)
    BY <1>2, <2>4 DEF CommitReturns, UndoReturns, Finish, Disarm
  <2>5. CASE Stash(r)
    BY <1>2, <2>5 DEF Stash, callVars, Live, Guarded
  <2>6. QED
    BY <2>1, <2>2, <2>3, <2>4, <2>5 DEF Resume, Body
<1> HIDE DEF EngineInv, HandleInv, HandleTypeOK
<1>6. QED
  BY <1>1, <1>3, <1>4, <1>5, HandleMove

(* f panics, or the call is dropped with its guard armed: the call is over *)
(* and the guard's task, if there is a runtime for it, keeps the           *)
(* connection.                                                             *)
LEMMA HandleLost ==
  ASSUME EngineInv, NEW r \in Req, Panic(r) \/ CancelGuarded(r)
  PROVE  HandleInv'
<1> USE DEF EngineInv, HandleInv, HandleTypeOK
<1>1. /\ pc[r] \in Guarded
      /\ pc' = [pc EXCEPT ![r] = "ended"]
      /\ UNCHANGED stash
      /\ SpawnRollback(r) \/ RollbackInDrop(r)
  BY DEF Panic, CancelGuarded, Finish, Guarded
<1>2. lease[r] = "held" /\ conn[r] \in Conn
  BY <1>1, HeldConn DEF HandlesOf, Live, Guarded
<1>3. UNCHANGED <<semVars, conn>>
  BY <1>1 DEF SpawnRollback, RollbackInDrop, poolVars, connVars, Poison
<1>4. OthersWait(r)
  BY <1>1, <1>3 DEF OthersWait, SpawnRollback, RollbackInDrop, semVars
<1>5. CASE SpawnRollback(r)
  <2>1. /\ jobs' \in SUBSET Job
        /\ \A j \in jobs' : \/ j \in jobs
                            \/ /\ j.req = r /\ j.by = "guard"
                               /\ j.op = "ROLLBACK" /\ j.conn = conn[r]
    BY <1>2, <1>5, PostTypes DEF SpawnRollback, Sql
  <2>2. guard' = [guard EXCEPT ![r] = "spawned"] /\ guard[r] = "armed"
    BY <1>5 DEF SpawnRollback
  <2>3. HandlesOf(r)'
    BY <1>1, <1>2, <1>3, <2>2 DEF HandlesOf, Live, Getting, semVars
  <2>4. \A j \in jobs' : HandleOfJob(j)' \/ (j \in jobs /\ j.req # r)
    BY <1>1, <1>3, <2>1, <2>2 DEF HandleOfJob
  <2>5. HandleTypeOK'
    BY <1>1, <2>1, <2>2 DEF Where
  <2> HIDE DEF EngineInv, HandleInv, HandleTypeOK
  <2>6. QED
    BY <1>4, <2>3, <2>4, <2>5, HandleFrame DEF EngineInv
<1>6. CASE RollbackInDrop(r)
  <2>1. /\ guard' = [guard EXCEPT ![r] = "none"] /\ guard[r] = "armed"
        /\ UNCHANGED jobs
    BY <1>6 DEF RollbackInDrop
  <2>2. HandlesOf(r)'
    BY <1>1, <1>2, <1>3, <2>1 DEF HandlesOf, Live, Getting, semVars
  <2>3. \A j \in jobs' : HandleOfJob(j)' \/ (j \in jobs /\ j.req # r)
    BY <1>1, <1>3, <2>1 DEF HandleOfJob
  <2>4. HandleTypeOK'
    BY <1>1, <2>1 DEF Where
  <2> HIDE DEF EngineInv, HandleInv, HandleTypeOK
  <2>5. QED
    BY <1>4, <2>2, <2>3, <2>4, HandleFrame DEF EngineInv
<1>7. QED
  BY <1>1, <1>5, <1>6

(* A stashed engine sends a statement or is dropped. *)
LEMMA HandleStash ==
  ASSUME EngineInv, NEW r \in Req, StashSends(r) \/ StashDropped(r)
  PROVE  HandleInv'
<1> USE DEF EngineInv, HandleInv, HandleTypeOK
<1>1. stash[r] = "open" /\ UNCHANGED <<pc, guard, semVars, conn>>
  BY DEF StashSends, StashDropped, callVars, poolVars, connVars
<1>2. lease[r] = "held" /\ conn[r] \in Conn
  BY <1>1, HeldConn DEF HandlesOf
<1>3. /\ stash'[r] \in {"none", "stmt"}
      /\ stash' = [stash EXCEPT ![r] = stash'[r]]
      /\ jobs' \in SUBSET Job
      /\ \A j \in jobs' : \/ j \in jobs
                          \/ /\ j.req = r /\ j.by = "stash" /\ stash'[r] = "stmt"
                             /\ j.op = "STMT" /\ j.conn = conn[r]
  <2>1. CASE StashSends(r)
    BY <1>2, <2>1, PostTypes DEF StashSends, Sql
  <2>2. CASE StashDropped(r)
    BY <2>2 DEF StashDropped, dbVars
  <2>3. QED
    BY <2>1, <2>2
<1>4. OthersWait(r)
  BY <1>1, <1>3 DEF OthersWait, semVars
<1>5. HandlesOf(r)'
  BY <1>1, <1>2, <1>3 DEF HandlesOf, Getting, semVars
<1>6. \A j \in jobs' : HandleOfJob(j)' \/ (j \in jobs /\ j.req # r)
  BY <1>1, <1>3 DEF HandleOfJob
<1>7. HandleTypeOK'
  BY <1>1, <1>3 DEF Where
<1> HIDE DEF EngineInv, HandleInv, HandleTypeOK
<1>8. QED
  BY <1>4, <1>5, <1>6, <1>7, HandleFrame DEF EngineInv

(* The connection is given back, when no handle of it is left; then the    *)
(* permit; then the name is reused.                                        *)
LEMMA HandleEnds ==
  ASSUME EngineInv, NEW r \in Req, HandBack(r) \/ FreePermit(r) \/ Reuse(r)
  PROVE  HandleInv'
<1> USE DEF EngineInv, HandleInv, HandleTypeOK
<1>1. /\ UNCHANGED <<guard, stash, jobs>>
      /\ guard[r] = "none" /\ stash[r] = "none"
      /\ pc[r] = "ended"
  <2>1. CASE HandBack(r)
    BY <2>1 DEF HandBack, Unreferenced, txVars, HandlesOf, Guarded
  <2>2. CASE FreePermit(r)
    BY <2>2 DEF FreePermit, Release, txVars, dbVars, HandlesOf, Live, Guarded, Getting, Where
  <2>3. CASE Reuse(r)
    BY <2>3 DEF Reuse, Forget, Goto, HandlesOf, Guarded
  <2>4. QED
    BY <2>1, <2>2, <2>3
<1>2. /\ \A q \in Req \ {r} :
            /\ pc'[q] = pc[q] /\ conn'[q] = conn[q]
            /\ \/ lease'[q] = lease[q]
               \/ lease[q] = "queued" /\ lease'[q] = "granted"
      /\ \/ pc'[r] = "ended" /\ lease'[r] \in {"none", "returned"}
         \/ pc'[r] = "idle" /\ lease'[r] = "none"
      /\ pc' \in [Req -> Where]
  <2>1. CASE HandBack(r)
    <3>1. Advance(r, "held", "returned") /\ conn' = [conn EXCEPT ![r] = NoConn]
      BY <2>1 DEF HandBack, Recycle, Discard
    <3>2. lease'[r] = "returned" /\ \A q \in Req \ {r} : lease'[q] = lease[q]
      BY <3>1, AdvanceStep DEF LeaseState
    <3>3. QED
      BY <1>1, <2>1, <3>1, <3>2 DEF HandBack, callVars, PoolInv, ConnInv, TypeOK
  <2>2. CASE FreePermit(r)
    BY <1>1, <2>2, DropStep DEF FreePermit, Release, callVars, connVars, WithPermit
  <2>3. CASE Reuse(r)
    BY <2>3 DEF Reuse, Forget, Goto, poolVars, semVars, connVars, Where
  <2>4. QED
    BY <2>1, <2>2, <2>3
<1>3. OthersWait(r)
  BY <1>1, <1>2 DEF OthersWait
<1>4. HandlesOf(r)'
  BY <1>1, <1>2 DEF HandlesOf, Getting, Live
<1>5. \A j \in jobs' : HandleOfJob(j)' \/ (j \in jobs /\ j.req # r)
  BY <1>1 DEF HandleOfJob
<1>6. HandleTypeOK'
  BY <1>1, <1>2
<1> HIDE DEF EngineInv, HandleInv, HandleTypeOK
<1>7. QED
  BY <1>3, <1>4, <1>5, <1>6, HandleFrame DEF EngineInv

(* The database runs a job; a guard's task or a stashed engine then has    *)
(* none left.                                                              *)
LEMMA HandleJob ==
  ASSUME EngineInv, NEW j \in jobs, RunCall(j) \/ RunGuard(j) \/ RunStash(j)
  PROVE  HandleInv'
<1> USE DEF EngineInv, HandleInv, HandleTypeOK
<1>1. PICK r \in Req : r = j.req
  BY DEF Job
<1>2. jobs' = jobs \ {j} /\ UNCHANGED <<pc, semVars, conn>>
  BY DEF RunCall, RunGuard, RunStash, Run, callVars, poolVars, connVars, Poison
<1>3. CASE RunCall(j)
  <2>1. UNCHANGED <<guard, stash>>
    BY <1>3 DEF RunCall, txVars
  <2>2. QED
    BY <1>2, <2>1 DEF HandlesOf, HandleOfJob, Getting, semVars
<1>4. CASE RunGuard(j)
  <2>1. j.by = "guard" /\ guard' = [guard EXCEPT ![r] = "none"] /\ UNCHANGED stash
    BY <1>1, <1>4 DEF RunGuard
  <2>2. HandlesOf(r)' /\ OthersWait(r)
    BY <1>2, <2>1 DEF HandlesOf, OthersWait, Getting, semVars
  <2>3. \A k \in jobs' : HandleOfJob(k)' \/ (k \in jobs /\ k.req # r)
    BY <1>1, <1>2, <2>1 DEF HandleOfJob, Job
  <2>4. HandleTypeOK'
    BY <1>2, <2>1
  <2> HIDE DEF EngineInv, HandleInv, HandleTypeOK
  <2>5. QED
    BY <2>2, <2>3, <2>4, HandleFrame DEF EngineInv
<1>5. CASE RunStash(j)
  <2>1. j.by = "stash" /\ stash' = [stash EXCEPT ![r] = "open"] /\ UNCHANGED guard
    BY <1>1, <1>5 DEF RunStash
  <2>2. stash[r] = "stmt"
    BY <1>1, <2>1 DEF HandleOfJob
  <2>3. HandlesOf(r)' /\ OthersWait(r)
    BY <1>2, <2>1, <2>2 DEF HandlesOf, OthersWait, Getting, semVars
  <2>4. \A k \in jobs' : HandleOfJob(k)' \/ (k \in jobs /\ k.req # r)
    BY <1>1, <1>2, <2>1 DEF HandleOfJob, Job
  <2>5. HandleTypeOK'
    BY <1>2, <2>1
  <2> HIDE DEF EngineInv, HandleInv, HandleTypeOK
  <2>6. QED
    BY <2>3, <2>4, <2>5, HandleFrame DEF EngineInv
<1>6. QED
  BY <1>3, <1>4, <1>5

(* Every step of the engine preserves HandleInv. *)
LEMMA HandleStepInv == EngineInv /\ [EngineNext]_engineVars => HandleInv'
<1> SUFFICES ASSUME EngineInv, [EngineNext]_engineVars PROVE HandleInv'
  OBVIOUS
<1>1. ASSUME NEW r \in Req, Get(r) \/ Start(r) \/ GetTimesOut(r) PROVE HandleInv'
  BY <1>1, HandleGet, HandleFirst DEF Get
<1>2. ASSUME NEW r \in Req, Resume(r) \/ Body(r) \/ LeaveBody(r) PROVE HandleInv'
  BY <1>2, HandleRuns, HandleLost DEF LeaveBody
<1>3. ASSUME NEW r \in Req, Cancel(r) PROVE HandleInv'
  BY <1>3, HandleGet, HandleRuns, HandleLost DEF Cancel
<1>4. ASSUME NEW r \in Req,
             StashSends(r) \/ StashDropped(r) \/ HandBack(r) \/ FreePermit(r) \/ Reuse(r)
      PROVE  HandleInv'
  BY <1>4, HandleStash, HandleEnds
<1>5. ASSUME NEW j \in jobs, RunCall(j) \/ RunGuard(j) \/ RunStash(j) PROVE HandleInv'
  BY <1>5, HandleJob
<1>6. CASE UNCHANGED engineVars
  BY <1>6 DEF engineVars, callVars, txVars, dbVars, poolVars, semVars, connVars, EngineInv,
     HandleInv, HandleTypeOK, HandlesOf, HandleOfJob, Getting
<1>7. QED
  BY <1>1, <1>2, <1>3, <1>4, <1>5, <1>6 DEF EngineNext

(* Cancelled calls, panics, failing statements and stashed engines         *)
(* included, EngineInv is an invariant of the engine.                      *)
THEOREM EngineInvariant == EngineSpec => []EngineInv
<1>1. EngineInit => EngineInv
  BY InitInv, HandleInitInv DEF EngineInit, EngineInv
<1>2. EngineInv /\ [EngineNext]_engineVars => EngineInv'
  <2>1. EngineInv /\ [EngineNext]_engineVars => PoolInv'
    BY EnginePoolStep, StepInv DEF EngineInv, HandleInv
  <2>2. QED
    BY <2>1, HandleStepInv DEF EngineInv
<1>3. QED
  BY <1>1, <1>2, PTL DEF EngineSpec

(* The engine uses the pool only through the pool's own operations, in an  *)
(* order the pool allows: with calls that are dropped, guards that act     *)
(* after their call and engines that outlive it, every step is a step of   *)
(* the pool or does not touch it.                                          *)
THEOREM EngineUsesPool == EngineSpec => UsesPool
<1>1. EngineInit => PoolInit
  BY DEF EngineInit
<1>2. EngineInv /\ [EngineNext]_engineVars => [PoolNext]_poolVars
  BY EnginePoolStep DEF EngineInv, HandleInv
<1>3. QED
  BY <1>1, <1>2, EngineInvariant, PTL DEF EngineSpec, UsesPool, PoolSpec

(* As long as the ROLLBACK that a guard spawned has not run, the           *)
(* connection stays checked out by the call that is gone: nobody else can  *)
(* be handed it with the transaction still open.                           *)
THEOREM RollbackComesFirst == EngineSpec => []RollbackBeforeRecycle
<1>1. EngineInv => RollbackBeforeRecycle
  BY DEF EngineInv, HandleInv, HandleTypeOK, Job, HandlesOf, HandleOfJob,
     RollbackBeforeRecycle
<1>2. QED
  BY <1>1, EngineInvariant, PTL

---------------------------------------------------------------------------
(* When no future is dropped, every transaction ends where it began.       *)
(* TxInv is preserved; what is known of the handles, EngineInv, helps.     *)

(* The other requests when r takes a step: their calls, their connections  *)
(* and the sessions in them stay as they are.                              *)
OthersKeep(r) ==
  \A q \in Req \ {r} :
    /\ pc'[q] = pc[q]
    /\ reply'[q] = reply[q]
    /\ result'[q] = result[q]
    /\ guard'[q] = guard[q]
    /\ conn'[q] = conn[q]
    /\ q \in committed' <=> q \in committed
    /\ q \in poisoned' <=> q \in poisoned
    /\ lease'[q] = "held" => lease[q] = "held" /\ session'[conn[q]] = session[conn[q]]

(* So a step of r has only r, its job and the idle connections to care for. *)
LEMMA TxFrame ==
  ASSUME EngineInv, TxInv, TxTypeOK', NEW r \in Req, OthersKeep(r),
         SessionOf(r)', AnswersOf(r)',
         \A j \in jobs' : AwaitedJob(j)' \/ (j \in jobs /\ j.req # r),
         NoInheritedTransaction'
  PROVE  TxInv'
<1>1. ASSUME NEW q \in Req, q # r PROVE SessionOf(q)' /\ AnswersOf(q)'
  <2>1. SessionOf(q) /\ AnswersOf(q)
    BY <1>1 DEF TxInv
  <2>2. SessionOf(q)'
    BY <1>1, <2>1 DEF SessionOf, Inside, Outside, OthersKeep
  <2>3. AnswersOf(q)'
    BY <1>1, <2>1 DEF AnswersOf, OthersKeep
  <2>4. QED
    BY <2>2, <2>3
<1>2. ASSUME NEW j \in jobs', j \in jobs, j.req # r PROVE AwaitedJob(j)'
  <2>1. j.req \in Req /\ AwaitedJob(j)
    BY <1>2 DEF TxInv, EngineInv, HandleInv, HandleTypeOK, Job
  <2>2. QED
    BY <1>2, <2>1 DEF AwaitedJob, Awaits, OthersKeep
<1>3. QED
  BY <1>1, <1>2 DEF TxInv

(* A request is in one of the places of pc, and its connection, when it    *)
(* has one, is nobody else's and not idle.                                 *)
LEMMA CallFacts ==
  ASSUME EngineInv, TxInv, NEW r \in Req
  PROVE  /\ pc[r] \in Where /\ HandlesOf(r) /\ SessionOf(r) /\ AnswersOf(r)
         /\ reply[r] \in {"none", "ok", "err"}
         /\ pc[r] \in Live => lease[r] = "held"
         /\ lease[r] = "held" =>
              /\ conn[r] \in Conn
              /\ conn[r] \notin IdleConns
              /\ \A q \in Req \ {r} : conn[q] # conn[r]
<1>1. lease[r] = "held" =>
        /\ conn[r] \in Conn
        /\ conn[r] \notin IdleConns
        /\ \A q \in Req \ {r} : conn[q] # conn[r]
  BY HeldConn DEF EngineInv
<1>2. QED
  BY <1>1 DEF EngineInv, HandleInv, HandleTypeOK, HandlesOf, TxInv, TxTypeOK

(* A call that awaits nothing, or has its answer, has no job. *)
LEMMA NothingPosted ==
  ASSUME EngineInv, TxInv, NEW r \in Req,
         reply[r] # "none" \/ pc[r] \in {"idle", "getQuery", "getTx", "body", "ended"}
  PROVE  \A j \in jobs : j.by = "call" => j.req # r
BY DEF TxInv, AwaitedJob, Awaits

(* At the start nobody has called and every session is in autocommit mode. *)
LEMMA TxInitInv == EngineInit => TxInv
<1> SUFFICES ASSUME EngineInit PROVE TxInv
  OBVIOUS
<1> USE DEF EngineInit, CallInit
<1>1. TxTypeOK
  BY DEF TxTypeOK
<1>2. NoInheritedTransaction
  <2>1. \A c \in IdleConns : c \in Conn
    BY PoolAssumption DEF PoolInit, IdleConns
  <2>2. QED
    BY <2>1 DEF NoInheritedTransaction
<1>3. ASSUME NEW r \in Req PROVE SessionOf(r) /\ AnswersOf(r)
  BY DEF PoolInit, SemInit, SessionOf, AnswersOf
<1>4. QED
  BY <1>1, <1>2, <1>3 DEF TxInv

(* While r waits for the pool it has no session. *)
LEMMA TxGet ==
  ASSUME EngineInv, TxInv, EngineInv', NEW r \in Req,
         Start(r) \/ GetTimesOut(r) \/ GetFindsNoIdle(r) \/ GetCannotOpen(r)
  PROVE  TxInv'
<1> USE DEF TxInv, TxTypeOK
<1>1. /\ pc[r] \in {"idle", "getQuery", "getTx"}
      /\ pc' = [pc EXCEPT ![r] = pc'[r]]
      /\ pc'[r] \in {"getQuery", "getTx", "ended"}
      /\ reply' = [reply EXCEPT ![r] = reply'[r]]
      /\ reply'[r] \in {reply[r], "none"}
      /\ \/ result' = result
         \/ pc'[r] = "ended" /\ result' = [result EXCEPT ![r] = "err"]
      /\ UNCHANGED <<jobs, guard, connVars, session, committed>>
  BY DEF Start, GetTimesOut, GetFindsNoIdle, GetCannotOpen, Goto, Finish,
     Getting, Acquire, Enqueue, Timeout, FindEmpty, OpenFails, callVars, txVars,
     dbVars, EngineInv, HandleInv, HandleTypeOK, Where
<1>2. /\ reply[r] = "none" /\ result[r] = "none" /\ r \notin committed
      /\ \A j \in jobs : j.by = "call" => j.req # r
  BY <1>1, CallFacts, NothingPosted DEF AnswersOf, Live
<1>3. lease'[r] # "held" /\ \A q \in Req \ {r} : lease'[q] = "held" => lease[q] = "held"
  <2>1. CASE Start(r)
    BY <2>1, WaitStep DEF Start, EngineInv
  <2>2. CASE GetTimesOut(r)
    BY <2>2, GiveUpStep DEF GetTimesOut, Timeout, EngineInv
  <2>3. CASE GetFindsNoIdle(r)
    <3>1. lease'[r] = "opening" /\ \A q \in Req \ {r} : lease'[q] = lease[q]
      BY <2>3, AdvanceStep DEF GetFindsNoIdle, FindEmpty, LeaseState, EngineInv
    <3>2. QED
      BY <3>1
  <2>4. CASE GetCannotOpen(r)
    BY <2>4, DropStep DEF GetCannotOpen, OpenFails, WithPermit, EngineInv
  <2>5. QED
    BY <2>1, <2>2, <2>3, <2>4
<1>4. OthersKeep(r)
  BY <1>1, <1>3 DEF OthersKeep, connVars, EngineInv, HandleInv, HandleTypeOK
<1>5. SessionOf(r)' /\ AnswersOf(r)'
  BY <1>1, <1>2, <1>3 DEF SessionOf, AnswersOf
<1>6. \A j \in jobs' : AwaitedJob(j)' \/ (j \in jobs /\ j.req # r)
  BY <1>1, <1>2 DEF AwaitedJob
<1>7. TxTypeOK' /\ NoInheritedTransaction'
  BY <1>1 DEF NoInheritedTransaction, IdleConns, connVars
<1> HIDE DEF TxInv, TxTypeOK
<1>8. QED
  BY <1>4, <1>5, <1>6, <1>7, TxFrame

(* get returns a connection, idle or new, that is in no transaction. *)
LEMMA TxFirst ==
  ASSUME EngineInv, TxInv, EngineInv', NEW r \in Req, GetPops(r) \/ GetOpens(r)
  PROVE  TxInv'
<1> USE DEF TxInv, TxTypeOK
<1>1. /\ PopIdle(r) \/ \E c \in Conn : Open(r, c)
      /\ UNCHANGED <<reply, result, guard, poisoned, committed>>
  BY DEF GetPops, GetOpens, txVars, PopIdle, PopInto, Open
<1>2. /\ lease'[r] = "held"
      /\ conn'[r] \in Conn
      /\ \A q \in Req \ {r} : lease'[q] = lease[q] /\ conn'[q] = conn[q]
  BY <1>1, TakeStep DEF EngineInv
<1>3. FirstStatement(r, conn'[r])
  <2>1. ASSUME NEW c \in Conn, Open(r, c), FirstStatement(r, c)
        PROVE  FirstStatement(r, conn'[r])
    <3>1. conn'[r] = c
      BY <2>1 DEF Open, EngineInv, PoolInv, ConnInv, TypeOK
    <3>2. QED
      BY <2>1, <3>1
  <2>2. QED
    BY <2>1 DEF GetPops, GetOpens
<1>4. /\ pc[r] \in {"getQuery", "getTx"}
      /\ pc'[r] \in {"query", "begin"}
      /\ pc' = [pc EXCEPT ![r] = pc'[r]]
      /\ \A j \in jobs' : \/ j \in jobs
                          \/ j.req = r /\ j.conn = conn'[r] /\ Awaits(r, j.op)'
  BY <1>3, PostTypes, <1>2
     DEF FirstStatement, Goto, Where, EngineInv, HandleInv, HandleTypeOK, Awaits, Sql
<1>5. /\ session'[conn'[r]] = NoTx
      /\ \A q \in Req \ {r} : lease[q] = "held" => session'[conn[q]] = session[conn[q]]
      /\ session' \in [Conn -> Req \cup {NoTx, Leaked}]
      /\ NoInheritedTransaction'
  <2>1. CASE GetPops(r)
    <3>1. UNCHANGED session /\ idle # <<>> /\ idle' = SubSeq(idle, 1, Len(idle) - 1)
          /\ conn'[r] = idle[Len(idle)] /\ idle \in Seq(Conn)
      BY <2>1 DEF GetPops, PopIdle, PopInto, EngineInv, PoolInv, ConnInv, TypeOK
    <3>2. Len(idle) \in 1..Len(idle) /\ IdleConns' \subseteq IdleConns
      BY <3>1 DEF IdleConns
    <3>3. QED
      BY <3>1, <3>2 DEF NoInheritedTransaction, IdleConns
  <2>2. CASE GetOpens(r)
    <3>1. PICK c \in Conn : Open(r, c) /\ session' = [session EXCEPT ![c] = NoTx]
      BY <2>2 DEF GetOpens
    <3>2. c \notin OpenConns /\ conn'[r] = c /\ UNCHANGED idle
      BY <3>1 DEF Open, EngineInv, PoolInv, ConnInv, TypeOK
    <3>3. \A q \in Req : lease[q] = "held" => conn[q] # c
      BY <3>2, HeldConn DEF EngineInv
    <3>4. \A d \in IdleConns : d # c /\ d \in Conn
      BY <3>2 DEF OpenConns, IdleConns, EngineInv, PoolInv, ConnInv, TypeOK
    <3>5. QED
      BY <3>1, <3>2, <3>3, <3>4, HeldConn DEF NoInheritedTransaction, EngineInv, IdleConns
  <2>3. QED
    BY <2>1, <2>2
<1>6. reply[r] = "none" /\ result[r] = "none" /\ r \notin committed
      /\ \A j \in jobs : j.by = "call" => j.req # r
  BY <1>4, CallFacts, NothingPosted DEF AnswersOf, Live
<1>7. OthersKeep(r)
  BY <1>1, <1>2, <1>4, <1>5 DEF OthersKeep, EngineInv, HandleInv, HandleTypeOK
<1>8. SessionOf(r)' /\ AnswersOf(r)'
  BY <1>1, <1>4, <1>5, <1>6 DEF SessionOf, AnswersOf, Inside, Outside
<1>9. \A j \in jobs' : AwaitedJob(j)' \/ (j \in jobs /\ j.req # r)
  BY <1>1, <1>4, <1>6 DEF AwaitedJob
<1>10. TxTypeOK'
  BY <1>1, <1>5
<1> HIDE DEF TxInv, TxTypeOK
<1>11. QED
  BY <1>5, <1>7, <1>8, <1>9, <1>10, TxFrame

(* A call that runs: f, or a call that looks at the answer it awaited.     *)
(* No session changes; the call may post its next statement.               *)
LEMMA TxMove ==
  ASSUME EngineInv, TxInv, NEW r \in Req,
         reply[r] # "none" \/ pc[r] = "body",
         pc' = [pc EXCEPT ![r] = pc'[r]],
         reply' = [reply EXCEPT ![r] = "none"],
         result' = [result EXCEPT ![r] = result'[r]],
         result'[r] \in {"none", "done", "ok", "err", "lost"},
         guard' = [guard EXCEPT ![r] = guard'[r]],
         UNCHANGED <<semVars, idle, conn, session, committed>>,
         \A q \in Req \ {r} : q \in poisoned' <=> q \in poisoned,
         SessionOf(r)', AnswersOf(r)',
         \A j \in jobs' :
           \/ j \in jobs
           \/ j.req = r /\ j.conn = conn[r] /\ (j.by = "call" => Awaits(r, j.op)')
  PROVE  TxInv'
<1> USE DEF TxInv, TxTypeOK
<1>1. \A j \in jobs : j.by = "call" => j.req # r
  BY NothingPosted
<1>2. \A j \in jobs' : AwaitedJob(j)' \/ (j \in jobs /\ j.req # r)
  BY <1>1 DEF AwaitedJob
<1>3. OthersKeep(r)
  BY DEF OthersKeep, semVars, EngineInv, HandleInv, HandleTypeOK
<1>4. TxTypeOK' /\ NoInheritedTransaction'
  BY DEF NoInheritedTransaction, IdleConns
<1> HIDE DEF TxInv, TxTypeOK
<1>5. QED
  BY <1>2, <1>3, <1>4, TxFrame

(* The answers a call looks at, one after the other. *)
LEMMA TxResume ==
  ASSUME EngineInv, TxInv, NEW r \in Req, Resume(r)
  PROVE  TxInv'
<1> USE DEF TxInv, TxTypeOK
<1>1. /\ reply[r] # "none"
      /\ pc[r] \in Live \ {"body"}
      /\ lease[r] = "held"
      /\ conn[r] \in Conn
      /\ result[r] = "none"
      /\ r \in committed <=> pc[r] = "commit" /\ reply[r] = "ok"
      /\ guard[r] = "spawned" => pc[r] = "ended"
  <2>1. /\ HandlesOf(r) /\ AnswersOf(r)
        /\ pc[r] \in Live => lease[r] = "held" /\ conn[r] \in Conn
    BY CallFacts
  <2>2. reply[r] # "none"
    BY DEF Resume, QueryReturns, Began, BeginFailed, Sent, CommitReturns, CommitFailed,
       UndoReturns, Consume
  <2>3. QED
    BY <2>1, <2>2 DEF HandlesOf, AnswersOf, Live
<1>2. /\ UNCHANGED <<semVars, idle, conn, session, committed>>
      /\ \A q \in Req \ {r} : q \in poisoned' <=> q \in poisoned
      /\ reply' = [reply EXCEPT ![r] = "none"]
  BY DEF Resume, QueryReturns, Began, BeginFailed, Sent, CommitReturns, CommitFailed,
     UndoReturns, Consume, Finish, poolVars, connVars, Poison, dbVars
<1>3. \A j \in jobs' :
        \/ j \in jobs
        \/ j.req = r /\ j.conn = conn[r] /\ (j.by = "call" => Awaits(r, j.op)')
  <2>1. CASE CommitFailed(r)
    <3>1. pc'[r] = "undo" /\ Post(r, "call", "ROLLBACK", conn[r])
      BY <2>1 DEF CommitFailed, Goto, EngineInv, HandleInv, HandleTypeOK
    <3>2. QED
      BY <3>1 DEF Post, Awaits
  <2>2. CASE ~ CommitFailed(r)
    BY <2>2 DEF Resume, QueryReturns, Began, BeginFailed, Sent, CommitReturns, UndoReturns,
       dbVars
  <2>3. QED
    BY <2>1, <2>2
<1>4. /\ pc' = [pc EXCEPT ![r] = pc'[r]]
      /\ result' = [result EXCEPT ![r] = result'[r]]
      /\ result'[r] \in {"none", "done", "ok", "err", "lost"}
      /\ guard' = [guard EXCEPT ![r] = guard'[r]]
      /\ SessionOf(r)'
      /\ AnswersOf(r)'
  <2> USE <1>1, <1>2 DEF EngineInv, HandleInv, HandleTypeOK, SessionOf, AnswersOf, Inside,
                         Outside, semVars
  <2>1. CASE QueryReturns(r)
    BY <2>1 DEF QueryReturns, Finish, txVars, poolVars, connVars
  <2>2. CASE Began(r)
    BY <2>2 DEF Began, Goto, Consume
  <2>3. CASE BeginFailed(r)
    BY <2>3 DEF BeginFailed, Finish, txVars
  <2>4. CASE Sent(r)
    BY <2>4 DEF Sent, Goto, Consume, txVars
  <2>5. CASE CommitReturns(r)
    BY <2>5 DEF CommitReturns, Finish, Disarm
  <2>6. CASE CommitFailed(r)
    BY <2>6 DEF CommitFailed, Goto, Consume, txVars
  <2>7. CASE UndoReturns(r)
    BY <2>7 DEF UndoReturns, Finish, Disarm, Poison
  <2>8. QED
    BY <2>1, <2>2, <2>3, <2>4, <2>5, <2>6, <2>7 DEF Resume
<1> HIDE DEF TxInv, TxTypeOK
<1>5. QED
  BY <1>1, <1>2, <1>3, <1>4, TxMove

(* What f does, and how it ends. *)
LEMMA TxBody ==
  ASSUME EngineInv, TxInv, NEW r \in Req, Body(r) \/ LeaveBody(r)
  PROVE  TxInv'
<1> USE DEF TxInv, TxTypeOK
<1>1. /\ pc[r] = "body" /\ lease[r] = "held" /\ conn[r] \in Conn
      /\ reply[r] = "none" /\ result[r] = "none" /\ r \notin committed
      /\ session[conn[r]] = r
      /\ guard[r] # "spawned"
  <2>1. pc[r] = "body"
    BY DEF Body, LeaveBody, Send, Stash, ReturnOk, ReturnErr, ReturnFromBody, Panic, Goto
  <2>2. QED
    BY <2>1, CallFacts DEF HandlesOf, SessionOf, AnswersOf, Live, Inside
<1>2. /\ UNCHANGED <<semVars, idle, conn, session, committed, poisoned>>
      /\ reply' = [reply EXCEPT ![r] = "none"]
  BY <1>1 DEF Body, LeaveBody, Send, Stash, ReturnOk, ReturnErr, ReturnFromBody, Panic,
     SpawnRollback, Finish, poolVars, connVars, callVars, dbVars
<1>3. \A j \in jobs' :
        \/ j \in jobs
        \/ j.req = r /\ j.conn = conn[r] /\ (j.by = "call" => Awaits(r, j.op)')
  <2> USE DEF EngineInv, HandleInv, HandleTypeOK, Post, Awaits
  <2>1. CASE Send(r)
    BY <2>1 DEF Send, Goto
  <2>2. CASE Stash(r)
    BY <2>2 DEF Stash, dbVars
  <2>3. CASE ReturnOk(r)
    BY <2>3 DEF ReturnOk, ReturnFromBody, Goto
  <2>4. CASE ReturnErr(r)
    BY <2>4 DEF ReturnErr, ReturnFromBody, Goto
  <2>5. CASE Panic(r)
    BY <2>5 DEF Panic, SpawnRollback
  <2>6. QED
    BY <2>1, <2>2, <2>3, <2>4, <2>5 DEF Body, LeaveBody
<1>4. /\ pc' = [pc EXCEPT ![r] = pc'[r]]
      /\ result' = [result EXCEPT ![r] = result'[r]]
      /\ result'[r] \in {"none", "done", "ok", "err", "lost"}
      /\ guard' = [guard EXCEPT ![r] = guard'[r]]
      /\ SessionOf(r)'
      /\ AnswersOf(r)'
  <2> USE <1>1, <1>2 DEF EngineInv, HandleInv, HandleTypeOK, SessionOf, AnswersOf, Inside,
                         Outside, semVars
  <2>1. CASE Send(r)
    BY <2>1 DEF Send, Goto, txVars, Live
  <2>2. CASE Stash(r)
    BY <2>2 DEF Stash, callVars
  <2>3. CASE ReturnOk(r) \/ ReturnErr(r)
    BY <2>3 DEF ReturnOk, ReturnErr, ReturnFromBody, Goto, Live
  <2>4. CASE Panic(r)
    BY <2>4 DEF Panic, SpawnRollback, Finish
  <2>5. QED
    BY <2>1, <2>2, <2>3, <2>4 DEF Body, LeaveBody
<1> HIDE DEF TxInv, TxTypeOK
<1>5. QED
  BY <1>1, <1>2, <1>3, <1>4, TxMove

(* Steps of which the sessions and the calls see nothing. *)
LEMMA TxQuiet ==
  ASSUME EngineInv, TxInv, NEW r \in Req,
         UNCHANGED <<callVars, guard, connVars, session, committed>>,
         lease'[r] # "held" \/ lease'[r] = lease[r],
         \A q \in Req \ {r} : lease'[q] = "held" => lease[q] = "held",
         \A j \in jobs' : j \in jobs \/ j.by # "call"
  PROVE  TxInv'
<1> USE DEF TxInv, TxTypeOK, callVars, connVars
<1>1. \A q \in Req : SessionOf(q)' /\ AnswersOf(q)'
  <2>1. SUFFICES ASSUME NEW q \in Req PROVE SessionOf(q)' /\ AnswersOf(q)'
    OBVIOUS
  <2>2. lease'[q] = "held" => lease[q] = "held"
    OBVIOUS
  <2>3. QED
    BY <2>2 DEF SessionOf, AnswersOf, Inside, Outside
<1>2. \A j \in jobs' : AwaitedJob(j)'
  BY DEF AwaitedJob, Awaits
<1>3. TxTypeOK' /\ NoInheritedTransaction'
  BY DEF NoInheritedTransaction, IdleConns
<1>4. QED
  BY <1>1, <1>2, <1>3

(* Stashed engines and permits. *)
LEMMA TxBeside ==
  ASSUME EngineInv, TxInv, NEW r \in Req,
         StashSends(r) \/ StashDropped(r) \/ FreePermit(r)
  PROVE  TxInv'
<1>1. /\ UNCHANGED <<callVars, guard, connVars, session, committed>>
      /\ \A j \in jobs' : j \in jobs \/ j.by # "call"
  BY DEF StashSends, StashDropped, FreePermit, Release, Post, poolVars, txVars, dbVars
<1>2. CASE FreePermit(r)
  <2>1. lease'[r] # "held" /\ \A q \in Req \ {r} : lease'[q] = "held" => lease[q] = "held"
    BY <1>2, DropStep DEF FreePermit, Release, WithPermit, EngineInv
  <2>2. QED
    BY <1>1, <2>1, TxQuiet
<1>3. CASE StashSends(r) \/ StashDropped(r)
  <2>1. lease' = lease
    BY <1>3 DEF StashSends, StashDropped, poolVars, semVars
  <2>2. QED
    BY <1>1, <2>1, TxQuiet
<1>4. QED
  BY <1>2, <1>3

(* A connection that is given back is in no transaction; a poisoned one is *)
(* closed, and with it what was open on it.                                *)
LEMMA TxHandBack ==
  ASSUME EngineInv, TxInv, NEW r \in Req, HandBack(r)
  PROVE  TxInv'
<1> USE DEF TxInv, TxTypeOK
<1>1. /\ Unreferenced(r)
      /\ Advance(r, "held", "returned")
      /\ conn' = [conn EXCEPT ![r] = NoConn]
      /\ UNCHANGED <<callVars, guard, jobs, committed>>
      /\ \A q \in Req \ {r} : q \in poisoned' <=> q \in poisoned
  BY DEF HandBack, Recycle, Discard, txVars
<1>2. lease[r] = "held" /\ lease'[r] = "returned" /\ pc[r] = "ended" /\ guard[r] # "spawned"
      /\ \A q \in Req \ {r} : lease'[q] = lease[q]
  BY <1>1, AdvanceStep DEF Unreferenced, LeaseState, EngineInv
<1>3. /\ conn[r] \in Conn /\ conn[r] \notin IdleConns
      /\ \A q \in Req \ {r} : conn[q] # conn[r]
      /\ SessionOf(r) /\ AnswersOf(r)
  BY <1>2, CallFacts
<1>4. \A j \in jobs : j.req # r
  <2>1. \A j \in jobs : j.by = "call" => j.req # r
    BY <1>2, NothingPosted
  <2>2. \A j \in jobs : j.by \in {"guard", "stash"} => j.req # r
    BY <1>1 DEF Unreferenced, EngineInv, HandleInv, HandleOfJob
  <2>3. QED
    BY <2>1, <2>2 DEF EngineInv, HandleInv, HandleTypeOK, Job
<1>5. \A d \in Conn \ {conn[r]} : session'[d] = session[d]
  BY <1>3 DEF HandBack
<1>6. session' \in [Conn -> Req \cup {NoTx, Leaked}]
  BY DEF HandBack
<1>7. NoInheritedTransaction'
  <2>1. IdleConns \subseteq Conn
    BY DEF IdleConns, EngineInv, PoolInv, ConnInv, TypeOK
  <2>2. CASE Recycle(r)
    <3>1. session[conn[r]] = NoTx /\ session' = session
      BY <1>2, <1>3, <2>2 DEF HandBack, Recycle, Discard, SessionOf, Outside
    <3>2. IdleConns' \subseteq IdleConns \cup {conn[r]}
      BY <2>2 DEF Recycle, IdleConns, EngineInv, PoolInv, ConnInv, TypeOK
    <3>3. QED
      BY <3>1, <3>2 DEF NoInheritedTransaction
  <2>3. CASE Discard(r)
    <3>1. IdleConns' = IdleConns
      BY <2>3 DEF Discard, IdleConns
    <3>2. \A d \in IdleConns : session'[d] = session[d]
      BY <1>3, <1>5, <2>1
    <3>3. QED
      BY <3>1, <3>2 DEF NoInheritedTransaction
  <2>4. QED
    BY <2>2, <2>3 DEF HandBack
<1>8. OthersKeep(r)
  <2>1. \A q \in Req \ {r} : lease[q] = "held" => session'[conn[q]] = session[conn[q]]
    BY <1>3, <1>5, CallFacts
  <2>2. QED
    BY <1>1, <1>2, <2>1
       DEF OthersKeep, callVars, EngineInv, PoolInv, ConnInv, TypeOK
<1>9. SessionOf(r)' /\ AnswersOf(r)'
  BY <1>1, <1>2, <1>3 DEF SessionOf, AnswersOf, callVars
<1>10. \A j \in jobs' : AwaitedJob(j)' \/ (j \in jobs /\ j.req # r)
  BY <1>1, <1>4
<1>11. TxTypeOK'
  BY <1>1, <1>6 DEF callVars
<1> HIDE DEF TxInv, TxTypeOK
<1>12. QED
  BY <1>7, <1>8, <1>9, <1>10, <1>11, TxFrame

(* The name of a call whose traces are gone is reused: no connection that  *)
(* is open is in a transaction of its.                                     *)
LEMMA TxReuse ==
  ASSUME EngineInv, TxInv, NEW r \in Req, Reuse(r)
  PROVE  TxInv'
<1> USE DEF TxInv, TxTypeOK
<1>1. /\ pc[r] = "ended" /\ pc' = [pc EXCEPT ![r] = "idle"]
      /\ session' = [c \in Conn |-> IF session[c] = r THEN Leaked ELSE session[c]]
      /\ result' = [result EXCEPT ![r] = "none"]
      /\ committed' = committed \ {r}
      /\ lease[r] = "none"
      /\ \A j \in jobs : j.req # r
      /\ UNCHANGED <<reply, semVars, connVars, guard, jobs>>
  BY DEF Reuse, Forget, Goto, poolVars
<1>2. AnswersOf(r) /\ reply[r] = "none"
  BY <1>1, CallFacts DEF AnswersOf, Live
<1>3. OthersKeep(r)
  <2>1. ASSUME NEW q \in Req, q # r, lease[q] = "held"
        PROVE  session'[conn[q]] = session[conn[q]]
    <3>1. conn[q] \in Conn /\ session[conn[q]] \in {NoTx, q}
      BY <2>1, CallFacts DEF SessionOf
    <3>2. session[conn[q]] # r
      BY <2>1, <3>1, CallAssumption
    <3>3. QED
      BY <1>1, <3>1, <3>2
  <2>2. QED
    BY <1>1, <2>1 DEF OthersKeep, semVars, connVars, EngineInv, HandleInv, HandleTypeOK
<1>4. SessionOf(r)' /\ AnswersOf(r)'
  BY <1>1, <1>2 DEF SessionOf, AnswersOf, semVars, EngineInv, HandleInv, HandleTypeOK
<1>5. TxTypeOK'
  BY <1>1
<1>6. NoInheritedTransaction'
  <2>1. IdleConns' = IdleConns /\ IdleConns \subseteq Conn
    BY <1>1 DEF IdleConns, connVars, EngineInv, PoolInv, ConnInv, TypeOK
  <2>2. QED
    BY <1>1, <2>1, CallAssumption DEF NoInheritedTransaction
<1>7. \A j \in jobs' : AwaitedJob(j)' \/ (j \in jobs /\ j.req # r)
  BY <1>1
<1> HIDE DEF TxInv, TxTypeOK
<1>8. QED
  BY <1>3, <1>4, <1>5, <1>6, <1>7, TxFrame

---------------------------------------------------------------------------
(* What a statement can do to the transaction of the session it runs in.   *)
LEMMA ExecuteFacts ==
  ASSUME EngineInv, TxInv, NEW j \in jobs, NEW v \in {"ok", "err"}, Run(j, v)
  PROVE  LET s == session[j.conn]
             t == session'[j.conn] IN
         /\ session' \in [Conn -> Req \cup {NoTx, Leaked}]
         /\ \A d \in Conn \ {j.conn} : session'[d] = session[d]
         /\ jobs' = jobs \ {j}
         /\ committed' = IF j.op = "COMMIT" /\ v = "ok" THEN committed \cup {s} ELSE committed
         /\ j.op = "STMT" => t = s
         /\ j.op = "BEGIN" => \/ v = "ok" /\ s = NoTx /\ t = j.req
                              \/ v = "err" /\ t = s
         /\ j.op = "COMMIT" => \/ v = "ok" /\ s # NoTx /\ t = NoTx
                               \/ v = "err" /\ t \in {s, NoTx}
         /\ j.op = "ROLLBACK" => \/ v = "ok" /\ s # NoTx /\ t = NoTx
                                 \/ v = "err" /\ t = s
<1> USE DEF TxInv, TxTypeOK
<1>1. j.req \in Req /\ j.op \in Sql /\ j.conn \in Conn
  BY DEF EngineInv, HandleInv, HandleTypeOK, Job
<1>2. PICK o \in Outcomes(j.op, j.req, session[j.conn]) :
        /\ o[1] = v
        /\ session' = [session EXCEPT ![j.conn] = o[2]]
        /\ committed' = IF j.op = "COMMIT" /\ v = "ok"
                          THEN committed \cup {session[j.conn]} ELSE committed
        /\ jobs' = jobs \ {j}
  BY DEF Run, Execute
<1>3. session'[j.conn] = o[2]
  BY <1>1, <1>2
<1>4. CASE j.op = "STMT"
  BY <1>1, <1>2, <1>3, <1>4 DEF Outcomes
<1>5. CASE j.op = "BEGIN"
  BY <1>1, <1>2, <1>3, <1>5 DEF Outcomes
<1>6. CASE j.op = "COMMIT"
  BY <1>1, <1>2, <1>3, <1>6 DEF Outcomes
<1>7. CASE j.op = "ROLLBACK"
  BY <1>1, <1>2, <1>3, <1>7 DEF Outcomes
<1>8. QED
  BY <1>1, <1>4, <1>5, <1>6, <1>7 DEF Sql

(* The database runs the statement a call awaits. *)
LEMMA TxRunCall ==
  ASSUME EngineInv, TxInv, NEW j \in jobs, RunCall(j)
  PROVE  TxInv'
<1> USE DEF TxInv, TxTypeOK
<1>1. PICK r \in Req : r = j.req
  BY DEF EngineInv, HandleInv, HandleTypeOK, Job
<1>2. PICK v \in {"ok", "err"} : Run(j, v) /\ Answer(r, v)
  BY <1>1 DEF RunCall
<1>3. /\ j.by = "call"
      /\ UNCHANGED <<semVars, idle, conn, poisoned, pc, result, guard>>
  BY DEF RunCall, poolVars, connVars, txVars
<1>4. reply[r] = "none" /\ conn[r] = j.conn /\ Awaits(r, j.op)
  BY <1>1, <1>3 DEF AwaitedJob
<1>5. /\ pc[r] \in Live /\ lease[r] = "held"
      /\ conn[r] \in Conn /\ conn[r] \notin IdleConns
      /\ \A q \in Req \ {r} : conn[q] # conn[r]
      /\ SessionOf(r) /\ AnswersOf(r)
  <2>1. pc[r] \in Live
    BY <1>4 DEF Awaits, Live
  <2>2. QED
    BY <2>1, CallFacts
<1>6. reply' = [reply EXCEPT ![r] = v]
  BY <1>2, <1>5 DEF Answer, Live
<1>7. /\ session' \in [Conn -> Req \cup {NoTx, Leaked}]
      /\ \A d \in Conn \ {conn[r]} : session'[d] = session[d]
      /\ jobs' = jobs \ {j}
      /\ committed' = IF j.op = "COMMIT" /\ v = "ok"
                        THEN committed \cup {session[conn[r]]} ELSE committed
      /\ j.op = "STMT" => session'[conn[r]] = session[conn[r]]
      /\ j.op = "BEGIN" => \/ v = "ok" /\ session[conn[r]] = NoTx /\ session'[conn[r]] = r
                           \/ v = "err" /\ session'[conn[r]] = session[conn[r]]
      /\ j.op = "COMMIT" => \/ v = "ok" /\ session[conn[r]] # NoTx /\ session'[conn[r]] = NoTx
                            \/ v = "err" /\ session'[conn[r]] \in {session[conn[r]], NoTx}
      /\ j.op = "ROLLBACK" =>
           \/ v = "ok" /\ session[conn[r]] # NoTx /\ session'[conn[r]] = NoTx
           \/ v = "err" /\ session'[conn[r]] = session[conn[r]]
  BY <1>1, <1>2, <1>4, ExecuteFacts
<1>8. j.op = "COMMIT" => session[conn[r]] = r
  BY <1>4, <1>5 DEF Awaits, SessionOf, Inside
<1>9. SessionOf(r)' /\ AnswersOf(r)'
  <2> USE <1>3, <1>4, <1>5, <1>6, <1>7, <1>8
      DEF SessionOf, AnswersOf, Inside, Outside, Awaits, semVars
  <2>1. CASE j.op = "STMT"
    BY <2>1 DEF Live
  <2>2. CASE j.op = "BEGIN"
    BY <2>2 DEF Live
  <2>3. CASE j.op = "COMMIT"
    BY <2>3 DEF Live
  <2>4. CASE j.op = "ROLLBACK"
    BY <2>4 DEF Live
  <2>5. QED
    BY <2>1, <2>2, <2>3, <2>4
<1>10. OthersKeep(r)
  <2>1. ASSUME NEW q \in Req, q # r, lease[q] = "held"
        PROVE  session'[conn[q]] = session[conn[q]]
    BY <1>5, <1>7, <2>1, CallFacts
  <2>2. \A q \in Req \ {r} : q \in committed' <=> q \in committed
    BY <1>7, <1>8
  <2>3. QED
    BY <1>3, <1>6, <2>1, <2>2 DEF OthersKeep, semVars
<1>11. \A k \in jobs' : AwaitedJob(k)' \/ (k \in jobs /\ k.req # r)
  <2>1. ASSUME NEW k \in jobs', k.req = r, k.by = "call" PROVE FALSE
    <3>1. k \in jobs /\ k # j /\ k.conn = conn[r] /\ Awaits(r, k.op)
      BY <1>7, <2>1 DEF AwaitedJob
    <3>2. k.op = j.op
      BY <1>4, <3>1 DEF Awaits
    <3>3. QED
      BY <1>1, <1>3, <1>4, <2>1, <3>1, <3>2 DEF EngineInv, HandleInv, HandleTypeOK, Job
  <2>2. QED
    BY <1>7, <2>1 DEF AwaitedJob
<1>12. TxTypeOK'
  BY <1>3, <1>6, <1>7, <1>8
<1>13. NoInheritedTransaction'
  <2>1. IdleConns' = IdleConns /\ IdleConns \subseteq Conn
    BY <1>3 DEF IdleConns, EngineInv, PoolInv, ConnInv, TypeOK
  <2>2. QED
    BY <1>5, <1>7, <2>1 DEF NoInheritedTransaction
<1> HIDE DEF TxInv, TxTypeOK
<1>14. QED
  BY <1>9, <1>10, <1>11, <1>12, <1>13, TxFrame

(* The ROLLBACK of a guard runs: either it ends the transaction of the     *)
(* call that is gone or the connection is poisoned.                        *)
LEMMA TxRunGuard ==
  ASSUME EngineInv, TxInv, NEW j \in jobs, RunGuard(j)
  PROVE  TxInv'
<1> USE DEF TxInv, TxTypeOK
<1>1. PICK r \in Req : r = j.req
  BY DEF EngineInv, HandleInv, HandleTypeOK, Job
<1>2. /\ j.by = "guard" /\ j.op = "ROLLBACK"
      /\ guard[r] = "spawned" /\ conn[r] = j.conn
      /\ guard' = [guard EXCEPT ![r] = "none"]
      /\ UNCHANGED <<semVars, idle, conn, callVars>>
      /\ \A q \in Req \ {r} : q \in poisoned' <=> q \in poisoned
  BY <1>1 DEF RunGuard, EngineInv, HandleInv, HandleOfJob, poolVars, connVars, Poison
<1>3. /\ pc[r] = "ended" /\ lease[r] = "held"
      /\ conn[r] \in Conn /\ conn[r] \notin IdleConns
      /\ \A q \in Req \ {r} : conn[q] # conn[r]
      /\ session[conn[r]] = r
      /\ AnswersOf(r)
  <2>1. pc[r] = "ended" /\ lease[r] = "held" /\ SessionOf(r) /\ AnswersOf(r)
    BY <1>2, CallFacts DEF HandlesOf
  <2>2. QED
    BY <1>2, <2>1, CallFacts DEF SessionOf, Inside
<1>4. PICK v \in {"ok", "err"} : Run(j, v) /\ (v = "err" => r \in poisoned')
  BY <1>1 DEF RunGuard, Poison
<1>5. /\ session' \in [Conn -> Req \cup {NoTx, Leaked}]
      /\ \A d \in Conn \ {conn[r]} : session'[d] = session[d]
      /\ jobs' = jobs \ {j}
      /\ committed' = committed
      /\ \/ v = "ok" /\ session'[conn[r]] = NoTx
         \/ v = "err" /\ session'[conn[r]] = r
  BY <1>2, <1>3, <1>4, ExecuteFacts
<1>6. SessionOf(r)' /\ AnswersOf(r)'
  BY <1>2, <1>3, <1>4, <1>5
     DEF SessionOf, AnswersOf, Inside, Outside, callVars, EngineInv, HandleInv, HandleTypeOK
<1>7. OthersKeep(r)
  <2>1. ASSUME NEW q \in Req, q # r, lease[q] = "held"
        PROVE  session'[conn[q]] = session[conn[q]]
    BY <1>3, <1>5, <2>1, CallFacts
  <2>2. QED
    BY <1>2, <1>5, <2>1 DEF OthersKeep, semVars, callVars, EngineInv, HandleInv, HandleTypeOK
<1>8. \A k \in jobs' : AwaitedJob(k)'
  BY <1>2, <1>5 DEF AwaitedJob, Awaits, callVars
<1>9. TxTypeOK'
  BY <1>2, <1>5 DEF callVars
<1>10. NoInheritedTransaction'
  <2>1. IdleConns' = IdleConns /\ IdleConns \subseteq Conn
    BY <1>2 DEF IdleConns, EngineInv, PoolInv, ConnInv, TypeOK
  <2>2. QED
    BY <1>3, <1>5, <2>1 DEF NoInheritedTransaction
<1> HIDE DEF TxInv, TxTypeOK
<1>11. QED
  BY <1>6, <1>7, <1>8, <1>9, <1>10, TxFrame

(* A statement of a stashed engine begins and ends no transaction. *)
LEMMA TxRunStash ==
  ASSUME EngineInv, TxInv, NEW j \in jobs, RunStash(j)
  PROVE  TxInv'
<1>1. PICK r \in Req : r = j.req
  BY DEF EngineInv, HandleInv, HandleTypeOK, Job
<1>2. /\ j.op = "STMT" /\ j.conn \in Conn
      /\ UNCHANGED <<callVars, guard, connVars, lease>>
  BY DEF RunStash, EngineInv, HandleInv, HandleOfJob, HandleTypeOK, Job, poolVars, semVars
<1>3. PICK v \in {"ok", "err"} : Run(j, v)
  BY DEF RunStash
<1>4. /\ session' \in [Conn -> Req \cup {NoTx, Leaked}]
      /\ \A d \in Conn : session'[d] = session[d]
      /\ jobs' = jobs \ {j}
      /\ committed' = committed
  BY <1>2, <1>3, ExecuteFacts
<1>5. session' = session
  BY <1>4 DEF TxInv, TxTypeOK
<1>6. QED
  BY <1>2, <1>4, <1>5, TxQuiet

(* Without dropped futures every step of the engine preserves TxInv. *)
LEMMA TxStepInv ==
  ASSUME ~ MayCancel, EngineInv, TxInv, [EngineNext]_engineVars, EngineInv'
  PROVE  TxInv'
<1>1. ASSUME NEW r \in Req, Get(r) \/ Start(r) \/ GetTimesOut(r) PROVE TxInv'
  BY <1>1, TxGet, TxFirst DEF Get
<1>2. ASSUME NEW r \in Req, Resume(r) \/ Body(r) \/ LeaveBody(r) PROVE TxInv'
  BY <1>2, TxResume, TxBody
<1>3. ASSUME NEW r \in Req, Cancel(r) PROVE FALSE
  BY <1>3 DEF Cancel, CancelWaiting, CancelUnguarded, CancelGuarded
<1>4. ASSUME NEW r \in Req,
             StashSends(r) \/ StashDropped(r) \/ HandBack(r) \/ FreePermit(r) \/ Reuse(r)
      PROVE  TxInv'
  BY <1>4, TxBeside, TxHandBack, TxReuse
<1>5. ASSUME NEW j \in jobs, RunCall(j) \/ RunGuard(j) \/ RunStash(j) PROVE TxInv'
  BY <1>5, TxRunCall, TxRunGuard, TxRunStash
<1>6. CASE UNCHANGED engineVars
  BY <1>6 DEF engineVars, callVars, txVars, dbVars, poolVars, semVars, connVars, TxInv,
     TxTypeOK, SessionOf, AnswersOf, AwaitedJob, Awaits, Inside, Outside,
     NoInheritedTransaction, IdleConns
<1>7. QED
  BY <1>1, <1>2, <1>3, <1>4, <1>5, <1>6 DEF EngineNext

(* TxInv is an invariant of the engine whose futures are not dropped,      *)
(* whichever statements fail and whichever closures panic.                 *)
THEOREM TxInvariant == ~ MayCancel => (EngineSpec => [](EngineInv /\ TxInv))
<1> SUFFICES ASSUME ~ MayCancel PROVE EngineSpec => [](EngineInv /\ TxInv)
  OBVIOUS
<1>1. EngineInit => TxInv
  BY TxInitInv
<1>2. EngineInv /\ EngineInv' /\ TxInv /\ [EngineNext]_engineVars => TxInv'
  BY TxStepInv
<1>3. QED
  BY <1>1, <1>2, EngineInvariant, PTL DEF EngineSpec

(* A connection that lies idle is in autocommit mode, however the          *)
(* transaction before ended: COMMIT, ROLLBACK, either of them failing, or  *)
(* a panic that left the clean-up to a spawned task.  (A BEGIN whose       *)
(* future is dropped has no guard: the hypothesis is needed.)              *)
THEOREM NothingIsInherited == ~ MayCancel => (EngineSpec => []NoInheritedTransaction)
<1>1. TxInv => NoInheritedTransaction
  BY DEF TxInv
<1>2. QED
  BY <1>1, TxInvariant, PTL

(* While f runs, and while its COMMIT or the ROLLBACK of its guard is on   *)
(* its way, the connection is in the very transaction that BEGIN opened;   *)
(* and no open connection is in the transaction of anybody but the request *)
(* that holds it.                                                          *)
THEOREM TransactionsArePinned == ~ MayCancel => (EngineSpec => []TransactionPinned)
<1>1. EngineInv /\ TxInv => TransactionPinned
  <2> SUFFICES ASSUME EngineInv, TxInv PROVE TransactionPinned
    OBVIOUS
  <2>1. ASSUME NEW c \in OpenConns, NEW r \in Req, session[c] = r PROVE conn[r] = c
    <3>1. c \notin IdleConns
      BY <2>1, CallAssumption DEF TxInv, NoInheritedTransaction
    <3>2. PICK q \in Req : conn[q] # NoConn /\ conn[q] = c
      BY <2>1, <3>1 DEF OpenConns, HeldConns
    <3>3. lease[q] = "held"
      BY <3>2 DEF EngineInv, PoolInv, ConnInv, HoldersHold
    <3>4. QED
      BY <2>1, <3>2, <3>3, CallAssumption DEF TxInv, SessionOf
  <2>2. ASSUME NEW r \in Req, pc[r] \in {"body", "stmt"} PROVE session[conn[r]] = r
    BY <2>2, CallFacts DEF SessionOf, Inside, Live
  <2>3. ASSUME NEW j \in jobs, j.by # "stash", j.op # "BEGIN", pc[j.req] \notin {"query", "undo"}
        PROVE  session[j.conn] = j.req
    <3>1. j.req \in Req /\ j.by \in {"call", "guard"}
      BY <2>3 DEF EngineInv, HandleInv, HandleTypeOK, Job
    <3>2. CASE j.by = "call"
      <4>1. reply[j.req] = "none" /\ conn[j.req] = j.conn /\ pc[j.req] \in {"stmt", "commit"}
        BY <2>3, <3>2 DEF TxInv, AwaitedJob, Awaits
      <4>2. QED
        BY <3>1, <4>1, CallFacts DEF SessionOf, Inside, Live
    <3>3. CASE j.by = "guard"
      <4>1. guard[j.req] = "spawned" /\ conn[j.req] = j.conn
        BY <3>3 DEF EngineInv, HandleInv, HandleOfJob
      <4>2. QED
        BY <3>1, <4>1, CallFacts DEF SessionOf, Inside, HandlesOf
    <3>4. QED
      BY <3>1, <3>2, <3>3
  <2>4. QED
    BY <2>1, <2>2, <2>3 DEF TransactionPinned
<1>2. QED
  BY <1>1, TxInvariant, PTL

(* A statement in pool mode finds a connection that is in no transaction.  *)
THEOREM QueriesAutocommit == ~ MayCancel => (EngineSpec => []QueryAutocommits)
<1>1. EngineInv /\ TxInv => QueryAutocommits
  <2> SUFFICES ASSUME EngineInv, TxInv, NEW j \in jobs, pc[j.req] = "query"
               PROVE  session[j.conn] = NoTx
    BY DEF QueryAutocommits
  <2>1. j.req \in Req /\ j.by \in {"call", "guard", "stash"}
    BY DEF EngineInv, HandleInv, HandleTypeOK, Job
  <2>2. HandlesOf(j.req) /\ HandleOfJob(j) /\ AwaitedJob(j)
    BY <2>1 DEF EngineInv, HandleInv, TxInv
  <2>3. conn[j.req] = j.conn
    BY <2>1, <2>2 DEF HandleOfJob, AwaitedJob
  <2>4. QED
    BY <2>1, <2>3, CallFacts DEF SessionOf, Outside, Live
<1>2. QED
  BY <1>1, TxInvariant, PTL

(* Ok is reported exactly for transactions whose COMMIT was carried out,   *)
(* and an error or a panic only for those that left nothing durable.       *)
THEOREM OutcomesAreReported == ~ MayCancel => (EngineSpec => []ReportsOutcome)
<1>1. TxInv => ReportsOutcome
  BY DEF TxInv, AnswersOf, ReportsOutcome
<1>2. QED
  BY <1>1, TxInvariant, PTL
===========================================================================
