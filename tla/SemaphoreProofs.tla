-------------------------- MODULE SemaphoreProofs --------------------------
(***************************************************************************)
(* What every user of Semaphore can rely on, for any set of requests and   *)
(* any number of permits: SemInv, the conjunction of the checked           *)
(* properties, holds at the start and is preserved by each operation.  The *)
(* proofs about the pools cite these lemmas.                               *)
(***************************************************************************)
EXTENDS Semaphore, FiniteSetTheorems, SequenceTheorems, TLAPS

SemInv ==
  /\ SemTypeOK
  /\ PermitAccounting
  /\ NoIdlePermitWhileWaiting

---------------------------------------------------------------------------
(* A sequence without its element at position i: one shorter, and the      *)
(* elements after i move up by one (the waiter that leaves the queue).     *)
LEMMA RemovalProperties ==
  ASSUME NEW S, NEW q \in Seq(S), NEW i \in 1..Len(q),
         NEW s, s = SubSeq(q, 1, i - 1) \o SubSeq(q, i + 1, Len(q))
  PROVE  /\ s \in Seq(S)
         /\ Len(s) = Len(q) - 1
         /\ \A k \in 1..Len(q) - 1 : s[k] = IF k < i THEN q[k] ELSE q[k + 1]
<1> DEFINE a == SubSeq(q, 1, i - 1)
           b == SubSeq(q, i + 1, Len(q))
<1>1. Len(q) \in Nat /\ \A k \in 1..Len(q) : q[k] \in S
  BY LenProperties, ElementOfSeq
<1>2. /\ a \in Seq(S)
      /\ Len(a) = i - 1
      /\ \A k \in 1..i - 1 : a[k] = q[k]
  <2>1. \A k \in 1..i - 1 : q[k] \in S
    BY <1>1
  <2>2. /\ a \in Seq(S)
        /\ Len(a) = IF 1 <= i - 1 THEN i - 1 - 1 + 1 ELSE 0
        /\ \A k \in 1..i - 1 - 1 + 1 : a[k] = q[1 + k - 1]
    BY <2>1, SubSeqProperties, 1 \in Int, i - 1 \in Int
  <2>3. QED
    BY <2>2
<1>3. /\ b \in Seq(S)
      /\ Len(b) = Len(q) - i
      /\ \A k \in 1..Len(q) - i : b[k] = q[i + k]
  <2>1. \A k \in i + 1..Len(q) : q[k] \in S
    BY <1>1
  <2>2. /\ b \in Seq(S)
        /\ Len(b) = IF i + 1 <= Len(q) THEN Len(q) - (i + 1) + 1 ELSE 0
        /\ \A k \in 1..Len(q) - (i + 1) + 1 : b[k] = q[i + 1 + k - 1]
    BY <2>1, <1>1, SubSeqProperties, i + 1 \in Int, Len(q) \in Int
  <2>3. QED
    BY <2>2, <1>1
<1>4. /\ s \in Seq(S)
      /\ Len(s) = Len(a) + Len(b)
      /\ \A k \in 1..Len(a) + Len(b) : s[k] = IF k <= Len(a) THEN a[k] ELSE b[k - Len(a)]
  BY <1>2, <1>3, ConcatProperties
<1> HIDE DEF a, b
<1>5. /\ Len(s) = Len(q) - 1
      /\ \A k \in 1..Len(q) - 1 : s[k] = IF k <= i - 1 THEN a[k] ELSE b[k - (i - 1)]
  <2>1. Len(a) + Len(b) = Len(q) - 1
    BY <1>1, <1>2, <1>3
  <2>2. QED
    BY <1>2, <1>4, <2>1, Zenon
<1>6. ASSUME NEW k \in 1..Len(q) - 1
      PROVE  s[k] = IF k < i THEN q[k] ELSE q[k + 1]
  <2>1. CASE k < i
    <3>1. k \in 1..i - 1 /\ k <= i - 1
      BY <1>1, <2>1
    <3>2. QED
      BY <1>2, <1>5, <2>1, <3>1
  <2>2. CASE ~(k < i)
    <3>1. k - (i - 1) \in 1..Len(q) - i /\ i + (k - (i - 1)) = k + 1 /\ ~(k <= i - 1)
      BY <1>1, <2>2
    <3>2. s[k] = b[k - (i - 1)]
      BY <1>5, <3>1
    <3>3. b[k - (i - 1)] = q[i + (k - (i - 1))]
      BY <1>3, <3>1
    <3>4. QED
      BY <2>2, <3>1, <3>2, <3>3
  <2>3. QED
    BY <2>1, <2>2
<1>7. QED
  BY <1>4, <1>5, <1>6

(* Sets of requests are finite. *)
LEMMA FiniteRequests ==
  ASSUME NEW T \in SUBSET Req
  PROVE  IsFiniteSet(T) /\ Cardinality(T) \in Nat
BY SemaphoreAssumption, FS_Subset, FS_CardinalityType

(* No permit is owned at the start and nobody waits. *)
LEMMA SemInitInv == SemInit => SemInv
<1> SUFFICES ASSUME SemInit PROVE SemInv
  OBVIOUS
<1> USE SemaphoreAssumption DEF SemInit
<1>1. SemTypeOK
  BY DEF SemTypeOK, LeaseState
<1>2. PermitAccounting
  <2>1. Permitted = {}
    BY DEF Permitted, WithPermit
  <2>2. QED
    BY <2>1, FS_EmptySet DEF PermitAccounting
<1>3. NoIdlePermitWhileWaiting
  BY DEF NoIdlePermitWhileWaiting
<1>4. QED
  BY <1>1, <1>2, <1>3 DEF SemInv

(* The variables of the semaphore stay as they are. *)
LEMMA SemStutter == SemInv /\ UNCHANGED semVars => SemInv'
BY DEF SemInv, semVars, SemTypeOK, PermitAccounting, Permitted, NoIdlePermitWhileWaiting

(* A request moves on with its permit. *)
LEMMA AdvanceInv ==
  ASSUME SemInv, NEW r \in Req, NEW from \in WithPermit, NEW to \in WithPermit,
         Advance(r, from, to)
  PROVE  /\ SemInv'
         /\ \A q \in Req : lease'[q] = IF q = r THEN to ELSE lease[q]
<1> USE DEF SemInv, Advance
<1>1. \A q \in Req : lease'[q] = IF q = r THEN to ELSE lease[q]
  BY DEF SemTypeOK
<1>2. SemTypeOK'
  BY DEF SemTypeOK, LeaseState, WithPermit
<1>3. Permitted' = Permitted
  BY <1>1 DEF Permitted
<1>4. PermitAccounting'
  BY <1>3 DEF PermitAccounting
<1>5. NoIdlePermitWhileWaiting'
  BY <1>1 DEF NoIdlePermitWhileWaiting, WithPermit
<1>6. QED
  BY <1>1, <1>2, <1>4, <1>5

(* A permit is taken from the available ones. *)
LEMMA TakePermitInv ==
  ASSUME SemInv, NEW r \in Req, TakePermit(r)
  PROVE  /\ SemInv'
         /\ \A q \in Req : lease'[q] = IF q = r THEN "granted" ELSE lease[q]
<1> USE DEF SemInv, TakePermit
<1>1. \A q \in Req : lease'[q] = IF q = r THEN "granted" ELSE lease[q]
  BY DEF SemTypeOK
<1>2. PermitAccounting'
  <2>1. Permitted' = Permitted \cup {r} /\ r \notin Permitted
    BY <1>1 DEF Permitted, WithPermit
  <2>2. IsFiniteSet(Permitted) /\ Cardinality(Permitted) \in Nat
    BY FiniteRequests DEF Permitted
  <2>3. Cardinality(Permitted') = Cardinality(Permitted) + 1
    BY <2>1, <2>2, FS_AddElement
  <2>4. QED
    BY <2>2, <2>3, SemaphoreAssumption DEF PermitAccounting, SemTypeOK
<1>3. SemTypeOK'
  BY SemaphoreAssumption DEF SemTypeOK, LeaseState
<1>4. NoIdlePermitWhileWaiting'
  BY <1>1 DEF NoIdlePermitWhileWaiting, SemTypeOK
<1>5. QED
  BY <1>1, <1>2, <1>3, <1>4

(* A request joins the queue behind the others. *)
LEMMA WaitInQueueInv ==
  ASSUME SemInv, NEW r \in Req, WaitInQueue(r)
  PROVE  /\ SemInv'
         /\ \A q \in Req : lease'[q] = IF q = r THEN "queued" ELSE lease[q]
<1> USE DEF SemInv, WaitInQueue
<1>1. \A q \in Req : lease'[q] = IF q = r THEN "queued" ELSE lease[q]
  BY DEF SemTypeOK
<1>2. SemTypeOK'
  BY AppendProperties DEF SemTypeOK, LeaseState
<1>3. Permitted' = Permitted
  BY <1>1 DEF Permitted, WithPermit
<1>4. PermitAccounting'
  BY <1>3 DEF PermitAccounting
<1>5. NoIdlePermitWhileWaiting'
  <2>1. /\ Len(queue) \in Nat
        /\ Len(queue') = Len(queue) + 1
        /\ \A i \in 1..Len(queue) : queue'[i] = queue[i]
        /\ queue'[Len(queue) + 1] = r
    BY AppendProperties, LenProperties DEF SemTypeOK
  <2>2. \A q \in Req : lease'[q] = "queued" <=> lease[q] = "queued" \/ q = r
    BY <1>1
  <2>3. \A i \in 1..Len(queue) : queue[i] # r
    BY DEF NoIdlePermitWhileWaiting
  <2>4. \A q \in Req : lease'[q] = "queued" <=> \E i \in 1..Len(queue') : queue'[i] = q
    BY <2>1, <2>2 DEF NoIdlePermitWhileWaiting
  <2>5. \A i, j \in 1..Len(queue') : queue'[i] = queue'[j] => i = j
    BY <2>1, <2>3 DEF NoIdlePermitWhileWaiting
  <2>6. QED
    BY <2>4, <2>5 DEF NoIdlePermitWhileWaiting
<1>6. QED
  BY <1>1, <1>2, <1>4, <1>5

(* A waiter leaves the queue, from any position. *)
LEMMA StopWaitingInv ==
  ASSUME SemInv, NEW r \in Req, StopWaiting(r)
  PROVE  /\ SemInv'
         /\ \A q \in Req : lease'[q] = IF q = r THEN "none" ELSE lease[q]
<1> USE DEF SemInv
<1>1. \A q \in Req : lease'[q] = IF q = r THEN "none" ELSE lease[q]
  BY DEF StopWaiting, SemTypeOK
<1>2. PICK i \in 1..Len(queue) :
        /\ queue[i] = r
        /\ queue' = SubSeq(queue, 1, i - 1) \o SubSeq(queue, i + 1, Len(queue))
  BY DEF StopWaiting
<1>3. /\ Len(queue) \in Nat
      /\ queue' \in Seq(Req)
      /\ Len(queue') = Len(queue) - 1
      /\ \A k \in 1..Len(queue) - 1 : queue'[k] = IF k < i THEN queue[k] ELSE queue[k + 1]
  <2>1. queue \in Seq(Req)
    BY DEF SemTypeOK
  <2>2. Len(queue) \in Nat
    BY <2>1, LenProperties
  <2>3. QED
    BY <1>2, <2>1, <2>2, RemovalProperties, ZenonT(60)
<1>4. SemTypeOK'
  BY <1>3 DEF StopWaiting, SemTypeOK, LeaseState
<1>5. Permitted' = Permitted
  BY <1>1 DEF StopWaiting, Permitted, WithPermit
<1>6. PermitAccounting'
  BY <1>5 DEF StopWaiting, PermitAccounting
<1>7. NoIdlePermitWhileWaiting'
  <2>1. \A q \in Req : lease'[q] = "queued" <=> lease[q] = "queued" /\ q # r
    BY <1>1
  <2>2. \A j, k \in 1..Len(queue') : queue'[j] = queue'[k] => j = k
    BY <1>3 DEF NoIdlePermitWhileWaiting
  <2>3. ASSUME NEW q \in Req
        PROVE  (\E k \in 1..Len(queue') : queue'[k] = q)
                 <=> q # r /\ \E k \in 1..Len(queue) : queue[k] = q
    <3>1. ASSUME NEW k \in 1..Len(queue'), queue'[k] = q
          PROVE  q # r /\ \E j \in 1..Len(queue) : queue[j] = q
      <4>1. CASE k < i
        <5>1. k \in 1..Len(queue) /\ k # i /\ queue[k] = q
          BY <1>3, <3>1, <4>1
        <5>2. q # r
          BY <1>2, <5>1 DEF NoIdlePermitWhileWaiting
        <5>3. QED
          BY <5>1, <5>2
      <4>2. CASE ~(k < i)
        <5>1. k + 1 \in 1..Len(queue) /\ k + 1 # i /\ queue[k + 1] = q
          BY <1>3, <3>1, <4>2
        <5>2. q # r
          BY <1>2, <5>1 DEF NoIdlePermitWhileWaiting
        <5>3. QED
          BY <5>1, <5>2
      <4>3. QED
        BY <4>1, <4>2
    <3>2. ASSUME NEW k \in 1..Len(queue), queue[k] = q, q # r
          PROVE  \E j \in 1..Len(queue') : queue'[j] = q
      <4>1. CASE k < i
        <5>1. k \in 1..Len(queue') /\ queue'[k] = q
          BY <1>3, <3>2, <4>1
        <5>2. QED
          BY <5>1
      <4>2. CASE k > i
        <5>1. k - 1 \in 1..Len(queue') /\ ~(k - 1 < i) /\ k - 1 + 1 = k
          BY <1>3, <4>2
        <5>2. queue'[k - 1] = q
          BY <1>3, <3>2, <5>1
        <5>3. QED
          BY <5>1, <5>2
      <4>3. k # i
        BY <1>2, <3>2
      <4>4. k \in Int /\ i \in Int
        BY <1>3
      <4>5. QED
        BY <4>1, <4>2, <4>3, <4>4
    <3>3. QED
      BY <3>1, <3>2
  <2>4. queue # <<>> /\ permits' = permits
    BY <1>2, <1>3 DEF StopWaiting
  <2>5. QED
    BY <2>1, <2>2, <2>3, <2>4 DEF NoIdlePermitWhileWaiting
<1>8. QED
  BY <1>1, <1>4, <1>6, <1>7

(* The permit of r goes to the first waiter or becomes available; nobody   *)
(* else moves.                                                             *)
LEMMA DropPermitInv ==
  ASSUME SemInv, NEW r \in Req, lease[r] \in WithPermit, DropPermit(r)
  PROVE  /\ SemInv'
         /\ lease'[r] = "none"
         /\ \A q \in Req \ {r} :
              \/ lease'[q] = lease[q]
              \/ lease[q] = "queued" /\ lease'[q] = "granted"
<1> USE DEF SemInv
<1>1. r \in Permitted /\ IsFiniteSet(Permitted) /\ Cardinality(Permitted) \in Nat
  BY FiniteRequests DEF Permitted
<1>2. MaxConnections \in Nat /\ permits \in Nat
  BY SemaphoreAssumption DEF SemTypeOK
<1>3. CASE /\ queue = <<>>
           /\ permits' = permits + 1
           /\ lease' = [lease EXCEPT ![r] = "none"]
           /\ UNCHANGED queue
  <2>1. \A q \in Req : lease'[q] = IF q = r THEN "none" ELSE lease[q]
    BY <1>3 DEF SemTypeOK
  <2>2. Permitted' = Permitted \ {r}
    BY <2>1 DEF Permitted, WithPermit
  <2>3. Cardinality(Permitted') = Cardinality(Permitted) - 1
    BY <1>1, <2>2, FS_RemoveElement
  <2>4. PermitAccounting'
    BY <1>1, <1>2, <1>3, <2>3 DEF PermitAccounting
  <2>5. Cardinality(Permitted') \in Nat
    <3>1. Permitted' \in SUBSET Req
      BY DEF Permitted
    <3>2. QED
      BY <3>1, FiniteRequests
  <2>6. SemTypeOK'
    <3>1. permits' \in 0..MaxConnections
      BY <1>2, <1>3, <2>4, <2>5 DEF PermitAccounting
    <3>2. QED
      BY <1>3, <3>1 DEF SemTypeOK, LeaseState
  <2>7. NoIdlePermitWhileWaiting'
    BY <1>3, <2>1 DEF NoIdlePermitWhileWaiting, WithPermit
  <2>8. QED
    BY <2>1, <2>4, <2>6, <2>7
<1>4. CASE /\ queue # <<>>
           /\ queue' = Tail(queue)
           /\ lease' = [lease EXCEPT ![r] = "none", ![Head(queue)] = "granted"]
           /\ UNCHANGED permits
  <2> DEFINE h == Head(queue)
  <2>1. /\ Len(queue) \in Nat \ {0}
        /\ h = queue[1]
        /\ h \in Req
        /\ queue' \in Seq(Req)
        /\ Len(queue') = Len(queue) - 1
        /\ \A k \in 1..Len(queue') : queue'[k] = queue[k + 1]
    BY <1>4, HeadTailProperties, EmptySeq DEF SemTypeOK
  <2>2. lease[h] = "queued" /\ h # r
    BY <2>1 DEF NoIdlePermitWhileWaiting, WithPermit
  <2> HIDE DEF h
  <2>3. lease' = [lease EXCEPT ![r] = "none", ![h] = "granted"]
    BY <1>4 DEF h
  <2>4. \A q \in Req : lease'[q] = IF q = h THEN "granted" ELSE IF q = r THEN "none" ELSE lease[q]
    BY <2>1, <2>3 DEF SemTypeOK
  <2>5. Cardinality(Permitted') = Cardinality(Permitted)
    <3>1. Permitted' = (Permitted \ {r}) \cup {h} /\ h \notin Permitted \ {r}
      BY <2>1, <2>2, <2>4 DEF Permitted, WithPermit
    <3>2. Cardinality(Permitted \ {r}) = Cardinality(Permitted) - 1 /\ IsFiniteSet(Permitted \ {r})
      BY <1>1, FS_RemoveElement
    <3>3. Cardinality((Permitted \ {r}) \cup {h}) = Cardinality(Permitted \ {r}) + 1
      BY <3>1, <3>2, FS_AddElement
    <3>4. QED
      BY <1>1, <3>1, <3>2, <3>3
  <2>6. PermitAccounting'
    BY <1>4, <2>5 DEF PermitAccounting
  <2>7. SemTypeOK'
    BY <1>4, <2>1, <2>3 DEF SemTypeOK, LeaseState
  <2>8. NoIdlePermitWhileWaiting'
    <3>1. \A j, k \in 1..Len(queue') : queue'[j] = queue'[k] => j = k
      BY <2>1 DEF NoIdlePermitWhileWaiting
    <3>2. ASSUME NEW q \in Req
          PROVE  lease'[q] = "queued" <=> \E k \in 1..Len(queue') : queue'[k] = q
      <4>1. ASSUME NEW k \in 1..Len(queue'), queue'[k] = q
            PROVE  lease'[q] = "queued"
        <5>1. k + 1 \in 1..Len(queue) /\ 1 \in 1..Len(queue) /\ k + 1 # 1
          BY <2>1
        <5>2. queue[k + 1] = q /\ q # h
          BY <2>1, <4>1, <5>1 DEF NoIdlePermitWhileWaiting
        <5>3. lease[q] = "queued"
          BY <5>1, <5>2 DEF NoIdlePermitWhileWaiting
        <5>4. QED
          BY <2>4, <5>2, <5>3 DEF WithPermit
      <4>2. ASSUME lease'[q] = "queued"
            PROVE  \E k \in 1..Len(queue') : queue'[k] = q
        <5>1. lease[q] = "queued" /\ q # h
          BY <2>4, <4>2
        <5>2. PICK j \in 1..Len(queue) : queue[j] = q
          BY <5>1 DEF NoIdlePermitWhileWaiting
        <5>3. j - 1 \in 1..Len(queue') /\ j - 1 + 1 = j
          BY <2>1, <5>1, <5>2
        <5>4. queue'[j - 1] = q
          BY <2>1, <5>2, <5>3
        <5>5. QED
          BY <5>3, <5>4
      <4>3. QED
        BY <4>1, <4>2
    <3>3. permits' = 0
      BY <1>4 DEF NoIdlePermitWhileWaiting
    <3>4. QED
      BY <3>1, <3>2, <3>3 DEF NoIdlePermitWhileWaiting
  <2>9. QED
    BY <2>1, <2>2, <2>4, <2>6, <2>7, <2>8
<1>5. QED
  BY <1>3, <1>4 DEF DropPermit
===========================================================================
