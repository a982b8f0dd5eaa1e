------------------------- MODULE MemoryCacheProofs -------------------------
(***************************************************************************)
(* The safety properties of MemoryCache for any threads, keys, capacity    *)
(* and times to live.  Neither checked invariant is inductive: that the    *)
(* counter equals the size needs the exclusion of the write lock and the   *)
(* use of removed, and the bound on the overshoot needs to count the       *)
(* threads that are past their last look at the counter.                   *)
(***************************************************************************)
EXTENDS MemoryCache, FiniteSetTheorems, TLAPS

(* The write lock excludes. *)
OneHolder ==
  \A v, w \in Worker : pc[v] \in Holding /\ pc[w] \in Holding => v = w

(* Points at which a holder has taken entries out of the map. *)
TakingOut == {"swept", "evicted", "removed", "cleared"}

RemovedIsHeld == removed # 0 => \E w \in Worker : pc[w] \in TakingOut

(* What a worker carries between its steps. *)
InHand ==
  \A w \in Worker :
    /\ pc[w] = "touch" => pending[w] \in [key : Key, entry : {Absent}]
    /\ pc[w] \in {"check", "sweep", "swept", "recheck", "evict", "evicted", "insert"}
         => pending[w] \in [key : Key, entry : Entry]

LockInv == TypeOK /\ OneHolder /\ RemovedIsHeld /\ InHand

(* evict_lru takes nothing out of an empty map only, and clear everything. *)
EvictedSome ==
  \A w \in Worker :
    pc[w] = "cleared" \/ (pc[w] = "evicted" /\ removed = 0) => Stored = {}

(* The threads past their last look at the counter are counted in. *)
RoomLeft == count + Cardinality(Past) < MaxCapacity + Cardinality(Worker)

CacheInv == LockInv /\ CountIsSize /\ EvictedSome /\ RoomLeft

---------------------------------------------------------------------------
(* Numbers *)

(* The sizes the bounds are stated with. *)
LEMMA Sizes ==
  /\ IsFiniteSet(Stored) /\ Cardinality(Stored) \in Nat
  /\ IsFiniteSet(Past) /\ Cardinality(Past) \in Nat
  /\ IsFiniteSet(Counting) /\ Cardinality(Counting) \in Nat
  /\ Cardinality(Worker) \in Nat
  /\ Cardinality(Past) <= Cardinality(Worker)
  /\ \A w \in Worker : w \notin Past => Cardinality(Past) < Cardinality(Worker)
<1>1. Stored \in SUBSET Key /\ Past \in SUBSET Worker /\ Counting \in SUBSET Worker
  BY DEF Stored, Past, Counting
<1>2. IsFiniteSet(Stored) /\ IsFiniteSet(Past) /\ IsFiniteSet(Counting)
  BY <1>1, CacheAssumption, FS_Subset
<1>3. Cardinality(Past) <= Cardinality(Worker)
  BY <1>1, CacheAssumption, FS_Subset
<1>4. \A w \in Worker : w \notin Past => Cardinality(Past) # Cardinality(Worker)
  BY <1>1, CacheAssumption, FS_Subset
<1>5. /\ Cardinality(Past) \in Nat /\ Cardinality(Stored) \in Nat
      /\ Cardinality(Counting) \in Nat /\ Cardinality(Worker) \in Nat
  BY <1>2, CacheAssumption, FS_CardinalityType
<1>6. QED
  BY <1>2, <1>3, <1>4, <1>5

(* Nobody counts while somebody else holds the lock. *)
LEMMA NobodyCounts ==
  ASSUME OneHolder, ~Locked \/ \E w \in Worker : pc[w] \in TakingOut
  PROVE  Counting = {} /\ Cardinality(Counting) = 0
<1>1. Counting = {}
  BY DEF Counting, OneHolder, Locked, Holding, TakingOut
<1>2. QED
  BY <1>1, FS_EmptySet

(* What removing keys does to the size. *)
LEMMA RemoveSize ==
  ASSUME NEW ks, Stored' = Stored \ ks
  PROVE  Cardinality(Stored') = Cardinality(Stored) - Cardinality(ks \cap Stored)
<1>1. Cardinality(Stored \ ks) = Cardinality(Stored) - Cardinality(Stored \cap ks)
  BY Sizes, FS_Difference
<1>2. Stored \cap ks = ks \cap Stored
  OBVIOUS
<1>3. QED
  BY <1>1, <1>2

---------------------------------------------------------------------------
(* The empty cache satisfies the invariant. *)
LEMMA InitInv == Init => CacheInv
<1> SUFFICES ASSUME Init PROVE CacheInv
  OBVIOUS
<1> USE DEF Init
<1>1. LockInv
  BY DEF LockInv, TypeOK, Steps, OneHolder, Holding, RemovedIsHeld, InHand
<1>2. Stored = {} /\ Past = {} /\ Counting = {}
  BY DEF Stored, Past, Counting
<1>3. CountIsSize /\ EvictedSome /\ RoomLeft
  <2>1. Cardinality({}) = 0
    BY FS_EmptySet
  <2>2. CountIsSize /\ EvictedSome
    BY <1>2, <2>1 DEF CountIsSize, EvictedSome
  <2>3. RoomLeft
    BY <1>2, <2>1, Sizes, CacheAssumption DEF RoomLeft
  <2>4. QED
    BY <2>2, <2>3
<1>4. QED
  BY <1>1, <1>3 DEF CacheInv

---------------------------------------------------------------------------
(* The lock *)

(* Taking entries out of the map. *)
LEMMA RemoveKeepsLockInv ==
  ASSUME LockInv, NEW w \in Worker, NEW ks, NEW step \in TakingOut,
         pc[w] \in {"idle", "sweep", "evict"},
         pc[w] = "idle" => step \in {"removed", "cleared"},
         Remove(w, ks, step)
  PROVE  LockInv'
<1> USE DEF LockInv, Remove, Goto
<1>1. Cardinality(ks \cap Stored) \in Nat
  BY Sizes, FS_Subset, FS_CardinalityType
<1>2. TypeOK'
  BY <1>1 DEF TypeOK, Steps, Holding, TakingOut
<1>3. OneHolder'
  BY DEF TypeOK, OneHolder, Locked
<1>4. RemovedIsHeld'
  BY DEF TypeOK, RemovedIsHeld, TakingOut
<1>5. InHand'
  BY DEF TypeOK, InHand, TakingOut
<1>6. QED
  BY <1>2, <1>3, <1>4, <1>5

(* Correcting the counter. *)
LEMMA SettleKeepsLockInv ==
  ASSUME LockInv, NEW w \in Worker, NEW from \in Holding,
         NEW to \in {"idle", "recheck", "insert"}, NEW n \in Nat,
         to # "idle" => from \in {"swept", "evicted"},
         Settle(w, from, to, n)
  PROVE  LockInv'
<1> USE DEF LockInv, Settle, Goto
<1>1. TypeOK'
  BY DEF TypeOK, Steps, Holding
<1>2. OneHolder'
  BY DEF TypeOK, OneHolder, Holding
<1>3. RemovedIsHeld'
  BY DEF TypeOK, RemovedIsHeld, TakingOut
<1>4. InHand'
  BY DEF TypeOK, InHand
<1>5. QED
  BY <1>1, <1>2, <1>3, <1>4

(* Moving on without the lock. *)
LEMMA AdvanceKeepsLockInv ==
  ASSUME LockInv, NEW w \in Worker,
         NEW from \in {"check", "recheck"},
         NEW to \in {"sweep", "recheck", "evict", "insert"},
         Advance(w, from, to)
  PROVE  LockInv'
<1> USE DEF LockInv, Advance, Goto
<1>1. TypeOK'
  BY DEF TypeOK, Steps, Holding
<1>2. OneHolder'
  BY DEF TypeOK, OneHolder, Holding
<1>3. RemovedIsHeld'
  BY DEF TypeOK, RemovedIsHeld, TakingOut
<1>4. InHand'
  BY DEF TypeOK, InHand
<1>5. QED
  BY <1>1, <1>2, <1>3, <1>4

(* Reading, stamping and inserting. *)
LEMMA OtherStepsKeepLockInv ==
  ASSUME LockInv, NEW w \in Worker,
         Get(w) \/ Insert(w) \/ \E k \in Key, ttl \in Ttls : Set(w, k, ttl)
  PROVE  LockInv'
<1> USE DEF LockInv
<1>2. ASSUME NEW k \in Key, GetMiss(w, k) PROVE LockInv'
  <2>1. TypeOK'
    BY <1>2 DEF GetMiss, Goto, TypeOK, Steps
  <2>2. OneHolder' /\ RemovedIsHeld' /\ InHand'
    BY <1>2 DEF GetMiss, Goto, TypeOK, OneHolder, Holding, RemovedIsHeld, TakingOut, InHand
  <2>3. QED
    BY <2>1, <2>2
<1>3. CASE Touch(w)
  <2>1. pending[w].key \in Key
    BY <1>3 DEF Touch, InHand
  <2>2. TypeOK'
    BY <1>3, <2>1 DEF Touch, Goto, TypeOK, Steps, Stored, Entry
  <2>3. OneHolder' /\ RemovedIsHeld' /\ InHand'
    BY <1>3 DEF Touch, Goto, TypeOK, OneHolder, Holding, RemovedIsHeld, TakingOut, InHand
  <2>4. QED
    BY <2>2, <2>3
<1>4. ASSUME NEW k \in Key, NEW ttl \in Ttls, Set(w, k, ttl) PROVE LockInv'
  <2>1. NewEntry(ttl) \in Entry
    BY CacheAssumption DEF NewEntry, Entry, TypeOK
  <2>2. TypeOK'
    BY <1>4, <2>1 DEF Set, Goto, TypeOK, Steps
  <2>3. OneHolder' /\ RemovedIsHeld' /\ InHand'
    BY <1>4, <2>1 DEF Set, Goto, TypeOK, OneHolder, Holding, RemovedIsHeld, TakingOut, InHand
  <2>4. QED
    BY <2>2, <2>3
<1>5. CASE Insert(w)
  <2>1. pending[w].key \in Key /\ pending[w].entry \in Entry
    BY <1>5 DEF Insert, InHand
  <2>2. TypeOK'
    BY <1>5, <2>1 DEF Insert, Goto, TypeOK, Steps, Holding
  <2>3. OneHolder' /\ RemovedIsHeld' /\ InHand'
    BY <1>5 DEF Insert, Goto, TypeOK, OneHolder, Locked, Holding, RemovedIsHeld, TakingOut, InHand
  <2>4. QED
    BY <2>2, <2>3
<1>6. QED
  BY <1>2, <1>3, <1>4, <1>5 DEF Get

---------------------------------------------------------------------------
(* The counter and the size *)

(* The counters' invariant is about these sets and numbers only. *)
CountInv == CountIsSize /\ EvictedSome /\ RoomLeft

(* The counts are kept where what is counted is not touched. *)
LEMMA CountInvUnchanged ==
  ASSUME CountInv, Stored' = Stored, Past' = Past, Counting' = Counting,
         count' = count, removed' = removed,
         \A w \in Worker : pc'[w] \in {"evicted", "cleared"} => pc'[w] = pc[w]
  PROVE  CountInv'
BY DEF CountInv, CountIsSize, EvictedSome, RoomLeft

(* get and the beginning of set leave the map as large as it is. *)
LEMMA ReadKeepsCountInv ==
  ASSUME LockInv, CountInv, NEW w \in Worker,
         Get(w) \/ \E k \in Key, ttl \in Ttls : Set(w, k, ttl)
  PROVE  CountInv'
<1> USE DEF LockInv, TypeOK
<1>1. Stored' = Stored
  BY CacheAssumption DEF Get, GetMiss, Touch, Set, Stored, Entry, InHand
<1>2. \E step \in {"idle", "touch", "check"} :
        pc[w] \in {"idle", "touch"} /\ pc' = [pc EXCEPT ![w] = step]
  BY DEF Get, GetMiss, Touch, Set, Goto
<1>3. Past' = Past /\ Counting' = Counting
  BY <1>2 DEF Past, Counting
<1>4. count' = count /\ removed' = removed
  BY DEF Get, GetMiss, Touch, Set
<1>5. QED
  BY <1>1, <1>2, <1>3, <1>4, CountInvUnchanged

(* Taking entries out changes the size, and removed says by how much. *)
LEMMA RemoveKeepsCountInv ==
  ASSUME LockInv, CountInv, NEW w \in Worker, NEW ks, NEW step \in TakingOut,
         pc[w] \in {"idle", "sweep", "evict"},
         Remove(w, ks, step),
         step = "evicted" => ks \cap Stored # {} \/ Stored = {},
         step = "cleared" => Stored \subseteq ks
  PROVE  CountInv'
<1> USE DEF LockInv, Remove, Goto, TypeOK
<1>1. Stored' = Stored \ ks
  BY DEF Stored
<1>2. Past' = Past
  BY DEF Past, TakingOut
<1>3. Cardinality(Counting) = 0 /\ Cardinality(Counting') = 0
  <2>1. Counting = {} /\ Cardinality(Counting) = 0
    BY NobodyCounts
  <2>2. Counting' = {}
    BY <2>1 DEF Counting, TakingOut
  <2>3. QED
    BY <2>1, <2>2
<1>4. removed = 0
  BY DEF RemovedIsHeld, Locked, Holding, TakingOut
<1>5. Cardinality(Stored') = Cardinality(Stored) - Cardinality(ks \cap Stored)
  BY <1>1, RemoveSize
<1>6. Cardinality(ks \cap Stored) \in Nat
  BY Sizes, FS_Subset, FS_CardinalityType
<1>7. CountIsSize'
  BY <1>3, <1>4, <1>5, <1>6, Sizes DEF CountInv, CountIsSize
<1>8. EvictedSome'
  <2>1. removed' = 0 => ks \cap Stored = {}
    BY Sizes, FS_Subset, FS_EmptySet
  <2>2. \A v \in Worker : pc'[v] \in {"evicted", "cleared"} => v = w
    BY DEF Locked, Holding
  <2>3. QED
    BY <1>1, <2>1, <2>2 DEF EvictedSome
<1>9. RoomLeft'
  BY <1>2 DEF CountInv, RoomLeft
<1>10. QED
  BY <1>7, <1>8, <1>9 DEF CountInv

(* Subtracting that much, or storing the size, makes them equal again. *)
LEMMA SettleKeepsCountInv ==
  ASSUME LockInv, CountInv, NEW w \in Worker, NEW from \in TakingOut,
         NEW to \in {"idle", "recheck", "insert"}, NEW n,
         Settle(w, from, to, n),
         n = count - removed,
         to = "insert" => from = "evicted"
  PROVE  CountInv'
<1> USE DEF LockInv, Settle, Goto, TypeOK
<1>1. Stored' = Stored
  BY DEF Stored
<1>2. Cardinality(Counting) = 0 /\ Cardinality(Counting') = 0
  <2>1. Counting = {} /\ Cardinality(Counting) = 0
    BY NobodyCounts
  <2>2. Counting' = {}
    BY <2>1 DEF Counting
  <2>3. QED
    BY <2>1, <2>2
<1>3. CountIsSize'
  BY <1>1, <1>2, Sizes DEF CountInv, CountIsSize
<1>4. EvictedSome'
  BY DEF OneHolder, Holding, TakingOut, EvictedSome
<1>5. RoomLeft'
  <2>1. CASE to # "insert"
    <3>1. Past' = Past
      BY <2>1 DEF Past, TakingOut
    <3>2. QED
      BY <3>1, Sizes, CacheAssumption DEF CountInv, RoomLeft
  <2>2. CASE to = "insert"
    <3>1. w \notin Past /\ Past' = Past \cup {w}
      BY <2>2 DEF Past
    <3>2. Cardinality(Past') = Cardinality(Past) + 1 /\ Cardinality(Past) < Cardinality(Worker)
      BY <3>1, Sizes, FS_AddElement
    <3>3. CASE removed = 0
      <4>1. Cardinality(Stored) = 0
        BY <2>2, <3>3, FS_EmptySet DEF CountInv, EvictedSome
      <4>2. count' = 0
        BY <3>3, <4>1, <1>2 DEF CountInv, CountIsSize
      <4>3. QED
        BY <3>2, <4>2, Sizes, CacheAssumption DEF RoomLeft
    <3>4. CASE removed > 0
      BY <3>2, <3>4, Sizes, CacheAssumption DEF CountInv, RoomLeft
    <3>5. QED
      BY <3>3, <3>4
  <2>3. QED
    BY <2>1, <2>2
<1>6. QED
  BY <1>3, <1>4, <1>5 DEF CountInv

(* A look at the counter without the lock. *)
LEMMA LookKeepsCountInv ==
  ASSUME LockInv, CountInv, NEW w \in Worker,
         NEW from \in {"check", "recheck"},
         NEW to \in {"sweep", "evict", "insert"},
         Advance(w, from, to),
         to = "insert" => count < MaxCapacity
  PROVE  CountInv'
<1> USE DEF LockInv, Advance, Goto, TypeOK
<1>1. Stored' = Stored /\ Counting' = Counting
  BY DEF Stored, Counting
<1>2. CASE to # "insert"
  <2>1. Past' = Past
    BY <1>2 DEF Past
  <2>2. QED
    BY <1>1, <2>1, CountInvUnchanged
<1>3. CASE to = "insert"
  <2>1. w \notin Past /\ Past' = Past \cup {w}
    BY <1>3 DEF Past
  <2>2. Cardinality(Past') = Cardinality(Past) + 1 /\ Cardinality(Past) < Cardinality(Worker)
    BY <2>1, Sizes, FS_AddElement
  <2>3. RoomLeft'
    BY <1>3, <2>2, Sizes, CacheAssumption DEF RoomLeft
  <2>4. CountIsSize' /\ EvictedSome'
    BY <1>1, <1>3 DEF CountInv, CountIsSize, EvictedSome
  <2>5. QED
    BY <2>3, <2>4 DEF CountInv
<1>4. QED
  BY <1>2, <1>3

(* An entry is inserted: over another one, or as a new one that is counted *)
(* in the next step. *)
LEMMA InsertKeepsCountInv ==
  ASSUME LockInv, CountInv, NEW w \in Worker, Insert(w)
  PROVE  CountInv'
<1> DEFINE k == pending[w].key
<1>1. k \in Key /\ pending[w].entry \in Entry /\ pending[w].entry # Absent
  <2>1. k \in Key /\ pending[w].entry \in Entry
    BY DEF LockInv, InHand, Insert
  <2>2. QED
    BY <2>1, CacheAssumption
<1>2. Stored' = Stored \cup {k}
  BY <1>1 DEF Insert, LockInv, TypeOK, Stored
<1>3. Cardinality(Stored') = IF k \in Stored THEN Cardinality(Stored) ELSE Cardinality(Stored) + 1
  BY <1>2, Sizes, FS_AddElement
<1>4. Cardinality(Counting) = 0 /\ Counting = {}
  BY NobodyCounts DEF Insert, LockInv
<1>5. w \in Past
  BY DEF Past, Insert
<1>6. EvictedSome'
  BY DEF EvictedSome, Insert, Goto, LockInv, TypeOK, Locked, Holding
<1>7. CASE k \in Stored
  <2>1. Counting' = {}
    BY <1>4, <1>7 DEF Insert, Goto, LockInv, TypeOK, Counting
  <2>2. CountIsSize'
    BY <1>3, <1>4, <1>7, <2>1 DEF Insert, CountInv, CountIsSize
  <2>3. Past' = Past \ {w}
    BY <1>7 DEF Insert, Goto, LockInv, TypeOK, Past
  <2>4. RoomLeft'
    <3>1. Cardinality(Past') = Cardinality(Past) - 1
      BY <1>5, <2>3, Sizes, FS_RemoveElement
    <3>2. QED
      BY <3>1, Sizes, CacheAssumption DEF Insert, CountInv, RoomLeft, LockInv, TypeOK
  <2>5. QED
    BY <1>6, <2>2, <2>4 DEF CountInv
<1>8. CASE k \notin Stored
  <2>1. Counting' = {w}
    BY <1>4, <1>8 DEF Insert, Goto, LockInv, TypeOK, Counting
  <2>2. Cardinality(Counting') = 1
    BY <2>1, FS_Singleton
  <2>3. CountIsSize'
    BY <1>3, <1>4, <1>8, <2>2, Sizes DEF Insert, CountInv, CountIsSize, LockInv, TypeOK
  <2>4. Past' = Past
    BY <1>8 DEF Insert, Goto, LockInv, TypeOK, Past
  <2>5. RoomLeft'
    BY <2>4 DEF Insert, CountInv, RoomLeft
  <2>6. QED
    BY <1>6, <2>3, <2>5 DEF CountInv
<1>9. QED
  BY <1>7, <1>8

(* A new entry is counted. *)
LEMMA InsertedKeepsCountInv ==
  ASSUME LockInv, CountInv, NEW w \in Worker, Inserted(w)
  PROVE  CountInv'
<1> USE DEF Inserted, Settle, Goto, LockInv, TypeOK
<1>1. removed = 0
  BY DEF RemovedIsHeld, OneHolder, Holding, TakingOut
<1>2. Counting = {w}
  BY DEF Counting, OneHolder, Holding
<1>3. Counting' = {}
  BY <1>2 DEF Counting
<1>4. Cardinality(Counting) = 1 /\ Cardinality(Counting') = 0
  BY <1>2, <1>3, FS_Singleton, FS_EmptySet
<1>5. Stored' = Stored
  BY DEF Stored
<1>6. CountIsSize'
  BY <1>1, <1>4, <1>5, Sizes DEF CountInv, CountIsSize
<1>7. EvictedSome'
  BY DEF EvictedSome, OneHolder, Holding
<1>8. RoomLeft'
  <2>1. w \in Past /\ Past' = Past \ {w}
    BY DEF Past
  <2>2. Cardinality(Past') = Cardinality(Past) - 1
    BY <2>1, Sizes, FS_RemoveElement
  <2>3. QED
    BY <2>2, Sizes, CacheAssumption DEF CountInv, RoomLeft
<1>9. QED
  BY <1>6, <1>7, <1>8 DEF CountInv

---------------------------------------------------------------------------
(* The step *)

(* Every step of the cache keeps its invariant. *)
LEMMA Step == CacheInv /\ [Next]_vars => CacheInv'
<1> SUFFICES ASSUME CacheInv, [Next]_vars PROVE LockInv' /\ CountInv'
  BY DEF CacheInv, CountInv
<1> USE DEF CacheInv
<1>1. CountInv
  BY DEF CountInv
<1>2. CASE UNCHANGED vars \/ Tick
  <2>1. LockInv'
    BY <1>2 DEF vars, Tick, LockInv, TypeOK, OneHolder, RemovedIsHeld, InHand
  <2>2. Stored' = Stored /\ Past' = Past /\ Counting' = Counting
    BY <1>2 DEF vars, Tick, Stored, Past, Counting
  <2>3. CountInv'
    BY <1>1, <1>2, <2>2, CountInvUnchanged DEF vars, Tick
  <2>4. QED
    BY <2>1, <2>3
<1>3. ASSUME NEW w \in Worker,
             Get(w) \/ \E k \in Key, ttl \in Ttls : Set(w, k, ttl)
      PROVE  LockInv' /\ CountInv'
  BY <1>1, <1>3, OtherStepsKeepLockInv, ReadKeepsCountInv
<1>4. ASSUME NEW w \in Worker, Check(w) \/ Recheck(w)
      PROVE  LockInv' /\ CountInv'
  <2>1. \E from \in {"check", "recheck"}, to \in {"sweep", "evict", "insert"} :
          Advance(w, from, to) /\ (to = "insert" => count < MaxCapacity)
    BY <1>4 DEF Check, Recheck
  <2>2. QED
    BY <1>1, <2>1, AdvanceKeepsLockInv, LookKeepsCountInv
<1>5. ASSUME NEW w \in Worker, EvictExpired(w) \/ EvictLru(w)
      PROVE  LockInv' /\ CountInv'
  <2>1. CASE EvictExpired(w)
    <3>1. PICK ks : Remove(w, ks, "swept")
      BY <2>1 DEF EvictExpired
    <3>2. pc[w] = "sweep" /\ "swept" \in TakingOut
      BY <2>1 DEF EvictExpired, TakingOut
    <3>3. QED
      BY <1>1, <3>1, <3>2, RemoveKeepsLockInv, RemoveKeepsCountInv
  <2>2. CASE EvictLru(w)
    <3>1. PICK victims \in SUBSET Stored :
            /\ \/ Cardinality(victims) = EvictionSize
               \/ Cardinality(victims) < EvictionSize /\ victims = Stored
            /\ Remove(w, victims, "evicted")
      BY <2>2 DEF EvictLru
    <3>2. victims \cap Stored # {} \/ Stored = {}
      <4>1. EvictionSize \in Nat /\ EvictionSize # 0
        BY CacheAssumption DEF EvictionSize
      <4>2. QED
        BY <3>1, <4>1, FS_EmptySet
    <3>3. pc[w] = "evict" /\ "evicted" \in TakingOut
      BY <2>2 DEF EvictLru, TakingOut
    <3>4. QED
      BY <1>1, <3>1, <3>2, <3>3, RemoveKeepsLockInv, RemoveKeepsCountInv
  <2>3. QED
    BY <1>5, <2>1, <2>2
<1>6. ASSUME NEW w \in Worker, NEW step \in {"removed", "cleared"}, NEW ks,
             pc[w] = "idle", Remove(w, ks, step),
             step = "cleared" => Stored \subseteq ks
      PROVE  LockInv' /\ CountInv'
  <2>1. step \in TakingOut
    BY DEF TakingOut
  <2>2. QED
    BY <1>1, <1>6, <2>1, RemoveKeepsLockInv, RemoveKeepsCountInv
<1>7. ASSUME NEW w \in Worker, Swept(w) \/ Evicted(w) \/ Removed(w) \/ Cleared(w)
      PROVE  LockInv' /\ CountInv'
  <2>1. pc[w] \in TakingOut /\ Cardinality(Counting) = 0
    <3>1. pc[w] \in TakingOut
      BY <1>7 DEF Swept, Evicted, Removed, Cleared, Settle, TakingOut
    <3>2. QED
      BY <3>1, NobodyCounts DEF LockInv
  <2>2. count - removed = Cardinality(Stored) /\ Cardinality(Stored) \in Nat
    BY <2>1, Sizes DEF CountIsSize, LockInv, TypeOK
  <2>3. ASSUME Cleared(w) PROVE Cardinality(Stored) = 0
    <3>1. Stored = {}
      BY <2>3 DEF Cleared, Settle, EvictedSome
    <3>2. QED
      BY <3>1, FS_EmptySet
  <2>4. \E from \in TakingOut, to \in {"idle", "recheck", "insert"} :
          /\ Settle(w, from, to, count - removed)
          /\ to # "idle" => from \in {"swept", "evicted"}
          /\ to = "insert" => from = "evicted"
    BY <1>7, <2>2, <2>3 DEF Swept, Evicted, Removed, Cleared, TakingOut
  <2>5. QED
    <3>1. TakingOut \subseteq Holding
      BY DEF TakingOut, Holding
    <3>2. QED
      BY <1>1, <2>2, <2>4, <3>1, SettleKeepsLockInv, SettleKeepsCountInv
<1>8. ASSUME NEW w \in Worker, Insert(w) PROVE LockInv' /\ CountInv'
  BY <1>1, <1>8, OtherStepsKeepLockInv, InsertKeepsCountInv
<1>9. ASSUME NEW w \in Worker, Inserted(w) PROVE LockInv' /\ CountInv'
  <2>1. count + 1 \in Nat /\ "inserted" \in Holding
    BY DEF LockInv, TypeOK, Holding
  <2>2. QED
    BY <1>1, <1>9, <2>1, SettleKeepsLockInv, InsertedKeepsCountInv DEF Inserted
<1>10. ASSUME NEW w \in Worker, Invalidate(w) PROVE LockInv' /\ CountInv'
  <2>1. Stored \subseteq Key
    BY DEF Stored
  <2>2. QED
    BY <1>6, <1>7, <1>10, <2>1 DEF Invalidate, Delete, InvalidatePattern, SweepNow, Clear
<1>11. QED
  BY <1>2, <1>3, <1>4, <1>5, <1>7, <1>8, <1>9, <1>10 DEF Next, SetStep

---------------------------------------------------------------------------
(* Every reachable state satisfies the invariant, whatever the threads,    *)
(* keys, capacity and times to live. *)
THEOREM CacheInvariant == Spec => []CacheInv
BY InitInv, Step, PTL DEF Spec

(* The variables keep their types; in particular entry_count never wraps.  *)
THEOREM CacheTypeOK == Spec => []TypeOK
<1>1. CacheInv => TypeOK
  BY DEF CacheInv, LockInv
<1>2. QED
  BY <1>1, CacheInvariant, PTL

(* entry_count is the size of the map, up to what the holder of the write  *)
(* lock is about to correct. *)
THEOREM CounterNeverDrifts == Spec => []CountIsSize
<1>1. CacheInv => CountIsSize
  BY DEF CacheInv
<1>2. QED
  BY <1>1, CacheInvariant, PTL

(* max_capacity is exceeded by less than the number of threads. *)
THEOREM OvershootIsBounded == Spec => []OvershootBounded
<1>1. CacheInv => OvershootBounded
  <2> SUFFICES ASSUME CacheInv PROVE OvershootBounded
    OBVIOUS
  <2>1. Cardinality(Counting) <= Cardinality(Past)
    BY Sizes, FS_Subset DEF Counting, Past
  <2>2. QED
    BY <2>1, Sizes, CacheAssumption DEF CacheInv, LockInv, TypeOK, CountIsSize, RoomLeft, OvershootBounded
<1>2. QED
  BY <1>1, CacheInvariant, PTL
===========================================================================
