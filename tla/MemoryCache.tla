---------------------------- MODULE MemoryCache ----------------------------
(***************************************************************************)
(* The in-memory backend of the data cache (prax-query,                    *)
(* data_cache/memory.rs): a map behind a readers-writer lock, and the      *)
(* atomic entry_count, which is read without the lock.                     *)
(*                                                                         *)
(* The operations contain no await; a worker is a thread that carries one  *)
(* out.  A step is what happens between two points at which other threads  *)
(* are noticed: taking the lock with the change to the map is one step,    *)
(* the update of entry_count and the release of the lock another, since    *)
(* set reads the counter in between.  The atomic counter is coherent: a    *)
(* load returns the last value stored.  What is stored under a key is left *)
(* out, and so are tags: set stores none, so no index is ever filled and   *)
(* invalidate_tags finds nothing.                                          *)
(***************************************************************************)
EXTENDS Integers, FiniteSets

CONSTANTS
  Worker,         (* threads                                               *)
  Key,            (* cache keys                                            *)
  Absent,         (* "no entry", under a key or in a worker's hands        *)
  MaxCapacity,    (* MemoryCacheConfig::max_capacity                       *)
  Ttls,           (* effective times to live; one beyond MaxTime is "none" *)
  MaxTime         (* bound on the clock                                    *)

(* CacheEntry: last_accessed and expires_at. *)
Entry == [accessed : Nat, expires : Nat]

ASSUME CacheAssumption ==
  /\ IsFiniteSet(Worker)
  /\ IsFiniteSet(Key)
  /\ MaxCapacity \in Nat \ {0}
  /\ Ttls \subseteq Nat
  /\ MaxTime \in Nat
  /\ Absent \notin Entry

VARIABLES
  now,       (* Instant::now()                                             *)
  entries,   (* MemoryCache.entries                                        *)
  count,     (* MemoryCache.entry_count                                    *)
  pc,        (* what each worker does next                                 *)
  pending,   (* the key a worker works on, and the entry set will insert   *)
  removed    (* entries the holder of the write lock took out of the map   *)

vars == <<now, entries, count, pc, pending, removed>>

(* A worker at one of these points holds the write lock. *)
Holding == {"swept", "evicted", "inserted", "removed", "cleared"}
Steps == Holding \cup {"idle", "touch", "check", "sweep", "recheck", "evict", "insert"}

Locked == \E w \in Worker : pc[w] \in Holding

NewEntry(ttl) == [accessed |-> now, expires |-> now + ttl]

Stored == {k \in Key : entries[k] # Absent}
Expired(k) == entries[k].expires <= now

TypeOK ==
  /\ now \in Nat
  /\ entries \in [Key -> Entry \cup {Absent}]
  /\ count \in Nat
  /\ pc \in [Worker -> Steps]
  /\ pending \in [Worker -> [key : Key, entry : Entry \cup {Absent}] \cup {Absent}]
  /\ removed \in Nat

Init ==
  /\ now = 0
  /\ entries = [k \in Key |-> Absent]
  /\ count = 0
  /\ pc = [w \in Worker |-> "idle"]
  /\ pending = [w \in Worker |-> Absent]
  /\ removed = 0

---------------------------------------------------------------------------
Goto(w, step) == pc' = [pc EXCEPT ![w] = step]

(* w moves on from one point to the next without touching the map. *)
Advance(w, from, to) ==
  /\ pc[w] = from
  /\ Goto(w, to)
  /\ UNCHANGED <<now, entries, count, pending, removed>>

(* w takes the write lock, takes the keys of ks out of the map, and goes   *)
(* on to correct the counter.                                              *)
Remove(w, ks, step) ==
  /\ ~Locked
  /\ entries' = [k \in Key |-> IF k \in ks THEN Absent ELSE entries[k]]
  /\ removed' = Cardinality(ks \cap Stored)
  /\ Goto(w, step)
  /\ UNCHANGED <<now, count, pending>>

Tick ==
  /\ now < MaxTime
  /\ now' = now + 1
  /\ UNCHANGED <<entries, count, pc, pending, removed>>

---------------------------------------------------------------------------
(* get *)

(* A hit changes nothing: get returns before it updates last_accessed, so  *)
(* that an entry keeps the time it was stored.  Nor does an expired entry, *)
(* which is reported as a miss.  If there is none, the read lock is        *)
(* released,                                                               *)
GetMiss(w, k) ==
  /\ pc[w] = "idle" /\ ~Locked
  /\ k \notin Stored
  /\ pending' = [pending EXCEPT ![w] = [key |-> k, entry |-> Absent]]
  /\ Goto(w, "touch")
  /\ UNCHANGED <<now, entries, count, removed>>

(* and the write lock taken: an entry stored in the meantime is touched. *)
Touch(w) ==
  /\ pc[w] = "touch" /\ ~Locked
  /\ LET k == pending[w].key
     IN  entries' = [entries EXCEPT ![k] =
           IF k \in Stored THEN [@ EXCEPT !.accessed = now] ELSE @]
  /\ pending' = [pending EXCEPT ![w] = Absent]
  /\ Goto(w, "idle")
  /\ UNCHANGED <<now, count, removed>>

---------------------------------------------------------------------------
(* set *)

(* CacheEntry::new stamps the entry before room is made for it. *)
Set(w, k, ttl) ==
  /\ pc[w] = "idle"
  /\ pending' = [pending EXCEPT ![w] = [key |-> k, entry |-> NewEntry(ttl)]]
  /\ Goto(w, "check")
  /\ UNCHANGED <<now, entries, count, removed>>

(* The first look at entry_count, without the lock. *)
Check(w) ==
  \/ count < MaxCapacity /\ Advance(w, "check", "insert")
  \/ count >= MaxCapacity /\ Advance(w, "check", "sweep")

(* evict_expired takes the expired entries out, *)
EvictExpired(w) ==
  /\ pc[w] = "sweep"
  /\ Remove(w, {k \in Stored : Expired(k)}, "swept")

(* w corrects the counter and releases the lock. *)
Settle(w, from, to, n) ==
  /\ pc[w] = from
  /\ count' = n
  /\ removed' = 0
  /\ Goto(w, to)
  /\ UNCHANGED <<now, entries, pending>>

(* Mutant of Swept: the counter is left to the next eviction. *)
SweptUncounted(w) == Settle(w, "swept", "recheck", count)

(* and subtracts their number. *)
Swept(w) == Settle(w, "swept", "recheck", count - removed)

(* Mutants of Recheck: set inserts after one sweep, whatever it freed; or  *)
(* sweeps again until there is room.                                       *)
RecheckInserts(w) == Advance(w, "recheck", "insert")
RecheckSweepsAgain(w) ==
  \/ count < MaxCapacity /\ Advance(w, "recheck", "insert")
  \/ count >= MaxCapacity /\ Advance(w, "recheck", "sweep")

(* The second look at entry_count, again without the lock. *)
Recheck(w) ==
  \/ count < MaxCapacity /\ Advance(w, "recheck", "insert")
  \/ count >= MaxCapacity /\ Advance(w, "recheck", "evict")

(* (max_capacity / 10).max(1) *)
EvictionSize == IF MaxCapacity \div 10 > 1 THEN MaxCapacity \div 10 ELSE 1

(* evict_lru takes out the entries with the oldest last_accessed, *)
EvictLru(w) ==
  /\ pc[w] = "evict"
  /\ \E victims \in SUBSET Stored :
       /\ \/ Cardinality(victims) = EvictionSize
          \/ Cardinality(victims) < EvictionSize /\ victims = Stored
       /\ \A v \in victims, s \in Stored \ victims :
            entries[v].accessed <= entries[s].accessed
       /\ Remove(w, victims, "evicted")

(* and stores the size of the map as the new count. *)
Evicted(w) == Settle(w, "evicted", "insert", Cardinality(Stored))

(* The entry is inserted, over an old one if there is one, *)
Insert(w) ==
  /\ pc[w] = "insert" /\ ~Locked
  /\ LET k == pending[w].key
     IN  /\ entries' = [entries EXCEPT ![k] = pending[w].entry]
         /\ Goto(w, IF k \in Stored THEN "idle" ELSE "inserted")
  /\ pending' = [pending EXCEPT ![w] = Absent]
  /\ UNCHANGED <<now, count, removed>>

(* and a new one is counted. *)
Inserted(w) == Settle(w, "inserted", "idle", count + 1)

---------------------------------------------------------------------------
(* delete, invalidate_pattern, evict_expired and clear *)

Delete(w, k) ==
  /\ pc[w] = "idle"
  /\ k \in Stored
  /\ Remove(w, {k}, "removed")

(* The keys that match the pattern go. *)
InvalidatePattern(w, matching) ==
  /\ pc[w] = "idle"
  /\ Remove(w, matching, "removed")

(* evict_expired called from outside set. *)
SweepNow(w) ==
  /\ pc[w] = "idle"
  /\ Remove(w, {k \in Stored : Expired(k)}, "removed")

Clear(w) ==
  /\ pc[w] = "idle"
  /\ Remove(w, Key, "cleared")

Removed(w) == Settle(w, "removed", "idle", count - removed)
Cleared(w) == Settle(w, "cleared", "idle", 0)

---------------------------------------------------------------------------
Get(w) == (\E k \in Key : GetMiss(w, k)) \/ Touch(w)

(* The rest of a set in progress. *)
SetStep(w) ==
  \/ Check(w)
  \/ EvictExpired(w) \/ Swept(w)
  \/ Recheck(w)
  \/ EvictLru(w) \/ Evicted(w)
  \/ Insert(w) \/ Inserted(w)

Invalidate(w) ==
  \/ \E k \in Key : Delete(w, k)
  \/ \E matching \in SUBSET Key : InvalidatePattern(w, matching)
  \/ SweepNow(w) \/ Clear(w)
  \/ Removed(w) \/ Cleared(w)

Next ==
  \/ Tick
  \/ \E w \in Worker :
       \/ Get(w)
       \/ \E k \in Key, ttl \in Ttls : Set(w, k, ttl)
       \/ SetStep(w)
       \/ Invalidate(w)

Spec == Init /\ [][Next]_vars

(* parking_lot's lock is eventually fair, and threads run: an operation    *)
(* that could go on again and again does.  Nothing starts by itself.       *)
FairSpec ==
  /\ Spec
  /\ \A w \in Worker :
       /\ SF_vars(SetStep(w) \/ Touch(w))
       /\ WF_vars(Removed(w) \/ Cleared(w))

---------------------------------------------------------------------------
(* Properties *)

(* The worker that has inserted a new entry and not counted it yet. *)
Counting == {w \in Worker : pc[w] = "inserted"}

(* Workers that will insert without looking at the counter again. *)
Past == {w \in Worker : pc[w] \in {"insert", "inserted"}}

(* entry_count is the size of the map whenever nobody holds the write      *)
(* lock, and off by exactly what the holder is about to correct otherwise: *)
(* set, delete, the invalidations and both evictions, interleaved, never   *)
(* lose or double an update, and the unsigned counter never wraps.         *)
CountIsSize == count = Cardinality(Stored) + removed - Cardinality(Counting)

(* set checks the capacity and inserts later, without keeping the lock, so *)
(* max_capacity can be exceeded; but never by as many entries as there are *)
(* threads, however the checks, evictions and inserts interleave.          *)
OvershootBounded == Cardinality(Stored) < MaxCapacity + Cardinality(Worker)

(* Every set that has begun returns, although the cache may be full of     *)
(* entries that do not expire and other threads keep inserting.            *)
SetReturns == \A w \in Worker : pc[w] = "check" ~> pc[w] = "idle"
===========================================================================
