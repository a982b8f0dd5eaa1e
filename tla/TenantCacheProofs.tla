------------------------- MODULE TenantCacheProofs -------------------------
(***************************************************************************)
(* Proofs about TenantCache: for any callers, tenants, capacity, times to  *)
(* live and fetch times, what the runs check on small ones.                *)
(*                                                                         *)
(* Ages are bounded twice: what a task has in hand is no older than one    *)
(* fetch (InHandIsFresh), so that an entry expires at most one fetch and   *)
(* one time to live after its context was read (EntriesExpire).  And what  *)
(* is old after an invalidation is late, in a task's hands (OldIsLate) as  *)
(* in the cache.                                                           *)
(***************************************************************************)
EXTENDS TenantCache, FiniteSetTheorems, TLAPS

(* The source has answered w. *)
Answered(w) == step[w] \in {"fetched", "refreshed"}

(* A task that is at work has something in hand. *)
HandsFull == \A w \in Task : step[w] # "idle" => reading[w] \in Reading

InHandIsFresh == \A w \in Task : Answered(w) => clock <= reading[w].read + FetchTime

LifeOf(v) == IF v = 0 THEN NegativeTtl ELSE Ttl

EntriesExpire ==
  \A t \in Stored : entries[t].expires <= entries[t].read + FetchTime + LifeOf(entries[t].version)

OldIsLate ==
  \A w \in Task :
    /\ Answered(w)
    /\ reading[w].tenant \in told
    /\ reading[w].version # source[reading[w].tenant]
    => reading[w].late

TenantInv ==
  /\ TenantTypeOK
  /\ HandsFull
  /\ InHandIsFresh
  /\ EntriesExpire
  /\ OldIsLate
  /\ OnlyLateTasksRestore

---------------------------------------------------------------------------
(* Numbers are numbers, and NoEntry is none of the records. *)
LEMMA TenantConstants ==
  /\ MaxEntries \in Nat /\ Ttl \in Nat /\ NegativeTtl \in Nat
  /\ FetchTime \in Nat /\ MaxVersion \in Nat
  /\ NoEntry \notin TenantEntry /\ NoEntry \notin Reading
  /\ IsFiniteSet(Tenant)
BY TenantAssumption

(* A stored entry is an entry. *)
LEMMA StoredIsEntry ==
  ASSUME TenantTypeOK
  PROVE  \A t \in Stored : t \in Tenant /\ entries[t] \in TenantEntry
BY TenantConstants DEF TenantTypeOK, Stored

(* Nothing is cached. *)
LEMMA TenantInitInv == TenantInit => TenantInv
<1> SUFFICES ASSUME TenantInit PROVE TenantInv
  OBVIOUS
<1> USE DEF TenantInit
<1>1. TenantTypeOK
  <2>1. \A t \in Tenant : source[t] \in Version
    BY TenantAssumption DEF Version
  <2>2. QED
    BY <2>1 DEF TenantTypeOK, TaskStep
<1>2. HandsFull /\ InHandIsFresh /\ OldIsLate
  BY DEF HandsFull, InHandIsFresh, OldIsLate, Answered
<1>3. Stored = {}
  BY DEF Stored
<1>4. EntriesExpire /\ OnlyLateTasksRestore
  BY <1>3 DEF EntriesExpire, OnlyLateTasksRestore
<1>5. QED
  BY <1>1, <1>2, <1>4 DEF TenantInv

(* What w has in hand makes an entry that expires in time, and is late if  *)
(* it is old.                                                              *)
LEMMA EntryForHand ==
  ASSUME TenantInv, NEW w \in Task, Answered(w)
  PROVE  LET e == EntryFor(reading[w])
             t == reading[w].tenant
         IN  /\ t \in Tenant
             /\ e \in TenantEntry
             /\ e.expires <= e.read + FetchTime + LifeOf(e.version)
             /\ t \in told /\ e.version \notin {0, source[t]} => e.late
<1>1. reading[w] \in Reading
  BY DEF TenantInv, HandsFull, Answered
<1>2. clock \in Nat /\ clock <= reading[w].read + FetchTime
  BY DEF TenantInv, TenantTypeOK, InHandIsFresh
<1>3. /\ reading[w].tenant \in Tenant /\ reading[w].version \in Version
      /\ reading[w].read \in Nat /\ reading[w].late \in BOOLEAN
  BY <1>1 DEF Reading
<1>4. LifeOf(reading[w].version) \in Nat
  BY TenantConstants DEF LifeOf
<1>5. EntryFor(reading[w]) =
        [version |-> reading[w].version, expires |-> clock + LifeOf(reading[w].version),
         refreshing |-> FALSE, read |-> reading[w].read, late |-> reading[w].late]
  BY DEF EntryFor, LifeOf
<1>6. EntryFor(reading[w]) \in TenantEntry
  BY <1>2, <1>3, <1>4, <1>5 DEF TenantEntry
<1>7. clock + LifeOf(reading[w].version)
        <= reading[w].read + FetchTime + LifeOf(reading[w].version)
  BY <1>2, <1>3, <1>4, TenantConstants
<1>8. reading[w].tenant \in told /\ reading[w].version # source[reading[w].tenant]
        => reading[w].late
  BY DEF TenantInv, OldIsLate
<1>9. QED
  BY <1>3, <1>5, <1>6, <1>7, <1>8

(* The entries of the next state are old ones, perhaps with another mark,  *)
(* or made of what w has in hand.                                          *)
LEMMA EntriesKept ==
  ASSUME TenantInv, UNCHANGED <<source, told>>,
         NEW t \in Tenant, NEW e \in TenantEntry,
         e.expires <= e.read + FetchTime + LifeOf(e.version),
         t \in told /\ e.version \notin {0, source[t]} => e.late,
         entries' \in [Tenant -> TenantEntry \cup {NoEntry}],
         entries'[t] = e,
         \A u \in Tenant \ {t} : entries'[u] \in {entries[u], NoEntry}
  PROVE  EntriesExpire' /\ OnlyLateTasksRestore'
<1>1. \A u \in Stored' : u = t \/ (u \in Stored /\ entries'[u] = entries[u])
  BY DEF Stored
<1>2. EntriesExpire'
  BY <1>1 DEF TenantInv, EntriesExpire, LifeOf
<1>3. OnlyLateTasksRestore'
  BY <1>1 DEF TenantInv, OnlyLateTasksRestore
<1>4. QED
  BY <1>2, <1>3

(* The hands of w are emptied, and nobody else's change. *)
LEMMA DoneKeeps ==
  ASSUME TenantInv, NEW w \in Task, NEW from, Done(w, from)
  PROVE  /\ step' \in [Task -> TaskStep] /\ reading' \in [Task -> Reading \cup {NoEntry}]
         /\ HandsFull' /\ InHandIsFresh' /\ OldIsLate'
         /\ UNCHANGED <<clock, source, told>>
<1> USE DEF Done, TaskGoes
<1>1. \A v \in Task : /\ step'[v] = IF v = w THEN "idle" ELSE step[v]
                      /\ reading'[v] = IF v = w THEN NoEntry ELSE reading[v]
  BY DEF TenantInv, TenantTypeOK
<1>2. step' \in [Task -> TaskStep] /\ reading' \in [Task -> Reading \cup {NoEntry}]
  BY DEF TenantInv, TenantTypeOK, TaskStep
<1>3. HandsFull' /\ InHandIsFresh' /\ OldIsLate'
  BY <1>1 DEF TenantInv, HandsFull, InHandIsFresh, OldIsLate, Answered
<1>4. QED
  BY <1>2, <1>3

(* insert stores the entry, and takes at most others away. *)
LEMMA InsertStores ==
  ASSUME TenantTypeOK, NEW t \in Tenant, NEW e \in TenantEntry, InsertEntry(t, e)
  PROVE  /\ entries' \in [Tenant -> TenantEntry \cup {NoEntry}]
         /\ entries'[t] = e
         /\ \A u \in Tenant \ {t} : entries'[u] \in {entries[u], NoEntry}
<1>1. Victims \in SUBSET Tenant
  BY DEF Victims, Stored
<1>2. CASE Put(t, e)
  BY <1>2 DEF Put, TenantTypeOK
<1>3. CASE \E v \in Victims : entries' = [entries EXCEPT ![v] = NoEntry, ![t] = e]
  <2>1. PICK v \in Tenant : entries' = [entries EXCEPT ![v] = NoEntry, ![t] = e]
    BY <1>1, <1>3
  <2>2. QED
    BY <2>1 DEF TenantTypeOK
<1>4. QED
  BY <1>2, <1>3 DEF InsertEntry

---------------------------------------------------------------------------
(* One lemma for each kind of step *)

(* A lookup misses. *)
LEMMA MissKeeps ==
  ASSUME TenantInv, NEW w \in Task, NEW t \in Tenant, Miss(w, t)
  PROVE  TenantInv'
<1> USE DEF Miss, TaskGoes, TakesUp
<1>1. [tenant |-> t, version |-> 0, read |-> 0, late |-> FALSE] \in Reading
  BY TenantConstants DEF Reading, Version
<1>2. \A v \in Task : /\ step'[v] = IF v = w THEN "fetch" ELSE step[v]
                      /\ v # w => reading'[v] = reading[v]
                      /\ v = w => reading'[v] \in Reading
  BY <1>1 DEF TenantInv, TenantTypeOK
<1>3. TenantTypeOK'
  BY <1>1 DEF TenantInv, TenantTypeOK, TaskStep
<1>4. HandsFull' /\ InHandIsFresh' /\ OldIsLate'
  <2> HIDE DEF Miss, TaskGoes, TakesUp
  <2>1. UNCHANGED <<clock, source, told>>
    BY DEF Miss, TaskGoes
  <2>2. HandsFull'
    BY <1>2 DEF TenantInv, HandsFull
  <2>3. \A v \in Task : Answered(v)' => Answered(v) /\ reading'[v] = reading[v]
    BY <1>2 DEF Answered
  <2>4. InHandIsFresh'
    BY <2>1, <2>3 DEF TenantInv, InHandIsFresh
  <2>5. OldIsLate'
    BY <2>1, <2>3 DEF TenantInv, OldIsLate
  <2>6. QED
    BY <2>2, <2>4, <2>5
<1>5. EntriesExpire' /\ OnlyLateTasksRestore'
  BY DEF TenantInv, EntriesExpire, OnlyLateTasksRestore, Stored
<1>6. QED
  BY <1>3, <1>4, <1>5 DEF TenantInv

(* A caller marks a stale entry to refresh it. *)
LEMMA MarkKeeps ==
  ASSUME TenantInv, NEW w \in Task, NEW t \in Tenant, MarkRefreshing(w, t)
  PROVE  TenantInv'
<1> USE DEF MarkRefreshing, TaskGoes, TakesUp, Put
<1> DEFINE e == [entries[t] EXCEPT !.refreshing = TRUE]
<1>1. [tenant |-> t, version |-> 0, read |-> 0, late |-> FALSE] \in Reading
  BY TenantConstants DEF Reading, Version
<1>2. \A v \in Task : /\ step'[v] = IF v = w THEN "refresh" ELSE step[v]
                      /\ v # w => reading'[v] = reading[v]
                      /\ v = w => reading'[v] \in Reading
  BY <1>1 DEF TenantInv, TenantTypeOK
<1>3. t \in Stored /\ entries[t] \in TenantEntry
  BY StoredIsEntry DEF TenantInv
<1>4. /\ e \in TenantEntry
      /\ e.expires = entries[t].expires /\ e.read = entries[t].read
      /\ e.version = entries[t].version /\ e.late = entries[t].late
  BY <1>3 DEF TenantEntry
<1>5. TenantTypeOK'
  BY <1>1, <1>4 DEF TenantInv, TenantTypeOK, TaskStep
<1>6. HandsFull' /\ InHandIsFresh' /\ OldIsLate'
  <2> HIDE DEF MarkRefreshing, TaskGoes, TakesUp, Put
  <2>1. UNCHANGED <<clock, source, told>>
    BY DEF MarkRefreshing, TaskGoes
  <2>2. HandsFull'
    BY <1>2 DEF TenantInv, HandsFull
  <2>3. \A v \in Task : Answered(v)' => Answered(v) /\ reading'[v] = reading[v]
    BY <1>2 DEF Answered
  <2>4. InHandIsFresh'
    BY <2>1, <2>3 DEF TenantInv, InHandIsFresh
  <2>5. OldIsLate'
    BY <2>1, <2>3 DEF TenantInv, OldIsLate
  <2>6. QED
    BY <2>2, <2>4, <2>5
<1>7. EntriesExpire' /\ OnlyLateTasksRestore'
  <2>1. e.expires <= e.read + FetchTime + LifeOf(e.version)
    BY <1>3, <1>4 DEF TenantInv, EntriesExpire
  <2>2. t \in told /\ e.version \notin {0, source[t]} => e.late
    BY <1>3, <1>4 DEF TenantInv, OnlyLateTasksRestore
  <2>3. entries' = [entries EXCEPT ![t] = e]
    OBVIOUS
  <2> HIDE DEF e
  <2>4. /\ entries' \in [Tenant -> TenantEntry \cup {NoEntry}]
        /\ entries'[t] = e
        /\ \A u \in Tenant \ {t} : entries'[u] \in {entries[u], NoEntry}
    BY <1>4, <2>3 DEF TenantInv, TenantTypeOK
  <2>5. QED
    BY <1>4, <2>1, <2>2, <2>4, EntriesKept
<1>8. QED
  BY <1>5, <1>6, <1>7 DEF TenantInv

(* What has just been read is fresh, and not old. *)
LEMMA ReadKeeps ==
  ASSUME TenantInv, NEW w \in Task, ReadSource(w)
  PROVE  TenantInv'
<1> USE DEF ReadSource, TaskGoes
<1>1. step[w] \in {"fetch", "refresh"} /\ reading[w] \in Reading
  BY DEF TenantInv, HandsFull
<1>2. /\ source[reading[w].tenant] \in Version /\ clock \in Nat
      /\ reading[w].tenant \in Tenant
  BY <1>1 DEF Reading, TenantInv, TenantTypeOK
<1> DEFINE r == [reading[w] EXCEPT !.version = source[reading[w].tenant], !.read = clock, !.late = FALSE]
<1>3. /\ r \in Reading /\ r.read = clock /\ r.tenant = reading[w].tenant
      /\ r.version = source[r.tenant]
  BY <1>1, <1>2 DEF Reading
<1>4. reading' = [reading EXCEPT ![w] = r]
  BY DEF TenantInv, TenantTypeOK
<1> HIDE DEF r
<1>5. /\ step'[w] \in {"fetched", "refreshed"}
      /\ reading'[w] = r
      /\ \A v \in Task \ {w} : step'[v] = step[v] /\ reading'[v] = reading[v]
  BY <1>4 DEF TenantInv, TenantTypeOK
<1>6. step' \in [Task -> TaskStep] /\ UNCHANGED <<clock, source, told, entries>>
  BY DEF TenantInv, TenantTypeOK, TaskStep
<1> HIDE DEF ReadSource, TaskGoes
<1>7. TenantTypeOK'
  BY <1>3, <1>4, <1>6 DEF TenantInv, TenantTypeOK
<1>8. HandsFull' /\ InHandIsFresh' /\ OldIsLate'
  <2>1. clock <= clock + FetchTime
    BY <1>2, TenantConstants
  <2>2. HandsFull'
    BY <1>3, <1>5 DEF TenantInv, HandsFull
  <2>3. InHandIsFresh'
    BY <1>3, <1>5, <1>6, <2>1 DEF TenantInv, InHandIsFresh, Answered
  <2>4. OldIsLate'
    BY <1>3, <1>5, <1>6 DEF TenantInv, OldIsLate, Answered
  <2>5. QED
    BY <2>2, <2>3, <2>4
<1>9. EntriesExpire' /\ OnlyLateTasksRestore'
  BY <1>6 DEF TenantInv, EntriesExpire, OnlyLateTasksRestore, Stored
<1>10. QED
  BY <1>7, <1>8, <1>9 DEF TenantInv

(* A lookup stores what it was given. *)
LEMMA StoreKeeps ==
  ASSUME TenantInv, NEW w \in Task, StoreFetched(w) \/ CompleteRefresh(w)
  PROVE  TenantInv'
<1> DEFINE t == reading[w].tenant
           e == EntryFor(reading[w])
<1>1. Answered(w) /\ \E from \in TaskStep : Done(w, from)
  BY DEF StoreFetched, CompleteRefresh, Done, TaskGoes, Answered, TaskStep
<1>2. /\ t \in Tenant /\ e \in TenantEntry
      /\ e.expires <= e.read + FetchTime + LifeOf(e.version)
      /\ t \in told /\ e.version \notin {0, source[t]} => e.late
  BY <1>1, EntryForHand
<1>3. InsertEntry(t, e) \/ Put(t, e)
  BY DEF StoreFetched, CompleteRefresh
<1> HIDE DEF t, e
<1>4. /\ entries' \in [Tenant -> TenantEntry \cup {NoEntry}]
      /\ entries'[t] = e
      /\ \A u \in Tenant \ {t} : entries'[u] \in {entries[u], NoEntry}
  <2>1. CASE InsertEntry(t, e)
    BY <1>2, <2>1, InsertStores DEF TenantInv
  <2>2. CASE Put(t, e)
    BY <1>2, <2>2 DEF Put, TenantInv, TenantTypeOK
  <2>3. QED
    BY <1>3, <2>1, <2>2
<1>5. /\ step' \in [Task -> TaskStep] /\ reading' \in [Task -> Reading \cup {NoEntry}]
      /\ HandsFull' /\ InHandIsFresh' /\ OldIsLate'
      /\ UNCHANGED <<clock, source, told>>
  BY <1>1, DoneKeeps
<1>6. EntriesExpire' /\ OnlyLateTasksRestore'
  BY <1>2, <1>4, <1>5, EntriesKept
<1>7. TenantTypeOK'
  BY <1>4, <1>5 DEF TenantInv, TenantTypeOK
<1>8. QED
  BY <1>5, <1>6, <1>7 DEF TenantInv

(* A fetch is dropped, or a refresh fails. *)
LEMMA GiveUpKeeps ==
  ASSUME TenantInv, NEW w \in Task, GiveUp(w)
  PROVE  TenantInv'
<1>1. PICK from \in TaskStep : Done(w, from) /\ UNCHANGED entries
  BY DEF GiveUp
<1>2. /\ step' \in [Task -> TaskStep] /\ reading' \in [Task -> Reading \cup {NoEntry}]
      /\ HandsFull' /\ InHandIsFresh' /\ OldIsLate'
      /\ UNCHANGED <<clock, source, told>>
  BY <1>1, DoneKeeps
<1>3. TenantTypeOK' /\ EntriesExpire' /\ OnlyLateTasksRestore'
  BY <1>1, <1>2 DEF TenantInv, TenantTypeOK, EntriesExpire, OnlyLateTasksRestore, Stored
<1>4. QED
  BY <1>2, <1>3 DEF TenantInv

(* The tenants told about lose their contexts, or keep a negative entry;   *)
(* what old versions are in hand becomes late.                             *)
LEMMA DropKeeps ==
  ASSUME TenantInv, NEW gone \in SUBSET Tenant, NEW ts \in SUBSET Tenant,
         \A t \in ts \cap Stored : t \in gone \/ entries[t].version = 0,
         DropEntries(gone, ts)
  PROVE  TenantInv'
<1> USE DEF DropEntries
<1>1. \A t \in Stored' : t \in Stored /\ t \notin gone /\ entries'[t] = entries[t]
  BY DEF Stored
<1>2. ASSUME NEW w \in Task
      PROVE  /\ reading'[w] \in {reading[w], [reading[w] EXCEPT !.late = TRUE]}
             /\ reading'[w] # reading[w] => Answered(w)
  BY DEF Answered
<1>3. ASSUME NEW w \in Task, Answered(w)
      PROVE  /\ reading'[w] \in Reading
             /\ reading'[w].tenant = reading[w].tenant
             /\ reading'[w].version = reading[w].version
             /\ reading'[w].read = reading[w].read
             /\ reading[w].late => reading'[w].late
             /\ reading[w].tenant \in ts /\ reading[w].version # source[reading[w].tenant]
                  => reading'[w].late
  <2>1. reading[w] \in Reading
    BY <1>3 DEF TenantInv, HandsFull, Answered
  <2>2. [reading[w] EXCEPT !.late = TRUE] \in Reading
    BY <2>1 DEF Reading
  <2>3. reading'[w] =
          IF reading[w].tenant \in ts /\ reading[w].version # source[reading[w].tenant]
          THEN [reading[w] EXCEPT !.late = TRUE] ELSE reading[w]
    BY <1>3 DEF Answered
  <2>4. QED
    BY <2>1, <2>2, <2>3 DEF Reading
<1>4. TenantTypeOK'
  <2>1. \A w \in Task : reading'[w] \in Reading \cup {NoEntry}
    BY <1>2, <1>3 DEF TenantInv, TenantTypeOK
  <2>2. QED
    BY <2>1 DEF TenantInv, TenantTypeOK
<1>5. HandsFull' /\ InHandIsFresh'
  BY <1>2, <1>3 DEF TenantInv, HandsFull, InHandIsFresh, Answered
<1>6. OldIsLate'
  BY <1>3 DEF TenantInv, OldIsLate, Answered
<1>7. EntriesExpire'
  BY <1>1 DEF TenantInv, EntriesExpire, LifeOf
<1>8. OnlyLateTasksRestore'
  BY <1>1 DEF TenantInv, OnlyLateTasksRestore
<1>9. QED
  BY <1>4, <1>5, <1>6, <1>7, <1>8 DEF TenantInv

(* A tenant is invalidated. *)
LEMMA InvalidationKeeps ==
  ASSUME TenantInv, Invalidation
  PROVE  TenantInv'
<1>1. ASSUME NEW t \in Tenant, Invalidate(t)
      PROVE  TenantInv'
  BY <1>1, DropKeeps DEF Invalidate
<1>2. ASSUME NEW matching \in SUBSET Tenant, InvalidateIf(matching)
      PROVE  TenantInv'
  <2> DEFINE gone == {t \in Stored \cap matching : entries[t].version # 0}
  <2>1. gone \in SUBSET Tenant /\ \A t \in matching \cap Stored : t \in gone \/ entries[t].version = 0
    BY DEF Stored
  <2>2. DropEntries(gone, matching)
    BY <1>2 DEF InvalidateIf
  <2> HIDE DEF gone
  <2>3. QED
    BY <2>1, <2>2, DropKeeps
<1>3. CASE ClearTenants
  <2>1. DropEntries(Tenant, Tenant)
    BY <1>3 DEF ClearTenants
  <2>2. QED
    BY <2>1, DropKeeps
<1>4. CASE EvictExpiredTenants
  <2> DEFINE gone == {t \in Stored : IsExpired(t)}
  <2>1. gone \in SUBSET Tenant /\ DropEntries(gone, {})
    BY <1>4 DEF Stored, EvictExpiredTenants
  <2> HIDE DEF gone
  <2>2. QED
    BY <2>1, DropKeeps
<1>5. QED
  BY <1>1, <1>2, <1>3, <1>4 DEF Invalidation

(* The source changes. *)
LEMMA ChangeKeeps ==
  ASSUME TenantInv, NEW t \in Tenant, ChangeSource(t)
  PROVE  TenantInv'
<1> USE DEF ChangeSource
<1>1. TenantTypeOK'
  <2>1. source[t] + 1 \in Version
    BY TenantConstants DEF TenantInv, TenantTypeOK, Version
  <2>2. QED
    BY <2>1 DEF TenantInv, TenantTypeOK
<1>2. \A u \in Tenant : u \in told' => u \in told /\ source'[u] = source[u]
  BY DEF TenantInv, TenantTypeOK
<1>3. OldIsLate'
  BY <1>2 DEF TenantInv, OldIsLate, TenantTypeOK, Answered
<1>4. OnlyLateTasksRestore'
  BY <1>2 DEF TenantInv, OnlyLateTasksRestore, Stored
<1>5. HandsFull' /\ InHandIsFresh' /\ EntriesExpire'
  BY DEF TenantInv, HandsFull, InHandIsFresh, EntriesExpire, Stored, Answered
<1>6. QED
  BY <1>1, <1>3, <1>4, <1>5 DEF TenantInv

(* Time passes. *)
LEMMA TickKeeps ==
  ASSUME TenantInv, TenantTick
  PROVE  TenantInv'
<1> USE DEF TenantTick
<1>1. TenantTypeOK'
  BY DEF TenantInv, TenantTypeOK
<1>2. InHandIsFresh'
  <2>1. ASSUME NEW w \in Task, Answered(w)
        PROVE  clock + 1 <= reading[w].read + FetchTime
    <3>1. reading[w].read \in Nat /\ clock \in Nat
      BY <2>1 DEF TenantInv, TenantTypeOK, HandsFull, Answered, Reading
    <3>2. QED
      BY <2>1, <3>1, TenantConstants DEF Answered
  <2>2. QED
    BY <2>1 DEF InHandIsFresh, Answered
<1>3. HandsFull' /\ OldIsLate' /\ EntriesExpire' /\ OnlyLateTasksRestore'
  BY DEF TenantInv, HandsFull, OldIsLate, EntriesExpire, OnlyLateTasksRestore, Stored, Answered
<1>4. QED
  BY <1>1, <1>2, <1>3 DEF TenantInv

(* Every step keeps the invariant. *)
LEMMA TenantNextInv == TenantInv /\ [TenantNext]_tenantVars => TenantInv'
<1> SUFFICES ASSUME TenantInv, [TenantNext]_tenantVars PROVE TenantInv'
  OBVIOUS
<1>1. ASSUME NEW w \in Task, UseCache(w)
      PROVE  TenantInv'
  BY <1>1, MissKeeps, MarkKeeps, ReadKeeps, StoreKeeps, GiveUpKeeps DEF UseCache
<1>2. CASE Invalidation
  BY <1>2, InvalidationKeeps
<1>3. ASSUME NEW t \in Changing, ChangeSource(t)
      PROVE  TenantInv'
  <2>1. t \in Tenant
    BY TenantAssumption
  <2>2. QED
    BY <1>3, <2>1, ChangeKeeps
<1>4. CASE TenantTick
  BY <1>4, TickKeeps
<1>5. CASE UNCHANGED tenantVars
  BY <1>5 DEF tenantVars, TenantInv, TenantTypeOK, HandsFull, InHandIsFresh, EntriesExpire,
     OldIsLate, OnlyLateTasksRestore, Stored, Answered
<1>6. QED
  BY <1>1, <1>2, <1>3, <1>4, <1>5 DEF TenantNext

---------------------------------------------------------------------------
(* Theorems *)

(* The inductive invariant: what is in hand is fresh, entries expire in    *)
(* time, and what is old after an invalidation is late.                    *)
THEOREM TenantInvariant == TenantSpec => []TenantInv
BY TenantInitInv, TenantNextInv, PTL DEF TenantSpec

(* Every variable stays within its type (CacheEntry, tenant/cache.rs:109). *)
THEOREM TenantTypes == TenantSpec => []TenantTypeOK
<1>1. TenantInv => TenantTypeOK
  BY DEF TenantInv
<1>2. QED
  BY <1>1, TenantInvariant, PTL

(* What lookup answers was read at most one fetch and one time to live     *)
(* ago, whatever refreshes fail, are revived or race.                      *)
THEOREM AnswersAreFresh == TenantSpec => []StalenessBounded
<1>1. TenantInv => StalenessBounded
  <2> SUFFICES ASSUME TenantInv, NEW t \in Tenant, LookUp(t) # "miss"
               PROVE  clock < entries[t].read + FetchTime
                                + (IF LookUp(t) = "negative" THEN NegativeTtl ELSE Ttl)
    BY DEF StalenessBounded
  <2>1. t \in Stored /\ ~IsExpired(t)
    BY DEF LookUp
  <2>2. LookUp(t) = "negative" <=> entries[t].version = 0
    BY <2>1 DEF LookUp
  <2>3. entries[t] \in TenantEntry /\ clock \in Nat
    BY <2>1, StoredIsEntry DEF TenantInv, TenantTypeOK
  <2>4. clock < entries[t].expires
    BY <2>1, <2>3 DEF IsExpired, TenantEntry
  <2>5. entries[t].expires
          <= entries[t].read + FetchTime + (IF LookUp(t) = "negative" THEN NegativeTtl ELSE Ttl)
    BY <2>1, <2>2 DEF TenantInv, EntriesExpire, LifeOf
  <2>6. QED
    BY <2>2, <2>3, <2>4, <2>5, TenantConstants DEF TenantEntry
<1>2. QED
  BY <1>1, TenantInvariant, PTL

(* After a change and an invalidation, an old context is in the cache only *)
(* if the task that stored it had it in hand at the invalidation.          *)
THEOREM InvalidatedStaysGone == TenantSpec => []OnlyLateTasksRestore
<1>1. TenantInv => OnlyLateTasksRestore
  BY DEF TenantInv
<1>2. QED
  BY <1>1, TenantInvariant, PTL

(* insert fills the cache beyond its room only where it was before. *)
LEMMA InsertHasRoom ==
  ASSUME TenantTypeOK, NEW t \in Tenant, NEW e \in TenantEntry, InsertEntry(t, e)
  PROVE  \/ Cardinality(Stored') <= Cardinality(Stored)
         \/ Cardinality(Stored') <= Room
<1>1. Stored \in SUBSET Tenant /\ IsFiniteSet(Stored) /\ Cardinality(Stored) \in Nat
  <2>1. Stored \in SUBSET Tenant
    BY DEF Stored
  <2>2. QED
    BY <2>1, TenantConstants, FS_Subset, FS_CardinalityType
<1>2. MaxEntries \in Nat /\ e # NoEntry
  BY TenantConstants
<1>3. ASSUME Put(t, e)
      PROVE  Stored' = Stored \cup {t}
  BY <1>2, <1>3 DEF Put, Stored, TenantTypeOK
<1>4. Cardinality(Stored \cup {t}) = IF t \in Stored THEN Cardinality(Stored) ELSE Cardinality(Stored) + 1
  BY <1>1, FS_AddElement
<1>5. CASE ~MakesRoom(t) /\ Put(t, e)
  <2>1. t \in Stored \/ Cardinality(Stored) < MaxEntries
    BY <1>1, <1>2, <1>5 DEF MakesRoom
  <2>2. QED
    BY <1>1, <1>2, <1>3, <1>4, <1>5, <2>1 DEF Room
<1>6. CASE Victims = {} /\ Put(t, e)
  <2>1. Stored = {}
    BY <1>6 DEF Victims
  <2>2. Cardinality(Stored) = 0
    BY <2>1, FS_EmptySet
  <2>3. QED
    BY <1>2, <1>3, <1>4, <1>6, <2>1, <2>2 DEF Room
<1>7. CASE /\ MakesRoom(t)
           /\ \E v \in Victims : entries' = [entries EXCEPT ![v] = NoEntry, ![t] = e]
  <2>1. PICK v \in Stored : entries' = [entries EXCEPT ![v] = NoEntry, ![t] = e]
    BY <1>7 DEF Victims
  <2>2. t \notin Stored
    BY <1>7 DEF MakesRoom
  <2>3. Stored' = (Stored \ {v}) \cup {t}
    BY <1>2, <2>1, <2>2 DEF Stored, TenantTypeOK
  <2>4. IsFiniteSet(Stored \ {v}) /\ Cardinality(Stored \ {v}) = Cardinality(Stored) - 1
    BY <1>1, FS_RemoveElement
  <2>5. Cardinality((Stored \ {v}) \cup {t}) = Cardinality(Stored \ {v}) + 1
    BY <2>2, <2>4, FS_AddElement
  <2>6. QED
    BY <1>1, <2>3, <2>4, <2>5
<1>8. QED
  BY <1>5, <1>6, <1>7 DEF InsertEntry

(* What is stored after the step was stored before. *)
LEMMA SubsetIsSmaller ==
  ASSUME Stored' \in SUBSET Stored
  PROVE  Cardinality(Stored') <= Cardinality(Stored)
<1>1. Stored \in SUBSET Tenant
  BY DEF Stored
<1>2. IsFiniteSet(Stored)
  BY <1>1, TenantConstants, FS_Subset
<1>3. QED
  BY <1>2, FS_Subset

(* The cache grows beyond its capacity only by the completion of a refresh *)
(* whose entry is gone (complete_refresh, tenant/cache.rs:464).            *)
THEOREM OnlyRefreshesOverfill == TenantSpec => OnlyRevivalsOverfill
<1> DEFINE Grows == Cardinality(Stored') > Cardinality(Stored) /\ Cardinality(Stored') > Room
<1>1. ASSUME TenantInv, TenantNext, Grows
      PROVE  Revives
  <2>1. IsFiniteSet(Stored) /\ IsFiniteSet(Stored') /\ Room \in Nat
    <3>1. Stored \in SUBSET Tenant /\ Stored' \in SUBSET Tenant
      BY DEF Stored
    <3>2. QED
      BY <3>1, TenantConstants, FS_Subset DEF Room
  <2>2. Cardinality(Stored) \in Nat /\ Cardinality(Stored') \in Nat
    BY <2>1, FS_CardinalityType
  <2>3. ~(Stored' \in SUBSET Stored)
    BY <1>1, <2>2, SubsetIsSmaller
  <2>4. ASSUME UNCHANGED entries
        PROVE  FALSE
    BY <2>3, <2>4 DEF Stored
  <2>5. ASSUME NEW gone, NEW ts, DropEntries(gone, ts)
        PROVE  FALSE
    BY <2>3, <2>5 DEF DropEntries, Stored
  <2>6. ~Invalidation
    BY <2>5 DEF Invalidation, Invalidate, InvalidateIf, ClearTenants, EvictExpiredTenants
  <2>7. PICK w \in Task : UseCache(w)
    BY <1>1, <2>4, <2>6 DEF TenantNext, ChangeSource, TenantTick
  <2>8. ~GiveUp(w) /\ ~ReadSource(w) /\ \A t \in Tenant : ~Miss(w, t)
    BY <2>4 DEF GiveUp, ReadSource, Miss
  <2>9. ASSUME NEW t \in Tenant, MarkRefreshing(w, t)
        PROVE  FALSE
    <3>1. t \in Stored /\ entries' = [entries EXCEPT ![t] = [entries[t] EXCEPT !.refreshing = TRUE]]
      BY <2>9 DEF MarkRefreshing, Put
    <3>2. QED
      BY <1>1, <2>3, <3>1 DEF Stored, TenantInv, TenantTypeOK
  <2>10. ~StoreFetched(w)
    <3>1. SUFFICES ASSUME StoreFetched(w) PROVE FALSE
      OBVIOUS
    <3>2. Answered(w)
      BY <3>1 DEF StoreFetched, Done, TaskGoes, Answered
    <3>3. reading[w].tenant \in Tenant /\ EntryFor(reading[w]) \in TenantEntry
      BY <1>1, <3>2, EntryForHand
    <3>4. \/ Cardinality(Stored') <= Cardinality(Stored)
          \/ Cardinality(Stored') <= Room
      BY <1>1, <3>1, <3>3, InsertHasRoom DEF StoreFetched, TenantInv
    <3>5. QED
      BY <1>1, <2>1, <2>2, <3>4
  <2>11. CompleteRefresh(w)
    BY <2>7, <2>8, <2>9, <2>10 DEF UseCache
  <2>12. step[w] = "refreshed" /\ step'[w] = "idle"
    BY <1>1, <2>11 DEF CompleteRefresh, Done, TaskGoes, TenantInv, TenantTypeOK
  <2>13. reading[w].tenant \notin Stored
    BY <2>3, <2>11 DEF CompleteRefresh, Put, Stored
  <2>14. QED
    BY <2>12, <2>13 DEF Revives
<1>2. TenantInv /\ [TenantNext]_tenantVars => [Grows => Revives]_tenantVars
  BY <1>1
<1>3. QED
  BY <1>2, TenantInvariant, PTL DEF TenantSpec, OnlyRevivalsOverfill
===========================================================================
