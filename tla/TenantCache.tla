---------------------------- MODULE TenantCache ----------------------------
(***************************************************************************)
(* The tenant cache of prax-query (tenant/cache.rs): tenant contexts, and  *)
(* the knowledge that a tenant does not exist, kept for a time behind a    *)
(* readers-writer lock.                                                    *)
(*                                                                         *)
(* An operation of the cache takes the lock once, so it is one step.       *)
(* What is not atomic is what surrounds it: get_or_fetch looks up, awaits  *)
(* the source without the lock and then inserts; a refresh is marked, read *)
(* and completed by three calls.  A task is the caller of one of these.    *)
(* The source and whoever changes it and tells the cache are environment.  *)
(*                                                                         *)
(* A context is the version of the tenant in the source; version 0 stands  *)
(* for a tenant that does not exist (None).  access_count is 1 in every    *)
(* entry and is never changed, so the eviction by lowest count picks any   *)
(* entry.  Metrics are left out.  ShardedTenantCache is one of these for   *)
(* each shard, and shards share nothing.                                   *)
(***************************************************************************)
EXTENDS Integers, FiniteSets

CONSTANTS
  Task,           (* callers                                               *)
  Tenant,         (* tenant ids                                            *)
  Known,          (* the tenants that exist at the start                   *)
  Changing,       (* the tenants that change                               *)
  NoEntry,        (* "no entry" under a tenant, nothing in a task's hands  *)
  MaxEntries,     (* CacheConfig::max_entries                              *)
  Ttl,            (* CacheConfig::ttl                                      *)
  NegativeTtl,    (* CacheConfig::negative_ttl                             *)
  RefreshAge,     (* refresh_threshold of the ttl                          *)
  FetchTime,      (* the longest a read of the source takes                *)
  MaxVersion,     (* bound on the versions of a tenant                     *)
  MaxClock        (* bound on the clock                                    *)

Version == 0..MaxVersion

(* CacheEntry; created_at is the time to live before expires_at.  Ghosts:  *)
(* the time at which the version was read from the source, and whether the *)
(* tenant was invalidated after that because it had changed.               *)
TenantEntry ==
  [version : Version, expires : Nat, refreshing : BOOLEAN,
   read : Nat, late : BOOLEAN]

(* What a task is after, and has read from the source once it has.         *)
Reading == [tenant : Tenant, version : Version, read : Nat, late : BOOLEAN]

ASSUME TenantAssumption ==
  /\ IsFiniteSet(Tenant)
  /\ Known \cup Changing \subseteq Tenant
  /\ NoEntry \notin TenantEntry \cup Reading
  /\ {MaxEntries, Ttl, NegativeTtl, RefreshAge, FetchTime, MaxClock} \subseteq Nat
  /\ MaxVersion \in Nat \ {0}

VARIABLES
  clock,     (* Instant::now()                                             *)
  entries,   (* TenantCache.entries                                        *)
  source,    (* the version of each tenant in the source                   *)
  told,      (* tenants invalidated since their last change                *)
  step,      (* what each task does                                        *)
  reading    (* what each task has in hand                                 *)

tenantVars == <<clock, entries, source, told, step, reading>>

TaskStep == {"idle", "fetch", "fetched", "refresh", "refreshed"}

Stored == {t \in Tenant : entries[t] # NoEntry}

TenantTypeOK ==
  /\ clock \in Nat
  /\ entries \in [Tenant -> TenantEntry \cup {NoEntry}]
  /\ source \in [Tenant -> Version]
  /\ told \in SUBSET Tenant
  /\ step \in [Task -> TaskStep]
  /\ reading \in [Task -> Reading \cup {NoEntry}]

TenantInit ==
  /\ clock = 0
  /\ entries = [t \in Tenant |-> NoEntry]
  /\ source = [t \in Tenant |-> IF t \in Known THEN 1 ELSE 0]
  /\ told = Tenant
  /\ step = [w \in Task |-> "idle"]
  /\ reading = [w \in Task |-> NoEntry]

---------------------------------------------------------------------------
(* The entries *)

IsExpired(t) == clock >= entries[t].expires

ShouldRefresh(t) ==
  ~entries[t].refreshing /\ clock - (entries[t].expires - Ttl) >= RefreshAge

(* Mutant of LookUp: an expired entry is served while it is refreshed. *)
LookUpServesRefreshing(t) ==
  CASE t \notin Stored \/ (IsExpired(t) /\ ~entries[t].refreshing) -> "miss"
    [] OTHER -> IF entries[t].version = 0 THEN "negative"
                ELSE IF ShouldRefresh(t) THEN "stale" ELSE "hit"

(* lookup; background_refresh is on. *)
LookUp(t) ==
  CASE t \notin Stored \/ IsExpired(t) -> "miss"
    [] OTHER -> IF entries[t].version = 0 THEN "negative"
                ELSE IF ShouldRefresh(t) THEN "stale" ELSE "hit"

(* CacheEntry::positive and CacheEntry::negative. *)
EntryFor(r) ==
  [version |-> r.version,
   expires |-> clock + (IF r.version = 0 THEN NegativeTtl ELSE Ttl),
   refreshing |-> FALSE, read |-> r.read, late |-> r.late]

(* evict_one: an expired entry or, when there is none, any entry. *)
Victims ==
  IF \E t \in Stored : IsExpired(t) THEN {t \in Stored : IsExpired(t)} ELSE Stored

(* Mutant of MakesRoom: one entry too late. *)
MakesRoomLate(t) == Cardinality(Stored) > MaxEntries /\ t \notin Stored

(* insert and insert_negative evict for an entry that is not there yet. *)
MakesRoom(t) == Cardinality(Stored) >= MaxEntries /\ t \notin Stored

Put(t, e) == entries' = [entries EXCEPT ![t] = e]

(* insert and insert_negative. *)
InsertEntry(t, e) ==
  \/ ~MakesRoom(t) /\ Put(t, e)
  \/ MakesRoom(t) /\ Victims = {} /\ Put(t, e)
  \/ /\ MakesRoom(t)
     /\ \E v \in Victims : entries' = [entries EXCEPT ![v] = NoEntry, ![t] = e]

---------------------------------------------------------------------------
(* Callers *)

TaskGoes(w, from, to) ==
  /\ step[w] = from
  /\ step' = [step EXCEPT ![w] = to]
  /\ UNCHANGED <<clock, source, told>>

(* w begins to work on t. *)
TakesUp(w, t) ==
  reading' = [reading EXCEPT ![w] =
    [tenant |-> t, version |-> 0, read |-> 0, late |-> FALSE]]

(* w is done. *)
Done(w, from) ==
  /\ TaskGoes(w, from, "idle")
  /\ reading' = [reading EXCEPT ![w] = NoEntry]

(* get_or_fetch finds nothing usable and calls fetch.  (A hit, a stale and *)
(* a negative entry are returned, and change nothing.)                     *)
Miss(w, t) ==
  /\ LookUp(t) = "miss"
  /\ TaskGoes(w, "idle", "fetch")
  /\ TakesUp(w, t)
  /\ UNCHANGED entries

(* A caller of lookup got a stale context, and one of them wins            *)
(* mark_refreshing, which looks at the flag only: the entry may have been  *)
(* replaced or may have expired since.                                     *)
MarkRefreshing(w, t) ==
  /\ t \in Stored /\ ~entries[t].refreshing
  /\ TaskGoes(w, "idle", "refresh")
  /\ TakesUp(w, t)
  /\ Put(t, [entries[t] EXCEPT !.refreshing = TRUE])

(* The source answers. *)
ReadSource(w) ==
  /\ \/ TaskGoes(w, "fetch", "fetched")
     \/ TaskGoes(w, "refresh", "refreshed")
  /\ reading' = [reading EXCEPT ![w].version = source[reading[w].tenant],
                                ![w].read = clock, ![w].late = FALSE]
  /\ UNCHANGED entries

(* get_or_fetch stores the answer, a None as a negative entry. *)
StoreFetched(w) ==
  /\ Done(w, "fetched")
  /\ InsertEntry(reading[w].tenant, EntryFor(reading[w]))

(* complete_refresh inserts, whether or not the entry is still there and   *)
(* whether or not there is room.                                           *)
CompleteRefresh(w) ==
  /\ Done(w, "refreshed")
  /\ reading[w].version # 0
  /\ Put(reading[w].tenant, EntryFor(reading[w]))

(* The fetch is dropped or the refresh fails (or finds no tenant, which    *)
(* complete_refresh cannot say): the mark on the entry stays.              *)
GiveUp(w) ==
  /\ \E from \in TaskStep \ {"idle"} : Done(w, from)
  /\ UNCHANGED entries

---------------------------------------------------------------------------
(* Invalidation *)

(* The entries of gone go, because the tenants of ts are invalidated; a    *)
(* task that has an old version of one of these in hand is late.           *)
DropEntries(gone, ts) ==
  /\ entries' = [t \in Tenant |-> IF t \in gone THEN NoEntry ELSE entries[t]]
  /\ told' = told \cup ts
  /\ reading' = [w \in Task |->
       IF /\ step[w] \in {"fetched", "refreshed"}
          /\ reading[w].tenant \in ts
          /\ reading[w].version # source[reading[w].tenant]
       THEN [reading[w] EXCEPT !.late = TRUE] ELSE reading[w]]
  /\ UNCHANGED <<clock, source, step>>

Invalidate(t) == DropEntries({t}, {t})

(* Mutant of InvalidateIf: an entry that is being refreshed is left to its *)
(* refresher.                                                              *)
InvalidateIfNotRefreshing(matching) ==
  DropEntries({t \in Stored \cap matching : entries[t].version # 0 /\ ~entries[t].refreshing},
              matching)

(* The predicate is asked about contexts only: negative entries stay. *)
InvalidateIf(matching) ==
  DropEntries({t \in Stored \cap matching : entries[t].version # 0}, matching)

ClearTenants == DropEntries(Tenant, Tenant)

EvictExpiredTenants == DropEntries({t \in Stored : IsExpired(t)}, {})

---------------------------------------------------------------------------
(* The environment *)

(* A tenant is created or changed in the source. *)
ChangeSource(t) ==
  /\ source[t] < MaxVersion
  /\ source' = [source EXCEPT ![t] = @ + 1]
  /\ told' = told \ {t}
  /\ UNCHANGED <<clock, entries, step, reading>>

(* What was read is handed to the cache within FetchTime. *)
TenantTick ==
  /\ clock < MaxClock
  /\ \A w \in Task :
       step[w] \in {"fetched", "refreshed"} => clock < reading[w].read + FetchTime
  /\ clock' = clock + 1
  /\ UNCHANGED <<entries, source, told, step, reading>>

---------------------------------------------------------------------------
UseCache(w) ==
  \/ \E t \in Tenant : Miss(w, t) \/ MarkRefreshing(w, t)
  \/ ReadSource(w)
  \/ StoreFetched(w)
  \/ CompleteRefresh(w)
  \/ GiveUp(w)

Invalidation ==
  \/ \E t \in Tenant : Invalidate(t)
  \/ \E matching \in SUBSET Tenant : InvalidateIf(matching)
  \/ ClearTenants
  \/ EvictExpiredTenants

TenantNext ==
  \/ \E w \in Task : UseCache(w)
  \/ Invalidation
  \/ \E t \in Changing : ChangeSource(t)
  \/ TenantTick

TenantSpec == TenantInit /\ [][TenantNext]_tenantVars

---------------------------------------------------------------------------
(* Properties *)

(* The size the cache is to keep: the newest entry is always stored. *)
Room == IF MaxEntries = 0 THEN 1 ELSE MaxEntries

(* A refresh of a tenant that was evicted meanwhile is completed. *)
Revives ==
  \E w \in Task :
    /\ step[w] = "refreshed" /\ step'[w] = "idle"
    /\ reading[w].tenant \notin Stored

(* max_entries holds against concurrent fetches, which look up long before *)
(* they insert, and expiry: the cache only ever grows beyond it by the     *)
(* completion of a refresh whose entry is gone.                            *)
OnlyRevivalsOverfill ==
  [][Cardinality(Stored') > Cardinality(Stored) /\ Cardinality(Stored') > Room => Revives]_tenantVars

(* What lookup answers was true at most one time to live and one fetch     *)
(* ago: neither a refresh that failed and left its mark on the entry, nor  *)
(* an entry revived, nor a race of fetches keeps an old answer alive.      *)
StalenessBounded ==
  \A t \in Tenant : LookUp(t) # "miss" =>
    clock < entries[t].read + FetchTime + (IF LookUp(t) = "negative" THEN NegativeTtl ELSE Ttl)

(* Once a change has been followed by an invalidation, an old context is   *)
(* in the cache only if the task that put it there was under way with it   *)
(* at that moment: fetches and refreshes that start later never bring back *)
(* what invalidate, invalidate_if or clear removed.                        *)
OnlyLateTasksRestore ==
  \A t \in Stored \cap told :
    entries[t].version \notin {0, source[t]} => entries[t].late
===========================================================================
