-------------------------- MODULE MigrationEngine --------------------------
(***************************************************************************)
(* The migration engine of prax-migrate (engine.rs) with its resolutions   *)
(* (resolution.rs): several engines, in several processes, that share the  *)
(* migration files, the resolutions file, the V1 history and the event     *)
(* log.  The history and its lock are behind a trait (history.rs): the     *)
(* model takes an append-only table, and a lock that a process that dies   *)
(* gives up, as PostgreSQL's advisory locks.                               *)
(*                                                                         *)
(* A step is what happens between two awaits that others can notice.  The  *)
(* files do not change here; the checksum of an applied migration may be   *)
(* an old one.  No SQL executor is wired in, so applying a migration and   *)
(* rolling one back fail before anything is recorded; rollback therefore   *)
(* changes nothing and is left out, as are dev and rollback_with_event,    *)
(* which return NotImplemented.  The schema diff that plan adds is in      *)
(* SchemaMigration.                                                        *)
(***************************************************************************)
EXTENDS MigrationEvents

CONSTANTS
  Engine,        (* processes with a MigrationEngine                       *)
  Files,         (* list_migrations: [id, sum] of each file, sorted        *)
  Histories,     (* the V1 histories to begin with                         *)
  Logs,          (* the event logs to begin with                           *)
  Resolution,    (* the resolutions in the file to begin with              *)
  Addition,      (* the resolutions added later: [id, resolution]          *)
  NoResolution,  (* no resolution for a migration                          *)
  Nobody,        (* the lock is free; no forecast                          *)
  MaxRows        (* bound on the rows a migrate may leave in the history   *)

File == {Files[i] : i \in 1..Len(Files)}
FileIds == {f.id : f \in File}
Row == [id : Migration, sum : Checksum]

(* A resolution is an action with its checksums or its old id, and         *)
(* whether it has an expiration date, which may pass.  Ids are keys.       *)
ASSUME EngineAssumption ==
  /\ Files \in Seq(Row)
  /\ \A i, j \in 1..Len(Files) : Files[i].id = Files[j].id => i = j
  /\ \A rows \in Histories :
       /\ rows \in Seq(Row)
       /\ \A i, j \in 1..Len(rows) : rows[i].id = rows[j].id => i = j
  /\ Logs \subseteq Seq(Event)
  /\ Nobody \notin Engine
  /\ MaxRows \in Nat

VARIABLES
  dryRun,     (* MigrationConfig::dry_run                                  *)
  strict,     (* MigrationConfig::fail_on_checksum_mismatch                *)
  lapsed,     (* whether the expiration dates have passed                  *)
  saved,      (* the resolutions file                                      *)
  history,    (* the V1 history: get_applied                               *)
  holder,     (* who has the migration lock                                *)
  pc,         (* what each engine does                                     *)
  mem,        (* MigrationEngine.resolutions                               *)
  applied,    (* migrate: the checksums it has read from the history       *)
  next,       (* migrate: the file it looks at next                        *)
  result,     (* migrate: its MigrationResult, or the error                *)
  forecast    (* ghost: what plan would have said when migrate began       *)

config == <<dryRun, strict>>
runVars == <<applied, next, result, forecast>>
migrateVars ==
  <<config, lapsed, saved, history, holder, pc, mem, runVars, eventVars>>

NoResolutions == [m \in FileIds |-> NoResolution]

NoResult == [skipped |-> {}, baselined |-> {}, pending |-> {}, error |-> "none"]

MigrateInit ==
  /\ log \in Logs
  /\ nextId = Len(log) + 1
  /\ taken = [w \in Writer |-> Idle]
  /\ dryRun \in BOOLEAN
  /\ strict \in BOOLEAN
  /\ lapsed = FALSE
  /\ saved \in [FileIds -> Resolution \cup {NoResolution}]
  /\ history \in Histories
  /\ holder = Nobody
  /\ pc = [e \in Engine |-> "down"]
  /\ mem = [e \in Engine |-> NoResolutions]
  /\ applied = [e \in Engine |-> <<>>]
  /\ next = [e \in Engine |-> 1]
  /\ result = [e \in Engine |-> NoResult]
  /\ forecast = [e \in Engine |-> Nobody]

---------------------------------------------------------------------------
(* Resolutions *)

(* should_skip, is_baseline, is_force_applied: not when it has expired. *)
Resolved(res, m, action) ==
  /\ res[m] # NoResolution
  /\ res[m].action = action
  /\ ~(res[m].expires /\ lapsed)

(* accepts_checksum *)
Accepts(res, f, old) ==
  /\ Resolved(res, f.id, "accept")
  /\ res[f.id].from = old /\ res[f.id].to = f.sum

(* Resolutions that rename m, expired or not. *)
RenamesOf(res, m) ==
  {n \in FileIds : res[n] # NoResolution /\ res[n].action = "rename" /\ res[n].old = m}

(* get_renamed(m), or m itself. *)
EffectiveId(res, m) ==
  IF RenamesOf(res, m) = {} THEN m ELSE CHOOSE n \in FileIds : n \in RenamesOf(res, m)

---------------------------------------------------------------------------
(* plan *)

(* The checksums of the V1 rows; get_applied never has an id twice unless  *)
(* it was recorded twice.                                                  *)
AppliedByHistory ==
  [m \in {history[i].id : i \in 1..Len(history)} |->
     LET i == CHOOSE j \in 1..Len(history) : history[j].id = m IN history[i].sum]

(* The event log counts as soon as it has an event. *)
KnownApplied == IF log = <<>> THEN AppliedByHistory ELSE AppliedByLog

Changed(res, f, known) == known[EffectiveId(res, f.id)] # f.sum

Skipped(res) == {f \in File : Resolved(res, f.id, "skip")}

(* Mutant of NewBaselines: baselines are planned again when recorded. *)
AllBaselines(res, known) ==
  {f \in File \ Skipped(res) : Resolved(res, f.id, "baseline")}

(* The baselines that are not recorded, under their own id. *)
NewBaselines(res, known) ==
  {f \in File \ Skipped(res) : Resolved(res, f.id, "baseline") /\ f.id \notin DOMAIN known}

(* plan, the part about files. *)
Plan(res, known) ==
  LET rest == File \ (Skipped(res) \cup NewBaselines(res, known))
      missing == {f \in rest : EffectiveId(res, f.id) \notin DOMAIN known}
      changed == {f \in rest \ missing : Changed(res, f, known)}
      forced == {f \in changed : Resolved(res, f.id, "force")}
  IN  [skipped |-> Skipped(res),
       baselines |-> NewBaselines(res, known),
       pending |-> missing \cup forced,
       unresolved |-> {f \in changed \ forced :
                         ~Accepts(res, f, known[EffectiveId(res, f.id)])}]

---------------------------------------------------------------------------
(* Processes and the resolutions file *)

Goes(e, from, to) ==
  /\ pc[e] = from
  /\ pc' = [pc EXCEPT ![e] = to]
  /\ UNCHANGED <<config, eventVars>>

(* The locals of e's migrate are gone. *)
Forget(e) ==
  /\ applied' = [applied EXCEPT ![e] = <<>>]
  /\ next' = [next EXCEPT ![e] = 1]
  /\ result' = [result EXCEPT ![e] = NoResult]
  /\ forecast' = [forecast EXCEPT ![e] = Nobody]

(* MigrationEngine::new, which knows no resolutions. *)
StartEngine(e) ==
  /\ Goes(e, "down", "idle")
  /\ UNCHANGED <<lapsed, saved, history, holder, mem, runVars>>

(* initialize loads the file; one that is empty has no resolutions. *)
Initialize(e) ==
  /\ Goes(e, "idle", "idle")
  /\ mem' = [mem EXCEPT ![e] = saved]
  /\ UNCHANGED <<lapsed, saved, history, holder, runVars>>

(* add_resolution changes the memory; fs::write empties the file, *)
AddResolution(e, a) ==
  /\ Goes(e, "idle", "saving")
  /\ mem' = [mem EXCEPT ![e][a.id] = a.resolution]
  /\ saved' = NoResolutions
  /\ UNCHANGED <<lapsed, history, holder, runVars>>

(* and fills it with what this engine has in memory. *)
FillFile(e) ==
  /\ Goes(e, "saving", "idle")
  /\ saved' = mem[e]
  /\ UNCHANGED <<lapsed, history, holder, mem, runVars>>

(* The process dies; the lock it had is free. *)
CrashEngine(e) ==
  /\ \E from \in {"idle", "saving", "locked", "loop"} : Goes(e, from, "down")
  /\ holder' = IF holder = e THEN Nobody ELSE holder
  /\ Forget(e)
  /\ mem' = [mem EXCEPT ![e] = NoResolutions]
  /\ UNCHANGED <<lapsed, saved, history>>

(* The expiration dates pass; a forecast made before is void. *)
Lapse ==
  /\ ~lapsed /\ lapsed' = TRUE
  /\ forecast' = [e \in Engine |-> Nobody]
  /\ UNCHANGED <<config, eventVars, saved, history, holder, pc, mem, applied, next, result>>

---------------------------------------------------------------------------
(* migrate *)

RoomForRows == Len(history) + Len(Files) <= MaxRows

(* Mutant of Lock: the lock excludes nobody. *)
LockShared(e) ==
  /\ RoomForRows
  /\ Goes(e, "idle", "locked")
  /\ UNCHANGED <<lapsed, saved, history, holder, mem, runVars>>

Lock(e) ==
  /\ RoomForRows
  /\ holder = Nobody
  /\ Goes(e, "idle", "locked")
  /\ holder' = e
  /\ UNCHANGED <<lapsed, saved, history, mem, runVars>>

(* get_applied and list_migrations. *)
ReadApplied(e) ==
  /\ Goes(e, "locked", "loop")
  /\ applied' = [applied EXCEPT ![e] = AppliedByHistory]
  /\ forecast' = [forecast EXCEPT ![e] = Plan(mem[e], KnownApplied)]
  /\ UNCHANGED <<lapsed, saved, history, holder, mem, next, result>>

At(e, f) == pc[e] = "loop" /\ next[e] <= Len(Files) /\ f = Files[next[e]]

(* The file's migration is applied, under its effective id. *)
IsApplied(e, f) == EffectiveId(mem[e], f.id) \in DOMAIN applied[e]

(* It is applied and goes through the checksum gate. *)
Gated(e, f) ==
  /\ ~Resolved(mem[e], f.id, "skip")
  /\ IsApplied(e, f)
  /\ ~(Changed(mem[e], f, applied[e]) /\ Resolved(mem[e], f.id, "force"))

Mismatch(e, f) ==
  /\ Changed(mem[e], f, applied[e])
  /\ ~Accepts(mem[e], f, applied[e][EffectiveId(mem[e], f.id)])
  /\ strict

Outstanding(e, f) == ~Resolved(mem[e], f.id, "skip") /\ ~Gated(e, f)

(* The loop goes on to the next file with r as its result. *)
Continue(e, r) ==
  /\ next' = [next EXCEPT ![e] = @ + 1]
  /\ result' = [result EXCEPT ![e] = r]
  /\ UNCHANGED <<config, eventVars, lapsed, saved, holder, pc, mem, applied, forecast>>

(* migrate returns, and its lock is released. *)
Return(e, error) ==
  /\ Goes(e, "loop", "over")
  /\ result' = [result EXCEPT ![e].error = error]
  /\ holder' = Nobody
  /\ UNCHANGED <<lapsed, saved, history, mem, applied, next, forecast>>

SkipFile(e, f) ==
  /\ Resolved(mem[e], f.id, "skip")
  /\ Continue(e, [result[e] EXCEPT !.skipped = @ \cup {f}])
  /\ UNCHANGED history

PassGate(e, f) ==
  /\ Gated(e, f) /\ ~Mismatch(e, f)
  /\ Continue(e, result[e])
  /\ UNCHANGED history

FailGate(e, f) ==
  /\ Gated(e, f) /\ Mismatch(e, f)
  /\ Return(e, "checksum")

Record(f) == history' = Append(history, f)

(* A baseline is recorded as applied without running. *)
Baseline(e, f) ==
  /\ Outstanding(e, f)
  /\ Resolved(mem[e], f.id, "baseline")
  /\ \/ dryRun /\ UNCHANGED history
     \/ ~dryRun /\ Record(f)
  /\ Continue(e, [result[e] EXCEPT !.baselined = @ \cup {f}])

(* A pending migration is listed by a dry run; apply_migration fails. *)
Apply(e, f) ==
  /\ Outstanding(e, f)
  /\ ~Resolved(mem[e], f.id, "baseline")
  /\ \/ /\ dryRun
        /\ Continue(e, [result[e] EXCEPT !.pending = @ \cup {f}])
        /\ UNCHANGED history
     \/ /\ ~dryRun
        /\ Return(e, "unavailable")

Visit(e) ==
  \E f \in File :
    /\ At(e, f)
    /\ \/ SkipFile(e, f)
       \/ PassGate(e, f)
       \/ FailGate(e, f)
       \/ Baseline(e, f)
       \/ Apply(e, f)

(* No file is left. *)
Finish(e) ==
  /\ next[e] > Len(Files)
  /\ Return(e, "none")

(* The caller has seen the result. *)
Acknowledge(e) ==
  /\ Goes(e, "over", "idle")
  /\ Forget(e)
  /\ UNCHANGED <<lapsed, saved, history, holder, mem>>

---------------------------------------------------------------------------
Migrate(e) == Lock(e) \/ ReadApplied(e) \/ Visit(e) \/ Finish(e) \/ Acknowledge(e)

Prepare(e) ==
  \/ StartEngine(e)
  \/ Initialize(e)
  \/ \E a \in Addition : AddResolution(e, a)
  \/ FillFile(e)

Convert ==
  /\ Bootstrap(history)
  /\ UNCHANGED <<config, lapsed, saved, history, holder, pc, mem, runVars>>

MigrateNext ==
  \/ \E e \in Engine : Prepare(e) \/ Migrate(e) \/ CrashEngine(e)
  \/ Lapse
  \/ Convert

MigrateSpec == MigrateInit /\ [][MigrateNext]_migrateVars

---------------------------------------------------------------------------
(* Properties *)

(* "the engine never records success for work that did not happen"         *)
(* (engine.rs:479): a row is added to the history only for a baseline, and *)
(* only if the migration has none, although engines of several processes   *)
(* migrate, crash and start over.  (A baseline whose id another file is    *)
(* renamed from is looked up under that file's id, and recorded again.)    *)
HistoryIsHonest ==
  [][history' # history =>
       \E e \in Engine, f \in File :
         /\ At(e, f) /\ next'[e] = next[e] + 1
         /\ history' = Append(history, f)
         /\ ~dryRun /\ Resolved(mem[e], f.id, "baseline")
         /\ f.id \in DOMAIN AppliedByHistory => RenamesOf(mem[e], f.id) # {}]_migrateVars

(* The forecast holds for migrate: the log and the history agree, and no   *)
(* baseline is renamed from.                                               *)
Comparable(e) ==
  /\ forecast[e] # Nobody
  /\ log = <<>> \/ AppliedByLog = applied[e]
  /\ \A f \in File : Resolved(mem[e], f.id, "baseline") => RenamesOf(mem[e], f.id) = {}

(* plan and migrate decide about a file in two places and in another       *)
(* order; yet a migrate, or a dry run, does exactly what a plan made when  *)
(* it began says, and if it stops, for a reason the plan gives.            *)
PlanPredictsMigrate ==
  \A e \in Engine : pc[e] = "over" /\ Comparable(e) =>
    LET plan == forecast[e]
        did == result[e]
    IN  /\ did.skipped \subseteq plan.skipped /\ did.baselined \subseteq plan.baselines
        /\ did.pending \subseteq plan.pending
        /\ did.error = "none" =>
             /\ did.skipped = plan.skipped
             /\ did.baselined = plan.baselines
             /\ did.pending = plan.pending
             /\ strict => plan.unresolved = {}
        /\ did.error = "unavailable" => plan.pending # {}
        /\ did.error = "checksum" => strict /\ plan.unresolved # {}
===========================================================================
