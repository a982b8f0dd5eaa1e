----------------------- MODULE MigrationEngineProofs -----------------------
(***************************************************************************)
(* Proofs about MigrationEngine and MigrationEvents: for any processes,    *)
(* files, histories, logs and resolutions, the history records only        *)
(* baselines, and none twice; a migrate does what a plan predicts; and the *)
(* replay of the event log has the last word right.                        *)
(*                                                                         *)
(* The first property is about one step, but rests on what a migrate read  *)
(* long before: the lock keeps others out (OnlyTheHolder), so that the     *)
(* history is still what was read, and the files visited since             *)
(* (NothingUnseen).  The second follows the files that the loop has behind *)
(* it (PlanInv).  The third is an induction over the events.               *)
(***************************************************************************)
EXTENDS MigrationEngine, SequenceTheorems, WellFoundedInduction, TLAPS

Running == {"locked", "loop"}

(* Who is inside migrate has the lock. *)
OnlyTheHolder == \A e \in Engine : pc[e] \in Running => holder = e

(* A row is known to the running migrate, or of a file it has visited. *)
Seen(e, m) ==
  \/ m \in DOMAIN applied[e]
  \/ \E k \in 1..Len(Files) : k < next[e] /\ Files[k].id = m

NothingUnseen ==
  \A e \in Engine : pc[e] = "loop" =>
    \A i \in 1..Len(history) : Seen(e, history[i].id)

Shapes ==
  /\ history \in Seq(Row)
  /\ pc = [e \in Engine |-> pc[e]]
  /\ next \in [Engine -> Nat \ {0}]
  /\ applied = [e \in Engine |-> applied[e]]

MigrateInv == Shapes /\ OnlyTheHolder /\ NothingUnseen

---------------------------------------------------------------------------
(* Every file of the directory can have a row. *)
LEMMA FilesAreRows ==
  /\ Files \in Seq(Row) /\ Len(Files) \in Nat
  /\ File \in SUBSET Row
  /\ \A i, j \in 1..Len(Files) : Files[i].id = Files[j].id => i = j
BY EngineAssumption DEF File

(* No engine has started. *)
LEMMA MigrateInitInv == MigrateInit => MigrateInv
<1> SUFFICES ASSUME MigrateInit PROVE MigrateInv
  OBVIOUS
<1>1. history \in Seq(Row)
  BY EngineAssumption DEF MigrateInit
<1>2. QED
  BY <1>1 DEF MigrateInit, MigrateInv, Shapes, OnlyTheHolder, NothingUnseen, Running

(* A step of e that leaves the history alone and does not move e into a    *)
(* migrate or on in its loop.                                              *)
LEMMA Aside ==
  ASSUME MigrateInv, NEW e \in Engine, UNCHANGED history,
         NEW to, to \notin Running, pc' = [pc EXCEPT ![e] = to],
         \/ UNCHANGED holder
         \/ holder = e
         \/ pc[e] \in Running,
         \/ UNCHANGED <<applied, next>>
         \/ Forget(e)
  PROVE  MigrateInv'
<1>1. \A d \in Engine : pc'[d] = IF d = e THEN to ELSE pc[d]
  BY DEF MigrateInv, Shapes
<1>2. \A d \in Engine \ {e} : applied'[d] = applied[d] /\ next'[d] = next[d]
  BY DEF MigrateInv, Shapes, Forget
<1>3. Shapes'
  <2>1. pc' = [d \in Engine |-> pc'[d]]
    BY <1>1 DEF MigrateInv, Shapes
  <2>2. next' \in [Engine -> Nat \ {0}]
    BY DEF MigrateInv, Shapes, Forget
  <2>3. applied' = [d \in Engine |-> applied'[d]]
    BY DEF MigrateInv, Shapes, Forget
  <2>4. QED
    BY <2>1, <2>2, <2>3 DEF MigrateInv, Shapes
<1>4. OnlyTheHolder'
  BY <1>1 DEF MigrateInv, OnlyTheHolder, Running
<1>5. NothingUnseen'
  BY <1>1, <1>2 DEF MigrateInv, NothingUnseen, Seen, Running
<1>6. QED
  BY <1>3, <1>4, <1>5 DEF MigrateInv

(* What an engine does outside migrate, and its crash. *)
LEMMA PrepareKeeps ==
  ASSUME MigrateInv, NEW e \in Engine, Prepare(e) \/ CrashEngine(e) \/ Acknowledge(e)
  PROVE  MigrateInv'
<1>1. CASE Prepare(e)
  <2>1. \E to \in {"idle", "saving"} : pc' = [pc EXCEPT ![e] = to]
    BY <1>1 DEF Prepare, StartEngine, Initialize, AddResolution, FillFile, Goes
  <2>2. UNCHANGED <<history, holder, applied, next>>
    BY <1>1 DEF Prepare, StartEngine, Initialize, AddResolution, FillFile, runVars
  <2>3. QED
    BY <2>1, <2>2, Aside DEF Running
<1>2. CASE CrashEngine(e)
  <2>1. pc' = [pc EXCEPT ![e] = "down"]
    BY <1>2 DEF CrashEngine, Goes
  <2>2. UNCHANGED history /\ (UNCHANGED holder \/ holder = e) /\ Forget(e)
    BY <1>2 DEF CrashEngine
  <2>3. QED
    BY <2>1, <2>2, Aside DEF Running
<1>3. CASE Acknowledge(e)
  <2>1. pc' = [pc EXCEPT ![e] = "idle"] /\ UNCHANGED <<history, holder>> /\ Forget(e)
    BY <1>3 DEF Acknowledge, Goes
  <2>2. QED
    BY <2>1, Aside DEF Running
<1>4. QED
  BY <1>1, <1>2, <1>3

(* An engine takes the lock. *)
LEMMA LockKeeps ==
  ASSUME MigrateInv, NEW e \in Engine, Lock(e)
  PROVE  MigrateInv'
<1>1. \A d \in Engine : pc'[d] = IF d = e THEN "locked" ELSE pc[d]
  BY DEF Lock, Goes, MigrateInv, Shapes
<1>2. UNCHANGED <<history, applied, next>> /\ holder = Nobody /\ holder' = e
  BY DEF Lock, runVars
<1>3. Shapes'
  BY <1>2 DEF Lock, Goes, MigrateInv, Shapes
<1>4. OnlyTheHolder'
  BY <1>1, <1>2, EngineAssumption DEF MigrateInv, OnlyTheHolder, Running
<1>5. NothingUnseen'
  BY <1>1, <1>2 DEF MigrateInv, NothingUnseen, Seen
<1>6. QED
  BY <1>3, <1>4, <1>5 DEF MigrateInv

(* What is read is everything there is. *)
LEMMA ReadKeepsHistory ==
  ASSUME MigrateInv, NEW e \in Engine, ReadApplied(e)
  PROVE  MigrateInv'
<1>1. \A d \in Engine : pc'[d] = IF d = e THEN "loop" ELSE pc[d]
  BY DEF ReadApplied, Goes, MigrateInv, Shapes
<1>2. UNCHANGED <<history, next, holder>> /\ pc[e] = "locked"
  BY DEF ReadApplied, Goes
<1>3. \A d \in Engine : applied'[d] = IF d = e THEN AppliedByHistory ELSE applied[d]
  BY DEF ReadApplied, MigrateInv, Shapes
<1>4. Shapes'
  BY <1>2 DEF ReadApplied, Goes, MigrateInv, Shapes
<1>5. OnlyTheHolder'
  BY <1>1, <1>2 DEF MigrateInv, OnlyTheHolder, Running
<1>6. \A i \in 1..Len(history) : history[i].id \in DOMAIN AppliedByHistory
  BY DEF AppliedByHistory
<1>7. NothingUnseen'
  BY <1>1, <1>2, <1>3, <1>6 DEF MigrateInv, NothingUnseen, Seen
<1>8. QED
  BY <1>4, <1>5, <1>7 DEF MigrateInv

(* The loop goes on; the history may have got the row of the file.         *)
LEMMA ContinueKeeps ==
  ASSUME MigrateInv, NEW e \in Engine, NEW f \in File, NEW r,
         At(e, f), Continue(e, r), UNCHANGED history \/ Record(f)
  PROVE  MigrateInv'
<1>1. /\ UNCHANGED <<pc, holder, applied>>
      /\ \A d \in Engine : next'[d] = IF d = e THEN next[d] + 1 ELSE next[d]
      /\ next[e] \in Nat \ {0}
  BY DEF Continue, MigrateInv, Shapes
<1>2. /\ next[e] \in 1..Len(Files) /\ f = Files[next[e]] /\ pc[e] = "loop"
      /\ Len(history) \in Nat /\ f \in Row
  BY <1>1, FilesAreRows DEF At, MigrateInv, Shapes
<1>3. /\ history' \in Seq(Row)
      /\ \A i \in 1..Len(history') :
           \/ i \in 1..Len(history) /\ history'[i] = history[i]
           \/ history'[i] = f
  <2>1. history \in Seq(Row)
    BY DEF MigrateInv, Shapes
  <2>2. CASE UNCHANGED history
    BY <2>1, <2>2
  <2>3. CASE Record(f)
    <3>1. history' = Append(history, f)
      BY <2>3 DEF Record
    <3>2. /\ history' \in Seq(Row) /\ Len(history') = Len(history) + 1
          /\ \A i \in 1..Len(history) : history'[i] = history[i]
          /\ history'[Len(history) + 1] = f
      BY <1>2, <2>1, <3>1, AppendProperties
    <3>3. ASSUME NEW i \in 1..Len(history')
          PROVE  i \in 1..Len(history) \/ i = Len(history) + 1
      BY <1>2, <3>2
    <3>4. QED
      BY <3>2, <3>3
  <2>4. QED
    BY <2>2, <2>3
<1>4. Shapes'
  BY <1>1, <1>3 DEF Continue, MigrateInv, Shapes
<1>5. OnlyTheHolder'
  BY <1>1 DEF MigrateInv, OnlyTheHolder
<1>6. \A d \in Engine : pc[d] = "loop" => d = e
  BY <1>2 DEF MigrateInv, OnlyTheHolder, Running
<1>7. ASSUME NEW i \in 1..Len(history'), NEW m, m = history'[i].id
      PROVE  Seen(e, m)'
  <2>1. CASE i \in 1..Len(history) /\ history'[i] = history[i]
    <3>1. Seen(e, m)
      BY <1>2, <1>7, <2>1 DEF MigrateInv, NothingUnseen
    <3>2. QED
      BY <1>1, <3>1 DEF Seen
  <2>2. CASE history'[i] = f
    BY SMTT(60), <1>1, <1>2, <1>7, <2>2 DEF Seen
  <2>3. QED
    BY <1>3, <2>1, <2>2
<1>8. NothingUnseen'
  <2>1. \A d \in Engine : pc'[d] = "loop" => d = e
    BY <1>1, <1>6
  <2>2. QED
    BY <1>7, <2>1 DEF NothingUnseen, Seen
<1>9. QED
  BY <1>4, <1>5, <1>8 DEF MigrateInv

(* An engine returns. *)
LEMMA ReturnKeeps ==
  ASSUME MigrateInv, NEW e \in Engine, NEW error, Return(e, error)
  PROVE  MigrateInv'
<1>1. /\ pc[e] \in Running /\ pc' = [pc EXCEPT ![e] = "over"]
      /\ UNCHANGED <<history, applied, next>>
  BY DEF Return, Goes, Running
<1>2. QED
  BY <1>1, Aside DEF Running

(* An engine at the next file. *)
LEMMA VisitKeeps ==
  ASSUME MigrateInv, NEW e \in Engine, Visit(e)
  PROVE  MigrateInv'
<1>1. PICK f \in File :
        /\ At(e, f)
        /\ SkipFile(e, f) \/ PassGate(e, f) \/ FailGate(e, f) \/ Baseline(e, f) \/ Apply(e, f)
  BY DEF Visit
<1>2. \/ \E r : Continue(e, r) /\ (UNCHANGED history \/ Record(f))
      \/ \E error : Return(e, error)
  BY <1>1 DEF SkipFile, PassGate, FailGate, Baseline, Apply
<1>3. QED
  BY <1>1, <1>2, ContinueKeeps, ReturnKeeps

(* The lock and the table are kept by every step. *)
LEMMA MigrateNextInv == MigrateInv /\ [MigrateNext]_migrateVars => MigrateInv'
<1> SUFFICES ASSUME MigrateInv, [MigrateNext]_migrateVars PROVE MigrateInv'
  OBVIOUS
<1>1. ASSUME NEW e \in Engine, Migrate(e)
      PROVE  MigrateInv'
  BY <1>1, LockKeeps, ReadKeepsHistory, VisitKeeps, ReturnKeeps, PrepareKeeps DEF Migrate, Finish
<1>2. ASSUME NEW e \in Engine, Prepare(e) \/ CrashEngine(e)
      PROVE  MigrateInv'
  BY <1>2, PrepareKeeps
<1>3. ASSUME UNCHANGED <<history, holder, pc, applied, next>>
      PROVE  MigrateInv'
  BY <1>3 DEF MigrateInv, Shapes, OnlyTheHolder, NothingUnseen, Seen
<1>4. CASE Lapse \/ Convert \/ UNCHANGED migrateVars
  BY <1>3, <1>4 DEF Lapse, Convert, migrateVars, runVars
<1>5. QED
  BY <1>1, <1>2, <1>4 DEF MigrateNext

---------------------------------------------------------------------------
(* Theorems *)

(* The lock excludes, and a migrate knows every row of the history. *)
THEOREM MigrateInvariant == MigrateSpec => []MigrateInv
BY MigrateInitInv, MigrateNextInv, PTL DEF MigrateSpec

(* A baseline that e records was not in the history when nothing is        *)
(* renamed from it: it was not when e read it, and no other file of e's    *)
(* loop has its id.                                                        *)
LEMMA BaselineIsNew ==
  ASSUME MigrateInv, NEW e \in Engine, NEW f \in File, At(e, f),
         Outstanding(e, f), Resolved(mem[e], f.id, "baseline"),
         f.id \in DOMAIN AppliedByHistory
  PROVE  RenamesOf(mem[e], f.id) # {}
<1> SUFFICES ASSUME RenamesOf(mem[e], f.id) = {} PROVE FALSE
  OBVIOUS
<1>1. EffectiveId(mem[e], f.id) = f.id
  BY DEF EffectiveId
<1>2. ~Resolved(mem[e], f.id, "force") /\ ~Gated(e, f) /\ ~Resolved(mem[e], f.id, "skip")
  BY DEF Resolved, Outstanding
<1>3. f.id \notin DOMAIN applied[e]
  BY <1>1, <1>2 DEF Gated, IsApplied
<1>4. PICK i \in 1..Len(history) : history[i].id = f.id
  BY DEF AppliedByHistory
<1>5. Seen(e, f.id)
  BY <1>4 DEF MigrateInv, NothingUnseen, At
<1>6. PICK k \in 1..Len(Files) : k < next[e] /\ Files[k].id = f.id
  BY <1>3, <1>5 DEF Seen
<1>7. next[e] \in 1..Len(Files) /\ Files[next[e]] = f
  BY FilesAreRows DEF At, MigrateInv, Shapes
<1>8. k = next[e]
  BY <1>6, <1>7, FilesAreRows
<1>9. QED
  BY <1>6, <1>7, <1>8, FilesAreRows

(* "the engine never records success for work that did not happen"         *)
(* (engine.rs:479), for any number of processes that migrate and crash.    *)
THEOREM HistoryStaysHonest == MigrateSpec => HistoryIsHonest
<1> DEFINE Honest ==
      history' # history =>
        \E e \in Engine, f \in File :
          /\ At(e, f) /\ next'[e] = next[e] + 1
          /\ history' = Append(history, f)
          /\ ~dryRun /\ Resolved(mem[e], f.id, "baseline")
          /\ f.id \in DOMAIN AppliedByHistory => RenamesOf(mem[e], f.id) # {}
<1>1. ASSUME MigrateInv, MigrateNext, history' # history
      PROVE  Honest
  <2>1. PICK e \in Engine : Visit(e)
    BY <1>1 DEF MigrateNext, Prepare, StartEngine, Initialize, AddResolution, FillFile, Migrate,
       Lock, ReadApplied, Finish, Return, Acknowledge, CrashEngine, Lapse, Convert
  <2>2. PICK f \in File : At(e, f) /\ Baseline(e, f)
    BY <1>1, <2>1 DEF Visit, SkipFile, PassGate, FailGate, Apply, Return
  <2>3. /\ Outstanding(e, f) /\ Resolved(mem[e], f.id, "baseline")
        /\ ~dryRun /\ history' = Append(history, f)
    BY <1>1, <2>2 DEF Baseline, Record
  <2>4. next'[e] = next[e] + 1
    BY <1>1, <2>2 DEF Baseline, Continue, MigrateInv, Shapes
  <2>5. f.id \in DOMAIN AppliedByHistory => RenamesOf(mem[e], f.id) # {}
    BY <1>1, <2>2, <2>3, BaselineIsNew
  <2>6. QED
    BY <2>2, <2>3, <2>4, <2>5
<1>2. MigrateInv /\ [MigrateNext]_migrateVars => [Honest]_migrateVars
  BY <1>1
<1>3. QED
  BY <1>2, MigrateInvariant, PTL DEF MigrateSpec, HistoryIsHonest

---------------------------------------------------------------------------
(* plan and migrate *)

InProgress == {"loop", "over"}

(* The files that e's loop has behind it. *)
Visited(e) == {f \in File : \E k \in 1..Len(Files) : k < next[e] /\ Files[k] = f}

(* What a plan makes of the history that e has read. *)
PlanOf(e) == Plan(mem[e], applied[e])

(* No baseline of e is renamed from. *)
BaselinesAreOwn(e) ==
  \A f \in File : Resolved(mem[e], f.id, "baseline") => RenamesOf(mem[e], f.id) = {}

(* The forecast is that plan, unless the event log says something else and *)
(* said so already then: a log that has begun does not change here.        *)
ForecastKept(e) ==
  pc[e] \in InProgress /\ forecast[e] # Nobody =>
    \/ forecast[e] = PlanOf(e)
    \/ log # <<>> /\ AppliedByLog # applied[e]

(* The files visited so far were treated as the plan says. *)
AsPlanned(e) ==
  /\ result[e].skipped = Visited(e) \cap PlanOf(e).skipped
  /\ result[e].baselined = Visited(e) \cap PlanOf(e).baselines
  /\ result[e].pending = Visited(e) \cap PlanOf(e).pending
  /\ strict => Visited(e) \cap PlanOf(e).unresolved = {}

(* And e returned at the end of the files, or for a reason the plan gives. *)
ReturnedAsPlanned(e) ==
  /\ result[e].error = "none" => Visited(e) = File
  /\ result[e].error = "unavailable" => PlanOf(e).pending # {}
  /\ result[e].error = "checksum" => strict /\ PlanOf(e).unresolved # {}

PlanFollowed(e) ==
  /\ pc[e] \notin InProgress => next[e] = 1 /\ result[e] = NoResult
  /\ pc[e] \in InProgress /\ forecast[e] # Nobody /\ BaselinesAreOwn(e) =>
       /\ AsPlanned(e)
       /\ pc[e] = "loop" => result[e].error = "none"
       /\ pc[e] = "over" => ReturnedAsPlanned(e)

MigrateResult ==
  [skipped : SUBSET File, baselined : SUBSET File, pending : SUBSET File,
   error : {"none", "unavailable", "checksum"}]

ResultShapes ==
  /\ result \in [Engine -> MigrateResult]
  /\ mem = [e \in Engine |-> mem[e]]
  /\ forecast = [e \in Engine |-> forecast[e]]

PlanInv == ResultShapes /\ \A e \in Engine : ForecastKept(e) /\ PlanFollowed(e)

---------------------------------------------------------------------------
(* A plan depends on the resolutions, on what is applied and on the time.  *)
LEMMA PlanStays ==
  ASSUME NEW e \in Engine, UNCHANGED lapsed, mem'[e] = mem[e], applied'[e] = applied[e]
  PROVE  PlanOf(e)' = PlanOf(e)
BY SMT DEF PlanOf, Plan, Skipped, NewBaselines, Changed, Accepts, EffectiveId, RenamesOf, Resolved

(* An engine whose memory stays keeps its baselines. *)
LEMMA OwnStays ==
  ASSUME NEW e \in Engine, UNCHANGED lapsed, mem'[e] = mem[e]
  PROVE  BaselinesAreOwn(e)' <=> BaselinesAreOwn(e)
BY SMT DEF BaselinesAreOwn, RenamesOf, Resolved

(* What counts as applied depends on the log alone. *)
LEMMA LogStays == UNCHANGED log => UNCHANGED AppliedByLog
BY DEF AppliedByLog, Replayed

(* What the plan makes of the file that the loop looks at, in the order in *)
(* which the loop asks.                                                    *)
LEMMA PlanOfFile ==
  ASSUME NEW e \in Engine, NEW f \in File, BaselinesAreOwn(e)
  PROVE  /\ Resolved(mem[e], f.id, "skip") =>
              /\ f \in PlanOf(e).skipped
              /\ f \notin PlanOf(e).baselines
              /\ f \notin PlanOf(e).pending
              /\ f \notin PlanOf(e).unresolved
         /\ Gated(e, f) =>
              /\ f \notin PlanOf(e).skipped
              /\ f \notin PlanOf(e).baselines
              /\ f \notin PlanOf(e).pending
              /\ strict => (f \in PlanOf(e).unresolved <=> Mismatch(e, f))
         /\ Outstanding(e, f) /\ Resolved(mem[e], f.id, "baseline") =>
              /\ f \notin PlanOf(e).skipped
              /\ f \in PlanOf(e).baselines
              /\ f \notin PlanOf(e).pending
              /\ f \notin PlanOf(e).unresolved
         /\ Outstanding(e, f) /\ ~Resolved(mem[e], f.id, "baseline") =>
              /\ f \notin PlanOf(e).skipped
              /\ f \notin PlanOf(e).baselines
              /\ f \in PlanOf(e).pending
              /\ f \notin PlanOf(e).unresolved
<1> DEFINE res == mem[e]
           known == applied[e]
           old == EffectiveId(res, f.id)
<1>1. Resolved(res, f.id, "baseline") => old = f.id
  BY DEF BaselinesAreOwn, EffectiveId
<1>2. /\ Resolved(res, f.id, "baseline") => ~Resolved(res, f.id, "force")
      /\ Resolved(res, f.id, "baseline") => ~Resolved(res, f.id, "skip")
  BY DEF Resolved
<1>3. /\ f \in PlanOf(e).skipped <=> Resolved(res, f.id, "skip")
      /\ f \in PlanOf(e).baselines <=>
           /\ ~Resolved(res, f.id, "skip")
           /\ Resolved(res, f.id, "baseline") /\ f.id \notin DOMAIN known
      /\ f \in PlanOf(e).pending <=>
           /\ f \notin PlanOf(e).skipped /\ f \notin PlanOf(e).baselines
           /\ \/ old \notin DOMAIN known
              \/ Changed(res, f, known) /\ Resolved(res, f.id, "force")
      /\ f \in PlanOf(e).unresolved <=>
           /\ f \notin PlanOf(e).skipped /\ f \notin PlanOf(e).baselines
           /\ old \in DOMAIN known
           /\ Changed(res, f, known) /\ ~Resolved(res, f.id, "force")
           /\ ~Accepts(res, f, known[old])
  BY DEF PlanOf, Plan, Skipped, NewBaselines
<1>4. /\ Gated(e, f) <=>
           /\ ~Resolved(res, f.id, "skip") /\ old \in DOMAIN known
           /\ ~(Changed(res, f, known) /\ Resolved(res, f.id, "force"))
      /\ strict => (Mismatch(e, f) <=>
           Changed(res, f, known) /\ ~Accepts(res, f, known[old]))
      /\ Outstanding(e, f) <=> ~Resolved(res, f.id, "skip") /\ ~Gated(e, f)
  BY DEF Gated, IsApplied, Mismatch, Outstanding
<1> HIDE DEF res, known, old
<1>5. QED
  BY <1>1, <1>2, <1>3, <1>4 DEF res

(* An engine of which a step changes nothing. *)
LEMMA PlanOfOthers ==
  ASSUME NEW d \in Engine, ForecastKept(d), PlanFollowed(d),
         UNCHANGED <<config, lapsed>>, log = <<>> \/ UNCHANGED log,
         pc'[d] = pc[d], mem'[d] = mem[d], applied'[d] = applied[d], next'[d] = next[d],
         result'[d] = result[d], forecast'[d] = forecast[d]
  PROVE  ForecastKept(d)' /\ PlanFollowed(d)'
<1>1. PlanOf(d)' = PlanOf(d) /\ (BaselinesAreOwn(d)' <=> BaselinesAreOwn(d))
  BY PlanStays, OwnStays
<1>2. ForecastKept(d)'
  <2>1. CASE UNCHANGED log
    BY <1>1, <2>1, LogStays DEF ForecastKept
  <2>2. CASE log = <<>>
    BY <1>1, <2>2 DEF ForecastKept
  <2>3. QED
    BY <2>1, <2>2
<1>3. Visited(d)' = Visited(d)
  BY DEF Visited
<1>4. PlanFollowed(d)'
  BY <1>1, <1>3 DEF PlanFollowed, AsPlanned, ReturnedAsPlanned, config
<1>5. QED
  BY <1>2, <1>4

(* A step outside of migrate. *)
LEMMA PlanOutside ==
  ASSUME NEW d \in Engine, pc'[d] \notin InProgress, next'[d] = 1, result'[d] = NoResult
  PROVE  ForecastKept(d)' /\ PlanFollowed(d)'
BY DEF ForecastKept, PlanFollowed

(* Of the engines, a step of e changes e alone. *)
LEMMA OnlyOne ==
  ASSUME Shapes, ResultShapes, NEW e \in Engine, NEW d \in Engine \ {e},
         Prepare(e) \/ Migrate(e) \/ CrashEngine(e)
  PROVE  /\ UNCHANGED <<config, lapsed, log>>
         /\ pc'[d] = pc[d] /\ mem'[d] = mem[d] /\ applied'[d] = applied[d] /\ next'[d] = next[d]
         /\ result'[d] = result[d] /\ forecast'[d] = forecast[d]
<1>1. CASE Prepare(e)
  BY <1>1 DEF Prepare, StartEngine, Initialize, AddResolution, FillFile, Goes, runVars, eventVars,
     Shapes, ResultShapes
<1>2. CASE CrashEngine(e) \/ Acknowledge(e)
  BY <1>2 DEF CrashEngine, Acknowledge, Forget, Goes, eventVars, Shapes, ResultShapes
<1>3. CASE Lock(e) \/ ReadApplied(e)
  BY <1>3 DEF Lock, ReadApplied, Goes, runVars, eventVars, Shapes, ResultShapes
<1>4. ASSUME NEW r, Continue(e, r)
      PROVE  /\ UNCHANGED <<config, lapsed, log, pc, mem, applied, forecast>>
             /\ next'[d] = next[d] /\ result'[d] = result[d]
  BY <1>4 DEF Continue, eventVars, Shapes, ResultShapes
<1>5. ASSUME NEW error, Return(e, error)
      PROVE  /\ UNCHANGED <<config, lapsed, log, mem, applied, next, forecast>>
             /\ pc'[d] = pc[d] /\ result'[d] = result[d]
  BY <1>5 DEF Return, Goes, eventVars, Shapes, ResultShapes
<1>6. CASE Visit(e) \/ Finish(e)
  <2>1. (\E r : Continue(e, r)) \/ \E error : Return(e, error)
    BY <1>6 DEF Visit, Finish, SkipFile, PassGate, FailGate, Baseline, Apply
  <2>2. QED
    BY <2>1, <1>4, <1>5
<1>7. QED
  BY <1>1, <1>2, <1>3, <1>6 DEF Migrate

(* What was read is what the plan would be made from. *)
LEMMA ReadFollows ==
  ASSUME Shapes, ResultShapes, NEW e \in Engine, PlanFollowed(e), ReadApplied(e)
  PROVE  ForecastKept(e)' /\ PlanFollowed(e)'
<1>1. /\ pc[e] = "locked" /\ pc'[e] = "loop"
      /\ mem' = mem /\ lapsed' = lapsed /\ log' = log
      /\ applied'[e] = AppliedByHistory
      /\ forecast'[e] = Plan(mem[e], KnownApplied)
      /\ next'[e] = next[e] /\ result'[e] = result[e]
  BY DEF ReadApplied, Goes, eventVars, Shapes, ResultShapes
<1>2. PICK known : known = KnownApplied
  OBVIOUS
<1>3. ASSUME known = applied'[e]
      PROVE  Plan(mem[e], known) = PlanOf(e)'
  <2>1. lapsed' = lapsed /\ mem'[e] = mem[e]
    BY <1>1
  <2>2. QED
    BY <1>3, <2>1, SMT DEF PlanOf, Plan, Skipped, NewBaselines, Changed, Accepts, EffectiveId,
       RenamesOf, Resolved
<1>4. known = applied'[e] \/ (log # <<>> /\ AppliedByLog # applied'[e])
  BY <1>1, <1>2 DEF KnownApplied
<1>5. ForecastKept(e)'
  BY <1>1, <1>2, <1>3, <1>4, LogStays DEF ForecastKept
<1>6. next'[e] = 1 /\ result'[e] = NoResult
  BY <1>1 DEF PlanFollowed, InProgress
<1>7. Visited(e)' = {}
  BY <1>6 DEF Visited
<1>8. AsPlanned(e)'
  BY <1>6, <1>7 DEF AsPlanned, NoResult
<1>9. PlanFollowed(e)'
  BY <1>1, <1>6, <1>8 DEF PlanFollowed, NoResult, InProgress
<1>10. QED
  BY <1>5, <1>9

(* The loop has one more file behind it. *)
LEMMA OneMoreFile ==
  ASSUME Shapes, NEW e \in Engine, NEW f \in File, At(e, f), next'[e] = next[e] + 1
  PROVE  Visited(e)' = Visited(e) \cup {f}
<1>1. next[e] \in 1..Len(Files) /\ f = Files[next[e]]
  BY FilesAreRows DEF At, Shapes
<1>2. \A k \in 1..Len(Files) : k < next[e] + 1 <=> k < next[e] \/ k = next[e]
  BY <1>1, FilesAreRows
<1>3. \A g \in File :
        (\E k \in 1..Len(Files) : k < next[e] + 1 /\ Files[k] = g) <=>
          (\E k \in 1..Len(Files) : k < next[e] /\ Files[k] = g) \/ g = f
  BY <1>1, <1>2
<1>4. QED
  BY <1>3 DEF Visited

(* The loop goes on as the plan says of the file. *)
LEMMA ContinueFollows ==
  ASSUME Shapes, ResultShapes, NEW e \in Engine, ForecastKept(e), PlanFollowed(e),
         NEW f \in File, At(e, f), NEW r, Continue(e, r),
         BaselinesAreOwn(e) =>
           /\ r.skipped = IF f \in PlanOf(e).skipped
                          THEN result[e].skipped \cup {f} ELSE result[e].skipped
           /\ r.baselined = IF f \in PlanOf(e).baselines
                            THEN result[e].baselined \cup {f} ELSE result[e].baselined
           /\ r.pending = IF f \in PlanOf(e).pending
                          THEN result[e].pending \cup {f} ELSE result[e].pending
           /\ r.error = result[e].error
           /\ strict => f \notin PlanOf(e).unresolved
  PROVE  ForecastKept(e)' /\ PlanFollowed(e)'
<1>1. /\ UNCHANGED <<config, lapsed, log, pc, mem, applied, forecast>>
      /\ next'[e] = next[e] + 1 /\ result'[e] = r
      /\ pc[e] = "loop"
  BY DEF Continue, eventVars, Shapes, ResultShapes, At
<1>2. PlanOf(e)' = PlanOf(e) /\ (BaselinesAreOwn(e)' <=> BaselinesAreOwn(e))
  BY <1>1, PlanStays, OwnStays
<1>3. ForecastKept(e)'
  BY <1>1, <1>2, LogStays DEF ForecastKept
<1>4. Visited(e)' = Visited(e) \cup {f}
  BY <1>1, OneMoreFile
<1>5. ASSUME forecast[e] # Nobody, BaselinesAreOwn(e)
      PROVE  AsPlanned(e)' /\ result'[e].error = "none"
  <2>1. AsPlanned(e) /\ result[e].error = "none"
    BY <1>1, <1>5 DEF PlanFollowed, InProgress
  <2>2. AsPlanned(e)'
    BY <1>1, <1>2, <1>4, <1>5, <2>1 DEF AsPlanned, config
  <2>3. QED
    BY <1>1, <1>5, <2>1, <2>2
<1>6. PlanFollowed(e)'
  BY <1>1, <1>2, <1>5 DEF PlanFollowed, InProgress
<1>7. QED
  BY <1>3, <1>6

(* migrate returns for a reason the plan gives. *)
LEMMA ReturnFollows ==
  ASSUME Shapes, ResultShapes, NEW e \in Engine, ForecastKept(e), PlanFollowed(e),
         NEW error \in {"none", "unavailable", "checksum"}, Return(e, error),
         BaselinesAreOwn(e) =>
           /\ error = "none" => Visited(e) = File
           /\ error = "unavailable" => PlanOf(e).pending # {}
           /\ error = "checksum" => strict /\ PlanOf(e).unresolved # {}
  PROVE  ForecastKept(e)' /\ PlanFollowed(e)'
<1>1. /\ UNCHANGED <<config, lapsed, log, mem, applied, next, forecast>>
      /\ result'[e] = [result[e] EXCEPT !.error = error]
      /\ pc[e] = "loop" /\ pc'[e] = "over"
  BY DEF Return, Goes, eventVars, Shapes, ResultShapes
<1>2. PlanOf(e)' = PlanOf(e) /\ (BaselinesAreOwn(e)' <=> BaselinesAreOwn(e))
  BY <1>1, PlanStays, OwnStays
<1>3. ForecastKept(e)'
  BY <1>1, <1>2, LogStays DEF ForecastKept, InProgress
<1>4. Visited(e)' = Visited(e)
  BY <1>1 DEF Visited
<1>5. /\ result'[e].skipped = result[e].skipped
      /\ result'[e].baselined = result[e].baselined
      /\ result'[e].pending = result[e].pending
      /\ result'[e].error = error
  BY <1>1 DEF ResultShapes, MigrateResult
<1>6. ASSUME forecast[e] # Nobody, BaselinesAreOwn(e)
      PROVE  AsPlanned(e)' /\ ReturnedAsPlanned(e)'
  <2>1. AsPlanned(e)
    BY <1>1, <1>6 DEF PlanFollowed, InProgress
  <2>2. AsPlanned(e)'
    BY <1>1, <1>2, <1>4, <1>5, <2>1 DEF AsPlanned, config
  <2>3. ReturnedAsPlanned(e)'
    BY <1>1, <1>2, <1>4, <1>5, <1>6 DEF ReturnedAsPlanned, config
  <2>4. QED
    BY <2>2, <2>3
<1>7. PlanFollowed(e)'
  BY <1>1, <1>2, <1>6 DEF PlanFollowed, InProgress
<1>8. QED
  BY <1>3, <1>7

(* A visited file goes the way the plan said. *)
LEMMA VisitFollows ==
  ASSUME Shapes, ResultShapes, NEW e \in Engine, ForecastKept(e), PlanFollowed(e), Visit(e)
  PROVE  ForecastKept(e)' /\ PlanFollowed(e)'
<1>1. PICK f \in File :
        /\ At(e, f)
        /\ SkipFile(e, f) \/ PassGate(e, f) \/ FailGate(e, f) \/ Baseline(e, f) \/ Apply(e, f)
  BY DEF Visit
<1>2. result[e] \in MigrateResult
  BY DEF ResultShapes
<1>3. CASE SkipFile(e, f)
  <2> DEFINE r == [result[e] EXCEPT !.skipped = @ \cup {f}]
  <2>1. Resolved(mem[e], f.id, "skip") /\ Continue(e, r)
    BY <1>3 DEF SkipFile
  <2>2. /\ r.skipped = result[e].skipped \cup {f} /\ r.baselined = result[e].baselined
        /\ r.pending = result[e].pending /\ r.error = result[e].error
    BY <1>2 DEF MigrateResult
  <2> HIDE DEF r
  <2>3. QED
    BY <1>1, <2>1, <2>2, PlanOfFile, ContinueFollows
<1>4. CASE PassGate(e, f)
  <2>1. Gated(e, f) /\ ~Mismatch(e, f) /\ Continue(e, result[e])
    BY <1>4 DEF PassGate
  <2>2. QED
    BY <1>1, <2>1, PlanOfFile, ContinueFollows
<1>5. CASE FailGate(e, f)
  <2>1. Gated(e, f) /\ Mismatch(e, f) /\ strict /\ Return(e, "checksum")
    BY <1>5 DEF FailGate, Mismatch
  <2>2. BaselinesAreOwn(e) => PlanOf(e).unresolved # {}
    BY <2>1, PlanOfFile
  <2>3. QED
    BY <2>1, <2>2, ReturnFollows
<1>6. CASE Baseline(e, f)
  <2> DEFINE r == [result[e] EXCEPT !.baselined = @ \cup {f}]
  <2>1. Outstanding(e, f) /\ Resolved(mem[e], f.id, "baseline") /\ Continue(e, r)
    BY <1>6 DEF Baseline
  <2>2. /\ r.skipped = result[e].skipped /\ r.baselined = result[e].baselined \cup {f}
        /\ r.pending = result[e].pending /\ r.error = result[e].error
    BY <1>2 DEF MigrateResult
  <2> HIDE DEF r
  <2>3. QED
    BY <1>1, <2>1, <2>2, PlanOfFile, ContinueFollows
<1>7. CASE Apply(e, f) /\ dryRun
  <2> DEFINE r == [result[e] EXCEPT !.pending = @ \cup {f}]
  <2>1. Outstanding(e, f) /\ ~Resolved(mem[e], f.id, "baseline") /\ Continue(e, r)
    BY <1>7 DEF Apply
  <2>2. /\ r.skipped = result[e].skipped /\ r.baselined = result[e].baselined
        /\ r.pending = result[e].pending \cup {f} /\ r.error = result[e].error
    BY <1>2 DEF MigrateResult
  <2> HIDE DEF r
  <2>3. QED
    BY <1>1, <2>1, <2>2, PlanOfFile, ContinueFollows
<1>8. CASE Apply(e, f) /\ ~dryRun
  <2>1. Outstanding(e, f) /\ ~Resolved(mem[e], f.id, "baseline") /\ Return(e, "unavailable")
    BY <1>8 DEF Apply
  <2>2. BaselinesAreOwn(e) => PlanOf(e).pending # {}
    BY <2>1, PlanOfFile
  <2>3. QED
    BY <2>1, <2>2, ReturnFollows
<1>9. QED
  BY <1>1, <1>3, <1>4, <1>5, <1>6, <1>7, <1>8

(* Every own step of an engine keeps what is said of it. *)
LEMMA OwnStepFollows ==
  ASSUME Shapes, ResultShapes, NEW e \in Engine, ForecastKept(e), PlanFollowed(e),
         Prepare(e) \/ Migrate(e) \/ CrashEngine(e)
  PROVE  ForecastKept(e)' /\ PlanFollowed(e)'
<1>1. CASE Prepare(e) \/ Lock(e)
  <2>1. pc[e] \notin InProgress /\ pc'[e] \notin InProgress
    BY <1>1 DEF Prepare, StartEngine, Initialize, AddResolution, FillFile, Lock, Goes, Shapes,
       InProgress
  <2>2. UNCHANGED <<next, result>>
    BY <1>1 DEF Prepare, StartEngine, Initialize, AddResolution, FillFile, Lock, runVars
  <2>3. QED
    BY <2>1, <2>2, PlanOutside DEF PlanFollowed
<1>2. CASE CrashEngine(e) \/ Acknowledge(e)
  <2>1. pc'[e] \notin InProgress
    BY <1>2 DEF CrashEngine, Acknowledge, Goes, Shapes, InProgress
  <2>2. next'[e] = 1 /\ result'[e] = NoResult
    BY <1>2 DEF CrashEngine, Acknowledge, Forget, Shapes, ResultShapes
  <2>3. QED
    BY <2>1, <2>2, PlanOutside
<1>3. CASE Finish(e)
  <2>1. Return(e, "none") /\ next[e] > Len(Files)
    BY <1>3 DEF Finish
  <2>2. Visited(e) = File
    <3>1. \A k \in 1..Len(Files) : k < next[e]
      BY <2>1, FilesAreRows DEF Shapes
    <3>2. QED
      BY <3>1 DEF Visited, File
  <2>3. QED
    BY <2>1, <2>2, ReturnFollows
<1>4. QED
  BY <1>1, <1>2, <1>3, ReadFollows, VisitFollows DEF Migrate

(* Results keep their shape. *)
LEMMA ResultShapesKept ==
  ASSUME ResultShapes, NEW e \in Engine, Prepare(e) \/ Migrate(e) \/ CrashEngine(e)
  PROVE  ResultShapes'
<1>1. NoResult \in MigrateResult
  BY DEF NoResult, MigrateResult
<1>2. result[e] \in MigrateResult
  BY DEF ResultShapes
<1>3. CASE Prepare(e) \/ Lock(e) \/ ReadApplied(e)
  BY <1>3 DEF Prepare, StartEngine, Initialize, AddResolution, FillFile, Lock, ReadApplied, runVars,
     ResultShapes
<1>4. CASE CrashEngine(e) \/ Acknowledge(e)
  BY <1>1, <1>4 DEF CrashEngine, Acknowledge, Forget, ResultShapes
<1>5. ASSUME NEW r \in MigrateResult, Continue(e, r)
      PROVE  ResultShapes'
  BY <1>5 DEF Continue, ResultShapes
<1>6. ASSUME NEW error \in {"none", "unavailable", "checksum"}, Return(e, error)
      PROVE  ResultShapes'
  <2>1. [result[e] EXCEPT !.error = error] \in MigrateResult
    BY <1>2 DEF MigrateResult
  <2>2. QED
    BY <1>6, <2>1 DEF Return, ResultShapes
<1>7. CASE Visit(e) \/ Finish(e)
  <2>1. ASSUME NEW f \in File
        PROVE  /\ [result[e] EXCEPT !.skipped = @ \cup {f}] \in MigrateResult
               /\ [result[e] EXCEPT !.baselined = @ \cup {f}] \in MigrateResult
               /\ [result[e] EXCEPT !.pending = @ \cup {f}] \in MigrateResult
    BY <1>2 DEF MigrateResult
  <2>2. \/ \E r \in MigrateResult : Continue(e, r)
        \/ \E error \in {"none", "unavailable", "checksum"} : Return(e, error)
    BY <1>2, <1>7, <2>1 DEF Visit, Finish, SkipFile, PassGate, FailGate, Baseline, Apply
  <2>3. QED
    BY <2>2, <1>5, <1>6
<1>8. QED
  BY <1>3, <1>4, <1>7 DEF Migrate

(* Migrate follows its plan at every step. *)
LEMMA PlanNextInv == MigrateInv /\ PlanInv /\ [MigrateNext]_migrateVars => PlanInv'
<1> SUFFICES ASSUME MigrateInv, PlanInv, [MigrateNext]_migrateVars PROVE PlanInv'
  OBVIOUS
<1>1. ASSUME NEW e \in Engine, Prepare(e) \/ Migrate(e) \/ CrashEngine(e)
      PROVE  PlanInv'
  <2>1. ASSUME NEW d \in Engine \ {e}
        PROVE  ForecastKept(d)' /\ PlanFollowed(d)'
    BY <1>1, <2>1, OnlyOne, PlanOfOthers DEF MigrateInv, PlanInv
  <2>2. ForecastKept(e)' /\ PlanFollowed(e)'
    BY <1>1, OwnStepFollows DEF MigrateInv, PlanInv
  <2>3. ResultShapes'
    BY <1>1, ResultShapesKept DEF PlanInv
  <2>4. QED
    BY <2>1, <2>2, <2>3 DEF PlanInv
<1>2. CASE Lapse
  <2>1. ResultShapes' /\ \A e \in Engine : forecast'[e] = Nobody
    BY <1>2 DEF Lapse, PlanInv, ResultShapes
  <2>2. UNCHANGED <<pc, next, result>>
    BY <1>2 DEF Lapse
  <2>3. QED
    BY <2>1, <2>2 DEF PlanInv, ForecastKept, PlanFollowed
<1>3. CASE Convert \/ UNCHANGED migrateVars
  <2>1. /\ UNCHANGED <<config, lapsed, pc, mem, applied, next, result, forecast>>
        /\ log = <<>> \/ UNCHANGED log
    BY <1>3 DEF Convert, Bootstrap, migrateVars, runVars, eventVars
  <2>2. ResultShapes'
    BY <2>1 DEF PlanInv, ResultShapes
  <2>3. QED
    BY <2>1, <2>2, PlanOfOthers DEF PlanInv
<1>4. QED
  BY <1>1, <1>2, <1>3 DEF MigrateNext

(* A migrate, or a dry run, does exactly what a plan made when it began    *)
(* says, and if it stops, for a reason the plan gives, for any files,      *)
(* resolutions and histories, whatever the other engines do meanwhile.     *)
THEOREM MigrateFollowsPlan == MigrateSpec => []PlanPredictsMigrate
<1>1. MigrateInit => PlanInv
  <2> SUFFICES ASSUME MigrateInit PROVE PlanInv
    OBVIOUS
  <2>1. ResultShapes
    BY DEF MigrateInit, ResultShapes, MigrateResult, NoResult
  <2>2. QED
    BY <2>1 DEF MigrateInit, PlanInv, ForecastKept, PlanFollowed, InProgress
<1>2. PlanInv => PlanPredictsMigrate
  <2>1. ASSUME PlanInv, NEW e \in Engine, pc[e] = "over", Comparable(e)
        PROVE  /\ forecast[e] = PlanOf(e)
               /\ AsPlanned(e) /\ ReturnedAsPlanned(e)
               /\ PlanOf(e).skipped \in SUBSET File
               /\ PlanOf(e).baselines \in SUBSET File
               /\ PlanOf(e).pending \in SUBSET File
               /\ PlanOf(e).unresolved \in SUBSET File
    <3>1. forecast[e] # Nobody /\ BaselinesAreOwn(e)
      BY <2>1 DEF Comparable, BaselinesAreOwn
    <3>2. forecast[e] = PlanOf(e)
      BY <2>1, <3>1 DEF PlanInv, ForecastKept, Comparable, InProgress
    <3>3. AsPlanned(e) /\ ReturnedAsPlanned(e)
      BY <2>1, <3>1 DEF PlanInv, PlanFollowed, InProgress
    <3>4. /\ PlanOf(e).skipped \in SUBSET File
          /\ PlanOf(e).baselines \in SUBSET File
          /\ PlanOf(e).pending \in SUBSET File
          /\ PlanOf(e).unresolved \in SUBSET File
      BY DEF PlanOf, Plan, Skipped, NewBaselines
    <3>5. QED
      BY <3>2, <3>3, <3>4
  <2>2. QED
    BY ZenonT(60), <2>1 DEF PlanPredictsMigrate, AsPlanned, ReturnedAsPlanned
<1>3. QED
  BY <1>1, <1>2, MigrateInvariant, PlanNextInv, PTL DEF MigrateSpec

---------------------------------------------------------------------------
(* The replay of the event log *)

(* The least-number principle, from which the inductions below start.      *)
LEMMA LeastNatural ==
  ASSUME NEW T \in SUBSET Nat, T # {}
  PROVE  \E m \in T : \A k \in T : m <= k
<1>1. PICK m \in T : \A k \in T : <<k, m>> \notin OpToRel(<, Nat)
  BY WFMin, NatLessThanWellFounded, Zenon
<1>2. ASSUME NEW k \in T
      PROVE  ~ (k < m)
  <2>1. <<k, m>> \in Nat \X Nat /\ <<k, m>>[1] = k /\ <<k, m>>[2] = m
    OBVIOUS
  <2>2. k < m => <<k, m>> \in OpToRel(<, Nat)
    BY <2>1, Zenon DEF OpToRel
  <2>3. QED
    BY <1>1, <2>2
<1>3. QED
  BY <1>2

Status == [applied : BOOLEAN, sum : Checksum \cup {NoSum}]

(* One event of the replay. *)
AfterEvent(state, e) == [state EXCEPT ![e.id] = After(@, e)]

(* The statuses after each of the first n events. *)
ReplayTo(events, n, state) ==
  state = [k \in 0..n |-> IF k = 0 THEN [m \in Migration |-> NewStatus]
                          ELSE AfterEvent(state[k - 1], events[k])]

(* The recursion has a solution: that of n - 1 events, and one step more.  *)
LEMMA ReplayExtends ==
  ASSUME NEW events, NEW n \in Nat \ {0}, NEW h, ReplayTo(events, n - 1, h)
  PROVE  \E g : ReplayTo(events, n, g)
<1> DEFINE g == [k \in 0..n |-> IF k < n THEN h[k] ELSE AfterEvent(h[n - 1], events[n])]
<1>1. ASSUME NEW k \in 0..n
      PROVE  g[k] = IF k = 0 THEN [m \in Migration |-> NewStatus]
                    ELSE AfterEvent(g[k - 1], events[k])
  <2>1. \A i \in 0..n - 1 :
          h[i] = IF i = 0 THEN [m \in Migration |-> NewStatus]
                 ELSE AfterEvent(h[i - 1], events[i])
    BY DEF ReplayTo
  <2>2. CASE k = n
    <3>1. g[n] = AfterEvent(h[n - 1], events[n]) /\ g[n - 1] = h[n - 1]
      OBVIOUS
    <3>2. QED
      BY <2>2, <3>1
  <2>3. CASE k # n
    <3>1. k \in 0..n - 1 /\ g[k] = h[k]
      BY <2>3
    <3>2. k # 0 => g[k - 1] = h[k - 1]
      BY <3>1
    <3>3. QED
      BY <2>1, <3>1, <3>2
  <2>4. QED
    BY <2>2, <2>3
<1>2. ReplayTo(events, n, g)
  <2>1. g = [k \in 0..n |-> g[k]]
    OBVIOUS
  <2> HIDE DEF g
  <2>2. QED
    BY <1>1, <2>1 DEF ReplayTo
<1>3. QED
  BY <1>2

(* The replay of a log of any length is defined. *)
LEMMA ReplayExists ==
  ASSUME NEW events, NEW n \in Nat
  PROVE  \E g : ReplayTo(events, n, g)
<1> DEFINE T == {k \in Nat : ~ \E g : ReplayTo(events, k, g)}
<1> SUFFICES ASSUME n \in T PROVE FALSE
  OBVIOUS
<1>1. PICK k \in T : \A i \in T : k <= i
  BY LeastNatural
<1>2. CASE k = 0
  <2> DEFINE g == [i \in 0..0 |-> [m \in Migration |-> NewStatus]]
  <2>1. ReplayTo(events, 0, g)
    BY DEF ReplayTo
  <2>2. QED
    BY <1>2, <2>1
<1>3. CASE k # 0
  <2>1. k \in Nat \ {0} /\ k - 1 \notin T /\ k - 1 \in Nat
    BY <1>1, <1>3
  <2>2. PICK h : ReplayTo(events, k - 1, h)
    BY <2>1
  <2>3. QED
    BY <2>1, <2>2, ReplayExtends
<1>4. QED
  BY <1>2, <1>3

(* from_events computes it. *)
LEMMA ReplayedIsReplay ==
  ASSUME NEW events \in Seq(Event)
  PROVE  \E g : ReplayTo(events, Len(events), g) /\ Replayed(events) = g[Len(events)]
<1>1. Len(events) \in Nat
  OBVIOUS
<1> DEFINE g == CHOOSE state : ReplayTo(events, Len(events), state)
<1>2. ReplayTo(events, Len(events), g)
  BY <1>1, ReplayExists
<1>3. Replayed(events) = g[Len(events)]
  BY DEF Replayed, ReplayTo, AfterEvent
<1>4. QED
  BY <1>2, <1>3

(* The first n events of the sequence that have m as their migration.      *)
Of(events, n, m) == {i \in 1..n : events[i].id = m}

(* The status is the one that the first n events leave to m: the two parts *)
(* of ReplayIsLastWord.                                                    *)
AppliedLast(events, n, m) ==
  \E i \in Of(events, n, m) :
    /\ events[i].type = "applied"
    /\ \A j \in Of(events, n, m) : events[j].type = "rolled_back" => j < i

Sums(events, n, m) ==
  {i \in Of(events, n, m) : events[i].type \in {"applied", "resolved"} /\ events[i].sum # NoSum}

LastWord(events, n, m, status) ==
  /\ status \in Status
  /\ status.applied <=> AppliedLast(events, n, m)
  /\ \A i \in Sums(events, n, m) :
       (\A j \in Sums(events, n, m) : j <= i) => status.sum = events[i].sum

(* An event of another migration changes nothing. *)
LEMMA OtherEvent ==
  ASSUME NEW events, NEW n \in Nat \ {0}, NEW m, events[n].id # m,
         NEW status, LastWord(events, n - 1, m, status)
  PROVE  LastWord(events, n, m, status)
<1>1. Of(events, n, m) = Of(events, n - 1, m)
  BY DEF Of
<1>2. QED
  BY <1>1 DEF LastWord, AppliedLast, Sums

(* An event of m changes the status as After says. *)
LEMMA OwnEvent ==
  ASSUME NEW events, NEW n \in Nat \ {0}, events[n] \in Event,
         NEW m, events[n].id = m,
         NEW status, LastWord(events, n - 1, m, status)
  PROVE  LastWord(events, n, m, After(status, events[n]))
<1> DEFINE e == events[n]
           old == Of(events, n - 1, m)
           new == Of(events, n, m)
<1>1. new = old \cup {n} /\ \A i \in old : i \in Nat /\ i < n
  BY DEF Of
<1>2. /\ status \in Status
      /\ e.type \in {"applied", "rolled_back", "failed", "resolved"}
      /\ e.sum \in Checksum \cup {NoSum}
      /\ e.type = "applied" => e.sum # NoSum
  BY DEF LastWord, Event, EventType
<1>3. status.applied <=> \E i \in old : /\ events[i].type = "applied"
                                        /\ \A j \in old : events[j].type = "rolled_back" => j < i
  BY DEF LastWord, AppliedLast
<1> DEFINE summed(i) == events[i].type \in {"applied", "resolved"} /\ events[i].sum # NoSum
<1>4. \A i \in old : summed(i) /\ (\A j \in old : summed(j) => j <= i) =>
        status.sum = events[i].sum
  BY DEF LastWord, Sums
<1>5. SUFFICES
        /\ After(status, e) \in Status
        /\ After(status, e).applied <=>
             \E i \in new : /\ events[i].type = "applied"
                            /\ \A j \in new : events[j].type = "rolled_back" => j < i
        /\ \A i \in new : summed(i) /\ (\A j \in new : summed(j) => j <= i) =>
             After(status, e).sum = events[i].sum
  BY DEF LastWord, AppliedLast, Sums
<1> HIDE DEF old, new
<1>6. CASE e.type = "applied"
  <2>1. After(status, e) = [applied |-> TRUE, sum |-> e.sum]
    BY <1>6 DEF After
  <2>2. After(status, e) \in Status
    BY <1>2, <2>1 DEF Status
  <2>3. \E i \in new : /\ events[i].type = "applied"
                       /\ \A j \in new : events[j].type = "rolled_back" => j < i
    BY <1>1, <1>6
  <2>4. \A i \in new : summed(i) /\ (\A j \in new : summed(j) => j <= i) => i = n
    BY <1>1, <1>2, <1>6
  <2>5. QED
    BY <2>1, <2>2, <2>3, <2>4
<1>7. CASE e.type = "rolled_back"
  <2>1. After(status, e) = [status EXCEPT !.applied = FALSE]
    BY <1>7 DEF After
  <2>2. /\ After(status, e) \in Status
        /\ ~ After(status, e).applied /\ After(status, e).sum = status.sum
    BY <1>2, <2>1 DEF Status
  <2>3. \A i \in new : i <= n /\ n \in new
    BY <1>1
  <2>4. ~ \E i \in new : /\ events[i].type = "applied"
                         /\ \A j \in new : events[j].type = "rolled_back" => j < i
    BY <1>1, <1>7
  <2>5. \A i \in new : summed(i) /\ (\A j \in new : summed(j) => j <= i) =>
          status.sum = events[i].sum
    BY <1>1, <1>4, <1>7
  <2>6. QED
    BY <2>2, <2>4, <2>5
<1>8. CASE e.type \in {"failed", "resolved"}
  <2>1. \/ After(status, e) = status /\ ~ summed(n)
        \/ After(status, e) = [status EXCEPT !.sum = e.sum] /\ summed(n)
    <3>1. CASE e.type = "failed"
      BY <3>1 DEF After
    <3>2. CASE e.type = "resolved" /\ e.sum # NoSum
      BY <3>2 DEF After
    <3>3. CASE e.type = "resolved" /\ e.sum = NoSum
      <4>1. After(status, e) = [status EXCEPT !.sum = status.sum]
        BY <3>3 DEF After
      <4>2. QED
        BY <1>2, <3>3, <4>1 DEF Status
    <3>4. QED
      BY <1>8, <3>1, <3>2, <3>3
  <2>2. /\ After(status, e) \in Status
        /\ After(status, e).applied = status.applied
        /\ After(status, e).sum = IF summed(n) THEN e.sum ELSE status.sum
    BY <1>2, <2>1 DEF Status
  <2>3. (\E i \in new : /\ events[i].type = "applied"
                        /\ \A j \in new : events[j].type = "rolled_back" => j < i)
          <=> \E i \in old : /\ events[i].type = "applied"
                             /\ \A j \in old : events[j].type = "rolled_back" => j < i
    BY <1>1, <1>8
  <2>4. CASE summed(n)
    <3>1. \A i \in new : summed(i) /\ (\A j \in new : summed(j) => j <= i) => i = n
      BY <1>1, <2>4
    <3>2. QED
      BY <1>3, <2>2, <2>3, <2>4, <3>1
  <2>5. CASE ~ summed(n)
    <3>1. \A i \in new : summed(i) /\ (\A j \in new : summed(j) => j <= i) =>
            status.sum = events[i].sum
      BY <1>1, <1>4, <2>5
    <3>2. QED
      BY <1>3, <2>2, <2>3, <2>5, <3>1
  <2>6. QED
    BY <2>4, <2>5
<1>9. QED
  BY <1>2, <1>6, <1>7, <1>8

(* After the replay a migration is what its last event says. *)
LEMMA ReplayedLastWord ==
  ASSUME NEW events \in Seq(Event), NEW g, ReplayTo(events, Len(events), g),
         NEW n \in 0..Len(events)
  PROVE  \A m \in Migration : LastWord(events, n, m, g[n][m])
<1> DEFINE Good(k) == /\ g[k] = [m \in Migration |-> g[k][m]]
                      /\ \A m \in Migration : LastWord(events, k, m, g[k][m])
           T == {k \in 0..Len(events) : ~ Good(k)}
<1>1. Len(events) \in Nat /\ \A k \in 1..Len(events) : events[k] \in Event
  OBVIOUS
<1>2. SUFFICES ASSUME n \in T PROVE FALSE
  OBVIOUS
<1>3. PICK k \in T : \A i \in T : k <= i
  <2> HIDE DEF Good
  <2>1. T \in SUBSET Nat /\ T # {}
    BY <1>1, <1>2
  <2> HIDE DEF T
  <2>2. QED
    BY <2>1, LeastNatural
<1>4. \A i \in 0..Len(events) :
        g[i] = IF i = 0 THEN [m \in Migration |-> NewStatus]
               ELSE AfterEvent(g[i - 1], events[i])
  BY DEF ReplayTo
<1>5. CASE k = 0
  <2>1. g[0] = [m \in Migration |-> NewStatus]
    BY <1>1, <1>4
  <2>2. \A m : LastWord(events, 0, m, NewStatus)
    BY DEF LastWord, AppliedLast, Sums, Of, NewStatus, Status
  <2>3. QED
    BY <1>3, <1>5, <2>1, <2>2
<1>6. CASE k # 0
  <2>1. /\ k \in Nat \ {0} /\ k \in 1..Len(events) /\ k - 1 \in 0..Len(events)
        /\ Good(k - 1)
    BY <1>1, <1>3, <1>6
  <2>2. events[k] \in Event /\ events[k].id \in Migration
    BY <1>1, <2>1 DEF Event
  <2>3. g[k] = [g[k - 1] EXCEPT ![events[k].id] = After(@, events[k])]
    BY <1>4, <1>6, <2>1 DEF AfterEvent
  <2>4. /\ g[k] = [m \in Migration |-> g[k][m]]
        /\ \A m \in Migration :
             g[k][m] = IF m = events[k].id THEN After(g[k - 1][m], events[k]) ELSE g[k - 1][m]
    BY <2>1, <2>2, <2>3
  <2>5. ASSUME NEW m \in Migration
        PROVE  LastWord(events, k, m, g[k][m])
    <3>1. CASE m = events[k].id
      <4>1. LastWord(events, k - 1, m, g[k - 1][m])
        BY <2>1
      <4>2. LastWord(events, k, m, After(g[k - 1][m], events[k]))
        BY <2>1, <2>2, <3>1, <4>1, OwnEvent
      <4>3. QED
        BY <2>4, <3>1, <4>2
    <3>2. CASE m # events[k].id
      BY <2>1, <2>4, <3>2, OtherEvent
    <3>3. QED
      BY <3>1, <3>2
  <2>6. QED
    BY <1>3, <2>4, <2>5
<1>7. QED
  BY <1>5, <1>6

(* The replay of any log of events has the last word right. *)
LEMMA AnyLogReplays == log \in Seq(Event) => ReplayIsLastWord
<1> SUFFICES ASSUME log \in Seq(Event), NEW m \in Migration
             PROVE  LET status == Replayed(log)[m]
                        summed == {i \in EventsOf(m, {"applied", "resolved"}) :
                                     log[i].sum # NoSum}
                    IN  /\ status.applied <=>
                             \E i \in EventsOf(m, {"applied"}) :
                               \A j \in EventsOf(m, {"rolled_back"}) : j < i
                        /\ \A i \in summed : LastOf(summed, i) => status.sum = log[i].sum
  BY DEF ReplayIsLastWord
<1>1. PICK g : ReplayTo(log, Len(log), g) /\ Replayed(log) = g[Len(log)]
  BY ReplayedIsReplay
<1>2. LastWord(log, Len(log), m, Replayed(log)[m])
  BY <1>1, ReplayedLastWord
<1>3. QED
  BY <1>2 DEF LastWord, AppliedLast, Sums, Of, EventsOf, LastOf

---------------------------------------------------------------------------
(* The event store appends events, and the conversion of a history writes  *)
(* an applied event for each row.                                          *)

LogKnown == log \in Seq(Event) /\ taken \in [Writer -> Event \cup {Idle}]

(* Logs hold known events. *)
LEMMA EventStepKeeps == LogKnown /\ [EventNext]_eventVars => LogKnown'
<1> SUFFICES ASSUME LogKnown, [EventNext]_eventVars PROVE LogKnown'
  OBVIOUS
<1>1. ASSUME NEW w \in Writer, NEW e \in Event, TakeNumber(w, e)
      PROVE  LogKnown'
  BY <1>1 DEF TakeNumber, LogKnown
<1>2. ASSUME NEW w \in Writer, Push(w)
      PROVE  LogKnown'
  <2>1. taken[w] \in Event
    BY <1>2 DEF Push, LogKnown
  <2>2. QED
    BY <1>2, <2>1 DEF Push, LogKnown
<1>3. CASE UNCHANGED eventVars
  BY <1>3 DEF eventVars, LogKnown
<1>4. QED
  BY <1>1, <1>2, <1>3 DEF EventNext

(* An engine appends known events, or none. *)
LEMMA BootstrapKeeps ==
  ASSUME history \in Seq(Row), Bootstrap(history)
  PROVE  log' \in Seq(Event)
<1> DEFINE n == Len(history)
           event(i) == [number |-> i, id |-> history[i].id, type |-> "applied",
                        sum |-> history[i].sum]
<1>1. n \in Nat /\ n \in 1..MaxEvents /\ log' = [i \in 1..n |-> event(i)]
  BY DEF Bootstrap
<1>2. ASSUME NEW i \in 1..n
      PROVE  event(i) \in Event
  <2>1. history[i] \in Row
    OBVIOUS
  <2>2. i \in 1..MaxEvents
    BY <1>1, EventAssumption
  <2>3. QED
    BY <2>1, <2>2, EventAssumption DEF Row, Event, EventType
<1> HIDE DEF event, n
<1>3. QED
  BY <1>1, <1>2, IsASeq

(* Replay has the last word right, whatever writers append in whatever     *)
(* order: a migration is applied exactly when its last application was not *)
(* rolled back afterwards, and its checksum is the last one it was given.  *)
THEOREM ReplayHasLastWord == EventInit /\ [][EventNext]_eventVars => []ReplayIsLastWord
<1>1. EventInit => LogKnown
  BY EmptySeq DEF EventInit, LogKnown
<1>2. LogKnown => ReplayIsLastWord
  BY AnyLogReplays DEF LogKnown
<1>3. QED
  BY <1>1, <1>2, EventStepKeeps, PTL

(* And so it has beneath the engines, for any log they find and for the    *)
(* one that a conversion of the history begins.                            *)
THEOREM ReplayServesEngines == MigrateSpec => []ReplayIsLastWord
<1>1. MigrateInit => log \in Seq(Event)
  BY EngineAssumption DEF MigrateInit
<1>2. MigrateInv /\ log \in Seq(Event) /\ [MigrateNext]_migrateVars => (log \in Seq(Event))'
  <2> SUFFICES ASSUME MigrateInv, log \in Seq(Event), [MigrateNext]_migrateVars
               PROVE  log' \in Seq(Event)
    OBVIOUS
  <2>1. CASE Convert
    BY <2>1, BootstrapKeeps DEF Convert, MigrateInv, Shapes
  <2>2. ASSUME NEW e \in Engine, Prepare(e) \/ Migrate(e) \/ CrashEngine(e)
        PROVE  UNCHANGED log
    BY <2>2 DEF Prepare, StartEngine, Initialize, AddResolution, FillFile, Migrate, Lock,
       ReadApplied, Visit, SkipFile, PassGate, FailGate, Baseline, Apply, Finish, Acknowledge,
       CrashEngine, Goes, Continue, Return, eventVars
  <2>3. CASE Lapse \/ UNCHANGED migrateVars
    BY <2>3 DEF Lapse, migrateVars, eventVars
  <2>4. QED
    BY <2>1, <2>2, <2>3 DEF MigrateNext
<1>3. QED
  BY <1>1, <1>2, AnyLogReplays, MigrateInvariant, PTL DEF MigrateSpec
===========================================================================
