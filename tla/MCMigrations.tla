--------------------------- MODULE MCMigrations ---------------------------
(* Instances of MigrationEngine for TLC, and of the event log by itself.   *)
EXTENDS MigrationEngine, TLC

CONSTANTS e1, e2, m0, m1, m2, a, b, x1, x2

TwoEngines == {e1, e2}
ThreeMigrations == {m0, m1, m2}
Sums == {a, b}
TwoWriters == {x1, x2}
TwoFiles == <<[id |-> m1, sum |-> a], [id |-> m2, sum |-> a]>>

(* Nothing is applied; the first file is, before it was edited; both are,  *)
(* and the second was edited afterwards.                                   *)
SomeHistories ==
  {<<>>, <<[id |-> m1, sum |-> b]>>, <<[id |-> m1, sum |-> a], [id |-> m2, sum |-> b]>>}

(* The log is empty, or says that the first file was applied as it was     *)
(* before the edit.                                                        *)
SomeLogs == {<<>>, <<[number |-> 1, id |-> m1, type |-> "applied", sum |-> b]>>}

Resolve(action, expires) == [action |-> action, expires |-> expires]

(* The second file may be the first one under a new id. *)
SomeResolutions ==
  {Resolve("skip", FALSE), Resolve("baseline", TRUE), Resolve("force", FALSE),
   [action |-> "accept", expires |-> FALSE, from |-> b, to |-> a],
   [action |-> "rename", expires |-> FALSE, old |-> m1]}

OneAddition == {[id |-> m2, resolution |-> Resolve("baseline", FALSE)]}

EngineSymmetry == Permutations(TwoEngines)

VARIABLE exercised   (* the log alone, or the engines                      *)

MCInit ==
  \/ /\ exercised = "engines"
     /\ MigrateInit
  \/ /\ exercised = "log"
     /\ MigrateInit
     /\ log = <<>> /\ history = <<>> /\ saved = NoResolutions /\ strict /\ ~dryRun

MCNext ==
  \/ exercised = "engines" /\ MigrateNext /\ UNCHANGED exercised
  \/ /\ exercised = "log" /\ EventNext
     /\ UNCHANGED <<config, lapsed, saved, history, holder, pc, mem, runVars, exercised>>

MCSpec == MCInit /\ [][MCNext]_<<migrateVars, exercised>>
===========================================================================
