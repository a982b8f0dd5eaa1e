-------------------------- MODULE SchemaMigration --------------------------
(***************************************************************************)
(* A schema change from the edited schema file to the migrated database:   *)
(* `prax migrate dev` (prax-cli, migrate.rs) and                           *)
(* MigrationEngine::create_migration (prax-migrate, engine.rs) compute the *)
(* difference (SchemaDiff), order the new tables (CreateOrder) and write a *)
(* script (MigrationSql).  Nothing in prax executes it: somebody runs it,  *)
(* statement by statement, against the database (Catalog), and stops at    *)
(* the first one that is refused; then runs it back, or tries again.       *)
(***************************************************************************)
EXTENDS Catalog, CreateOrder

CONSTANTS
  Edits,        (* pairs of schemas, from and to                           *)
  MaxRetries    (* bound: times a failed script is generated anew          *)

ASSUME RetriesAssumption == MaxRetries \in Nat

(* A column and a model as SchemaDiff describes them. *)
IsColumn(c) ==
  c = [name |-> c.name, type |-> c.type, enum |-> c.enum,
       nullable |-> c.nullable, default |-> c.default]

IsModel(m) ==
  /\ m = [table |-> m.table, columns |-> m.columns, keys |-> m.keys, indexes |-> m.indexes]
  /\ \A c \in m.columns : IsColumn(c)
  /\ IsFiniteSet(m.columns) /\ IsFiniteSet(m.keys) /\ IsFiniteSet(m.indexes)

(* A schema is finite and has one model for a table. *)
IsSchema(s) ==
  /\ s = [models |-> s.models, enums |-> s.enums, views |-> s.views]
  /\ \A m \in s.models : IsModel(m)
  /\ \A m, n \in s.models : m.table = n.table => m = n
  /\ \A e \in s.enums : e = [name |-> e.name, values |-> e.values]
  /\ \A v \in s.views : v = [name |-> v.name, reads |-> v.reads, sql |-> v.sql,
                             materialized |-> v.materialized]
  /\ IsFiniteSet(s.models) /\ IsFiniteSet(s.enums) /\ IsFiniteSet(s.views)

ASSUME EditsAssumption ==
  \A e \in Edits :
    /\ IsSchema(e.from) /\ IsSchema(e.to)
    /\ \A m \in e.to.models : m.table \in Table /\ \A k \in m.keys : k.table \in Table

IsIndex(i) ==
  i = [name |-> i.name, columns |-> i.columns, unique |-> i.unique, constraint |-> i.constraint]

(* What the validator checks of a schema (validator.rs): names are given   *)
(* once, and the types of fields, the models of relations and the fields   *)
(* of indexes exist.  The fields of a model are kept by name               *)
(* (ast/model.rs:15).  It does not read the query of a view: that it is    *)
(* about a table of the schema is left to the author, and so are a name    *)
(* given to an index, which otherwise follows from its columns, and @map,  *)
(* which might give two fields one column: no database creates such a      *)
(* table.                                                                  *)
IsWellFormed(s) ==
  /\ \A e \in s.enums : e.name # Absent
  /\ \A e, f \in s.enums : e.name = f.name => e = f
  /\ \A v, w \in s.views : v.name = w.name => v = w
  /\ \A v \in s.views : v.reads \in Tables(s) /\ v.materialized \in BOOLEAN
  /\ \A m \in s.models :
       /\ \A k \in m.keys : k.table \in Tables(s)
       /\ \A c, e \in m.columns : c.name = e.name => c = e
       /\ \A c \in m.columns : c.enum # Absent => c.enum \in Names(s.enums)
       /\ \A i \in m.indexes :
            IsIndex(i) /\ ~i.constraint /\ \A n \in 1..Len(i.columns) : i.columns[n] \in Names(m.columns)
       /\ \A i, j \in m.indexes : i.name = j.name => i = j

(* A derived name begins with the name of the table (diff.rs:938).  One    *)
(* that is given must not be that of an index of another table, also not   *)
(* of the same model under an earlier name: its table is still there.      *)
ASSUME WellFormedAssumption ==
  \A e \in Edits :
    /\ IsWellFormed(e.from) /\ IsWellFormed(e.to)
    /\ \A m, n \in e.from.models \cup e.to.models :
         m.table # n.table => Names(m.indexes) \cap Names(n.indexes) = {}

VARIABLES
  backend,
  edit,       (* the schema the database was built from and the edited one *)
  db,         (* the catalog                                               *)
  before,     (* the catalog when the script was generated                 *)
  source,     (* the schema the differ compared with                       *)
  diff,       (* the SchemaDiff                                            *)
  additive,   (* --allow-destructive was not given                         *)
  script,     (* statements still to be executed                           *)
  down,       (* the down script                                           *)
  phase, retries

schemaVars == <<backend, edit, db, before, source, diff, additive, script, down, phase, retries>>
vars == <<schemaVars, orderVars>>

(* What a database built from s holds. *)
Built(b, s) ==
  [models |-> {[m EXCEPT !.columns = {Stored(b, c) : c \in @},
                         !.indexes = Constraints(m) \cup {i \in @ : ~i.unique}] : m \in s.models},
   enums |-> IF b \in {"Postgres", "DuckDb"} THEN s.enums ELSE {},
   views |-> {[v EXCEPT !.materialized = @ /\ b = "Postgres"] : v \in s.views}]

Init ==
  /\ backend \in Backends
  /\ edit \in Edits
  /\ db = Built(backend, edit.from) /\ before = db
  /\ source = EmptySchema /\ diff = Diff(EmptySchema, EmptySchema)
  /\ additive = FALSE
  /\ script = <<>> /\ down = <<>>
  /\ phase = "edited" /\ retries = 0
  /\ batch = {} /\ refs = <<>> /\ indegree = <<>> /\ ready = <<>> /\ ordered = <<>>

Differ(s, d, add) ==
  /\ source' = s
  /\ additive' = add
  /\ diff' = d
  /\ before' = db
  /\ StartOrdering(Tables([models |-> d.createModels]),
       [t \in Tables([models |-> d.createModels]) |->
          {k.table : k \in ModelOf([models |-> d.createModels], t).keys}])
  /\ phase' = "ordering"
  /\ UNCHANGED <<backend, edit, db, script, down, retries>>

(* The database is introspected.  DuckDB cannot be.                        *)
MigrateDev ==
  /\ phase = "edited"
  /\ backend # "DuckDb"
  /\ \E destructive \in BOOLEAN :
       LET s == Introspect(db)
           d == Diff(s, edit.to)
       IN  Differ(s, IF destructive THEN d ELSE StripDestructive(d), ~destructive)

(* create_migration of the engine, and `migrate dev` without a database to *)
(* connect to: there is no source.                                         *)
CreateMigration ==
  /\ phase = "edited"
  /\ Differ(EmptySchema, Diff(EmptySchema, edit.to), FALSE)

(* SchemaDiffer::with_source of the library.                               *)
DiffSchemas ==
  /\ phase = "edited"
  /\ Differ(edit.from, Diff(edit.from, edit.to), FALSE)

OrderTables == phase = "ordering" /\ Ordering /\ UNCHANGED schemaVars

Creates == [i \in 1..Len(ordered) |-> ModelOf([models |-> diff.createModels], ordered[i])]

(* generate.  drop_models comes from a hash map: any order.  The order of  *)
(* creation is forgotten afterwards.                                       *)
Generate ==
  /\ phase = "ordering" /\ Finished
  /\ \E drops \in Listings(diff.dropModels) : script' = Up(backend, diff, Creates, drops)
  /\ down' = Down(backend, diff, Creates)
  /\ phase' = "applying"
  /\ UNCHANGED <<backend, edit, db, before, source, diff, additive, retries, orderVars>>

Running == phase \in {"applying", "reverting"}

Execute ==
  /\ Running /\ script # <<>>
  /\ Accepts(backend, db, Head(script))
  /\ db' = Effect(backend, db, Head(script))
  /\ script' = Tail(script)
  /\ UNCHANGED <<backend, edit, before, source, diff, additive, down, phase, retries, orderVars>>

(* What was done before stays done. *)
Refuse ==
  /\ Running /\ script # <<>>
  /\ ~Accepts(backend, db, Head(script))
  /\ phase' = IF phase = "applying" THEN "failed" ELSE "revert failed"
  /\ UNCHANGED <<backend, edit, db, before, source, diff, additive, script, down, retries, orderVars>>

Complete ==
  /\ Running /\ script = <<>>
  /\ phase' = IF phase = "applying" THEN "applied" ELSE "reverted"
  /\ UNCHANGED <<backend, edit, db, before, source, diff, additive, script, down, retries, orderVars>>

Revert ==
  /\ phase = "applied"
  /\ script' = down
  /\ phase' = "reverting"
  /\ UNCHANGED <<backend, edit, db, before, source, diff, additive, down, retries, orderVars>>

Retry ==
  /\ phase = "failed"
  /\ retries < MaxRetries
  /\ retries' = retries + 1
  /\ phase' = "edited"
  /\ UNCHANGED <<backend, edit, db, before, source, diff, additive, script, down, orderVars>>

Next ==
  \/ MigrateDev \/ CreateMigration \/ DiffSchemas
  \/ OrderTables \/ Generate
  \/ Execute \/ Refuse \/ Complete \/ Revert \/ Retry

Spec == Init /\ [][Next]_vars

---------------------------------------------------------------------------
(* Properties *)

(* The differ compared with what is there.                                 *)
SourceKnown == source = Introspect(before) \/ before = Built(backend, source)

(* Views are not introspected, so one that exists may be created again.    *)
OnlyCreates ==
  /\ Names(diff.createViews) \cap Names(before.views) = {}
  /\ diff.dropModels = {} /\ diff.alterModels = {}
  /\ diff.dropEnums = {} /\ diff.alterEnums = {}
  /\ diff.dropViews = {} /\ diff.alterViews = {}

Cyclic == \E t \in batch : OnOrBehindCycle(t)

(* "drops (tables, columns, enums, foreign keys, indexes, enum-value       *)
(* removals) are stripped" (migrate.rs:608): without --allow-destructive   *)
(* no prefix of a script takes anything away that the database had, also   *)
(* when it stops in the middle and is generated anew.                      *)
AdditiveKeepsEverything ==
  additive /\ phase \in {"applying", "applied", "failed"} =>
    /\ \A m \in before.models :
         /\ HasTable(db, m.table)
         /\ LET now == ModelOf(db, m.table)
            IN  /\ Names(m.columns) \subseteq Names(now.columns)
                /\ m.keys \subseteq now.keys
                /\ m.indexes \subseteq now.indexes
    /\ \A e \in before.enums : \E n \in db.enums : n.name = e.name /\ e.values \subseteq n.values
    /\ Names(before.views) \subseteq Names(db.views)

(* What the backend's ALTER TABLE leaves out: SQLite changes no column,    *)
(* MySQL and SQL Server need the type to have changed.                     *)
ColumnReached(t, c) ==
  LET existed == HasColumn(before, t, c.name)
      old == Named(ModelOf(before, t).columns, c.name)
      now == Named(ModelOf(db, t).columns, c.name)
  IN  /\ now.type = c.type \/ (existed /\ backend = "Sqlite")
      /\ \/ now.nullable = c.nullable
         \/ existed /\ backend = "Sqlite"
         \/ existed /\ backend \in {"MySql", "Mssql"} /\ old.type = c.type

TableReached(m) ==
  /\ HasTable(db, m.table)
  /\ LET now == ModelOf(db, m.table)
     IN  /\ Names(m.columns) \subseteq Names(now.columns)
         /\ \A c \in m.columns : ColumnReached(m.table, c)
         /\ ~additive => Names(now.columns) = Names(m.columns)
         /\ Names(m.keys) \subseteq Names(now.keys) \/ backend = "Sqlite"
         /\ backend \in {"Postgres", "DuckDb"} => Shapes(m.indexes) \subseteq Shapes(now.indexes)

(* A script that ran to its end leaves the tables the schema describes,    *)
(* with their columns, foreign keys and indexes, but for what the backend  *)
(* cannot change; and a destructive one no others.                         *)
AppliedReachesTarget ==
  phase = "applied" =>
    /\ \A m \in edit.to.models : TableReached(m)
    /\ ~additive /\ SourceKnown => Tables(db) = Tables(edit.to)
    /\ backend = "Postgres" => \A e \in edit.to.enums : \E n \in db.enums :
         n.name = e.name /\ e.values \subseteq n.values

(* A script that only creates is never refused, whatever the order the     *)
(* hash maps give, unless foreign keys form a cycle.                       *)
CreationsRunThrough ==
  phase = "failed" /\ OnlyCreates /\ SourceKnown => backend # "Sqlite" /\ Cyclic

(* The statement of a down script no database accepts after the ones       *)
(* before it: the type of a column that still exists, an index whose table *)
(* is gone, and on DuckDB the tables that others refer to, because the     *)
(* drops were in the right order before they were reversed (sql.rs:1919).  *)
DownIsOutOfOrder ==
  \/ backend = "Postgres" /\ \E m \in diff.createModels, e \in diff.createEnums :
       \E c \in m.columns : c.enum = e.name
  \/ backend \in {"MySql", "Mssql"} /\ diff.createIndexes # {}
  \/ backend = "DuckDb" /\ \E m \in batch : Parents(batch, refs, m) # {}
  \/ backend \in {"MySql", "Mssql"} /\ Cyclic

(* The down script of a migration that only created things brings the      *)
(* database back to where it was, or is refused for a known reason.        *)
RollbackRestores ==
  OnlyCreates /\ SourceKnown =>
    /\ phase = "reverted" => db = before
    /\ phase = "revert failed" => DownIsOutOfOrder
===========================================================================
