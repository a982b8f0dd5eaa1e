------------------------------ MODULE Catalog ------------------------------
(***************************************************************************)
(* The databases that execute the generated scripts, as far as the         *)
(* statements of MigrationSql go: what each backend accepts and what the   *)
(* catalog looks like afterwards.  A catalog is a schema (SchemaDiff).     *)
(* None of this is code of prax; only how sql.rs uses it is.               *)
(*                                                                         *)
(* Tables hold no rows here: a statement that fails only because of the    *)
(* data (SET NOT NULL over nulls, a type that does not cast) is accepted.  *)
(* A view is taken to read every column of its table.                      *)
(***************************************************************************)
EXTENDS MigrationSql

HasTable(db, t) == t \in Tables(db)
HasColumn(db, t, c) == HasTable(db, t) /\ c \in Names(ModelOf(db, t).columns)

WithModel(db, m) == [db EXCEPT !.models = {x \in @ : x.table # m.table} \cup {m}]

(* Index names are unique in the schema or, with MySQL and SQL Server, in  *)
(* their table.                                                            *)
IndexesBeside(b, db, t) ==
  UNION {m.indexes : m \in {x \in db.models : b \in {"MySql", "Mssql"} => x.table = t}}

Referencing(db, t) == {m \in db.models : m.table # t /\ \E k \in m.keys : k.table = t}

TypeKnown(b, db, c) == b = "Postgres" /\ c.enum # Absent => c.enum \in Names(db.enums)

(* Only Postgres has the enum as the type of the column. *)
Stored(b, c) == [c EXCEPT !.enum = IF b = "Postgres" THEN @ ELSE Absent]

Constraints(m) == {[i EXCEPT !.constraint = TRUE] : i \in {j \in m.indexes : j.unique}}

Uses(x, c) == \E i \in 1..Len(x.columns) : x.columns[i] = c

---------------------------------------------------------------------------
AcceptsCreateTable(b, db, m) ==
  /\ ~HasTable(db, m.table)
  /\ \A k \in m.keys : b = "Sqlite" \/ HasTable(db, k.table) \/ k.table = m.table
  /\ \A c \in m.columns : TypeKnown(b, db, c)
  /\ b = "Postgres" =>
       Names({i \in m.indexes : i.unique}) \cap Names(IndexesBeside(b, db, m.table)) = {}

(* CASCADE takes the foreign keys and views along; the others refuse, but  *)
(* for SQLite, which by default does not check.                            *)
AcceptsDropTable(b, db, t) == b \in {"Postgres", "Sqlite"} \/ Referencing(db, t) = {}

(* SQLite wants a default for NOT NULL; DuckDB adds no constraint later.   *)
AcceptsAddColumn(b, db, t, c) ==
  /\ HasTable(db, t) /\ ~HasColumn(db, t, c.name)
  /\ TypeKnown(b, db, c)
  /\ b = "Sqlite" => c.nullable \/ c.default # Absent
  /\ b = "DuckDb" => c.nullable

AcceptsDropColumn(b, db, t, c) ==
  LET m == ModelOf(db, t)
      inKey == \E k \in m.keys : k.column = c
      indexed == \E i \in m.indexes : Uses(i, c)
  IN  CASE b = "Postgres" -> HasTable(db, t) /\ \A v \in db.views : v.reads # t
        [] b = "MySql" -> HasColumn(db, t, c) /\ ~inKey
        [] b = "Mssql" -> HasColumn(db, t, c) /\ ~inKey /\ ~indexed /\ Named(m.columns, c).default = Absent
        [] OTHER -> HasColumn(db, t, c) /\ ~inKey /\ ~indexed

AcceptsCreateIndex(b, db, t, i) ==
  /\ HasTable(db, t)
  /\ \A n \in 1..Len(i.columns) : HasColumn(db, t, i.columns[n])
  /\ i.name \notin Names(IndexesBeside(b, db, t))

(* IF EXISTS, but for MySQL and SQL Server; and what belongs to a          *)
(* constraint cannot be dropped.                                           *)
AcceptsDropIndex(b, db, t, n) ==
  LET found == {i \in IndexesBeside(b, db, t) : i.name = n}
  IN  /\ b \in {"MySql", "Mssql"} => found # {}
      /\ b \in {"Postgres", "Mssql"} => \A i \in found : ~i.constraint

AcceptsAddKey(b, db, t, k) ==
  /\ b # "DuckDb"
  /\ HasColumn(db, t, k.column) /\ HasTable(db, k.table)
  /\ k.name \notin Names(ModelOf(db, t).keys)

AcceptsDropKey(b, db, t, n) ==
  CASE b = "Postgres" -> HasTable(db, t)
    [] b = "DuckDb" -> FALSE
    [] OTHER -> HasTable(db, t) /\ n \in Names(ModelOf(db, t).keys)

AcceptsCreateView(b, db, v) ==
  LET found == {x \in db.views : x.name = v.name}
  IN  /\ b # "Sqlite" => HasTable(db, v.reads)
      /\ CASE b = "Postgres" -> IF v.materialized THEN found = {} ELSE \A x \in found : ~x.materialized
           [] b = "DuckDb" -> found = {}
           [] b = "Mssql" -> v.materialized => found = {}
           [] OTHER -> TRUE

Accepts(b, db, s) ==
  CASE s.op = "create type" -> s.enum.name \notin Names(db.enums)
    [] s.op = "drop type" -> \A m \in db.models, c \in UNION {x.columns : x \in db.models} :
                               c \in m.columns => c.enum # s.name
    [] s.op = "add values" -> s.name \in Names(db.enums)
    [] s.op = "create table" -> AcceptsCreateTable(b, db, s.model)
    [] s.op = "drop table" -> AcceptsDropTable(b, db, s.table)
    [] s.op = "add column" -> AcceptsAddColumn(b, db, s.table, s.column)
    [] s.op = "drop column" -> AcceptsDropColumn(b, db, s.table, s.name)
    [] s.op = "alter column" -> /\ HasColumn(db, s.table, s.name)
                                /\ b = "Postgres" /\ "type" \in DOMAIN s.change =>
                                     \A v \in db.views : v.reads # s.table
    [] s.op = "add default" -> /\ HasColumn(db, s.table, s.name)
                               /\ Named(ModelOf(db, s.table).columns, s.name).default = Absent
    [] s.op = "create index" -> AcceptsCreateIndex(b, db, s.table, s.index)
    [] s.op = "drop index" -> AcceptsDropIndex(b, db, s.table, s.name)
    [] s.op = "add key" -> AcceptsAddKey(b, db, s.table, s.key)
    [] s.op = "drop key" -> AcceptsDropKey(b, db, s.table, s.name)
    [] s.op = "create view" -> AcceptsCreateView(b, db, s.view)
    [] s.op = "drop view" -> b = "Postgres" => \A v \in db.views : v.name = s.name => v.materialized = s.materialized

---------------------------------------------------------------------------
(* The keys and views that go with a table under CASCADE; SQLite and views *)
(* elsewhere are left dangling.                                            *)
DropTableEffect(b, db, t) ==
  LET left == {m \in db.models : m.table # t}
  IN  IF b = "Postgres" /\ HasTable(db, t)
      THEN [db EXCEPT !.models = {[m EXCEPT !.keys = {k \in @ : k.table # t}] : m \in left},
                      !.views = {v \in @ : v.reads # t}]
      ELSE [db EXCEPT !.models = left]

(* The keys and indexes on a dropped column go with it; MySQL takes the    *)
(* column out of its indexes.                                              *)
DropColumnEffect(b, m, c) ==
  LET Without(i) == [i EXCEPT !.columns = SelectSeq(@, LAMBDA x : x # c)]
      kept == IF b = "MySql" THEN {i \in {Without(j) : j \in m.indexes} : i.columns # <<>>}
              ELSE {i \in m.indexes : ~Uses(i, c)}
  IN  [m EXCEPT !.columns = {x \in @ : x.name # c},
                !.keys = {k \in @ : k.column # c},
                !.indexes = kept]

(* A change names some of the fields of the column. *)
AlterColumnEffect(m, c, change) ==
  LET old == Named(m.columns, c)
      new == [f \in DOMAIN old |-> IF f \in DOMAIN change THEN change[f] ELSE old[f]]
  IN  [m EXCEPT !.columns = (@ \ {old}) \cup {new}]

CreateViewEffect(b, db, v) ==
  IF b = "Sqlite" /\ v.name \in Names(db.views) THEN db   (* IF NOT EXISTS *)
  ELSE [db EXCEPT !.views = {x \in @ : x.name # v.name}
                            \cup {[v EXCEPT !.materialized = @ /\ b = "Postgres"]}]

TableEffect(b, m, s) ==
  CASE s.op = "add column" -> [m EXCEPT !.columns = @ \cup {Stored(b, s.column)}]
    [] s.op = "drop column" -> DropColumnEffect(b, m, s.name)
    [] s.op = "alter column" -> AlterColumnEffect(m, s.name, s.change)
    [] s.op = "add default" -> AlterColumnEffect(m, s.name, [default |-> s.default])
    [] s.op = "create index" -> [m EXCEPT !.indexes = @ \cup {s.index}]
    [] s.op = "add key" -> [m EXCEPT !.keys = @ \cup {s.key}]
    [] s.op = "drop key" -> [m EXCEPT !.keys = {k \in @ : k.name # s.name}]

Effect(b, db, s) ==
  CASE s.op = "create type" -> [db EXCEPT !.enums = @ \cup {s.enum}]
    [] s.op = "drop type" -> [db EXCEPT !.enums = {e \in @ : e.name # s.name}]
    [] s.op = "add values" -> [db EXCEPT !.enums =
         {IF e.name = s.name THEN [e EXCEPT !.values = @ \cup s.values] ELSE e : e \in @}]
    [] s.op = "create table" -> WithModel(db, [s.model EXCEPT
         !.columns = {Stored(b, c) : c \in @}, !.indexes = Constraints(s.model)])
    [] s.op = "drop table" -> DropTableEffect(b, db, s.table)
    [] s.op = "drop index" -> [db EXCEPT !.models =
         {[m EXCEPT !.indexes = {i \in @ : i.constraint \/ i.name # s.name}] : m \in @}]
    [] s.op = "create view" -> CreateViewEffect(b, db, s.view)
    [] s.op = "drop view" -> [db EXCEPT !.views = {v \in @ : v.name # s.name}]
    [] OTHER -> WithModel(db, TableEffect(b, ModelOf(db, s.table), s))
===========================================================================
