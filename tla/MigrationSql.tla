--------------------------- MODULE MigrationSql ---------------------------
(***************************************************************************)
(* The five SQL generators (prax-migrate, sql.rs): the statements of the   *)
(* up and down scripts for a SchemaDiff, in the order the code emits them. *)
(*                                                                         *)
(* A statement is a record of its kind and what it names; the text, the    *)
(* mapping of types and the warnings are left out.  Where the code goes    *)
(* through a list whose order comes from a hash map and does not matter to *)
(* the outcome, an arbitrary fixed order stands for it; the orders that do *)
(* matter are parameters: creates (CreateOrder) and dropped tables.        *)
(***************************************************************************)
EXTENDS SchemaDiff, SequencesExt

Backends == {"Postgres", "MySql", "Sqlite", "Mssql", "DuckDb"}

(* One statement F(x) for each x. *)
Each(S, F(_)) == [i \in 1..Cardinality(S) |-> F(SetToSeq(S)[i])]

OptionalStatement(emitted, s) == IF emitted THEN <<s>> ELSE <<>>

CreateType(e) == [op |-> "create type", enum |-> e]
DropType(n) == [op |-> "drop type", name |-> n]
AddValues(a) == [op |-> "add values", name |-> a.name, values |-> a.addValues]
CreateTable(m) == [op |-> "create table", model |-> m]
DropTable(t) == [op |-> "drop table", table |-> t]
CreateIndex(x) == [op |-> "create index", table |-> x.table, index |-> x.index]
DropIndex(t, n) == [op |-> "drop index", table |-> t, name |-> n]
CreateView(v) == [op |-> "create view", view |-> v]
DropView(n, m) == [op |-> "drop view", name |-> n, materialized |-> m]

AddColumns(a) == LET F(c) == [op |-> "add column", table |-> a.table, column |-> c] IN Each(a.addFields, F)
DropColumns(a) == LET F(n) == [op |-> "drop column", table |-> a.table, name |-> n] IN Each(a.dropFields, F)
AddKeys(a) == LET F(k) == [op |-> "add key", table |-> a.table, key |-> k] IN Each(a.addKeys, F)
DropKeys(a) == LET F(n) == [op |-> "drop key", table |-> a.table, name |-> n] IN Each(a.dropKeys, F)
AddIndexes(a) == LET F(i) == CreateIndex([table |-> a.table, index |-> i]) IN Each(a.addIndexes, F)
DropIndexes(a) == LET F(n) == DropIndex(a.table, n) IN Each(a.dropIndexes, F)

(* A change of some properties of a column: a function from those named.   *)
Change(t, f, what) == [op |-> "alter column", table |-> t, name |-> f.name, change |-> what]

---------------------------------------------------------------------------
(* Changed columns *)

(* Postgres and DuckDB: a statement for each property that changed; a      *)
(* default that is gone is not mentioned.                                  *)
AlterColumn(t, f) ==
  OptionalStatement(f.newType # Absent, Change(t, f, [type |-> f.newType]))
  \o OptionalStatement(f.newNullable # Absent, Change(t, f, [nullable |-> f.newNullable]))
  \o OptionalStatement(f.newDefault # Absent, Change(t, f, [default |-> f.newDefault]))

(* The nullability a full redefinition repeats. *)
Nullability(f) == IF f.newNullable # Absent THEN f.newNullable ELSE f.oldNullable

(* Mutant of MySqlAlterColumn: the old nullability is not repeated. *)
MySqlAlterForgetsNullability(t, f) ==
  OptionalStatement(f.newType # Absent,
    Change(t, f, [type |-> f.newType, nullable |-> f.newNullable # FALSE, default |-> f.newDefault]))

(* MySQL: one MODIFY COLUMN that redefines the column, nothing when the    *)
(* type is not known because it did not change.  A default that is not in  *)
(* it is gone.                                                             *)
MySqlAlterColumn(t, f) ==
  OptionalStatement(f.newType # Absent,
    Change(t, f, [type |-> f.newType, nullable |-> Nullability(f), default |-> f.newDefault]))

(* SQL Server: type and nullability in one, only when the type is known; a *)
(* default is a constraint of its own.                                     *)
MssqlAlterColumn(t, f) ==
  OptionalStatement(f.newType # Absent, Change(t, f, [type |-> f.newType, nullable |-> Nullability(f)]))
  \o OptionalStatement(f.newDefault # Absent,
       [op |-> "add default", table |-> t, name |-> f.name, default |-> f.newDefault])

ColumnAlters(b, a) ==
  LET F(f) == CASE b = "MySql" -> MySqlAlterColumn(a.table, f)
                [] b = "Mssql" -> MssqlAlterColumn(a.table, f)
                [] OTHER -> AlterColumn(a.table, f)
  IN  FlattenSeq(Each(a.alterFields, F))

---------------------------------------------------------------------------
(* alter_table *)

(* Postgres and DuckDB. *)
AlterTable(b, a) ==
  AddColumns(a) \o DropColumns(a) \o ColumnAlters(b, a) \o AddIndexes(a) \o DropIndexes(a)
  \o DropKeys(a) \o AddKeys(a)

(* MySQL and SQL Server: indexes are not touched. *)
AlterTableWithoutIndexes(b, a) ==
  AddColumns(a) \o DropColumns(a) \o ColumnAlters(b, a) \o DropKeys(a) \o AddKeys(a)

(* SQLite: the rest would need the table to be rebuilt. *)
SqliteAlterTable(a) == AddColumns(a) \o DropColumns(a)

Alters(b, d) ==
  LET F(a) == CASE b = "Sqlite" -> SqliteAlterTable(a)
                [] b \in {"MySql", "Mssql"} -> AlterTableWithoutIndexes(b, a)
                [] OTHER -> AlterTable(b, a)
  IN  FlattenSeq(Each(d.alterModels, F))

---------------------------------------------------------------------------
(* generate *)

CreateTables(creates) == [i \in 1..Len(creates) |-> CreateTable(creates[i])]
DropTables(drops) == [i \in 1..Len(drops) |-> DropTable(drops[i])]
(* Mutant of DropCreated: in the order of creation. *)
DropCreatedForwards(creates) == [i \in 1..Len(creates) |-> DropTable(creates[i].table)]

(* "in reverse order so dependent tables drop first" *)
DropCreated(creates) ==
  [i \in 1..Len(creates) |-> DropTable(creates[Len(creates) + 1 - i].table)]

CreateIndexes(d) == Each(d.createIndexes, CreateIndex)
DropCreatedIndexes(d) == LET F(x) == DropIndex(x.table, x.index.name) IN Each(d.createIndexes, F)

CreateViews(d) == Each(d.createViews, CreateView)
DropCreatedViews(d) == LET F(v) == DropView(v.name, v.materialized) IN Each(d.createViews, F)

(* What kind a dropped view is of is not known: it is taken for a plain    *)
(* one.  A changed one is dropped as what it will be.                      *)
ChangeViews(d) ==
  LET Drop(n) == DropView(n, FALSE)
      Recreate(v) == <<DropView(v.name, v.materialized), CreateView(v)>>
  IN  Each(d.dropViews, Drop) \o FlattenSeq(Each(d.alterViews, Recreate))

EnumsUp(d) == Each(d.createEnums, CreateType) \o Each(d.dropEnums, DropType) \o Each(d.alterEnums, AddValues)
EnumsDown(d) == LET F(e) == DropType(e.name) IN Each(d.createEnums, F)

(* Everything but the enums, the same for all five. *)
TablesUp(b, d, creates, drops) ==
  CreateTables(creates) \o DropTables(drops) \o Alters(b, d) \o CreateIndexes(d)
  \o CreateViews(d) \o ChangeViews(d)

TablesDown(d, creates) == DropCreated(creates) \o DropCreatedIndexes(d) \o DropCreatedViews(d)

(* Mutant of PostgresUp: types come after the tables that use them. *)
PostgresUpTypesLast(d, creates, drops) == TablesUp("Postgres", d, creates, drops) \o EnumsUp(d)

(* Postgres: types, tables, the rest; and back from the types on. *)
PostgresUp(d, creates, drops) == EnumsUp(d) \o TablesUp("Postgres", d, creates, drops)
PostgresDown(d, creates) == EnumsDown(d) \o TablesDown(d, creates)

MySqlUp(d, creates, drops) == TablesUp("MySql", d, creates, drops)
SqliteUp(d, creates, drops) == TablesUp("Sqlite", d, creates, drops)
MssqlUp(d, creates, drops) == TablesUp("Mssql", d, creates, drops)

(* DuckDB turns its whole down script around, the list of dropped tables   *)
(* included.                                                               *)
DuckDbUp(d, creates, drops) == EnumsUp(d) \o TablesUp("DuckDb", d, creates, drops)
DuckDbDown(d, creates) == Reverse(EnumsDown(d) \o TablesDown(d, creates))

Up(b, d, creates, drops) ==
  CASE b = "Postgres" -> PostgresUp(d, creates, drops)
    [] b = "MySql" -> MySqlUp(d, creates, drops)
    [] b = "Sqlite" -> SqliteUp(d, creates, drops)
    [] b = "Mssql" -> MssqlUp(d, creates, drops)
    [] b = "DuckDb" -> DuckDbUp(d, creates, drops)

Down(b, d, creates) ==
  CASE b = "Postgres" -> PostgresDown(d, creates)
    [] b = "DuckDb" -> DuckDbDown(d, creates)
    [] OTHER -> TablesDown(d, creates)
===========================================================================
