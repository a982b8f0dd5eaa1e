---------------------------- MODULE SchemaDiff ----------------------------
(***************************************************************************)
(* SchemaDiffer (prax-migrate, diff.rs): what has to change to take a      *)
(* source schema to a target.                                              *)
(*                                                                         *)
(* A schema is a record of models, enums and views.  Models are known by   *)
(* their table and fields by their column, as in the code, which resolves  *)
(* @@map and @map first; enums and views by their name.                    *)
(*                                                                         *)
(*   model:  table, columns, keys (foreign keys), indexes                  *)
(*   column: name, type, enum (Absent, or the enum it is of; its type is   *)
(*           then TEXT for the differ), nullable, default (Absent or one)  *)
(*   key:    name, column, table (the one referred to)                     *)
(*   index:  name, columns, unique, constraint (a catalog's: it belongs to *)
(*           a UNIQUE constraint; FALSE in a schema)                       *)
(*   enum:   name, values                                                  *)
(*   view:   name, reads (a table), sql, materialized                      *)
(*                                                                         *)
(* Primary keys, generated and vector columns, extensions and procedures   *)
(* are left out, and so are the lists the differ never fills               *)
(* (drop_indexes, create_extensions, drop_extensions of a SchemaDiff).     *)
(***************************************************************************)
EXTENDS Naturals, Sequences, FiniteSets

CONSTANT Absent   (* None *)

EmptySchema == [models |-> {}, enums |-> {}, views |-> {}]

Names(S) == {x.name : x \in S}
Named(S, n) == CHOOSE x \in S : x.name = n

Tables(s) == {m.table : m \in s.models}
ModelOf(s, t) == CHOOSE m \in s.models : m.table = t

---------------------------------------------------------------------------
(* diff_fields: only what changed is carried, but for the old nullability. *)
FieldChanged(a, b) == \/ a.type # b.type
                      \/ a.nullable # b.nullable
                      \/ a.default # b.default

Changed(old, new) == IF old = new THEN Absent ELSE new

FieldAlter(a, b) ==
  [name |-> b.name,
   newType |-> Changed(a.type, b.type),
   oldNullable |-> a.nullable,
   newNullable |-> Changed(a.nullable, b.nullable),
   newDefault |-> Changed(a.default, b.default)]

(* Indexes are the same when their columns and uniqueness are, whatever    *)
(* their names.  (The code also compares what is then equal anyway.)       *)
Shape(i) == <<i.unique, i.columns>>
Shapes(S) == {Shape(i) : i \in S}

(* One index for each shape. *)
OnePerShape(S) == {i \in S : i = CHOOSE j \in S : Shape(j) = Shape(i)}

(* diff_models.  Foreign keys are the same when their names are. *)
ModelAlter(a, b) ==
  [table |-> b.table,
   addFields |-> {c \in b.columns : c.name \notin Names(a.columns)},
   dropFields |-> Names(a.columns) \ Names(b.columns),
   alterFields |-> {FieldAlter(Named(a.columns, c.name), c) : c \in
     {c \in b.columns : /\ c.name \in Names(a.columns)
                        /\ FieldChanged(Named(a.columns, c.name), c)}},
   addIndexes |-> {i \in OnePerShape(b.indexes) : Shape(i) \notin Shapes(a.indexes)},
   dropIndexes |-> Names({i \in OnePerShape(a.indexes) : Shape(i) \notin Shapes(b.indexes)}),
   addKeys |-> {k \in b.keys : k.name \notin Names(a.keys)},
   dropKeys |-> Names(a.keys) \ Names(b.keys)]

Parts == {"addFields", "dropFields", "alterFields", "addIndexes", "dropIndexes", "addKeys", "dropKeys"}
IsNoChange(alter) == \A p \in Parts : alter[p] = {}

EnumAlter(a, b) ==
  [name |-> b.name, addValues |-> b.values \ a.values, removeValues |-> a.values \ b.values]

(* SchemaDiffer::diff; no source is an empty one. *)
Diff(source, target) ==
  LET created == {m \in target.models : m.table \notin Tables(source)}
      kept == {m \in target.models : m.table \in Tables(source)}
      both == {e \in target.enums : e.name \in Names(source.enums)}
  IN  [createModels |-> created,
       dropModels |-> Tables(source) \ Tables(target),
       alterModels |-> {a \in {ModelAlter(ModelOf(source, m.table), m) : m \in kept} : ~IsNoChange(a)},
       createEnums |-> {e \in target.enums : e.name \notin Names(source.enums)},
       dropEnums |-> Names(source.enums) \ Names(target.enums),
       alterEnums |-> {EnumAlter(Named(source.enums, e.name), e) : e \in
         {e \in both : e.values # Named(source.enums, e.name).values}},
       createViews |-> {v \in target.views : v.name \notin Names(source.views)},
       dropViews |-> Names(source.views) \ Names(target.views),
       alterViews |-> {v \in target.views : v.name \in Names(source.views) /\ v \notin source.views},
       (* model_to_diff: @@unique becomes a constraint of the new table,   *)
       (* @@index a statement of its own.                                  *)
       createIndexes |-> UNION {{[table |-> m.table, index |-> i] : i \in {j \in m.indexes : ~j.unique}}
                                 : m \in created}]

(* Mutant of StripDestructive: dropped columns stay. *)
StripKeepsColumnDrops(d) ==
  [d EXCEPT !.dropModels = {}, !.dropEnums = {}, !.dropViews = {},
            !.alterModels = {[a EXCEPT !.dropIndexes = {}, !.dropKeys = {}] : a \in @}]

(* strip_destructive (prax-cli, migrate.rs): no drops in additive mode. *)
StripDestructive(d) ==
  [d EXCEPT !.dropModels = {}, !.dropEnums = {}, !.dropViews = {},
            !.alterModels = {a \in {[b EXCEPT !.dropFields = {}, !.dropIndexes = {}, !.dropKeys = {}]
                                     : b \in @} : ~IsNoChange(a)},
            !.alterEnums = {a \in {[b EXCEPT !.removeValues = {}] : b \in @} : a.addValues # {}}]

---------------------------------------------------------------------------
(* The schema `migrate dev` makes of an introspected database.             *)

(* A unique index or constraint on one column becomes @unique on the field,*)
(* which the differ does not look at; the others keep name and columns.    *)
IntrospectIndexes(S) ==
  {[i EXCEPT !.constraint = FALSE] : i \in {j \in S : ~(j.unique /\ Len(j.columns) = 1)}}

(* Columns of an enum the database does not have as a type are plain ones. *)
(* Views are not carried over.                                             *)
Introspect(db) ==
  [models |-> {[m EXCEPT !.indexes = IntrospectIndexes(@)] : m \in db.models},
   enums |-> db.enums,
   views |-> {}]
===========================================================================
