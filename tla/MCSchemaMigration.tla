------------------------- MODULE MCSchemaMigration -------------------------
(* Instances of SchemaMigration for TLC: families of edits, each about one *)
(* kind of change, over small schemas.                                     *)
EXTENDS SchemaMigration

Column(n) == [name |-> n, type |-> "int", enum |-> Absent, nullable |-> TRUE, default |-> Absent]
Model(t, columns, keys, indexes) == [table |-> t, columns |-> columns, keys |-> keys, indexes |-> indexes]
Key(t, r) == [name |-> <<t, r>>, column |-> "ref", table |-> r]
Index(n, columns, unique) == [name |-> n, columns |-> columns, unique |-> unique, constraint |-> FALSE]

Schema(models) == [EmptySchema EXCEPT !.models = models]
Pairs(S) == {[from |-> a, to |-> b] : a, b \in S}

---------------------------------------------------------------------------
(* Tables that refer to each other in every way, all of them new. *)
Graph(tables, r) == Schema({Model(t, {Column("id"), Column("ref")}, {Key(t, p) : p \in r[t]}, {}) : t \in tables})
Graphs(tables) == {Graph(tables, r) : r \in [tables -> SUBSET tables]}
NewGraphs == {[from |-> EmptySchema, to |-> g] : g \in {Graph(Table, r) : r \in {r \in [Table -> SUBSET Table] :
                \A t \in Table \ {"A"} : t \notin r[t]}}}

(* Two tables, with and without each other. *)
SmallGraphs == UNION {Graphs(S) : S \in SUBSET {"A", "B"}}
GraphChanges == Pairs(SmallGraphs)

(* A foreign key and its column come and go. *)
WithoutRef == Schema({Model("A", {Column("id")}, {}, {}), Model("B", {Column("id"), Column("ref")}, {}, {})})
KeyChanges == Pairs({WithoutRef, Graph({"A", "B"}, [t \in {"A", "B"} |-> IF t = "A" THEN {"B"} ELSE {}])})

(* One column with its type, nullability and default. *)
OneTable(columns, indexes) == Schema({Model("A", {Column("id")} \cup columns, {}, indexes)})
XColumns == {[name |-> "x", type |-> t, enum |-> Absent, nullable |-> n, default |-> d] :
               t \in {"int", "text"}, n \in BOOLEAN, d \in {Absent, "d"}}
ColumnChanges == Pairs({OneTable({}, {})} \cup {OneTable({c}, {}) : c \in XColumns})

(* Indexes of one or two columns, plain or unique. *)
SomeIndexes == {Index("ix", <<"x">>, FALSE), Index("ux", <<"x">>, TRUE), Index("uxy", <<"x", "id">>, TRUE)}
IndexChanges == Pairs({EmptySchema} \cup {OneTable({Column("x")}, S) : S \in SUBSET SomeIndexes})

(* An enum and a column of it. *)
EnumColumn == [Column("x") EXCEPT !.type = "text", !.enum = "E"]
TextColumn == [Column("x") EXCEPT !.type = "text"]
WithEnum(s, values) == [s EXCEPT !.enums = {[name |-> "E", values |-> values]}]
EnumChanges ==
  Pairs({EmptySchema, OneTable({}, {}), OneTable({TextColumn}, {})}
        \cup {WithEnum(OneTable(c, {}), v) : c \in {{}, {EnumColumn}}, v \in {{"a"}, {"b"}, {"a", "b"}}})

(* A view, plain or materialized. *)
View(q, m) == [name |-> "V", reads |-> "A", sql |-> q, materialized |-> m]
ViewChanges ==
  Pairs({EmptySchema} \cup {[s EXCEPT !.views = v] :
    s \in {OneTable({}, {}), OneTable({Column("x")}, {})},
    v \in {{}, {View("q", FALSE)}, {View("r", FALSE)}, {View("q", TRUE)}}})

MCTable == {"A", "B", "C"}
MCEdits == NewGraphs \cup GraphChanges \cup KeyChanges \cup ColumnChanges \cup IndexChanges
           \cup EnumChanges \cup ViewChanges
===========================================================================
