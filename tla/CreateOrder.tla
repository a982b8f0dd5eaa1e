---------------------------- MODULE CreateOrder ----------------------------
(***************************************************************************)
(* SchemaDiff::ordered_create_models (prax-migrate, diff.rs): the order in *)
(* which the tables of a migration are created, Kahn's algorithm over the  *)
(* foreign keys between them.                                              *)
(*                                                                         *)
(* create_models is filled from a hash map, so its order means nothing:    *)
(* here it is a set, and wherever the code goes through it, the tables     *)
(* come in any order.  The test of `emitted` in the loop, which skips a    *)
(* table taken from the queue a second time, is left out: no table is      *)
(* there twice (EachTableOnce).                                            *)
(***************************************************************************)
EXTENDS Naturals, Sequences, FiniteSets

CONSTANT Table   (* names of tables *)

ASSUME TableAssumption == IsFiniteSet(Table)

VARIABLES
  batch,      (* the tables of create_models                               *)
  refs,       (* tables the foreign keys of each refer to                  *)
  indegree,   (* tables of the batch each one still waits for              *)
  ready,      (* queue of tables that wait for none                        *)
  ordered     (* the result so far                                         *)

orderVars == <<batch, refs, indegree, ready, ordered>>

Elements(s) == {s[i] : i \in 1..Len(s)}

(* The sequences that hold every element of S once. *)
Listings(S) ==
  {s \in [1..Cardinality(S) -> S] : \A i, j \in DOMAIN s : s[i] = s[j] => i = j}

(* Tables of b that m refers to, without itself. *)
Parents(b, r, m) == (r[m] \cap b) \ {m}

Degree(b, r, m) == Cardinality(Parents(b, r, m))

(* The degrees are counted and the tables without references start. *)
StartOrdering(b, r) ==
  /\ batch' = b
  /\ refs' = r
  /\ indegree' = [m \in b |-> Degree(b, r, m)]
  /\ \E s \in Listings({m \in b : Degree(b, r, m) = 0}) : ready' = s
  /\ ordered' = <<>>

OrderInit ==
  /\ batch \in SUBSET Table
  /\ refs \in [batch -> SUBSET Table]
  /\ indegree = [m \in batch |-> Degree(batch, refs, m)]
  /\ ready \in Listings({m \in batch : Degree(batch, refs, m) = 0})
  /\ ordered = <<>>

Children(m) == {c \in batch : m \in Parents(batch, refs, c)}

(* Mutant of Released: a table is released with its first reference. *)
ReleasedEarly(m) == {c \in Children(m) : indegree[c] > 0}

(* Children of m that wait for nothing else. *)
Released(m) == {c \in Children(m) : indegree[c] = 1}

(* The loop: the head of the queue is emitted and its children counted     *)
(* down; those that reach zero join the queue.                             *)
Emit ==
  /\ ready # <<>>
  /\ LET m == Head(ready)
     IN  /\ ordered' = Append(ordered, m)
         /\ indegree' = [c \in batch |->
              IF c \in Children(m) /\ indegree[c] > 0 THEN indegree[c] - 1 ELSE indegree[c]]
         /\ \E s \in Listings(Released(m)) : ready' = Tail(ready) \o s
  /\ UNCHANGED <<batch, refs>>

(* Mutant of Rest: the fallback forgets what was emitted. *)
RestIsBatch == batch

Rest == batch \ Elements(ordered)

(* Tables on or behind a cycle are never released and are added as they    *)
(* come.                                                                   *)
EmitRest ==
  /\ ready = <<>>
  /\ Rest # {}
  /\ \E s \in Listings(Rest) : ordered' = ordered \o s
  /\ UNCHANGED <<batch, refs, indegree, ready>>

Ordering == Emit \/ EmitRest

Finished == ready = <<>> /\ Rest = {}

OrderSpec == OrderInit /\ [][Ordering]_orderVars

---------------------------------------------------------------------------
(* Properties *)

(* m cannot be placed after all the tables it refers to: it is one of a    *)
(* set in which each table refers to another of the set.                   *)
OnOrBehindCycle(m) ==
  \E S \in SUBSET batch : m \in S /\ \A c \in S : Parents(batch, refs, c) \cap S # {}

(* "referenced tables appear before the tables that reference them"        *)
(* (diff.rs:106): whatever the foreign keys and whatever the order of the  *)
(* hash map, a table comes before one it refers to only if a cycle leaves  *)
(* no choice.                                                              *)
ReferencedComeFirst ==
  \A i \in 1..Len(ordered) : \A p \in Parents(batch, refs, ordered[i]) :
    \/ \E j \in 1..(i - 1) : ordered[j] = p
    \/ OnOrBehindCycle(ordered[i])

(* No table is emitted or queued twice, and when the loop and the fallback *)
(* are over none is missing: every model of the diff gets its CREATE TABLE *)
(* exactly once, cycles included.                                          *)
EachTableOnce ==
  /\ \A i, j \in 1..Len(ordered \o ready) :
       (ordered \o ready)[i] = (ordered \o ready)[j] => i = j
  /\ Elements(ordered \o ready) \subseteq batch
  /\ Finished => Elements(ordered) = batch
===========================================================================
