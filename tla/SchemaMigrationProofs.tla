----------------------- MODULE SchemaMigrationProofs -----------------------
(***************************************************************************)
(* ordered_create_models is right for any number of tables and any foreign *)
(* keys between them: no table is placed twice or left out, and one comes  *)
(* before a table it refers to only on or behind a cycle.                  *)
(*                                                                         *)
(* The invariant is the one of Kahn's algorithm: until the fallback has    *)
(* run, the degree of a table is the number of its references not yet      *)
(* placed, and the tables of degree zero are those queued or placed.  So   *)
(* the head of the queue has all its references in front of it, and with   *)
(* an empty queue each remaining table refers to another remaining one.    *)
(*                                                                         *)
(* A migration without --allow-destructive loses nothing, for any schemas: *)
(* the differ's lists are finite and, once stripped, drop nothing; so the  *)
(* script holds only statements that add, and each of them leaves the      *)
(* catalog a schema that has all it had before.                            *)
(*                                                                         *)
(* A migration that only creates runs through: at each point of its script *)
(* what is still to be created is not there, and what a statement needs is *)
(* there or made by one before it, for tables by the order just proved.    *)
(* What is new is new to the catalog because the differ compared with it,  *)
(* and for indexes, which it does not compare by name, because each index  *)
(* of the catalog has a name its table has in one of the two schemas.      *)
(*                                                                         *)
(* Its down script, where it is in the right order, takes the database     *)
(* back to what it was.  What is there is what was there before and some   *)
(* of what was created, and the script still names each thing created; it  *)
(* is never refused: a table, type or view that was there before refers to *)
(* nothing created since, and, on MySQL and SQL Server, a table created    *)
(* since is dropped after the ones created since that refer to it.         *)
(*                                                                         *)
(* And it reaches the edited schema: the difference stays the one of what  *)
(* was compared, all of it is there or still to come in the script, and    *)
(* what the differ left alone it found equal.                              *)
(***************************************************************************)
EXTENDS SchemaMigration, FiniteSetTheorems, SequenceTheorems, WellFoundedInduction, TLAPS

NoDuplicates(s) == \A i, j \in 1..Len(s) : s[i] = s[j] => i = j

OrderTypeOK ==
  /\ batch \in SUBSET Table
  /\ refs \in [batch -> SUBSET Table]
  /\ indegree \in [batch -> Nat]
  /\ ready \in Seq(batch)
  /\ ordered \in Seq(batch)

Waits(m) == Parents(batch, refs, m) \ Elements(ordered)

Counted ==
  \A m \in batch : /\ indegree[m] = Cardinality(Waits(m))
                   /\ indegree[m] = 0 <=> m \in Elements(ordered \o ready)

OrderInv ==
  /\ OrderTypeOK
  /\ NoDuplicates(ordered \o ready)
  /\ Counted \/ Finished
  /\ ReferencedComeFirst

---------------------------------------------------------------------------
(* Sequences *)

(* The elements of two sequences one after the other. *)
LEMMA ElementsOfConcat ==
  ASSUME NEW S, NEW s \in Seq(S), NEW t \in Seq(S)
  PROVE  Elements(s \o t) = Elements(s) \cup Elements(t)
<1>1. /\ Len(s) \in Nat /\ Len(t) \in Nat
      /\ Len(s \o t) = Len(s) + Len(t)
      /\ \A k \in 1..Len(s) + Len(t) : (s \o t)[k] = IF k <= Len(s) THEN s[k] ELSE t[k - Len(s)]
  BY ConcatProperties, LenProperties
<1>2. ASSUME NEW x \in Elements(s \o t) PROVE x \in Elements(s) \cup Elements(t)
  <2>1. PICK k \in 1..Len(s) + Len(t) : x = (s \o t)[k]
    BY <1>1, <1>2 DEF Elements
  <2>2. k <= Len(s) => k \in 1..Len(s)
    BY <1>1
  <2>3. ~(k <= Len(s)) => k - Len(s) \in 1..Len(t)
    BY <1>1
  <2>4. QED
    BY <1>1, <2>1, <2>2, <2>3 DEF Elements
<1>3. ASSUME NEW x \in Elements(s) PROVE x \in Elements(s \o t)
  <2>1. PICK k \in 1..Len(s) : x = s[k]
    BY <1>3 DEF Elements
  <2>2. k \in 1..Len(s) + Len(t) /\ k <= Len(s)
    BY <1>1
  <2>3. QED
    BY <1>1, <2>1, <2>2 DEF Elements
<1>4. ASSUME NEW x \in Elements(t) PROVE x \in Elements(s \o t)
  <2>1. PICK k \in 1..Len(t) : x = t[k]
    BY <1>4 DEF Elements
  <2>2. Len(s) + k \in 1..Len(s) + Len(t) /\ ~(Len(s) + k <= Len(s)) /\ Len(s) + k - Len(s) = k
    BY <1>1
  <2>3. QED
    BY <1>1, <2>1, <2>2 DEF Elements
<1>5. QED
  BY <1>2, <1>3, <1>4

(* Two sequences without a common element hold none twice. *)
LEMMA NoDuplicatesInConcat ==
  ASSUME NEW S, NEW s \in Seq(S), NEW t \in Seq(S),
         NoDuplicates(s), NoDuplicates(t), Elements(s) \cap Elements(t) = {}
  PROVE  NoDuplicates(s \o t)
<1>1. /\ Len(s) \in Nat /\ Len(t) \in Nat
      /\ Len(s \o t) = Len(s) + Len(t)
      /\ \A k \in 1..Len(s) + Len(t) : (s \o t)[k] = IF k <= Len(s) THEN s[k] ELSE t[k - Len(s)]
  BY ConcatProperties, LenProperties
<1>2. SUFFICES ASSUME NEW i \in 1..Len(s) + Len(t), NEW j \in 1..Len(s) + Len(t),
                      (s \o t)[i] = (s \o t)[j]
               PROVE  i = j
  BY <1>1, Zenon DEF NoDuplicates
<1>3. ASSUME NEW a \in 1..Len(s), NEW b \in 1..Len(t) PROVE s[a] # t[b]
  BY DEF Elements
<1>4. CASE i <= Len(s) /\ j <= Len(s)
  <2>1. i \in 1..Len(s) /\ j \in 1..Len(s) /\ s[i] = s[j]
    BY <1>1, <1>2, <1>4
  <2>2. QED
    BY <2>1 DEF NoDuplicates
<1>5. CASE ~(i <= Len(s)) /\ ~(j <= Len(s))
  <2>1. i - Len(s) \in 1..Len(t) /\ j - Len(s) \in 1..Len(t)
    BY <1>1, <1>5
  <2>2. t[i - Len(s)] = t[j - Len(s)]
    BY <1>1, <1>2, <1>5
  <2>3. i - Len(s) = j - Len(s)
    BY <2>1, <2>2 DEF NoDuplicates
  <2>4. QED
    BY <1>1, <2>3
<1>6. CASE i <= Len(s) /\ ~(j <= Len(s))
  <2>1. i \in 1..Len(s) /\ j - Len(s) \in 1..Len(t)
    BY <1>1, <1>6
  <2>2. s[i] = t[j - Len(s)]
    BY <1>1, <1>2, <1>6
  <2>3. QED
    BY <1>3, <2>1, <2>2
<1>7. CASE ~(i <= Len(s)) /\ j <= Len(s)
  <2>1. j \in 1..Len(s) /\ i - Len(s) \in 1..Len(t)
    BY <1>1, <1>7
  <2>2. s[j] = t[i - Len(s)]
    BY <1>1, <1>2, <1>7
  <2>3. QED
    BY <1>3, <2>1, <2>2
<1>8. QED
  BY <1>4, <1>5, <1>6, <1>7

(* A listing of a finite set has all its elements, once. *)
LEMMA ListingProperties ==
  ASSUME NEW S, IsFiniteSet(S), NEW s \in Listings(S)
  PROVE  /\ s \in Seq(S)
         /\ Elements(s) = S
         /\ NoDuplicates(s)
<1> DEFINE n == Cardinality(S)
<1>1. n \in Nat
  BY FS_CardinalityType
<1>2. s \in [1..n -> S] /\ \A i, j \in DOMAIN s : s[i] = s[j] => i = j
  BY DEF Listings
<1>3. s \in Seq(S) /\ Len(s) = n
  <2>1. s \in Seq(S)
    BY <1>1, <1>2, SeqDef
  <2>2. Len(s) \in Nat /\ DOMAIN s = 1..Len(s)
    BY <2>1, LenProperties
  <2>3. QED
    BY <1>1, <1>2, <2>1, <2>2
<1>4. s \in Injection(1..n, S)
  BY <1>2 DEF Injection, IsInjective
<1>5. Cardinality(1..n) = n
  BY <1>1, FS_Interval
<1>6. s \in Surjection(1..n, S)
  BY <1>4, <1>5, FS_Injection
<1>7. \A x \in S : \E i \in 1..n : s[i] = x
  BY <1>6 DEF Surjection
<1>8. QED
  BY <1>2, <1>3, <1>7 DEF Elements, NoDuplicates

---------------------------------------------------------------------------
(* Facts about the graph *)

(* Parents, children and degrees. *)
LEMMA GraphFacts ==
  ASSUME OrderTypeOK
  PROVE  /\ IsFiniteSet(batch)
         /\ \A m \in batch : /\ Parents(batch, refs, m) \subseteq batch
                             /\ IsFiniteSet(Parents(batch, refs, m))
                             /\ IsFiniteSet(Waits(m))
                             /\ Cardinality(Waits(m)) \in Nat
                             /\ Cardinality(Waits(m)) = 0 <=> Waits(m) = {}
<1>1. IsFiniteSet(batch)
  BY TableAssumption, FS_Subset DEF OrderTypeOK
<1>2. ASSUME NEW m \in batch
      PROVE  Parents(batch, refs, m) \in SUBSET batch /\ Waits(m) \in SUBSET batch
  BY DEF Parents, Waits
<1>3. QED
  BY <1>1, <1>2, FS_Subset, FS_CardinalityType, FS_EmptySet

(* The result so far only grows at its end. *)
LEMMA FirstRemainFirst ==
  ASSUME OrderTypeOK, ReferencedComeFirst, NEW t \in Seq(batch),
         batch' = batch, refs' = refs, ordered' = ordered \o t,
         \A k \in 1..Len(t) : \/ Waits(t[k]) = {}
                              \/ OnOrBehindCycle(t[k])
  PROVE  ReferencedComeFirst'
<1>1. /\ Len(ordered) \in Nat /\ Len(t) \in Nat
      /\ Len(ordered') = Len(ordered) + Len(t)
      /\ \A k \in 1..Len(ordered) + Len(t) :
           ordered'[k] = IF k <= Len(ordered) THEN ordered[k] ELSE t[k - Len(ordered)]
  BY ConcatProperties, LenProperties DEF OrderTypeOK
<1>2. \A m : OnOrBehindCycle(m)' <=> OnOrBehindCycle(m)
  BY DEF OnOrBehindCycle
<1>3. SUFFICES ASSUME NEW i \in 1..Len(ordered) + Len(t),
                      NEW p \in Parents(batch, refs, ordered'[i]),
                      ~OnOrBehindCycle(ordered'[i])
               PROVE  \E j \in 1..(i - 1) : ordered'[j] = p
  BY <1>1, <1>2, ZenonT(60) DEF ReferencedComeFirst
<1>4. CASE i <= Len(ordered)
  <2>1. i \in 1..Len(ordered) /\ ordered'[i] = ordered[i]
    BY <1>1, <1>4
  <2>2. PICK j \in 1..(i - 1) : ordered[j] = p
    BY <1>3, <2>1 DEF ReferencedComeFirst
  <2>3. j \in 1..Len(ordered) + Len(t) /\ j <= Len(ordered)
    BY <1>1, <1>4
  <2>4. QED
    BY <1>1, <2>2, <2>3
<1>5. CASE ~(i <= Len(ordered))
  <2>1. i - Len(ordered) \in 1..Len(t) /\ ordered'[i] = t[i - Len(ordered)]
    BY <1>1, <1>5
  <2>2. Waits(ordered'[i]) = {}
    BY <1>3, <2>1
  <2>3. PICK j \in 1..Len(ordered) : ordered[j] = p
    BY <1>3, <2>2 DEF Waits, Elements
  <2>4. j \in 1..(i - 1) /\ j \in 1..Len(ordered) + Len(t) /\ j <= Len(ordered)
    BY <1>1, <1>5
  <2>5. QED
    BY <1>1, <2>3, <2>4
<1>6. QED
  BY <1>4, <1>5

---------------------------------------------------------------------------
(* The loop *)

(* What the head of the queue is: placed nowhere yet, and waiting for      *)
(* nothing.                                                                *)
LEMMA HeadFacts ==
  ASSUME OrderInv, Counted, ready # <<>>
  PROVE  /\ Head(ready) \in batch
         /\ Head(ready) \notin Elements(ordered)
         /\ indegree[Head(ready)] = 0
         /\ Waits(Head(ready)) = {}
<1> DEFINE m == Head(ready)
           n == Len(ordered)
<1>1. /\ ordered \in Seq(batch) /\ ready \in Seq(batch)
      /\ n \in Nat /\ Len(ready) \in Nat /\ Len(ready) # 0 /\ m = ready[1] /\ m \in batch
  BY LenProperties, HeadTailProperties, EmptySeq DEF OrderInv, OrderTypeOK
<1>2. /\ Len(ordered \o ready) = n + Len(ready)
      /\ \A k \in 1..n + Len(ready) :
           (ordered \o ready)[k] = IF k <= n THEN ordered[k] ELSE ready[k - n]
  BY <1>1, ConcatProperties
<1>3. n + 1 \in 1..n + Len(ready) /\ (ordered \o ready)[n + 1] = m
  BY <1>1, <1>2
<1>4. m \in Elements(ordered \o ready)
  BY <1>2, <1>3 DEF Elements
<1>5. m \notin Elements(ordered)
  <2>1. SUFFICES ASSUME NEW k \in 1..n, ordered[k] = m PROVE FALSE
    BY DEF Elements
  <2>2. k \in 1..n + Len(ready) /\ (ordered \o ready)[k] = m /\ k # n + 1
    BY <1>1, <1>2, <2>1
  <2>3. QED
    BY <1>2, <1>3, <2>2 DEF OrderInv, NoDuplicates
<1>6. QED
  BY <1>1, <1>4, <1>5, GraphFacts DEF Counted, OrderInv

(* The loop takes the head of the queue. *)
LEMMA EmitPreserves == OrderInv /\ Counted /\ Emit => OrderInv'
<1> SUFFICES ASSUME OrderInv, Counted, Emit PROVE OrderInv'
  OBVIOUS
<1> DEFINE m == Head(ready)
           q == ordered \o ready
<1>1. PICK s \in Listings(Released(m)) : ready' = Tail(ready) \o s
  BY DEF Emit
<1>2. /\ ready # <<>> /\ batch' = batch /\ refs' = refs
      /\ ordered' = Append(ordered, m)
      /\ indegree' = [c \in batch |->
           IF c \in Children(m) /\ indegree[c] > 0 THEN indegree[c] - 1 ELSE indegree[c]]
  BY DEF Emit
<1>3. /\ m \in batch /\ m \notin Elements(ordered) /\ indegree[m] = 0 /\ Waits(m) = {}
  BY <1>2, HeadFacts
<1>4. /\ ordered \in Seq(batch) /\ ready \in Seq(batch) /\ Tail(ready) \in Seq(batch)
      /\ <<m>> \in Seq(batch) /\ ready = <<m>> \o Tail(ready)
      /\ ordered' = ordered \o <<m>>
  <2>1. ordered \in Seq(batch) /\ ready \in Seq(batch)
    BY DEF OrderInv, OrderTypeOK
  <2>2. QED
    BY <1>2, <1>3, <2>1, HeadTailProperties, AppendIsConcat
<1>5. /\ s \in Seq(batch) /\ Elements(s) = Released(m) /\ NoDuplicates(s)
  <2>1. Released(m) \in SUBSET batch /\ IsFiniteSet(Released(m))
    BY GraphFacts, FS_Subset DEF Released, Children, OrderInv
  <2>2. QED
    BY <2>1, ListingProperties, SeqMonotonic
<1>6. q \in Seq(batch) /\ ordered' \o ready' = q \o s
  <2>1. q \in Seq(batch) /\ Tail(ready) \o s \in Seq(batch)
    BY <1>4, <1>5, ConcatProperties
  <2>2. (ordered \o <<m>>) \o (Tail(ready) \o s) = ordered \o (<<m>> \o (Tail(ready) \o s))
    BY SMTT(60), <1>4, <2>1, ConcatAssociative
  <2>3. <<m>> \o (Tail(ready) \o s) = ready \o s
    <3>1. (<<m>> \o Tail(ready)) \o s = <<m>> \o (Tail(ready) \o s)
      BY <1>4, <1>5, ConcatAssociative
    <3>2. QED
      BY <1>4, <3>1
  <2>4. ordered \o (ready \o s) = q \o s
    BY SMTT(60), <1>4, <1>5, ConcatAssociative
  <2>5. QED
    BY <1>1, <1>4, <2>1, <2>2, <2>3, <2>4
<1>7. Elements(ordered' \o ready') = Elements(q) \cup Released(m)
  <2>1. Elements(q \o s) = Elements(q) \cup Elements(s)
    <3>1. q \in Seq(batch) /\ s \in Seq(batch)
      BY <1>5, <1>6
    <3> HIDE DEF q
    <3>2. QED
      BY <3>1, ElementsOfConcat
  <2>2. QED
    BY <1>5, <1>6, <2>1
<1>8. Elements(ordered') = Elements(ordered) \cup {m}
  <2>1. Elements(<<m>>) = {m}
    BY DEF Elements
  <2>2. Elements(ordered \o <<m>>) = Elements(ordered) \cup Elements(<<m>>)
    <3>1. ordered \in Seq(batch) /\ <<m>> \in Seq(batch)
      BY <1>4
    <3>2. QED
      BY ONLY <3>1, ElementsOfConcat, SMTT(30)
  <2>3. QED
    BY <1>4, <2>1, <2>2
<1>9. OrderTypeOK'
  <2>1. ready' \in Seq(batch) /\ ordered' \in Seq(batch)
    BY <1>1, <1>4, <1>5, ConcatProperties
  <2>2. indegree' \in [batch -> Nat]
    BY <1>2 DEF OrderInv, OrderTypeOK
  <2>3. QED
    BY <1>2, <2>1, <2>2 DEF OrderInv, OrderTypeOK
<1>10. NoDuplicates(ordered' \o ready')
  <2>1. Elements(q) \cap Released(m) = {}
    BY DEF Counted, Released, Children
  <2>2. QED
    BY <1>5, <1>6, <2>1, NoDuplicatesInConcat DEF OrderInv
<1>11. Counted'
  <2>1. SUFFICES ASSUME NEW c \in batch
                 PROVE  /\ indegree'[c] = Cardinality(Waits(c)')
                        /\ indegree'[c] = 0 <=> c \in Elements(ordered' \o ready')
    BY <1>2 DEF Counted
  <2>2. Waits(c)' = Waits(c) \ {m}
    BY <1>2, <1>8 DEF Waits
  <2>3. /\ indegree[c] \in Nat /\ indegree[c] = Cardinality(Waits(c))
        /\ indegree[c] = 0 <=> c \in Elements(q)
    BY DEF Counted, OrderInv, OrderTypeOK
  <2>4. Cardinality(Waits(c)') = IF m \in Waits(c) THEN Cardinality(Waits(c)) - 1
                                 ELSE Cardinality(Waits(c))
    BY <2>2, GraphFacts, FS_RemoveElement DEF OrderInv
  <2>5. m \in Waits(c) <=> c \in Children(m)
    BY <1>3 DEF Waits, Children
  <2>6. m \in Waits(c) => indegree[c] > 0
    BY <2>3, GraphFacts DEF OrderInv
  <2>7. c \in Released(m) <=> c \in Children(m) /\ indegree[c] = 1
    BY DEF Released
  <2>8. indegree'[c] = IF c \in Children(m) /\ indegree[c] > 0 THEN indegree[c] - 1 ELSE indegree[c]
    BY <1>2
  <2>9. indegree'[c] = 0 <=> indegree[c] = 0 \/ c \in Released(m)
    BY <2>3, <2>7, <2>8
  <2>10. QED
    BY <1>7, <2>3, <2>4, <2>5, <2>6, <2>8, <2>9
<1>12. ReferencedComeFirst'
  <2>1. \A k \in 1..Len(<<m>>) : Waits(<<m>>[k]) = {}
    BY <1>3
  <2>2. QED
    BY <1>2, <1>4, <2>1, FirstRemainFirst DEF OrderInv
<1>13. QED
  BY <1>9, <1>10, <1>11, <1>12 DEF OrderInv

(* The fallback: with an empty queue, each remaining table waits for       *)
(* another remaining one.                                                  *)
LEMMA EmitRestPreserves == OrderInv /\ Counted /\ EmitRest => OrderInv'
<1> SUFFICES ASSUME OrderInv, Counted, EmitRest PROVE OrderInv'
  OBVIOUS
<1>1. PICK s \in Listings(Rest) : ordered' = ordered \o s
  BY DEF EmitRest
<1>2. /\ ready = <<>> /\ ready' = <<>> /\ batch' = batch /\ refs' = refs /\ indegree' = indegree
  BY DEF EmitRest
<1>3. /\ ordered \in Seq(batch) /\ ready \in Seq(batch)
      /\ ordered \o ready = ordered
  BY <1>2, ConcatEmptySeq DEF OrderInv, OrderTypeOK
<1>4. /\ s \in Seq(batch) /\ Elements(s) = Rest /\ NoDuplicates(s)
  <2>1. Rest \in SUBSET batch /\ IsFiniteSet(Rest)
    BY GraphFacts, FS_Subset DEF Rest, OrderInv
  <2>2. QED
    BY <2>1, ListingProperties, SeqMonotonic
<1>5. ordered' \in Seq(batch) /\ ordered' \o ready' = ordered'
  <2>1. ordered' \in Seq(batch)
    BY <1>1, <1>3, <1>4, ConcatProperties
  <2>2. QED
    BY <1>2, <2>1, ConcatEmptySeq
<1>6. OrderTypeOK'
  BY <1>2, <1>3, <1>5 DEF OrderInv, OrderTypeOK
<1>7. NoDuplicates(ordered' \o ready')
  <2>1. NoDuplicates(ordered)
    BY <1>3 DEF OrderInv
  <2>2. QED
    BY <1>1, <1>3, <1>4, <1>5, <2>1, NoDuplicatesInConcat DEF Rest
<1>8. Finished'
  <2>1. Elements(ordered') = Elements(ordered) \cup Rest
    BY <1>1, <1>3, <1>4, ElementsOfConcat
  <2>2. QED
    BY <1>2, <2>1 DEF Finished, Rest
<1>9. ASSUME NEW m \in Rest PROVE OnOrBehindCycle(m)
  <2>1. ASSUME NEW c \in Rest PROVE Parents(batch, refs, c) \cap Rest # {}
    <3>1. c \in batch /\ c \notin Elements(ordered \o ready)
      BY <1>3 DEF Rest
    <3>2. Waits(c) # {}
      BY <3>1, GraphFacts DEF Counted, OrderInv
    <3>3. QED
      BY <3>1, <3>2, GraphFacts DEF Waits, Rest, OrderInv
  <2>2. Rest \in SUBSET batch
    BY DEF Rest
  <2>3. QED
    BY <2>1, <2>2 DEF OnOrBehindCycle
<1>10. ReferencedComeFirst'
  <2>1. \A k \in 1..Len(s) : s[k] \in Rest
    BY <1>4 DEF Elements
  <2>2. QED
    BY <1>1, <1>2, <1>4, <1>9, <2>1, FirstRemainFirst DEF OrderInv
<1>11. QED
  BY <1>6, <1>7, <1>8, <1>10 DEF OrderInv

---------------------------------------------------------------------------
(* The degrees were counted and the roots are queued. *)
LEMMA OrderInitInv == OrderInit => OrderInv
<1> SUFFICES ASSUME OrderInit PROVE OrderInv
  OBVIOUS
<1> DEFINE start == {m \in batch : Degree(batch, refs, m) = 0}
<1>1. batch \in SUBSET Table /\ refs \in [batch -> SUBSET Table] /\ ordered = <<>>
  BY DEF OrderInit
<1>2. IsFiniteSet(batch)
  BY <1>1, TableAssumption, FS_Subset
<1>3. \A m \in batch : Degree(batch, refs, m) \in Nat
  <2>1. \A m \in batch : Parents(batch, refs, m) \in SUBSET batch
    BY DEF Parents
  <2>2. QED
    BY <1>2, <2>1, FS_Subset, FS_CardinalityType DEF Degree
<1>4. indegree = [m \in batch |-> Degree(batch, refs, m)]
  BY DEF OrderInit
<1>5. ready \in Seq(batch) /\ Elements(ready) = start /\ NoDuplicates(ready)
  <2>1. start \in SUBSET batch /\ IsFiniteSet(start)
    BY <1>2, FS_Subset
  <2>2. ready \in Listings(start)
    BY DEF OrderInit
  <2>3. QED
    BY <2>1, <2>2, ListingProperties, SeqMonotonic
<1>6. ordered \in Seq(batch) /\ ordered \o ready = ready /\ Elements(ordered) = {}
  <2>1. Len(<<>>) = 0
    BY EmptySeq
  <2>2. QED
    BY <1>1, <1>5, <2>1, ConcatEmptySeq, EmptySeq DEF Elements
<1>7. OrderTypeOK
  BY <1>1, <1>3, <1>4, <1>5, <1>6 DEF OrderTypeOK
<1>8. Counted
  <2>1. \A m \in batch : Waits(m) = Parents(batch, refs, m)
    BY <1>6 DEF Waits
  <2>2. QED
    BY <1>4, <1>5, <1>6, <2>1 DEF Counted, Degree
<1>9. ReferencedComeFirst
  BY <1>1, EmptySeq DEF ReferencedComeFirst
<1>10. QED
  BY <1>5, <1>6, <1>7, <1>8, <1>9 DEF OrderInv

(* The order is kept by the loop and the fallback. *)
LEMMA OrderNextInv == OrderInv /\ [Ordering]_orderVars => OrderInv'
<1> SUFFICES ASSUME OrderInv, [Ordering]_orderVars PROVE OrderInv'
  OBVIOUS
<1>1. CASE Ordering /\ Counted
  BY <1>1, EmitPreserves, EmitRestPreserves DEF Ordering
<1>2. CASE Ordering /\ Finished
  BY <1>2 DEF Ordering, Emit, EmitRest, Finished
<1>3. CASE UNCHANGED orderVars
  <2>1. /\ batch' = batch /\ refs' = refs /\ indegree' = indegree
        /\ ready' = ready /\ ordered' = ordered
    BY <1>3 DEF orderVars
  <2>2. OrderTypeOK' /\ NoDuplicates(ordered' \o ready')
    BY <2>1 DEF OrderInv, OrderTypeOK
  <2>3. (Counted \/ Finished)'
    BY <2>1 DEF OrderInv, Counted, Waits, Finished, Rest
  <2>4. ReferencedComeFirst'
    <3>1. ordered \o <<>> = ordered /\ <<>> \in Seq(batch) /\ Len(<<>>) = 0
      BY ConcatEmptySeq, EmptySeq DEF OrderInv, OrderTypeOK
    <3>2. \A k \in 1..Len(<<>>) : Waits(<<>>[k]) = {} \/ OnOrBehindCycle(<<>>[k])
      BY <3>1
    <3>3. OrderTypeOK /\ ReferencedComeFirst
      BY DEF OrderInv
    <3>4. ordered' = ordered \o <<>>
      BY <2>1, <3>1
    <3>5. QED
      BY <2>1, <3>1, <3>2, <3>3, <3>4, FirstRemainFirst, Zenon
  <2>5. QED
    BY <2>2, <2>3, <2>4 DEF OrderInv
<1>4. QED
  BY <1>1, <1>2, <1>3 DEF OrderInv

(* So it holds throughout. *)
LEMMA OrderInvHolds == OrderSpec => []OrderInv
<1>1. QED
  BY OrderInitInv, OrderNextInv, PTL DEF OrderSpec

(* Whatever the tables, their foreign keys and the orders of the hash map, *)
(* a table precedes one it refers to only on or behind a cycle.            *)
THEOREM ReferencedTablesComeFirst == OrderSpec => []ReferencedComeFirst
<1>1. OrderInv => ReferencedComeFirst
  BY DEF OrderInv
<1>2. QED
  BY <1>1, OrderInvHolds, PTL

(* The queue and the result hold no table twice. *)
LEMMA OrderInvGivesOnce == OrderInv => EachTableOnce
<1> SUFFICES ASSUME OrderInv PROVE EachTableOnce
  OBVIOUS
<1>1. ordered \in Seq(batch) /\ ready \in Seq(batch) /\ ordered \o ready \in Seq(batch)
  BY ConcatProperties DEF OrderInv, OrderTypeOK
<1>2. Elements(ordered \o ready) \subseteq batch /\ Elements(ordered) \subseteq batch
  BY <1>1, ElementOfSeq DEF Elements
<1>3. QED
  BY <1>2, Zenon DEF EachTableOnce, OrderInv, NoDuplicates, Finished, Rest

(* Every table is created, and none twice.                                 *)
THEOREM EveryTableIsCreatedOnce == OrderSpec => []EachTableOnce
<1>1. QED
  BY OrderInvGivesOnce, OrderInvHolds, PTL

---------------------------------------------------------------------------
(* Migrations *)

(* The statements that add something or change it where it is, and the     *)
(* others.                                                                 *)
AddingOps == {"create type", "add values", "create table", "add column", "alter column",
              "add default", "create index", "add key", "create view"}
DroppingOps == {"drop type", "drop table", "drop column", "drop index", "drop key", "drop view"}
AllOps == AddingOps \cup DroppingOps

IsStatement(s) ==
  /\ s.op = "create table" => IsModel(s.model)
  /\ s.op = "create type" => s.enum = [name |-> s.enum.name, values |-> s.enum.values]
  /\ s.op = "create view" => s.view = [name |-> s.view.name, reads |-> s.view.reads,
                                       sql |-> s.view.sql, materialized |-> s.view.materialized]
  /\ s.op = "add column" => IsColumn(s.column)
  /\ s.op = "alter column" => "name" \notin DOMAIN s.change /\ "enum" \notin DOMAIN s.change

(* What it creates is as the schema that is wanted describes it. *)
IsStatementOf(to, s) ==
  /\ IsStatement(s)
  /\ s.op = "create table" => s.model \in to.models
  /\ s.op = "create index" => \E m \in to.models : m.table = s.table /\ s.index \in m.indexes

(* A script made of statements of these kinds, to arrive at a schema. *)
IsScript(to, q, ops) ==
  /\ Len(q) \in Nat
  /\ q = [i \in 1..Len(q) |-> q[i]]
  /\ \A i \in 1..Len(q) : q[i].op \in ops /\ IsStatementOf(to, q[i])


(* Nothing that old has is missing in new. *)
Grows(old, new) ==
  /\ \A m \in old.models : \E n \in new.models :
       /\ n.table = m.table
       /\ Names(m.columns) \subseteq Names(n.columns)
       /\ m.keys \subseteq n.keys
       /\ m.indexes \subseteq n.indexes
  /\ \A e \in old.enums : \E n \in new.enums : n.name = e.name /\ e.values \subseteq n.values
  /\ Names(old.views) \subseteq Names(new.views)

IsDiff(to, d) ==
  /\ IsFiniteSet(d.createModels) /\ IsFiniteSet(d.dropModels) /\ IsFiniteSet(d.alterModels)
  /\ IsFiniteSet(d.createEnums) /\ IsFiniteSet(d.dropEnums) /\ IsFiniteSet(d.alterEnums)
  /\ IsFiniteSet(d.createViews) /\ IsFiniteSet(d.dropViews) /\ IsFiniteSet(d.alterViews)
  /\ IsFiniteSet(d.createIndexes)
  /\ \A m \in d.createModels : IsModel(m)
  /\ \A e \in d.createEnums : e = [name |-> e.name, values |-> e.values]
  /\ \A v \in d.createViews \cup d.alterViews :
       v = [name |-> v.name, reads |-> v.reads, sql |-> v.sql, materialized |-> v.materialized]
  /\ \A a \in d.alterModels :
       /\ \A p \in Parts : IsFiniteSet(a[p])
       /\ \A c \in a.addFields : IsColumn(c)
       /\ \A i \in a.addIndexes : \E m \in to.models : m.table = a.table /\ i \in m.indexes
  /\ d.createModels \subseteq to.models
  /\ \A x \in d.createIndexes : \E m \in to.models : m.table = x.table /\ x.index \in m.indexes

OnlyAdds(d) ==
  /\ d.dropModels = {} /\ d.dropEnums = {} /\ d.dropViews = {} /\ d.alterViews = {}
  /\ \A a \in d.alterModels : a.dropFields = {} /\ a.dropIndexes = {} /\ a.dropKeys = {}

(* Until a script is run back: the catalog is a schema, the script is made *)
(* of known statements, and while nothing is dropped nothing is missing.   *)
MigrationInv ==
  /\ OrderInv
  /\ backend \in Backends
  /\ edit \in Edits
  /\ phase \in {"edited", "ordering", "applying", "applied", "failed"} => IsSchema(db)
  /\ phase = "ordering" =>
       /\ IsDiff(edit.to, diff)
       /\ batch = Tables([models |-> diff.createModels])
       /\ before = db
       /\ additive => OnlyAdds(diff)
  /\ phase = "applying" => IsScript(edit.to, script, IF additive THEN AddingOps ELSE AllOps)
  /\ additive /\ phase \in {"applying", "applied", "failed"} => Grows(before, db)

---------------------------------------------------------------------------
(* Scripts *)

(* The least-number principle, from which the induction below starts. *)
LEMMA LeastNatural ==
  ASSUME NEW T \in SUBSET Nat, T # {}
  PROVE  \E m \in T : \A k \in T : m <= k
<1>1. PICK m \in T : \A k \in T : <<k, m>> \notin OpToRel(<, Nat)
  BY WFMin, NatLessThanWellFounded, Zenon
<1>2. ASSUME NEW k \in T PROVE ~ (k < m)
  <2>1. <<k, m>> \in Nat \X Nat /\ <<k, m>>[1] = k /\ <<k, m>>[2] = m
    OBVIOUS
  <2>2. k < m => <<k, m>> \in OpToRel(<, Nat)
    BY <2>1, Zenon DEF OpToRel
  <2>3. QED
    BY <1>1, <2>2
<1>3. QED
  BY <1>2

(* A script is a sequence. *)
LEMMA ScriptIsSeq ==
  ASSUME NEW ops, NEW to, NEW q, IsScript(to, q, ops)
  PROVE  q \in Seq(Elements(q)) /\ Len(q) \in Nat
BY DEF IsScript, Elements

(* One after the other, two scripts are a script. *)
LEMMA ScriptConcat ==
  ASSUME NEW ops, NEW to, NEW p, NEW q, IsScript(to, p, ops), IsScript(to, q, ops)
  PROVE  IsScript(to, p \o q, ops)
<1> DEFINE S == Elements(p) \cup Elements(q)
<1>1. p \in Seq(S) /\ q \in Seq(S) /\ Len(p) \in Nat /\ Len(q) \in Nat
  BY ScriptIsSeq
<1>2. /\ Len(p \o q) = Len(p) + Len(q)
      /\ \A k \in 1..Len(p) + Len(q) :
           (p \o q)[k] = IF k <= Len(p) THEN p[k] ELSE q[k - Len(p)]
      /\ p \o q \in Seq(S)
  BY <1>1, ConcatProperties, LenProperties
<1>3. Len(p \o q) \in Nat /\ p \o q = [k \in 1..Len(p \o q) |-> (p \o q)[k]]
  <2> DEFINE r == p \o q
  <2>1. r \in Seq(S)
    BY <1>2
  <2> HIDE DEF r
  <2>2. Len(r) \in Nat /\ r \in [1..Len(r) -> S]
    BY <2>1, LenProperties
  <2>3. r = [k \in 1..Len(r) |-> r[k]]
    BY <2>2
  <2>4. QED
    BY <2>2, <2>3 DEF r
<1>4. ASSUME NEW k \in 1..Len(p) + Len(q)
      PROVE  (p \o q)[k].op \in ops /\ IsStatementOf(to, (p \o q)[k])
  <2>1. CASE k <= Len(p)
    BY <1>1, <1>2, <2>1 DEF IsScript
  <2>2. CASE k > Len(p)
    <3>1. k - Len(p) \in 1..Len(q) /\ (p \o q)[k] = q[k - Len(p)]
      BY <1>1, <1>2, <2>2
    <3>2. QED
      BY <3>1 DEF IsScript
  <2>3. QED
    BY <1>1, <2>1, <2>2
<1>5. QED
  BY <1>2, <1>3, <1>4 DEF IsScript

(* The empty script and the scripts of one statement. *)
LEMMA ScriptOption ==
  ASSUME NEW ops, NEW to, NEW s, s.op \in ops, IsStatementOf(to, s), NEW emitted \in BOOLEAN
  PROVE  IsScript(to, OptionalStatement(emitted, s), ops)
<1>1. IsScript(to, <<>>, ops)
  BY DEF IsScript
<1>2. IsScript(to, <<s>>, ops)
  BY DEF IsScript
<1>3. QED
  BY <1>1, <1>2 DEF OptionalStatement

(* SetToSeq lists the elements of a finite set. *)
LEMMA SetToSeqFacts ==
  ASSUME NEW S, IsFiniteSet(S)
  PROVE  /\ Cardinality(S) \in Nat
         /\ SetToSeq(S) \in [1..Cardinality(S) -> S]
<1>1. Cardinality(S) \in Nat /\ ExistsBijection(1..Cardinality(S), S)
  BY FS_CardinalityType
<1>2. PICK f \in [1..Cardinality(S) -> S] : IsInjective(f)
  BY <1>1 DEF ExistsBijection, Bijection, Injection, IsInjective
<1>3. QED
  BY <1>1, <1>2 DEF SetToSeq

(* A statement for each element of a finite set. *)
LEMMA ScriptOfSet ==
  ASSUME NEW ops, NEW to, NEW S, IsFiniteSet(S), NEW q,
         q = [i \in 1..Cardinality(S) |-> q[i]],
         \A i \in 1..Cardinality(S) :
           SetToSeq(S)[i] \in S => q[i].op \in ops /\ IsStatementOf(to, q[i])
  PROVE  IsScript(to, q, ops)
<1>1. Cardinality(S) \in Nat /\ SetToSeq(S) \in [1..Cardinality(S) -> S]
  BY SetToSeqFacts
<1>2. \A i \in 1..Cardinality(S) : q[i].op \in ops /\ IsStatementOf(to, q[i])
  BY <1>1
<1>3. DOMAIN q = 1..Cardinality(S)
  BY <1>1
<1>4. Len(q) = Cardinality(S)
  <2>1. q \in Seq({q[i] : i \in 1..Cardinality(S)})
    BY <1>1
  <2>2. QED
    BY <1>1, <1>3, <2>1
<1>5. QED
  BY <1>1, <1>2, <1>4 DEF IsScript

(* Scripts for each element of a finite set, one after the other. *)
Flattening(ss, g) ==
  g = [i \in 1..Len(ss) |-> IF i = 1 THEN ss[i] ELSE g[i - 1] \o ss[i]]

(* The recursive function of FlattenSeq is defined, whatever the length. *)
LEMMA FlatteningExists ==
  ASSUME NEW ss, Len(ss) \in Nat
  PROVE  \E g : Flattening(ss, g)
<1> DEFINE To(n, g) == g = [i \in 1..n |-> IF i = 1 THEN ss[i] ELSE g[i - 1] \o ss[i]]
           T == {n \in Nat : ~ \E g : To(n, g)}
<1>1. T = {}
  <2> SUFFICES ASSUME T # {} PROVE FALSE
    OBVIOUS
  <2>1. T \in SUBSET Nat
    OBVIOUS
  <2>2. PICK n \in T : \A i \in T : n <= i
    <3> HIDE DEF T
    <3>1. QED
      BY <2>1, LeastNatural
  <2>3. CASE n = 0
    <3>1. To(0, [i \in 1..0 |-> ss[i]])
      OBVIOUS
    <3>2. QED
      BY <2>2, <2>3, <3>1
  <2>4. CASE n # 0
    <3>0. n \in Nat /\ n - 1 \in Nat
      BY <2>2, <2>4
    <3>1. n - 1 \notin T
      <4> HIDE DEF T
      <4>1. QED
        BY <2>2, <3>0
    <3>2. PICK h : To(n - 1, h)
      BY <3>0, <3>1
    <3> DEFINE g == [i \in 1..n |-> IF i = n THEN (IF i = 1 THEN ss[i] ELSE h[i - 1] \o ss[i])
                                    ELSE h[i]]
    <3>3. \A i \in 1..n : g[i] = IF i = 1 THEN ss[i] ELSE g[i - 1] \o ss[i]
      <4>1. \A i \in 1..n-1 : h[i] = IF i = 1 THEN ss[i] ELSE h[i - 1] \o ss[i]
        BY <3>2
      <4>2. QED
        BY <2>2, <4>1
    <3>4. To(n, g)
      BY <3>3
    <3>5. QED
      BY <2>2, <3>4
  <2>5. QED
    BY <2>3, <2>4
<1>2. PICK g : To(Len(ss), g)
  BY <1>1
<1>3. QED
  BY <1>2 DEF Flattening

(* A script of scripts, by induction over their number. *)
LEMMA ScriptFlatten ==
  ASSUME NEW ops, NEW to, NEW S, IsFiniteSet(S), NEW ss,
         ss = [i \in 1..Cardinality(S) |-> ss[i]],
         \A i \in 1..Cardinality(S) : SetToSeq(S)[i] \in S => IsScript(to, ss[i], ops)
  PROVE  IsScript(to, FlattenSeq(ss), ops)
<1>1. Cardinality(S) \in Nat /\ SetToSeq(S) \in [1..Cardinality(S) -> S]
  BY SetToSeqFacts
<1>2. Len(ss) = Cardinality(S)
  <2>1. ss \in Seq({ss[i] : i \in 1..Cardinality(S)}) /\ DOMAIN ss = 1..Cardinality(S)
    BY <1>1
  <2>2. QED
    BY <1>1, <2>1
<1>3. \A i \in 1..Len(ss) : IsScript(to, ss[i], ops)
  BY <1>1, <1>2
<1>4. CASE Len(ss) = 0
  <2>1. ss = <<>>
    BY <1>2, <1>4
  <2>2. FlattenSeq(ss) = <<>>
    BY <2>1 DEF FlattenSeq
  <2>3. IsScript(to, <<>>, ops)
    BY DEF IsScript
  <2>4. QED
    BY <2>2, <2>3
<1>5. CASE Len(ss) # 0
  <2> DEFINE g == CHOOSE f : Flattening(ss, f)
  <2>1. Flattening(ss, g)
    BY <1>1, <1>2, FlatteningExists
  <2>2. FlattenSeq(ss) = g[Len(ss)]
    BY <1>5 DEF FlattenSeq, Flattening
  <2> HIDE DEF g
  <2>3. \A i \in 1..Len(ss) : g[i] = IF i = 1 THEN ss[i] ELSE g[i - 1] \o ss[i]
    BY <2>1 DEF Flattening
  <2> DEFINE T == {i \in 1..Len(ss) : ~ IsScript(to, g[i], ops)}
  <2>4. T = {}
    <3> SUFFICES ASSUME T # {} PROVE FALSE
      OBVIOUS
    <3>1. T \in SUBSET Nat
      OBVIOUS
    <3>2. PICK n \in T : \A i \in T : n <= i
      <4> HIDE DEF T
      <4>1. QED
        BY <3>1, LeastNatural
    <3>3. CASE n = 1
      BY <1>3, <2>3, <3>2, <3>3
    <3>4. CASE n # 1
      <4>0. n \in 1..Len(ss) /\ n - 1 \in 1..Len(ss)
        BY <1>1, <1>2, <3>2, <3>4
      <4>1. n - 1 \notin T
        <5> HIDE DEF T
        <5>1. QED
          BY <3>2, <4>0
      <4>2. IsScript(to, g[n - 1], ops) /\ IsScript(to, ss[n], ops)
        BY <1>3, <4>0, <4>1
      <4>3. g[n] = g[n - 1] \o ss[n]
        BY <2>3, <3>2, <3>4
      <4>4. QED
        BY <3>2, <4>2, <4>3, ScriptConcat
    <3>5. QED
      BY <3>3, <3>4
  <2>5. Len(ss) \in 1..Len(ss)
    BY <1>1, <1>2, <1>5
  <2>6. QED
    BY <2>2, <2>4, <2>5
<1>6. QED
  BY <1>4, <1>5

(* The parts of a script, one for each kind of statement. *)
LEMMA AddColumnsScript ==
  ASSUME NEW ops, NEW to, NEW a, IsFiniteSet(a.addFields), "add column" \in ops,
         \A x \in a.addFields : IsColumn(x)
  PROVE  IsScript(to, AddColumns(a), ops)
<1> DEFINE S == a.addFields
           q == AddColumns(a)
<1>1. q = [i \in 1..Cardinality(S) |->
             [op |-> "add column", table |-> a.table, column |-> SetToSeq(S)[i]]]
  BY DEF Each, AddColumns
<1> HIDE DEF q
<1>2. q = [i \in 1..Cardinality(S) |-> q[i]]
  BY <1>1
<1>3. ASSUME NEW i \in 1..Cardinality(S), SetToSeq(S)[i] \in S
      PROVE  q[i].op \in ops /\ IsStatementOf(to, q[i])
  <2> DEFINE x == SetToSeq(S)[i]
             s == q[i]
  <2>1. s = [op |-> "add column", table |-> a.table, column |-> x]
    BY <1>1
  <2>2. x \in S
    BY <1>3
  <2> HIDE DEF x, s
  <2>3. s.op \in ops /\ IsStatementOf(to, s)
    BY <2>1, <2>2 DEF IsStatementOf, IsStatement
  <2>4. QED
    BY <2>3 DEF s
<1> HIDE DEF S
<1>4. IsScript(to, q, ops)
  BY <1>2, <1>3, ScriptOfSet DEF S
<1>5. QED
  BY <1>4 DEF q

LEMMA DropColumnsScript ==
  ASSUME NEW ops, NEW to, NEW a, IsFiniteSet(a.dropFields), a.dropFields = {} \/ "drop column" \in ops
  PROVE  IsScript(to, DropColumns(a), ops)
<1> DEFINE S == a.dropFields
           q == DropColumns(a)
<1>1. q = [i \in 1..Cardinality(S) |->
             [op |-> "drop column", table |-> a.table, name |-> SetToSeq(S)[i]]]
  BY DEF Each, DropColumns
<1> HIDE DEF q
<1>2. q = [i \in 1..Cardinality(S) |-> q[i]]
  BY <1>1
<1>3. ASSUME NEW i \in 1..Cardinality(S), SetToSeq(S)[i] \in S
      PROVE  q[i].op \in ops /\ IsStatementOf(to, q[i])
  <2> DEFINE x == SetToSeq(S)[i]
             s == q[i]
  <2>1. s = [op |-> "drop column", table |-> a.table, name |-> x]
    BY <1>1
  <2>2. x \in S
    BY <1>3
  <2> HIDE DEF x, s
  <2>3. s.op \in ops /\ IsStatementOf(to, s)
    BY <2>1, <2>2 DEF IsStatementOf, IsStatement
  <2>4. QED
    BY <2>3 DEF s
<1> HIDE DEF S
<1>4. IsScript(to, q, ops)
  BY <1>2, <1>3, ScriptOfSet DEF S
<1>5. QED
  BY <1>4 DEF q

LEMMA AddKeysScript ==
  ASSUME NEW ops, NEW to, NEW a, IsFiniteSet(a.addKeys), "add key" \in ops
  PROVE  IsScript(to, AddKeys(a), ops)
<1> DEFINE S == a.addKeys
           q == AddKeys(a)
<1>1. q = [i \in 1..Cardinality(S) |->
             [op |-> "add key", table |-> a.table, key |-> SetToSeq(S)[i]]]
  BY DEF Each, AddKeys
<1> HIDE DEF q
<1>2. q = [i \in 1..Cardinality(S) |-> q[i]]
  BY <1>1
<1>3. ASSUME NEW i \in 1..Cardinality(S), SetToSeq(S)[i] \in S
      PROVE  q[i].op \in ops /\ IsStatementOf(to, q[i])
  <2> DEFINE x == SetToSeq(S)[i]
             s == q[i]
  <2>1. s = [op |-> "add key", table |-> a.table, key |-> x]
    BY <1>1
  <2>2. x \in S
    BY <1>3
  <2> HIDE DEF x, s
  <2>3. s.op \in ops /\ IsStatementOf(to, s)
    BY <2>1, <2>2 DEF IsStatementOf, IsStatement
  <2>4. QED
    BY <2>3 DEF s
<1> HIDE DEF S
<1>4. IsScript(to, q, ops)
  BY <1>2, <1>3, ScriptOfSet DEF S
<1>5. QED
  BY <1>4 DEF q

LEMMA DropKeysScript ==
  ASSUME NEW ops, NEW to, NEW a, IsFiniteSet(a.dropKeys), a.dropKeys = {} \/ "drop key" \in ops
  PROVE  IsScript(to, DropKeys(a), ops)
<1> DEFINE S == a.dropKeys
           q == DropKeys(a)
<1>1. q = [i \in 1..Cardinality(S) |->
             [op |-> "drop key", table |-> a.table, name |-> SetToSeq(S)[i]]]
  BY DEF Each, DropKeys
<1> HIDE DEF q
<1>2. q = [i \in 1..Cardinality(S) |-> q[i]]
  BY <1>1
<1>3. ASSUME NEW i \in 1..Cardinality(S), SetToSeq(S)[i] \in S
      PROVE  q[i].op \in ops /\ IsStatementOf(to, q[i])
  <2> DEFINE x == SetToSeq(S)[i]
             s == q[i]
  <2>1. s = [op |-> "drop key", table |-> a.table, name |-> x]
    BY <1>1
  <2>2. x \in S
    BY <1>3
  <2> HIDE DEF x, s
  <2>3. s.op \in ops /\ IsStatementOf(to, s)
    BY <2>1, <2>2 DEF IsStatementOf, IsStatement
  <2>4. QED
    BY <2>3 DEF s
<1> HIDE DEF S
<1>4. IsScript(to, q, ops)
  BY <1>2, <1>3, ScriptOfSet DEF S
<1>5. QED
  BY <1>4 DEF q

LEMMA AddIndexesScript ==
  ASSUME NEW ops, NEW to, NEW a, IsFiniteSet(a.addIndexes), "create index" \in ops,
         \A i \in a.addIndexes : \E m \in to.models : m.table = a.table /\ i \in m.indexes
  PROVE  IsScript(to, AddIndexes(a), ops)
<1> DEFINE S == a.addIndexes
           q == AddIndexes(a)
<1>1. q = [i \in 1..Cardinality(S) |->
             [op |-> "create index", table |-> a.table, index |-> SetToSeq(S)[i]]]
  BY DEF Each, AddIndexes, CreateIndex
<1> HIDE DEF q
<1>2. q = [i \in 1..Cardinality(S) |-> q[i]]
  BY <1>1
<1>3. ASSUME NEW i \in 1..Cardinality(S), SetToSeq(S)[i] \in S
      PROVE  q[i].op \in ops /\ IsStatementOf(to, q[i])
  <2> DEFINE x == SetToSeq(S)[i]
             s == q[i]
  <2>1. s = [op |-> "create index", table |-> a.table, index |-> x]
    BY <1>1
  <2>2. x \in S
    BY <1>3
  <2> HIDE DEF x, s
  <2>3. s.op \in ops /\ IsStatementOf(to, s)
    BY <2>1, <2>2 DEF IsStatementOf, IsStatement
  <2>4. QED
    BY <2>3 DEF s
<1> HIDE DEF S
<1>4. IsScript(to, q, ops)
  BY <1>2, <1>3, ScriptOfSet DEF S
<1>5. QED
  BY <1>4 DEF q

LEMMA DropIndexesScript ==
  ASSUME NEW ops, NEW to, NEW a, IsFiniteSet(a.dropIndexes), a.dropIndexes = {} \/ "drop index" \in ops
  PROVE  IsScript(to, DropIndexes(a), ops)
<1> DEFINE S == a.dropIndexes
           q == DropIndexes(a)
<1>1. q = [i \in 1..Cardinality(S) |->
             [op |-> "drop index", table |-> a.table, name |-> SetToSeq(S)[i]]]
  BY DEF Each, DropIndexes, DropIndex
<1> HIDE DEF q
<1>2. q = [i \in 1..Cardinality(S) |-> q[i]]
  BY <1>1
<1>3. ASSUME NEW i \in 1..Cardinality(S), SetToSeq(S)[i] \in S
      PROVE  q[i].op \in ops /\ IsStatementOf(to, q[i])
  <2> DEFINE x == SetToSeq(S)[i]
             s == q[i]
  <2>1. s = [op |-> "drop index", table |-> a.table, name |-> x]
    BY <1>1
  <2>2. x \in S
    BY <1>3
  <2> HIDE DEF x, s
  <2>3. s.op \in ops /\ IsStatementOf(to, s)
    BY <2>1, <2>2 DEF IsStatementOf, IsStatement
  <2>4. QED
    BY <2>3 DEF s
<1> HIDE DEF S
<1>4. IsScript(to, q, ops)
  BY <1>2, <1>3, ScriptOfSet DEF S
<1>5. QED
  BY <1>4 DEF q

LEMMA CreateIndexesScript ==
  ASSUME NEW ops, NEW to, NEW d, IsFiniteSet(d.createIndexes), "create index" \in ops,
         \A x \in d.createIndexes : \E m \in to.models : m.table = x.table /\ x.index \in m.indexes
  PROVE  IsScript(to, CreateIndexes(d), ops)
<1> DEFINE S == d.createIndexes
           q == CreateIndexes(d)
<1>1. q = [i \in 1..Cardinality(S) |->
             [op |-> "create index", table |-> SetToSeq(S)[i].table,
              index |-> SetToSeq(S)[i].index]]
  BY DEF Each, CreateIndexes, CreateIndex
<1> HIDE DEF q
<1>2. q = [i \in 1..Cardinality(S) |-> q[i]]
  BY <1>1
<1>3. ASSUME NEW i \in 1..Cardinality(S), SetToSeq(S)[i] \in S
      PROVE  q[i].op \in ops /\ IsStatementOf(to, q[i])
  <2> DEFINE x == SetToSeq(S)[i]
             s == q[i]
  <2>1. s = [op |-> "create index", table |-> x.table, index |-> x.index]
    BY <1>1
  <2>2. x \in S
    BY <1>3
  <2> HIDE DEF x, s
  <2>3. s.op \in ops /\ IsStatementOf(to, s)
    BY <2>1, <2>2 DEF IsStatementOf, IsStatement
  <2>4. QED
    BY <2>3 DEF s
<1> HIDE DEF S
<1>4. IsScript(to, q, ops)
  BY <1>2, <1>3, ScriptOfSet DEF S
<1>5. QED
  BY <1>4 DEF q

LEMMA CreateViewsScript ==
  ASSUME NEW ops, NEW to, NEW d, IsFiniteSet(d.createViews), "create view" \in ops,
         \A x \in d.createViews : x = [name |-> x.name, reads |-> x.reads, sql |-> x.sql,
                                          materialized |-> x.materialized]
  PROVE  IsScript(to, CreateViews(d), ops)
<1> DEFINE S == d.createViews
           q == CreateViews(d)
<1>1. q = [i \in 1..Cardinality(S) |-> [op |-> "create view", view |-> SetToSeq(S)[i]]]
  BY DEF Each, CreateViews, CreateView
<1> HIDE DEF q
<1>2. q = [i \in 1..Cardinality(S) |-> q[i]]
  BY <1>1
<1>3. ASSUME NEW i \in 1..Cardinality(S), SetToSeq(S)[i] \in S
      PROVE  q[i].op \in ops /\ IsStatementOf(to, q[i])
  <2> DEFINE x == SetToSeq(S)[i]
             s == q[i]
  <2>1. s = [op |-> "create view", view |-> x]
    BY <1>1
  <2>2. x \in S
    BY <1>3
  <2> HIDE DEF x, s
  <2>3. s.op \in ops /\ IsStatementOf(to, s)
    BY <2>1, <2>2 DEF IsStatementOf, IsStatement
  <2>4. QED
    BY <2>3 DEF s
<1> HIDE DEF S
<1>4. IsScript(to, q, ops)
  BY <1>2, <1>3, ScriptOfSet DEF S
<1>5. QED
  BY <1>4 DEF q

LEMMA CreateTypesScript ==
  ASSUME NEW ops, NEW to, NEW d, IsFiniteSet(d.createEnums), "create type" \in ops,
         \A x \in d.createEnums : x = [name |-> x.name, values |-> x.values]
  PROVE  IsScript(to, Each(d.createEnums, CreateType), ops)
<1> DEFINE S == d.createEnums
           q == Each(d.createEnums, CreateType)
<1>1. q = [i \in 1..Cardinality(S) |-> [op |-> "create type", enum |-> SetToSeq(S)[i]]]
  BY DEF Each, CreateType
<1> HIDE DEF q
<1>2. q = [i \in 1..Cardinality(S) |-> q[i]]
  BY <1>1
<1>3. ASSUME NEW i \in 1..Cardinality(S), SetToSeq(S)[i] \in S
      PROVE  q[i].op \in ops /\ IsStatementOf(to, q[i])
  <2> DEFINE x == SetToSeq(S)[i]
             s == q[i]
  <2>1. s = [op |-> "create type", enum |-> x]
    BY <1>1
  <2>2. x \in S
    BY <1>3
  <2> HIDE DEF x, s
  <2>3. s.op \in ops /\ IsStatementOf(to, s)
    BY <2>1, <2>2 DEF IsStatementOf, IsStatement
  <2>4. QED
    BY <2>3 DEF s
<1> HIDE DEF S
<1>4. IsScript(to, q, ops)
  BY <1>2, <1>3, ScriptOfSet DEF S
<1>5. QED
  BY <1>4 DEF q

LEMMA DropTypesScript ==
  ASSUME NEW ops, NEW to, NEW d, IsFiniteSet(d.dropEnums), d.dropEnums = {} \/ "drop type" \in ops
  PROVE  IsScript(to, Each(d.dropEnums, DropType), ops)
<1> DEFINE S == d.dropEnums
           q == Each(d.dropEnums, DropType)
<1>1. q = [i \in 1..Cardinality(S) |-> [op |-> "drop type", name |-> SetToSeq(S)[i]]]
  BY DEF Each, DropType
<1> HIDE DEF q
<1>2. q = [i \in 1..Cardinality(S) |-> q[i]]
  BY <1>1
<1>3. ASSUME NEW i \in 1..Cardinality(S), SetToSeq(S)[i] \in S
      PROVE  q[i].op \in ops /\ IsStatementOf(to, q[i])
  <2> DEFINE x == SetToSeq(S)[i]
             s == q[i]
  <2>1. s = [op |-> "drop type", name |-> x]
    BY <1>1
  <2>2. x \in S
    BY <1>3
  <2> HIDE DEF x, s
  <2>3. s.op \in ops /\ IsStatementOf(to, s)
    BY <2>1, <2>2 DEF IsStatementOf, IsStatement
  <2>4. QED
    BY <2>3 DEF s
<1> HIDE DEF S
<1>4. IsScript(to, q, ops)
  BY <1>2, <1>3, ScriptOfSet DEF S
<1>5. QED
  BY <1>4 DEF q

LEMMA AddValuesScript ==
  ASSUME NEW ops, NEW to, NEW d, IsFiniteSet(d.alterEnums), "add values" \in ops
  PROVE  IsScript(to, Each(d.alterEnums, AddValues), ops)
<1> DEFINE S == d.alterEnums
           q == Each(d.alterEnums, AddValues)
<1>1. q = [i \in 1..Cardinality(S) |->
             [op |-> "add values", name |-> SetToSeq(S)[i].name,
              values |-> SetToSeq(S)[i].addValues]]
  BY DEF Each, AddValues
<1> HIDE DEF q
<1>2. q = [i \in 1..Cardinality(S) |-> q[i]]
  BY <1>1
<1>3. ASSUME NEW i \in 1..Cardinality(S), SetToSeq(S)[i] \in S
      PROVE  q[i].op \in ops /\ IsStatementOf(to, q[i])
  <2> DEFINE x == SetToSeq(S)[i]
             s == q[i]
  <2>1. s = [op |-> "add values", name |-> x.name, values |-> x.addValues]
    BY <1>1
  <2>2. x \in S
    BY <1>3
  <2> HIDE DEF x, s
  <2>3. s.op \in ops /\ IsStatementOf(to, s)
    BY <2>1, <2>2 DEF IsStatementOf, IsStatement
  <2>4. QED
    BY <2>3 DEF s
<1> HIDE DEF S
<1>4. IsScript(to, q, ops)
  BY <1>2, <1>3, ScriptOfSet DEF S
<1>5. QED
  BY <1>4 DEF q

(* The changes of columns. *)
LEMMA ChangeScript ==
  ASSUME NEW ops, NEW to, NEW t, NEW f, NEW what, NEW emitted \in BOOLEAN,
         "alter column" \in ops, "name" \notin DOMAIN what, "enum" \notin DOMAIN what
  PROVE  IsScript(to, OptionalStatement(emitted, Change(t, f, what)), ops)
<1> DEFINE s == Change(t, f, what)
<1>1. s = [op |-> "alter column", table |-> t, name |-> f.name, change |-> what]
  BY DEF Change
<1> HIDE DEF s
<1>2. s.op \in ops /\ IsStatementOf(to, s)
  BY <1>1 DEF IsStatementOf, IsStatement
<1>3. IsScript(to, OptionalStatement(emitted, s), ops)
  BY <1>2, ScriptOption
<1>4. QED
  BY <1>3 DEF s

(* One changed column, on each backend. *)
LEMMA AlterColumnScript ==
  ASSUME NEW ops, NEW to, NEW t, NEW f, "alter column" \in ops, "add default" \in ops
  PROVE  /\ IsScript(to, AlterColumn(t, f), ops)
         /\ IsScript(to, MySqlAlterColumn(t, f), ops)
         /\ IsScript(to, MssqlAlterColumn(t, f), ops)
<1>1. IsScript(to, AlterColumn(t, f), ops)
  <2>1. /\ "name" \notin DOMAIN [type |-> f.newType] /\ "enum" \notin DOMAIN [type |-> f.newType]
        /\ "name" \notin DOMAIN [nullable |-> f.newNullable] /\ "enum" \notin DOMAIN [nullable |-> f.newNullable]
        /\ "name" \notin DOMAIN [default |-> f.newDefault] /\ "enum" \notin DOMAIN [default |-> f.newDefault]
    OBVIOUS
  <2>2. /\ IsScript(to, OptionalStatement(f.newType # Absent, Change(t, f, [type |-> f.newType])), ops)
        /\ IsScript(to, OptionalStatement(f.newNullable # Absent,
                                     Change(t, f, [nullable |-> f.newNullable])), ops)
        /\ IsScript(to, OptionalStatement(f.newDefault # Absent,
                                     Change(t, f, [default |-> f.newDefault])), ops)
    BY <2>1, ChangeScript
  <2>3. QED
    BY <2>2, ScriptConcat DEF AlterColumn
<1>2. IsScript(to, MySqlAlterColumn(t, f), ops)
  <2> DEFINE what == [type |-> f.newType, nullable |-> Nullability(f), default |-> f.newDefault]
  <2>1. "name" \notin DOMAIN what /\ "enum" \notin DOMAIN what
    OBVIOUS
  <2> HIDE DEF what
  <2>2. IsScript(to, OptionalStatement(f.newType # Absent, Change(t, f, what)), ops)
    BY <2>1, ChangeScript
  <2>3. QED
    BY <2>2 DEF MySqlAlterColumn, what
<1>3. IsScript(to, MssqlAlterColumn(t, f), ops)
  <2> DEFINE what == [type |-> f.newType, nullable |-> Nullability(f)]
             s == [op |-> "add default", table |-> t, name |-> f.name, default |-> f.newDefault]
  <2>1. "name" \notin DOMAIN what /\ "enum" \notin DOMAIN what
    OBVIOUS
  <2>2. s.op \in ops /\ IsStatementOf(to, s)
    BY DEF IsStatementOf, IsStatement
  <2> HIDE DEF what, s
  <2>3. /\ IsScript(to, OptionalStatement(f.newType # Absent, Change(t, f, what)), ops)
        /\ IsScript(to, OptionalStatement(f.newDefault # Absent, s), ops)
    BY <2>1, <2>2, ChangeScript, ScriptOption
  <2>4. QED
    BY <2>3, ScriptConcat DEF MssqlAlterColumn, what, s
<1>4. QED
  BY <1>1, <1>2, <1>3

(* All changed columns of a table. *)
LEMMA ColumnAltersScript ==
  ASSUME NEW ops, NEW to, NEW b, NEW a, IsFiniteSet(a.alterFields),
         "alter column" \in ops, "add default" \in ops
  PROVE  IsScript(to, ColumnAlters(b, a), ops)
<1> DEFINE S == a.alterFields
           F(f) == CASE b = "MySql" -> MySqlAlterColumn(a.table, f)
                     [] b = "Mssql" -> MssqlAlterColumn(a.table, f)
                     [] OTHER -> AlterColumn(a.table, f)
           ss == [i \in 1..Cardinality(S) |-> F(SetToSeq(S)[i])]
<1>1. ASSUME NEW f PROVE IsScript(to, F(f), ops)
  BY AlterColumnScript
<1>2. ColumnAlters(b, a) = FlattenSeq(ss)
  BY DEF ColumnAlters, Each
<1>3. \A i \in 1..Cardinality(S) : ss[i] = F(SetToSeq(S)[i])
  OBVIOUS
<1> HIDE DEF F
<1>4. ss = [i \in 1..Cardinality(S) |-> ss[i]]
  OBVIOUS
<1> HIDE DEF ss, S
<1>5. \A i \in 1..Cardinality(S) : SetToSeq(S)[i] \in S => IsScript(to, ss[i], ops)
  BY <1>1, <1>3
<1>6. IsFiniteSet(S)
  BY DEF S
<1>7. IsScript(to, FlattenSeq(ss), ops)
  BY <1>4, <1>5, <1>6, ScriptFlatten
<1>8. QED
  BY <1>2, <1>7

(* What a script may hold: everything, or only what adds. *)
Allowed(d, ops) == ops = AllOps \/ (ops = AddingOps /\ OnlyAdds(d))

(* All changed tables. *)
LEMMA AltersScript ==
  ASSUME NEW ops, NEW to, NEW b, NEW d, IsDiff(to, d), Allowed(d, ops)
  PROVE  IsScript(to, Alters(b, d), ops)
<1> DEFINE S == d.alterModels
           F(a) == CASE b = "Sqlite" -> SqliteAlterTable(a)
                     [] b \in {"MySql", "Mssql"} -> AlterTableWithoutIndexes(b, a)
                     [] OTHER -> AlterTable(b, a)
           ss == [i \in 1..Cardinality(S) |-> F(SetToSeq(S)[i])]
<1>1. ASSUME NEW a \in S PROVE IsScript(to, F(a), ops)
  <2>1. /\ IsFiniteSet(a.addFields) /\ IsFiniteSet(a.dropFields) /\ IsFiniteSet(a.alterFields)
        /\ IsFiniteSet(a.addIndexes) /\ IsFiniteSet(a.dropIndexes)
        /\ IsFiniteSet(a.addKeys) /\ IsFiniteSet(a.dropKeys)
        /\ \A c \in a.addFields : IsColumn(c)
        /\ \A i \in a.addIndexes : \E m \in to.models : m.table = a.table /\ i \in m.indexes
    BY DEF IsDiff, Parts
  <2>2. /\ "add column" \in ops /\ "alter column" \in ops /\ "add default" \in ops
        /\ "create index" \in ops /\ "add key" \in ops
    BY DEF Allowed, AllOps, AddingOps
  <2>3. /\ a.dropFields = {} \/ "drop column" \in ops
        /\ a.dropIndexes = {} \/ "drop index" \in ops
        /\ a.dropKeys = {} \/ "drop key" \in ops
    BY DEF Allowed, AllOps, DroppingOps, OnlyAdds
  <2>4. /\ IsScript(to, AddColumns(a), ops)
        /\ IsScript(to, DropColumns(a), ops)
        /\ IsScript(to, ColumnAlters(b, a), ops)
    BY <2>1, <2>2, <2>3, AddColumnsScript, DropColumnsScript, ColumnAltersScript
  <2>5. IsScript(to, AddIndexes(a), ops) /\ IsScript(to, DropIndexes(a), ops)
    BY <2>1, <2>2, <2>3, AddIndexesScript, DropIndexesScript
  <2>6. IsScript(to, AddKeys(a), ops) /\ IsScript(to, DropKeys(a), ops)
    BY <2>1, <2>2, <2>3, AddKeysScript, DropKeysScript
  <2>7. IsScript(to, SqliteAlterTable(a), ops)
    BY <2>4, ScriptConcat DEF SqliteAlterTable
  <2>8. IsScript(to, AlterTableWithoutIndexes(b, a), ops)
    BY <2>4, <2>6, ScriptConcat DEF AlterTableWithoutIndexes
  <2>9. IsScript(to, AlterTable(b, a), ops)
    BY <2>4, <2>5, <2>6, ScriptConcat DEF AlterTable
  <2>10. QED
    BY <2>7, <2>8, <2>9
<1>2. Alters(b, d) = FlattenSeq(ss)
  BY DEF Alters, Each
<1>3. \A i \in 1..Cardinality(S) : ss[i] = F(SetToSeq(S)[i])
  OBVIOUS
<1> HIDE DEF F
<1>4. ss = [i \in 1..Cardinality(S) |-> ss[i]]
  OBVIOUS
<1>5. IsFiniteSet(S)
  BY DEF IsDiff
<1> HIDE DEF ss, S
<1>6. \A i \in 1..Cardinality(S) : SetToSeq(S)[i] \in S => IsScript(to, ss[i], ops)
  BY <1>1, <1>3
<1>7. IsScript(to, FlattenSeq(ss), ops)
  BY <1>4, <1>5, <1>6, ScriptFlatten
<1>8. QED
  BY <1>2, <1>7

(* The length of a sequence given as a function. *)
LEMMA LenOfFunction ==
  ASSUME NEW n \in Nat, NEW q, q = [i \in 1..n |-> q[i]]
  PROVE  Len(q) = n
<1>1. q \in Seq({q[i] : i \in 1..n})
  OBVIOUS
<1>2. DOMAIN q = 1..n
  OBVIOUS
<1>3. QED
  BY <1>1, <1>2, LenProperties

(* The lists in hand: the tables in their order, and those to be dropped. *)
LEMMA CreateTablesScript ==
  ASSUME NEW ops, NEW to, NEW creates, Len(creates) \in Nat, "create table" \in ops,
         \A i \in 1..Len(creates) : IsModel(creates[i]) /\ creates[i] \in to.models
  PROVE  IsScript(to, CreateTables(creates), ops)
<1> DEFINE n == Len(creates)
           q == CreateTables(creates)
<1>1. q = [i \in 1..n |-> [op |-> "create table", model |-> creates[i]]]
  BY DEF CreateTables, CreateTable
<1> HIDE DEF q
<1>2. q = [i \in 1..n |-> q[i]] /\ DOMAIN q = 1..n
  BY <1>1
<1>3. Len(q) = n
  BY <1>2, LenOfFunction
<1>4. ASSUME NEW i \in 1..n PROVE q[i].op \in ops /\ IsStatementOf(to, q[i])
  <2> DEFINE m == creates[i]
             s == q[i]
  <2>1. s = [op |-> "create table", model |-> m] /\ IsModel(m) /\ m \in to.models
    BY <1>1
  <2> HIDE DEF m, s
  <2>2. s.op \in ops /\ IsStatementOf(to, s)
    BY <2>1 DEF IsStatementOf, IsStatement
  <2>3. QED
    BY <2>2 DEF s
<1>5. IsScript(to, q, ops)
  BY <1>2, <1>3, <1>4 DEF IsScript
<1>6. QED
  BY <1>5 DEF q

(* The tables to be dropped, in any order. *)
LEMMA DropTablesScript ==
  ASSUME NEW ops, NEW to, NEW S, IsFiniteSet(S), NEW drops \in Listings(S), S = {} \/ "drop table" \in ops
  PROVE  IsScript(to, DropTables(drops), ops)
<1> DEFINE n == Len(drops)
           q == DropTables(drops)
<1>1. drops \in Seq(S) /\ n \in Nat
  BY ListingProperties, LenProperties
<1>2. q = [i \in 1..n |-> [op |-> "drop table", table |-> drops[i]]]
  BY DEF DropTables, DropTable
<1> HIDE DEF q
<1>3. q = [i \in 1..n |-> q[i]] /\ DOMAIN q = 1..n
  BY <1>2
<1>4. Len(q) = n
  BY <1>1, <1>3, LenOfFunction
<1>5. ASSUME NEW i \in 1..n PROVE q[i].op \in ops /\ IsStatementOf(to, q[i])
  <2> DEFINE t == drops[i]
             s == q[i]
  <2>1. s = [op |-> "drop table", table |-> t] /\ t \in S
    BY <1>1, <1>2, ElementOfSeq
  <2> HIDE DEF t, s
  <2>2. s.op \in ops /\ IsStatementOf(to, s)
    BY <2>1 DEF IsStatementOf, IsStatement
  <2>3. QED
    BY <2>2 DEF s
<1>6. IsScript(to, q, ops)
  BY <1>1, <1>3, <1>4, <1>5 DEF IsScript
<1>7. QED
  BY <1>6 DEF q

(* Views dropped and views created again. *)
LEMMA ChangeViewsScript ==
  ASSUME NEW ops, NEW to, NEW d, IsDiff(to, d), Allowed(d, ops)
  PROVE  IsScript(to, ChangeViews(d), ops)
<1> DEFINE S == d.dropViews
           R == d.alterViews
           q == [i \in 1..Cardinality(S) |->
                   [op |-> "drop view", name |-> SetToSeq(S)[i], materialized |-> FALSE]]
           ss == [i \in 1..Cardinality(R) |->
                    <<DropView(SetToSeq(R)[i].name, SetToSeq(R)[i].materialized),
                      CreateView(SetToSeq(R)[i])>>]
<1>1. ChangeViews(d) = q \o FlattenSeq(ss)
  BY DEF ChangeViews, Each, DropView
<1>2. IsFiniteSet(S) /\ IsFiniteSet(R)
  BY DEF IsDiff
<1>3. /\ S = {} \/ "drop view" \in ops
      /\ R = {} \/ ("drop view" \in ops /\ "create view" \in ops)
  BY DEF Allowed, AllOps, DroppingOps, AddingOps, OnlyAdds
<1>4. IsScript(to, q, ops)
  <2>1. q = [i \in 1..Cardinality(S) |-> q[i]]
    OBVIOUS
  <2>2. ASSUME NEW i \in 1..Cardinality(S), SetToSeq(S)[i] \in S
        PROVE  q[i].op \in ops /\ IsStatementOf(to, q[i])
    <3> DEFINE n == SetToSeq(S)[i]
               s == q[i]
    <3>1. s = [op |-> "drop view", name |-> n, materialized |-> FALSE] /\ n \in S
      BY <2>2
    <3> HIDE DEF n, s
    <3>2. s.op \in ops /\ IsStatementOf(to, s)
      BY <1>3, <3>1 DEF IsStatementOf, IsStatement
    <3>3. QED
      BY <3>2 DEF s
  <2> HIDE DEF q, S
  <2>3. QED
    BY <1>2, <2>1, <2>2, ScriptOfSet
<1>5. IsScript(to, FlattenSeq(ss), ops)
  <2>1. ss = [i \in 1..Cardinality(R) |-> ss[i]]
    OBVIOUS
  <2>2. ASSUME NEW i \in 1..Cardinality(R), SetToSeq(R)[i] \in R
        PROVE  IsScript(to, ss[i], ops)
    <3> DEFINE v == SetToSeq(R)[i]
               s == [op |-> "drop view", name |-> v.name, materialized |-> v.materialized]
               t == [op |-> "create view", view |-> v]
    <3>1. ss[i] = <<s, t>>
      BY DEF DropView, CreateView
    <3>2. v = [name |-> v.name, reads |-> v.reads, sql |-> v.sql, materialized |-> v.materialized]
      BY <2>2 DEF IsDiff
    <3> HIDE DEF v
    <3>3. s.op \in ops /\ IsStatementOf(to, s)
      BY <1>3, <2>2 DEF IsStatementOf, IsStatement
    <3>4. t.op \in ops /\ IsStatementOf(to, t)
      BY <1>3, <2>2, <3>2 DEF IsStatementOf, IsStatement
    <3> HIDE DEF s, t
    <3>5. IsScript(to, <<s, t>>, ops)
      BY <3>3, <3>4 DEF IsScript
    <3>6. QED
      BY <3>1, <3>5
  <2> HIDE DEF ss, R
  <2>3. QED
    BY <1>2, <2>1, <2>2, ScriptFlatten
<1> HIDE DEF q, ss
<1>6. QED
  BY <1>1, <1>4, <1>5, ScriptConcat

(* generate writes statements, and with nothing to drop only adding ones. *)
LEMMA UpScript ==
  ASSUME NEW ops, NEW to, NEW b \in Backends, NEW d, IsDiff(to, d), Allowed(d, ops),
         NEW creates, Len(creates) \in Nat,
         \A i \in 1..Len(creates) : IsModel(creates[i]) /\ creates[i] \in to.models,
         NEW drops \in Listings(d.dropModels)
  PROVE  IsScript(to, Up(b, d, creates, drops), ops)
<1>1. /\ "create type" \in ops /\ "add values" \in ops /\ "create table" \in ops
      /\ "create index" \in ops /\ "create view" \in ops
  BY DEF Allowed, AllOps, AddingOps
<1>2. /\ d.dropModels = {} \/ "drop table" \in ops
      /\ d.dropEnums = {} \/ "drop type" \in ops
  BY DEF Allowed, AllOps, DroppingOps, OnlyAdds
<1>3. /\ IsFiniteSet(d.dropModels) /\ IsFiniteSet(d.createEnums) /\ IsFiniteSet(d.dropEnums)
      /\ IsFiniteSet(d.alterEnums) /\ IsFiniteSet(d.createViews) /\ IsFiniteSet(d.createIndexes)
      /\ \A e \in d.createEnums : e = [name |-> e.name, values |-> e.values]
      /\ \A v \in d.createViews : v = [name |-> v.name, reads |-> v.reads, sql |-> v.sql,
                                       materialized |-> v.materialized]
      /\ \A x \in d.createIndexes : \E m \in to.models : m.table = x.table /\ x.index \in m.indexes
  BY DEF IsDiff
<1>4. IsScript(to, EnumsUp(d), ops)
  <2>1. IsScript(to, Each(d.createEnums, CreateType), ops)
    BY <1>1, <1>3, CreateTypesScript
  <2>2. IsScript(to, Each(d.dropEnums, DropType), ops)
    BY <1>2, <1>3, DropTypesScript
  <2>3. IsScript(to, Each(d.alterEnums, AddValues), ops)
    BY <1>1, <1>3, AddValuesScript
  <2>4. QED
    BY <2>1, <2>2, <2>3, ScriptConcat DEF EnumsUp
<1>5. ASSUME NEW k PROVE IsScript(to, TablesUp(k, d, creates, drops), ops)
  <2>1. IsScript(to, CreateTables(creates), ops)
    BY <1>1, CreateTablesScript
  <2>2. IsScript(to, DropTables(drops), ops)
    BY <1>2, <1>3, DropTablesScript
  <2>3. IsScript(to, Alters(k, d), ops) /\ IsScript(to, ChangeViews(d), ops)
    BY AltersScript, ChangeViewsScript
  <2>4. IsScript(to, CreateIndexes(d), ops) /\ IsScript(to, CreateViews(d), ops)
    BY <1>1, <1>3, CreateIndexesScript, CreateViewsScript
  <2>5. QED
    BY <2>1, <2>2, <2>3, <2>4, ScriptConcat DEF TablesUp
<1>6. IsScript(to, EnumsUp(d) \o TablesUp("Postgres", d, creates, drops), ops)
  BY <1>4, <1>5, ScriptConcat
<1>7. IsScript(to, EnumsUp(d) \o TablesUp("DuckDb", d, creates, drops), ops)
  BY <1>4, <1>5, ScriptConcat
<1>8. QED
  BY <1>5, <1>6, <1>7 DEF Up, Backends, PostgresUp, MySqlUp, SqliteUp, MssqlUp, DuckDbUp

---------------------------------------------------------------------------
(* Schemas and differences *)

(* What a finite set is mapped to is finite. *)
LEMMA ImageIsFinite ==
  ASSUME NEW S, IsFiniteSet(S), NEW f, NEW T, T = {f[x] : x \in S}
  PROVE  IsFiniteSet(T)
<1> DEFINE g == [x \in S |-> f[x]]
<1>1. g \in [S -> T] /\ \A y \in T : \E x \in S : g[x] = y
  OBVIOUS
<1>2. g \in Surjection(S, T)
  BY <1>1 DEF Surjection
<1>3. QED
  BY <1>2, FS_Surjection

(* Names and tables of finite sets. *)
LEMMA NamesAreFinite ==
  ASSUME NEW S, IsFiniteSet(S)
  PROVE  IsFiniteSet(Names(S))
<1> DEFINE f == [x \in S |-> x.name]
<1>1. Names(S) = {f[x] : x \in S}
  BY DEF Names
<1> HIDE DEF f
<1>2. QED
  BY <1>1, ImageIsFinite

(* The tables of a schema. *)
LEMMA TablesAreFinite ==
  ASSUME NEW s, IsFiniteSet(s.models)
  PROVE  IsFiniteSet(Tables(s))
<1> DEFINE S == s.models
           f == [m \in S |-> m.table]
<1>1. Tables(s) = {f[m] : m \in S}
  BY DEF Tables
<1> HIDE DEF f
<1>2. QED
  BY <1>1, ImageIsFinite

(* The model of a table is the one with its name. *)
LEMMA ModelOfFacts ==
  ASSUME NEW s, NEW t, t \in Tables(s)
  PROVE  ModelOf(s, t) \in s.models /\ ModelOf(s, t).table = t
BY DEF Tables, ModelOf

(* No schema, the one of create_migration, is one. *)
LEMMA EmptyIsSchema == IsSchema(EmptySchema)
BY FS_EmptySet DEF IsSchema, EmptySchema

(* What is introspected is a schema without views. *)
LEMMA IntrospectIsSchema ==
  ASSUME NEW s, IsSchema(s)
  PROVE  IsSchema(Introspect(s)) /\ Introspect(s).views = {}
<1> DEFINE S == s.models
           f == [m \in S |-> [m EXCEPT !.indexes = IntrospectIndexes(@)]]
           T == {f[m] : m \in S}
<1>1. Introspect(s) = [models |-> T, enums |-> s.enums, views |-> {}]
  BY DEF Introspect
<1>2. IsFiniteSet(T)
  <2> HIDE DEF f
  <2>1. IsFiniteSet(S)
    BY DEF IsSchema
  <2>2. QED
    BY <2>1, ImageIsFinite
<1>3. ASSUME NEW m \in S PROVE IsModel(f[m]) /\ f[m].table = m.table
  <2>1. IsModel(m)
    BY DEF IsSchema
  <2>2. m = [table |-> m.table, columns |-> m.columns, keys |-> m.keys, indexes |-> m.indexes]
    BY <2>1 DEF IsModel
  <2>3. IsFiniteSet(IntrospectIndexes(m.indexes))
    <3> DEFINE J == {j \in m.indexes : ~(j.unique /\ Len(j.columns) = 1)}
               g == [i \in J |-> [i EXCEPT !.constraint = FALSE]]
    <3>1. IsFiniteSet(J)
      BY <2>1, FS_Subset DEF IsModel
    <3>2. IntrospectIndexes(m.indexes) = {g[i] : i \in J}
      BY DEF IntrospectIndexes
    <3> HIDE DEF g, J
    <3>3. QED
      BY <3>1, <3>2, ImageIsFinite
  <2>4. f[m] = [table |-> m.table, columns |-> m.columns, keys |-> m.keys,
                indexes |-> IntrospectIndexes(m.indexes)]
    BY <2>2
  <2> HIDE DEF f
  <2>5. QED
    BY <2>1, <2>3, <2>4 DEF IsModel
<1>4. \A m, n \in T : m.table = n.table => m = n
  <2>1. \A m, n \in S : m.table = n.table => m = n
    BY DEF IsSchema
  <2> HIDE DEF f
  <2>2. QED
    BY <1>3, <2>1
<1>5. /\ \A e \in s.enums : e = [name |-> e.name, values |-> e.values]
      /\ IsFiniteSet(s.enums)
  BY DEF IsSchema
<1> HIDE DEF f
<1>6. \A m \in T : IsModel(m)
  BY <1>3
<1> HIDE DEF T
<1>7. QED
  BY <1>1, <1>2, <1>4, <1>5, <1>6, FS_EmptySet DEF IsSchema

(* The change of a table has finite parts. *)
LEMMA ModelAlterIsFinite ==
  ASSUME NEW a, NEW b, IsModel(a), IsModel(b)
  PROVE  /\ \A p \in Parts : IsFiniteSet(ModelAlter(a, b)[p])
         /\ \A c \in ModelAlter(a, b).addFields : IsColumn(c)
         /\ ModelAlter(a, b).table = b.table
         /\ ModelAlter(a, b).addIndexes \subseteq b.indexes
<1> DEFINE r == ModelAlter(a, b)
<1>1. /\ IsFiniteSet(a.columns) /\ IsFiniteSet(a.keys) /\ IsFiniteSet(a.indexes)
      /\ IsFiniteSet(b.columns) /\ IsFiniteSet(b.keys) /\ IsFiniteSet(b.indexes)
      /\ \A c \in b.columns : IsColumn(c)
  BY DEF IsModel
<1>2. r.addFields \subseteq b.columns
  BY DEF ModelAlter
<1>3. IsFiniteSet(r.addFields)
  BY <1>1, <1>2, FS_Subset
<1>4. IsFiniteSet(r.dropFields)
  <2>1. r.dropFields = Names(a.columns) \ Names(b.columns)
    BY DEF ModelAlter
  <2>2. QED
    BY <1>1, <2>1, NamesAreFinite, FS_Difference
<1>5. IsFiniteSet(r.alterFields)
  <2> DEFINE J == {c \in b.columns : /\ c.name \in Names(a.columns)
                                     /\ FieldChanged(Named(a.columns, c.name), c)}
             g == [c \in J |-> FieldAlter(Named(a.columns, c.name), c)]
  <2>1. IsFiniteSet(J)
    BY <1>1, FS_Subset
  <2>2. r.alterFields = {g[c] : c \in J}
    BY DEF ModelAlter
  <2> HIDE DEF g, J, r
  <2>3. QED
    BY <2>1, <2>2, ImageIsFinite
<1>6. IsFiniteSet(r.addIndexes)
  <2>1. r.addIndexes \subseteq b.indexes
    BY DEF ModelAlter, OnePerShape
  <2>2. QED
    BY <1>1, <2>1, FS_Subset
<1>7. IsFiniteSet(r.dropIndexes)
  <2> DEFINE J == {i \in OnePerShape(a.indexes) : Shape(i) \notin Shapes(b.indexes)}
  <2>1. J \subseteq a.indexes
    BY DEF OnePerShape
  <2>2. IsFiniteSet(J)
    BY <1>1, <2>1, FS_Subset
  <2>3. r.dropIndexes = Names(J)
    BY DEF ModelAlter
  <2> HIDE DEF J
  <2>4. QED
    BY <2>2, <2>3, NamesAreFinite
<1>8. IsFiniteSet(r.addKeys)
  <2>1. r.addKeys \subseteq b.keys
    BY DEF ModelAlter
  <2>2. QED
    BY <1>1, <2>1, FS_Subset
<1>9. IsFiniteSet(r.dropKeys)
  <2>1. r.dropKeys = Names(a.keys) \ Names(b.keys)
    BY DEF ModelAlter
  <2>2. QED
    BY <1>1, <2>1, NamesAreFinite, FS_Difference
<1> HIDE DEF r
<1>10. /\ \A p \in Parts : IsFiniteSet(r[p])
       /\ \A c \in r.addFields : IsColumn(c)
  BY <1>1, <1>2, <1>3, <1>4, <1>5, <1>6, <1>7, <1>8, <1>9 DEF Parts
<1>11. r.table = b.table /\ r.addIndexes \subseteq b.indexes
  BY DEF r, ModelAlter, OnePerShape
<1>12. QED
  BY <1>10, <1>11 DEF r

(* The difference of two schemas has finite parts, made of what they hold. *)
LEMMA DiffIsDiff ==
  ASSUME NEW s, NEW t, IsSchema(s), IsSchema(t)
  PROVE  /\ IsDiff(t, Diff(s, t))
         /\ Diff(s, t).createModels \subseteq t.models
         /\ s.views = {} => Diff(s, t).alterViews = {}
<1> DEFINE d == Diff(s, t)
<1>1. /\ IsFiniteSet(s.models) /\ IsFiniteSet(s.enums) /\ IsFiniteSet(s.views)
      /\ IsFiniteSet(t.models) /\ IsFiniteSet(t.enums) /\ IsFiniteSet(t.views)
      /\ \A m \in s.models \cup t.models : IsModel(m)
      /\ \A e \in t.enums : e = [name |-> e.name, values |-> e.values]
      /\ \A v \in t.views : v = [name |-> v.name, reads |-> v.reads, sql |-> v.sql,
                                 materialized |-> v.materialized]
  BY DEF IsSchema
<1>2. /\ d.createModels \subseteq t.models
      /\ d.createEnums \subseteq t.enums
      /\ d.createViews \subseteq t.views
      /\ d.alterViews \subseteq t.views
      /\ s.views = {} => d.alterViews = {}
  BY DEF Diff, Names
<1>3. /\ IsFiniteSet(d.createModels) /\ IsFiniteSet(d.createEnums)
      /\ IsFiniteSet(d.createViews) /\ IsFiniteSet(d.alterViews)
  BY <1>1, <1>2, FS_Subset
<1>4. IsFiniteSet(d.dropModels)
  <2>1. d.dropModels = Tables(s) \ Tables(t)
    BY DEF Diff
  <2> HIDE DEF d
  <2>2. IsFiniteSet(Tables(s))
    BY <1>1, TablesAreFinite
  <2>3. QED
    BY <2>1, <2>2, FS_Difference
<1>5. IsFiniteSet(d.dropEnums)
  <2>1. d.dropEnums = Names(s.enums) \ Names(t.enums)
    BY DEF Diff
  <2> HIDE DEF d
  <2>2. IsFiniteSet(Names(s.enums))
    BY <1>1, NamesAreFinite
  <2>3. QED
    BY <2>1, <2>2, FS_Difference
<1>6. IsFiniteSet(d.dropViews)
  <2>1. d.dropViews = Names(s.views) \ Names(t.views)
    BY DEF Diff
  <2> HIDE DEF d
  <2>2. IsFiniteSet(Names(s.views))
    BY <1>1, NamesAreFinite
  <2>3. QED
    BY <2>1, <2>2, FS_Difference
<1>7. IsFiniteSet(d.alterEnums)
  <2> DEFINE J == {e \in {x \in t.enums : x.name \in Names(s.enums)} :
                      e.values # Named(s.enums, e.name).values}
             g == [e \in J |-> EnumAlter(Named(s.enums, e.name), e)]
  <2>1. IsFiniteSet(J)
    BY <1>1, FS_Subset
  <2>2. d.alterEnums = {g[e] : e \in J}
    BY DEF Diff
  <2> HIDE DEF g, J, d
  <2>3. QED
    BY <2>1, <2>2, ImageIsFinite
<1>8. /\ IsFiniteSet(d.alterModels)
      /\ \A a \in d.alterModels : /\ \A p \in Parts : IsFiniteSet(a[p])
                                  /\ \A c \in a.addFields : IsColumn(c)
                                  /\ \A i \in a.addIndexes : \E m \in t.models : m.table = a.table /\ i \in m.indexes
  <2> DEFINE J == {m \in t.models : m.table \in Tables(s)}
             g == [m \in J |-> ModelAlter(ModelOf(s, m.table), m)]
             G == {g[m] : m \in J}
  <2>1. IsFiniteSet(J)
    BY <1>1, FS_Subset
  <2>2. d.alterModels \subseteq G
    BY DEF Diff
  <2>3. \A m \in J : ModelOf(s, m.table) \in s.models
    BY ModelOfFacts
  <2>4. \A m \in J : /\ \A p \in Parts : IsFiniteSet(ModelAlter(ModelOf(s, m.table), m)[p])
                     /\ \A c \in ModelAlter(ModelOf(s, m.table), m).addFields : IsColumn(c)
                     /\ ModelAlter(ModelOf(s, m.table), m).table = m.table
                     /\ ModelAlter(ModelOf(s, m.table), m).addIndexes \subseteq m.indexes
    BY <1>1, <2>3, ModelAlterIsFinite
  <2>5. \A a \in G : /\ \A p \in Parts : IsFiniteSet(a[p])
                     /\ \A c \in a.addFields : IsColumn(c)
                     /\ \E m \in t.models : m.table = a.table /\ a.addIndexes \subseteq m.indexes
    BY <2>4, Zenon
  <2> HIDE DEF g, J, d
  <2>6. IsFiniteSet(G)
    BY <2>1, ImageIsFinite
  <2>7. IsFiniteSet(d.alterModels)
    BY <2>2, <2>6, FS_Subset
  <2> HIDE DEF G
  <2>8. QED
    BY <2>2, <2>5, <2>7
<1>9. IsFiniteSet(d.createIndexes)
  <2> DEFINE J == d.createModels
             I(m) == {j \in m.indexes : ~j.unique}
             h(m) == {[table |-> m.table, index |-> i] : i \in I(m)}
             g == [m \in J |-> h(m)]
             G == {g[m] : m \in J}
  <2> DEFINE M == {m \in t.models : m.table \notin Tables(s)}
  <2>0. d.createIndexes = UNION {h(m) : m \in M} /\ J = M
    BY DEF Diff
  <2>1. d.createIndexes = UNION G
    <3>1. G = {h(m) : m \in J}
      <4> HIDE DEF h, J
      <4>1. QED
        OBVIOUS
    <3>2. QED
      BY <2>0, <3>1, Zenon
  <2>2. ASSUME NEW m \in J PROVE IsFiniteSet(h(m))
    <3> DEFINE K == I(m)
               k == [i \in K |-> [table |-> m.table, index |-> i]]
    <3>1. IsFiniteSet(K)
      BY <1>1, <1>2, FS_Subset DEF IsModel
    <3>2. h(m) = {k[i] : i \in K}
      OBVIOUS
    <3> HIDE DEF k, K, h
    <3>3. QED
      BY <3>1, <3>2, ImageIsFinite
  <2>3. \A T \in G : IsFiniteSet(T)
    BY <2>2
  <2> HIDE DEF g
  <2>4. IsFiniteSet(G)
    BY <1>3, ImageIsFinite
  <2> HIDE DEF G
  <2>5. QED
    BY <2>1, <2>3, <2>4, FS_UNION
<1>10. \A x \in d.createIndexes : \E m \in t.models : m.table = x.table /\ x.index \in m.indexes
  BY DEF Diff
<1> HIDE DEF d
<1>11. IsDiff(t, d)
  BY <1>1, <1>2, <1>3, <1>4, <1>5, <1>6, <1>7, <1>8, <1>9, <1>10 DEF IsDiff
<1>12. QED
  BY <1>2, <1>11 DEF d

(* Without destruction a difference drops nothing. *)
LEMMA StripDestructiveOnlyAdds ==
  ASSUME NEW s, NEW t, IsSchema(s), IsSchema(t), s.views = {}
  PROVE  /\ IsDiff(t, StripDestructive(Diff(s, t)))
         /\ OnlyAdds(StripDestructive(Diff(s, t)))
         /\ StripDestructive(Diff(s, t)).createModels \subseteq t.models
<1> DEFINE d == Diff(s, t)
           strip(b) == [b EXCEPT !.dropFields = {}, !.dropIndexes = {}, !.dropKeys = {}]
           A == {a \in {strip(b) : b \in d.alterModels} : ~IsNoChange(a)}
           E == {a \in {[b EXCEPT !.removeValues = {}] : b \in d.alterEnums} : a.addValues # {}}
           r == StripDestructive(d)
<1>1. IsDiff(t, d) /\ d.createModels \subseteq t.models /\ d.alterViews = {}
  BY DiffIsDiff
<1>2. d = [createModels |-> d.createModels, dropModels |-> d.dropModels,
           alterModels |-> d.alterModels, createEnums |-> d.createEnums,
           dropEnums |-> d.dropEnums, alterEnums |-> d.alterEnums,
           createViews |-> d.createViews, dropViews |-> d.dropViews,
           alterViews |-> d.alterViews, createIndexes |-> d.createIndexes]
  BY DEF Diff
<1>3. \A b \in d.alterModels : \E x, m : b = ModelAlter(x, m)
  BY DEF Diff
<1> HIDE DEF d
<1>4. r = [createModels |-> d.createModels, dropModels |-> {},
           alterModels |-> A, createEnums |-> d.createEnums,
           dropEnums |-> {}, alterEnums |-> E,
           createViews |-> d.createViews, dropViews |-> {},
           alterViews |-> d.alterViews, createIndexes |-> d.createIndexes]
  <2> HIDE DEF A, E
  <2>1. StripDestructive(d) = [d EXCEPT !.dropModels = {}, !.dropEnums = {}, !.dropViews = {},
                                        !.alterModels = A, !.alterEnums = E]
    BY DEF StripDestructive, A, E
  <2>2. QED
    BY <1>2, <2>1
<1>5. ASSUME NEW b \in d.alterModels
      PROVE  strip(b) = [table |-> b.table, addFields |-> b.addFields, dropFields |-> {},
                         alterFields |-> b.alterFields, addIndexes |-> b.addIndexes,
                         dropIndexes |-> {}, addKeys |-> b.addKeys, dropKeys |-> {}]
  <2>1. PICK x, m : b = ModelAlter(x, m)
    BY <1>3
  <2>2. DOMAIN b = {"table", "addFields", "dropFields", "alterFields", "addIndexes",
                    "dropIndexes", "addKeys", "dropKeys"}
    BY <2>1 DEF ModelAlter
  <2>3. strip(b) = [p \in DOMAIN b |-> IF p \in {"dropFields", "dropIndexes", "dropKeys"}
                                      THEN {} ELSE b[p]]
    OBVIOUS
  <2>4. QED
    BY <2>2, <2>3
<1>6. ASSUME NEW a \in A
      PROVE  /\ \A p \in Parts : IsFiniteSet(a[p])
             /\ \A c \in a.addFields : IsColumn(c)
             /\ \A i \in a.addIndexes : \E m \in t.models : m.table = a.table /\ i \in m.indexes
             /\ a.dropFields = {} /\ a.dropIndexes = {} /\ a.dropKeys = {}
  <2>1. PICK b \in d.alterModels : a = strip(b)
    OBVIOUS
  <2>2. /\ \A p \in Parts : IsFiniteSet(b[p])
        /\ \A c \in b.addFields : IsColumn(c)
        /\ \A i \in b.addIndexes : \E m \in t.models : m.table = b.table /\ i \in m.indexes
    BY <1>1 DEF IsDiff
  <2>3. a = [table |-> b.table, addFields |-> b.addFields, dropFields |-> {},
             alterFields |-> b.alterFields, addIndexes |-> b.addIndexes,
             dropIndexes |-> {}, addKeys |-> b.addKeys, dropKeys |-> {}]
    BY <1>5, <2>1
  <2> HIDE DEF A, strip
  <2>4. QED
    BY <2>2, <2>3, FS_EmptySet DEF Parts
<1>7. IsFiniteSet(A)
  <2> DEFINE S == d.alterModels
             f == [b \in S |-> strip(b)]
             G == {f[b] : b \in S}
  <2>1. A \subseteq G
    OBVIOUS
  <2> HIDE DEF f
  <2>2. IsFiniteSet(G)
    BY <1>1, ImageIsFinite DEF IsDiff
  <2> HIDE DEF G, A
  <2>3. QED
    BY <2>1, <2>2, FS_Subset
<1>8. IsFiniteSet(E)
  <2> DEFINE S == d.alterEnums
             f == [b \in S |-> [b EXCEPT !.removeValues = {}]]
             G == {f[b] : b \in S}
  <2>1. E \subseteq G
    OBVIOUS
  <2> HIDE DEF f
  <2>2. IsFiniteSet(G)
    BY <1>1, ImageIsFinite DEF IsDiff
  <2> HIDE DEF G, E
  <2>3. QED
    BY <2>1, <2>2, FS_Subset
<1> HIDE DEF A, E, r
<1>9. IsDiff(t, r)
  BY <1>1, <1>4, <1>6, <1>7, <1>8, FS_EmptySet DEF IsDiff
<1>10. OnlyAdds(r) /\ r.createModels \subseteq t.models
  BY <1>1, <1>4, <1>6 DEF OnlyAdds
<1>11. QED
  BY <1>9, <1>10 DEF r, d

---------------------------------------------------------------------------
(* Catalogs *)

(* A stored column is a column of the same name. *)
LEMMA StoredIsColumn ==
  ASSUME NEW b, NEW c, IsColumn(c)
  PROVE  IsColumn(Stored(b, c)) /\ Stored(b, c).name = c.name
<1>1. DOMAIN c = {"name", "type", "enum", "nullable", "default"}
  BY DEF IsColumn
<1>2. Stored(b, c) = [name |-> c.name, type |-> c.type,
                      enum |-> IF b = "Postgres" THEN c.enum ELSE Absent,
                      nullable |-> c.nullable, default |-> c.default]
  BY <1>1 DEF Stored
<1>3. QED
  BY <1>2 DEF IsColumn

(* Stored columns are columns. *)
LEMMA StoredColumns ==
  ASSUME NEW b, NEW C, IsFiniteSet(C), \A c \in C : IsColumn(c)
  PROVE  /\ IsFiniteSet({Stored(b, c) : c \in C})
         /\ \A c \in {Stored(b, x) : x \in C} : IsColumn(c)
<1> DEFINE f == [c \in C |-> Stored(b, c)]
<1>1. {Stored(b, c) : c \in C} = {f[c] : c \in C}
  OBVIOUS
<1> HIDE DEF f
<1>2. IsFiniteSet({Stored(b, c) : c \in C})
  BY ZenonT(60), <1>1, ImageIsFinite
<1>3. QED
  BY <1>2, StoredIsColumn

(* A model has finitely many constraints. *)
LEMMA ConstraintsAreFinite ==
  ASSUME NEW m, IsFiniteSet(m.indexes)
  PROVE  IsFiniteSet(Constraints(m))
<1> DEFINE J == {j \in m.indexes : j.unique}
           f == [i \in J |-> [i EXCEPT !.constraint = TRUE]]
<1>1. IsFiniteSet(J)
  BY FS_Subset
<1>2. Constraints(m) = {f[i] : i \in J}
  BY DEF Constraints
<1> HIDE DEF f, J
<1>3. QED
  BY <1>1, <1>2, ImageIsFinite

Mapped(f, S) == {f[x] : x \in S}

(* The changes to a catalog that leave it a schema: some of its tables     *)
(* changed, each under its name; or one table put in.                      *)
LEMMA MapModels ==
  ASSUME NEW s, IsSchema(s), NEW S \in SUBSET s.models, NEW f,
         \A m \in S : IsModel(f[m]) /\ f[m].table = m.table
  PROVE  /\ IsFiniteSet(Mapped(f, S))
         /\ \A m \in Mapped(f, S) : IsModel(m)
         /\ \A m, n \in Mapped(f, S) : m.table = n.table => m = n
<1>1. IsFiniteSet(S)
  BY FS_Subset DEF IsSchema
<1>2. IsFiniteSet(Mapped(f, S))
  BY <1>1, ImageIsFinite DEF Mapped
<1>3. \A m, n \in S : m.table = n.table => m = n
  BY DEF IsSchema
<1>4. QED
  BY <1>2, <1>3 DEF Mapped

(* A catalog with one more or one changed table. *)
LEMMA WithModelIsSchema ==
  ASSUME NEW s, IsSchema(s), NEW m, IsModel(m)
  PROVE  /\ IsSchema(WithModel(s, m))
         /\ WithModel(s, m) = [models |-> {x \in s.models : x.table # m.table} \cup {m},
                               enums |-> s.enums, views |-> s.views]
<1> DEFINE L == {x \in s.models : x.table # m.table}
           r == WithModel(s, m)
<1>1. DOMAIN s = {"models", "enums", "views"}
  BY DEF IsSchema
<1>2. r = [models |-> L \cup {m}, enums |-> s.enums, views |-> s.views]
  BY <1>1 DEF WithModel
<1>3. IsFiniteSet(L \cup {m})
  <2>1. IsFiniteSet(L)
    BY FS_Subset DEF IsSchema
  <2> HIDE DEF L
  <2>2. QED
    BY <2>1, FS_AddElement
<1>4. /\ \A x \in L \cup {m} : IsModel(x)
      /\ \A x, y \in L \cup {m} : x.table = y.table => x = y
  BY DEF IsSchema
<1> HIDE DEF r
<1>5. IsSchema(r)
  BY <1>2, <1>3, <1>4 DEF IsSchema
<1>6. QED
  BY <1>2, <1>5 DEF r

(* A changed table that has what it had makes the catalog grow. *)
LEMMA WithModelGrows ==
  ASSUME NEW s, IsSchema(s), NEW m, IsModel(m),
         m.table \in Tables(s) =>
           LET old == ModelOf(s, m.table)
           IN  /\ Names(old.columns) \subseteq Names(m.columns)
               /\ old.keys \subseteq m.keys
               /\ old.indexes \subseteq m.indexes
  PROVE  Grows(s, WithModel(s, m))
<1> DEFINE r == WithModel(s, m)
<1>1. r = [models |-> {x \in s.models : x.table # m.table} \cup {m},
           enums |-> s.enums, views |-> s.views]
  BY WithModelIsSchema
<1> HIDE DEF r
<1>2. /\ r.models = {x \in s.models : x.table # m.table} \cup {m}
      /\ r.enums = s.enums /\ r.views = s.views
  BY <1>1
<1>3. ASSUME NEW x \in s.models
      PROVE  \E n \in r.models : /\ n.table = x.table
                                 /\ Names(x.columns) \subseteq Names(n.columns)
                                 /\ x.keys \subseteq n.keys
                                 /\ x.indexes \subseteq n.indexes
  <2>1. CASE x.table # m.table
    BY <1>2, <2>1
  <2>2. CASE x.table = m.table
    <3>1. m.table \in Tables(s)
      BY <2>2 DEF Tables
    <3>2. ModelOf(s, m.table) = x
      BY <2>2, <3>1, ModelOfFacts DEF IsSchema
    <3>3. QED
      BY <1>2, <2>2, <3>1, <3>2
  <2>3. QED
    BY <2>1, <2>2
<1>4. QED
  BY <1>2, <1>3 DEF Grows, r

(* Growing is an order. *)
LEMMA GrowsIsReflexive ==
  ASSUME NEW s
  PROVE  Grows(s, s)
BY DEF Grows

(* Growing, and growing again. *)
LEMMA GrowsIsTransitive ==
  ASSUME NEW s, NEW t, NEW u, Grows(s, t), Grows(t, u)
  PROVE  Grows(s, u)
<1>1. ASSUME NEW m \in s.models
      PROVE  \E n \in u.models : /\ n.table = m.table
                                 /\ Names(m.columns) \subseteq Names(n.columns)
                                 /\ m.keys \subseteq n.keys
                                 /\ m.indexes \subseteq n.indexes
  <2>1. PICK x \in t.models : /\ x.table = m.table
                              /\ Names(m.columns) \subseteq Names(x.columns)
                              /\ m.keys \subseteq x.keys
                              /\ m.indexes \subseteq x.indexes
    BY DEF Grows
  <2>2. PICK n \in u.models : /\ n.table = x.table
                              /\ Names(x.columns) \subseteq Names(n.columns)
                              /\ x.keys \subseteq n.keys
                              /\ x.indexes \subseteq n.indexes
    BY DEF Grows
  <2>3. QED
    BY <2>1, <2>2
<1>2. ASSUME NEW e \in s.enums
      PROVE  \E n \in u.enums : n.name = e.name /\ e.values \subseteq n.values
  <2>1. PICK x \in t.enums : x.name = e.name /\ e.values \subseteq x.values
    BY DEF Grows
  <2>2. PICK n \in u.enums : n.name = x.name /\ x.values \subseteq n.values
    BY DEF Grows
  <2>3. QED
    BY <2>1, <2>2
<1>3. Names(s.views) \subseteq Names(u.views)
  BY DEF Grows
<1>4. QED
  BY <1>1, <1>2, <1>3 DEF Grows

(* A database built from a schema is one. *)
LEMMA BuiltIsSchema ==
  ASSUME NEW b, NEW s, IsSchema(s)
  PROVE  IsSchema(Built(b, s))
<1> DEFINE S == s.models
           f == [m \in S |-> [m EXCEPT !.columns = {Stored(b, c) : c \in @},
                                       !.indexes = Constraints(m) \cup {i \in @ : ~i.unique}]]
           M == {f[m] : m \in S}
           E == IF b \in {"Postgres", "DuckDb"} THEN s.enums ELSE {}
           g == [v \in s.views |-> [v EXCEPT !.materialized = @ /\ b = "Postgres"]]
           V == {g[v] : v \in s.views}
<1>1. Built(b, s) = [models |-> M, enums |-> E, views |-> V]
  BY DEF Built
<1>2. ASSUME NEW m \in S PROVE IsModel(f[m]) /\ f[m].table = m.table
  <2>1. IsModel(m)
    BY DEF IsSchema
  <2>2. DOMAIN m = {"table", "columns", "keys", "indexes"}
    BY <2>1 DEF IsModel
  <2> DEFINE C == {Stored(b, c) : c \in m.columns}
             I == Constraints(m) \cup {i \in m.indexes : ~i.unique}
  <2>3. f[m] = [table |-> m.table, columns |-> C, keys |-> m.keys, indexes |-> I]
    BY <2>2
  <2>4. IsFiniteSet(C) /\ \A c \in C : IsColumn(c)
    BY <2>1, StoredColumns DEF IsModel
  <2>5. IsFiniteSet(I)
    BY <2>1, ConstraintsAreFinite, FS_Subset, FS_Union DEF IsModel
  <2> HIDE DEF f, C, I
  <2>6. QED
    BY <2>1, <2>3, <2>4, <2>5 DEF IsModel
<1>3. IsFiniteSet(V) /\ \A v \in V : v = [name |-> v.name, reads |-> v.reads, sql |-> v.sql,
                                          materialized |-> v.materialized]
  <2>1. ASSUME NEW v \in s.views
        PROVE  g[v] = [name |-> g[v].name, reads |-> g[v].reads, sql |-> g[v].sql,
                       materialized |-> g[v].materialized]
    <3>1. DOMAIN v = {"name", "reads", "sql", "materialized"}
      BY DEF IsSchema
    <3> DEFINE w == g[v]
    <3>2. w = [name |-> v.name, reads |-> v.reads, sql |-> v.sql,
               materialized |-> v.materialized /\ b = "Postgres"]
      BY <3>1
    <3> HIDE DEF w
    <3>3. w = [name |-> w.name, reads |-> w.reads, sql |-> w.sql, materialized |-> w.materialized]
      BY <3>2
    <3>4. QED
      BY <3>3 DEF w
  <2> HIDE DEF g
  <2>2. IsFiniteSet(V)
    BY ImageIsFinite DEF IsSchema
  <2>3. QED
    BY <2>1, <2>2
<1>4. IsFiniteSet(E) /\ \A e \in E : e = [name |-> e.name, values |-> e.values]
  BY FS_EmptySet DEF IsSchema
<1> HIDE DEF f
<1>5. /\ IsFiniteSet(M)
      /\ \A m \in M : IsModel(m)
      /\ \A m, n \in M : m.table = n.table => m = n
  <2>1. S \in SUBSET s.models /\ \A m \in S : IsModel(f[m]) /\ f[m].table = m.table
    BY <1>2
  <2>2. M = Mapped(f, S)
    BY DEF Mapped
  <2> HIDE DEF S, M
  <2>3. QED
    BY <2>1, <2>2, MapModels
<1> HIDE DEF M, V, E
<1>6. QED
  BY <1>1, <1>3, <1>4, <1>5 DEF IsSchema

(* A column keeps its name when it is altered. *)
LEMMA AlterColumnKeepsModel ==
  ASSUME NEW m, IsModel(m), NEW c \in Names(m.columns), NEW change, "name" \notin DOMAIN change
  PROVE  LET r == AlterColumnEffect(m, c, change)
         IN  /\ IsModel(r) /\ r.table = m.table
             /\ Names(m.columns) \subseteq Names(r.columns)
             /\ r.keys = m.keys /\ r.indexes = m.indexes
<1> DEFINE old == Named(m.columns, c)
           new == [f \in DOMAIN old |-> IF f \in DOMAIN change THEN change[f] ELSE old[f]]
           C == (m.columns \ {old}) \cup {new}
           r == AlterColumnEffect(m, c, change)
<1>1. old \in m.columns /\ old.name = c
  BY DEF Names, Named
<1>2. DOMAIN m = {"table", "columns", "keys", "indexes"}
  BY DEF IsModel
<1>3. r = [table |-> m.table, columns |-> C, keys |-> m.keys, indexes |-> m.indexes]
  <2>1. r = [m EXCEPT !.columns = C]
    BY DEF AlterColumnEffect
  <2> HIDE DEF r, C
  <2>2. QED
    BY <1>2, <2>1
<1>4. IsColumn(new) /\ new.name = old.name
  <2>1. DOMAIN old = {"name", "type", "enum", "nullable", "default"}
    BY <1>1 DEF IsModel, IsColumn
  <2> DEFINE n == new
  <2>2. DOMAIN n = {"name", "type", "enum", "nullable", "default"} /\ n.name = old.name
    BY <2>1
  <2>3. n = [f \in DOMAIN n |-> n[f]]
    OBVIOUS
  <2> HIDE DEF n, old
  <2>4. n = [name |-> n.name, type |-> n.type, enum |-> n.enum,
             nullable |-> n.nullable, default |-> n.default]
    BY <2>2, <2>3
  <2>5. IsColumn(n)
    BY <2>4 DEF IsColumn
  <2>6. QED
    BY <2>2, <2>5 DEF n
<1> HIDE DEF old, new, r
<1>5. /\ \A x \in C : IsColumn(x)
      /\ Names(m.columns) \subseteq Names(C)
  BY <1>1, <1>4 DEF IsModel, Names
<1>6. IsFiniteSet(C)
  <2>1. IsFiniteSet(m.columns \ {old})
    BY FS_Subset DEF IsModel
  <2>2. QED
    BY <2>1, FS_AddElement
<1> HIDE DEF C
<1>7. /\ IsModel(r) /\ r.table = m.table
      /\ Names(m.columns) \subseteq Names(r.columns)
      /\ r.keys = m.keys /\ r.indexes = m.indexes
  BY <1>3, <1>5, <1>6 DEF IsModel
<1>8. QED
  BY <1>7 DEF r

(* The EXCEPTs of the catalog, written out. *)
LEMMA ModelParts ==
  ASSUME NEW m, IsModel(m), NEW C, NEW K, NEW I
  PROVE  /\ [m EXCEPT !.columns = C] =
              [table |-> m.table, columns |-> C, keys |-> m.keys, indexes |-> m.indexes]
         /\ [m EXCEPT !.keys = K] =
              [table |-> m.table, columns |-> m.columns, keys |-> K, indexes |-> m.indexes]
         /\ [m EXCEPT !.indexes = I] =
              [table |-> m.table, columns |-> m.columns, keys |-> m.keys, indexes |-> I]
<1>1. DOMAIN m = {"table", "columns", "keys", "indexes"}
  BY DEF IsModel
<1>2. [m EXCEPT !.columns = C] =
        [table |-> m.table, columns |-> C, keys |-> m.keys, indexes |-> m.indexes]
  BY <1>1
<1>3. [m EXCEPT !.keys = K] =
        [table |-> m.table, columns |-> m.columns, keys |-> K, indexes |-> m.indexes]
  BY <1>1
<1>4. [m EXCEPT !.indexes = I] =
        [table |-> m.table, columns |-> m.columns, keys |-> m.keys, indexes |-> I]
  BY <1>1
<1>5. QED
  BY <1>2, <1>3, <1>4

AlteringOps == {"add column", "alter column", "add default", "create index", "add key",
                "drop column", "drop key"}

(* What a statement about a table makes of it: a model under its name, with *)
(* what it had unless the statement drops something.                        *)
LEMMA TableEffectFacts ==
  ASSUME NEW b, NEW m, IsModel(m), NEW s, IsStatement(s), s.op \in AlteringOps,
         s.op \in {"alter column", "add default"} => s.name \in Names(m.columns)
  PROVE  LET r == TableEffect(b, m, s)
         IN  /\ IsModel(r) /\ r.table = m.table
             /\ s.op \in AddingOps => /\ Names(m.columns) \subseteq Names(r.columns)
                                      /\ m.keys \subseteq r.keys
                                      /\ m.indexes \subseteq r.indexes
<1> DEFINE Good(r) == /\ IsModel(r) /\ r.table = m.table
                      /\ s.op \in AddingOps => /\ Names(m.columns) \subseteq Names(r.columns)
                                               /\ m.keys \subseteq r.keys
                                               /\ m.indexes \subseteq r.indexes
<1>2. ASSUME NEW C, NEW K, NEW I, IsFiniteSet(C), IsFiniteSet(K), IsFiniteSet(I),
             \A c \in C : IsColumn(c),
             s.op \in AddingOps => /\ Names(m.columns) \subseteq Names(C)
                                   /\ m.keys \subseteq K /\ m.indexes \subseteq I
      PROVE  Good([table |-> m.table, columns |-> C, keys |-> K, indexes |-> I])
  BY <1>2 DEF IsModel
<1>3. /\ IsFiniteSet(m.columns) /\ IsFiniteSet(m.keys) /\ IsFiniteSet(m.indexes)
      /\ \A c \in m.columns : IsColumn(c)
  BY DEF IsModel
<1>4. CASE s.op = "add column"
  <2> DEFINE C == m.columns \cup {Stored(b, s.column)}
  <2>1. TableEffect(b, m, s) = [m EXCEPT !.columns = C]
    BY <1>4 DEF TableEffect
  <2>2. IsColumn(Stored(b, s.column))
    BY <1>4, StoredIsColumn DEF IsStatement
  <2>3. IsFiniteSet(C) /\ (\A c \in C : IsColumn(c)) /\ Names(m.columns) \subseteq Names(C)
    BY <1>3, <2>2, FS_AddElement DEF Names
  <2> HIDE DEF C
  <2>4. [m EXCEPT !.columns = C] =
          [table |-> m.table, columns |-> C, keys |-> m.keys, indexes |-> m.indexes]
    BY ModelParts
  <2>5. Good([table |-> m.table, columns |-> C, keys |-> m.keys, indexes |-> m.indexes])
    BY <1>2, <1>3, <2>3
  <2>6. QED
    BY <2>1, <2>4, <2>5
<1>5. CASE s.op = "alter column"
  <2> DEFINE r == AlterColumnEffect(m, s.name, s.change)
  <2>1. TableEffect(b, m, s) = r
    BY <1>5 DEF TableEffect
  <2>2. "name" \notin DOMAIN s.change /\ s.name \in Names(m.columns)
    BY <1>5 DEF IsStatement
  <2>3. /\ IsModel(r) /\ r.table = m.table
        /\ Names(m.columns) \subseteq Names(r.columns)
        /\ r.keys = m.keys /\ r.indexes = m.indexes
    BY <2>2, AlterColumnKeepsModel
  <2> HIDE DEF r
  <2>4. QED
    BY <2>1, <2>3
<1>6. CASE s.op = "add default"
  <2> DEFINE change == [default |-> s.default]
  <2> DEFINE r == AlterColumnEffect(m, s.name, change)
  <2>1. TableEffect(b, m, s) = r
    BY <1>6 DEF TableEffect
  <2>2. "name" \notin DOMAIN change /\ s.name \in Names(m.columns)
    BY <1>6
  <2> HIDE DEF change
  <2>3. /\ IsModel(r) /\ r.table = m.table
        /\ Names(m.columns) \subseteq Names(r.columns)
        /\ r.keys = m.keys /\ r.indexes = m.indexes
    BY <2>2, AlterColumnKeepsModel
  <2> HIDE DEF r
  <2>4. QED
    BY <2>1, <2>3
<1>7. CASE s.op = "create index"
  <2> DEFINE I == m.indexes \cup {s.index}
  <2>1. TableEffect(b, m, s) = [m EXCEPT !.indexes = I]
    BY <1>7 DEF TableEffect
  <2>2. IsFiniteSet(I) /\ m.indexes \subseteq I
    BY <1>3, FS_AddElement
  <2> HIDE DEF I
  <2>3. [m EXCEPT !.indexes = I] =
          [table |-> m.table, columns |-> m.columns, keys |-> m.keys, indexes |-> I]
    BY ModelParts
  <2>4. Good([table |-> m.table, columns |-> m.columns, keys |-> m.keys, indexes |-> I])
    BY <1>2, <1>3, <2>2
  <2>5. QED
    BY <2>1, <2>3, <2>4
<1>8. CASE s.op = "add key"
  <2> DEFINE K == m.keys \cup {s.key}
  <2>1. TableEffect(b, m, s) = [m EXCEPT !.keys = K]
    BY <1>8 DEF TableEffect
  <2>2. IsFiniteSet(K) /\ m.keys \subseteq K
    BY <1>3, FS_AddElement
  <2> HIDE DEF K
  <2>3. [m EXCEPT !.keys = K] =
          [table |-> m.table, columns |-> m.columns, keys |-> K, indexes |-> m.indexes]
    BY ModelParts
  <2>4. Good([table |-> m.table, columns |-> m.columns, keys |-> K, indexes |-> m.indexes])
    BY <1>2, <1>3, <2>2
  <2>5. QED
    BY <2>1, <2>3, <2>4
<1>9. CASE s.op = "drop key"
  <2> DEFINE K == {k \in m.keys : k.name # s.name}
  <2>1. TableEffect(b, m, s) = [m EXCEPT !.keys = K]
    BY <1>9 DEF TableEffect
  <2>2. IsFiniteSet(K) /\ s.op \notin AddingOps
    BY <1>3, <1>9, FS_Subset DEF AddingOps
  <2> HIDE DEF K
  <2>3. [m EXCEPT !.keys = K] =
          [table |-> m.table, columns |-> m.columns, keys |-> K, indexes |-> m.indexes]
    BY ModelParts
  <2>4. Good([table |-> m.table, columns |-> m.columns, keys |-> K, indexes |-> m.indexes])
    BY <1>2, <1>3, <2>2
  <2>5. QED
    BY <2>1, <2>3, <2>4
<1>10. CASE s.op = "drop column"
  <2> DEFINE c == s.name
             C == {x \in m.columns : x.name # c}
             K == {k \in m.keys : k.column # c}
             Without(i) == [i EXCEPT !.columns = SelectSeq(@, LAMBDA x : x # c)]
             I == IF b = "MySql" THEN {i \in {Without(j) : j \in m.indexes} : i.columns # <<>>}
                  ELSE {i \in m.indexes : ~Uses(i, c)}
  <2>1. TableEffect(b, m, s) = [m EXCEPT !.columns = C, !.keys = K, !.indexes = I]
    <3>1. TableEffect(b, m, s) = DropColumnEffect(b, m, s.name)
      BY <1>10 DEF TableEffect
    <3>2. QED
      BY <3>1 DEF DropColumnEffect
  <2>2. IsFiniteSet(C) /\ IsFiniteSet(K) /\ (\A x \in C : IsColumn(x)) /\ s.op \notin AddingOps
    BY <1>3, <1>10, FS_Subset DEF AddingOps
  <2>3. IsFiniteSet(I)
    <3> DEFINE J == m.indexes
               f == [j \in J |-> Without(j)]
               G == {f[j] : j \in J}
    <3>1. I \subseteq G \/ I \subseteq J
      OBVIOUS
    <3> HIDE DEF f, I
    <3>2. IsFiniteSet(G)
      BY <1>3, ImageIsFinite
    <3> HIDE DEF G
    <3>3. QED
      BY <1>3, <3>1, <3>2, FS_Subset
  <2> HIDE DEF C, K, I
  <2>4. [m EXCEPT !.columns = C, !.keys = K, !.indexes = I] =
        [table |-> m.table, columns |-> C, keys |-> K, indexes |-> I]
    <3> DEFINE r == [m EXCEPT !.columns = C, !.keys = K, !.indexes = I]
    <3>1. DOMAIN m = {"table", "columns", "keys", "indexes"}
      BY DEF IsModel
    <3>2. DOMAIN r = DOMAIN m /\ r = [p \in DOMAIN r |-> r[p]]
      OBVIOUS
    <3>3. r.table = m.table /\ r.columns = C /\ r.keys = K /\ r.indexes = I
      BY <3>1
    <3> HIDE DEF r
    <3>4. r = [table |-> m.table, columns |-> C, keys |-> K, indexes |-> I]
      BY <3>1, <3>2, <3>3
    <3>5. QED
      BY <3>4 DEF r
  <2>5. Good([table |-> m.table, columns |-> C, keys |-> K, indexes |-> I])
    BY <1>2, <2>2, <2>3
  <2>6. QED
    BY <2>1, <2>4, <2>5
<1>11. QED
  BY <1>4, <1>5, <1>6, <1>7, <1>8, <1>9, <1>10 DEF AlteringOps

(* A catalog with another list. *)
LEMMA SchemaParts ==
  ASSUME NEW s, IsSchema(s), NEW M, NEW E, NEW V
  PROVE  /\ [s EXCEPT !.models = M] = [models |-> M, enums |-> s.enums, views |-> s.views]
         /\ [s EXCEPT !.enums = E] = [models |-> s.models, enums |-> E, views |-> s.views]
         /\ [s EXCEPT !.views = V] = [models |-> s.models, enums |-> s.enums, views |-> V]
<1>1. DOMAIN s = {"models", "enums", "views"}
  BY DEF IsSchema
<1>2. [s EXCEPT !.models = M] = [models |-> M, enums |-> s.enums, views |-> s.views]
  BY <1>1
<1>3. [s EXCEPT !.enums = E] = [models |-> s.models, enums |-> E, views |-> s.views]
  BY <1>1
<1>4. [s EXCEPT !.views = V] = [models |-> s.models, enums |-> s.enums, views |-> V]
  BY <1>1
<1>5. QED
  BY <1>2, <1>3, <1>4

(* An enum with other values. *)
LEMMA EnumParts ==
  ASSUME NEW e, e = [name |-> e.name, values |-> e.values], NEW V
  PROVE  [e EXCEPT !.values = V] = [name |-> e.name, values |-> V]
<1>1. DOMAIN e = {"name", "values"}
  OBVIOUS
<1>2. QED
  BY <1>1

(* A view of another kind. *)
LEMMA ViewParts ==
  ASSUME NEW v, v = [name |-> v.name, reads |-> v.reads, sql |-> v.sql,
                     materialized |-> v.materialized],
         NEW x
  PROVE  [v EXCEPT !.materialized = x] =
           [name |-> v.name, reads |-> v.reads, sql |-> v.sql, materialized |-> x]
<1>1. DOMAIN v = {"name", "reads", "sql", "materialized"}
  OBVIOUS
<1>2. QED
  BY <1>1

(* What CREATE TABLE makes of a model. *)
StoredModel(b, m) ==
  [m EXCEPT !.columns = {Stored(b, c) : c \in @}, !.indexes = Constraints(m)]

(* CREATE TABLE makes a table. *)
LEMMA StoredModelIsModel ==
  ASSUME NEW b, NEW m, IsModel(m)
  PROVE  IsModel(StoredModel(b, m)) /\ StoredModel(b, m).table = m.table
<1> DEFINE C == {Stored(b, c) : c \in m.columns}
           I == Constraints(m)
           r == [m EXCEPT !.columns = C, !.indexes = I]
<1>1. DOMAIN m = {"table", "columns", "keys", "indexes"}
  BY DEF IsModel
<1>2. IsFiniteSet(C) /\ (\A c \in C : IsColumn(c)) /\ IsFiniteSet(I)
  <2>1. /\ IsFiniteSet(m.columns) /\ IsFiniteSet(m.indexes)
        /\ \A c \in m.columns : IsColumn(c)
    BY DEF IsModel
  <2>2. QED
    BY <2>1, StoredColumns, ConstraintsAreFinite
<1>3. r = [table |-> m.table, columns |-> C, keys |-> m.keys, indexes |-> I]
  <2> HIDE DEF C, I
  <2>1. DOMAIN r = {"table", "columns", "keys", "indexes"} /\ r = [p \in DOMAIN r |-> r[p]]
    BY <1>1
  <2>2. r.table = m.table /\ r.columns = C /\ r.keys = m.keys /\ r.indexes = I
    BY <1>1
  <2> HIDE DEF r
  <2>3. QED
    BY <2>1, <2>2
<1> DEFINE q == r
<1>4. q = [table |-> m.table, columns |-> C, keys |-> m.keys, indexes |-> I]
  BY <1>3
<1> HIDE DEF q, C, I
<1>5. IsModel(q) /\ q.table = m.table
  BY <1>2, <1>4 DEF IsModel
<1>6. StoredModel(b, m) = q
  BY DEF q, C, I, StoredModel
<1>7. QED
  BY <1>5, <1>6

(* A statement about a table is only accepted if the table is there. *)
LEMMA AlteredTableExists ==
  ASSUME NEW b \in Backends, NEW cat, NEW s, s.op \in AlteringOps, Accepts(b, cat, s)
  PROVE  /\ HasTable(cat, s.table)
         /\ s.op \in {"alter column", "add default"} =>
              s.name \in Names(ModelOf(cat, s.table).columns)
<1>1. CASE s.op = "add column"
  BY <1>1 DEF Accepts, AcceptsAddColumn
<1>2. CASE s.op = "alter column"
  BY <1>2 DEF Accepts, HasColumn
<1>3. CASE s.op = "add default"
  BY <1>3 DEF Accepts, HasColumn
<1>4. CASE s.op = "create index"
  BY <1>4 DEF Accepts, AcceptsCreateIndex
<1>5. CASE s.op = "add key"
  BY <1>5 DEF Accepts, AcceptsAddKey, HasColumn
<1>6. CASE s.op = "drop column"
  <2>1. AcceptsDropColumn(b, cat, s.table, s.name)
    BY <1>6 DEF Accepts
  <2>2. HasTable(cat, s.table)
    BY <2>1 DEF AcceptsDropColumn, HasColumn, Backends
  <2>3. QED
    BY <1>6, <2>2
<1>7. CASE s.op = "drop key"
  <2>1. AcceptsDropKey(b, cat, s.table, s.name)
    BY <1>7 DEF Accepts
  <2>2. HasTable(cat, s.table)
    BY <2>1 DEF AcceptsDropKey, Backends
  <2>3. QED
    BY <1>7, <2>2
<1>8. QED
  BY <1>1, <1>2, <1>3, <1>4, <1>5, <1>6, <1>7 DEF AlteringOps

(* The catalog stays a schema under every statement, and an adding one     *)
(* takes nothing away.                                                     *)
LEMMA AlteringEffect ==
  ASSUME NEW b \in Backends, NEW cat, IsSchema(cat), NEW s, IsStatement(s), s.op \in AlteringOps,
         Accepts(b, cat, s)
  PROVE  /\ IsSchema(Effect(b, cat, s))
         /\ s.op \in AddingOps => Grows(cat, Effect(b, cat, s))
<1> DEFINE m == ModelOf(cat, s.table)
           r == TableEffect(b, m, s)
<1>1. /\ s.table \in Tables(cat)
      /\ s.op \in {"alter column", "add default"} => s.name \in Names(m.columns)
  BY AlteredTableExists DEF HasTable
<1>2. m \in cat.models /\ m.table = s.table
  BY <1>1, ModelOfFacts
<1>3. IsModel(m)
  BY <1>2 DEF IsSchema
<1>4. Effect(b, cat, s) = WithModel(cat, r)
  BY DEF Effect, AlteringOps
<1> HIDE DEF m
<1>5. /\ IsModel(r) /\ r.table = m.table
      /\ s.op \in AddingOps => /\ Names(m.columns) \subseteq Names(r.columns)
                               /\ m.keys \subseteq r.keys
                               /\ m.indexes \subseteq r.indexes
  BY <1>1, <1>3, TableEffectFacts
<1> HIDE DEF r
<1>6. IsSchema(WithModel(cat, r))
  BY <1>5, WithModelIsSchema
<1>7. ASSUME s.op \in AddingOps PROVE Grows(cat, WithModel(cat, r))
  <2>1. ModelOf(cat, r.table) = m
    BY <1>2, <1>5 DEF m
  <2>2. /\ Names(ModelOf(cat, r.table).columns) \subseteq Names(r.columns)
        /\ ModelOf(cat, r.table).keys \subseteq r.keys
        /\ ModelOf(cat, r.table).indexes \subseteq r.indexes
    BY <1>5, <1>7, <2>1
  <2>3. QED
    BY <1>5, <2>2, WithModelGrows
<1>8. QED
  BY <1>4, <1>6, <1>7

(* A new table. *)
LEMMA CreateTableEffect ==
  ASSUME NEW b, NEW cat, IsSchema(cat), NEW s, IsStatement(s), s.op = "create table",
         Accepts(b, cat, s)
  PROVE  IsSchema(Effect(b, cat, s)) /\ Grows(cat, Effect(b, cat, s))
<1> DEFINE m == s.model
           r == StoredModel(b, m)
<1>1. IsModel(m)
  BY DEF IsStatement
<1>2. m.table \notin Tables(cat)
  BY DEF Accepts, AcceptsCreateTable, HasTable
<1>3. Effect(b, cat, s) = WithModel(cat, r)
  BY DEF Effect, StoredModel
<1> HIDE DEF m
<1>4. IsModel(r) /\ r.table = m.table
  BY <1>1, StoredModelIsModel
<1> HIDE DEF r
<1>5. IsSchema(WithModel(cat, r)) /\ Grows(cat, WithModel(cat, r))
  BY <1>2, <1>4, WithModelIsSchema, WithModelGrows
<1>6. QED
  BY <1>3, <1>5

(* The statements about types. *)
LEMMA EnumEffect ==
  ASSUME NEW b, NEW cat, IsSchema(cat), NEW s, IsStatement(s),
         s.op \in {"create type", "add values", "drop type"}
  PROVE  /\ IsSchema(Effect(b, cat, s))
         /\ s.op \in AddingOps => Grows(cat, Effect(b, cat, s))
<1>2. ASSUME NEW E, IsFiniteSet(E), \A e \in E : e = [name |-> e.name, values |-> e.values]
      PROVE  IsSchema([cat EXCEPT !.enums = E])
  <2>1. [cat EXCEPT !.enums = E] = [models |-> cat.models, enums |-> E, views |-> cat.views]
    BY SchemaParts
  <2>2. QED
    BY <1>2, <2>1 DEF IsSchema
<1>3. ASSUME NEW E,
             \A e \in cat.enums : \E n \in E : n.name = e.name /\ e.values \subseteq n.values
      PROVE  Grows(cat, [cat EXCEPT !.enums = E])
  <2>1. [cat EXCEPT !.enums = E] = [models |-> cat.models, enums |-> E, views |-> cat.views]
    BY SchemaParts
  <2>2. QED
    BY <1>3, <2>1 DEF Grows
<1>4. IsFiniteSet(cat.enums) /\ \A e \in cat.enums : e = [name |-> e.name, values |-> e.values]
  BY DEF IsSchema
<1>5. CASE s.op = "create type"
  <2> DEFINE E == cat.enums \cup {s.enum}
  <2>1. Effect(b, cat, s) = [cat EXCEPT !.enums = E]
    BY <1>5 DEF Effect
  <2>2. s.enum = [name |-> s.enum.name, values |-> s.enum.values]
    BY <1>5 DEF IsStatement
  <2>3. /\ IsFiniteSet(E) /\ (\A e \in E : e = [name |-> e.name, values |-> e.values])
        /\ \A e \in cat.enums : \E n \in E : n.name = e.name /\ e.values \subseteq n.values
    BY <1>4, <2>2, FS_AddElement
  <2> HIDE DEF E
  <2>4. QED
    BY <1>2, <1>3, <2>1, <2>3
<1>6. CASE s.op = "add values"
  <2> DEFINE S == cat.enums
             f == [e \in S |-> IF e.name = s.name THEN [e EXCEPT !.values = @ \cup s.values] ELSE e]
             E == {f[e] : e \in S}
  <2>1. Effect(b, cat, s) = [cat EXCEPT !.enums = E]
    BY <1>6 DEF Effect
  <2>2. \A e \in S : /\ f[e] = [name |-> f[e].name, values |-> f[e].values]
                     /\ f[e].name = e.name /\ e.values \subseteq f[e].values
    <3> SUFFICES ASSUME NEW e \in S
                 PROVE  /\ f[e] = [name |-> f[e].name, values |-> f[e].values]
                        /\ f[e].name = e.name /\ e.values \subseteq f[e].values
      OBVIOUS
    <3>1. DOMAIN e = {"name", "values"} /\ e = [name |-> e.name, values |-> e.values]
      BY <1>4
    <3> DEFINE w == [name |-> e.name, values |-> e.values \cup s.values]
    <3>2. [e EXCEPT !.values = @ \cup s.values] = w
      BY <3>1, EnumParts
    <3> DEFINE x == f[e]
    <3>3. x = w \/ x = e
      BY <3>2
    <3> HIDE DEF x
    <3>4. /\ x = [name |-> x.name, values |-> x.values]
          /\ x.name = e.name /\ e.values \subseteq x.values
      <4>1. CASE x = w
        BY <4>1
      <4>2. CASE x = e
        BY <3>1, <4>2, Zenon
      <4>3. QED
        BY <3>3, <4>1, <4>2
    <3>5. QED
      BY <3>4 DEF x
  <2> HIDE DEF f
  <2>3. IsFiniteSet(E)
    <3> HIDE DEF S
    <3>1. IsFiniteSet(S)
      BY <1>4 DEF S
    <3>2. QED
      BY <3>1, ImageIsFinite
  <2>4. /\ \A e \in E : e = [name |-> e.name, values |-> e.values]
        /\ \A e \in cat.enums : \E n \in E : n.name = e.name /\ e.values \subseteq n.values
    <3> HIDE DEF S
    <3>1. \A e \in E : e = [name |-> e.name, values |-> e.values]
      BY <2>2, Zenon
    <3>2. \A e \in S : f[e] \in E /\ f[e].name = e.name /\ e.values \subseteq f[e].values
      BY <2>2, Zenon
    <3>3. \A e \in S : \E n \in E : n.name = e.name /\ e.values \subseteq n.values
      <4> HIDE DEF E
      <4>1. QED
        BY <3>2, Zenon
    <3>4. QED
      BY <3>1, <3>3 DEF S
  <2> HIDE DEF E
  <2>5. QED
    BY <1>2, <1>3, <2>1, <2>3, <2>4
<1>7. CASE s.op = "drop type"
  <2> DEFINE E == {e \in cat.enums : e.name # s.name}
  <2>1. Effect(b, cat, s) = [cat EXCEPT !.enums = E] /\ s.op \notin AddingOps
    BY <1>7 DEF Effect, AddingOps
  <2>2. IsFiniteSet(E) /\ (\A e \in E : e = [name |-> e.name, values |-> e.values])
    BY <1>4, FS_Subset
  <2> HIDE DEF E
  <2>3. QED
    BY <1>2, <2>1, <2>2
<1>8. QED
  BY <1>5, <1>6, <1>7

(* The statements about views. *)
LEMMA ViewEffect ==
  ASSUME NEW b, NEW cat, IsSchema(cat), NEW s, IsStatement(s), s.op \in {"create view", "drop view"}
  PROVE  /\ IsSchema(Effect(b, cat, s))
         /\ s.op \in AddingOps => Grows(cat, Effect(b, cat, s))
<1> DEFINE IsView(v) == v = [name |-> v.name, reads |-> v.reads, sql |-> v.sql,
                             materialized |-> v.materialized]
<1>2. ASSUME NEW V, IsFiniteSet(V), \A v \in V : IsView(v)
      PROVE  IsSchema([cat EXCEPT !.views = V])
  <2>1. [cat EXCEPT !.views = V] = [models |-> cat.models, enums |-> cat.enums, views |-> V]
    BY SchemaParts
  <2>2. QED
    BY <1>2, <2>1 DEF IsSchema
<1>3. ASSUME NEW V, Names(cat.views) \subseteq Names(V)
      PROVE  Grows(cat, [cat EXCEPT !.views = V])
  <2>1. [cat EXCEPT !.views = V] = [models |-> cat.models, enums |-> cat.enums, views |-> V]
    BY SchemaParts
  <2>2. QED
    BY <1>3, <2>1 DEF Grows
<1>4. IsFiniteSet(cat.views) /\ \A v \in cat.views : IsView(v)
  BY DEF IsSchema
<1>5. CASE s.op = "create view"
  <2>1. Effect(b, cat, s) = CreateViewEffect(b, cat, s.view)
    BY <1>5 DEF Effect
  <2>2. CASE b = "Sqlite" /\ s.view.name \in Names(cat.views)
    BY <2>1, <2>2, GrowsIsReflexive DEF CreateViewEffect
  <2>3. CASE ~(b = "Sqlite" /\ s.view.name \in Names(cat.views))
    <3> DEFINE v == s.view
               w == [v EXCEPT !.materialized = @ /\ b = "Postgres"]
               L == {x \in cat.views : x.name # v.name}
               V == L \cup {w}
    <3>1. Effect(b, cat, s) = [cat EXCEPT !.views = V]
      BY <2>1, <2>3 DEF CreateViewEffect
    <3>2. IsView(w) /\ w.name = v.name
      <4>1. IsView(v)
        BY <1>5 DEF IsStatement
      <4> DEFINE x == v.materialized /\ b = "Postgres"
      <4> HIDE DEF v
      <4>2. w = [name |-> v.name, reads |-> v.reads, sql |-> v.sql, materialized |-> x]
        BY <4>1, ViewParts
      <4> HIDE DEF w
      <4>3. QED
        BY <4>2
    <3> HIDE DEF v, w
    <3>3. IsFiniteSet(L)
      BY <1>4, FS_Subset
    <3>4. IsFiniteSet(V)
      <4> HIDE DEF L
      <4>1. QED
        BY <3>3, FS_AddElement
    <3>5. /\ \A x \in V : IsView(x)
          /\ Names(cat.views) \subseteq Names(V)
      <4> HIDE DEF IsView
      <4>1. QED
        BY <1>4, <3>2 DEF Names
    <3> HIDE DEF V
    <3>6. QED
      BY <1>2, <1>3, <3>1, <3>4, <3>5
  <2>4. QED
    BY <2>2, <2>3
<1>6. CASE s.op = "drop view"
  <2> DEFINE V == {v \in cat.views : v.name # s.name}
  <2>1. Effect(b, cat, s) = [cat EXCEPT !.views = V] /\ s.op \notin AddingOps
    BY <1>6 DEF Effect, AddingOps
  <2>2. IsFiniteSet(V) /\ \A v \in V : IsView(v)
    BY <1>4, FS_Subset
  <2> HIDE DEF V
  <2>3. QED
    BY <1>2, <2>1, <2>2
<1>7. QED
  BY <1>5, <1>6

(* Tables and indexes go. *)
LEMMA DroppingEffect ==
  ASSUME NEW b, NEW cat, NEW s, IsSchema(cat), s.op \in {"drop table", "drop index"}
  PROVE  IsSchema(Effect(b, cat, s)) /\ s.op \notin AddingOps
<1>1. ASSUME NEW M, NEW V \in SUBSET cat.views, IsFiniteSet(M), \A m \in M : IsModel(m),
             \A m, n \in M : m.table = n.table => m = n
      PROVE  IsSchema([models |-> M, enums |-> cat.enums, views |-> V])
  <2>1. IsFiniteSet(V)
    BY FS_Subset DEF IsSchema
  <2>2. QED
    BY <1>1, <2>1 DEF IsSchema
<1>2. ASSUME s.op = "drop table" /\ b = "Postgres" /\ HasTable(cat, s.table)
      PROVE  IsSchema(Effect(b, cat, s))
  <2> DEFINE t == s.table
             S == {m \in cat.models : m.table # t}
             f == [m \in S |-> [m EXCEPT !.keys = {k \in @ : k.table # t}]]
             M == Mapped(f, S)
             V == {v \in cat.views : v.reads # t}
  <2>1. Effect(b, cat, s) = [models |-> M, enums |-> cat.enums, views |-> V]
    <3> DEFINE N == {[m EXCEPT !.keys = {k \in @ : k.table # t}] : m \in S}
    <3>1. Effect(b, cat, s) = [cat EXCEPT !.models = N, !.views = V]
      BY <1>2 DEF Effect, DropTableEffect
    <3>2. N = M
      BY DEF Mapped
    <3> HIDE DEF N, M, V
    <3>3. DOMAIN cat = {"models", "enums", "views"}
      BY DEF IsSchema
    <3> DEFINE r == [cat EXCEPT !.models = M, !.views = V]
    <3>4. DOMAIN r = DOMAIN cat /\ r = [p \in DOMAIN r |-> r[p]]
      OBVIOUS
    <3>5. r.models = M /\ r.enums = cat.enums /\ r.views = V
      BY <3>3
    <3> HIDE DEF r
    <3>6. r = [models |-> M, enums |-> cat.enums, views |-> V]
      BY <3>3, <3>4, <3>5
    <3>7. QED
      BY <3>1, <3>2, <3>6 DEF r
  <2>2. ASSUME NEW m \in S PROVE IsModel(f[m]) /\ f[m].table = m.table
    <3> DEFINE K == {k \in m.keys : k.table # t}
    <3>1. IsModel(m)
      BY DEF IsSchema
    <3>2. IsFiniteSet(K)
      BY <3>1, FS_Subset DEF IsModel
    <3>3. f[m] = [m EXCEPT !.keys = K]
      OBVIOUS
    <3> HIDE DEF f, K
    <3> DEFINE r == f[m]
    <3>4. r = [table |-> m.table, columns |-> m.columns, keys |-> K, indexes |-> m.indexes]
      BY <3>1, <3>3, ModelParts
    <3> HIDE DEF r
    <3>5. IsModel(r) /\ r.table = m.table
      BY <3>1, <3>2, <3>4 DEF IsModel
    <3>6. QED
      BY <3>5 DEF r
  <2>3. S \in SUBSET cat.models /\ V \in SUBSET cat.views
    OBVIOUS
  <2> HIDE DEF f, S, V
  <2>4. /\ IsFiniteSet(M)
        /\ \A m \in M : IsModel(m)
        /\ \A m, n \in M : m.table = n.table => m = n
    BY <2>2, <2>3, MapModels
  <2> HIDE DEF M
  <2>5. QED
    BY <1>1, <2>1, <2>3, <2>4
<1>3. ASSUME s.op = "drop table" /\ ~(b = "Postgres" /\ HasTable(cat, s.table))
      PROVE  IsSchema(Effect(b, cat, s))
  <2> DEFINE M == {m \in cat.models : m.table # s.table}
  <2>1. Effect(b, cat, s) = [cat EXCEPT !.models = M]
    BY <1>3 DEF Effect, DropTableEffect
  <2>2. /\ IsFiniteSet(M)
        /\ \A m \in M : IsModel(m)
        /\ \A m, n \in M : m.table = n.table => m = n
    BY FS_Subset DEF IsSchema
  <2> HIDE DEF M
  <2>3. [cat EXCEPT !.models = M] = [models |-> M, enums |-> cat.enums, views |-> cat.views]
    BY SchemaParts
  <2>4. IsSchema([models |-> M, enums |-> cat.enums, views |-> cat.views])
    BY <1>1, <2>2
  <2>5. QED
    BY <2>1, <2>3, <2>4
<1>4. ASSUME s.op = "drop index"
      PROVE  IsSchema(Effect(b, cat, s))
  <2> DEFINE S == cat.models
             f == [m \in S |-> [m EXCEPT !.indexes = {i \in @ : i.constraint \/ i.name # s.name}]]
             M == Mapped(f, S)
  <2>1. Effect(b, cat, s) = [models |-> M, enums |-> cat.enums, views |-> cat.views]
    <3> DEFINE N == {[m EXCEPT !.indexes = {i \in @ : i.constraint \/ i.name # s.name}] : m \in S}
    <3>1. Effect(b, cat, s) = [cat EXCEPT !.models = N]
      BY <1>4 DEF Effect
    <3>2. N = M
      BY DEF Mapped
    <3> HIDE DEF N, M
    <3>3. QED
      BY <3>1, <3>2, SchemaParts
  <2>2. ASSUME NEW m \in S PROVE IsModel(f[m]) /\ f[m].table = m.table
    <3> DEFINE I == {i \in m.indexes : i.constraint \/ i.name # s.name}
    <3>1. IsModel(m)
      BY DEF IsSchema
    <3>2. IsFiniteSet(I)
      BY <3>1, FS_Subset DEF IsModel
    <3>3. f[m] = [m EXCEPT !.indexes = I]
      OBVIOUS
    <3> HIDE DEF f, I
    <3> DEFINE r == f[m]
    <3>4. r = [table |-> m.table, columns |-> m.columns, keys |-> m.keys, indexes |-> I]
      BY <3>1, <3>3, ModelParts
    <3> HIDE DEF r
    <3>5. IsModel(r) /\ r.table = m.table
      BY <3>1, <3>2, <3>4 DEF IsModel
    <3>6. QED
      BY <3>5 DEF r
  <2>3. S \in SUBSET cat.models
    OBVIOUS
  <2> HIDE DEF f, S
  <2>4. /\ IsFiniteSet(M)
        /\ \A m \in M : IsModel(m)
        /\ \A m, n \in M : m.table = n.table => m = n
    BY <2>2, <2>3, MapModels
  <2> HIDE DEF M
  <2>5. QED
    BY <1>1, <2>1, <2>4
<1>5. s.op \notin AddingOps
  BY DEF AddingOps
<1>6. IsSchema(Effect(b, cat, s))
  BY <1>2, <1>3, <1>4
<1>7. QED
  BY <1>5, <1>6

(* All statements together. *)
LEMMA EffectFacts ==
  ASSUME NEW b \in Backends, NEW cat, IsSchema(cat), NEW s, IsStatement(s), s.op \in AllOps,
         Accepts(b, cat, s)
  PROVE  /\ IsSchema(Effect(b, cat, s))
         /\ s.op \in AddingOps => Grows(cat, Effect(b, cat, s))
<1>1. CASE s.op \in AlteringOps
  BY <1>1, AlteringEffect
<1>2. CASE s.op = "create table"
  BY <1>2, CreateTableEffect
<1>3. CASE s.op \in {"create type", "add values", "drop type"}
  BY <1>3, EnumEffect
<1>4. CASE s.op \in {"create view", "drop view"}
  BY <1>4, ViewEffect
<1>5. CASE s.op \in {"drop table", "drop index"}
  <2>1. IsSchema(Effect(b, cat, s)) /\ s.op \notin AddingOps
    BY <1>5, DroppingEffect
  <2>2. QED
    BY <2>1
<1>6. QED
  BY <1>1, <1>2, <1>3, <1>4, <1>5 DEF AllOps, AddingOps, DroppingOps, AlteringOps

---------------------------------------------------------------------------
(* The migration, step by step *)

(* The next statement of a script and what is left. *)
LEMMA ScriptHeadTail ==
  ASSUME NEW ops, NEW to, NEW q, IsScript(to, q, ops), q # <<>>
  PROVE  /\ Head(q).op \in ops /\ IsStatementOf(to, Head(q))
         /\ IsScript(to, Tail(q), ops)
<1> DEFINE S == Elements(q)
           r == Tail(q)
<1>1. q \in Seq(S) /\ Len(q) \in Nat
  BY ScriptIsSeq
<1> HIDE DEF S
<1>2. /\ Len(q) > 0 /\ Head(q) = q[1] /\ r \in Seq(S) /\ Len(r) = Len(q) - 1
      /\ \A i \in 1..Len(r) : r[i] = q[i + 1]
  BY <1>1, HeadTailProperties, EmptySeq, LenProperties
<1>3. 1 \in 1..Len(q) /\ \A i \in 1..Len(r) : i + 1 \in 1..Len(q)
  BY <1>1, <1>2
<1> HIDE DEF r
<1>4. Len(r) \in Nat /\ r = [i \in 1..Len(r) |-> r[i]]
  BY <1>2, LenProperties
<1>5. \A i \in 1..Len(r) : r[i].op \in ops /\ IsStatementOf(to, r[i])
  BY <1>2, <1>3 DEF IsScript
<1>6. Head(q).op \in ops /\ IsStatementOf(to, Head(q))
  BY <1>2, <1>3 DEF IsScript
<1>7. IsScript(to, r, ops)
  BY <1>4, <1>5 DEF IsScript
<1>8. QED
  BY <1>6, <1>7 DEF r

(* The ordering starts for the tables of a new difference. *)
LEMMA StartOrderingInv ==
  ASSUME NEW b \in SUBSET Table, NEW r \in [b -> SUBSET Table], StartOrdering(b, r)
  PROVE  OrderInv'
<1>1. OrderInit'
  BY DEF StartOrdering, OrderInit
<1>2. OrderInit' => OrderInv'
  BY OrderInitInv, PTL
<1>3. QED
  BY <1>1, <1>2

(* The differ has compared with what the catalog was taken for. *)
LEMMA DifferKeeps ==
  ASSUME MigrationInv, phase = "edited",
         NEW s, NEW d, NEW add, Differ(s, d, add), IsDiff(edit.to, d),
         d.createModels \subseteq edit.to.models, add => OnlyAdds(d)
  PROVE  MigrationInv'
<1> DEFINE c == [models |-> d.createModels]
           B == Tables(c)
           R == [t \in B |-> {k.table : k \in ModelOf(c, t).keys}]
<1>1. /\ \A m \in d.createModels : m.table \in Table /\ \A k \in m.keys : k.table \in Table
  BY EditsAssumption DEF MigrationInv
<1>2. B \in SUBSET Table
  BY <1>1 DEF Tables
<1>3. R \in [B -> SUBSET Table]
  <2>1. \A t \in B : ModelOf(c, t) \in d.createModels
    <3>1. c.models = d.createModels
      OBVIOUS
    <3> HIDE DEF c
    <3>2. QED
      BY <3>1, ModelOfFacts
  <2> HIDE DEF c
  <2>2. \A t \in B : {k.table : k \in ModelOf(c, t).keys} \subseteq Table
    BY <1>1, <2>1
  <2>3. QED
    BY <2>2
<1>4. StartOrdering(B, R) /\ batch' = B
  BY DEF Differ, StartOrdering
<1> HIDE DEF B, R
<1>5. OrderInv'
  BY <1>2, <1>3, <1>4, StartOrderingInv
<1>6. /\ backend' = backend /\ edit' = edit /\ db' = db /\ before' = db
      /\ diff' = d /\ additive' = add /\ phase' = "ordering"
  BY DEF Differ
<1>7. QED
  BY <1>4, <1>5, <1>6 DEF MigrationInv, B

(* The order stays when nothing touches it. *)
LEMMA UntouchedOrder ==
  ASSUME OrderInv, UNCHANGED orderVars
  PROVE  OrderInv' /\ batch' = batch
<1>1. [Ordering]_orderVars
  OBVIOUS
<1>2. batch' = batch
  BY DEF orderVars
<1>3. QED
  BY <1>1, <1>2, OrderNextInv

(* The database was built from a schema. *)
LEMMA MigrationInitInv == Init => MigrationInv
<1> SUFFICES ASSUME Init PROVE MigrationInv
  OBVIOUS
<1>1. OrderInv
  <2>1. <<>> \in [{} -> SUBSET Table] /\ <<>> = [m \in {} |-> Degree({}, <<>>, m)]
    OBVIOUS
  <2>2. <<>> \in Listings({})
    BY FS_EmptySet DEF Listings
  <2>3. OrderInit
    BY <2>1, <2>2 DEF Init, OrderInit
  <2>4. QED
    BY <2>3, OrderInitInv
<1>2. backend \in Backends /\ edit \in Edits /\ db = Built(backend, edit.from)
      /\ additive = FALSE /\ phase = "edited"
  BY DEF Init
<1>3. IsSchema(edit.from)
  BY <1>2, EditsAssumption
<1>4. IsSchema(Built(backend, edit.from))
  BY <1>3, BuiltIsSchema, Zenon
<1>5. QED
  BY <1>1, <1>2, <1>4 DEF MigrationInv

(* Every step keeps the invariant. *)
LEMMA MigrationNextInv == MigrationInv /\ [Next]_vars => MigrationInv'
<1> SUFFICES ASSUME MigrationInv, [Next]_vars PROVE MigrationInv'
  OBVIOUS
<1>0. edit \in Edits /\ IsSchema(edit.from) /\ IsSchema(edit.to)
  BY EditsAssumption DEF MigrationInv
<1>1. CASE MigrateDev
  <2>1. phase = "edited" /\ IsSchema(db)
    BY <1>1 DEF MigrateDev, MigrationInv
  <2>2. PICK destructive \in BOOLEAN :
          Differ(Introspect(db),
                 IF destructive THEN Diff(Introspect(db), edit.to)
                 ELSE StripDestructive(Diff(Introspect(db), edit.to)),
                 ~destructive)
    BY <1>1 DEF MigrateDev
  <2>3. PICK s, t : s = Introspect(db) /\ t = edit.to
    OBVIOUS
  <2>4. IsSchema(s) /\ IsSchema(t) /\ s.views = {}
    BY <1>0, <2>1, <2>3, IntrospectIsSchema
  <2>5. /\ IsDiff(t, Diff(s, t)) /\ Diff(s, t).createModels \subseteq t.models
        /\ IsDiff(t, StripDestructive(Diff(s, t))) /\ OnlyAdds(StripDestructive(Diff(s, t)))
        /\ StripDestructive(Diff(s, t)).createModels \subseteq t.models
    BY <2>4, DiffIsDiff, StripDestructiveOnlyAdds
  <2>6. PICK d : d = IF destructive THEN Diff(s, t) ELSE StripDestructive(Diff(s, t))
    OBVIOUS
  <2>7. Differ(s, d, ~destructive)
    BY <2>2, <2>3, <2>6, Zenon
  <2>8. IsDiff(edit.to, d) /\ d.createModels \subseteq edit.to.models /\ (~destructive => OnlyAdds(d))
    BY <2>3, <2>5, <2>6
  <2>9. QED
    BY <2>1, <2>7, <2>8, DifferKeeps
<1>2. CASE CreateMigration
  <2>1. PICK s, t : s = EmptySchema /\ t = edit.to
    OBVIOUS
  <2>2. IsDiff(t, Diff(s, t)) /\ Diff(s, t).createModels \subseteq t.models
    BY <1>0, <2>1, EmptyIsSchema, DiffIsDiff
  <2>3. PICK d : d = Diff(s, t)
    OBVIOUS
  <2>4. phase = "edited" /\ Differ(s, d, FALSE)
    BY <1>2, <2>1, <2>3, Zenon DEF CreateMigration
  <2>5. IsDiff(edit.to, d) /\ d.createModels \subseteq edit.to.models
    BY <2>1, <2>2, <2>3
  <2>6. QED
    BY <2>4, <2>5, DifferKeeps
<1>3. CASE DiffSchemas
  <2>1. PICK s, t : s = edit.from /\ t = edit.to
    OBVIOUS
  <2>2. IsDiff(t, Diff(s, t)) /\ Diff(s, t).createModels \subseteq t.models
    BY <1>0, <2>1, DiffIsDiff
  <2>3. PICK d : d = Diff(s, t)
    OBVIOUS
  <2>4. phase = "edited" /\ Differ(s, d, FALSE)
    BY <1>3, <2>1, <2>3, Zenon DEF DiffSchemas
  <2>5. IsDiff(edit.to, d) /\ d.createModels \subseteq edit.to.models
    BY <2>1, <2>2, <2>3
  <2>6. QED
    BY <2>4, <2>5, DifferKeeps
<1>4. CASE OrderTables
  <2>1. OrderInv' /\ batch' = batch
    BY <1>4, OrderNextInv DEF OrderTables, MigrationInv, Ordering, Emit, EmitRest
  <2>2. UNCHANGED schemaVars
    BY <1>4 DEF OrderTables
  <2>3. QED
    BY <2>1, <2>2 DEF MigrationInv, schemaVars
<1>5. CASE Generate
  <2>1. /\ phase = "ordering" /\ phase' = "applying"
        /\ backend' = backend /\ edit' = edit /\ db' = db /\ before' = before
        /\ additive' = additive /\ UNCHANGED orderVars
    BY <1>5 DEF Generate
  <2>2. PICK drops \in Listings(diff.dropModels) : script' = Up(backend, diff, Creates, drops)
    BY <1>5 DEF Generate
  <2>3. PICK b, d, creates, to, ops : /\ b = backend /\ d = diff /\ creates = Creates /\ to = edit.to
                                      /\ ops = IF additive THEN AddingOps ELSE AllOps
    OBVIOUS
  <2>4. b \in Backends /\ IsDiff(to, d) /\ Allowed(d, ops) /\ drops \in Listings(d.dropModels)
    BY <2>1, <2>2, <2>3 DEF MigrationInv, Allowed
  <2>5. Len(creates) \in Nat /\ \A i \in 1..Len(creates) : IsModel(creates[i]) /\ creates[i] \in to.models
    <3>1. ordered \in Seq(batch) /\ batch = Tables([models |-> d.createModels])
      BY <2>1, <2>3 DEF MigrationInv, OrderInv, OrderTypeOK
    <3>2. Len(ordered) \in Nat /\ \A i \in 1..Len(ordered) : ordered[i] \in batch
      BY <3>1, LenProperties, ElementOfSeq
    <3>3. ASSUME NEW i \in 1..Len(ordered)
          PROVE  LET m == ModelOf([models |-> d.createModels], ordered[i])
                 IN  IsModel(m) /\ m \in to.models
      <4> DEFINE c == [models |-> d.createModels]
      <4>1. c.models = d.createModels
        OBVIOUS
      <4> HIDE DEF c
      <4>2. ModelOf(c, ordered[i]) \in d.createModels
        BY <3>1, <3>2, <4>1, ModelOfFacts DEF c
      <4>3. QED
        BY <2>4, <4>2 DEF c, IsDiff
    <3>4. creates = [i \in 1..Len(ordered) |-> ModelOf([models |-> d.createModels], ordered[i])]
      BY <2>3 DEF Creates
    <3>5. creates = [i \in 1..Len(ordered) |-> creates[i]]
      BY <3>4
    <3>6. Len(creates) = Len(ordered)
      BY <3>2, <3>5, LenOfFunction
    <3>7. QED
      BY <3>2, <3>3, <3>4, <3>6
  <2>6. IsScript(to, Up(b, d, creates, drops), ops)
    BY <2>4, <2>5, UpScript, Zenon
  <2>7. IsScript(edit.to, script', IF additive THEN AddingOps ELSE AllOps)
    BY <2>2, <2>3, <2>6, Zenon
  <2>8. OrderInv' /\ batch' = batch
    BY <2>1, UntouchedOrder DEF MigrationInv
  <2>9. additive => Grows(before, db)
    BY <2>1, GrowsIsReflexive DEF MigrationInv
  <2>10. QED
    BY <2>1, <2>7, <2>8, <2>9 DEF MigrationInv
<1>6. CASE Execute
  <2>1. /\ script # <<>> /\ Accepts(backend, db, Head(script))
        /\ db' = Effect(backend, db, Head(script)) /\ script' = Tail(script)
        /\ backend' = backend /\ edit' = edit /\ before' = before
        /\ additive' = additive /\ phase' = phase /\ UNCHANGED orderVars
        /\ phase \in {"applying", "reverting"}
    BY <1>6 DEF Execute, Running
  <2>2. OrderInv' /\ batch' = batch
    BY <2>1, UntouchedOrder DEF MigrationInv
  <2>3. CASE phase = "applying"
    <3>1. PICK b, c, s, q, to, ops : /\ b = backend /\ c = db /\ s = Head(script) /\ q = script
                                     /\ to = edit.to /\ ops = IF additive THEN AddingOps ELSE AllOps
      OBVIOUS
    <3>2. b \in Backends /\ IsSchema(c) /\ IsScript(to, q, ops) /\ q # <<>> /\ Accepts(b, c, s)
      BY <2>1, <2>3, <3>1 DEF MigrationInv
    <3>3. s.op \in ops /\ IsStatement(s) /\ IsScript(to, Tail(q), ops)
      BY <3>1, <3>2, ScriptHeadTail DEF IsStatementOf
    <3>4. s.op \in AllOps /\ (additive => s.op \in AddingOps)
      BY <3>1, <3>3 DEF AllOps
    <3>5. IsSchema(Effect(b, c, s)) /\ (additive => Grows(c, Effect(b, c, s)))
      BY <3>2, <3>3, <3>4, EffectFacts
    <3>6. IsSchema(db') /\ (additive => Grows(db, db'))
      BY <2>1, <3>1, <3>5
    <3>7. additive => Grows(before, db')
      BY <2>3, <3>6, GrowsIsTransitive DEF MigrationInv
    <3>8. IsScript(edit.to, script', IF additive THEN AddingOps ELSE AllOps)
      BY <2>1, <3>1, <3>3
    <3>9. QED
      BY <2>1, <2>2, <2>3, <3>6, <3>7, <3>8 DEF MigrationInv
  <2>4. CASE phase = "reverting"
    BY <2>1, <2>2, <2>4 DEF MigrationInv
  <2>5. QED
    BY <2>1, <2>3, <2>4
<1>7. CASE Refuse \/ Complete \/ Revert \/ Retry
  <2>1. /\ backend' = backend /\ edit' = edit /\ db' = db /\ before' = before
        /\ additive' = additive /\ UNCHANGED orderVars
        /\ \/ phase = "applying" /\ phase' \in {"failed", "applied"}
           \/ phase = "reverting" /\ phase' \in {"revert failed", "reverted"}
           \/ phase = "applied" /\ phase' = "reverting"
           \/ phase = "failed" /\ phase' = "edited"
    BY <1>7 DEF Refuse, Complete, Revert, Retry, Running
  <2>2. OrderInv' /\ batch' = batch
    BY <2>1, UntouchedOrder DEF MigrationInv
  <2>3. QED
    BY <2>1, <2>2 DEF MigrationInv
<1>8. CASE UNCHANGED vars
  <2>1. UNCHANGED schemaVars /\ UNCHANGED orderVars
    BY <1>8 DEF vars
  <2>2. OrderInv' /\ batch' = batch
    BY <2>1, UntouchedOrder DEF MigrationInv
  <2>3. QED
    BY <2>1, <2>2 DEF MigrationInv, schemaVars
<1>9. QED
  BY <1>1, <1>2, <1>3, <1>4, <1>5, <1>6, <1>7, <1>8 DEF Next

(* So it holds throughout. *)
LEMMA MigrationInvHolds == Spec => []MigrationInv
<1>1. QED
  BY MigrationInitInv, MigrationNextInv, PTL DEF Spec

(* Without --allow-destructive the database loses no table, column, key,   *)
(* index, enum value or view at any point of a migration, whatever the     *)
(* schemas, the backend and the statement it stops at (migrate.rs:608).    *)
THEOREM AdditiveMigrationsKeepEverything == Spec => []AdditiveKeepsEverything
<1>1. MigrationInv => AdditiveKeepsEverything
  <2> SUFFICES ASSUME MigrationInv, additive, phase \in {"applying", "applied", "failed"}
               PROVE  /\ \A m \in before.models :
                           /\ HasTable(db, m.table)
                           /\ Names(m.columns) \subseteq Names(ModelOf(db, m.table).columns)
                           /\ m.keys \subseteq ModelOf(db, m.table).keys
                           /\ m.indexes \subseteq ModelOf(db, m.table).indexes
                      /\ \A e \in before.enums :
                           \E n \in db.enums : n.name = e.name /\ e.values \subseteq n.values
                      /\ Names(before.views) \subseteq Names(db.views)
    BY DEF AdditiveKeepsEverything
  <2>1. Grows(before, db) /\ IsSchema(db)
    BY DEF MigrationInv
  <2>2. ASSUME NEW m \in before.models
        PROVE  /\ HasTable(db, m.table)
               /\ Names(m.columns) \subseteq Names(ModelOf(db, m.table).columns)
               /\ m.keys \subseteq ModelOf(db, m.table).keys
               /\ m.indexes \subseteq ModelOf(db, m.table).indexes
    <3>1. PICK n \in db.models : /\ n.table = m.table
                                 /\ Names(m.columns) \subseteq Names(n.columns)
                                 /\ m.keys \subseteq n.keys
                                 /\ m.indexes \subseteq n.indexes
      BY <2>1 DEF Grows
    <3>2. m.table \in Tables(db)
      BY <3>1 DEF Tables
    <3>3. ModelOf(db, m.table) = n
      BY <2>1, <3>1, <3>2, ModelOfFacts DEF IsSchema
    <3>4. QED
      BY <3>1, <3>2, <3>3 DEF HasTable
  <2>3. QED
    BY <2>1, <2>2 DEF Grows
<1>2. QED
  BY <1>1, MigrationInvHolds, PTL

(* Both hold of the tables of every migration, also of one that is         *)
(* generated anew after it failed.                                         *)
THEOREM MigrationsCreateInOrder == Spec => []ReferencedComeFirst /\ []EachTableOnce
<1>1. MigrationInv => ReferencedComeFirst
  BY DEF MigrationInv, OrderInv
<1>2. MigrationInv => EachTableOnce
  BY OrderInvGivesOnce DEF MigrationInv
<1>3. QED
  BY <1>1, <1>2, MigrationInvHolds, PTL

---------------------------------------------------------------------------
(* Scripts that only create *)

CreatingOps == {"create type", "create table", "create index", "create view"}

(* What a statement makes, by name. *)
MadeTables(s) == IF s.op = "create table" THEN {s.model.table} ELSE {}
MadeTypes(s) == IF s.op = "create type" THEN {s.enum.name} ELSE {}
MadeViews(s) == IF s.op = "create view" THEN {s.view.name} ELSE {}
Uniques(m) == {i \in m.indexes : i.unique}
MadeIndexes(s) ==
  IF s.op = "create table" THEN Names(Uniques(s.model))
  ELSE IF s.op = "create index" THEN {s.index.name} ELSE {}

MakesColumn(s, t, c) ==
  s.op = "create table" /\ s.model.table = t /\ c \in Names(s.model.columns)

IndexesNamed(m) == \A i \in m.indexes : "name" \in DOMAIN i

IndexNames(cat) == Names(UNION {m.indexes : m \in cat.models})

(* Nothing of it is there yet. *)
Fresh(cat, s) ==
  /\ MadeTables(s) \cap Tables(cat) = {}
  /\ MadeTypes(s) \cap Names(cat.enums) = {}
  /\ MadeViews(s) \cap Names(cat.views) = {}
  /\ MadeIndexes(s) \cap IndexNames(cat) = {}

(* They make nothing of the same name. *)
Apart(s, t) ==
  /\ MadeTables(s) \cap MadeTables(t) = {}
  /\ MadeTypes(s) \cap MadeTypes(t) = {}
  /\ MadeViews(s) \cap MadeViews(t) = {}
  /\ MadeIndexes(s) \cap MadeIndexes(t) = {}

(* What it refers to is there or made by one of the statements in E, but   *)
(* for the foreign keys of a cycle.                                        *)
KeyMet(b, cat, E, t, k, cyclic) ==
  \/ b = "Sqlite" \/ cyclic
  \/ k.table = t \/ k.table \in Tables(cat)
  \/ \E e \in E : k.table \in MadeTables(e)

Met(b, cat, E, s, cyclic) ==
  /\ s.op = "create table" =>
       /\ \A k \in s.model.keys : KeyMet(b, cat, E, s.model.table, k, cyclic)
       /\ \A c \in s.model.columns : b = "Postgres" /\ c.enum # Absent =>
            c.enum \in Names(cat.enums) \/ \E e \in E : c.enum \in MadeTypes(e)
  /\ s.op = "create index" =>
       /\ s.table \in Tables(cat) \/ \E e \in E : s.table \in MadeTables(e)
       /\ \A n \in 1..Len(s.index.columns) :
            \/ HasColumn(cat, s.table, s.index.columns[n])
            \/ \E e \in E : MakesColumn(e, s.table, s.index.columns[n])
  /\ s.op = "create view" =>
       \/ b = "Sqlite" \/ s.view.reads \in Tables(cat)
       \/ \E e \in E : s.view.reads \in MadeTables(e)

Earlier(q, i) == {q[j] : j \in 1..(i - 1)}

(* A script that runs to its end when those in E have run.                 *)
Runnable(b, cat, E, q, cyclic) ==
  /\ \A i \in 1..Len(q) : q[i].op \in CreatingOps
  /\ \A i \in 1..Len(q) : q[i].op = "create table" => IndexesNamed(q[i].model)
  /\ \A i \in 1..Len(q) : Fresh(cat, q[i]) /\ Met(b, cat, E \cup Earlier(q, i), q[i], cyclic)
  /\ \A i, j \in 1..Len(q) : i # j => Apart(q[i], q[j])

(* What is demanded of the statements that create. *)
LEMMA AcceptsCreating ==
  ASSUME NEW b, NEW cat, NEW s
  PROVE  /\ s.op = "create type" => (Accepts(b, cat, s) <=> s.enum.name \notin Names(cat.enums))
         /\ s.op = "create table" => (Accepts(b, cat, s) <=> AcceptsCreateTable(b, cat, s.model))
         /\ s.op = "create index" =>
              (Accepts(b, cat, s) <=> AcceptsCreateIndex(b, cat, s.table, s.index))
         /\ s.op = "create view" => (Accepts(b, cat, s) <=> AcceptsCreateView(b, cat, s.view))
<1>1. ASSUME s.op = "create type"
      PROVE  Accepts(b, cat, s) <=> s.enum.name \notin Names(cat.enums)
  BY <1>1, Zenon DEF Accepts
<1>2. ASSUME s.op = "create table"
      PROVE  Accepts(b, cat, s) <=> AcceptsCreateTable(b, cat, s.model)
  BY <1>2, Zenon DEF Accepts
<1>3. ASSUME s.op = "create index"
      PROVE  Accepts(b, cat, s) <=> AcceptsCreateIndex(b, cat, s.table, s.index)
  BY <1>3, Zenon DEF Accepts
<1>4. ASSUME s.op = "create view"
      PROVE  Accepts(b, cat, s) <=> AcceptsCreateView(b, cat, s.view)
  BY <1>4, Zenon DEF Accepts
<1>5. QED
  BY <1>1, <1>2, <1>3, <1>4

(* The first statement is accepted.                                        *)
LEMMA RunnableIsAccepted ==
  ASSUME NEW b \in Backends, NEW cat, NEW ops, NEW to, NEW q, IsScript(to, q, ops), q # <<>>,
         NEW cyclic \in BOOLEAN, Runnable(b, cat, {}, q, cyclic)
  PROVE  Accepts(b, cat, Head(q)) \/ (cyclic /\ b # "Sqlite")
<1>0. PICK s : s = Head(q)
  OBVIOUS
<1>1. Len(q) \in Nat /\ Len(q) > 0 /\ s = q[1]
  <2>1. q \in Seq(Elements(q)) /\ Len(q) \in Nat
    BY ScriptIsSeq
  <2>2. QED
    BY <1>0, <2>1, HeadTailProperties, EmptySeq, LenProperties
<1>2. Fresh(cat, q[1]) /\ Met(b, cat, {} \cup Earlier(q, 1), q[1], cyclic) /\ q[1].op \in CreatingOps
  <2>1. 1 \in 1..Len(q)
    BY <1>1
  <2>2. QED
    BY <2>1 DEF Runnable
<1>3. {} \cup Earlier(q, 1) = {}
  BY DEF Earlier
<1>4. Fresh(cat, s) /\ Met(b, cat, {}, s, cyclic) /\ s.op \in CreatingOps
  BY <1>1, <1>2, <1>3, Zenon
<1> SUFFICES Accepts(b, cat, s) \/ (cyclic /\ b # "Sqlite")
  BY <1>0
<1>5. CASE s.op = "create type"
  <2>1. Accepts(b, cat, s) <=> s.enum.name \notin Names(cat.enums)
    BY <1>5, AcceptsCreating
  <2>2. QED
    BY <1>4, <1>5, <2>1 DEF Fresh, MadeTypes
<1>6. CASE s.op = "create table"
  <2>1. ~HasTable(cat, s.model.table)
    BY <1>4, <1>6 DEF Fresh, MadeTables, HasTable
  <2>2. (\A k \in s.model.keys : b = "Sqlite" \/ HasTable(cat, k.table) \/ k.table = s.model.table)
        \/ (cyclic /\ b # "Sqlite")
    BY <1>4, <1>6 DEF Met, KeyMet, HasTable
  <2>3. \A c \in s.model.columns : TypeKnown(b, cat, c)
    BY <1>4, <1>6 DEF Met, TypeKnown
  <2>4. b = "Postgres" =>
          Names({i \in s.model.indexes : i.unique}) \cap Names(IndexesBeside(b, cat, s.model.table)) = {}
    <3>1. Names(IndexesBeside(b, cat, s.model.table)) \subseteq IndexNames(cat)
      BY DEF Names, IndexesBeside, IndexNames
    <3>2. Names({i \in s.model.indexes : i.unique}) \cap IndexNames(cat) = {}
      BY <1>4, <1>6 DEF Fresh, MadeIndexes, Uniques
    <3>3. QED
      BY <3>1, <3>2
  <2>5. Accepts(b, cat, s) <=> AcceptsCreateTable(b, cat, s.model)
    BY <1>6, AcceptsCreating
  <2>6. QED
    BY <2>1, <2>2, <2>3, <2>4, <2>5 DEF AcceptsCreateTable
<1>7. CASE s.op = "create index"
  <2>1. HasTable(cat, s.table)
        /\ \A n \in 1..Len(s.index.columns) : HasColumn(cat, s.table, s.index.columns[n])
    BY <1>4, <1>7 DEF Met, HasTable
  <2>2. s.index.name \notin Names(IndexesBeside(b, cat, s.table))
    <3>1. Names(IndexesBeside(b, cat, s.table)) \subseteq IndexNames(cat)
      BY DEF Names, IndexesBeside, IndexNames
    <3>2. s.index.name \notin IndexNames(cat)
      BY <1>4, <1>7 DEF Fresh, MadeIndexes
    <3>3. QED
      BY <3>1, <3>2
  <2>3. Accepts(b, cat, s) <=> AcceptsCreateIndex(b, cat, s.table, s.index)
    BY <1>7, AcceptsCreating
  <2>4. QED
    BY <2>1, <2>2, <2>3 DEF AcceptsCreateIndex
<1>8. CASE s.op = "create view"
  <2>1. b # "Sqlite" => HasTable(cat, s.view.reads)
    BY <1>4, <1>8 DEF Met, HasTable
  <2>2. {x \in cat.views : x.name = s.view.name} = {}
    BY <1>4, <1>8 DEF Fresh, MadeViews, Names
  <2>3. AcceptsCreateView(b, cat, s.view)
    BY <2>1, <2>2 DEF AcceptsCreateView, Backends
  <2>4. Accepts(b, cat, s) <=> AcceptsCreateView(b, cat, s.view)
    BY <1>8, AcceptsCreating
  <2>5. QED
    BY <2>3, <2>4
<1>9. QED
  BY <1>4, <1>5, <1>6, <1>7, <1>8 DEF CreatingOps

(* The other tables, a table with one more index, and the columns and the  *)
(* view as they are stored.                                                *)
Others(cat, t) == {x \in cat.models : x.table # t}
WithIndex(m, i) == [m EXCEPT !.indexes = @ \cup {i}]
ColumnsStored(b, m) == {Stored(b, c) : c \in m.columns}
StoredView(b, v) == [v EXCEPT !.materialized = @ /\ b = "Postgres"]

(* What the statements that create make of the catalog. *)
CreatingMakes(b, cat, s, new) ==
  /\ s.op = "create type" =>
       new.models = cat.models /\ new.enums = cat.enums \cup {s.enum} /\ new.views = cat.views
  /\ s.op = "create table" =>
       /\ new.models = cat.models \cup {StoredModel(b, s.model)}
       /\ new.enums = cat.enums /\ new.views = cat.views
  /\ s.op = "create index" =>
       /\ s.table \in Tables(cat)
       /\ new.models = Others(cat, s.table) \cup {WithIndex(ModelOf(cat, s.table), s.index)}
       /\ new.enums = cat.enums /\ new.views = cat.views
  /\ s.op = "create view" =>
       /\ new.models = cat.models /\ new.enums = cat.enums
       /\ new.views = cat.views \cup {StoredView(b, s.view)}

LEMMA CreatingEffect ==
  ASSUME NEW b \in Backends, NEW cat, IsSchema(cat), NEW s, IsStatement(s),
         s.op \in CreatingOps, Accepts(b, cat, s), Fresh(cat, s)
  PROVE  CreatingMakes(b, cat, s, Effect(b, cat, s))
<1>0. PICK new : new = Effect(b, cat, s)
  OBVIOUS
<1>1. ASSUME s.op = "create type"
      PROVE  new.models = cat.models /\ new.enums = cat.enums \cup {s.enum} /\ new.views = cat.views
  <2>1. new = [cat EXCEPT !.enums = cat.enums \cup {s.enum}]
    BY <1>0, <1>1 DEF Effect
  <2>2. new = [models |-> cat.models, enums |-> cat.enums \cup {s.enum}, views |-> cat.views]
    BY <2>1, SchemaParts
  <2>3. QED
    BY <2>2
<1>2. ASSUME s.op = "create table"
      PROVE  /\ new.models = cat.models \cup {StoredModel(b, s.model)}
             /\ new.enums = cat.enums /\ new.views = cat.views
  <2>1. PICK m, r : m = s.model /\ r = StoredModel(b, s.model)
    OBVIOUS
  <2>2. IsModel(m) /\ m.table \notin Tables(cat)
    BY <1>2, <2>1 DEF IsStatement, Fresh, MadeTables
  <2>3. IsModel(r) /\ r.table = m.table
    BY <2>1, <2>2, StoredModelIsModel
  <2>4. new = WithModel(cat, r)
    BY <1>0, <1>2, <2>1 DEF Effect, StoredModel
  <2>5. new = [models |-> {x \in cat.models : x.table # r.table} \cup {r},
               enums |-> cat.enums, views |-> cat.views]
    BY <2>3, <2>4, WithModelIsSchema
  <2>6. {x \in cat.models : x.table # r.table} = cat.models
    BY <2>2, <2>3 DEF Tables
  <2>7. QED
    BY <2>1, <2>5, <2>6
<1>3. ASSUME s.op = "create index"
      PROVE  /\ s.table \in Tables(cat)
             /\ new.models = Others(cat, s.table) \cup {WithIndex(ModelOf(cat, s.table), s.index)}
             /\ new.enums = cat.enums /\ new.views = cat.views
  <2>1. PICK m : m = ModelOf(cat, s.table)
    OBVIOUS
  <2>2. s.table \in Tables(cat)
    <3>1. s.op \in AlteringOps
      BY <1>3 DEF AlteringOps
    <3>2. HasTable(cat, s.table)
      BY <3>1, AlteredTableExists
    <3>3. QED
      BY <3>2 DEF HasTable
  <2>3. m \in cat.models /\ m.table = s.table
    BY <2>1, <2>2, ModelOfFacts
  <2>4. IsModel(m)
    BY <2>3 DEF IsSchema
  <2>5. PICK r : r = [m EXCEPT !.indexes = @ \cup {s.index}]
    OBVIOUS
  <2>6. r = TableEffect(b, m, s)
    BY <1>3, <2>5 DEF TableEffect
  <2>7. IsModel(r) /\ r.table = m.table
    BY <1>3, <2>4, <2>6, TableEffectFacts DEF AlteringOps
  <2>8. new = WithModel(cat, r)
    BY <1>0, <1>3, <2>1, <2>6 DEF Effect
  <2>9. new = [models |-> {x \in cat.models : x.table # r.table} \cup {r},
               enums |-> cat.enums, views |-> cat.views]
    BY <2>7, <2>8, WithModelIsSchema
  <2>10. QED
    BY <2>1, <2>2, <2>3, <2>5, <2>7, <2>9 DEF Others, WithIndex
<1>4. ASSUME s.op = "create view"
      PROVE  /\ new.models = cat.models /\ new.enums = cat.enums
             /\ new.views = cat.views \cup {StoredView(b, s.view)}
  <2>1. s.view.name \notin Names(cat.views)
    BY <1>4 DEF Fresh, MadeViews
  <2>2. new = CreateViewEffect(b, cat, s.view)
    BY <1>0, <1>4 DEF Effect
  <2>3. PICK V : V = {x \in cat.views : x.name # s.view.name} \cup {StoredView(b, s.view)}
    OBVIOUS
  <2>4. new = [cat EXCEPT !.views = V]
    BY <2>1, <2>2, <2>3 DEF CreateViewEffect, StoredView
  <2>5. new = [models |-> cat.models, enums |-> cat.enums, views |-> V]
    BY <2>4, SchemaParts
  <2>6. {x \in cat.views : x.name # s.view.name} = cat.views
    BY <2>1 DEF Names
  <2>7. QED
    BY <2>3, <2>5, <2>6
<1>5. CreatingMakes(b, cat, s, new)
  BY <1>1, <1>2, <1>3, <1>4, Zenon DEF CreatingMakes
<1>6. QED
  BY <1>0, <1>5, Zenon

(* An index made a constraint, or one of other columns, keeps its name. *)
LEMMA IndexKeepsName ==
  ASSUME NEW i, "name" \in DOMAIN i, NEW x
  PROVE  /\ [i EXCEPT !.constraint = x].name = i.name
         /\ [i EXCEPT !.columns = x].name = i.name
         /\ DOMAIN [i EXCEPT !.constraint = x] = DOMAIN i
         /\ DOMAIN [i EXCEPT !.columns = x] = DOMAIN i
OBVIOUS

(* The indexes of a new table are its constraints. *)
LEMMA StoredModelParts ==
  ASSUME NEW b, NEW m, IsModel(m), IndexesNamed(m)
  PROVE  /\ StoredModel(b, m).table = m.table
         /\ StoredModel(b, m).keys = m.keys
         /\ Names(StoredModel(b, m).columns) = Names(m.columns)
         /\ StoredModel(b, m).columns = ColumnsStored(b, m)
         /\ Names(StoredModel(b, m).indexes) = Names(Uniques(m))
<1>0. PICK r : r = StoredModel(b, m)
  OBVIOUS
<1>1. DOMAIN m = {"table", "columns", "keys", "indexes"}
  BY DEF IsModel
<1>2. /\ r.table = m.table /\ r.keys = m.keys
      /\ r.columns = {Stored(b, c) : c \in m.columns} /\ r.indexes = Constraints(m)
  BY <1>0, <1>1 DEF StoredModel
<1>7. r.columns = ColumnsStored(b, m)
  BY <1>2 DEF ColumnsStored
<1>3. \A c \in m.columns : Stored(b, c).name = c.name
  BY StoredIsColumn DEF IsModel
<1>4. Names(r.columns) = Names(m.columns)
  BY <1>2, <1>3 DEF Names
<1>5. Names(r.indexes) = Names(Uniques(m))
  <2> DEFINE J == {i \in m.indexes : i.unique}
             f == [i \in J |-> [i EXCEPT !.constraint = TRUE]]
  <2>1. \A i \in J : f[i].name = i.name
    BY IndexKeepsName DEF IndexesNamed
  <2>2. Constraints(m) = {f[i] : i \in J}
    BY DEF Constraints
  <2> HIDE DEF f, J
  <2>3. Names({f[i] : i \in J}) = Names(J)
    BY <2>1 DEF Names
  <2>4. QED
    BY <1>2, <2>2, <2>3 DEF J, Uniques
<1>6. QED
  BY <1>0, <1>2, <1>4, <1>5, <1>7, Zenon

(* A column of a model of the catalog is a column of its table. *)
LEMMA HasColumnOf ==
  ASSUME NEW cat, IsSchema(cat), NEW n \in cat.models, NEW c \in Names(n.columns)
  PROVE  HasColumn(cat, n.table, c)
<1>1. n.table \in Tables(cat)
  BY DEF Tables
<1>2. ModelOf(cat, n.table) = n
  BY <1>1, ModelOfFacts DEF IsSchema
<1>3. QED
  BY <1>1, <1>2 DEF HasColumn, HasTable

(* A grown catalog has the columns it had. *)
LEMMA ColumnsGrow ==
  ASSUME NEW cat, NEW new, IsSchema(cat), IsSchema(new), Grows(cat, new),
         NEW t, NEW c, HasColumn(cat, t, c)
  PROVE  HasColumn(new, t, c)
<1>1. PICK m : m = ModelOf(cat, t)
  OBVIOUS
<1>2. m \in cat.models /\ m.table = t /\ c \in Names(m.columns)
  BY <1>1, ModelOfFacts DEF HasColumn, HasTable
<1>3. PICK n \in new.models : n.table = m.table /\ Names(m.columns) \subseteq Names(n.columns)
  BY <1>2 DEF Grows
<1>4. c \in Names(n.columns)
  BY <1>2, <1>3
<1>5. QED
  BY <1>2, <1>3, <1>4, HasColumnOf

(* By name, a statement adds what it makes. *)
AddsByName(cat, new, s) ==
  /\ Tables(new) = Tables(cat) \cup MadeTables(s)
  /\ Names(new.enums) = Names(cat.enums) \cup MadeTypes(s)
  /\ Names(new.views) = Names(cat.views) \cup MadeViews(s)
  /\ IndexNames(new) \subseteq IndexNames(cat) \cup MadeIndexes(s)
  /\ \A t, c : HasColumn(cat, t, c) \/ MakesColumn(s, t, c) => HasColumn(new, t, c)

LEMMA CreatingNames ==
  ASSUME NEW b \in Backends, NEW cat, IsSchema(cat), NEW s, IsStatement(s),
         s.op \in CreatingOps, Accepts(b, cat, s), Fresh(cat, s),
         s.op = "create table" => IndexesNamed(s.model)
  PROVE  IsSchema(Effect(b, cat, s)) /\ AddsByName(cat, Effect(b, cat, s), s)
<1>a. CreatingMakes(b, cat, s, Effect(b, cat, s))
  BY CreatingEffect
<1>b. IsSchema(Effect(b, cat, s)) /\ Grows(cat, Effect(b, cat, s))
  <2>1. s.op \in AllOps /\ s.op \in AddingOps
    BY DEF CreatingOps, AllOps, AddingOps
  <2>2. IsSchema(Effect(b, cat, s)) /\ (s.op \in AddingOps => Grows(cat, Effect(b, cat, s)))
    BY <2>1, EffectFacts
  <2>3. QED
    BY <2>1, <2>2
<1>c. PICK new : new = Effect(b, cat, s)
  OBVIOUS
<1>0. CreatingMakes(b, cat, s, new)
  BY <1>a, <1>c, Zenon
<1>1. IsSchema(new) /\ Grows(cat, new)
  BY <1>b, <1>c, Zenon
<1>2. \A t, c : HasColumn(cat, t, c) => HasColumn(new, t, c)
  <2>1. ASSUME NEW t, NEW c, HasColumn(cat, t, c) PROVE HasColumn(new, t, c)
    BY <1>1, <2>1, ColumnsGrow
  <2>2. QED
    BY <2>1
<1> SUFFICES AddsByName(cat, new, s)
  BY <1>b, <1>c, Zenon
<1>3. CASE s.op = "create type"
  <2>1. new.models = cat.models /\ new.enums = cat.enums \cup {s.enum} /\ new.views = cat.views
    BY <1>0, <1>3 DEF CreatingMakes
  <2>2. Names(new.enums) = Names(cat.enums) \cup MadeTypes(s)
    BY <1>3, <2>1 DEF Names, MadeTypes
  <2>3. Tables(new) = Tables(cat) /\ IndexNames(new) = IndexNames(cat)
    BY <2>1 DEF Tables, IndexNames
  <2>4. MadeTables(s) = {} /\ MadeViews(s) = {} /\ \A t, c : ~MakesColumn(s, t, c)
    BY <1>3 DEF MadeTables, MadeViews, MakesColumn
  <2>5. QED
    BY <1>1, <1>2, <2>1, <2>2, <2>3, <2>4 DEF AddsByName
<1>4. CASE s.op = "create table"
  <2>1. PICK m, r : m = s.model /\ r = StoredModel(b, s.model)
    OBVIOUS
  <2>2. new.models = cat.models \cup {r} /\ new.enums = cat.enums /\ new.views = cat.views
    BY <1>0, <1>4, <2>1 DEF CreatingMakes
  <2>3. IsModel(m) /\ IndexesNamed(m)
    BY <1>4, <2>1 DEF IsStatement
  <2>4. /\ r.table = m.table /\ r.keys = m.keys
        /\ Names(r.columns) = Names(m.columns)
        /\ r.columns = ColumnsStored(b, m)
        /\ Names(r.indexes) = Names(Uniques(m))
    <3>1. r = StoredModel(b, m)
      BY <2>1
    <3>2. QED
      BY <2>3, <3>1, StoredModelParts
  <2>5. Tables(new) = Tables(cat) \cup MadeTables(s)
    BY <1>4, <2>1, <2>2, <2>4 DEF Tables, MadeTables
  <2>6. IndexNames(new) \subseteq IndexNames(cat) \cup MadeIndexes(s)
    <3>1. IndexNames(new) \subseteq IndexNames(cat) \cup Names(r.indexes)
      BY <2>2 DEF IndexNames, Names
    <3>2. MadeIndexes(s) = Names(r.indexes)
      BY <1>4, <2>1, <2>4 DEF MadeIndexes
    <3>3. QED
      BY <3>1, <3>2
  <2>7. ASSUME NEW t, NEW c, MakesColumn(s, t, c) PROVE HasColumn(new, t, c)
    <3>1. t = r.table /\ c \in Names(r.columns) /\ r \in new.models
      BY <2>1, <2>2, <2>4, <2>7 DEF MakesColumn
    <3>2. QED
      BY <1>1, <3>1, HasColumnOf
  <2>8. MadeTypes(s) = {} /\ MadeViews(s) = {}
    BY <1>4 DEF MadeTypes, MadeViews
  <2>9. QED
    BY <1>1, <1>2, <2>2, <2>5, <2>6, <2>7, <2>8 DEF AddsByName
<1>5. CASE s.op = "create index"
  <2>1. PICK m, r : m = ModelOf(cat, s.table) /\ r = WithIndex(m, s.index)
    OBVIOUS
  <2>2. /\ s.table \in Tables(cat)
        /\ new.models = Others(cat, s.table) \cup {r}
        /\ new.enums = cat.enums /\ new.views = cat.views
    BY <1>0, <1>5, <2>1, Zenon DEF CreatingMakes
  <2>3. m \in cat.models /\ m.table = s.table
    BY <2>1, <2>2, ModelOfFacts
  <2>4. IsModel(m)
    BY <2>3 DEF IsSchema
  <2>5. r.table = m.table /\ r.indexes = m.indexes \cup {s.index}
    <3>1. DOMAIN m = {"table", "columns", "keys", "indexes"}
      BY <2>4 DEF IsModel
    <3>2. QED
      BY <2>1, <3>1 DEF WithIndex
  <2>6. Tables(new) = Tables(cat)
    BY ZenonT(60), <2>2, <2>3, <2>5 DEF Tables, Others
  <2>7. IndexNames(new) \subseteq IndexNames(cat) \cup {s.index.name}
    <3>1. ASSUME NEW x \in new.models, NEW i \in x.indexes
          PROVE  i.name \in IndexNames(cat) \cup {s.index.name}
      <4>1. x \in cat.models \/ x = r
        BY <2>2 DEF Others
      <4>2. (\E y \in cat.models : i \in y.indexes) \/ i = s.index
        BY <2>3, <2>5, <4>1
      <4>3. QED
        BY <4>2 DEF IndexNames, Names
    <3>2. QED
      BY <3>1 DEF IndexNames, Names
  <2>8. MadeIndexes(s) = {s.index.name}
    BY <1>5 DEF MadeIndexes
  <2>9. MadeTables(s) = {} /\ MadeTypes(s) = {} /\ MadeViews(s) = {} /\ \A t, c : ~MakesColumn(s, t, c)
    BY <1>5 DEF MadeTables, MadeTypes, MadeViews, MakesColumn
  <2>10. QED
    BY <1>1, <1>2, <2>2, <2>6, <2>7, <2>8, <2>9 DEF AddsByName
<1>6. CASE s.op = "create view"
  <2>1. PICK v, w : v = s.view /\ w = StoredView(b, s.view)
    OBVIOUS
  <2>2. /\ new.models = cat.models /\ new.enums = cat.enums
        /\ new.views = cat.views \cup {w}
    BY <1>0, <1>6, <2>1 DEF CreatingMakes
  <2>3. w.name = v.name
    <3>1. DOMAIN v = {"name", "reads", "sql", "materialized"}
      BY <1>6, <2>1 DEF IsStatement
    <3>2. QED
      BY <2>1, <3>1 DEF StoredView
  <2>4. Names(new.views) = Names(cat.views) \cup MadeViews(s)
    BY <1>6, <2>1, <2>2, <2>3 DEF Names, MadeViews
  <2>5. Tables(new) = Tables(cat) /\ IndexNames(new) = IndexNames(cat)
    BY <2>2 DEF Tables, IndexNames
  <2>6. MadeTables(s) = {} /\ MadeTypes(s) = {} /\ \A t, c : ~MakesColumn(s, t, c)
    BY <1>6 DEF MadeTables, MadeTypes, MakesColumn
  <2>7. QED
    BY <1>1, <1>2, <2>2, <2>4, <2>5, <2>6 DEF AddsByName
<1>7. QED
  BY <1>3, <1>4, <1>5, <1>6 DEF CreatingOps

(* A statement can still run after another one has. *)
LEMMA FreshStays ==
  ASSUME NEW cat, NEW new, NEW s, NEW t, AddsByName(cat, new, s), Fresh(cat, t), Apart(s, t)
  PROVE  Fresh(new, t)
BY DEF AddsByName, Fresh, Apart

LEMMA MetStays ==
  ASSUME NEW b, NEW cat, NEW new, NEW E, NEW F, NEW s, NEW t, NEW cyclic,
         AddsByName(cat, new, s), Met(b, cat, F, t, cyclic), F \subseteq E \cup {s}
  PROVE  Met(b, new, E, t, cyclic)
<1>1. ASSUME NEW k, KeyMet(b, cat, F, t.model.table, k, cyclic)
      PROVE  KeyMet(b, new, E, t.model.table, k, cyclic)
  BY <1>1 DEF KeyMet, AddsByName
<1>2. ASSUME NEW n, n \in Names(cat.enums) \/ \E e \in F : n \in MadeTypes(e)
      PROVE  n \in Names(new.enums) \/ \E e \in E : n \in MadeTypes(e)
  BY <1>2 DEF AddsByName
<1>3. ASSUME NEW n, n \in Tables(cat) \/ \E e \in F : n \in MadeTables(e)
      PROVE  n \in Tables(new) \/ \E e \in E : n \in MadeTables(e)
  BY <1>3 DEF AddsByName
<1>4. ASSUME NEW n, NEW c, HasColumn(cat, n, c) \/ \E e \in F : MakesColumn(e, n, c)
      PROVE  HasColumn(new, n, c) \/ \E e \in E : MakesColumn(e, n, c)
  BY <1>4 DEF AddsByName
<1>5. ASSUME t.op = "create table"
      PROVE  /\ \A k \in t.model.keys : KeyMet(b, new, E, t.model.table, k, cyclic)
             /\ \A c \in t.model.columns : b = "Postgres" /\ c.enum # Absent =>
                  c.enum \in Names(new.enums) \/ \E e \in E : c.enum \in MadeTypes(e)
  <2>1. \A k \in t.model.keys : KeyMet(b, cat, F, t.model.table, k, cyclic)
    BY <1>5 DEF Met
  <2>2. \A c \in t.model.columns : b = "Postgres" /\ c.enum # Absent =>
          c.enum \in Names(cat.enums) \/ \E e \in F : c.enum \in MadeTypes(e)
    BY <1>5 DEF Met
  <2>3. QED
    BY <1>1, <1>2, <2>1, <2>2
<1>6. ASSUME t.op = "create index"
      PROVE  /\ t.table \in Tables(new) \/ \E e \in E : t.table \in MadeTables(e)
             /\ \A n \in 1..Len(t.index.columns) :
                  \/ HasColumn(new, t.table, t.index.columns[n])
                  \/ \E e \in E : MakesColumn(e, t.table, t.index.columns[n])
  <2>1. /\ t.table \in Tables(cat) \/ \E e \in F : t.table \in MadeTables(e)
        /\ \A n \in 1..Len(t.index.columns) :
             \/ HasColumn(cat, t.table, t.index.columns[n])
             \/ \E e \in F : MakesColumn(e, t.table, t.index.columns[n])
    BY <1>6 DEF Met
  <2>2. QED
    BY <1>3, <1>4, <2>1
<1>7. ASSUME t.op = "create view"
      PROVE  \/ b = "Sqlite" \/ t.view.reads \in Tables(new)
             \/ \E e \in E : t.view.reads \in MadeTables(e)
  <2>1. \/ b = "Sqlite" \/ t.view.reads \in Tables(cat)
        \/ \E e \in F : t.view.reads \in MadeTables(e)
    BY <1>7 DEF Met
  <2>2. QED
    BY <1>3, <2>1
<1>8. QED
  BY <1>5, <1>6, <1>7 DEF Met

(* What is demanded is demanded of no more with more statements before it. *)
LEMMA MetGrows ==
  ASSUME NEW b, NEW cat, NEW E, NEW F, NEW t, NEW cyclic, Met(b, cat, E, t, cyclic), E \subseteq F
  PROVE  Met(b, cat, F, t, cyclic)
BY DEF Met, KeyMet

(* The rest of a script can run when its head has. *)
LEMMA RunnableStep ==
  ASSUME NEW b, NEW cat, NEW new, NEW ops, NEW to, NEW q, IsScript(to, q, ops), q # <<>>,
         NEW cyclic, Runnable(b, cat, {}, q, cyclic), AddsByName(cat, new, Head(q))
  PROVE  Runnable(b, new, {}, Tail(q), cyclic)
<1> DEFINE S == Elements(q)
<1>1. PICK r, s : r = Tail(q) /\ s = Head(q)
  OBVIOUS
<1>2. q \in Seq(S) /\ Len(q) \in Nat
  BY ScriptIsSeq
<1> HIDE DEF S
<1>3. /\ s = q[1] /\ Len(q) > 0 /\ Len(r) = Len(q) - 1
      /\ \A i \in 1..Len(r) : r[i] = q[i + 1]
  BY <1>1, <1>2, HeadTailProperties, EmptySeq, LenProperties
<1>4. ASSUME NEW i \in 1..Len(r)
      PROVE  /\ i + 1 \in 1..Len(q) /\ r[i] = q[i + 1]
             /\ {} \cup Earlier(q, i + 1) \subseteq ({} \cup Earlier(r, i)) \cup {s}
  <2>1. i + 1 \in 1..Len(q) /\ r[i] = q[i + 1]
    BY <1>2, <1>3
  <2>2. ASSUME NEW j \in 1..((i + 1) - 1) PROVE q[j] \in Earlier(r, i) \cup {s}
    <3>1. CASE j = 1
      BY <1>3, <3>1
    <3>2. CASE j # 1
      <4>1. j - 1 \in 1..(i - 1) /\ j - 1 \in 1..Len(r) /\ (j - 1) + 1 = j
        BY <1>2, <1>3, <3>2
      <4>2. r[j - 1] = q[j]
        BY <1>3, <4>1
      <4>3. QED
        BY <4>1, <4>2 DEF Earlier
    <3>3. QED
      BY <3>1, <3>2
  <2>3. QED
    BY <2>1, <2>2 DEF Earlier
<1>5. ASSUME NEW i \in 1..Len(r)
      PROVE  Fresh(new, r[i]) /\ Met(b, new, {} \cup Earlier(r, i), r[i], cyclic)
  <2>1. PICK t : t = r[i]
    OBVIOUS
  <2>2. 1 \in 1..Len(q) /\ 1 # i + 1
    BY <1>2, <1>3
  <2>3. /\ Fresh(cat, t) /\ Apart(s, t)
        /\ Met(b, cat, {} \cup Earlier(q, i + 1), t, cyclic)
    BY <1>3, <1>4, <2>1, <2>2 DEF Runnable
  <2>4. AddsByName(cat, new, s)
    BY <1>1
  <2>5. Fresh(new, t)
    BY <2>3, <2>4, FreshStays
  <2>6. Met(b, new, {} \cup Earlier(r, i), t, cyclic)
    BY <1>4, <2>3, <2>4, MetStays
  <2>7. QED
    BY <2>1, <2>5, <2>6, Zenon
<1>6. \A i \in 1..Len(r) : r[i].op \in CreatingOps /\ (r[i].op = "create table" => IndexesNamed(r[i].model))
  BY <1>4 DEF Runnable
<1>7. ASSUME NEW i \in 1..Len(r), NEW j \in 1..Len(r), i # j
      PROVE  Apart(r[i], r[j])
  <2>1. i + 1 # j + 1
    BY <1>2, <1>3, <1>7
  <2>2. QED
    BY <1>4, <2>1 DEF Runnable
<1>8. Runnable(b, new, {}, r, cyclic)
  BY <1>5, <1>6, <1>7 DEF Runnable
<1>9. QED
  BY <1>1, <1>8

(* A script can run after more statements than it needs. *)
LEMMA RunnableAfterMore ==
  ASSUME NEW b, NEW cat, NEW E, NEW F, E \subseteq F, NEW q, NEW cyclic,
         Runnable(b, cat, E, q, cyclic)
  PROVE  Runnable(b, cat, F, q, cyclic)
<1>1. ASSUME NEW i \in 1..Len(q)
      PROVE  Met(b, cat, F \cup Earlier(q, i), q[i], cyclic)
  <2>1. Met(b, cat, E \cup Earlier(q, i), q[i], cyclic)
    BY DEF Runnable
  <2>2. E \cup Earlier(q, i) \subseteq F \cup Earlier(q, i)
    OBVIOUS
  <2>3. QED
    BY <2>1, <2>2, MetGrows
<1>2. QED
  BY <1>1 DEF Runnable

(* One script can run after another. *)
LEMMA RunnableConcat ==
  ASSUME NEW b, NEW cat, NEW E, NEW ops, NEW to, NEW cyclic,
         NEW p, IsScript(to, p, ops), Runnable(b, cat, E, p, cyclic),
         NEW q, IsScript(to, q, ops), Runnable(b, cat, E \cup Elements(p), q, cyclic),
         \A s \in Elements(p), t \in Elements(q) : Apart(s, t)
  PROVE  Runnable(b, cat, E, p \o q, cyclic)
<1>1. PICK r, m, n : r = p \o q /\ m = Len(p) /\ n = Len(q)
  OBVIOUS
<1>2. /\ m \in Nat /\ n \in Nat /\ Len(r) = m + n
      /\ \A i \in 1..Len(r) : r[i] = IF i <= m THEN p[i] ELSE q[i - m]
  <2> DEFINE S == Elements(p) \cup Elements(q)
  <2>1. p \in Seq(S) /\ q \in Seq(S) /\ Len(p) \in Nat /\ Len(q) \in Nat
    BY ScriptIsSeq
  <2> HIDE DEF S
  <2>2. /\ Len(p \o q) = Len(p) + Len(q)
        /\ \A k \in 1..Len(p) + Len(q) :
             (p \o q)[k] = IF k <= Len(p) THEN p[k] ELSE q[k - Len(p)]
    BY <2>1, ConcatProperties
  <2>3. QED
    BY <1>1, <2>1, <2>2
<1>3. ASSUME NEW i \in 1..Len(r), i <= m
      PROVE  /\ i \in 1..m /\ r[i] = p[i] /\ p[i] \in Elements(p)
             /\ Earlier(p, i) \subseteq Earlier(r, i)
  <2>1. i \in 1..m /\ r[i] = p[i]
    BY <1>2, <1>3
  <2>2. \A j \in 1..(i - 1) : j \in 1..Len(r) /\ j <= m /\ r[j] = p[j]
    BY <1>2, <1>3
  <2>3. QED
    BY <1>1, <2>1, <2>2 DEF Elements, Earlier
<1>4. ASSUME NEW i \in 1..Len(r), ~ (i <= m)
      PROVE  /\ i - m \in 1..n /\ r[i] = q[i - m] /\ q[i - m] \in Elements(q)
             /\ Elements(p) \cup Earlier(q, i - m) \subseteq Earlier(r, i)
  <2>1. i - m \in 1..n /\ r[i] = q[i - m]
    BY <1>2, <1>4
  <2>2. \A j \in 1..m : j \in 1..(i - 1) /\ r[j] = p[j]
    BY <1>2, <1>4
  <2>3. \A j \in 1..((i - m) - 1) : j + m \in 1..(i - 1) /\ r[j + m] = q[j]
    BY <1>2, <1>4
  <2>4. Elements(p) \subseteq Earlier(r, i)
    BY <1>1, <2>2 DEF Elements, Earlier
  <2>5. Earlier(q, i - m) \subseteq Earlier(r, i)
    <3>1. ASSUME NEW s \in Earlier(q, i - m) PROVE s \in Earlier(r, i)
      <4>1. PICK j \in 1..((i - m) - 1) : s = q[j]
        BY DEF Earlier
      <4>2. j + m \in 1..(i - 1) /\ s = r[j + m]
        BY <2>3, <4>1
      <4>3. QED
        BY <4>2 DEF Earlier
    <3>2. QED
      BY <3>1
  <2>6. q[i - m] \in Elements(q)
    BY <1>1, <2>1 DEF Elements
  <2>7. QED
    BY <2>1, <2>4, <2>5, <2>6
<1>5. ASSUME NEW i \in 1..Len(r)
      PROVE  /\ r[i].op \in CreatingOps
             /\ r[i].op = "create table" => IndexesNamed(r[i].model)
             /\ Fresh(cat, r[i])
             /\ Met(b, cat, E \cup Earlier(r, i), r[i], cyclic)
  <2>1. PICK s : s = r[i]
    OBVIOUS
  <2>2. CASE i <= m
    <3>1. /\ s.op \in CreatingOps /\ (s.op = "create table" => IndexesNamed(s.model)) /\ Fresh(cat, s)
          /\ Met(b, cat, E \cup Earlier(p, i), s, cyclic)
          /\ E \cup Earlier(p, i) \subseteq E \cup Earlier(r, i)
      BY <1>1, <1>3, <2>1, <2>2 DEF Runnable
    <3>2. Met(b, cat, E \cup Earlier(r, i), s, cyclic)
      BY <3>1, MetGrows
    <3>3. QED
      BY <2>1, <3>1, <3>2
  <2>3. CASE ~ (i <= m)
    <3>1. /\ s.op \in CreatingOps /\ (s.op = "create table" => IndexesNamed(s.model)) /\ Fresh(cat, s)
          /\ Met(b, cat, (E \cup Elements(p)) \cup Earlier(q, i - m), s, cyclic)
          /\ (E \cup Elements(p)) \cup Earlier(q, i - m) \subseteq E \cup Earlier(r, i)
      BY <1>1, <1>4, <2>1, <2>3 DEF Runnable
    <3>2. Met(b, cat, E \cup Earlier(r, i), s, cyclic)
      BY <3>1, MetGrows
    <3>3. QED
      BY <2>1, <3>1, <3>2
  <2>4. QED
    BY <2>2, <2>3
<1>6. ASSUME NEW i \in 1..Len(r), NEW j \in 1..Len(r), i # j
      PROVE  Apart(r[i], r[j])
  <2>1. CASE i <= m /\ j <= m
    BY <1>1, <1>3, <1>6, <2>1 DEF Runnable
  <2>2. CASE ~ (i <= m) /\ ~ (j <= m)
    <3>1. i - m # j - m
      BY <1>2, <1>6
    <3>2. QED
      BY <1>1, <1>4, <2>2, <3>1 DEF Runnable
  <2>3. CASE i <= m /\ ~ (j <= m)
    BY <1>3, <1>4, <2>3
  <2>4. CASE ~ (i <= m) /\ j <= m
    <3>1. Apart(r[j], r[i])
      BY <1>3, <1>4, <2>4
    <3>2. QED
      BY <3>1 DEF Apart
  <2>5. QED
    BY <2>1, <2>2, <2>3, <2>4
<1>7. Runnable(b, cat, E, r, cyclic)
  BY <1>5, <1>6 DEF Runnable
<1>8. QED
  BY <1>1, <1>7

(* The order of a set that has no order is one of its listings. *)
LEMMA SetToSeqIsListing ==
  ASSUME NEW S, IsFiniteSet(S)
  PROVE  SetToSeq(S) \in Listings(S)
<1>1. Cardinality(S) \in Nat /\ ExistsBijection(1..Cardinality(S), S)
  BY FS_CardinalityType
<1>2. PICK f \in [1..Cardinality(S) -> S] : IsInjective(f)
  BY <1>1 DEF ExistsBijection, Bijection, Injection, IsInjective
<1>3. SetToSeq(S) \in [1..Cardinality(S) -> S] /\ IsInjective(SetToSeq(S))
  BY <1>1, <1>2 DEF SetToSeq
<1>4. PICK l : l = SetToSeq(S)
  OBVIOUS
<1>5. l \in Listings(S)
  BY <1>3, <1>4 DEF Listings, IsInjective
<1>6. QED
  BY <1>4, <1>5

(* Different statements for different elements. *)
LEMMA EachOnce ==
  ASSUME NEW S, IsFiniteSet(S), NEW q, q = [i \in 1..Cardinality(S) |-> q[i]],
         NEW f, \A i \in 1..Cardinality(S) : q[i] = f[SetToSeq(S)[i]],
         \A x, y \in S : f[x] = f[y] => x = y
  PROVE  Len(q) \in Nat /\ NoDuplicates(q) /\ Elements(q) = Mapped(f, S)
<1>1. PICK l, n : l = SetToSeq(S) /\ n = Cardinality(S)
  OBVIOUS
<1>2. l \in Listings(S)
  BY <1>1, SetToSeqIsListing
<1>3. l \in Seq(S) /\ Elements(l) = S /\ NoDuplicates(l) /\ n \in Nat /\ l \in [1..n -> S]
  BY <1>1, <1>2, ListingProperties, FS_CardinalityType DEF Listings
<1>4. Len(l) = n
  BY <1>3, LenProperties
<1>5. Len(q) = n
  BY <1>1, <1>3, LenOfFunction
<1>6. \A i \in 1..n : q[i] = f[l[i]] /\ l[i] \in S
  BY <1>1, <1>3
<1>7. NoDuplicates(q)
  <2>1. ASSUME NEW i \in 1..n, NEW j \in 1..n, q[i] = q[j] PROVE i = j
    <3>1. f[l[i]] = f[l[j]]
      BY <1>6, <2>1
    <3>2. l[i] = l[j]
      BY <1>6, <3>1
    <3>3. QED
      BY <1>3, <1>4, <3>2 DEF NoDuplicates
  <2>2. QED
    BY <1>5, <2>1 DEF NoDuplicates
<1>8. Elements(q) = Mapped(f, S)
  <2>1. \A x \in S : \E i \in 1..n : l[i] = x
    BY <1>3, <1>4 DEF Elements
  <2>2. Elements(q) = {q[i] : i \in 1..n}
    BY <1>5 DEF Elements
  <2>3. ASSUME NEW s \in Elements(q) PROVE s \in Mapped(f, S)
    BY <1>6, <2>2 DEF Mapped
  <2>4. ASSUME NEW s \in Mapped(f, S) PROVE s \in Elements(q)
    <3>1. PICK x \in S : s = f[x]
      BY DEF Mapped
    <3>2. PICK i \in 1..n : l[i] = x
      BY <2>1
    <3>3. s = q[i]
      BY <1>6, <3>1, <3>2
    <3>4. QED
      BY <2>2, <3>3
  <2>5. QED
    BY <2>3, <2>4
<1>9. QED
  BY <1>3, <1>5, <1>7, <1>8

(* The statements for types, indexes and views, and those for tables. *)
TypesOf(d) == {[op |-> "create type", enum |-> e] : e \in d.createEnums}
TablesOf(d) == {[op |-> "create table", model |-> m] : m \in d.createModels}
IndexesOf(d) == {[op |-> "create index", table |-> x.table, index |-> x.index] : x \in d.createIndexes}
ViewsOf(d) == {[op |-> "create view", view |-> v] : v \in d.createViews}

(* Those of a script; only two backends have types. *)
HasTypes(b) == b \in {"Postgres", "DuckDb"}
CreationsOf(b, d) ==
  (IF HasTypes(b) THEN TypesOf(d) ELSE {}) \cup TablesOf(d) \cup IndexesOf(d) \cup ViewsOf(d)

LEMMA TypesOnce ==
  ASSUME NEW d, IsFiniteSet(d.createEnums)
  PROVE  LET q == Each(d.createEnums, CreateType)
         IN  Len(q) \in Nat /\ NoDuplicates(q) /\ Elements(q) = TypesOf(d)
<1> DEFINE q == Each(d.createEnums, CreateType)
<1>1. PICK S, f : S = d.createEnums /\ f = [x \in S |-> [op |-> "create type", enum |-> x]]
  OBVIOUS
<1>2. SetToSeq(S) \in [1..Cardinality(S) -> S]
  BY <1>1, SetToSeqFacts
<1>3. q = [i \in 1..Cardinality(S) |-> [op |-> "create type", enum |-> SetToSeq(S)[i]]]
  BY <1>1 DEF Each, CreateType
<1> HIDE DEF q
<1>4. q = [i \in 1..Cardinality(S) |-> q[i]]
  BY <1>3
<1>5. \A i \in 1..Cardinality(S) : q[i] = f[SetToSeq(S)[i]]
  BY <1>1, <1>2, <1>3
<1>6. \A x, y \in S : f[x] = f[y] => x = y
  BY <1>1
<1>7. Len(q) \in Nat /\ NoDuplicates(q) /\ Elements(q) = Mapped(f, S)
  <2>1. IsFiniteSet(S)
    BY <1>1
  <2>2. QED
    BY <1>4, <1>5, <1>6, <2>1, EachOnce
<1>8. Mapped(f, S) = TypesOf(d)
  BY <1>1 DEF Mapped, TypesOf
<1>9. QED
  BY <1>7, <1>8 DEF q

LEMMA IndexesOnce ==
  ASSUME NEW d, IsFiniteSet(d.createIndexes),
         \A x \in d.createIndexes : x = [table |-> x.table, index |-> x.index]
  PROVE  LET q == CreateIndexes(d)
         IN  Len(q) \in Nat /\ NoDuplicates(q) /\ Elements(q) = IndexesOf(d)
<1> DEFINE q == CreateIndexes(d)
<1>1. PICK S, f : S = d.createIndexes
                  /\ f = [x \in S |-> [op |-> "create index", table |-> x.table, index |-> x.index]]
  OBVIOUS
<1>2. SetToSeq(S) \in [1..Cardinality(S) -> S]
  BY <1>1, SetToSeqFacts
<1>3. q = [i \in 1..Cardinality(S) |-> [op |-> "create index", table |-> SetToSeq(S)[i].table,
                                       index |-> SetToSeq(S)[i].index]]
  BY <1>1 DEF Each, CreateIndexes, CreateIndex
<1> HIDE DEF q
<1>4. q = [i \in 1..Cardinality(S) |-> q[i]]
  BY <1>3
<1>5. \A i \in 1..Cardinality(S) : q[i] = f[SetToSeq(S)[i]]
  BY <1>1, <1>2, <1>3
<1>6. \A x, y \in S : f[x] = f[y] => x = y
  BY ZenonT(60), <1>1
<1>7. Len(q) \in Nat /\ NoDuplicates(q) /\ Elements(q) = Mapped(f, S)
  <2>1. IsFiniteSet(S)
    BY <1>1
  <2>2. QED
    BY <1>4, <1>5, <1>6, <2>1, EachOnce
<1>8. Mapped(f, S) = IndexesOf(d)
  BY <1>1 DEF Mapped, IndexesOf
<1>9. QED
  BY <1>7, <1>8 DEF q

LEMMA ViewsOnce ==
  ASSUME NEW d, IsFiniteSet(d.createViews)
  PROVE  LET q == CreateViews(d)
         IN  Len(q) \in Nat /\ NoDuplicates(q) /\ Elements(q) = ViewsOf(d)
<1> DEFINE q == CreateViews(d)
<1>1. PICK S, f : S = d.createViews /\ f = [x \in S |-> [op |-> "create view", view |-> x]]
  OBVIOUS
<1>2. SetToSeq(S) \in [1..Cardinality(S) -> S]
  BY <1>1, SetToSeqFacts
<1>3. q = [i \in 1..Cardinality(S) |-> [op |-> "create view", view |-> SetToSeq(S)[i]]]
  BY <1>1 DEF Each, CreateViews, CreateView
<1> HIDE DEF q
<1>4. q = [i \in 1..Cardinality(S) |-> q[i]]
  BY <1>3
<1>5. \A i \in 1..Cardinality(S) : q[i] = f[SetToSeq(S)[i]]
  BY <1>1, <1>2, <1>3
<1>6. \A x, y \in S : f[x] = f[y] => x = y
  BY <1>1
<1>7. Len(q) \in Nat /\ NoDuplicates(q) /\ Elements(q) = Mapped(f, S)
  <2>1. IsFiniteSet(S)
    BY <1>1
  <2>2. QED
    BY <1>4, <1>5, <1>6, <2>1, EachOnce
<1>8. Mapped(f, S) = ViewsOf(d)
  BY <1>1 DEF Mapped, ViewsOf
<1>9. QED
  BY <1>7, <1>8 DEF q

(* Tables that are listed once. *)
CreatesEach(q, creates, d) ==
  /\ Len(q) = Len(creates) /\ NoDuplicates(q) /\ Elements(q) = TablesOf(d)
  /\ \A i \in 1..Len(q) : q[i].op = "create table" /\ q[i].model = creates[i]

LEMMA TablesOnce ==
  ASSUME NEW d, NEW creates, Len(creates) \in Nat, NoDuplicates(creates),
         Elements(creates) = d.createModels
  PROVE  CreatesEach(CreateTables(creates), creates, d)
<1> DEFINE q == CreateTables(creates)
<1>1. PICK n : n = Len(creates)
  OBVIOUS
<1>2. q = [i \in 1..n |-> [op |-> "create table", model |-> creates[i]]]
  BY <1>1 DEF CreateTables, CreateTable
<1> HIDE DEF q
<1>3. q = [i \in 1..n |-> q[i]]
  BY <1>2
<1>4. Len(q) = n
  BY <1>1, <1>3, LenOfFunction
<1>5. \A i \in 1..n : q[i] = [op |-> "create table", model |-> creates[i]]
  BY <1>2
<1>8. \A i \in 1..n : q[i].op = "create table" /\ q[i].model = creates[i]
  <2>1. ASSUME NEW i \in 1..n PROVE q[i].op = "create table" /\ q[i].model = creates[i]
    <3>1. PICK m, s : m = creates[i] /\ s = q[i]
      OBVIOUS
    <3>2. s = [op |-> "create table", model |-> m]
      BY <1>5, <3>1
    <3>3. s.op = "create table" /\ s.model = m
      BY <3>2
    <3>4. QED
      BY <3>1, <3>3
  <2>2. QED
    BY <2>1
<1>6. NoDuplicates(q)
  <2>1. ASSUME NEW i \in 1..n, NEW j \in 1..n, q[i] = q[j] PROVE i = j
    <3>1. creates[i] = creates[j]
      BY <1>8, <2>1
    <3>2. QED
      BY <1>1, <3>1 DEF NoDuplicates
  <2>2. QED
    BY <1>4, <2>1 DEF NoDuplicates
<1>7. Elements(q) = TablesOf(d)
  <2>1. \A m : m \in d.createModels <=> \E i \in 1..n : creates[i] = m
    BY <1>1 DEF Elements
  <2>2. Elements(q) = {q[i] : i \in 1..n}
    BY <1>4 DEF Elements
  <2>3. ASSUME NEW s \in Elements(q) PROVE s \in TablesOf(d)
    <3>1. PICK i \in 1..n : s = q[i]
      BY <2>2
    <3>2. PICK m \in d.createModels : m = creates[i]
      BY <2>1
    <3>3. s = [op |-> "create table", model |-> m]
      BY <1>5, <3>1, <3>2
    <3>4. QED
      BY <3>3 DEF TablesOf
  <2>4. ASSUME NEW s \in TablesOf(d) PROVE s \in Elements(q)
    <3>1. PICK m \in d.createModels : s = [op |-> "create table", model |-> m]
      BY DEF TablesOf
    <3>2. PICK i \in 1..n : creates[i] = m
      BY <2>1
    <3>3. s = q[i]
      BY <1>5, <3>1, <3>2
    <3>4. QED
      BY <2>2, <3>3
  <2>5. QED
    BY <2>3, <2>4
<1>9. QED
  <2>1. CreatesEach(q, creates, d)
    BY <1>1, <1>4, <1>8, <1>6, <1>7 DEF CreatesEach
  <2>2. QED
    BY <2>1 DEF q

(* Statements of which none needs another can run in any order. *)
LEMMA RunnableInAnyOrder ==
  ASSUME NEW b, NEW cat, NEW E, NEW q, NEW cyclic, NoDuplicates(q),
         \A s \in Elements(q) : /\ s.op \in CreatingOps
                                /\ s.op = "create table" => IndexesNamed(s.model)
                                /\ Fresh(cat, s) /\ Met(b, cat, E, s, cyclic),
         \A s, t \in Elements(q) : s # t => Apart(s, t)
  PROVE  Runnable(b, cat, E, q, cyclic)
<1>1. ASSUME NEW i \in 1..Len(q)
      PROVE  /\ q[i].op \in CreatingOps
             /\ q[i].op = "create table" => IndexesNamed(q[i].model)
             /\ Fresh(cat, q[i])
             /\ Met(b, cat, E \cup Earlier(q, i), q[i], cyclic)
  <2>1. q[i] \in Elements(q)
    BY DEF Elements
  <2>2. Met(b, cat, E, q[i], cyclic)
    BY <2>1
  <2>3. E \subseteq E \cup Earlier(q, i)
    OBVIOUS
  <2>4. Met(b, cat, E \cup Earlier(q, i), q[i], cyclic)
    BY <2>2, <2>3, MetGrows
  <2>5. QED
    BY <2>1, <2>4
<1>2. ASSUME NEW i \in 1..Len(q), NEW j \in 1..Len(q), i # j
      PROVE  Apart(q[i], q[j])
  BY <1>2 DEF Elements, NoDuplicates
<1>3. QED
  BY <1>1, <1>2 DEF Runnable

(* What a difference creates. *)
Creations(src, to, d) ==
  /\ d.createModels = {m \in to.models : m.table \notin Tables(src)}
  /\ d.createEnums = {e \in to.enums : e.name \notin Names(src.enums)}
  /\ d.createViews = {v \in to.views : v.name \notin Names(src.views)}
  /\ \A x \in d.createIndexes : \E m \in d.createModels : \E i \in m.indexes :
       ~i.unique /\ x = [table |-> m.table, index |-> i]

(* The source is what is there, and the names of new indexes are free. *)
Found(b, cat, src, to) ==
  /\ Tables(cat) = Tables(src)
  /\ b \in {"Postgres", "DuckDb"} => Names(cat.enums) = Names(src.enums)
  /\ \A m \in to.models : m.table \notin Tables(src) => Names(m.indexes) \cap IndexNames(cat) = {}

NamesApart(to) ==
  \A m, n \in to.models : m.table # n.table => Names(m.indexes) \cap Names(n.indexes) = {}

(* The new tables in an order in which a table comes after those it refers *)
(* to, or on a cycle.                                                      *)
InOrder(d, creates, cyclic) ==
  /\ Len(creates) \in Nat /\ NoDuplicates(creates) /\ Elements(creates) = d.createModels
  /\ \A i \in 1..Len(creates) : \A k \in creates[i].keys :
       k.table \in Tables([models |-> d.createModels]) =>
         \/ cyclic \/ k.table = creates[i].table
         \/ \E j \in 1..(i - 1) : creates[j].table = k.table

LEMMA IndexHasName ==
  ASSUME NEW i, IsIndex(i)
  PROVE  "name" \in DOMAIN i
BY DEF IsIndex

(* The four parts of a script that creates. *)
LEMMA TypesRun ==
  ASSUME NEW b \in {"Postgres", "DuckDb"}, NEW cat, NEW src, NEW to, NEW d, NEW cyclic,
         IsWellFormed(to), Creations(src, to, d), Found(b, cat, src, to), IsFiniteSet(d.createEnums)
  PROVE  Runnable(b, cat, {}, Each(d.createEnums, CreateType), cyclic)
<1>1. PICK q : q = Each(d.createEnums, CreateType)
  OBVIOUS
<1>2. NoDuplicates(q) /\ Elements(q) = TypesOf(d)
  BY <1>1, TypesOnce
<1>3. ASSUME NEW s \in TypesOf(d)
      PROVE  s.op \in CreatingOps /\ (s.op = "create table" => IndexesNamed(s.model))
             /\ Fresh(cat, s) /\ Met(b, cat, {}, s, cyclic)
  <2>1. PICK e \in d.createEnums : s = [op |-> "create type", enum |-> e]
    BY DEF TypesOf
  <2>2. s.op = "create type" /\ s.enum = e
    BY <2>1
  <2>3. e.name \notin Names(cat.enums)
    BY DEF Creations, Found
  <2>4. MadeTables(s) = {} /\ MadeViews(s) = {} /\ MadeIndexes(s) = {} /\ MadeTypes(s) = {e.name}
    BY <2>2 DEF MadeTables, MadeViews, MadeIndexes, MadeTypes
  <2>5. Fresh(cat, s)
    BY <2>3, <2>4 DEF Fresh
  <2>6. Met(b, cat, {}, s, cyclic)
    BY <2>2 DEF Met
  <2>7. QED
    BY <2>2, <2>5, <2>6 DEF CreatingOps
<1>4. ASSUME NEW s \in TypesOf(d), NEW t \in TypesOf(d), s # t
      PROVE  Apart(s, t)
  <2>1. PICK e \in d.createEnums : s = [op |-> "create type", enum |-> e]
    BY DEF TypesOf
  <2>2. PICK f \in d.createEnums : t = [op |-> "create type", enum |-> f]
    BY DEF TypesOf
  <2>3. e.name # f.name
    <3>1. e # f
      BY <1>4, <2>1, <2>2
    <3>2. e \in to.enums /\ f \in to.enums
      BY DEF Creations
    <3>3. QED
      BY <3>1, <3>2 DEF IsWellFormed
  <2>4. /\ s.op = "create type" /\ s.enum = e
        /\ t.op = "create type" /\ t.enum = f
    BY <2>1, <2>2
  <2>5. QED
    BY <2>3, <2>4 DEF Apart, MadeTables, MadeViews, MadeIndexes, MadeTypes
<1>5. Runnable(b, cat, {}, q, cyclic)
  BY <1>2, <1>3, <1>4, RunnableInAnyOrder
<1>6. QED
  BY <1>1, <1>5

LEMMA TablesRun ==
  ASSUME NEW b, NEW cat, NEW src, NEW to, NEW d, NEW creates, NEW cyclic \in BOOLEAN,
         IsSchema(to), IsWellFormed(to), NamesApart(to),
         Creations(src, to, d), Found(b, cat, src, to), InOrder(d, creates, cyclic)
  PROVE  Runnable(b, cat, IF b = "Postgres" THEN TypesOf(d) ELSE {}, CreateTables(creates), cyclic)
<1>1. PICK q, E : q = CreateTables(creates) /\ E = IF b = "Postgres" THEN TypesOf(d) ELSE {}
  OBVIOUS
<1>2. /\ Len(q) = Len(creates) /\ Len(creates) \in Nat /\ NoDuplicates(creates)
      /\ \A i \in 1..Len(q) : q[i].op = "create table" /\ q[i].model = creates[i]
  <2>1. Len(creates) \in Nat /\ NoDuplicates(creates) /\ Elements(creates) = d.createModels
    BY DEF InOrder
  <2>2. CreatesEach(CreateTables(creates), creates, d)
    BY <2>1, TablesOnce
  <2>3. CreatesEach(q, creates, d)
    BY <1>1, <2>2
  <2>4. QED
    BY <2>1, <2>3 DEF CreatesEach
<1>3. ASSUME NEW i \in 1..Len(q)
      PROVE  /\ creates[i] \in d.createModels /\ creates[i] \in to.models
             /\ creates[i].table \notin Tables(src)
             /\ q[i].op = "create table" /\ q[i].model = creates[i]
  <2>1. creates[i] \in Elements(creates)
    BY <1>2 DEF Elements
  <2>2. PICK m : m = creates[i]
    OBVIOUS
  <2>3. m \in d.createModels
    BY <2>1, <2>2 DEF InOrder
  <2>4. m \in to.models /\ m.table \notin Tables(src)
    BY <2>3 DEF Creations
  <2>5. QED
    BY <1>2, <2>2, <2>3, <2>4, Zenon
<1>4. ASSUME NEW i \in 1..Len(q)
      PROVE  q[i].op \in CreatingOps /\ IndexesNamed(q[i].model) /\ Fresh(cat, q[i])
  <2>1. PICK m, s : m = creates[i] /\ s = q[i]
    OBVIOUS
  <2>0. /\ creates[i] \in to.models /\ creates[i].table \notin Tables(src)
        /\ q[i].op = "create table" /\ q[i].model = creates[i]
    BY <1>3
  <2>2. m \in to.models /\ m.table \notin Tables(src) /\ s.op = "create table" /\ s.model = m
    <3>1. m \in to.models
      BY <2>0, <2>1
    <3>2. m.table \notin Tables(src)
      BY <2>0, <2>1
    <3>3. s.op = "create table"
      BY <2>0, <2>1
    <3>4. s.model = m
      BY <2>0, <2>1
    <3>5. QED
      BY <3>1, <3>2, <3>3, <3>4
  <2>3. IndexesNamed(m)
    BY <2>2, IndexHasName DEF IsWellFormed, IndexesNamed
  <2>4. Names(m.indexes) \cap IndexNames(cat) = {} /\ m.table \notin Tables(cat)
    BY <2>2 DEF Found
  <2>5. MadeTables(s) = {m.table} /\ MadeViews(s) = {} /\ MadeTypes(s) = {}
        /\ MadeIndexes(s) \subseteq Names(m.indexes)
    BY <2>2 DEF MadeTables, MadeViews, MadeIndexes, MadeTypes, Uniques, Names
  <2>6. Fresh(cat, s)
    BY <2>4, <2>5 DEF Fresh
  <2>7. QED
    BY <2>1, <2>2, <2>3, <2>6 DEF CreatingOps
<1>5. ASSUME NEW i \in 1..Len(q)
      PROVE  Met(b, cat, E \cup Earlier(q, i), q[i], cyclic)
  <2>1. PICK m, s : m = creates[i] /\ s = q[i]
    OBVIOUS
  <2>2. m \in to.models /\ s.op = "create table" /\ s.model = m
    BY <1>3, <2>1
  <2>3. ASSUME NEW k \in m.keys
        PROVE  KeyMet(b, cat, E \cup Earlier(q, i), m.table, k, cyclic)
    <3>1. k.table \in Tables(to)
      BY <2>2 DEF IsWellFormed
    <3>2. k.table \in Tables(cat) \/ k.table \in Tables([models |-> d.createModels])
      BY <3>1 DEF Creations, Found, Tables
    <3>3. ASSUME NEW j \in 1..(i - 1), creates[j].table = k.table
          PROVE  q[j] \in Earlier(q, i) /\ k.table \in MadeTables(q[j])
      <4>1. j \in 1..Len(q)
        <5>1. Len(q) \in Nat
          BY <1>2
        <5>2. QED
          BY <5>1
      <4>2. q[j].op = "create table" /\ q[j].model = creates[j]
        BY <1>3, <4>1
      <4>3. QED
        BY <3>3, <4>2 DEF Earlier, MadeTables
    <3>4. CASE k.table \in Tables([models |-> d.createModels])
      <4>1. \/ cyclic \/ k.table = m.table
            \/ \E j \in 1..(i - 1) : creates[j].table = k.table
        BY <1>2, <2>1, <3>4 DEF InOrder
      <4>2. QED
        BY <3>3, <4>1 DEF KeyMet
    <3>5. QED
      BY <3>2, <3>4 DEF KeyMet
  <2>4. ASSUME NEW c \in m.columns, b = "Postgres", c.enum # Absent
        PROVE  c.enum \in Names(cat.enums) \/ \E e \in E \cup Earlier(q, i) : c.enum \in MadeTypes(e)
    <3>1. c.enum \in Names(to.enums)
      BY <2>2, <2>4 DEF IsWellFormed
    <3>2. PICK e \in to.enums : e.name = c.enum
      BY <3>1 DEF Names
    <3>3. CASE e \in d.createEnums
      <4>1. PICK t : t = [op |-> "create type", enum |-> e]
        OBVIOUS
      <4>2. t \in E
        BY <1>1, <2>4, <3>3, <4>1 DEF TypesOf
      <4>3. c.enum \in MadeTypes(t)
        BY <3>2, <4>1 DEF MadeTypes
      <4>4. QED
        BY <4>2, <4>3
    <3>4. CASE e \notin d.createEnums
      BY <2>4, <3>2, <3>4 DEF Creations, Found
    <3>5. QED
      BY <3>3, <3>4
  <2>5. Met(b, cat, E \cup Earlier(q, i), s, cyclic)
    BY <2>2, <2>3, <2>4 DEF Met
  <2>6. QED
    BY <2>1, <2>5
<1>6. ASSUME NEW i \in 1..Len(q), NEW j \in 1..Len(q), i # j
      PROVE  Apart(q[i], q[j])
  <2>1. PICK m, n, s, t : m = creates[i] /\ n = creates[j] /\ s = q[i] /\ t = q[j]
    OBVIOUS
  <2>2. /\ m \in to.models /\ s.op = "create table" /\ s.model = m
        /\ n \in to.models /\ t.op = "create table" /\ t.model = n
    BY <1>3, <2>1
  <2>3. m # n
    BY <1>2, <1>6, <2>1 DEF NoDuplicates
  <2>4. m.table # n.table
    BY <2>2, <2>3 DEF IsSchema
  <2>5. Names(m.indexes) \cap Names(n.indexes) = {}
    BY <2>2, <2>4 DEF NamesApart
  <2>6. /\ MadeTables(s) = {m.table} /\ MadeViews(s) = {} /\ MadeTypes(s) = {}
        /\ MadeIndexes(s) \subseteq Names(m.indexes)
        /\ MadeTables(t) = {n.table} /\ MadeViews(t) = {} /\ MadeTypes(t) = {}
        /\ MadeIndexes(t) \subseteq Names(n.indexes)
    BY <2>2 DEF MadeTables, MadeViews, MadeIndexes, MadeTypes, Uniques, Names
  <2>7. Apart(s, t)
    BY <2>4, <2>5, <2>6 DEF Apart
  <2>8. QED
    BY <2>1, <2>7
<1>7. Runnable(b, cat, E, q, cyclic)
  BY <1>4, <1>5, <1>6 DEF Runnable
<1>8. QED
  BY <1>1, <1>7

LEMMA IndexesRun ==
  ASSUME NEW b, NEW cat, NEW src, NEW to, NEW d, NEW cyclic,
         IsSchema(to), IsWellFormed(to), NamesApart(to), IsFiniteSet(d.createIndexes),
         Creations(src, to, d), Found(b, cat, src, to)
  PROVE  Runnable(b, cat, TablesOf(d), CreateIndexes(d), cyclic)
<1>1. PICK q : q = CreateIndexes(d)
  OBVIOUS
<1>2. NoDuplicates(q) /\ Elements(q) = IndexesOf(d)
  <2>1. \A x \in d.createIndexes : x = [table |-> x.table, index |-> x.index]
    BY DEF Creations
  <2>2. QED
    BY <1>1, <2>1, IndexesOnce
<1>3. ASSUME NEW s \in IndexesOf(d)
      PROVE  /\ s.op = "create index"
             /\ \E m \in d.createModels : s.table = m.table /\ s.index \in m.indexes
             /\ s = [op |-> "create index", table |-> s.table, index |-> s.index]
  <2>1. PICK x \in d.createIndexes : s = [op |-> "create index", table |-> x.table, index |-> x.index]
    BY DEF IndexesOf
  <2>2. PICK m \in d.createModels : \E i \in m.indexes : x = [table |-> m.table, index |-> i]
    BY DEF Creations
  <2>3. x.table = m.table /\ x.index \in m.indexes
    BY <2>2
  <2>4. QED
    BY <2>1, <2>3
<1>4. ASSUME NEW s \in IndexesOf(d)
      PROVE  s.op \in CreatingOps /\ (s.op = "create table" => IndexesNamed(s.model))
             /\ Fresh(cat, s) /\ Met(b, cat, TablesOf(d), s, cyclic)
  <2>1. PICK m \in d.createModels : s.table = m.table /\ s.index \in m.indexes
    BY <1>3
  <2>2. s.op = "create index"
    BY <1>3
  <2>3. m \in to.models /\ m.table \notin Tables(src)
    BY DEF Creations
  <2>4. s.index.name \in Names(m.indexes)
    BY <2>1 DEF Names
  <2>5. s.index.name \notin IndexNames(cat)
    BY <2>3, <2>4 DEF Found
  <2>6. MadeTables(s) = {} /\ MadeViews(s) = {} /\ MadeTypes(s) = {} /\ MadeIndexes(s) = {s.index.name}
    BY <2>2 DEF MadeTables, MadeViews, MadeIndexes, MadeTypes
  <2>7. Fresh(cat, s)
    BY <2>5, <2>6 DEF Fresh
  <2>8. PICK t : t = [op |-> "create table", model |-> m]
    OBVIOUS
  <2>9. t \in TablesOf(d) /\ t.op = "create table" /\ t.model = m
    BY <2>8 DEF TablesOf
  <2>10. s.table \in MadeTables(t)
    BY <2>1, <2>9 DEF MadeTables
  <2>11. \A n \in 1..Len(s.index.columns) : MakesColumn(t, s.table, s.index.columns[n])
    BY <2>1, <2>3, <2>9 DEF MakesColumn, IsWellFormed
  <2>12. Met(b, cat, TablesOf(d), s, cyclic)
    BY <2>2, <2>9, <2>10, <2>11 DEF Met
  <2>13. QED
    BY <2>2, <2>7, <2>12 DEF CreatingOps
<1>5. ASSUME NEW s \in IndexesOf(d), NEW t \in IndexesOf(d), s # t
      PROVE  Apart(s, t)
  <2>1. PICK m \in d.createModels : s.table = m.table /\ s.index \in m.indexes
    BY <1>3
  <2>2. PICK n \in d.createModels : t.table = n.table /\ t.index \in n.indexes
    BY <1>3
  <2>3. m \in to.models /\ n \in to.models
    BY DEF Creations
  <2>4. s.index.name # t.index.name
    <3>1. CASE m.table = n.table
      <4>1. m = n
        BY <2>3, <3>1 DEF IsSchema
      <4>2. s.index # t.index
        <5>1. PICK i, j, x : i = s.index /\ j = t.index /\ x = s.table
          OBVIOUS
        <5>5. s = [op |-> "create index", table |-> s.table, index |-> s.index]
          BY <1>3
        <5>6. t = [op |-> "create index", table |-> t.table, index |-> t.index]
          BY <1>3
        <5>7. s.table = x /\ t.table = x
          BY <2>1, <2>2, <3>1, <5>1
        <5>2. s = [op |-> "create index", table |-> x, index |-> i]
              /\ t = [op |-> "create index", table |-> x, index |-> j]
          BY ONLY <5>1, <5>5, <5>6, <5>7
        <5>3. i # j
          BY <1>5, <5>2
        <5>4. QED
          BY <5>1, <5>3
      <4>3. QED
        BY <2>1, <2>2, <2>3, <4>1, <4>2 DEF IsWellFormed
    <3>2. CASE m.table # n.table
      <4>1. Names(m.indexes) \cap Names(n.indexes) = {}
        BY <2>3, <3>2 DEF NamesApart
      <4>2. s.index.name \in Names(m.indexes) /\ t.index.name \in Names(n.indexes)
        BY <2>1, <2>2 DEF Names
      <4>3. QED
        BY <4>1, <4>2
    <3>3. QED
      BY <3>1, <3>2
  <2>5. s.op = "create index" /\ t.op = "create index"
    BY <1>3
  <2>6. QED
    BY <2>4, <2>5 DEF Apart, MadeTables, MadeViews, MadeIndexes, MadeTypes
<1>6. Runnable(b, cat, TablesOf(d), q, cyclic)
  BY <1>2, <1>4, <1>5, RunnableInAnyOrder
<1>7. QED
  BY <1>1, <1>6

LEMMA ViewsRun ==
  ASSUME NEW b, NEW cat, NEW src, NEW to, NEW d, NEW cyclic,
         IsWellFormed(to), IsFiniteSet(d.createViews), Creations(src, to, d), Found(b, cat, src, to),
         Names(d.createViews) \cap Names(cat.views) = {}
  PROVE  Runnable(b, cat, TablesOf(d), CreateViews(d), cyclic)
<1>1. PICK q : q = CreateViews(d)
  OBVIOUS
<1>2. NoDuplicates(q) /\ Elements(q) = ViewsOf(d)
  BY <1>1, ViewsOnce
<1>3. ASSUME NEW s \in ViewsOf(d)
      PROVE  s.op \in CreatingOps /\ (s.op = "create table" => IndexesNamed(s.model))
             /\ Fresh(cat, s) /\ Met(b, cat, TablesOf(d), s, cyclic)
  <2>1. PICK v \in d.createViews : s = [op |-> "create view", view |-> v]
    BY DEF ViewsOf
  <2>2. s.op = "create view" /\ s.view = v
    BY <2>1
  <2>3. v \in to.views /\ v.name \notin Names(cat.views)
    BY DEF Creations, Names
  <2>4. MadeTables(s) = {} /\ MadeIndexes(s) = {} /\ MadeTypes(s) = {} /\ MadeViews(s) = {v.name}
    BY <2>2 DEF MadeTables, MadeViews, MadeIndexes, MadeTypes
  <2>5. Fresh(cat, s)
    BY <2>3, <2>4 DEF Fresh
  <2>6. v.reads \in Tables(cat) \/ \E e \in TablesOf(d) : v.reads \in MadeTables(e)
    <3>1. PICK m \in to.models : m.table = v.reads
      BY <2>3 DEF IsWellFormed, Tables
    <3>2. CASE m \in d.createModels
      <4>1. PICK t : t = [op |-> "create table", model |-> m]
        OBVIOUS
      <4>2. t \in TablesOf(d) /\ v.reads \in MadeTables(t)
        BY <3>1, <3>2, <4>1 DEF TablesOf, MadeTables
      <4>3. QED
        BY <4>2
    <3>3. CASE m \notin d.createModels
      BY <3>1, <3>3 DEF Creations, Found
    <3>4. QED
      BY <3>2, <3>3
  <2>7. Met(b, cat, TablesOf(d), s, cyclic)
    BY <2>2, <2>6 DEF Met
  <2>8. QED
    BY <2>2, <2>5, <2>7 DEF CreatingOps
<1>4. ASSUME NEW s \in ViewsOf(d), NEW t \in ViewsOf(d), s # t
      PROVE  Apart(s, t)
  <2>1. PICK v \in d.createViews : s = [op |-> "create view", view |-> v]
    BY DEF ViewsOf
  <2>2. PICK w \in d.createViews : t = [op |-> "create view", view |-> w]
    BY DEF ViewsOf
  <2>3. v.name # w.name
    <3>1. v # w
      BY <1>4, <2>1, <2>2
    <3>2. v \in to.views /\ w \in to.views
      BY DEF Creations
    <3>3. QED
      BY <3>1, <3>2 DEF IsWellFormed
  <2>4. /\ s.op = "create view" /\ s.view = v
        /\ t.op = "create view" /\ t.view = w
    BY <2>1, <2>2
  <2>5. QED
    BY <2>3, <2>4 DEF Apart, MadeTables, MadeViews, MadeIndexes, MadeTypes
<1>5. Runnable(b, cat, TablesOf(d), q, cyclic)
  BY <1>2, <1>3, <1>4, RunnableInAnyOrder
<1>6. QED
  BY <1>1, <1>5

(* The statements of two scripts, one after the other. *)
LEMMA ScriptElements ==
  ASSUME NEW to, NEW ops, NEW p, NEW q, IsScript(to, p, ops), IsScript(to, q, ops)
  PROVE  Elements(p \o q) = Elements(p) \cup Elements(q)
<1> DEFINE S == Elements(p) \cup Elements(q)
<1>1. p \in Seq(S) /\ q \in Seq(S)
  BY ScriptIsSeq
<1> HIDE DEF S
<1>2. QED
  BY <1>1, ElementsOfConcat

(* The statements for views that are dropped or changed. *)
ViewDrops(d) ==
  [i \in 1..Cardinality(d.dropViews) |->
     [op |-> "drop view", name |-> SetToSeq(d.dropViews)[i], materialized |-> FALSE]]
ViewChanges(d) ==
  [i \in 1..Cardinality(d.alterViews) |->
     <<DropView(SetToSeq(d.alterViews)[i].name, SetToSeq(d.alterViews)[i].materialized),
       CreateView(SetToSeq(d.alterViews)[i])>>]

LEMMA ChangeViewsParts ==
  ASSUME NEW d
  PROVE  ChangeViews(d) = ViewDrops(d) \o FlattenSeq(ViewChanges(d))
BY DEF ChangeViews, Each, DropView, ViewDrops, ViewChanges

(* A part of a script for which there is nothing to do is empty. *)
LEMMA NothingElse ==
  ASSUME NEW b, NEW d, NEW drops \in Listings(d.dropModels), d.dropModels = {}, d.alterModels = {},
         d.dropEnums = {}, d.alterEnums = {}, d.dropViews = {}, d.alterViews = {}
  PROVE  /\ Each(d.dropEnums, DropType) = <<>> /\ Each(d.alterEnums, AddValues) = <<>>
         /\ DropTables(drops) = <<>> /\ Alters(b, d) = <<>> /\ ChangeViews(d) = <<>>
<1>0. Cardinality({}) = 0 /\ IsFiniteSet({})
  BY FS_EmptySet
<1>1. Each(d.dropEnums, DropType) = <<>> /\ Each(d.alterEnums, AddValues) = <<>>
  BY <1>0 DEF Each
<1>2. DropTables(drops) = <<>>
  <2>1. drops \in Seq({}) /\ Len(drops) = 0
    <3>1. drops \in Seq({}) /\ drops \in [1..0 -> {}]
      BY <1>0, ListingProperties DEF Listings
    <3>2. QED
      BY <3>1
  <2>2. QED
    BY <2>1 DEF DropTables
<1>3. FlattenSeq(<<>>) = <<>>
  BY DEF FlattenSeq
<1>4. Alters(b, d) = <<>>
  <2> DEFINE F(a) == CASE b = "Sqlite" -> SqliteAlterTable(a)
                       [] b \in {"MySql", "Mssql"} -> AlterTableWithoutIndexes(b, a)
                       [] OTHER -> AlterTable(b, a)
             ss == [i \in 1..Cardinality(d.alterModels) |-> F(SetToSeq(d.alterModels)[i])]
  <2>1. Alters(b, d) = FlattenSeq(ss)
    BY DEF Alters, Each
  <2> HIDE DEF F
  <2>2. ss = <<>>
    BY <1>0
  <2> HIDE DEF ss
  <2>3. QED
    BY <1>3, <2>1, <2>2
<1>5. ChangeViews(d) = <<>>
  <2>1. ViewDrops(d) = <<>> /\ ViewChanges(d) = <<>>
    <3>1. ViewDrops(d) = <<>>
      <4> DEFINE G(n) == [op |-> "drop view", name |-> n, materialized |-> FALSE]
      <4>1. ViewDrops(d) = [i \in 1..Cardinality(d.dropViews) |-> G(SetToSeq(d.dropViews)[i])]
        BY DEF ViewDrops
      <4> HIDE DEF G
      <4>2. QED
        BY <1>0, <4>1
    <3>2. ViewChanges(d) = <<>>
      <4> DEFINE G(v) == <<DropView(v.name, v.materialized), CreateView(v)>>
      <4>1. ViewChanges(d) = [i \in 1..Cardinality(d.alterViews) |-> G(SetToSeq(d.alterViews)[i])]
        BY DEF ViewChanges
      <4> HIDE DEF G
      <4>2. QED
        BY <1>0, <4>1
    <3>3. QED
      BY <3>1, <3>2
  <2>2. ChangeViews(d) = <<>> \o <<>>
    BY <1>3, <2>1, ChangeViewsParts
  <2>3. QED
    BY <2>2
<1>6. QED
  BY <1>1, <1>2, <1>4, <1>5

(* Statements of different kinds are apart. *)
LEMMA PartsAreApart ==
  ASSUME NEW src, NEW to, NEW d, IsSchema(to), IsWellFormed(to), NamesApart(to), Creations(src, to, d)
  PROVE  /\ \A s \in TypesOf(d), t \in TablesOf(d) \cup IndexesOf(d) \cup ViewsOf(d) : Apart(s, t)
         /\ \A s \in TablesOf(d), t \in IndexesOf(d) : Apart(s, t)
         /\ \A s \in TablesOf(d) \cup IndexesOf(d), t \in ViewsOf(d) : Apart(s, t)
<1>1. ASSUME NEW s \in TypesOf(d)
      PROVE  MadeTables(s) = {} /\ MadeViews(s) = {} /\ MadeIndexes(s) = {}
  <2>1. PICK e : s = [op |-> "create type", enum |-> e]
    BY DEF TypesOf
  <2>2. s.op = "create type"
    BY <2>1
  <2>3. QED
    BY <2>2 DEF MadeTables, MadeViews, MadeIndexes
<1>2. ASSUME NEW s \in ViewsOf(d)
      PROVE  MadeTables(s) = {} /\ MadeTypes(s) = {} /\ MadeIndexes(s) = {}
  <2>1. PICK v : s = [op |-> "create view", view |-> v]
    BY DEF ViewsOf
  <2>2. s.op = "create view"
    BY <2>1
  <2>3. QED
    BY <2>2 DEF MadeTables, MadeTypes, MadeIndexes
<1>3. ASSUME NEW s \in TablesOf(d)
      PROVE  MadeTypes(s) = {} /\ MadeViews(s) = {}
  <2>1. PICK m : s = [op |-> "create table", model |-> m]
    BY DEF TablesOf
  <2>2. s.op = "create table"
    BY <2>1
  <2>3. QED
    BY <2>2 DEF MadeTypes, MadeViews
<1>4. ASSUME NEW s \in IndexesOf(d)
      PROVE  MadeTables(s) = {} /\ MadeTypes(s) = {} /\ MadeViews(s) = {}
  <2>1. PICK x : s = [op |-> "create index", table |-> x.table, index |-> x.index]
    BY DEF IndexesOf
  <2>2. s.op = "create index"
    BY <2>1
  <2>3. QED
    BY <2>2 DEF MadeTables, MadeTypes, MadeViews
<1>5. ASSUME NEW s \in TablesOf(d), NEW t \in IndexesOf(d)
      PROVE  MadeIndexes(s) \cap MadeIndexes(t) = {}
  <2>1. PICK m \in d.createModels : s = [op |-> "create table", model |-> m]
    BY DEF TablesOf
  <2>2. PICK x \in d.createIndexes : t = [op |-> "create index", table |-> x.table, index |-> x.index]
    BY DEF IndexesOf
  <2>3. PICK n \in d.createModels : \E i \in n.indexes : ~i.unique /\ x = [table |-> n.table, index |-> i]
    BY DEF Creations
  <2>4. PICK i \in n.indexes : ~i.unique /\ x.index = i
    BY <2>3
  <2>5. MadeIndexes(s) = Names(Uniques(m)) /\ MadeIndexes(t) = {i.name}
    BY <2>1, <2>2, <2>4 DEF MadeIndexes
  <2>6. m \in to.models /\ n \in to.models
    BY DEF Creations
  <2>7. ASSUME NEW j \in m.indexes, j.unique, j.name = i.name
        PROVE  FALSE
    <3>1. CASE m.table = n.table
      <4>1. m = n
        BY <2>6, <3>1 DEF IsSchema
      <4>2. i = j
        BY <2>6, <2>7, <4>1 DEF IsWellFormed
      <4>3. QED
        BY <2>4, <2>7, <4>2
    <3>2. CASE m.table # n.table
      <4>1. Names(m.indexes) \cap Names(n.indexes) = {}
        BY <2>6, <3>2 DEF NamesApart
      <4>2. i.name \in Names(n.indexes) /\ i.name \in Names(m.indexes)
        BY <2>7 DEF Names
      <4>3. QED
        BY <4>1, <4>2
    <3>3. QED
      BY <3>1, <3>2
  <2>8. i.name \notin Names(Uniques(m))
    BY <2>7 DEF Names, Uniques
  <2>9. QED
    BY <2>5, <2>8
<1>6. \A s \in TypesOf(d), t \in TablesOf(d) \cup IndexesOf(d) \cup ViewsOf(d) : Apart(s, t)
  BY <1>1, <1>2, <1>3, <1>4 DEF Apart
<1>7. \A s \in TablesOf(d), t \in IndexesOf(d) : Apart(s, t)
  BY <1>3, <1>4, <1>5 DEF Apart
<1>8. \A s \in TablesOf(d) \cup IndexesOf(d), t \in ViewsOf(d) : Apart(s, t)
  BY <1>2, <1>3, <1>4 DEF Apart
<1>9. QED
  BY <1>6, <1>7, <1>8

(* A script for a difference that only creates runs through. *)
OnlyNew(d) ==
  /\ d.dropModels = {} /\ d.alterModels = {} /\ d.dropEnums = {} /\ d.alterEnums = {}
  /\ d.dropViews = {} /\ d.alterViews = {}

LEMMA CreationsAreRunnable ==
  ASSUME NEW b \in Backends, NEW cat, NEW src, NEW to, NEW d, NEW creates, NEW cyclic \in BOOLEAN,
         IsSchema(to), IsWellFormed(to), NamesApart(to), IsDiff(to, d), OnlyNew(d),
         Creations(src, to, d), Found(b, cat, src, to), InOrder(d, creates, cyclic),
         Names(d.createViews) \cap Names(cat.views) = {},
         NEW drops \in Listings(d.dropModels)
  PROVE  /\ Runnable(b, cat, {}, Up(b, d, creates, drops), cyclic)
         /\ Elements(Up(b, d, creates, drops)) = CreationsOf(b, d)
<1>1. PICK T, C, I, V : /\ T = Each(d.createEnums, CreateType) /\ C = CreateTables(creates)
                        /\ I = CreateIndexes(d) /\ V = CreateViews(d)
  OBVIOUS
<1>2. /\ IsFiniteSet(d.createEnums) /\ IsFiniteSet(d.createIndexes) /\ IsFiniteSet(d.createViews)
      /\ d.createModels \subseteq to.models
  BY DEF IsDiff
<1>3. /\ IsScript(to, T, AllOps) /\ IsScript(to, C, AllOps) /\ IsScript(to, I, AllOps)
      /\ IsScript(to, V, AllOps)
  <2>1. /\ "create type" \in AllOps /\ "create table" \in AllOps
        /\ "create index" \in AllOps /\ "create view" \in AllOps
    BY DEF AllOps, AddingOps
  <2>2. IsScript(to, Each(d.createEnums, CreateType), AllOps)
    <3>1. \A e \in d.createEnums : e = [name |-> e.name, values |-> e.values]
      BY DEF IsDiff
    <3>2. QED
      BY <1>2, <2>1, <3>1, CreateTypesScript
  <2>3. IsScript(to, CreateTables(creates), AllOps)
    <3>1. \A i \in 1..Len(creates) : creates[i] \in d.createModels
      BY DEF InOrder, Elements
    <3>2. \A i \in 1..Len(creates) : IsModel(creates[i]) /\ creates[i] \in to.models
      BY <1>2, <3>1 DEF IsDiff
    <3>3. Len(creates) \in Nat
      BY DEF InOrder
    <3>4. QED
      BY <2>1, <3>2, <3>3, CreateTablesScript
  <2>4. IsScript(to, CreateIndexes(d), AllOps)
    <3>1. \A x \in d.createIndexes : \E m \in to.models : m.table = x.table /\ x.index \in m.indexes
      BY DEF IsDiff
    <3>2. QED
      BY <1>2, <2>1, <3>1, CreateIndexesScript
  <2>5. IsScript(to, CreateViews(d), AllOps)
    <3>1. \A x \in d.createViews : x = [name |-> x.name, reads |-> x.reads, sql |-> x.sql,
                                          materialized |-> x.materialized]
      BY DEF IsDiff
    <3>2. QED
      BY <1>2, <2>1, <3>1, CreateViewsScript
  <2>6. QED
    BY <1>1, <2>2, <2>3, <2>4, <2>5
<1>4. Elements(I) = IndexesOf(d) /\ Elements(V) = ViewsOf(d) /\ Elements(C) = TablesOf(d)
      /\ Elements(T) = TypesOf(d)
  <2>1. Elements(T) = TypesOf(d)
    BY <1>1, <1>2, TypesOnce
  <2>2. Elements(I) = IndexesOf(d)
    <3>1. \A x \in d.createIndexes : x = [table |-> x.table, index |-> x.index]
      BY DEF Creations
    <3>2. QED
      BY <1>1, <1>2, <3>1, IndexesOnce
  <2>3. Elements(V) = ViewsOf(d)
    BY <1>1, <1>2, ViewsOnce
  <2>4. Elements(C) = TablesOf(d)
    <3>1. Len(creates) \in Nat /\ NoDuplicates(creates) /\ Elements(creates) = d.createModels
      BY DEF InOrder
    <3>2. CreatesEach(CreateTables(creates), creates, d)
      BY <3>1, TablesOnce
    <3>3. QED
      BY <1>1, <3>2 DEF CreatesEach
  <2>5. QED
    BY <2>1, <2>2, <2>3, <2>4
<1>5. PICK E : E = IF b = "Postgres" THEN TypesOf(d) ELSE {}
  OBVIOUS
<1>6. /\ \A s \in TypesOf(d), t \in TablesOf(d) \cup IndexesOf(d) \cup ViewsOf(d) : Apart(s, t)
      /\ \A s \in TablesOf(d), t \in IndexesOf(d) : Apart(s, t)
      /\ \A s \in TablesOf(d) \cup IndexesOf(d), t \in ViewsOf(d) : Apart(s, t)
  BY PartsAreApart
<1>7. PICK W : W = C \o I
  OBVIOUS
<1>8. PICK X : X = W \o V
  OBVIOUS
<1>9. Runnable(b, cat, E, W, cyclic) /\ IsScript(to, W, AllOps) /\ Elements(W) = TablesOf(d) \cup IndexesOf(d)
  <2>1. Runnable(b, cat, E, C, cyclic)
    BY <1>1, <1>5, TablesRun
  <2>2. Runnable(b, cat, TablesOf(d), I, cyclic)
    BY <1>1, <1>2, IndexesRun
  <2>3. TablesOf(d) \subseteq E \cup Elements(C)
    BY <1>4
  <2>4. Runnable(b, cat, E \cup Elements(C), I, cyclic)
    BY <2>2, <2>3, RunnableAfterMore
  <2>5. \A s \in Elements(C), t \in Elements(I) : Apart(s, t)
    BY <1>4, <1>6
  <2>6. Runnable(b, cat, E, C \o I, cyclic)
    BY <1>3, <2>1, <2>4, <2>5, RunnableConcat
  <2>7. IsScript(to, C \o I, AllOps)
    BY <1>3, ScriptConcat
  <2>8. Elements(C \o I) = Elements(C) \cup Elements(I)
    BY <1>3, ScriptElements
  <2>9. QED
    BY <1>4, <1>7, <2>6, <2>7, <2>8
<1>10. Runnable(b, cat, E, X, cyclic) /\ IsScript(to, X, AllOps)
       /\ Elements(X) = TablesOf(d) \cup IndexesOf(d) \cup ViewsOf(d)
  <2>1. Runnable(b, cat, TablesOf(d), V, cyclic)
    BY <1>1, <1>2, ViewsRun
  <2>2. TablesOf(d) \subseteq E \cup Elements(W)
    BY <1>9
  <2>3. Runnable(b, cat, E \cup Elements(W), V, cyclic)
    BY <2>1, <2>2, RunnableAfterMore
  <2>4. \A s \in Elements(W), t \in Elements(V) : Apart(s, t)
    BY <1>4, <1>6, <1>9
  <2>5. Runnable(b, cat, E, W \o V, cyclic)
    BY <1>3, <1>9, <2>3, <2>4, RunnableConcat
  <2>6. IsScript(to, W \o V, AllOps)
    BY <1>3, <1>9, ScriptConcat
  <2>7. Elements(W \o V) = Elements(W) \cup Elements(V)
    BY <1>3, <1>9, ScriptElements
  <2>8. QED
    BY <1>4, <1>8, <1>9, <2>5, <2>6, <2>7
<1>11. TablesUp(b, d, creates, drops) = X
  <2>1. DropTables(drops) = <<>> /\ Alters(b, d) = <<>> /\ ChangeViews(d) = <<>>
    BY NothingElse DEF OnlyNew
  <2>2. TablesUp(b, d, creates, drops) = ((((C \o <<>>) \o <<>>) \o I) \o V) \o <<>>
    BY <1>1, <2>1 DEF TablesUp
  <2>3. C \o <<>> = C /\ X \o <<>> = X
    BY <1>3, <1>10, ScriptIsSeq, ConcatEmptySeq
  <2>4. QED
    BY <1>7, <1>8, <2>2, <2>3
<1>12. EnumsUp(d) = T
  <2>1. Each(d.dropEnums, DropType) = <<>> /\ Each(d.alterEnums, AddValues) = <<>>
    BY NothingElse DEF OnlyNew
  <2>2. EnumsUp(d) = (T \o <<>>) \o <<>>
    BY <1>1, <2>1 DEF EnumsUp
  <2>3. T \o <<>> = T
    BY <1>3, ScriptIsSeq, ConcatEmptySeq
  <2>4. QED
    BY <2>2, <2>3
<1>13. CASE b \in {"Postgres", "DuckDb"}
  <2>1. Runnable(b, cat, {}, T, cyclic)
    BY <1>1, <1>2, <1>13, TypesRun
  <2>2. E \subseteq {} \cup Elements(T)
    BY <1>4, <1>5
  <2>3. Runnable(b, cat, {} \cup Elements(T), X, cyclic)
    BY <1>10, <2>2, RunnableAfterMore
  <2>4. \A s \in Elements(T), t \in Elements(X) : Apart(s, t)
    BY <1>4, <1>6, <1>10
  <2>5. Runnable(b, cat, {}, T \o X, cyclic)
    BY <1>3, <1>10, <2>1, <2>3, <2>4, RunnableConcat
  <2>6. Up(b, d, creates, drops) = T \o X
    BY <1>11, <1>12, <1>13 DEF Up, PostgresUp, DuckDbUp
  <2>7. Elements(T \o X) = Elements(T) \cup Elements(X)
    BY <1>3, <1>10, ScriptElements
  <2>8. Elements(T \o X) = CreationsOf(b, d)
    BY <1>4, <1>10, <1>13, <2>7 DEF CreationsOf, HasTypes
  <2>9. QED
    BY <2>5, <2>6, <2>8
<1>14. CASE b \notin {"Postgres", "DuckDb"}
  <2>1. E = {}
    BY <1>5, <1>14
  <2>2. Up(b, d, creates, drops) = X
    BY <1>11, <1>14 DEF Up, MySqlUp, SqliteUp, MssqlUp, Backends
  <2>3. Elements(X) = CreationsOf(b, d)
    BY <1>10, <1>14 DEF CreationsOf, HasTypes
  <2>4. QED
    BY <1>10, <2>1, <2>2, <2>3
<1>15. QED
  BY <1>13, <1>14

---------------------------------------------------------------------------
(* Whose the indexes of the catalog are *)

IndexKnown(e, t, i) ==
  /\ IsIndex(i)
  /\ \E m \in e.from.models \cup e.to.models : m.table = t /\ i.name \in Names(m.indexes)
IndexesAreIndexes(m) == \A i \in m.indexes : IsIndex(i)
ModelKnown(e, x) == \A i \in x.indexes : IndexKnown(e, x.table, i)
IndexesKnown(e, cat) == \A x \in cat.models : ModelKnown(e, x)

(* An index stays known when it keeps its name. *)
LEMMA IndexStaysKnown ==
  ASSUME NEW e, NEW t, NEW i, IndexKnown(e, t, i), NEW x
  PROVE  /\ IndexKnown(e, t, [i EXCEPT !.constraint = x])
         /\ IndexKnown(e, t, [i EXCEPT !.columns = x])
<1>0. i = [name |-> i.name, columns |-> i.columns, unique |-> i.unique, constraint |-> i.constraint]
  BY DEF IndexKnown, IsIndex
<1>1. PICK j, k : j = [i EXCEPT !.constraint = x] /\ k = [i EXCEPT !.columns = x]
  OBVIOUS
<1>2. /\ j = [name |-> i.name, columns |-> i.columns, unique |-> i.unique, constraint |-> x]
      /\ k = [name |-> i.name, columns |-> x, unique |-> i.unique, constraint |-> i.constraint]
  BY <1>0, <1>1
<1>3. IndexKnown(e, t, j) /\ IndexKnown(e, t, k)
  BY <1>2 DEF IndexKnown, IsIndex
<1>4. QED
  BY <1>1, <1>3

(* So are those of a table that has no others, under the same name. *)
LEMMA FewerKnown ==
  ASSUME NEW e, NEW m, ModelKnown(e, m), NEW r, r.table = m.table, r.indexes \subseteq m.indexes
  PROVE  ModelKnown(e, r)
BY DEF ModelKnown

(* The constraints of a model that is wanted or was there are known. *)
LEMMA ConstraintsKnown ==
  ASSUME NEW e, NEW m \in e.from.models \cup e.to.models, IndexesAreIndexes(m)
  PROVE  /\ \A i \in m.indexes : IndexKnown(e, m.table, i)
         /\ \A i \in Constraints(m) : IndexKnown(e, m.table, i)
<1>1. ASSUME NEW i \in m.indexes PROVE IndexKnown(e, m.table, i)
  BY DEF IndexKnown, IndexesAreIndexes, Names
<1>2. ASSUME NEW i \in Constraints(m) PROVE IndexKnown(e, m.table, i)
  <2>1. PICK j \in m.indexes : i = [j EXCEPT !.constraint = TRUE]
    BY DEF Constraints
  <2>2. IndexKnown(e, m.table, j)
    BY <1>1
  <2>3. QED
    BY <2>1, <2>2, IndexStaysKnown
<1>3. QED
  BY <1>1, <1>2

(* A catalog with one more or one changed table. *)
LEMMA WithModelKnown ==
  ASSUME NEW e, NEW cat, IsSchema(cat), IndexesKnown(e, cat), NEW r, IsModel(r), ModelKnown(e, r)
  PROVE  IndexesKnown(e, WithModel(cat, r))
<1>1. PICK new : new = WithModel(cat, r)
  OBVIOUS
<1>2. new = [models |-> {x \in cat.models : x.table # r.table} \cup {r},
             enums |-> cat.enums, views |-> cat.views]
  BY <1>1, WithModelIsSchema
<1>3. \A x \in new.models : x \in cat.models \/ x = r
  BY <1>2
<1>4. IndexesKnown(e, new)
  BY <1>3 DEF IndexesKnown
<1>5. QED
  BY <1>1, <1>4

(* The statements about a table. *)
LEMMA TableEffectKnown ==
  ASSUME NEW e, NEW b, NEW m, IsModel(m), ModelKnown(e, m),
         NEW s, IsStatement(s), s.op \in AlteringOps,
         s.op \in {"alter column", "add default"} => s.name \in Names(m.columns),
         s.op = "create index" => IndexKnown(e, m.table, s.index)
  PROVE  ModelKnown(e, TableEffect(b, m, s))
<1>1. PICK r : r = TableEffect(b, m, s)
  OBVIOUS
<1>2. IsModel(r) /\ r.table = m.table
  BY <1>1, TableEffectFacts
<1>3. CASE s.op = "add column"
  <2>1. PICK C : C = m.columns \cup {Stored(b, s.column)}
    OBVIOUS
  <2>2. r = [m EXCEPT !.columns = C]
    BY <1>1, <1>3, <2>1 DEF TableEffect
  <2>3. r.indexes = m.indexes
    <3>1. r = [table |-> m.table, columns |-> C, keys |-> m.keys, indexes |-> m.indexes]
      BY <2>2, ModelParts
    <3>2. QED
      BY <3>1
  <2>4. QED
    BY <1>1, <1>2, <2>3, FewerKnown
<1>4. CASE s.op \in {"alter column", "add default"}
  <2>1. PICK c : c = IF s.op = "alter column" THEN s.change ELSE [default |-> s.default]
    OBVIOUS
  <2>2. "name" \notin DOMAIN c /\ s.name \in Names(m.columns)
    <3>1. s.op = "alter column" => "name" \notin DOMAIN c
      BY <2>1 DEF IsStatement
    <3>2. s.op = "add default" => "name" \notin DOMAIN c
      BY <2>1
    <3>3. QED
      BY <1>4, <3>1, <3>2
  <2>3. r = AlterColumnEffect(m, s.name, c)
    BY <1>1, <1>4, <2>1 DEF TableEffect
  <2>4. r.indexes = m.indexes
    BY <2>2, <2>3, AlterColumnKeepsModel
  <2>5. QED
    BY <1>1, <1>2, <2>4, FewerKnown
<1>5. CASE s.op = "create index"
  <2>1. PICK I : I = m.indexes \cup {s.index}
    OBVIOUS
  <2>2. r = [m EXCEPT !.indexes = I]
    BY <1>1, <1>5, <2>1 DEF TableEffect
  <2>3. r.indexes = I
    <3>1. r = [table |-> m.table, columns |-> m.columns, keys |-> m.keys, indexes |-> I]
      BY <2>2, ModelParts
    <3>2. QED
      BY <3>1
  <2>4. ModelKnown(e, r)
    BY <1>2, <1>5, <2>1, <2>3 DEF ModelKnown
  <2>5. QED
    BY <1>1, <2>4
<1>6. CASE s.op \in {"add key", "drop key"}
  <2>1. PICK K : K = IF s.op = "add key" THEN m.keys \cup {s.key} ELSE {k \in m.keys : k.name # s.name}
    OBVIOUS
  <2>2. r = [m EXCEPT !.keys = K]
    BY <1>1, <1>6, <2>1 DEF TableEffect
  <2>3. r.indexes = m.indexes
    <3>1. r = [table |-> m.table, columns |-> m.columns, keys |-> K, indexes |-> m.indexes]
      BY <2>2, ModelParts
    <3>2. QED
      BY <3>1
  <2>4. QED
    BY <1>1, <1>2, <2>3, FewerKnown
<1>7. CASE s.op = "drop column"
  <2> DEFINE c == s.name
             Without(i) == [i EXCEPT !.columns = SelectSeq(@, LAMBDA x : x # c)]
             I == IF b = "MySql" THEN {i \in {Without(j) : j \in m.indexes} : i.columns # <<>>}
                  ELSE {i \in m.indexes : ~Uses(i, c)}
             C == {x \in m.columns : x.name # c}
             K == {k \in m.keys : k.column # c}
  <2>2. r = [m EXCEPT !.columns = C, !.keys = K, !.indexes = I]
    <3>1. r = DropColumnEffect(b, m, s.name)
      BY <1>1, <1>7 DEF TableEffect
    <3>2. QED
      BY <3>1 DEF DropColumnEffect
  <2>3. ASSUME NEW i \in I PROVE IndexKnown(e, m.table, i)
    <3>1. CASE i \in m.indexes
      BY <3>1 DEF ModelKnown
    <3>2. CASE i \notin m.indexes
      <4>1. PICK j \in m.indexes : i = Without(j)
        BY <3>2
      <4>2. IndexKnown(e, m.table, j)
        BY DEF ModelKnown
      <4>3. PICK x : i = [j EXCEPT !.columns = x]
        BY <4>1
      <4>4. QED
        BY <4>2, <4>3, IndexStaysKnown
    <3>3. QED
      BY <3>1, <3>2
  <2> HIDE DEF I, C, K
  <2>4. r.indexes = I
    <3>1. DOMAIN m = {"table", "columns", "keys", "indexes"}
      BY DEF IsModel
    <3>2. QED
      BY <2>2, <3>1
  <2>5. ModelKnown(e, r)
    BY <1>2, <2>3, <2>4 DEF ModelKnown
  <2>6. QED
    BY <1>1, <2>5
<1>8. QED
  BY <1>3, <1>4, <1>5, <1>6, <1>7 DEF AlteringOps

(* Dropping a table or an index adds nothing to the others. *)
TakenAway(cat, new) ==
  \A x \in new.models : \E m \in cat.models : x.table = m.table /\ x.indexes \subseteq m.indexes

LEMMA DropsTakeAway ==
  ASSUME NEW b, NEW cat, NEW s, IsSchema(cat), s.op \in {"drop table", "drop index"}
  PROVE  TakenAway(cat, Effect(b, cat, s))
<1>1. PICK new : new = Effect(b, cat, s)
  OBVIOUS
<1> SUFFICES ASSUME NEW x \in new.models
             PROVE  \E m \in cat.models : x.table = m.table /\ x.indexes \subseteq m.indexes
  BY <1>1, Zenon DEF TakenAway
<1>2. \A m \in cat.models : DOMAIN m = {"table", "columns", "keys", "indexes"}
  <2>1. ASSUME NEW m \in cat.models PROVE DOMAIN m = {"table", "columns", "keys", "indexes"}
    <3>1. IsModel(m)
      BY DEF IsSchema
    <3>2. QED
      BY <3>1 DEF IsModel
  <2>2. QED
    BY <2>1
<1>3. DOMAIN cat = {"models", "enums", "views"}
  BY DEF IsSchema
<1>4. CASE s.op = "drop table" /\ b = "Postgres" /\ HasTable(cat, s.table)
  <2> DEFINE left == {m \in cat.models : m.table # s.table}
             M == {[m EXCEPT !.keys = {k \in @ : k.table # s.table}] : m \in left}
             V == {v \in cat.views : v.reads # s.table}
  <2>1. new = [cat EXCEPT !.models = M, !.views = V]
    BY <1>1, <1>4 DEF Effect, DropTableEffect
  <2>2. \A y \in M : \E m \in cat.models : \E K : y = [m EXCEPT !.keys = K]
    OBVIOUS
  <2> HIDE DEF M, V
  <2>3. new.models = M
    BY <1>3, <2>1
  <2>4. PICK m \in cat.models : \E K : x = [m EXCEPT !.keys = K]
    BY <1>1, <2>2, <2>3
  <2>5. PICK K : x = [m EXCEPT !.keys = K]
    BY <2>4
  <2>6. x.table = m.table /\ x.indexes = m.indexes
    BY <1>2, <2>5
  <2>7. QED
    BY <2>6
<1>5. CASE s.op = "drop table" /\ ~(b = "Postgres" /\ HasTable(cat, s.table))
  <2>1. PICK M : M = {m \in cat.models : m.table # s.table}
    OBVIOUS
  <2>2. new = [cat EXCEPT !.models = M]
    BY <1>1, <1>5, <2>1 DEF Effect, DropTableEffect
  <2>3. new.models = M
    BY <1>3, <2>2
  <2>4. QED
    BY <1>1, <2>1, <2>3
<1>6. CASE s.op = "drop index"
  <2> DEFINE I(m) == {i \in m.indexes : i.constraint \/ i.name # s.name}
             M == {[m EXCEPT !.indexes = I(m)] : m \in cat.models}
  <2>1. new = [cat EXCEPT !.models = M]
    BY <1>1, <1>6 DEF Effect
  <2>2. \A y \in M : \E m \in cat.models : y = [m EXCEPT !.indexes = I(m)]
    OBVIOUS
  <2>3. \A m : I(m) \subseteq m.indexes
    OBVIOUS
  <2> HIDE DEF M, I
  <2>4. new.models = M
    BY <1>3, <2>1
  <2>5. PICK m \in cat.models : x = [m EXCEPT !.indexes = I(m)]
    BY <1>1, <2>2, <2>4
  <2>6. x.table = m.table /\ x.indexes = I(m)
    BY <1>2, <2>5
  <2>7. QED
    BY <2>3, <2>6
<1>7. QED
  BY <1>4, <1>5, <1>6

(* Every statement, when those that create are of the edited schema. *)
LEMMA EffectKnown ==
  ASSUME NEW e, IsWellFormed(e.to), NEW b \in Backends, NEW cat, IsSchema(cat), IndexesKnown(e, cat),
         NEW s, IsStatementOf(e.to, s), s.op \in AllOps, Accepts(b, cat, s)
  PROVE  IndexesKnown(e, Effect(b, cat, s))
<1>1. PICK new : new = Effect(b, cat, s)
  OBVIOUS
<1>2. IsStatement(s)
  BY DEF IsStatementOf
<1>3. \A m \in e.to.models : IndexesAreIndexes(m)
  BY DEF IsWellFormed, IndexesAreIndexes
<1>4. ASSUME new.models = cat.models PROVE IndexesKnown(e, new)
  BY <1>4 DEF IndexesKnown
<1>5. CASE s.op \in {"create type", "drop type", "add values"}
  <2>1. PICK E : new = [cat EXCEPT !.enums = E]
    BY <1>1, <1>5 DEF Effect
  <2>2. new = [models |-> cat.models, enums |-> E, views |-> cat.views]
    BY <2>1, SchemaParts
  <2>3. new.models = cat.models
    BY <2>2
  <2>4. QED
    BY <1>1, <1>4, <2>3
<1>6. CASE s.op \in {"create view", "drop view"}
  <2>1. new = cat \/ \E V : new = [cat EXCEPT !.views = V]
    BY <1>1, <1>6 DEF Effect, CreateViewEffect
  <2>2. CASE new = cat
    BY <1>1, <1>4, <2>2
  <2>3. CASE \E V : new = [cat EXCEPT !.views = V]
    <3>1. PICK V : new = [cat EXCEPT !.views = V]
      BY <2>3
    <3>2. new = [models |-> cat.models, enums |-> cat.enums, views |-> V]
      BY <3>1, SchemaParts
    <3>3. new.models = cat.models
      BY <3>2
    <3>4. QED
      BY <1>1, <1>4, <3>3
  <2>4. QED
    BY <2>1, <2>2, <2>3
<1>7. CASE s.op = "create table"
  <2>1. PICK m, r : m = s.model /\ r = StoredModel(b, s.model)
    OBVIOUS
  <2>2. m \in e.to.models /\ IsModel(m) /\ IndexesAreIndexes(m)
    BY <1>2, <1>3, <1>7, <2>1 DEF IsStatementOf, IsStatement
  <2>3. IsModel(r) /\ r.table = m.table /\ r.indexes = Constraints(m)
    <3>1. IsModel(StoredModel(b, m)) /\ StoredModel(b, m).table = m.table
      BY <2>2, StoredModelIsModel
    <3>2. DOMAIN m = {"table", "columns", "keys", "indexes"}
      BY <2>2 DEF IsModel
    <3>3. StoredModel(b, m).indexes = Constraints(m)
      BY <3>2 DEF StoredModel
    <3>4. QED
      BY <2>1, <3>1, <3>3
  <2>4. ModelKnown(e, r)
    <3>1. \A i \in Constraints(m) : IndexKnown(e, m.table, i)
      BY <2>2, ConstraintsKnown
    <3>2. QED
      BY <2>3, <3>1 DEF ModelKnown
  <2>5. IndexesKnown(e, WithModel(cat, r))
    BY <2>3, <2>4, WithModelKnown
  <2>6. new = WithModel(cat, r)
    BY <1>1, <1>7, <2>1 DEF Effect, StoredModel
  <2>7. QED
    BY <1>1, <2>5, <2>6
<1>8. CASE s.op \in AlteringOps
  <2>1. PICK m, r : m = ModelOf(cat, s.table) /\ r = TableEffect(b, m, s)
    OBVIOUS
  <2>2. /\ s.table \in Tables(cat)
        /\ s.op \in {"alter column", "add default"} => s.name \in Names(m.columns)
    BY <1>8, <2>1, AlteredTableExists DEF HasTable
  <2>3. m \in cat.models /\ m.table = s.table
    BY <2>1, <2>2, ModelOfFacts
  <2>4. IsModel(m) /\ ModelKnown(e, m)
    BY <2>3 DEF IsSchema, IndexesKnown
  <2>5. s.op = "create index" => IndexKnown(e, m.table, s.index)
    <3>1. ASSUME s.op = "create index" PROVE IndexKnown(e, m.table, s.index)
      <4>1. PICK n \in e.to.models : n.table = s.table /\ s.index \in n.indexes
        BY <3>1 DEF IsStatementOf
      <4>2. IndexesAreIndexes(n)
        BY <1>3
      <4>3. \A i \in n.indexes : IndexKnown(e, n.table, i)
        BY <4>2, ConstraintsKnown
      <4>4. QED
        BY <2>3, <4>1, <4>3
    <3>2. QED
      BY <3>1
  <2>6. ModelKnown(e, TableEffect(b, m, s))
    BY <1>2, <1>8, <2>2, <2>4, <2>5, TableEffectKnown
  <2>7. IsModel(TableEffect(b, m, s))
    BY <1>2, <1>8, <2>2, <2>4, TableEffectFacts
  <2>8. IndexesKnown(e, WithModel(cat, r))
    BY <2>1, <2>6, <2>7, WithModelKnown
  <2>9. new = WithModel(cat, r)
    BY <1>1, <1>8, <2>1 DEF Effect, AlteringOps
  <2>10. QED
    BY <1>1, <2>8, <2>9
<1>9. CASE s.op \in {"drop table", "drop index"}
  <2>1. TakenAway(cat, Effect(b, cat, s))
    BY <1>9, DropsTakeAway
  <2>2. TakenAway(cat, new)
    BY <1>1, <2>1, Zenon
  <2>3. ASSUME NEW x \in new.models PROVE ModelKnown(e, x)
    <3>1. PICK m \in cat.models : x.table = m.table /\ x.indexes \subseteq m.indexes
      BY <2>2 DEF TakenAway
    <3>2. ModelKnown(e, m)
      BY DEF IndexesKnown
    <3>3. QED
      BY <3>1, <3>2, FewerKnown
  <2>4. IndexesKnown(e, new)
    BY <2>3 DEF IndexesKnown
  <2>5. QED
    BY <1>1, <2>4
<1>10. QED
  BY <1>5, <1>6, <1>7, <1>8, <1>9 DEF AllOps, AddingOps, DroppingOps, AlteringOps

---------------------------------------------------------------------------
(* What the differ compares with and what it creates *)

(* What is taken for the source has the tables and types of the catalog. *)
LEMMA IntrospectNames ==
  ASSUME NEW cat, IsSchema(cat)
  PROVE  Tables(Introspect(cat)) = Tables(cat) /\ Introspect(cat).enums = cat.enums
<1> DEFINE f == [m \in cat.models |-> [m EXCEPT !.indexes = IntrospectIndexes(@)]]
           M == {f[m] : m \in cat.models}
<1>1. Introspect(cat) = [models |-> M, enums |-> cat.enums, views |-> {}]
  BY DEF Introspect
<1>2. ASSUME NEW m \in cat.models PROVE f[m].table = m.table
  <2>1. IsModel(m)
    BY DEF IsSchema
  <2>2. DOMAIN m = {"table", "columns", "keys", "indexes"}
    BY <2>1 DEF IsModel
  <2>3. QED
    BY <2>2
<1> HIDE DEF f
<1>3. Introspect(cat).models = M /\ Introspect(cat).enums = cat.enums
  BY <1>1
<1>4. QED
  BY <1>2, <1>3 DEF Tables

LEMMA BuiltNames ==
  ASSUME NEW b, NEW s, IsSchema(s)
  PROVE  /\ Tables(Built(b, s)) = Tables(s)
         /\ b \in {"Postgres", "DuckDb"} => Built(b, s).enums = s.enums
<1> DEFINE f == [m \in s.models |-> [m EXCEPT !.columns = {Stored(b, c) : c \in @},
                                              !.indexes = Constraints(m) \cup {i \in @ : ~i.unique}]]
           M == {f[m] : m \in s.models}
           E == IF b \in {"Postgres", "DuckDb"} THEN s.enums ELSE {}
           V == {[v EXCEPT !.materialized = @ /\ b = "Postgres"] : v \in s.views}
<1>1. Built(b, s) = [models |-> M, enums |-> E, views |-> V]
  BY DEF Built
<1>2. ASSUME NEW m \in s.models PROVE f[m].table = m.table
  <2>1. IsModel(m)
    BY DEF IsSchema
  <2>2. DOMAIN m = {"table", "columns", "keys", "indexes"}
    BY <2>1 DEF IsModel
  <2>3. QED
    BY <2>2
<1> HIDE DEF f, V
<1>3. Built(b, s).models = M /\ Built(b, s).enums = E
  BY <1>1
<1>4. QED
  BY <1>2, <1>3 DEF Tables

(* A database built from a schema has its indexes. *)
LEMMA BuiltKnown ==
  ASSUME NEW b, NEW e, IsSchema(e.from), IsWellFormed(e.from)
  PROVE  IndexesKnown(e, Built(b, e.from))
<1>1. PICK s : s = e.from
  OBVIOUS
<1> DEFINE f == [m \in s.models |-> [m EXCEPT !.columns = {Stored(b, c) : c \in @},
                                              !.indexes = Constraints(m) \cup {i \in @ : ~i.unique}]]
           M == {f[m] : m \in s.models}
           E == IF b \in {"Postgres", "DuckDb"} THEN s.enums ELSE {}
           V == {[v EXCEPT !.materialized = @ /\ b = "Postgres"] : v \in s.views}
<1>2. Built(b, s) = [models |-> M, enums |-> E, views |-> V]
  BY DEF Built
<1>3. ASSUME NEW m \in s.models
      PROVE  f[m].table = m.table /\ f[m].indexes = Constraints(m) \cup {i \in m.indexes : ~i.unique}
  <2>1. IsModel(m)
    BY <1>1 DEF IsSchema
  <2>2. DOMAIN m = {"table", "columns", "keys", "indexes"}
    BY <2>1 DEF IsModel
  <2>3. QED
    BY <2>2
<1> HIDE DEF f, V, E
<1>4. Built(b, s).models = M
  BY <1>2
<1>5. ASSUME NEW m \in s.models PROVE ModelKnown(e, f[m])
  <2>2. IndexesAreIndexes(m)
    BY <1>1 DEF IsWellFormed, IndexesAreIndexes
  <2>3. /\ \A i \in m.indexes : IndexKnown(e, m.table, i)
        /\ \A i \in Constraints(m) : IndexKnown(e, m.table, i)
    BY <1>1, <2>2, ConstraintsKnown
  <2>4. QED
    BY <1>3, <2>3 DEF ModelKnown
<1>6. QED
  BY <1>1, <1>4, <1>5 DEF IndexesKnown

(* What a difference creates, also one without its drops. *)
LEMMA DiffCreations ==
  ASSUME NEW s, NEW t
  PROVE  Creations(s, t, Diff(s, t)) /\ Creations(s, t, StripDestructive(Diff(s, t)))
<1>1. PICK d : d = Diff(s, t)
  OBVIOUS
<1>2. /\ d.createModels = {m \in t.models : m.table \notin Tables(s)}
      /\ d.createEnums = {e \in t.enums : e.name \notin Names(s.enums)}
      /\ d.createViews = {v \in t.views : v.name \notin Names(s.views)}
      /\ d.createIndexes = UNION {{[table |-> m.table, index |-> i] : i \in {j \in m.indexes : ~j.unique}}
                                   : m \in d.createModels}
  BY <1>1 DEF Diff
<1>3. \A x \in d.createIndexes : \E m \in d.createModels : \E i \in m.indexes :
        ~i.unique /\ x = [table |-> m.table, index |-> i]
  BY <1>2
<1>4. Creations(s, t, d)
  BY <1>2, <1>3 DEF Creations
<1>5. PICK c : c = StripDestructive(d)
  OBVIOUS
<1>6. /\ c.createModels = d.createModels /\ c.createEnums = d.createEnums
      /\ c.createViews = d.createViews /\ c.createIndexes = d.createIndexes
  <2>1. DOMAIN d = {"createModels", "dropModels", "alterModels", "createEnums", "dropEnums",
                    "alterEnums", "createViews", "dropViews", "alterViews", "createIndexes"}
    BY <1>1 DEF Diff
  <2>2. QED
    BY <1>5, <2>1 DEF StripDestructive
<1>7. Creations(s, t, c)
  BY <1>4, <1>6 DEF Creations
<1>8. QED
  BY <1>1, <1>4, <1>5, <1>7

(* The names of the indexes of a new table are free. *)
LEMMA SourceIsFound ==
  ASSUME NEW b, NEW cat, IsSchema(cat), NEW src, IsSchema(src), NEW e, IndexesKnown(e, cat),
         \A m, n \in e.from.models \cup e.to.models :
           m.table # n.table => Names(m.indexes) \cap Names(n.indexes) = {},
         src = Introspect(cat) \/ cat = Built(b, src)
  PROVE  Found(b, cat, src, e.to)
<1>1. Tables(cat) = Tables(src) /\ (b \in {"Postgres", "DuckDb"} => cat.enums = src.enums)
  BY IntrospectNames, BuiltNames
<1>2. ASSUME NEW m \in e.to.models, m.table \notin Tables(src), NEW x \in cat.models, NEW i \in x.indexes
      PROVE  i.name \notin Names(m.indexes)
  <2>1. IndexKnown(e, x.table, i)
    BY DEF IndexesKnown, ModelKnown
  <2>2. PICK n \in e.from.models \cup e.to.models : n.table = x.table /\ i.name \in Names(n.indexes)
    BY <2>1 DEF IndexKnown
  <2>3. x.table \in Tables(cat)
    BY DEF Tables
  <2>4. m.table # n.table
    BY <1>1, <1>2, <2>2, <2>3
  <2>5. Names(m.indexes) \cap Names(n.indexes) = {}
    BY <2>4
  <2>6. QED
    BY <2>2, <2>5
<1>3. ASSUME NEW m \in e.to.models, m.table \notin Tables(src)
      PROVE  Names(m.indexes) \cap IndexNames(cat) = {}
  <2>1. \A n \in IndexNames(cat) : \E x \in cat.models : \E i \in x.indexes : n = i.name
    BY DEF IndexNames, Names
  <2>2. QED
    BY <1>2, <1>3, <2>1
<1>4. QED
  BY <1>1, <1>3 DEF Found

(* The tables that refer to each other, as the ordering is told.           *)
RefsOf(d) ==
  [t \in Tables([models |-> d.createModels]) |->
     {k.table : k \in ModelOf([models |-> d.createModels], t).keys}]

(* When the ordering is over the tables come in order. *)
LEMMA CreatesInOrder ==
  ASSUME OrderInv, Finished, NEW to, IsSchema(to), diff.createModels \subseteq to.models,
         batch = Tables([models |-> diff.createModels]), refs = RefsOf(diff)
  PROVE  InOrder(diff, Creates, Cyclic)
<1>1. PICK M, c, q : M = diff.createModels /\ c = [models |-> M] /\ q = Creates
  OBVIOUS
<1>2. c.models = M /\ batch = Tables(c)
  BY <1>1
<1>3. /\ ordered \in Seq(batch) /\ Len(ordered) \in Nat
      /\ \A i \in 1..Len(ordered) : ordered[i] \in batch
  BY LenProperties, ElementOfSeq DEF OrderInv, OrderTypeOK
<1>4. \A i, j \in 1..Len(ordered) : ordered[i] = ordered[j] => i = j
  <2>1. EachTableOnce /\ ready = <<>>
    BY OrderInvGivesOnce DEF Finished
  <2>2. ordered \o ready = ordered
    BY <1>3, <2>1, ConcatEmptySeq
  <2>3. QED
    BY <2>1, <2>2 DEF EachTableOnce
<1>5. Elements(ordered) = batch
  BY OrderInvGivesOnce DEF EachTableOnce
<1>6. q = [i \in 1..Len(ordered) |-> ModelOf(c, ordered[i])]
  BY <1>1 DEF Creates
<1>7. Len(q) = Len(ordered)
  <2>1. q = [i \in 1..Len(ordered) |-> q[i]]
    BY <1>6
  <2>2. QED
    BY <1>3, <2>1, LenOfFunction
<1>8. ASSUME NEW i \in 1..Len(ordered)
      PROVE  q[i] \in M /\ q[i].table = ordered[i] /\ q[i] = ModelOf(c, ordered[i])
  <2>1. ordered[i] \in Tables(c)
    BY <1>2, <1>3
  <2>2. ModelOf(c, ordered[i]) \in c.models /\ ModelOf(c, ordered[i]).table = ordered[i]
    BY <2>1, ModelOfFacts
  <2>3. q[i] = ModelOf(c, ordered[i])
    BY <1>6
  <2>4. QED
    BY <1>2, <2>2, <2>3
<1>9. \A m, n \in M : m.table = n.table => m = n
  BY <1>1 DEF IsSchema
<1>10. NoDuplicates(q)
  <2>1. ASSUME NEW i \in 1..Len(ordered), NEW j \in 1..Len(ordered), q[i] = q[j] PROVE i = j
    <3>1. ordered[i] = ordered[j]
      BY <1>8, <2>1
    <3>2. QED
      BY <1>4, <3>1
  <2>2. QED
    BY <1>7, <2>1 DEF NoDuplicates
<1>11. Elements(q) = M
  <2>1. ASSUME NEW m \in M PROVE \E i \in 1..Len(ordered) : q[i] = m
    <3>1. m.table \in Tables(c)
      BY <1>2 DEF Tables
    <3>2. PICK i \in 1..Len(ordered) : ordered[i] = m.table
      BY <1>2, <1>5, <3>1 DEF Elements
    <3>3. q[i] = m
      BY <1>8, <1>9, <3>2
    <3>4. QED
      BY <3>3
  <2>2. QED
    BY <1>7, <1>8, <2>1 DEF Elements
<1>12. ASSUME NEW i \in 1..Len(ordered), NEW k \in q[i].keys, k.table \in Tables(c)
       PROVE  \/ Cyclic \/ k.table = q[i].table
              \/ \E j \in 1..(i - 1) : q[j].table = k.table
  <2>1. PICK t : t = ordered[i]
    OBVIOUS
  <2>2. t \in batch /\ q[i] = ModelOf(c, t) /\ q[i].table = t
    BY <1>3, <1>8, <2>1
  <2>3. refs[t] = {x.table : x \in ModelOf(c, t).keys}
    <3>1. refs = [y \in batch |-> {x.table : x \in ModelOf(c, y).keys}]
      BY <1>1 DEF RefsOf
    <3>2. QED
      BY <2>2, <3>1
  <2>4. CASE k.table # t
    <3>1. k.table \in Parents(batch, refs, t)
      BY <1>2, <1>12, <2>2, <2>3, <2>4 DEF Parents
    <3>2. (\E j \in 1..(i - 1) : ordered[j] = k.table) \/ OnOrBehindCycle(t)
      BY <2>1, <3>1 DEF OrderInv, ReferencedComeFirst
    <3>3. ASSUME NEW j \in 1..(i - 1), ordered[j] = k.table PROVE q[j].table = k.table
      <4>1. j \in 1..Len(ordered)
        BY <1>3
      <4>2. QED
        BY <1>8, <3>3, <4>1
    <3>4. OnOrBehindCycle(t) => Cyclic
      BY <2>2 DEF Cyclic
    <3>5. QED
      BY <3>2, <3>3, <3>4
  <2>5. QED
    BY <2>2, <2>4
<1>13. \A i \in 1..Len(q) : \A k \in q[i].keys :
         k.table \in Tables(c) =>
           \/ Cyclic \/ k.table = q[i].table
           \/ \E j \in 1..(i - 1) : q[j].table = k.table
  BY <1>7, <1>12
<1>14. Len(q) \in Nat
  BY <1>3, <1>7
<1>15. PICK d, y : d = diff /\ y = Cyclic
  OBVIOUS
<1>16. InOrder(d, q, y)
  <2>1. c = [models |-> d.createModels] /\ M = d.createModels
    BY <1>1, <1>15
  <2>2. \A i \in 1..Len(q) : \A k \in q[i].keys :
          k.table \in Tables([models |-> d.createModels]) =>
            \/ y \/ k.table = q[i].table
            \/ \E j \in 1..(i - 1) : q[j].table = k.table
    BY <1>13, <1>15, <2>1
  <2>3. QED
    BY <1>10, <1>11, <1>14, <2>1, <2>2, Zenon DEF InOrder
<1>17. QED
  BY <1>1, <1>15, <1>16

---------------------------------------------------------------------------
(* Creations run through *)

(* A script that only creates, generated for what is there, finds at each  *)
(* point what its statements need and nothing in their way.                *)
CreationInv ==
  /\ MigrationInv
  /\ phase \in {"edited", "ordering", "applying", "applied", "failed"} => IndexesKnown(edit, db)
  /\ phase = "ordering" =>
       IsSchema(source) /\ Creations(source, edit.to, diff) /\ refs = RefsOf(diff)
  /\ phase = "applying" /\ OnlyCreates /\ SourceKnown => Runnable(backend, db, {}, script, Cyclic)
  /\ CreationsRunThrough

EditIsGood(e) ==
  /\ IsSchema(e.from) /\ IsSchema(e.to) /\ IsWellFormed(e.from) /\ IsWellFormed(e.to)
  /\ \A m, n \in e.from.models \cup e.to.models :
       m.table # n.table => Names(m.indexes) \cap Names(n.indexes) = {}

LEMMA EditsAreGood ==
  ASSUME NEW e \in Edits
  PROVE  EditIsGood(e) /\ NamesApart(e.to)
<1>1. EditIsGood(e)
  BY EditsAssumption, WellFormedAssumption DEF EditIsGood
<1>2. QED
  BY <1>1 DEF EditIsGood, NamesApart

(* What was compared and how the tables are ordered stays.                 *)
LEMMA UntouchedComparison ==
  ASSUME UNCHANGED <<backend, before, source, diff>>, UNCHANGED orderVars
  PROVE  (OnlyCreates' <=> OnlyCreates) /\ (SourceKnown' <=> SourceKnown) /\ Cyclic' = Cyclic
<1>1. OnlyCreates' <=> OnlyCreates
  BY DEF OnlyCreates
<1>2. SourceKnown' <=> SourceKnown
  BY DEF SourceKnown
<1>3. batch' = batch /\ refs' = refs
  BY DEF orderVars
<1>4. Cyclic' = Cyclic
  BY <1>3 DEF Cyclic, OnOrBehindCycle
<1>5. QED
  BY <1>1, <1>2, <1>4

(* The differ says what it creates. *)
LEMMA DifferKeepsCreations ==
  ASSUME CreationInv, phase = "edited", MigrationInv',
         NEW s, NEW d, NEW add, Differ(s, d, add), IsSchema(s), Creations(s, edit.to, d)
  PROVE  CreationInv'
<1>1. /\ edit' = edit /\ db' = db /\ source' = s /\ diff' = d /\ phase' = "ordering"
  BY DEF Differ
<1>2. refs' = RefsOf(d)
  BY DEF Differ, StartOrdering, RefsOf
<1>3. IndexesKnown(edit, db)
  BY DEF CreationInv
<1>4. IndexesKnown(edit', db')
  BY <1>1, <1>3
<1>5. IsSchema(source') /\ Creations(source', edit'.to, diff') /\ refs' = RefsOf(diff')
  BY <1>1, <1>2
<1>6. CreationsRunThrough'
  BY <1>1 DEF CreationsRunThrough
<1>7. QED
  BY <1>1, <1>4, <1>5, <1>6 DEF CreationInv

(* The database was built from a schema. *)
LEMMA CreationInitInv == Init => CreationInv
<1> SUFFICES ASSUME Init PROVE CreationInv
  OBVIOUS
<1>1. MigrationInv
  BY MigrationInitInv
<1>2. edit \in Edits /\ db = Built(backend, edit.from) /\ phase = "edited"
  BY DEF Init
<1>3. IsSchema(edit.from) /\ IsWellFormed(edit.from)
  BY <1>2, EditsAreGood DEF EditIsGood
<1>4. IndexesKnown(edit, db)
  BY <1>2, <1>3, BuiltKnown
<1>5. QED
  BY <1>1, <1>2, <1>4 DEF CreationInv, CreationsRunThrough

(* What the script is generated from. *)
LEMMA GeneratedFromFound ==
  ASSUME CreationInv, Generate, OnlyCreates, SourceKnown
  PROVE  /\ EditIsGood(edit) /\ NamesApart(edit.to)
         /\ backend \in Backends /\ IsSchema(db) /\ IsDiff(edit.to, diff) /\ before = db
         /\ batch = Tables([models |-> diff.createModels]) /\ refs = RefsOf(diff)
         /\ Creations(source, edit.to, diff) /\ Found(backend, db, source, edit.to)
         /\ InOrder(diff, Creates, Cyclic)
         /\ OnlyNew(diff) /\ Names(diff.createViews) \cap Names(db.views) = {}
<1>1. phase = "ordering" /\ Finished
  BY DEF Generate
<1>2. EditIsGood(edit) /\ NamesApart(edit.to)
  BY EditsAreGood DEF CreationInv, MigrationInv
<1>3. /\ backend \in Backends /\ IsSchema(db) /\ IsDiff(edit.to, diff) /\ before = db
      /\ batch = Tables([models |-> diff.createModels])
  BY <1>1 DEF CreationInv, MigrationInv
<1>4. /\ IndexesKnown(edit, db) /\ IsSchema(source)
      /\ Creations(source, edit.to, diff) /\ refs = RefsOf(diff)
  BY <1>1 DEF CreationInv
<1>5. InOrder(diff, Creates, Cyclic)
  <2>1. diff.createModels \subseteq edit.to.models /\ IsSchema(edit.to)
    BY <1>2, <1>3 DEF IsDiff, EditIsGood
  <2>2. OrderInv
    BY DEF CreationInv, MigrationInv
  <2>3. QED
    BY <1>1, <1>3, <1>4, <2>1, <2>2, CreatesInOrder
<1>6. OnlyNew(diff) /\ Names(diff.createViews) \cap Names(db.views) = {}
  BY <1>3 DEF OnlyCreates, OnlyNew
<1>7. Found(backend, db, source, edit.to)
  <2>1. PICK b, cat, src, e : b = backend /\ cat = db /\ src = source /\ e = edit
    OBVIOUS
  <2>2. src = Introspect(cat) \/ cat = Built(b, src)
    BY <1>3, <2>1 DEF SourceKnown
  <2>3. /\ IsSchema(cat) /\ IsSchema(src) /\ IndexesKnown(e, cat)
        /\ \A m, n \in e.from.models \cup e.to.models :
             m.table # n.table => Names(m.indexes) \cap Names(n.indexes) = {}
    BY <1>2, <1>3, <1>4, <2>1 DEF EditIsGood
  <2>4. Found(b, cat, src, e.to)
    BY <2>2, <2>3, SourceIsFound
  <2>5. QED
    BY <2>1, <2>4, Zenon
<1>8. QED
  BY <1>2, <1>3, <1>4, <1>5, <1>6, <1>7

(* The script of a difference that only creates can run. *)
LEMMA GeneratedIsRunnable ==
  ASSUME CreationInv, Generate, OnlyCreates, SourceKnown
  PROVE  Runnable(backend, db, {}, script', Cyclic) /\ Elements(script') = CreationsOf(backend, diff)
<1>1. PICK drops \in Listings(diff.dropModels) : script' = Up(backend, diff, Creates, drops)
  BY DEF Generate
<1>2. PICK b, cat, src, to, d, creates, cyclic :
        /\ b = backend /\ cat = db /\ src = source /\ to = edit.to /\ d = diff
        /\ creates = Creates /\ cyclic = Cyclic
  OBVIOUS
<1>3. /\ b \in Backends /\ IsSchema(to) /\ IsWellFormed(to) /\ NamesApart(to)
      /\ IsDiff(to, d) /\ OnlyNew(d) /\ Creations(src, to, d) /\ Found(b, cat, src, to)
      /\ InOrder(d, creates, cyclic) /\ Names(d.createViews) \cap Names(cat.views) = {}
  BY <1>2, GeneratedFromFound DEF EditIsGood
<1>4. cyclic \in BOOLEAN /\ drops \in Listings(d.dropModels)
  BY <1>2 DEF Cyclic
<1>5. /\ Runnable(b, cat, {}, Up(b, d, creates, drops), cyclic)
      /\ Elements(Up(b, d, creates, drops)) = CreationsOf(b, d)
  BY <1>3, <1>4, CreationsAreRunnable
<1>6. QED
  BY <1>1, <1>2, <1>5, Zenon

(* What is left of such a script can still run. *)
LEMMA ExecuteKeepsRunnable ==
  ASSUME NEW b \in Backends, NEW cat, IsSchema(cat), NEW ops, NEW to, IsWellFormed(to),
         NEW q, IsScript(to, q, ops), q # <<>>, Accepts(b, cat, Head(q)),
         NEW cyclic, Runnable(b, cat, {}, q, cyclic)
  PROVE  Runnable(b, Effect(b, cat, Head(q)), {}, Tail(q), cyclic)
<1>1. PICK s, new : s = Head(q) /\ new = Effect(b, cat, Head(q))
  OBVIOUS
<1>2. s = q[1] /\ 1 \in 1..Len(q)
  <2>1. q \in Seq(Elements(q)) /\ Len(q) \in Nat
    BY ScriptIsSeq
  <2>2. QED
    BY <1>1, <2>1, HeadTailProperties, EmptySeq, LenProperties
<1>3. /\ q[1].op \in CreatingOps /\ Fresh(cat, q[1])
      /\ q[1].op = "create table" => IndexesNamed(q[1].model)
  BY <1>2 DEF Runnable
<1>4. IsStatement(s) /\ Accepts(b, cat, s)
  BY <1>1, ScriptHeadTail DEF IsStatementOf
<1>5. /\ s.op \in CreatingOps /\ Fresh(cat, s)
      /\ s.op = "create table" => IndexesNamed(s.model)
  BY <1>2, <1>3, Zenon
<1>6. AddsByName(cat, Effect(b, cat, s), s)
  BY <1>4, <1>5, CreatingNames
<1>7. AddsByName(cat, new, Head(q))
  BY <1>1, <1>6, Zenon
<1>8. Runnable(b, new, {}, Tail(q), cyclic)
  BY <1>7, RunnableStep
<1>9. QED
  BY <1>1, <1>8, Zenon

(* Every step keeps the invariant. *)
LEMMA CreationNextInv == CreationInv /\ [Next]_vars => CreationInv'
<1> SUFFICES ASSUME CreationInv, [Next]_vars PROVE CreationInv'
  OBVIOUS
<1>0. MigrationInv /\ MigrationInv' /\ edit \in Edits
  BY MigrationNextInv DEF CreationInv, MigrationInv
<1>a. EditIsGood(edit)
  BY <1>0, EditsAreGood
<1>1. CASE MigrateDev
  <2>1. phase = "edited" /\ IsSchema(db)
    BY <1>0, <1>1 DEF MigrateDev, MigrationInv
  <2>2. PICK destructive \in BOOLEAN :
          Differ(Introspect(db),
                 IF destructive THEN Diff(Introspect(db), edit.to)
                 ELSE StripDestructive(Diff(Introspect(db), edit.to)),
                 ~destructive)
    BY <1>1 DEF MigrateDev
  <2>3. PICK s, t : s = Introspect(db) /\ t = edit.to
    OBVIOUS
  <2>4. IsSchema(s)
    BY <2>1, <2>3, IntrospectIsSchema
  <2>5. Creations(s, t, Diff(s, t)) /\ Creations(s, t, StripDestructive(Diff(s, t)))
    BY DiffCreations
  <2>6. PICK d : d = IF destructive THEN Diff(s, t) ELSE StripDestructive(Diff(s, t))
    OBVIOUS
  <2>7. Differ(s, d, ~destructive)
    BY <2>2, <2>3, <2>6, Zenon
  <2>8. Creations(s, edit.to, d)
    BY <2>3, <2>5, <2>6
  <2>9. QED
    BY <1>0, <2>1, <2>4, <2>7, <2>8, DifferKeepsCreations
<1>2. CASE CreateMigration
  <2>1. PICK s, t, d : s = EmptySchema /\ t = edit.to /\ d = Diff(s, t)
    OBVIOUS
  <2>2. IsSchema(s)
    BY <2>1, EmptyIsSchema
  <2>3. Creations(s, t, Diff(s, t))
    BY DiffCreations
  <2>4. phase = "edited" /\ Differ(s, d, FALSE)
    BY <1>2, <2>1, Zenon DEF CreateMigration
  <2>5. Creations(s, edit.to, d)
    BY <2>1, <2>3
  <2>6. QED
    BY <1>0, <2>2, <2>4, <2>5, DifferKeepsCreations
<1>3. CASE DiffSchemas
  <2>1. PICK s, t, d : s = edit.from /\ t = edit.to /\ d = Diff(s, t)
    OBVIOUS
  <2>2. IsSchema(s)
    BY <1>a, <2>1 DEF EditIsGood
  <2>3. Creations(s, t, Diff(s, t))
    BY DiffCreations
  <2>4. phase = "edited" /\ Differ(s, d, FALSE)
    BY <1>3, <2>1, Zenon DEF DiffSchemas
  <2>5. Creations(s, edit.to, d)
    BY <2>1, <2>3
  <2>6. QED
    BY <1>0, <2>2, <2>4, <2>5, DifferKeepsCreations
<1>4. CASE OrderTables
  <2>1. batch' = batch /\ refs' = refs
    BY <1>4 DEF OrderTables, Ordering, Emit, EmitRest
  <2>2. phase = "ordering" /\ UNCHANGED schemaVars
    BY <1>4 DEF OrderTables
  <2>3. CreationsRunThrough'
    BY <2>2 DEF CreationsRunThrough, schemaVars
  <2>4. /\ edit' = edit /\ db' = db /\ phase' = phase /\ source' = source /\ diff' = diff
    BY <2>2 DEF schemaVars
  <2>5. QED
    BY <1>0, <2>1, <2>2, <2>3, <2>4 DEF CreationInv
<1>5. CASE Generate
  <2>1. /\ phase = "ordering" /\ phase' = "applying" /\ edit' = edit /\ db' = db
        /\ UNCHANGED <<backend, before, source, diff>> /\ UNCHANGED orderVars
    BY <1>5 DEF Generate
  <2>2. (OnlyCreates' <=> OnlyCreates) /\ (SourceKnown' <=> SourceKnown) /\ Cyclic' = Cyclic
    BY <2>1, UntouchedComparison
  <2>3. ASSUME OnlyCreates, SourceKnown PROVE Runnable(backend, db, {}, script', Cyclic)
    BY <1>5, <2>3, GeneratedIsRunnable
  <2>4. CreationsRunThrough'
    BY <2>1 DEF CreationsRunThrough
  <2>5. IndexesKnown(edit, db)
    BY <2>1 DEF CreationInv
  <2>6. QED
    BY <1>0, <2>1, <2>2, <2>3, <2>4, <2>5 DEF CreationInv
<1>6. CASE Execute
  <2>1. /\ script # <<>> /\ Accepts(backend, db, Head(script))
        /\ db' = Effect(backend, db, Head(script)) /\ script' = Tail(script)
        /\ edit' = edit /\ phase' = phase /\ phase \in {"applying", "reverting"}
        /\ UNCHANGED <<backend, before, source, diff>> /\ UNCHANGED orderVars
    BY <1>6 DEF Execute, Running
  <2>2. CreationsRunThrough'
    BY <2>1 DEF CreationsRunThrough
  <2>3. CASE phase = "applying"
    <3>1. PICK b, c, s, q, e, to, ops, cyclic :
            /\ b = backend /\ c = db /\ s = Head(script) /\ q = script /\ e = edit /\ to = edit.to
            /\ ops = (IF additive THEN AddingOps ELSE AllOps) /\ cyclic = Cyclic
      OBVIOUS
    <3>2. b \in Backends /\ IsSchema(c) /\ IsScript(to, q, ops) /\ q # <<>> /\ Accepts(b, c, s)
      BY <1>0, <2>1, <2>3, <3>1 DEF MigrationInv
    <3>3. s.op \in ops /\ IsStatementOf(to, s)
      BY <3>1, <3>2, ScriptHeadTail
    <3>4. s.op \in AllOps
      BY <3>1, <3>3 DEF AllOps
    <3>5. IndexesKnown(e, c) /\ IsWellFormed(to)
      BY <1>a, <2>3, <3>1 DEF CreationInv, EditIsGood
    <3>6. IndexesKnown(e, Effect(b, c, s))
      <4>1. to = e.to
        BY <3>1
      <4>2. IsWellFormed(e.to) /\ IsStatementOf(e.to, s)
        BY <3>3, <3>5, <4>1
      <4>3. QED
        BY <3>2, <3>4, <3>5, <4>2, EffectKnown
    <3>7. IndexesKnown(edit', db')
      BY <2>1, <3>1, <3>6
    <3>8. ASSUME OnlyCreates, SourceKnown PROVE Runnable(backend, db', {}, script', Cyclic)
      <4>1. Runnable(b, c, {}, q, cyclic)
        BY <2>3, <3>1, <3>8 DEF CreationInv
      <4>2. Accepts(b, c, Head(q))
        BY <2>1, <3>1
      <4>3. Runnable(b, Effect(b, c, Head(q)), {}, Tail(q), cyclic)
        BY <3>2, <3>5, <4>1, <4>2, ExecuteKeepsRunnable
      <4>4. QED
        BY <2>1, <3>1, <4>3
    <3>9. (OnlyCreates' <=> OnlyCreates) /\ (SourceKnown' <=> SourceKnown) /\ Cyclic' = Cyclic
      BY <2>1, UntouchedComparison
    <3>10. QED
      BY <1>0, <2>1, <2>2, <2>3, <3>7, <3>8, <3>9 DEF CreationInv
  <2>4. CASE phase = "reverting"
    BY <1>0, <2>1, <2>2, <2>4 DEF CreationInv
  <2>5. QED
    BY <2>1, <2>3, <2>4
<1>7. CASE Refuse
  <2>1. /\ script # <<>> /\ ~Accepts(backend, db, Head(script))
        /\ edit' = edit /\ db' = db /\ UNCHANGED <<backend, before, source, diff>> /\ UNCHANGED orderVars
        /\ \/ phase = "applying" /\ phase' = "failed"
           \/ phase = "reverting" /\ phase' = "revert failed"
    BY <1>7 DEF Refuse, Running
  <2>2. (OnlyCreates' <=> OnlyCreates) /\ (SourceKnown' <=> SourceKnown) /\ Cyclic' = Cyclic
    BY <2>1, UntouchedComparison
  <2>3. ASSUME phase = "applying", OnlyCreates, SourceKnown PROVE backend # "Sqlite" /\ Cyclic
    <3>1. Runnable(backend, db, {}, script, Cyclic)
      BY <2>3 DEF CreationInv
    <3>2. PICK to, ops : /\ to = edit.to /\ ops = IF additive THEN AddingOps ELSE AllOps
      OBVIOUS
    <3>3. IsScript(to, script, ops) /\ backend \in Backends
      BY <1>0, <2>3, <3>2 DEF MigrationInv
    <3>4. Cyclic \in BOOLEAN
      BY DEF Cyclic
    <3>5. Accepts(backend, db, Head(script)) \/ (Cyclic /\ backend # "Sqlite")
      BY <2>1, <3>1, <3>3, <3>4, RunnableIsAccepted
    <3>6. QED
      BY <2>1, <3>5
  <2>4. CreationsRunThrough'
    BY <2>1, <2>2, <2>3 DEF CreationsRunThrough
  <2>5. phase = "applying" => IndexesKnown(edit, db)
    BY DEF CreationInv
  <2>6. QED
    BY <1>0, <2>1, <2>4, <2>5 DEF CreationInv
<1>8. CASE Complete \/ Revert \/ Retry
  <2>1. /\ edit' = edit /\ db' = db
        /\ \/ phase = "applying" /\ phase' = "applied"
           \/ phase = "reverting" /\ phase' = "reverted"
           \/ phase = "applied" /\ phase' = "reverting"
           \/ phase = "failed" /\ phase' = "edited"
    BY <1>8 DEF Complete, Revert, Retry, Running
  <2>2. CreationsRunThrough'
    BY <2>1 DEF CreationsRunThrough
  <2>3. phase \in {"applying", "failed"} => IndexesKnown(edit, db)
    BY DEF CreationInv
  <2>4. QED
    BY <1>0, <2>1, <2>2, <2>3 DEF CreationInv
<1>9. CASE UNCHANGED vars
  <2>1. UNCHANGED schemaVars /\ UNCHANGED orderVars
    BY <1>9 DEF vars
  <2>2. /\ edit' = edit /\ db' = db /\ phase' = phase /\ script' = script
        /\ UNCHANGED <<backend, before, source, diff>>
    BY <2>1 DEF schemaVars
  <2>3. (OnlyCreates' <=> OnlyCreates) /\ (SourceKnown' <=> SourceKnown) /\ Cyclic' = Cyclic
    BY <2>1, <2>2, UntouchedComparison
  <2>4. refs' = refs
    BY <2>1 DEF orderVars
  <2>5. CreationsRunThrough'
    BY <2>2, <2>3 DEF CreationInv, CreationsRunThrough
  <2>6. QED
    BY <1>0, <2>2, <2>3, <2>4, <2>5 DEF CreationInv
<1>10. QED
  BY <1>1, <1>2, <1>3, <1>4, <1>5, <1>6, <1>7, <1>8, <1>9 DEF Next

(* A script that only creates, generated for what is there, is never       *)
(* refused, whatever the schemas and the order the hash maps give, unless  *)
(* foreign keys form a cycle; and never on SQLite.                         *)
THEOREM CreatingMigrationsRunThrough == Spec => []CreationsRunThrough
<1>1. CreationInv => CreationsRunThrough
  BY DEF CreationInv
<1>2. QED
  BY <1>1, CreationInitInv, CreationNextInv, PTL DEF Spec

---------------------------------------------------------------------------
(* A catalog without loose ends *)

(* Foreign keys lead to tables, types of columns exist, and views on       *)
(* Postgres read tables: what the database sees to, but for the foreign    *)
(* keys of SQLite and the views of the others.                             *)
ModelSound(b, T, N, m) ==
  /\ b # "Sqlite" => \A k \in m.keys : k.table \in T
  /\ \A c \in m.columns : c.enum # Absent => b = "Postgres" /\ c.enum \in N
Sound(b, cat) ==
  /\ \A m \in cat.models : ModelSound(b, Tables(cat), Names(cat.enums), m)
  /\ b = "Postgres" => \A v \in cat.views : v.reads \in Tables(cat)

(* The type of a stored column. *)
LEMMA StoredEnum ==
  ASSUME NEW b, NEW c, IsColumn(c)
  PROVE  Stored(b, c).enum = IF b = "Postgres" THEN c.enum ELSE Absent
<1>1. DOMAIN c = {"name", "type", "enum", "nullable", "default"}
  BY DEF IsColumn
<1>2. QED
  BY <1>1 DEF Stored

(* A database built from a well-formed schema. *)
LEMMA BuiltSound ==
  ASSUME NEW b, NEW s, IsSchema(s), IsWellFormed(s)
  PROVE  Sound(b, Built(b, s))
<1> DEFINE f == [m \in s.models |-> [m EXCEPT !.columns = {Stored(b, c) : c \in @},
                                              !.indexes = Constraints(m) \cup {i \in @ : ~i.unique}]]
           g == [v \in s.views |-> [v EXCEPT !.materialized = @ /\ b = "Postgres"]]
           M == {f[m] : m \in s.models}
           E == IF b \in {"Postgres", "DuckDb"} THEN s.enums ELSE {}
           V == {g[v] : v \in s.views}
<1>1. PICK new : new = Built(b, s)
  OBVIOUS
<1>2. new = [models |-> M, enums |-> E, views |-> V]
  BY <1>1 DEF Built
<1>3. ASSUME NEW m \in s.models
      PROVE  f[m].table = m.table /\ f[m].keys = m.keys /\ f[m].columns = {Stored(b, c) : c \in m.columns}
  <2>1. IsModel(m)
    BY DEF IsSchema
  <2>2. DOMAIN m = {"table", "columns", "keys", "indexes"}
    BY <2>1 DEF IsModel
  <2>3. QED
    BY <2>2
<1>4. ASSUME NEW v \in s.views
      PROVE  g[v].reads = v.reads
  <2>1. v = [name |-> v.name, reads |-> v.reads, sql |-> v.sql, materialized |-> v.materialized]
    BY DEF IsSchema
  <2>2. DOMAIN v = {"name", "reads", "sql", "materialized"}
    BY <2>1
  <2>3. QED
    BY <2>2
<1> HIDE DEF f, g
<1>5. Tables(new) = Tables(s)
  BY <1>2, <1>3 DEF Tables
<1>6. b = "Postgres" => new.enums = s.enums
  BY <1>2
<1>7. ASSUME NEW m \in s.models
      PROVE  ModelSound(b, Tables(new), Names(new.enums), f[m])
  <2>1. PICK r : r = f[m]
    OBVIOUS
  <2>2. r.keys = m.keys /\ r.columns = {Stored(b, c) : c \in m.columns}
    BY <1>3, <2>1
  <2>3. \A k \in m.keys : k.table \in Tables(s)
    BY DEF IsWellFormed
  <2>4. ASSUME NEW c \in m.columns
        PROVE  Stored(b, c).enum # Absent => b = "Postgres" /\ Stored(b, c).enum \in Names(s.enums)
    <3>1. IsColumn(c)
      BY DEF IsSchema, IsModel
    <3>2. Stored(b, c).enum = IF b = "Postgres" THEN c.enum ELSE Absent
      BY <3>1, StoredEnum
    <3>3. c.enum # Absent => c.enum \in Names(s.enums)
      BY DEF IsWellFormed
    <3>4. QED
      BY <3>2, <3>3
  <2>5. \A c \in r.columns : c.enum # Absent => b = "Postgres" /\ c.enum \in Names(s.enums)
    BY <2>2, <2>4
  <2>6. ModelSound(b, Tables(new), Names(new.enums), r)
    BY <1>5, <1>6, <2>2, <2>3, <2>5 DEF ModelSound
  <2>7. QED
    BY <2>1, <2>6
<1>8. \A v \in new.views : v.reads \in Tables(new)
  <2>1. ASSUME NEW v \in s.views PROVE g[v].reads \in Tables(new)
    BY <1>4, <1>5 DEF IsWellFormed
  <2>2. QED
    BY <1>2, <2>1
<1>9. \A m \in new.models : ModelSound(b, Tables(new), Names(new.enums), m)
  BY <1>2, <1>7
<1>10. Sound(b, new)
  BY <1>8, <1>9 DEF Sound
<1>11. QED
  BY <1>1, <1>10


(* A column keeps the enum it is of when it is altered. *)
KeepsEnums(m, r) == r.keys = m.keys /\ \A x \in r.columns : \E y \in m.columns : x.enum = y.enum

LEMMA AlterColumnKeepsEnum ==
  ASSUME NEW m, IsModel(m), NEW c \in Names(m.columns), NEW change, "enum" \notin DOMAIN change,
         "name" \notin DOMAIN change
  PROVE  KeepsEnums(m, AlterColumnEffect(m, c, change))
<1>0. PICK r : r = AlterColumnEffect(m, c, change)
  OBVIOUS
<1> DEFINE old == Named(m.columns, c)
           new == [f \in DOMAIN old |-> IF f \in DOMAIN change THEN change[f] ELSE old[f]]
           C == (m.columns \ {old}) \cup {new}
<1>1. old \in m.columns
  BY DEF Names, Named
<1>2. r.columns = C /\ r.keys = m.keys
  <2>1. r = [m EXCEPT !.columns = C]
    BY <1>0 DEF AlterColumnEffect
  <2> HIDE DEF C
  <2>2. r = [table |-> m.table, columns |-> C, keys |-> m.keys, indexes |-> m.indexes]
    BY <2>1, ModelParts
  <2>3. QED
    BY <2>2
<1>3. new.enum = old.enum
  <2>1. IsColumn(old)
    BY <1>1 DEF IsModel
  <2>2. DOMAIN old = {"name", "type", "enum", "nullable", "default"}
    BY <2>1 DEF IsColumn
  <2> HIDE DEF old
  <2>3. QED
    BY <2>2
<1> HIDE DEF new, old
<1>4. KeepsEnums(m, r)
  BY <1>1, <1>2, <1>3 DEF KeepsEnums
<1>5. QED
  BY <1>0, <1>4

(* The statements about a table. *)
LEMMA TableEffectSound ==
  ASSUME NEW b \in Backends, NEW cat, NEW T, NEW N, T = Tables(cat), N = Names(cat.enums),
         NEW m, IsModel(m), ModelSound(b, T, N, m), NEW s, IsStatement(s), s.op \in AlteringOps,
         Accepts(b, cat, s), s.op \in {"alter column", "add default"} => s.name \in Names(m.columns)
  PROVE  ModelSound(b, T, N, TableEffect(b, m, s))
<1>1. PICK r : r = TableEffect(b, m, s)
  OBVIOUS
<1>3. CASE s.op = "add column"
  <2>1. PICK C : C = m.columns \cup {Stored(b, s.column)}
    OBVIOUS
  <2>2. r = [m EXCEPT !.columns = C]
    BY <1>1, <1>3, <2>1 DEF TableEffect
  <2>3. r = [table |-> m.table, columns |-> C, keys |-> m.keys, indexes |-> m.indexes]
    BY <2>2, ModelParts
  <2>4. r.columns = C /\ r.keys = m.keys
    BY <2>3
  <2>5. AcceptsAddColumn(b, cat, s.table, s.column)
    BY <1>3 DEF Accepts
  <2>6. IsColumn(s.column)
    BY <1>3 DEF IsStatement
  <2>7. Stored(b, s.column).enum = IF b = "Postgres" THEN s.column.enum ELSE Absent
    BY <2>6, StoredEnum
  <2>8. b = "Postgres" /\ s.column.enum # Absent => s.column.enum \in N
    BY <2>5 DEF AcceptsAddColumn, TypeKnown
  <2>9. ModelSound(b, T, N, r)
    BY <2>1, <2>4, <2>7, <2>8 DEF ModelSound
  <2>10. QED
    BY <1>1, <2>9
<1>4. CASE s.op \in {"alter column", "add default"}
  <2>1. PICK c : c = IF s.op = "alter column" THEN s.change ELSE [default |-> s.default]
    OBVIOUS
  <2>2. "name" \notin DOMAIN c /\ "enum" \notin DOMAIN c /\ s.name \in Names(m.columns)
    <3>1. s.op = "alter column" => "name" \notin DOMAIN c /\ "enum" \notin DOMAIN c
      BY <2>1 DEF IsStatement
    <3>2. s.op = "add default" => "name" \notin DOMAIN c /\ "enum" \notin DOMAIN c
      BY <2>1
    <3>3. QED
      BY <1>4, <3>1, <3>2
  <2>3. r = AlterColumnEffect(m, s.name, c)
    BY <1>1, <1>4, <2>1 DEF TableEffect
  <2>4. KeepsEnums(m, AlterColumnEffect(m, s.name, c))
    BY <2>2, AlterColumnKeepsEnum
  <2>5. ModelSound(b, T, N, r)
    BY <2>3, <2>4 DEF ModelSound, KeepsEnums
  <2>6. QED
    BY <1>1, <2>5
<1>5. CASE s.op = "create index"
  <2>1. PICK I : I = m.indexes \cup {s.index}
    OBVIOUS
  <2>2. r = [m EXCEPT !.indexes = I]
    BY <1>1, <1>5, <2>1 DEF TableEffect
  <2>3. r = [table |-> m.table, columns |-> m.columns, keys |-> m.keys, indexes |-> I]
    BY <2>2, ModelParts
  <2>4. r.columns = m.columns /\ r.keys = m.keys
    BY <2>3
  <2>5. ModelSound(b, T, N, r)
    BY <2>4 DEF ModelSound
  <2>6. QED
    BY <1>1, <2>5
<1>6. CASE s.op \in {"add key", "drop key"}
  <2>1. PICK K : K = IF s.op = "add key" THEN m.keys \cup {s.key} ELSE {k \in m.keys : k.name # s.name}
    OBVIOUS
  <2>2. r = [m EXCEPT !.keys = K]
    BY <1>1, <1>6, <2>1 DEF TableEffect
  <2>3. r = [table |-> m.table, columns |-> m.columns, keys |-> K, indexes |-> m.indexes]
    BY <2>2, ModelParts
  <2>4. r.columns = m.columns /\ r.keys = K
    BY <2>3
  <2>5. s.op = "add key" => s.key.table \in T
    <3>1. ASSUME s.op = "add key" PROVE AcceptsAddKey(b, cat, s.table, s.key)
      BY <3>1 DEF Accepts
    <3>2. QED
      BY <3>1 DEF AcceptsAddKey, HasTable
  <2>6. \A k \in K : k \in m.keys \/ k.table \in T
    BY <2>1, <1>6, <2>5
  <2>7. ModelSound(b, T, N, r)
    BY <2>4, <2>6 DEF ModelSound
  <2>8. QED
    BY <1>1, <2>7
<1>7. CASE s.op = "drop column"
  <2> DEFINE c == s.name
             Without(i) == [i EXCEPT !.columns = SelectSeq(@, LAMBDA x : x # c)]
             I == IF b = "MySql" THEN {i \in {Without(j) : j \in m.indexes} : i.columns # <<>>}
                  ELSE {i \in m.indexes : ~Uses(i, c)}
             C == {x \in m.columns : x.name # c}
             K == {k \in m.keys : k.column # c}
  <2>1. r = [m EXCEPT !.columns = C, !.keys = K, !.indexes = I]
    <3>1. r = DropColumnEffect(b, m, s.name)
      BY <1>1, <1>7 DEF TableEffect
    <3>2. QED
      BY <3>1 DEF DropColumnEffect
  <2>2. C \subseteq m.columns /\ K \subseteq m.keys
    OBVIOUS
  <2> HIDE DEF I, C, K
  <2>3. r.columns = C /\ r.keys = K
    <3>1. DOMAIN m = {"table", "columns", "keys", "indexes"}
      BY DEF IsModel
    <3>2. QED
      BY <2>1, <3>1
  <2>4. ModelSound(b, T, N, r)
    BY <2>2, <2>3 DEF ModelSound
  <2>5. QED
    BY <1>1, <2>4
<1>8. QED
  BY <1>3, <1>4, <1>5, <1>6, <1>7 DEF AlteringOps

(* A table that is changed or put in. *)
LEMMA WithModelSound ==
  ASSUME NEW b, NEW cat, IsSchema(cat), Sound(b, cat), NEW r, IsModel(r),
         ModelSound(b, Tables(cat) \cup {r.table}, Names(cat.enums), r)
  PROVE  Sound(b, WithModel(cat, r))
<1>1. PICK new : new = WithModel(cat, r)
  OBVIOUS
<1>2. new = [models |-> {x \in cat.models : x.table # r.table} \cup {r},
             enums |-> cat.enums, views |-> cat.views]
  BY <1>1, WithModelIsSchema
<1>3. new.models = {x \in cat.models : x.table # r.table} \cup {r}
      /\ new.enums = cat.enums /\ new.views = cat.views
  BY <1>2
<1>4. Tables(new) = Tables(cat) \cup {r.table}
  BY <1>3 DEF Tables
<1>5. ASSUME NEW x \in new.models PROVE ModelSound(b, Tables(new), Names(new.enums), x)
  <2>1. CASE x = r
    BY <1>3, <1>4, <2>1
  <2>2. CASE x \in cat.models
    <3>1. ModelSound(b, Tables(cat), Names(cat.enums), x)
      BY <2>2 DEF Sound
    <3>2. QED
      BY <1>3, <1>4, <3>1 DEF ModelSound
  <2>3. QED
    BY <1>3, <2>1, <2>2
<1>6. b = "Postgres" => \A v \in new.views : v.reads \in Tables(new)
  BY <1>3, <1>4 DEF Sound
<1>7. Sound(b, new)
  BY <1>5, <1>6 DEF Sound
<1>8. QED
  BY <1>1, <1>7


(* A catalog of which tables, types and views were taken, or added. *)
LEMMA DropTableSound ==
  ASSUME NEW b, NEW cat, IsSchema(cat), Sound(b, cat), NEW t, AcceptsDropTable(b, cat, t)
  PROVE  Sound(b, DropTableEffect(b, cat, t))
<1>1. PICK new : new = DropTableEffect(b, cat, t)
  OBVIOUS
<1>2. \A x \in cat.models : IsModel(x) /\ ModelSound(b, Tables(cat), Names(cat.enums), x)
  BY DEF IsSchema, Sound
<1>3. DOMAIN cat = {"models", "enums", "views"}
  BY DEF IsSchema
<1>4. ASSUME b = "Postgres", HasTable(cat, t) PROVE Sound(b, new)
  <2> DEFINE left == {m \in cat.models : m.table # t}
             f == [m \in left |-> [m EXCEPT !.keys = {k \in @ : k.table # t}]]
             M == {f[m] : m \in left}
             V == {v \in cat.views : v.reads # t}
  <2>1. new = [cat EXCEPT !.models = M, !.views = V]
    BY <1>1, <1>4 DEF DropTableEffect
  <2>2. ASSUME NEW m \in left
        PROVE  /\ f[m].table = m.table /\ f[m].columns = m.columns
               /\ f[m].keys = {k \in m.keys : k.table # t}
    <3>1. DOMAIN m = {"table", "columns", "keys", "indexes"}
      BY <1>2 DEF IsModel
    <3>2. QED
      BY <3>1
  <2> HIDE DEF f, V, M
  <2>3. new.models = M /\ new.enums = cat.enums /\ new.views = V
    BY <1>3, <2>1
  <2>4. Tables(new) = Tables(cat) \ {t}
    BY <2>2, <2>3 DEF Tables, M
  <2>5. ASSUME NEW m \in left PROVE ModelSound(b, Tables(new), Names(new.enums), f[m])
    <3>1. ModelSound(b, Tables(cat), Names(cat.enums), m)
      BY <1>2
    <3>2. QED
      BY <2>2, <2>3, <2>4, <3>1 DEF ModelSound
  <2>6. \A x \in new.models : ModelSound(b, Tables(new), Names(new.enums), x)
    BY <2>3, <2>5 DEF M
  <2>7. \A v \in new.views : v.reads \in Tables(new)
    BY <1>4, <2>3, <2>4 DEF Sound, V
  <2>8. QED
    BY <2>6, <2>7 DEF Sound
<1>5. ASSUME ~(b = "Postgres" /\ HasTable(cat, t)) PROVE Sound(b, new)
  <2> DEFINE left == {m \in cat.models : m.table # t}
  <2>1. new = [cat EXCEPT !.models = left]
    BY <1>1, <1>5 DEF DropTableEffect
  <2> HIDE DEF left
  <2>2. new.models = left /\ new.enums = cat.enums /\ new.views = cat.views
    BY <1>3, <2>1
  <2>3. Tables(new) = Tables(cat) \ {t}
    BY <2>2 DEF Tables, left
  <2>4. ASSUME NEW x \in left PROVE ModelSound(b, Tables(new), Names(new.enums), x)
    <3>1. ModelSound(b, Tables(cat), Names(cat.enums), x) /\ x \in cat.models /\ x.table # t
      BY <1>2 DEF left
    <3>2. b # "Sqlite" => \A k \in x.keys : k.table # t
      <4>1. CASE b = "Postgres"
        <5>1. t \notin Tables(cat)
          BY <1>5, <4>1 DEF HasTable
        <5>2. QED
          BY <3>1, <4>1, <5>1 DEF ModelSound
      <4>2. CASE b # "Postgres" /\ b # "Sqlite"
        <5>1. Referencing(cat, t) = {}
          BY <4>2 DEF AcceptsDropTable
        <5>2. QED
          BY <3>1, <5>1 DEF Referencing
      <4>3. QED
        BY <4>1, <4>2
    <3>3. QED
      BY <2>2, <2>3, <3>1, <3>2 DEF ModelSound
  <2>5. b = "Postgres" => \A v \in new.views : v.reads \in Tables(new)
    <3>1. b = "Postgres" => t \notin Tables(cat)
      BY <1>5 DEF HasTable
    <3>2. QED
      BY <2>2, <2>3, <3>1 DEF Sound
  <2>6. QED
    BY <2>2, <2>4, <2>5 DEF Sound
<1>6. Sound(b, new)
  BY <1>4, <1>5
<1>7. QED
  BY <1>1, <1>6


(* The same tables with the same keys and columns. *)
LEMMA SameModelsSound ==
  ASSUME NEW b, NEW cat, Sound(b, cat), NEW new, new.models = cat.models,
         \A m \in cat.models : \A c \in m.columns :
           c.enum \in Names(cat.enums) => c.enum \in Names(new.enums),
         b = "Postgres" => \A v \in new.views : v.reads \in Tables(cat)
  PROVE  Sound(b, new)
<1>1. Tables(new) = Tables(cat)
  BY DEF Tables
<1>2. ASSUME NEW m \in cat.models PROVE ModelSound(b, Tables(new), Names(new.enums), m)
  <2>1. ModelSound(b, Tables(cat), Names(cat.enums), m)
    BY DEF Sound
  <2>2. QED
    BY <1>1, <2>1 DEF ModelSound
<1>3. QED
  BY <1>1, <1>2 DEF Sound

LEMMA TypesSound ==
  ASSUME NEW b, NEW cat, IsSchema(cat), Sound(b, cat), NEW s, Accepts(b, cat, s), IsStatement(s),
         s.op \in {"create type", "drop type", "add values"}
  PROVE  Sound(b, Effect(b, cat, s))
<1>1. PICK new : new = Effect(b, cat, s)
  OBVIOUS
<1>2. DOMAIN cat = {"models", "enums", "views"}
  BY DEF IsSchema
<1>3. \A e \in cat.enums : DOMAIN e = {"name", "values"}
  <2>1. ASSUME NEW e \in cat.enums PROVE DOMAIN e = {"name", "values"}
    <3>1. e = [name |-> e.name, values |-> e.values]
      BY DEF IsSchema
    <3>2. QED
      BY <3>1
  <2>2. QED
    BY <2>1
<1>4. ASSUME NEW E, new = [cat EXCEPT !.enums = E],
             \A m \in cat.models : \A c \in m.columns : c.enum \in Names(cat.enums) => c.enum \in Names(E)
      PROVE  Sound(b, new)
  <2>1. new.models = cat.models /\ new.enums = E /\ new.views = cat.views
    BY <1>2, <1>4
  <2>2. b = "Postgres" => \A v \in new.views : v.reads \in Tables(cat)
    BY <2>1 DEF Sound
  <2>4. \A m \in cat.models : \A c \in m.columns :
          c.enum \in Names(cat.enums) => c.enum \in Names(new.enums)
    BY <1>4, <2>1
  <2>3. QED
    BY <2>1, <2>2, <2>4, SameModelsSound
<1>5. CASE s.op = "create type"
  <2>1. PICK E : E = cat.enums \cup {s.enum}
    OBVIOUS
  <2>2. new = [cat EXCEPT !.enums = E]
    BY <1>1, <1>5, <2>1 DEF Effect
  <2>3. Names(cat.enums) \subseteq Names(E)
    BY <2>1 DEF Names
  <2>4. QED
    BY <1>1, <1>4, <2>2, <2>3
<1>6. CASE s.op = "drop type"
  <2>1. PICK E : E = {e \in cat.enums : e.name # s.name}
    OBVIOUS
  <2>2. new = [cat EXCEPT !.enums = E]
    BY <1>1, <1>6, <2>1 DEF Effect
  <2>3. \A m \in cat.models, c \in UNION {x.columns : x \in cat.models} : c \in m.columns => c.enum # s.name
    BY <1>6, Zenon DEF Accepts
  <2>4. \A m \in cat.models : \A c \in m.columns : c.enum # s.name
    BY <2>3
  <2>5. \A n \in Names(cat.enums) : n # s.name => n \in Names(E)
    BY <2>1 DEF Names
  <2>6. QED
    BY <1>1, <1>4, <2>2, <2>4, <2>5
<1>7. CASE s.op = "add values"
  <2> DEFINE f == [e \in cat.enums |-> IF e.name = s.name THEN [e EXCEPT !.values = @ \cup s.values] ELSE e]
             E == {f[e] : e \in cat.enums}
  <2>1. new = [cat EXCEPT !.enums = E]
    BY <1>1, <1>7 DEF Effect
  <2>2. \A e \in cat.enums : f[e].name = e.name
    BY <1>3
  <2> HIDE DEF f
  <2>3. Names(cat.enums) \subseteq Names(E)
    BY <2>2 DEF Names
  <2> HIDE DEF E
  <2>4. QED
    BY <1>1, <1>4, <2>1, <2>3
<1>8. QED
  BY <1>5, <1>6, <1>7

LEMMA ViewsSound ==
  ASSUME NEW b, NEW cat, IsSchema(cat), Sound(b, cat), NEW s, Accepts(b, cat, s), IsStatement(s),
         s.op \in {"create view", "drop view"}
  PROVE  Sound(b, Effect(b, cat, s))
<1>1. PICK new : new = Effect(b, cat, s)
  OBVIOUS
<1>2. DOMAIN cat = {"models", "enums", "views"}
  BY DEF IsSchema
<1>3. ASSUME NEW V, new = [cat EXCEPT !.views = V],
             b = "Postgres" => \A v \in V : v \in cat.views \/ v.reads \in Tables(cat)
      PROVE  Sound(b, new)
  <2>1. new.models = cat.models /\ new.enums = cat.enums /\ new.views = V
    BY <1>2, <1>3
  <2>2. b = "Postgres" => \A v \in new.views : v.reads \in Tables(cat)
    BY <1>3, <2>1 DEF Sound
  <2>3. QED
    BY <2>1, <2>2, SameModelsSound
<1>4. CASE s.op = "create view"
  <2>1. PICK v : v = s.view
    OBVIOUS
  <2>2. new = CreateViewEffect(b, cat, v)
    BY <1>1, <1>4, <2>1 DEF Effect
  <2>3. CASE b = "Sqlite" /\ v.name \in Names(cat.views)
    <3>1. new = cat
      BY <2>2, <2>3 DEF CreateViewEffect
    <3>2. QED
      BY <1>1, <3>1
  <2>4. CASE ~(b = "Sqlite" /\ v.name \in Names(cat.views))
    <3> DEFINE y == v.materialized /\ b = "Postgres"
    <3>1. PICK w : w = [v EXCEPT !.materialized = y]
      OBVIOUS
    <3>2. PICK V : V = {x \in cat.views : x.name # v.name} \cup {w}
      OBVIOUS
    <3>3. new = [cat EXCEPT !.views = V]
      BY <2>2, <2>4, <3>1, <3>2 DEF CreateViewEffect
    <3>4. w.reads = v.reads
      <4>1. v = [name |-> v.name, reads |-> v.reads, sql |-> v.sql, materialized |-> v.materialized]
        BY <1>4, <2>1 DEF IsStatement
      <4> HIDE DEF y
      <4>2. w = [name |-> v.name, reads |-> v.reads, sql |-> v.sql, materialized |-> y]
        BY <3>1, <4>1, ViewParts
      <4>3. QED
        BY <4>2
    <3>5. b = "Postgres" => v.reads \in Tables(cat)
      <4>1. AcceptsCreateView(b, cat, v)
        BY <1>4, <2>1, AcceptsCreating
      <4>2. QED
        BY <4>1 DEF AcceptsCreateView, HasTable
    <3>6. QED
      BY <1>1, <1>3, <3>2, <3>3, <3>4, <3>5
  <2>5. QED
    BY <2>3, <2>4
<1>5. CASE s.op = "drop view"
  <2>1. PICK V : V = {v \in cat.views : v.name # s.name}
    OBVIOUS
  <2>2. new = [cat EXCEPT !.views = V]
    BY <1>1, <1>5, <2>1 DEF Effect
  <2>3. QED
    BY <1>1, <1>3, <2>1, <2>2
<1>6. QED
  BY <1>4, <1>5

LEMMA DropIndexSound ==
  ASSUME NEW b, NEW cat, IsSchema(cat), Sound(b, cat), NEW s, s.op = "drop index"
  PROVE  Sound(b, Effect(b, cat, s))
<1>1. PICK new : new = Effect(b, cat, s)
  OBVIOUS
<1> DEFINE f == [m \in cat.models |-> [m EXCEPT !.indexes = {i \in @ : i.constraint \/ i.name # s.name}]]
           M == {f[m] : m \in cat.models}
<1>2. new = [cat EXCEPT !.models = M]
  BY <1>1 DEF Effect
<1>3. ASSUME NEW m \in cat.models
      PROVE  f[m].table = m.table /\ f[m].columns = m.columns /\ f[m].keys = m.keys
  <2>1. IsModel(m)
    BY DEF IsSchema
  <2>2. DOMAIN m = {"table", "columns", "keys", "indexes"}
    BY <2>1 DEF IsModel
  <2>3. QED
    BY <2>2
<1> HIDE DEF f
<1>4. new.models = M /\ new.enums = cat.enums /\ new.views = cat.views
  <2>1. DOMAIN cat = {"models", "enums", "views"}
    BY DEF IsSchema
  <2> HIDE DEF M
  <2>2. QED
    BY <1>2, <2>1
<1>5. Tables(new) = Tables(cat)
  <2>1. ASSUME NEW x \in new.models PROVE x.table \in Tables(cat)
    <3>1. PICK m \in cat.models : x = f[m]
      BY <1>4
    <3>2. x.table = m.table
      BY <1>3, <3>1
    <3>3. QED
      BY <3>2 DEF Tables
  <2>2. ASSUME NEW m \in cat.models PROVE m.table \in Tables(new)
    <3>1. f[m] \in new.models /\ f[m].table = m.table
      BY <1>3, <1>4
    <3>2. QED
      BY <3>1 DEF Tables
  <2>3. QED
    BY <2>1, <2>2 DEF Tables
<1>6. ASSUME NEW m \in cat.models PROVE ModelSound(b, Tables(new), Names(new.enums), f[m])
  <2>1. ModelSound(b, Tables(cat), Names(cat.enums), m)
    BY DEF Sound
  <2>2. QED
    BY <1>3, <1>4, <1>5, <2>1 DEF ModelSound
<1>7. \A m \in new.models : ModelSound(b, Tables(new), Names(new.enums), m)
  BY <1>4, <1>6
<1>8. Sound(b, new)
  BY <1>4, <1>5, <1>7 DEF Sound
<1>9. QED
  BY <1>1, <1>8

(* Every statement that is accepted. *)
LEMMA EffectSound ==
  ASSUME NEW b \in Backends, NEW cat, IsSchema(cat), Sound(b, cat),
         NEW s, IsStatement(s), s.op \in AllOps, Accepts(b, cat, s)
  PROVE  Sound(b, Effect(b, cat, s))
<1>1. PICK new : new = Effect(b, cat, s)
  OBVIOUS
<1>2. CASE s.op \in AlteringOps
  <2>1. PICK m, r : m = ModelOf(cat, s.table) /\ r = TableEffect(b, m, s)
    OBVIOUS
  <2>2. /\ s.table \in Tables(cat)
        /\ s.op \in {"alter column", "add default"} => s.name \in Names(m.columns)
    BY <1>2, <2>1, AlteredTableExists DEF HasTable
  <2>3. m \in cat.models /\ m.table = s.table
    BY <2>1, <2>2, ModelOfFacts
  <2>4. IsModel(m) /\ ModelSound(b, Tables(cat), Names(cat.enums), m)
    BY <2>3 DEF IsSchema, Sound
  <2>5. IsModel(TableEffect(b, m, s)) /\ TableEffect(b, m, s).table = m.table
    BY <1>2, <2>2, <2>4, TableEffectFacts
  <2>6. ModelSound(b, Tables(cat), Names(cat.enums), TableEffect(b, m, s))
    BY <1>2, <2>2, <2>4, TableEffectSound
  <2>7. ModelSound(b, Tables(cat) \cup {r.table}, Names(cat.enums), r) /\ IsModel(r)
    BY <2>1, <2>5, <2>6 DEF ModelSound
  <2>8. Sound(b, WithModel(cat, r))
    BY <2>7, WithModelSound
  <2>9. new = WithModel(cat, r)
    BY <1>1, <1>2, <2>1 DEF Effect, AlteringOps
  <2>10. QED
    BY <1>1, <2>8, <2>9
<1>3. CASE s.op = "create table"
  <2>1. PICK m, r : m = s.model /\ r = StoredModel(b, s.model)
    OBVIOUS
  <2>2. IsModel(m)
    BY <1>3, <2>1 DEF IsStatement
  <2>3. IsModel(r) /\ r.table = m.table
    BY <2>1, <2>2, StoredModelIsModel
  <2>4. r.keys = m.keys /\ r.columns = {Stored(b, c) : c \in m.columns}
    <3>1. DOMAIN m = {"table", "columns", "keys", "indexes"}
      BY <2>2 DEF IsModel
    <3>2. QED
      BY <2>1, <3>1 DEF StoredModel
  <2>5. AcceptsCreateTable(b, cat, m)
    BY <1>3, <2>1, AcceptsCreating
  <2>6. b # "Sqlite" => \A k \in m.keys : k.table \in Tables(cat) \/ k.table = m.table
    BY <2>5 DEF AcceptsCreateTable, HasTable
  <2>7. ASSUME NEW c \in m.columns
        PROVE  Stored(b, c).enum # Absent => b = "Postgres" /\ Stored(b, c).enum \in Names(cat.enums)
    <3>1. IsColumn(c)
      BY <2>2 DEF IsModel
    <3>2. Stored(b, c).enum = IF b = "Postgres" THEN c.enum ELSE Absent
      BY <3>1, StoredEnum
    <3>3. b = "Postgres" /\ c.enum # Absent => c.enum \in Names(cat.enums)
      BY <2>5 DEF AcceptsCreateTable, TypeKnown
    <3>4. QED
      BY <3>2, <3>3
  <2>8. \A c \in r.columns : c.enum # Absent => b = "Postgres" /\ c.enum \in Names(cat.enums)
    BY <2>4, <2>7
  <2>9. ModelSound(b, Tables(cat) \cup {r.table}, Names(cat.enums), r)
    BY <2>3, <2>4, <2>6, <2>8 DEF ModelSound
  <2>10. Sound(b, WithModel(cat, r))
    BY <2>3, <2>9, WithModelSound
  <2>11. new = WithModel(cat, r)
    BY <1>1, <1>3, <2>1 DEF Effect, StoredModel
  <2>12. QED
    BY <1>1, <2>10, <2>11
<1>4. CASE s.op = "drop table"
  <2>1. AcceptsDropTable(b, cat, s.table)
    BY <1>4, Zenon DEF Accepts
  <2>2. Effect(b, cat, s) = DropTableEffect(b, cat, s.table)
    BY <1>4 DEF Effect
  <2>3. Sound(b, DropTableEffect(b, cat, s.table))
    BY <2>1, DropTableSound
  <2>4. QED
    BY <2>2, <2>3, Zenon
<1>5. CASE s.op = "drop index"
  BY <1>5, DropIndexSound
<1>6. CASE s.op \in {"create type", "drop type", "add values"}
  BY <1>6, TypesSound
<1>7. CASE s.op \in {"create view", "drop view"}
  BY <1>7, ViewsSound
<1>8. QED
  BY <1>2, <1>3, <1>4, <1>5, <1>6, <1>7 DEF AllOps, AddingOps, DroppingOps, AlteringOps


---------------------------------------------------------------------------
(* What a creating script adds *)

(* A difference that only creates, beside what is there. *)
IsCreation(b, be, d) ==
  /\ \A m \in d.createModels : m.table \notin Tables(be)
  /\ \A m \in d.createModels : Names(m.indexes) \cap IndexNames(be) = {}
  /\ HasTypes(b) => Names(d.createEnums) \cap Names(be.enums) = {}
  /\ Names(d.createViews) \cap Names(be.views) = {}
  /\ \A x \in d.createIndexes : \E m \in d.createModels : \E i \in m.indexes :
       ~i.unique /\ x = [table |-> m.table, index |-> i]
  /\ \A m \in d.createModels : IsModel(m)
  /\ \A m, n \in d.createModels : m.table = n.table => m = n
  /\ \A m \in d.createModels : \A i \in m.indexes : IsIndex(i) /\ ~i.constraint
  /\ \A m, n \in d.createModels : \A i \in m.indexes, j \in n.indexes : i.name = j.name => i = j
  /\ \A e \in d.createEnums : e.name # Absent
  /\ \A v, w \in d.createViews : v.name = w.name => v = w
  /\ \A v \in d.createViews :
       /\ v = [name |-> v.name, reads |-> v.reads, sql |-> v.sql, materialized |-> v.materialized]
       /\ v.materialized \in BOOLEAN

LEMMA CreationIsNew ==
  ASSUME NEW b, NEW cat, NEW src, NEW e, NEW d, EditIsGood(e), NamesApart(e.to),
         Creations(src, e.to, d), Found(b, cat, src, e.to), Names(d.createViews) \cap Names(cat.views) = {}
  PROVE  IsCreation(b, cat, d)
<1>1. PICK to : to = e.to
  OBVIOUS
<1>2. IsSchema(to) /\ IsWellFormed(to) /\ NamesApart(to) /\ Creations(src, to, d) /\ Found(b, cat, src, to)
  BY <1>1 DEF EditIsGood
<1>3. \A m \in d.createModels : m \in to.models /\ m.table \notin Tables(cat) /\ IsModel(m)
  BY <1>2 DEF Creations, Found, IsSchema
<1>a. \A m, n \in d.createModels : m.table = n.table => m = n
  BY <1>2, <1>3 DEF IsSchema
<1>4. \A m \in d.createModels : Names(m.indexes) \cap IndexNames(cat) = {}
  BY <1>2 DEF Creations, Found
<1>5. HasTypes(b) => Names(d.createEnums) \cap Names(cat.enums) = {}
  <2>1. ASSUME HasTypes(b), NEW x \in d.createEnums PROVE x.name \notin Names(cat.enums)
    BY <1>2, <2>1 DEF HasTypes, Creations, Found
  <2>2. QED
    BY <2>1 DEF Names
<1>6. \A x \in d.createIndexes : \E m \in d.createModels : \E i \in m.indexes :
        ~i.unique /\ x = [table |-> m.table, index |-> i]
  BY <1>2 DEF Creations
<1>7. ASSUME NEW m \in d.createModels, NEW i \in m.indexes PROVE IsIndex(i) /\ ~i.constraint
  BY <1>2, <1>3 DEF IsWellFormed
<1>8. ASSUME NEW m \in d.createModels, NEW n \in d.createModels,
             NEW i \in m.indexes, NEW j \in n.indexes, i.name = j.name
      PROVE  i = j
  <2>1. m \in to.models /\ n \in to.models
    BY <1>3
  <2>2. m.table = n.table
    <3>1. i.name \in Names(m.indexes) /\ i.name \in Names(n.indexes)
      BY <1>8 DEF Names
    <3>2. QED
      BY <1>2, <2>1, <3>1 DEF NamesApart
  <2>3. m = n
    BY <1>2, <2>1, <2>2 DEF IsSchema
  <2>4. QED
    BY <1>2, <1>8, <2>1, <2>3 DEF IsWellFormed
<1>9. \A x \in d.createEnums : x.name # Absent
  BY <1>2 DEF Creations, IsWellFormed
<1>10. \A v \in d.createViews : v \in to.views
  BY <1>2 DEF Creations
<1>11. \A v, w \in d.createViews : v.name = w.name => v = w
  BY <1>2, <1>10 DEF IsWellFormed
<1>12. \A v \in d.createViews :
         /\ v = [name |-> v.name, reads |-> v.reads, sql |-> v.sql, materialized |-> v.materialized]
         /\ v.materialized \in BOOLEAN
  BY <1>2, <1>10 DEF IsWellFormed, IsSchema
<1>13. QED
  BY <1>3, <1>a, <1>4, <1>5, <1>6, <1>7, <1>8, <1>9, <1>11, <1>12 DEF IsCreation

(* What the catalog has beside what it had before. *)
NewTable(b, d, x) ==
  \E m \in d.createModels :
    /\ x.table = m.table /\ x.keys \subseteq m.keys /\ x.columns = ColumnsStored(b, m)
    /\ \A i \in x.indexes : i.constraint => i.name \in Names(Uniques(m))
NewType(b, d, e) == HasTypes(b) /\ e \in d.createEnums
NewView(b, d, v) == \E w \in d.createViews : v = StoredView(b, w)

Added(b, be, d, cat) ==
  /\ IsSchema(cat)
  /\ be.models \subseteq cat.models /\ \A x \in cat.models \ be.models : NewTable(b, d, x)
  /\ be.enums \subseteq cat.enums /\ \A e \in cat.enums \ be.enums : NewType(b, d, e)
  /\ be.views \subseteq cat.views /\ \A v \in cat.views \ be.views : NewView(b, d, v)

(* A new table as it is created has the constraints of its model. *)
LEMMA StoredIsNew ==
  ASSUME NEW b, NEW d, NEW m \in d.createModels, IsModel(m), \A i \in m.indexes : IsIndex(i)
  PROVE  NewTable(b, d, StoredModel(b, m))
<1>1. PICK x : x = StoredModel(b, m)
  OBVIOUS
<1>2. x.table = m.table /\ x.keys = m.keys /\ x.columns = ColumnsStored(b, m) /\ x.indexes = Constraints(m)
  <2>1. DOMAIN m = {"table", "columns", "keys", "indexes"}
    BY DEF IsModel
  <2>2. QED
    BY <1>1, <2>1 DEF StoredModel, ColumnsStored
<1>3. ASSUME NEW i \in Constraints(m) PROVE i.name \in Names(Uniques(m))
  <2>1. PICK j \in m.indexes : j.unique /\ i = [j EXCEPT !.constraint = TRUE]
    BY DEF Constraints
  <2>2. DOMAIN j = {"name", "columns", "unique", "constraint"}
    BY DEF IsIndex
  <2>3. i.name = j.name
    BY <2>1, <2>2
  <2>4. QED
    BY <2>1, <2>3 DEF Names, Uniques
<1>4. NewTable(b, d, x)
  BY <1>2, <1>3 DEF NewTable
<1>5. QED
  BY <1>1, <1>4

(* The statements one by one. *)
CreatesOneOf(b, d, s) ==
  \/ s.op = "create type" /\ NewType(b, d, s.enum)
  \/ s.op = "create table" /\ s.model \in d.createModels
  \/ s.op = "create index" /\ \E y \in d.createIndexes : s.table = y.table /\ s.index = y.index
  \/ s.op = "create view" /\ s.view \in d.createViews

LEMMA CreationsOneByOne ==
  ASSUME NEW b, NEW d, NEW s \in CreationsOf(b, d)
  PROVE  CreatesOneOf(b, d, s)
<1>1. CASE HasTypes(b) /\ s \in TypesOf(d)
  <2>1. PICK e \in d.createEnums : s = [op |-> "create type", enum |-> e]
    BY <1>1 DEF TypesOf
  <2>2. s.op = "create type" /\ s.enum = e
    BY <2>1
  <2>3. QED
    BY <1>1, <2>2 DEF CreatesOneOf, NewType
<1>2. CASE s \in TablesOf(d)
  <2>1. PICK m \in d.createModels : s = [op |-> "create table", model |-> m]
    BY <1>2 DEF TablesOf
  <2>2. s.op = "create table" /\ s.model = m
    BY <2>1
  <2>3. QED
    BY <2>2 DEF CreatesOneOf
<1>3. CASE s \in IndexesOf(d)
  <2>1. PICK y \in d.createIndexes : s = [op |-> "create index", table |-> y.table, index |-> y.index]
    BY <1>3 DEF IndexesOf
  <2>2. s.op = "create index" /\ s.table = y.table /\ s.index = y.index
    BY <2>1
  <2>3. QED
    BY <2>2 DEF CreatesOneOf
<1>4. CASE s \in ViewsOf(d)
  <2>1. PICK v \in d.createViews : s = [op |-> "create view", view |-> v]
    BY <1>4 DEF ViewsOf
  <2>2. s.op = "create view" /\ s.view = v
    BY <2>1
  <2>3. QED
    BY <2>2 DEF CreatesOneOf
<1>5. QED
  BY <1>1, <1>2, <1>3, <1>4 DEF CreationsOf

(* Each statement adds what the difference creates. *)
LEMMA CreatingAdds ==
  ASSUME NEW b \in Backends, NEW be, NEW d, IsCreation(b, be, d), NEW cat, Added(b, be, d, cat),
         NEW s \in CreationsOf(b, d), IsStatement(s), Accepts(b, cat, s), Fresh(cat, s)
  PROVE  Added(b, be, d, Effect(b, cat, s))
<1>1. PICK new : new = Effect(b, cat, s)
  OBVIOUS
<1>2. IsSchema(cat)
  BY DEF Added
<1>a. CreatesOneOf(b, d, s)
  BY CreationsOneByOne
<1>3. s.op \in CreatingOps
  BY <1>a DEF CreatesOneOf, CreatingOps
<1>4. CreatingMakes(b, cat, s, Effect(b, cat, s))
  BY <1>2, <1>3, CreatingEffect
<1>5. CreatingMakes(b, cat, s, new)
  BY <1>1, <1>4, Zenon
<1>6. IsSchema(new)
  <2>1. s.op \in AllOps
    BY <1>3 DEF CreatingOps, AllOps, AddingOps
  <2>2. IsSchema(Effect(b, cat, s))
    BY <1>2, <2>1, EffectFacts
  <2>3. QED
    BY <1>1, <2>2, Zenon
<1>7. CASE s.op = "create type"
  <2>1. new.models = cat.models /\ new.enums = cat.enums \cup {s.enum} /\ new.views = cat.views
    BY <1>5, <1>7 DEF CreatingMakes
  <2>2. NewType(b, d, s.enum)
    BY <1>7, <1>a DEF CreatesOneOf
  <2>3. Added(b, be, d, new)
    BY <1>6, <2>1, <2>2 DEF Added
  <2>4. QED
    BY <1>1, <2>3
<1>8. CASE s.op = "create table"
  <2>1. new.models = cat.models \cup {StoredModel(b, s.model)}
        /\ new.enums = cat.enums /\ new.views = cat.views
    BY <1>5, <1>8 DEF CreatingMakes
  <2>2. PICK m \in d.createModels : s.model = m
    BY <1>8, <1>a DEF CreatesOneOf
  <2>3. IsModel(m) /\ \A i \in m.indexes : IsIndex(i)
    BY DEF IsCreation
  <2>4. NewTable(b, d, StoredModel(b, s.model))
    BY <2>2, <2>3, StoredIsNew
  <2>5. Added(b, be, d, new)
    BY <1>6, <2>1, <2>4 DEF Added
  <2>6. QED
    BY <1>1, <2>5
<1>9. CASE s.op = "create index"
  <2>1. PICK x, r : x = ModelOf(cat, s.table) /\ r = WithIndex(x, s.index)
    OBVIOUS
  <2>2. /\ s.table \in Tables(cat) /\ new.models = Others(cat, s.table) \cup {r}
        /\ new.enums = cat.enums /\ new.views = cat.views
    BY <1>5, <1>9, <2>1 DEF CreatingMakes
  <2>3. x \in cat.models /\ x.table = s.table
    BY <2>1, <2>2, ModelOfFacts
  <2>4. PICK y \in d.createIndexes : s.table = y.table /\ s.index = y.index
    BY <1>9, <1>a DEF CreatesOneOf
  <2>5. PICK m \in d.createModels : \E i \in m.indexes : ~i.unique /\ y = [table |-> m.table, index |-> i]
    BY DEF IsCreation
  <2>6. s.table = m.table /\ s.index \in m.indexes
    BY <2>4, <2>5
  <2>7. m.table \notin Tables(be) /\ ~s.index.constraint
    BY <2>6 DEF IsCreation
  <2>8. \A z \in be.models : z.table # s.table
    BY <2>6, <2>7 DEF Tables
  <2>9. NewTable(b, d, x)
    BY <2>3, <2>8 DEF Added
  <2>10. r.table = x.table /\ r.keys = x.keys /\ r.columns = x.columns /\ r.indexes = x.indexes \cup {s.index}
    <3>1. IsModel(x)
      BY <1>2, <2>3 DEF IsSchema
    <3>2. DOMAIN x = {"table", "columns", "keys", "indexes"}
      BY <3>1 DEF IsModel
    <3>3. QED
      BY <2>1, <3>2 DEF WithIndex
  <2>11. NewTable(b, d, r)
    BY <2>7, <2>9, <2>10 DEF NewTable
  <2>12. be.models \subseteq new.models
    BY <2>2, <2>8 DEF Added, Others
  <2>13. \A z \in new.models \ be.models : NewTable(b, d, z)
    BY <2>2, <2>11 DEF Added, Others
  <2>14. Added(b, be, d, new)
    BY <1>6, <2>2, <2>12, <2>13 DEF Added
  <2>15. QED
    BY <1>1, <2>14
<1>10. CASE s.op = "create view"
  <2>1. new.models = cat.models /\ new.enums = cat.enums
        /\ new.views = cat.views \cup {StoredView(b, s.view)}
    BY <1>5, <1>10 DEF CreatingMakes
  <2>2. s.view \in d.createViews
    BY <1>10, <1>a DEF CreatesOneOf
  <2>3. NewView(b, d, StoredView(b, s.view))
    BY <2>2 DEF NewView
  <2>4. Added(b, be, d, new)
    BY <1>6, <2>1, <2>3 DEF Added
  <2>5. QED
    BY <1>1, <2>4
<1>11. QED
  BY <1>3, <1>7, <1>8, <1>9, <1>10 DEF CreatingOps


---------------------------------------------------------------------------
(* The down script *)

(* The statements that take back what was created. *)
DropTablesOf(d) == {DropTable(m.table) : m \in d.createModels}
DropIndexesOf(d) == {DropIndex(x.table, x.index.name) : x \in d.createIndexes}
DropViewsOf(d) == {DropView(v.name, v.materialized) : v \in d.createViews}
DropTypesOf(d) == {DropType(e.name) : e \in d.createEnums}

DropsOf(b, d) ==
  DropTablesOf(d) \cup DropIndexesOf(d) \cup DropViewsOf(d)
  \cup (IF HasTypes(b) THEN DropTypesOf(d) ELSE {})

(* A table is dropped after those of M that refer to it. *)
ChildrenDropped(M, q) ==
  \A p \in 1..Len(q) : q[p].op = "drop table" =>
    \A m \in M : m.table # q[p].table /\ (\E k \in m.keys : k.table = q[p].table) =>
      \E r \in 1..(p - 1) : q[r] = DropTable(m.table)

IsDownOf(b, d, q, cyclic) ==
  /\ q \in Seq(DropsOf(b, d)) /\ Elements(q) = DropsOf(b, d)
  /\ b \in {"MySql", "Mssql"} /\ ~cyclic => ChildrenDropped(d.createModels, q)

(* Positions in two sequences put together. *)
LEMMA PositionSplits ==
  ASSUME NEW a \in Nat, NEW c \in Nat, NEW i \in 1..a + c
  PROVE  IF i <= a THEN i \in 1..a ELSE i - a \in 1..c
OBVIOUS

LEMMA PositionBefore ==
  ASSUME NEW a \in Nat, NEW c \in Nat, NEW i \in 1..a, NEW r \in 1..(i - 1)
  PROVE  r \in 1..a + c /\ r <= a
OBVIOUS

LEMMA FunctionIsSeq ==
  ASSUME NEW n \in Nat, NEW R, NEW q \in [1..n -> R]
  PROVE  q \in Seq(R)
OBVIOUS

(* One statement for each element, be they different or not. *)
LEMMA EachOfSet ==
  ASSUME NEW S, IsFiniteSet(S), NEW q, q = [i \in 1..Cardinality(S) |-> q[i]],
         NEW f, \A i \in 1..Cardinality(S) : q[i] = f[SetToSeq(S)[i]]
  PROVE  q \in Seq(Mapped(f, S)) /\ Elements(q) = Mapped(f, S)
<1>1. PICK l, n : l = SetToSeq(S) /\ n = Cardinality(S)
  OBVIOUS
<1>2. l \in Listings(S)
  BY <1>1, SetToSeqIsListing
<1>3. Elements(l) = S /\ n \in Nat /\ l \in Seq(S) /\ l \in [1..n -> S]
  BY <1>1, <1>2, ListingProperties, FS_CardinalityType DEF Listings
<1>4. Len(l) = n
  BY <1>3, LenProperties
<1>5. Len(q) = n
  BY <1>1, <1>3, LenOfFunction
<1>6. \A i \in 1..n : q[i] = f[l[i]] /\ l[i] \in S
  BY <1>1, <1>3
<1>7. \A x \in S : \E i \in 1..n : l[i] = x
  BY <1>3, <1>4 DEF Elements
<1>8. Elements(q) = {q[i] : i \in 1..n}
  BY <1>5 DEF Elements
<1>9. \A i \in 1..n : q[i] \in Mapped(f, S)
  BY <1>6 DEF Mapped
<1>10. ASSUME NEW s \in Mapped(f, S) PROVE s \in Elements(q)
  <2>1. PICK x \in S : s = f[x]
    BY DEF Mapped
  <2>2. PICK i \in 1..n : l[i] = x
    BY <1>7
  <2>3. s = q[i]
    BY <1>6, <2>1, <2>2
  <2>4. QED
    BY <1>8, <2>3
<1>11. Elements(q) = Mapped(f, S)
  BY <1>8, <1>9, <1>10
<1>12. q = [i \in 1..n |-> q[i]]
  BY <1>1
<1>13. q \in Seq(Mapped(f, S))
  <2>1. PICK R : R = Mapped(f, S)
    OBVIOUS
  <2>2. q \in [1..n -> R]
    BY <1>9, <1>12, <2>1
  <2>3. n \in Nat
    BY <1>3
  <2>4. q \in Seq(R)
    BY <2>2, <2>3, FunctionIsSeq
  <2>5. QED
    BY <2>1, <2>4
<1>14. QED
  BY <1>11, <1>13

(* The four lists of the down script. *)
LEMMA DropTypesEach ==
  ASSUME NEW d, IsFiniteSet(d.createEnums)
  PROVE  EnumsDown(d) \in Seq(DropTypesOf(d)) /\ Elements(EnumsDown(d)) = DropTypesOf(d)
<1>1. PICK S, f, q : S = d.createEnums /\ f = [x \in S |-> DropType(x.name)] /\ q = EnumsDown(d)
  OBVIOUS
<1>2. SetToSeq(S) \in [1..Cardinality(S) -> S]
  BY <1>1, SetToSeqFacts
<1>3. q = [i \in 1..Cardinality(S) |-> DropType(SetToSeq(S)[i].name)]
  BY <1>1 DEF EnumsDown, Each
<1>4. q = [i \in 1..Cardinality(S) |-> q[i]]
  BY <1>3
<1>5. \A i \in 1..Cardinality(S) : q[i] = f[SetToSeq(S)[i]]
  BY <1>1, <1>2, <1>3
<1>6. Mapped(f, S) = DropTypesOf(d)
  BY <1>1 DEF Mapped, DropTypesOf
<1>7. q \in Seq(Mapped(f, S)) /\ Elements(q) = Mapped(f, S)
  <2>1. IsFiniteSet(S)
    BY <1>1
  <2>2. QED
    BY <1>4, <1>5, <2>1, EachOfSet
<1>8. QED
  BY <1>1, <1>6, <1>7

LEMMA DropIndexesEach ==
  ASSUME NEW d, IsFiniteSet(d.createIndexes)
  PROVE  DropCreatedIndexes(d) \in Seq(DropIndexesOf(d)) /\ Elements(DropCreatedIndexes(d)) = DropIndexesOf(d)
<1>1. PICK S, f, q : /\ S = d.createIndexes /\ f = [x \in S |-> DropIndex(x.table, x.index.name)]
                     /\ q = DropCreatedIndexes(d)
  OBVIOUS
<1>2. SetToSeq(S) \in [1..Cardinality(S) -> S]
  BY <1>1, SetToSeqFacts
<1>3. q = [i \in 1..Cardinality(S) |-> DropIndex(SetToSeq(S)[i].table, SetToSeq(S)[i].index.name)]
  BY <1>1 DEF DropCreatedIndexes, Each
<1>4. q = [i \in 1..Cardinality(S) |-> q[i]]
  BY <1>3
<1>5. \A i \in 1..Cardinality(S) : q[i] = f[SetToSeq(S)[i]]
  BY <1>1, <1>2, <1>3
<1>6. Mapped(f, S) = DropIndexesOf(d)
  BY <1>1 DEF Mapped, DropIndexesOf
<1>7. q \in Seq(Mapped(f, S)) /\ Elements(q) = Mapped(f, S)
  <2>1. IsFiniteSet(S)
    BY <1>1
  <2>2. QED
    BY <1>4, <1>5, <2>1, EachOfSet
<1>8. QED
  BY <1>1, <1>6, <1>7

LEMMA DropViewsEach ==
  ASSUME NEW d, IsFiniteSet(d.createViews)
  PROVE  DropCreatedViews(d) \in Seq(DropViewsOf(d)) /\ Elements(DropCreatedViews(d)) = DropViewsOf(d)
<1>1. PICK S, f, q : /\ S = d.createViews /\ f = [x \in S |-> DropView(x.name, x.materialized)]
                     /\ q = DropCreatedViews(d)
  OBVIOUS
<1>2. SetToSeq(S) \in [1..Cardinality(S) -> S]
  BY <1>1, SetToSeqFacts
<1>3. q = [i \in 1..Cardinality(S) |-> DropView(SetToSeq(S)[i].name, SetToSeq(S)[i].materialized)]
  BY <1>1 DEF DropCreatedViews, Each
<1>4. q = [i \in 1..Cardinality(S) |-> q[i]]
  BY <1>3
<1>5. \A i \in 1..Cardinality(S) : q[i] = f[SetToSeq(S)[i]]
  BY <1>1, <1>2, <1>3
<1>6. Mapped(f, S) = DropViewsOf(d)
  BY <1>1 DEF Mapped, DropViewsOf
<1>7. q \in Seq(Mapped(f, S)) /\ Elements(q) = Mapped(f, S)
  <2>1. IsFiniteSet(S)
    BY <1>1
  <2>2. QED
    BY <1>4, <1>5, <2>1, EachOfSet
<1>8. QED
  BY <1>1, <1>6, <1>7

(* And the tables, as they were created but backwards. *)
LEMMA DropTablesEach ==
  ASSUME NEW d, NEW creates, Len(creates) \in Nat, Elements(creates) = d.createModels
  PROVE  /\ DropCreated(creates) \in Seq(DropTablesOf(d))
         /\ Len(DropCreated(creates)) = Len(creates)
         /\ Elements(DropCreated(creates)) = DropTablesOf(d)
<1>1. PICK q, n : q = DropCreated(creates) /\ n = Len(creates)
  OBVIOUS
<1>2. q = [i \in 1..n |-> DropTable(creates[n + 1 - i].table)]
  BY <1>1 DEF DropCreated
<1>3. q = [i \in 1..n |-> q[i]]
  BY <1>2
<1>4. Len(q) = n /\ n \in Nat
  BY <1>1, <1>3, LenOfFunction
<1>5. \A i \in 1..n : n + 1 - i \in 1..n /\ n + 1 - (n + 1 - i) = i
  BY <1>4
<1>6. \A m : m \in d.createModels <=> \E i \in 1..n : creates[i] = m
  BY <1>1 DEF Elements
<1>7. Elements(q) = {q[i] : i \in 1..n}
  BY <1>4 DEF Elements
<1>8. ASSUME NEW i \in 1..n PROVE q[i] \in DropTablesOf(d)
  <2>1. q[i] = DropTable(creates[n + 1 - i].table) /\ creates[n + 1 - i] \in d.createModels
    BY <1>2, <1>5, <1>6
  <2>2. QED
    BY <2>1 DEF DropTablesOf
<1>9. ASSUME NEW s \in DropTablesOf(d) PROVE s \in Elements(q)
  <2>1. PICK m \in d.createModels : s = DropTable(m.table)
    BY DEF DropTablesOf
  <2>2. PICK i \in 1..n : creates[i] = m
    BY <1>6
  <2>3. PICK j \in 1..n : n + 1 - j = i
    BY <1>5
  <2>4. s = q[j]
    BY <1>2, <2>1, <2>2, <2>3
  <2>5. QED
    BY <1>7, <2>4
<1>10. Elements(q) = DropTablesOf(d)
  BY <1>7, <1>8, <1>9
<1>11. q \in Seq(DropTablesOf(d))
  BY <1>3, <1>4, <1>8
<1>12. QED
  BY <1>1, <1>4, <1>10, <1>11

(* Tables come back in the reverse order of creation. *)
LEMMA DropCreatedInOrder ==
  ASSUME NEW d, NEW creates, InOrder(d, creates, FALSE), \A m, n \in d.createModels : m.table = n.table => m = n
  PROVE  ChildrenDropped(d.createModels, DropCreated(creates))
<1>1. PICK q, n : q = DropCreated(creates) /\ n = Len(creates)
  OBVIOUS
<1>2. n \in Nat /\ Elements(creates) = d.createModels /\ NoDuplicates(creates)
  BY <1>1 DEF InOrder
<1>3. Len(q) = n
  BY <1>1, <1>2, DropTablesEach
<1>4. q = [i \in 1..n |-> DropTable(creates[n + 1 - i].table)]
  BY <1>1 DEF DropCreated
<1>5. ASSUME NEW p \in 1..n, NEW m \in d.createModels, m.table # q[p].table,
             NEW k \in m.keys, k.table = q[p].table
      PROVE  \E r \in 1..(p - 1) : q[r] = DropTable(m.table)
  <2>1. PICK j \in 1..n : j = n + 1 - p
    BY <1>2
  <2>2. creates[j] \in d.createModels /\ q[p].table = creates[j].table
    <3>1. q[p] = DropTable(creates[j].table)
      BY <1>4, <2>1
    <3>2. creates[j] \in d.createModels
      BY <1>1, <1>2 DEF Elements
    <3>3. q[p].table = creates[j].table
      <4>1. PICK t : t = creates[j].table
        OBVIOUS
      <4>2. DropTable(t).table = t
        BY DEF DropTable
      <4>3. QED
        BY <3>1, <4>1, <4>2, Zenon
    <3>4. QED
      BY <3>2, <3>3
  <2>3. PICK i \in 1..n : creates[i] = m
    BY <1>1, <1>2 DEF Elements
  <2>4. k.table \in Tables([models |-> d.createModels])
    BY <1>5, <2>2 DEF Tables
  <2>5. PICK h \in 1..(i - 1) : creates[h].table = k.table
    BY <1>1, <1>5, <2>3, <2>4 DEF InOrder
  <2>6. h \in 1..n /\ h < i
    BY <1>2
  <2>7. creates[h] \in d.createModels
    BY <1>1, <1>2, <2>6 DEF Elements
  <2>8. creates[h] = creates[j]
    BY <1>5, <2>2, <2>5, <2>7
  <2>9. h = j
    BY <1>1, <1>2, <2>6, <2>8 DEF NoDuplicates
  <2>10. n + 1 - i \in 1..(p - 1) /\ n + 1 - i \in 1..n /\ n + 1 - (n + 1 - i) = i
    BY <1>2, <2>1, <2>6, <2>9
  <2>11. q[n + 1 - i] = DropTable(m.table)
    BY <1>4, <2>3, <2>10
  <2>12. QED
    BY <2>10, <2>11
<1>6. ChildrenDropped(d.createModels, q)
  BY <1>3, <1>5 DEF ChildrenDropped
<1>7. QED
  BY <1>1, <1>6

(* Statements about anything else may follow. *)
LEMMA ChildrenDroppedBefore ==
  ASSUME NEW M, NEW S, NEW p \in Seq(S), NEW q \in Seq(S), ChildrenDropped(M, p),
         \A s \in Elements(q) : s.op # "drop table"
  PROVE  ChildrenDropped(M, p \o q)
<1>1. PICK w : w = p \o q
  OBVIOUS
<1>2. /\ Len(p) \in Nat /\ Len(q) \in Nat /\ Len(w) = Len(p) + Len(q)
      /\ \A i \in 1..Len(p) + Len(q) : w[i] = IF i <= Len(p) THEN p[i] ELSE q[i - Len(p)]
  BY <1>1, ConcatProperties, LenProperties
<1>a. PICK a, c : a = Len(p) /\ c = Len(q) /\ a \in Nat /\ c \in Nat
  BY <1>2
<1>b. /\ Len(w) = a + c
      /\ \A i \in 1..a + c : w[i] = IF i <= a THEN p[i] ELSE q[i - a]
  BY <1>2, <1>a
<1>3. ASSUME NEW i \in 1..a + c, w[i].op = "drop table"
      PROVE  i \in 1..a /\ w[i] = p[i]
  <2>1. CASE i <= a
    <3>1. i \in 1..a
      BY <1>a, <2>1, PositionSplits
    <3>2. QED
      BY <1>b, <2>1, <3>1
  <2>2. CASE ~(i <= a)
    <3>1. i - a \in 1..c
      BY <1>a, <2>2, PositionSplits
    <3>2. w[i] = q[i - a]
      BY <1>b, <2>2
    <3>3. w[i] \in Elements(q)
      BY <1>a, <3>1, <3>2 DEF Elements
    <3>4. QED
      BY <1>3, <3>3
  <2>3. QED
    BY <2>1, <2>2
<1>4. ASSUME NEW i \in 1..a + c, w[i].op = "drop table",
             NEW m \in M, m.table # w[i].table, \E k \in m.keys : k.table = w[i].table
      PROVE  \E r \in 1..(i - 1) : w[r] = DropTable(m.table)
  <2>1. i \in 1..a /\ w[i] = p[i]
    BY <1>3, <1>4
  <2>2. PICK r \in 1..(i - 1) : p[r] = DropTable(m.table)
    BY <1>4, <1>a, <2>1 DEF ChildrenDropped
  <2>3. r \in 1..a + c /\ r <= a
    BY <1>a, <2>1, PositionBefore
  <2>4. w[r] = p[r]
    BY <1>b, <2>3
  <2>5. QED
    BY <2>2, <2>4
<1>5. ChildrenDropped(M, w)
  BY <1>4, <1>b DEF ChildrenDropped
<1>6. QED
  BY <1>1, <1>5

(* Turned around, a sequence has the same elements. *)
LEMMA ReverseElements ==
  ASSUME NEW S, NEW s \in Seq(S)
  PROVE  Reverse(s) \in Seq(S) /\ Elements(Reverse(s)) = Elements(s)
<1>1. PICK q, n : q = Reverse(s) /\ n = Len(s)
  OBVIOUS
<1>2. n \in Nat /\ \A i \in 1..n : s[i] \in S
  BY <1>1, LenProperties, ElementOfSeq
<1>3. q = [i \in 1..n |-> s[(n - i) + 1]]
  BY <1>1 DEF Reverse
<1>4. q = [i \in 1..n |-> q[i]]
  BY <1>3
<1>5. Len(q) = n
  BY <1>2, <1>4, LenOfFunction
<1>6. \A i \in 1..n : (n - i) + 1 \in 1..n /\ (n - ((n - i) + 1)) + 1 = i
  BY <1>2
<1>7. \A i \in 1..n : q[i] \in S
  BY <1>2, <1>3, <1>6
<1>8. q \in Seq(S)
  BY <1>2, <1>4, <1>7
<1>9. ASSUME NEW x \in Elements(q) PROVE x \in Elements(s)
  <2>1. PICK i \in 1..n : x = q[i]
    BY <1>5 DEF Elements
  <2>2. x = s[(n - i) + 1] /\ (n - i) + 1 \in 1..n
    BY <1>3, <1>6, <2>1
  <2>3. QED
    BY <1>1, <2>2 DEF Elements
<1>10. ASSUME NEW x \in Elements(s) PROVE x \in Elements(q)
  <2>1. PICK i \in 1..n : x = s[i]
    BY <1>1 DEF Elements
  <2>2. PICK j \in 1..n : (n - j) + 1 = i
    BY <1>6
  <2>3. x = q[j]
    BY <1>3, <2>1, <2>2
  <2>4. QED
    BY <1>5, <2>3 DEF Elements
<1>11. QED
  BY <1>1, <1>8, <1>9, <1>10

(* What a down script consists of. *)
LEMMA DownIsDown ==
  ASSUME NEW b \in Backends, NEW to, NEW d, IsDiff(to, d), IsSchema(to),
         NEW creates, NEW cyclic \in BOOLEAN, InOrder(d, creates, cyclic)
  PROVE  IsDownOf(b, d, Down(b, d, creates), cyclic)
<1>1. PICK C, I, V, T : /\ C = DropCreated(creates) /\ I = DropCreatedIndexes(d)
                        /\ V = DropCreatedViews(d) /\ T = EnumsDown(d)
  OBVIOUS
<1>2. PICK S, R : S = DropTablesOf(d) \cup DropIndexesOf(d) \cup DropViewsOf(d) /\ R = S \cup DropTypesOf(d)
  OBVIOUS
<1>3. /\ C \in Seq(DropTablesOf(d)) /\ Elements(C) = DropTablesOf(d)
      /\ I \in Seq(DropIndexesOf(d)) /\ Elements(I) = DropIndexesOf(d)
      /\ V \in Seq(DropViewsOf(d)) /\ Elements(V) = DropViewsOf(d)
      /\ T \in Seq(DropTypesOf(d)) /\ Elements(T) = DropTypesOf(d)
  <2>1. IsFiniteSet(d.createEnums) /\ IsFiniteSet(d.createIndexes) /\ IsFiniteSet(d.createViews)
    BY DEF IsDiff
  <2>2. C \in Seq(DropTablesOf(d)) /\ Elements(C) = DropTablesOf(d)
    <3>1. Len(creates) \in Nat /\ Elements(creates) = d.createModels
      BY DEF InOrder
    <3>2. QED
      BY <1>1, <3>1, DropTablesEach
  <2>3. I \in Seq(DropIndexesOf(d)) /\ Elements(I) = DropIndexesOf(d)
    BY <1>1, <2>1, DropIndexesEach
  <2>4. V \in Seq(DropViewsOf(d)) /\ Elements(V) = DropViewsOf(d)
    BY <1>1, <2>1, DropViewsEach
  <2>5. T \in Seq(DropTypesOf(d)) /\ Elements(T) = DropTypesOf(d)
    BY <1>1, <2>1, DropTypesEach
  <2>6. QED
    BY <2>2, <2>3, <2>4, <2>5
<1>4. C \in Seq(R) /\ I \in Seq(R) /\ V \in Seq(R) /\ T \in Seq(R) /\ C \in Seq(S) /\ I \in Seq(S) /\ V \in Seq(S)
  BY <1>2, <1>3
<1>5. PICK W, X : W = C \o I /\ X = W \o V
  OBVIOUS
<1>6. W \in Seq(S) /\ Elements(W) = Elements(C) \cup Elements(I)
  <2>1. Elements(C \o I) = Elements(C) \cup Elements(I)
    BY <1>4, ElementsOfConcat
  <2>2. QED
    BY <1>4, <1>5, <2>1, ConcatProperties
<1>7. X \in Seq(S) /\ Elements(X) = S
  <2>1. Elements(W \o V) = Elements(W) \cup Elements(V)
    BY <1>4, <1>6, ElementsOfConcat
  <2>2. X \in Seq(S)
    BY <1>4, <1>5, <1>6, ConcatProperties
  <2>3. QED
    BY <1>2, <1>3, <1>5, <1>6, <2>1, <2>2
<1>8. X = TablesDown(d, creates)
  BY <1>1, <1>5 DEF TablesDown
<1>9. CASE HasTypes(b)
  <2>1. PICK Y : Y = T \o X
    OBVIOUS
  <2>2. X \in Seq(R)
    BY <1>2, <1>7
  <2>3. Y \in Seq(R) /\ Elements(Y) = R
    <3>1. Elements(T \o X) = Elements(T) \cup Elements(X)
      BY <1>4, <2>2, ElementsOfConcat
    <3>2. Y \in Seq(R)
      BY <1>4, <2>1, <2>2, ConcatProperties
    <3>3. QED
      BY <1>2, <1>3, <1>7, <2>1, <3>1, <3>2
  <2>4. Reverse(Y) \in Seq(R) /\ Elements(Reverse(Y)) = R
    <3>1. Reverse(Y) \in Seq(R) /\ Elements(Reverse(Y)) = Elements(Y)
      BY <2>3, ReverseElements
    <3>2. QED
      BY <2>3, <3>1
  <2>5. Down(b, d, creates) = IF b = "Postgres" THEN Y ELSE Reverse(Y)
    BY <1>1, <1>8, <1>9, <2>1 DEF Down, PostgresDown, DuckDbDown, HasTypes
  <2>6. R = DropsOf(b, d)
    BY <1>2, <1>9 DEF DropsOf
  <2>7. b \notin {"MySql", "Mssql"}
    BY <1>9 DEF HasTypes
  <2>8. Down(b, d, creates) \in Seq(DropsOf(b, d)) /\ Elements(Down(b, d, creates)) = DropsOf(b, d)
    BY <2>3, <2>4, <2>5, <2>6
  <2>9. QED
    BY <2>7, <2>8 DEF IsDownOf
<1>10. CASE ~HasTypes(b)
  <2>1. Down(b, d, creates) = X
    BY <1>8, <1>10 DEF Down, HasTypes
  <2>2. S = DropsOf(b, d)
    BY <1>2, <1>10 DEF DropsOf
  <2>3. ASSUME ~cyclic PROVE ChildrenDropped(d.createModels, X)
    <3>1. ChildrenDropped(d.createModels, C)
      <4>1. InOrder(d, creates, FALSE)
        BY <2>3
      <4>2. \A m, n \in d.createModels : m.table = n.table => m = n
        BY DEF IsDiff, IsSchema
      <4>3. QED
        BY <1>1, <4>1, <4>2, DropCreatedInOrder
    <3>2. \A s \in Elements(I) : s.op # "drop table"
      <4>1. ASSUME NEW s \in Elements(I) PROVE s.op # "drop table"
        <5>1. PICK x \in d.createIndexes : s = [op |-> "drop index", table |-> x.table, name |-> x.index.name]
          BY <1>3 DEF DropIndexesOf, DropIndex
        <5>2. QED
          BY <5>1
      <4>2. QED
        BY <4>1
    <3>3. \A s \in Elements(V) : s.op # "drop table"
      <4>1. ASSUME NEW s \in Elements(V) PROVE s.op # "drop table"
        <5>1. PICK v \in d.createViews : s = [op |-> "drop view", name |-> v.name, materialized |-> v.materialized]
          BY <1>3 DEF DropViewsOf, DropView
        <5>2. QED
          BY <5>1
      <4>2. QED
        BY <4>1
    <3>4. ChildrenDropped(d.createModels, W)
      BY <1>4, <1>5, <3>1, <3>2, ChildrenDroppedBefore
    <3>5. ChildrenDropped(d.createModels, X)
      BY <1>4, <1>5, <1>6, <3>3, <3>4, ChildrenDroppedBefore
    <3>6. QED
      BY <3>5
  <2>4. IsDownOf(b, d, X, cyclic)
    BY <1>7, <2>2, <2>3 DEF IsDownOf
  <2>5. QED
    BY <2>1, <2>4
<1>11. QED
  BY <1>9, <1>10


---------------------------------------------------------------------------
(* What a down script takes back *)

(* The statements one by one. *)
DropsOneOf(b, d, s) ==
  \/ s.op = "drop table" /\ \E m \in d.createModels : s.table = m.table
  \/ s.op = "drop index" /\ \E x \in d.createIndexes : s.table = x.table /\ s.name = x.index.name
  \/ s.op = "drop view" /\ \E v \in d.createViews : s.name = v.name /\ s.materialized = v.materialized
  \/ s.op = "drop type" /\ HasTypes(b) /\ \E e \in d.createEnums : s.name = e.name

LEMMA DropsOneByOne ==
  ASSUME NEW b, NEW d, NEW s \in DropsOf(b, d)
  PROVE  DropsOneOf(b, d, s)
<1>1. CASE s \in DropTablesOf(d)
  <2>1. PICK m \in d.createModels : s = [op |-> "drop table", table |-> m.table]
    BY <1>1 DEF DropTablesOf, DropTable
  <2>2. s.op = "drop table" /\ s.table = m.table
    BY <2>1
  <2>3. QED
    BY <2>2 DEF DropsOneOf
<1>2. CASE s \in DropIndexesOf(d)
  <2>1. PICK x \in d.createIndexes : s = [op |-> "drop index", table |-> x.table, name |-> x.index.name]
    BY <1>2 DEF DropIndexesOf, DropIndex
  <2>2. s.op = "drop index" /\ s.table = x.table /\ s.name = x.index.name
    BY <2>1
  <2>3. QED
    BY <2>2 DEF DropsOneOf
<1>3. CASE s \in DropViewsOf(d)
  <2>1. PICK v \in d.createViews : s = [op |-> "drop view", name |-> v.name, materialized |-> v.materialized]
    BY <1>3 DEF DropViewsOf, DropView
  <2>2. s.op = "drop view" /\ s.name = v.name /\ s.materialized = v.materialized
    BY <2>1
  <2>3. QED
    BY <2>2 DEF DropsOneOf
<1>4. CASE HasTypes(b) /\ s \in DropTypesOf(d)
  <2>1. PICK e \in d.createEnums : s = [op |-> "drop type", name |-> e.name]
    BY <1>4 DEF DropTypesOf, DropType
  <2>2. s.op = "drop type" /\ s.name = e.name
    BY <2>1
  <2>3. QED
    BY <1>4, <2>2 DEF DropsOneOf
<1>5. QED
  BY <1>1, <1>2, <1>3, <1>4 DEF DropsOf

(* What is left of a table when another is dropped, or an index. *)
WithoutKeysTo(m, t) == [m EXCEPT !.keys = {k \in @ : k.table # t}]
WithoutIndex(m, n) == [m EXCEPT !.indexes = {i \in @ : i.constraint \/ i.name # n}]

LEMMA WithoutKeysToParts ==
  ASSUME NEW m, IsModel(m), NEW t
  PROVE  /\ WithoutKeysTo(m, t).table = m.table /\ WithoutKeysTo(m, t).columns = m.columns
         /\ WithoutKeysTo(m, t).indexes = m.indexes
         /\ WithoutKeysTo(m, t).keys = {k \in m.keys : k.table # t}
         /\ (\A k \in m.keys : k.table # t) => WithoutKeysTo(m, t) = m
<1>1. PICK K, r : K = {k \in m.keys : k.table # t} /\ r = WithoutKeysTo(m, t)
  OBVIOUS
<1>2. r = [m EXCEPT !.keys = K]
  BY <1>1 DEF WithoutKeysTo
<1>3. r = [table |-> m.table, columns |-> m.columns, keys |-> K, indexes |-> m.indexes]
  BY <1>2, ModelParts
<1>4. r.table = m.table /\ r.columns = m.columns /\ r.indexes = m.indexes /\ r.keys = K
  BY <1>3
<1>5. ASSUME \A k \in m.keys : k.table # t PROVE r = m
  <2>1. K = m.keys
    BY <1>1, <1>5
  <2>2. m = [table |-> m.table, columns |-> m.columns, keys |-> m.keys, indexes |-> m.indexes]
    BY DEF IsModel
  <2>3. QED
    BY <1>3, <2>1, <2>2
<1>6. QED
  BY <1>1, <1>4, <1>5

LEMMA WithoutIndexParts ==
  ASSUME NEW m, IsModel(m), NEW n
  PROVE  /\ WithoutIndex(m, n).table = m.table /\ WithoutIndex(m, n).columns = m.columns
         /\ WithoutIndex(m, n).keys = m.keys
         /\ WithoutIndex(m, n).indexes = {i \in m.indexes : i.constraint \/ i.name # n}
         /\ (\A i \in m.indexes : i.name # n) => WithoutIndex(m, n) = m
<1>1. PICK I, r : I = {i \in m.indexes : i.constraint \/ i.name # n} /\ r = WithoutIndex(m, n)
  OBVIOUS
<1>2. r = [m EXCEPT !.indexes = I]
  BY <1>1 DEF WithoutIndex
<1>3. r = [table |-> m.table, columns |-> m.columns, keys |-> m.keys, indexes |-> I]
  BY <1>2, ModelParts
<1>4. r.table = m.table /\ r.columns = m.columns /\ r.keys = m.keys /\ r.indexes = I
  BY <1>3
<1>5. ASSUME \A i \in m.indexes : i.name # n PROVE r = m
  <2>1. I = m.indexes
    BY <1>1, <1>5
  <2>2. m = [table |-> m.table, columns |-> m.columns, keys |-> m.keys, indexes |-> m.indexes]
    BY DEF IsModel
  <2>3. QED
    BY <1>3, <2>1, <2>2
<1>6. QED
  BY <1>1, <1>4, <1>5

(* What the statements that drop make of the catalog. *)
DroppingMakes(b, cat, s, new) ==
  /\ s.op = "drop table" /\ b = "Postgres" /\ s.table \in Tables(cat) =>
       /\ new.models = {WithoutKeysTo(m, s.table) : m \in Others(cat, s.table)}
       /\ new.enums = cat.enums
       /\ new.views = {v \in cat.views : v.reads # s.table}
  /\ s.op = "drop table" /\ ~(b = "Postgres" /\ s.table \in Tables(cat)) =>
       new.models = Others(cat, s.table) /\ new.enums = cat.enums /\ new.views = cat.views
  /\ s.op = "drop index" =>
       /\ new.models = {WithoutIndex(m, s.name) : m \in cat.models}
       /\ new.enums = cat.enums /\ new.views = cat.views
  /\ s.op = "drop view" =>
       /\ new.models = cat.models /\ new.enums = cat.enums
       /\ new.views = {v \in cat.views : v.name # s.name}
  /\ s.op = "drop type" =>
       /\ new.models = cat.models /\ new.views = cat.views
       /\ new.enums = {e \in cat.enums : e.name # s.name}

LEMMA DropsMake ==
  ASSUME NEW b, NEW cat, IsSchema(cat), NEW s
  PROVE  DroppingMakes(b, cat, s, Effect(b, cat, s))
<1>1. PICK new : new = Effect(b, cat, s)
  OBVIOUS
<1>2. DOMAIN cat = {"models", "enums", "views"}
  BY DEF IsSchema
<1>3. ASSUME s.op = "drop table", b = "Postgres", s.table \in Tables(cat)
      PROVE  /\ new.models = {WithoutKeysTo(m, s.table) : m \in Others(cat, s.table)}
             /\ new.enums = cat.enums
             /\ new.views = {v \in cat.views : v.reads # s.table}
  <2>1. PICK M, V : /\ M = {WithoutKeysTo(m, s.table) : m \in Others(cat, s.table)}
                    /\ V = {v \in cat.views : v.reads # s.table}
    OBVIOUS
  <2>2. new = DropTableEffect(b, cat, s.table)
    BY <1>1, <1>3 DEF Effect
  <2>3. new = [cat EXCEPT !.models = M, !.views = V]
    BY <1>3, <2>1, <2>2 DEF DropTableEffect, HasTable, WithoutKeysTo, Others
  <2>4. new.models = M /\ new.enums = cat.enums /\ new.views = V
    BY <1>2, <2>3
  <2>5. QED
    BY <2>1, <2>4
<1>4. ASSUME s.op = "drop table", ~(b = "Postgres" /\ s.table \in Tables(cat))
      PROVE  new.models = Others(cat, s.table) /\ new.enums = cat.enums /\ new.views = cat.views
  <2>1. PICK M : M = Others(cat, s.table)
    OBVIOUS
  <2>2. new = DropTableEffect(b, cat, s.table)
    BY <1>1, <1>4 DEF Effect
  <2>3. new = [cat EXCEPT !.models = M]
    BY <1>4, <2>1, <2>2 DEF DropTableEffect, HasTable, Others
  <2>4. new.models = M /\ new.enums = cat.enums /\ new.views = cat.views
    BY <1>2, <2>3
  <2>5. QED
    BY <2>1, <2>4
<1>5. ASSUME s.op = "drop index"
      PROVE  /\ new.models = {WithoutIndex(m, s.name) : m \in cat.models}
             /\ new.enums = cat.enums /\ new.views = cat.views
  <2>1. PICK M : M = {WithoutIndex(m, s.name) : m \in cat.models}
    OBVIOUS
  <2>2. new = [cat EXCEPT !.models = M]
    BY <1>1, <1>5, <2>1 DEF Effect, WithoutIndex
  <2>3. new.models = M /\ new.enums = cat.enums /\ new.views = cat.views
    BY <1>2, <2>2
  <2>4. QED
    BY <2>1, <2>3
<1>6. ASSUME s.op = "drop view"
      PROVE  /\ new.models = cat.models /\ new.enums = cat.enums
             /\ new.views = {v \in cat.views : v.name # s.name}
  <2>1. PICK V : V = {v \in cat.views : v.name # s.name}
    OBVIOUS
  <2>2. new = [cat EXCEPT !.views = V]
    BY <1>1, <1>6, <2>1 DEF Effect
  <2>3. new.models = cat.models /\ new.enums = cat.enums /\ new.views = V
    BY <1>2, <2>2
  <2>4. QED
    BY <2>1, <2>3
<1>7. ASSUME s.op = "drop type"
      PROVE  /\ new.models = cat.models /\ new.views = cat.views
             /\ new.enums = {e \in cat.enums : e.name # s.name}
  <2>1. PICK E : E = {e \in cat.enums : e.name # s.name}
    OBVIOUS
  <2>2. new = [cat EXCEPT !.enums = E]
    BY <1>1, <1>7, <2>1 DEF Effect
  <2>3. new.models = cat.models /\ new.enums = E /\ new.views = cat.views
    BY <1>2, <2>2
  <2>4. QED
    BY <2>1, <2>3
<1>8. DroppingMakes(b, cat, s, new)
  BY <1>3, <1>4, <1>5, <1>6, <1>7 DEF DroppingMakes
<1>9. QED
  BY <1>1, <1>8, Zenon

(* Nothing is new and what the statement names is gone. *)
Fewer(cat, new, s) ==
  /\ \A x \in new.models :
       /\ s.op = "drop table" => s.table # x.table
       /\ \E y \in cat.models : y.table = x.table /\ x.keys \subseteq y.keys
  /\ new.enums \subseteq cat.enums
  /\ \A e \in new.enums : s.op = "drop type" => s.name # e.name
  /\ new.views \subseteq cat.views
  /\ \A v \in new.views : s.op = "drop view" => s.name # v.name

UndoingOps == {"drop table", "drop index", "drop view", "drop type"}

LEMMA DropsMakeFewer ==
  ASSUME NEW b, NEW cat, IsSchema(cat), NEW s, s.op \in UndoingOps
  PROVE  Fewer(cat, Effect(b, cat, s), s)
<1>1. PICK new : new = Effect(b, cat, s)
  OBVIOUS
<1>a. DroppingMakes(b, cat, s, Effect(b, cat, s))
  BY DropsMake
<1>2. DroppingMakes(b, cat, s, new)
  BY <1>1, <1>a, Zenon
<1>b. \A m \in cat.models : IsModel(m)
  BY DEF IsSchema
<1>3. CASE s.op = "drop table" /\ b = "Postgres" /\ s.table \in Tables(cat)
  <2>1. /\ new.models = {WithoutKeysTo(m, s.table) : m \in Others(cat, s.table)}
        /\ new.enums = cat.enums /\ new.views \subseteq cat.views
    BY <1>2, <1>3 DEF DroppingMakes
  <2>2. ASSUME NEW x \in new.models
        PROVE  s.table # x.table /\ \E y \in cat.models : y.table = x.table /\ x.keys \subseteq y.keys
    <3>1. PICK m \in Others(cat, s.table) : x = WithoutKeysTo(m, s.table)
      BY <2>1
    <3>2. m \in cat.models /\ m.table # s.table
      BY DEF Others
    <3>3. x.table = m.table /\ x.keys \subseteq m.keys
      BY <1>b, <3>1, <3>2, WithoutKeysToParts
    <3>4. QED
      BY <3>2, <3>3
  <2>3. Fewer(cat, new, s)
    BY <1>3, <2>1, <2>2 DEF Fewer
  <2>4. QED
    BY <1>1, <2>3
<1>4. CASE s.op = "drop table" /\ ~(b = "Postgres" /\ s.table \in Tables(cat))
  <2>1. new.models = Others(cat, s.table) /\ new.enums = cat.enums /\ new.views = cat.views
    BY <1>2, <1>4 DEF DroppingMakes
  <2>2. Fewer(cat, new, s)
    BY <1>4, <2>1 DEF Fewer, Others
  <2>3. QED
    BY <1>1, <2>2
<1>5. CASE s.op = "drop index"
  <2>1. /\ new.models = {WithoutIndex(m, s.name) : m \in cat.models}
        /\ new.enums = cat.enums /\ new.views = cat.views
    BY <1>2, <1>5 DEF DroppingMakes
  <2>2. ASSUME NEW x \in new.models
        PROVE  \E y \in cat.models : y.table = x.table /\ x.keys \subseteq y.keys
    <3>1. PICK m \in cat.models : x = WithoutIndex(m, s.name)
      BY <2>1
    <3>2. x.table = m.table /\ x.keys = m.keys
      BY <1>b, <3>1, WithoutIndexParts
    <3>3. QED
      BY <3>2
  <2>3. Fewer(cat, new, s)
    BY <1>5, <2>1, <2>2 DEF Fewer
  <2>4. QED
    BY <1>1, <2>3
<1>6. CASE s.op = "drop view"
  <2>1. /\ new.models = cat.models /\ new.enums = cat.enums
        /\ new.views = {v \in cat.views : v.name # s.name}
    BY <1>2, <1>6 DEF DroppingMakes
  <2>2. Fewer(cat, new, s)
    BY <1>6, <2>1 DEF Fewer
  <2>3. QED
    BY <1>1, <2>2
<1>7. CASE s.op = "drop type"
  <2>1. /\ new.models = cat.models /\ new.views = cat.views
        /\ new.enums = {e \in cat.enums : e.name # s.name}
    BY <1>2, <1>7 DEF DroppingMakes
  <2>2. Fewer(cat, new, s)
    BY <1>7, <2>1 DEF Fewer
  <2>3. QED
    BY <1>1, <2>2
<1>8. QED
  BY <1>3, <1>4, <1>5, <1>6, <1>7 DEF UndoingOps

(* What was there before stays. *)
LEMMA DroppingKeepsBefore ==
  ASSUME NEW b \in Backends, NEW be, IsSchema(be), Sound(b, be), NEW d, IsCreation(b, be, d),
         NEW cat, Added(b, be, d, cat), NEW s \in DropsOf(b, d), Accepts(b, cat, s)
  PROVE  Added(b, be, d, Effect(b, cat, s))
<1>1. PICK new : new = Effect(b, cat, s)
  OBVIOUS
<1>2. IsSchema(cat)
  BY DEF Added
<1>3. DropsOneOf(b, d, s)
  BY DropsOneByOne
<1>4. s.op \in UndoingOps
  BY <1>3 DEF DropsOneOf, UndoingOps
<1>5. IsSchema(new)
  <2>1. IsStatement(s) /\ s.op \in AllOps
    BY <1>4 DEF UndoingOps, IsStatement, AllOps, DroppingOps
  <2>2. IsSchema(Effect(b, cat, s))
    BY <1>2, <2>1, EffectFacts
  <2>3. QED
    BY <1>1, <2>2, Zenon
<1>6. DroppingMakes(b, cat, s, new)
  <2>1. DroppingMakes(b, cat, s, Effect(b, cat, s))
    BY <1>2, DropsMake
  <2>2. QED
    BY <1>1, <2>1, Zenon
<1>b. /\ \A m \in cat.models : IsModel(m)
      /\ \A m \in be.models : IsModel(m)
  BY <1>2 DEF IsSchema
<1>c. /\ be.models \subseteq cat.models /\ \A x \in cat.models \ be.models : NewTable(b, d, x)
      /\ be.enums \subseteq cat.enums /\ \A e \in cat.enums \ be.enums : NewType(b, d, e)
      /\ be.views \subseteq cat.views /\ \A v \in cat.views \ be.views : NewView(b, d, v)
  BY DEF Added
<1>7. CASE s.op = "drop table" /\ b = "Postgres" /\ s.table \in Tables(cat)
  <2>1. PICK t : t = s.table
    OBVIOUS
  <2>2. /\ new.models = {WithoutKeysTo(m, t) : m \in Others(cat, t)}
        /\ new.enums = cat.enums /\ new.views = {v \in cat.views : v.reads # t}
    BY <1>6, <1>7, <2>1 DEF DroppingMakes
  <2>3. t \notin Tables(be)
    BY <1>3, <1>7, <2>1 DEF DropsOneOf, IsCreation
  <2>4. ASSUME NEW z \in be.models PROVE z.table # t /\ WithoutKeysTo(z, t) = z
    <3>1. z.table # t
      BY <2>3 DEF Tables
    <3>2. ModelSound(b, Tables(be), Names(be.enums), z)
      BY DEF Sound
    <3>3. \A k \in z.keys : k.table # t
      BY <1>7, <2>3, <3>2 DEF ModelSound
    <3>4. QED
      BY <1>b, <3>1, <3>3, WithoutKeysToParts
  <2>5. be.models \subseteq new.models
    BY <1>c, <2>2, <2>4 DEF Others
  <2>6. ASSUME NEW x \in new.models \ be.models PROVE NewTable(b, d, x)
    <3>1. PICK m \in Others(cat, t) : x = WithoutKeysTo(m, t)
      BY <2>2
    <3>2. m \in cat.models /\ m \notin be.models
      BY <2>4, <3>1 DEF Others
    <3>3. NewTable(b, d, m)
      BY <1>c, <3>2
    <3>4. x.table = m.table /\ x.columns = m.columns /\ x.indexes = m.indexes /\ x.keys \subseteq m.keys
      BY <1>b, <3>1, <3>2, WithoutKeysToParts
    <3>5. QED
      BY <3>3, <3>4 DEF NewTable
  <2>7. be.views \subseteq new.views
    BY <1>7, <1>c, <2>2, <2>3 DEF Sound
  <2>8. Added(b, be, d, new)
    BY <1>5, <1>c, <2>2, <2>5, <2>6, <2>7 DEF Added
  <2>9. QED
    BY <1>1, <2>8
<1>8. CASE s.op = "drop table" /\ ~(b = "Postgres" /\ s.table \in Tables(cat))
  <2>1. new.models = Others(cat, s.table) /\ new.enums = cat.enums /\ new.views = cat.views
    BY <1>6, <1>8 DEF DroppingMakes
  <2>2. s.table \notin Tables(be)
    BY <1>3, <1>8 DEF DropsOneOf, IsCreation
  <2>3. be.models \subseteq new.models
    BY <1>c, <2>1, <2>2 DEF Others, Tables
  <2>4. \A x \in new.models \ be.models : NewTable(b, d, x)
    BY <1>c, <2>1 DEF Others
  <2>5. Added(b, be, d, new)
    BY <1>5, <1>c, <2>1, <2>3, <2>4 DEF Added
  <2>6. QED
    BY <1>1, <2>5
<1>9. CASE s.op = "drop index"
  <2>1. PICK n : n = s.name
    OBVIOUS
  <2>2. /\ new.models = {WithoutIndex(m, n) : m \in cat.models}
        /\ new.enums = cat.enums /\ new.views = cat.views
    BY <1>6, <1>9, <2>1 DEF DroppingMakes
  <2>3. n \notin IndexNames(be)
    <3>1. PICK y \in d.createIndexes : n = y.index.name
      BY <1>3, <1>9, <2>1 DEF DropsOneOf
    <3>2. PICK m \in d.createModels : \E i \in m.indexes : ~i.unique /\ y = [table |-> m.table, index |-> i]
      BY DEF IsCreation
    <3>3. y.index \in m.indexes
      BY <3>2
    <3>4. n \in Names(m.indexes)
      BY <3>1, <3>3 DEF Names
    <3>5. Names(m.indexes) \cap IndexNames(be) = {}
      BY DEF IsCreation
    <3>6. QED
      BY <3>4, <3>5
  <2>4. ASSUME NEW z \in be.models PROVE WithoutIndex(z, n) = z
    <3>1. \A i \in z.indexes : i.name # n
      BY <2>3 DEF IndexNames, Names
    <3>2. QED
      BY <1>b, <3>1, WithoutIndexParts
  <2>5. be.models \subseteq new.models
    BY <1>c, <2>2, <2>4
  <2>6. ASSUME NEW x \in new.models \ be.models PROVE NewTable(b, d, x)
    <3>1. PICK m \in cat.models : x = WithoutIndex(m, n)
      BY <2>2
    <3>2. m \notin be.models
      BY <2>4, <3>1
    <3>3. NewTable(b, d, m)
      BY <1>c, <3>2
    <3>4. x.table = m.table /\ x.columns = m.columns /\ x.keys = m.keys /\ x.indexes \subseteq m.indexes
      BY <1>b, <3>1, WithoutIndexParts
    <3>5. QED
      BY <3>3, <3>4 DEF NewTable
  <2>7. Added(b, be, d, new)
    BY <1>5, <1>c, <2>2, <2>5, <2>6 DEF Added
  <2>8. QED
    BY <1>1, <2>7
<1>10. CASE s.op = "drop view"
  <2>1. /\ new.models = cat.models /\ new.enums = cat.enums
        /\ new.views = {v \in cat.views : v.name # s.name}
    BY <1>6, <1>10 DEF DroppingMakes
  <2>2. s.name \notin Names(be.views)
    <3>1. s.name \in Names(d.createViews)
      BY <1>3, <1>10 DEF DropsOneOf, Names
    <3>2. QED
      BY <3>1 DEF IsCreation
  <2>3. be.views \subseteq new.views
    BY <1>c, <2>1, <2>2 DEF Names
  <2>4. Added(b, be, d, new)
    BY <1>5, <1>c, <2>1, <2>3 DEF Added
  <2>5. QED
    BY <1>1, <2>4
<1>11. CASE s.op = "drop type"
  <2>1. /\ new.models = cat.models /\ new.views = cat.views
        /\ new.enums = {e \in cat.enums : e.name # s.name}
    BY <1>6, <1>11 DEF DroppingMakes
  <2>2. s.name \notin Names(be.enums)
    <3>1. HasTypes(b) /\ s.name \in Names(d.createEnums)
      BY <1>3, <1>11 DEF DropsOneOf, Names
    <3>2. QED
      BY <3>1 DEF IsCreation
  <2>3. be.enums \subseteq new.enums
    BY <1>c, <2>1, <2>2 DEF Names
  <2>4. Added(b, be, d, new)
    BY <1>5, <1>c, <2>1, <2>3 DEF Added
  <2>5. QED
    BY <1>1, <2>4
<1>12. QED
  BY <1>4, <1>7, <1>8, <1>9, <1>10, <1>11 DEF UndoingOps

(* The script drops everything that is new, tables on MySQL and SQL Server *)
(* after those that refer to them.                                         *)
Undone(be, cat, E) ==
  /\ \A x \in cat.models \ be.models : \E s \in E : s.op = "drop table" /\ s.table = x.table
  /\ \A e \in cat.enums \ be.enums : \E s \in E : s.op = "drop type" /\ s.name = e.name
  /\ \A v \in cat.views \ be.views : \E s \in E : s.op = "drop view" /\ s.name = v.name

Undoes(b, be, d, cat, q, cyclic) ==
  /\ q \in Seq(DropsOf(b, d))
  /\ Undone(be, cat, Elements(q))
  /\ b \in {"MySql", "Mssql"} /\ ~cyclic => ChildrenDropped(cat.models, q)

(* A down script does before it starts. *)
LEMMA DownUndoes ==
  ASSUME NEW b, NEW be, Sound(b, be), NEW d, IsCreation(b, be, d), NEW cat, Added(b, be, d, cat),
         NEW q, NEW cyclic, IsDownOf(b, d, q, cyclic)
  PROVE  Undoes(b, be, d, cat, q, cyclic)
<1>1. q \in Seq(DropsOf(b, d)) /\ Elements(q) = DropsOf(b, d)
  BY DEF IsDownOf
<1>2. ASSUME NEW x \in cat.models \ be.models
      PROVE  \E s \in Elements(q) : s.op = "drop table" /\ s.table = x.table
  <2>1. NewTable(b, d, x)
    BY DEF Added
  <2>2. PICK m \in d.createModels : x.table = m.table
    BY <2>1 DEF NewTable
  <2>3. DropTable(m.table) \in Elements(q)
    BY <1>1 DEF DropsOf, DropTablesOf
  <2>4. DropTable(m.table).op = "drop table" /\ DropTable(m.table).table = m.table
    BY DEF DropTable
  <2>5. QED
    BY <2>2, <2>3, <2>4, Zenon
<1>3. ASSUME NEW e \in cat.enums \ be.enums
      PROVE  \E s \in Elements(q) : s.op = "drop type" /\ s.name = e.name
  <2>1. HasTypes(b) /\ e \in d.createEnums
    BY DEF Added, NewType
  <2>2. DropType(e.name) \in Elements(q)
    BY <1>1, <2>1 DEF DropsOf, DropTypesOf
  <2>3. DropType(e.name).op = "drop type" /\ DropType(e.name).name = e.name
    BY DEF DropType
  <2>4. QED
    BY <2>2, <2>3, Zenon
<1>4. ASSUME NEW v \in cat.views \ be.views
      PROVE  \E s \in Elements(q) : s.op = "drop view" /\ s.name = v.name
  <2>1. NewView(b, d, v)
    BY DEF Added
  <2>2. PICK w \in d.createViews : v = StoredView(b, w)
    BY <2>1 DEF NewView
  <2>3. v.name = w.name
    <3>1. w = [name |-> w.name, reads |-> w.reads, sql |-> w.sql, materialized |-> w.materialized]
      BY DEF IsCreation
    <3>2. DOMAIN w = {"name", "reads", "sql", "materialized"}
      BY <3>1
    <3>3. QED
      BY <2>2, <3>2 DEF StoredView
  <2>4. DropView(w.name, w.materialized) \in Elements(q)
    BY <1>1 DEF DropsOf, DropViewsOf
  <2>5. DropView(w.name, w.materialized).op = "drop view" /\ DropView(w.name, w.materialized).name = w.name
    BY DEF DropView
  <2>6. QED
    BY <2>3, <2>4, <2>5, Zenon
<1>5. ASSUME b \in {"MySql", "Mssql"}, ~cyclic PROVE ChildrenDropped(cat.models, q)
  <2>1. ChildrenDropped(d.createModels, q)
    BY <1>5 DEF IsDownOf
  <2>2. ASSUME NEW p \in 1..Len(q), q[p].op = "drop table", NEW x \in cat.models, x.table # q[p].table,
               NEW k \in x.keys, k.table = q[p].table
        PROVE  \E r \in 1..(p - 1) : q[r] = DropTable(x.table)
    <3>1. PICK s : s = q[p]
      OBVIOUS
    <3>2. s \in DropsOf(b, d)
      BY <1>1, <3>1, ElementOfSeq
    <3>3. DropsOneOf(b, d, s)
      BY <3>2, DropsOneByOne
    <3>4. s.op = "drop table" /\ x.table # s.table /\ k.table = s.table
      BY <2>2, <3>1
    <3>5. s.table \notin Tables(be)
      BY <3>3, <3>4 DEF DropsOneOf, IsCreation
    <3>6. x \notin be.models
      <4>1. ASSUME x \in be.models PROVE k.table \in Tables(be)
        <5>1. ModelSound(b, Tables(be), Names(be.enums), x)
          BY <4>1 DEF Sound
        <5>2. b # "Sqlite"
          BY <1>5
        <5>3. QED
          BY <5>1, <5>2 DEF ModelSound
      <4>2. QED
        BY <3>4, <3>5, <4>1
    <3>7. NewTable(b, d, x)
      BY <3>6 DEF Added
    <3>8. PICK m \in d.createModels : x.table = m.table /\ x.keys \subseteq m.keys
      BY <3>7 DEF NewTable
    <3>9. k \in m.keys /\ m.table # q[p].table
      BY <2>2, <3>8
    <3>10. \E r \in 1..(p - 1) : q[r] = DropTable(m.table)
      BY <2>1, <2>2, <3>9 DEF ChildrenDropped
    <3>11. QED
      BY <3>8, <3>10
  <2>3. QED
    BY <2>2 DEF ChildrenDropped
<1>6. Undone(be, cat, Elements(q))
  BY <1>2, <1>3, <1>4 DEF Undone
<1>7. QED
  BY <1>1, <1>5, <1>6 DEF Undoes


(* Where it was, without the rest of the script. *)
LEMMA UndoneIsBefore ==
  ASSUME NEW b, NEW be, IsSchema(be), NEW d, NEW cat, Added(b, be, d, cat), Undone(be, cat, {})
  PROVE  cat = be
<1>1. cat.models = be.models /\ cat.enums = be.enums /\ cat.views = be.views
  BY DEF Added, Undone
<1>2. cat = [models |-> cat.models, enums |-> cat.enums, views |-> cat.views]
  BY DEF Added, IsSchema
<1>3. be = [models |-> be.models, enums |-> be.enums, views |-> be.views]
  BY DEF IsSchema
<1>4. QED
  BY <1>1, <1>2, <1>3

(* After a statement the rest does. *)
LEMMA UndoStep ==
  ASSUME NEW b \in Backends, NEW be, IsSchema(be), Sound(b, be), NEW d, IsCreation(b, be, d),
         NEW cat, Added(b, be, d, cat), NEW cyclic, NEW q, q # <<>>,
         Undoes(b, be, d, cat, q, cyclic), Accepts(b, cat, Head(q))
  PROVE  /\ Added(b, be, d, Effect(b, cat, Head(q)))
         /\ Undoes(b, be, d, Effect(b, cat, Head(q)), Tail(q), cyclic)
<1>1. PICK s, r, new, S : s = Head(q) /\ r = Tail(q) /\ new = Effect(b, cat, Head(q)) /\ S = DropsOf(b, d)
  OBVIOUS
<1>2. q \in Seq(S)
  BY <1>1 DEF Undoes
<1>3. /\ Len(q) \in Nat /\ Len(q) > 0 /\ s = q[1] /\ r \in Seq(S) /\ Len(r) = Len(q) - 1
      /\ \A i \in 1..Len(r) : r[i] = q[i + 1]
  BY <1>1, <1>2, HeadTailProperties, EmptySeq, LenProperties
<1>4. s \in S
  BY <1>2, <1>3, ElementOfSeq
<1>5. Added(b, be, d, new)
  <2>1. s \in DropsOf(b, d) /\ Accepts(b, cat, s)
    BY <1>1, <1>4
  <2>2. Added(b, be, d, Effect(b, cat, s))
    BY <2>1, DroppingKeepsBefore
  <2>3. QED
    BY <1>1, <2>2, Zenon
<1>6. Fewer(cat, new, s)
  <2>1. DropsOneOf(b, d, s)
    BY <1>1, <1>4, DropsOneByOne
  <2>2. s.op \in UndoingOps
    BY <2>1 DEF DropsOneOf, UndoingOps
  <2>3. IsSchema(cat)
    BY DEF Added
  <2>4. Fewer(cat, Effect(b, cat, s), s)
    BY <2>2, <2>3, DropsMakeFewer
  <2>5. QED
    BY <1>1, <2>4, Zenon
<1>7. \A x \in Elements(q) : x = s \/ x \in Elements(r)
  <2>1. ASSUME NEW i \in 1..Len(q), i # 1 PROVE q[i] \in Elements(r)
    <3>1. i - 1 \in 1..Len(r) /\ (i - 1) + 1 = i
      BY <1>3, <2>1
    <3>2. r[i - 1] = q[i]
      BY <1>3, <3>1
    <3>3. QED
      BY <3>1, <3>2 DEF Elements
  <2>2. QED
    BY <1>3, <2>1 DEF Elements
<1>8. ASSUME NEW x \in new.models, x \notin be.models
      PROVE  \E y \in cat.models : y \notin be.models /\ y.table = x.table
  <2>1. PICK y \in cat.models : y.table = x.table
    BY <1>6 DEF Fewer
  <2>2. y \in be.models => y \in new.models
    BY <1>5 DEF Added
  <2>3. y \in new.models => y = x
    BY <1>5, <2>1 DEF Added, IsSchema
  <2>4. QED
    BY <1>8, <2>1, <2>2, <2>3
<1>9. Undone(be, new, Elements(r))
  <2>1. ASSUME NEW x \in new.models \ be.models
        PROVE  \E z \in Elements(r) : z.op = "drop table" /\ z.table = x.table
    <3>1. PICK y \in cat.models : y \notin be.models /\ y.table = x.table
      BY <1>8
    <3>2. PICK z \in Elements(q) : z.op = "drop table" /\ z.table = x.table
      <4>1. Undone(be, cat, Elements(q)) /\ y \in cat.models \ be.models
        BY <3>1 DEF Undoes
      <4>2. \E z \in Elements(q) : z.op = "drop table" /\ z.table = y.table
        BY <4>1 DEF Undone
      <4>3. QED
        BY <3>1, <4>2
    <3>3. z # s
      BY <1>6, <3>2 DEF Fewer
    <3>4. QED
      BY <1>7, <3>2, <3>3
  <2>2. ASSUME NEW e \in new.enums \ be.enums
        PROVE  \E z \in Elements(r) : z.op = "drop type" /\ z.name = e.name
    <3>1. e \in cat.enums \ be.enums
      BY <1>6 DEF Fewer
    <3>2. PICK z \in Elements(q) : z.op = "drop type" /\ z.name = e.name
      BY <3>1 DEF Undoes, Undone
    <3>3. z # s
      BY <1>6, <3>2 DEF Fewer
    <3>4. QED
      BY <1>7, <3>2, <3>3
  <2>3. ASSUME NEW v \in new.views \ be.views
        PROVE  \E z \in Elements(r) : z.op = "drop view" /\ z.name = v.name
    <3>1. v \in cat.views \ be.views
      BY <1>6 DEF Fewer
    <3>2. PICK z \in Elements(q) : z.op = "drop view" /\ z.name = v.name
      BY <3>1 DEF Undoes, Undone
    <3>3. z # s
      BY <1>6, <3>2 DEF Fewer
    <3>4. QED
      BY <1>7, <3>2, <3>3
  <2>4. QED
    BY <2>1, <2>2, <2>3 DEF Undone
<1>10. ASSUME b \in {"MySql", "Mssql"}, ~cyclic PROVE ChildrenDropped(new.models, r)
  <2>1. ChildrenDropped(cat.models, q)
    BY <1>10 DEF Undoes
  <2>2. ASSUME NEW p \in 1..Len(r), r[p].op = "drop table", NEW x \in new.models, x.table # r[p].table,
               NEW k \in x.keys, k.table = r[p].table
        PROVE  \E i \in 1..(p - 1) : r[i] = DropTable(x.table)
    <3>1. p + 1 \in 1..Len(q) /\ r[p] = q[p + 1] /\ (p + 1) - 1 = p
      BY <1>3
    <3>2. PICK y \in cat.models : y.table = x.table /\ x.keys \subseteq y.keys
      BY <1>6 DEF Fewer
    <3>3. k \in y.keys /\ y.table # q[p + 1].table /\ k.table = q[p + 1].table /\ q[p + 1].op = "drop table"
      BY <2>2, <3>1, <3>2
    <3>4. \E i \in 1..((p + 1) - 1) : q[i] = DropTable(y.table)
      BY <2>1, <3>1, <3>3 DEF ChildrenDropped
    <3>5. PICK i \in 1..p : q[i] = DropTable(x.table)
      BY <3>1, <3>2, <3>4
    <3>6. i # 1
      <4>1. DropTable(x.table).op = "drop table" /\ DropTable(x.table).table = x.table
        BY DEF DropTable
      <4>2. s # DropTable(x.table)
        BY <1>6, <4>1 DEF Fewer
      <4>3. QED
        BY <1>3, <3>5, <4>2
    <3>7. i - 1 \in 1..(p - 1) /\ i - 1 \in 1..Len(r) /\ (i - 1) + 1 = i
      BY <1>3, <3>6
    <3>8. r[i - 1] = q[i]
      BY <1>3, <3>7
    <3>9. QED
      BY <3>5, <3>7, <3>8
  <2>3. QED
    BY <2>2 DEF ChildrenDropped
<1>11. Undoes(b, be, d, new, r, cyclic)
  BY <1>1, <1>3, <1>9, <1>10 DEF Undoes
<1>12. QED
  BY <1>1, <1>5, <1>11, Zenon

(* Why a statement of a down script is refused. *)
Blocked(b, d, cyclic) ==
  \/ b = "Postgres" /\ \E m \in d.createModels, e \in d.createEnums : \E c \in m.columns : c.enum = e.name
  \/ b \in {"MySql", "Mssql"} /\ d.createIndexes # {}
  \/ b = "DuckDb" /\ \E m, n \in d.createModels : m.table # n.table /\ \E k \in m.keys : k.table = n.table
  \/ b \in {"MySql", "Mssql"} /\ cyclic

LEMMA DropTypeIsBlocked ==
  ASSUME NEW b, NEW be, Sound(b, be), NEW d, IsCreation(b, be, d), NEW cat, Added(b, be, d, cat),
         NEW s, s.op = "drop type", DropsOneOf(b, d, s), ~Accepts(b, cat, s), NEW cyclic
  PROVE  Blocked(b, d, cyclic)
<1>1. PICK e \in d.createEnums : HasTypes(b) /\ s.name = e.name
  BY DEF DropsOneOf
<1>2. s.name # Absent /\ s.name \notin Names(be.enums)
  <2>1. s.name \in Names(d.createEnums)
    BY <1>1 DEF Names
  <2>2. QED
    BY <1>1, <2>1 DEF IsCreation
<1>3. PICK m \in cat.models : \E c \in m.columns : c.enum = s.name
  <2>1. ~ \A m \in cat.models, c \in UNION {x.columns : x \in cat.models} : c \in m.columns => c.enum # s.name
    BY Zenon DEF Accepts
  <2>2. QED
    BY <2>1
<1>4. PICK c \in m.columns : c.enum = s.name
  BY <1>3
<1>5. m \notin be.models
  <2>1. ASSUME m \in be.models PROVE c.enum \in Names(be.enums)
    <3>1. ModelSound(b, Tables(be), Names(be.enums), m)
      BY <2>1 DEF Sound
    <3>2. QED
      BY <1>2, <1>4, <3>1 DEF ModelSound
  <2>2. QED
    BY <1>2, <1>4, <2>1
<1>6. NewTable(b, d, m)
  BY <1>5 DEF Added
<1>7. PICK n \in d.createModels : m.columns = ColumnsStored(b, n)
  BY <1>6 DEF NewTable
<1>8. PICK x \in n.columns : c = Stored(b, x)
  BY <1>4, <1>7 DEF ColumnsStored
<1>9. IsColumn(x)
  BY DEF IsCreation, IsModel
<1>10. c.enum = IF b = "Postgres" THEN x.enum ELSE Absent
  BY <1>8, <1>9, StoredEnum
<1>11. b = "Postgres" /\ x.enum = e.name
  BY <1>1, <1>2, <1>4, <1>10
<1>12. QED
  BY <1>11 DEF Blocked

(* Nothing refers to the table that is dropped first. *)
LEMMA FirstHasNoChildren ==
  ASSUME NEW cat, NEW S, NEW q \in Seq(S), q # <<>>
  PROVE  Head(q).op = "drop table" /\ ChildrenDropped(cat.models, q) => Referencing(cat, Head(q).table) = {}
<1>1. PICK s : s = Head(q)
  OBVIOUS
<1>2. s = q[1] /\ 1 \in 1..Len(q)
  <2>1. Len(q) \in Nat /\ Len(q) > 0 /\ Head(q) = q[1]
    BY HeadTailProperties, EmptySeq, LenProperties
  <2>2. QED
    BY <1>1, <2>1
<1>3. 1..(1 - 1) = {}
  OBVIOUS
<1>4. ASSUME s.op = "drop table", ChildrenDropped(cat.models, q)
      PROVE  Referencing(cat, s.table) = {}
  <2>1. ASSUME NEW m \in cat.models, m.table # s.table, \E k \in m.keys : k.table = s.table
        PROVE  FALSE
    <3>1. q[1].op = "drop table" /\ m.table # q[1].table /\ \E k \in m.keys : k.table = q[1].table
      BY <1>1, <1>2, <1>4, <2>1, Zenon
    <3>2. \E r \in 1..(1 - 1) : q[r] = DropTable(m.table)
      BY <1>2, <1>4, <3>1 DEF ChildrenDropped
    <3>3. QED
      BY <1>3, <3>2
  <2>2. QED
    BY <2>1 DEF Referencing
<1>5. QED
  BY <1>1, <1>4

LEMMA DropTableIsBlocked ==
  ASSUME NEW b, NEW be, Sound(b, be), NEW d, IsCreation(b, be, d), NEW cat, Added(b, be, d, cat),
         NEW s, s.op = "drop table", DropsOneOf(b, d, s), ~Accepts(b, cat, s), b \in Backends,
         NEW cyclic, b \in {"MySql", "Mssql"} /\ ~cyclic => Referencing(cat, s.table) = {}
  PROVE  Blocked(b, d, cyclic)
<1>1. ~AcceptsDropTable(b, cat, s.table)
  BY Zenon DEF Accepts
<1>2. b \in {"MySql", "Mssql", "DuckDb"} /\ Referencing(cat, s.table) # {}
  BY <1>1 DEF AcceptsDropTable, Backends
<1>3. PICK m \in cat.models : m.table # s.table /\ \E k \in m.keys : k.table = s.table
  BY <1>2 DEF Referencing
<1>4. PICK k \in m.keys : k.table = s.table
  BY <1>3
<1>5. PICK n \in d.createModels : s.table = n.table
  BY DEF DropsOneOf
<1>6. CASE b = "DuckDb"
  <2>1. s.table \notin Tables(be)
    BY <1>5 DEF IsCreation
  <2>2. m \notin be.models
    <3>1. ASSUME m \in be.models PROVE k.table \in Tables(be)
      <4>1. ModelSound(b, Tables(be), Names(be.enums), m)
        BY <3>1 DEF Sound
      <4>2. QED
        BY <1>6, <4>1 DEF ModelSound
    <3>2. QED
      BY <1>4, <2>1, <3>1
  <2>3. NewTable(b, d, m)
    BY <2>2 DEF Added
  <2>4. PICK x \in d.createModels : m.table = x.table /\ m.keys \subseteq x.keys
    BY <2>3 DEF NewTable
  <2>5. x.table # n.table /\ k \in x.keys /\ k.table = n.table
    BY <1>3, <1>4, <1>5, <2>4
  <2>6. QED
    BY <1>6, <2>5 DEF Blocked
<1>7. CASE b \in {"MySql", "Mssql"}
  <2>1. cyclic
    BY <1>2, <1>7
  <2>2. QED
    BY <1>7, <2>1 DEF Blocked
<1>8. QED
  BY <1>2, <1>6, <1>7

LEMMA DropIndexIsBlocked ==
  ASSUME NEW b, NEW be, NEW d, IsCreation(b, be, d), NEW cat, Added(b, be, d, cat),
         NEW s, s.op = "drop index", DropsOneOf(b, d, s), ~Accepts(b, cat, s), NEW cyclic
  PROVE  Blocked(b, d, cyclic)
<1>1. PICK y \in d.createIndexes : s.name = y.index.name
  BY DEF DropsOneOf
<1>2. PICK n \in d.createModels : \E i \in n.indexes : ~i.unique /\ y = [table |-> n.table, index |-> i]
  BY DEF IsCreation
<1>3. y.index \in n.indexes /\ ~y.index.unique
  <2>1. PICK i \in n.indexes : ~i.unique /\ y = [table |-> n.table, index |-> i]
    BY <1>2
  <2>2. y.index = i
    BY <2>1
  <2>3. QED
    BY <2>1, <2>2
<1>4. ~AcceptsDropIndex(b, cat, s.table, s.name)
  BY Zenon DEF Accepts
<1>5. CASE b \in {"MySql", "Mssql"}
  BY <1>1, <1>5 DEF Blocked
<1>6. CASE b \notin {"MySql", "Mssql"}
  <2>1. \E i \in IndexesBeside(b, cat, s.table) : i.name = s.name /\ i.constraint
    BY <1>4, <1>6 DEF AcceptsDropIndex
  <2>2. PICK m \in cat.models : \E i \in m.indexes : i.name = s.name /\ i.constraint
    BY <2>1 DEF IndexesBeside
  <2>3. PICK i \in m.indexes : i.name = s.name /\ i.constraint
    BY <2>2
  <2>4. m \notin be.models
    <3>1. ASSUME m \in be.models PROVE s.name \in IndexNames(be)
      BY <2>3, <3>1 DEF IndexNames, Names
    <3>2. s.name \in Names(n.indexes)
      BY <1>1, <1>3 DEF Names
    <3>3. Names(n.indexes) \cap IndexNames(be) = {}
      BY DEF IsCreation
    <3>4. QED
      BY <3>1, <3>2, <3>3
  <2>5. NewTable(b, d, m)
    BY <2>4 DEF Added
  <2>6. PICK x \in d.createModels : \A j \in m.indexes : j.constraint => j.name \in Names(Uniques(x))
    BY <2>5 DEF NewTable
  <2>7. PICK j \in x.indexes : j.unique /\ j.name = s.name
    BY <2>3, <2>6 DEF Names, Uniques
  <2>8. j = y.index
    <3>1. j.name = y.index.name
      BY <1>1, <2>7
    <3>2. QED
      BY <1>3, <3>1 DEF IsCreation
  <2>9. QED
    BY <1>3, <2>7, <2>8
<1>7. QED
  BY <1>5, <1>6

LEMMA DropViewIsAccepted ==
  ASSUME NEW b, NEW be, NEW d, IsCreation(b, be, d), NEW cat, Added(b, be, d, cat),
         NEW s, s.op = "drop view", DropsOneOf(b, d, s)
  PROVE  Accepts(b, cat, s)
<1>1. PICK u \in d.createViews : s.name = u.name /\ s.materialized = u.materialized
  BY DEF DropsOneOf
<1>2. ASSUME b = "Postgres", NEW v \in cat.views, v.name = s.name PROVE v.materialized = s.materialized
  <2>1. v \notin be.views
    <3>1. s.name \in Names(d.createViews)
      BY <1>1 DEF Names
    <3>2. s.name \notin Names(be.views)
      BY <3>1 DEF IsCreation
    <3>3. QED
      BY <1>2, <3>2 DEF Names
  <2>2. NewView(b, d, v)
    BY <2>1 DEF Added
  <2>3. PICK w \in d.createViews : v = StoredView(b, w)
    BY <2>2 DEF NewView
  <2>4. v.name = w.name /\ v.materialized = (w.materialized /\ b = "Postgres")
    <3>1. w = [name |-> w.name, reads |-> w.reads, sql |-> w.sql, materialized |-> w.materialized]
      BY DEF IsCreation
    <3>2. DOMAIN w = {"name", "reads", "sql", "materialized"}
      BY <3>1
    <3>3. PICK y : y = (w.materialized /\ b = "Postgres")
      OBVIOUS
    <3>4. v = [w EXCEPT !.materialized = y]
      BY <2>3, <3>3 DEF StoredView
    <3>5. v.name = w.name /\ v.materialized = y
      BY <3>2, <3>4
    <3>6. QED
      BY <3>3, <3>5
  <2>5. w = u
    <3>1. w.name = u.name
      BY <1>1, <1>2, <2>4
    <3>2. QED
      BY <3>1 DEF IsCreation
  <2>6. u.materialized \in BOOLEAN
    BY DEF IsCreation
  <2>7. v.materialized = u.materialized
    BY <1>2, <2>4, <2>5, <2>6
  <2>8. QED
    BY <1>1, <2>7
<1>3. b = "Postgres" => \A v \in cat.views : v.name = s.name => v.materialized = s.materialized
  BY <1>2
<1>4. QED
  BY <1>3, Zenon DEF Accepts

LEMMA RefusedIsBlocked ==
  ASSUME NEW b \in Backends, NEW be, Sound(b, be), NEW d, IsCreation(b, be, d),
         NEW cat, Added(b, be, d, cat), NEW cyclic, NEW q, q # <<>>,
         Undoes(b, be, d, cat, q, cyclic), ~Accepts(b, cat, Head(q))
  PROVE  Blocked(b, d, cyclic)
<1>1. PICK s : s = Head(q)
  OBVIOUS
<1>2. s \in DropsOf(b, d)
  <2>1. q \in Seq(DropsOf(b, d))
    BY DEF Undoes
  <2>2. Len(q) \in Nat /\ Len(q) > 0 /\ s = q[1]
    BY <1>1, <2>1, HeadTailProperties, EmptySeq, LenProperties
  <2>3. QED
    BY <2>1, <2>2, ElementOfSeq
<1>3. DropsOneOf(b, d, s) /\ ~Accepts(b, cat, s)
  BY <1>1, <1>2, DropsOneByOne
<1>4. CASE s.op = "drop type"
  BY <1>3, <1>4, DropTypeIsBlocked
<1>5. CASE s.op = "drop table"
  <2>1. ASSUME b \in {"MySql", "Mssql"}, ~cyclic PROVE Referencing(cat, s.table) = {}
    <3>1. q \in Seq(DropsOf(b, d)) /\ ChildrenDropped(cat.models, q)
      BY <2>1 DEF Undoes
    <3>2. Head(q).op = "drop table"
      BY <1>1, <1>5
    <3>3. Head(q).op = "drop table" /\ ChildrenDropped(cat.models, q) => Referencing(cat, Head(q).table) = {}
      BY <3>1, FirstHasNoChildren
    <3>5. Referencing(cat, Head(q).table) = {}
      BY <3>1, <3>2, <3>3
    <3>4. QED
      BY <1>1, <3>5
  <2>2. QED
    BY <1>3, <1>5, <2>1, DropTableIsBlocked
<1>6. CASE s.op = "drop index"
  BY <1>3, <1>6, DropIndexIsBlocked
<1>7. CASE s.op = "drop view"
  BY <1>3, <1>7, DropViewIsAccepted
<1>8. QED
  BY <1>3, <1>4, <1>5, <1>6, <1>7 DEF DropsOneOf


---------------------------------------------------------------------------
(* Down scripts restore *)

(* What a database that is what the differ compared with is changed by,    *)
(* and the script that takes it back.                                      *)
Compared ==
  /\ IsSchema(before) /\ Sound(backend, before) /\ IsCreation(backend, before, diff)
  /\ batch = Tables([models |-> diff.createModels]) /\ refs = RefsOf(diff)
  /\ IsDownOf(backend, diff, down, Cyclic)

(* While a script that only creates runs, the catalog is what it was and   *)
(* something of what is created; the down script names all of that.        *)
RollbackInv ==
  /\ CreationInv
  /\ phase \in {"edited", "ordering", "applying", "applied", "failed"} => Sound(backend, db)
  /\ OnlyCreates /\ SourceKnown =>
       /\ phase \in {"applying", "applied", "reverting"} =>
            Compared /\ Added(backend, before, diff, db)
       /\ phase = "applying" => Elements(script) \subseteq CreationsOf(backend, diff)
       /\ phase = "reverting" => Undoes(backend, before, diff, db, script, Cyclic)
  /\ RollbackRestores

(* The down script of what was compared goes with it. *)
LEMMA UntouchedUndoing ==
  ASSUME UNCHANGED <<backend, before, source, diff, down>>, UNCHANGED orderVars
  PROVE  /\ (OnlyCreates' <=> OnlyCreates) /\ (SourceKnown' <=> SourceKnown) /\ Cyclic' = Cyclic
         /\ Compared' <=> Compared
         /\ DownIsOutOfOrder' <=> DownIsOutOfOrder
<1>1. (OnlyCreates' <=> OnlyCreates) /\ (SourceKnown' <=> SourceKnown) /\ Cyclic' = Cyclic
  BY UntouchedComparison
<1>2. batch' = batch /\ refs' = refs
  BY DEF orderVars
<1>3. Compared' <=> Compared
  BY <1>1, <1>2 DEF Compared
<1>4. DownIsOutOfOrder' <=> DownIsOutOfOrder
  BY <1>1, <1>2 DEF DownIsOutOfOrder
<1>5. QED
  BY <1>1, <1>3, <1>4

(* The database was built from a well-formed schema. *)
LEMMA RollbackInitInv == Init => RollbackInv
<1> SUFFICES ASSUME Init PROVE RollbackInv
  OBVIOUS
<1>1. CreationInv
  BY CreationInitInv
<1>2. edit \in Edits /\ db = Built(backend, edit.from) /\ phase = "edited"
  BY DEF Init
<1>3. IsSchema(edit.from) /\ IsWellFormed(edit.from)
  BY <1>2, EditsAreGood DEF EditIsGood
<1>4. Sound(backend, db)
  BY <1>2, <1>3, BuiltSound
<1>5. RollbackRestores
  BY <1>2 DEF RollbackRestores
<1>6. QED
  BY <1>1, <1>2, <1>4, <1>5 DEF RollbackInv

(* What is known when the script is written. *)
LEMMA GeneratedIsUndone ==
  ASSUME RollbackInv, Generate, OnlyCreates, SourceKnown
  PROVE  Compared' /\ Added(backend, before, diff, db)
         /\ Elements(script') \subseteq CreationsOf(backend, diff)
<1>1. CreationInv /\ Sound(backend, db)
  BY DEF RollbackInv, Generate
<1>2. Elements(script') \subseteq CreationsOf(backend, diff)
  BY <1>1, GeneratedIsRunnable
<1>3. PICK b, cat, src, e, d, creates, cyclic :
        /\ b = backend /\ cat = db /\ src = source /\ e = edit /\ d = diff
        /\ creates = Creates /\ cyclic = Cyclic
  OBVIOUS
<1>4. /\ EditIsGood(edit) /\ NamesApart(edit.to)
      /\ backend \in Backends /\ IsSchema(db) /\ IsDiff(edit.to, diff) /\ before = db
      /\ batch = Tables([models |-> diff.createModels]) /\ refs = RefsOf(diff)
      /\ Creations(source, edit.to, diff) /\ Found(backend, db, source, edit.to)
      /\ InOrder(diff, Creates, Cyclic)
      /\ OnlyNew(diff) /\ Names(diff.createViews) \cap Names(db.views) = {}
  BY <1>1, GeneratedFromFound
<1>5. IsCreation(b, cat, d)
  <2>1. /\ EditIsGood(e) /\ NamesApart(e.to) /\ Creations(src, e.to, d) /\ Found(b, cat, src, e.to)
        /\ Names(d.createViews) \cap Names(cat.views) = {}
    BY <1>3, <1>4
  <2>2. QED
    BY <2>1, CreationIsNew
<1>6. IsDownOf(b, d, Down(b, d, creates), cyclic)
  <2>1. PICK to : to = e.to
    OBVIOUS
  <2>2. /\ b \in Backends /\ IsDiff(to, d) /\ IsSchema(to) /\ InOrder(d, creates, cyclic)
    BY <1>3, <1>4, <2>1 DEF EditIsGood
  <2>3. cyclic \in BOOLEAN
    BY <1>3 DEF Cyclic
  <2>4. QED
    BY <2>2, <2>3, DownIsDown
<1>7. /\ UNCHANGED <<backend, before, diff>> /\ UNCHANGED orderVars
      /\ down' = Down(backend, diff, Creates) /\ UNCHANGED <<source>>
  BY DEF Generate
<1>8. Cyclic' = Cyclic /\ batch' = batch /\ refs' = refs
  BY <1>7, UntouchedComparison DEF orderVars
<1>9. Compared'
  <2>1. down' = Down(b, d, creates)
    BY <1>3, <1>7
  <2>2. IsDownOf(backend, diff, down', Cyclic)
    BY <1>3, <1>6, <2>1, Zenon
  <2>3. IsCreation(backend, before, diff)
    BY <1>3, <1>4, <1>5
  <2>4. IsSchema(before) /\ Sound(backend, before)
    BY <1>1, <1>4
  <2>5. QED
    BY <1>4, <1>7, <1>8, <2>2, <2>3, <2>4 DEF Compared
<1>10. Added(backend, before, diff, db)
  BY <1>4 DEF Added
<1>11. QED
  BY <1>2, <1>9, <1>10

(* A reason of the lemmas is one of the property. *)
LEMMA BlockedIsOutOfOrder ==
  ASSUME Compared, Blocked(backend, diff, Cyclic)
  PROVE  DownIsOutOfOrder
<1>1. CASE backend = "DuckDb"
  <2>1. PICK m, n \in diff.createModels : m.table # n.table /\ \E k \in m.keys : k.table = n.table
    BY <1>1 DEF Blocked
  <2>2. PICK c, t : c = [models |-> diff.createModels] /\ t = m.table
    OBVIOUS
  <2>3. c.models = diff.createModels /\ batch = Tables(c)
    BY <2>2 DEF Compared
  <2>4. t \in batch /\ n.table \in batch
    BY <2>2, <2>3 DEF Tables
  <2>5. ModelOf(c, t) = m
    <3>1. ModelOf(c, t) \in c.models /\ ModelOf(c, t).table = t
      BY <2>3, <2>4, ModelOfFacts
    <3>2. QED
      BY <2>2, <2>3, <3>1 DEF Compared, IsCreation
  <2>6. refs[t] = {k.table : k \in m.keys}
    <3>1. refs = [y \in batch |-> {k.table : k \in ModelOf(c, y).keys}]
      BY <2>2, <2>3 DEF Compared, RefsOf
    <3>2. QED
      BY <2>4, <2>5, <3>1
  <2>7. n.table \in Parents(batch, refs, t)
    BY <2>1, <2>2, <2>4, <2>6 DEF Parents
  <2>8. QED
    BY <1>1, <2>4, <2>7 DEF DownIsOutOfOrder
<1>2. CASE backend # "DuckDb"
  BY <1>2 DEF Blocked, DownIsOutOfOrder
<1>3. QED
  BY <1>1, <1>2

(* A statement of the script that creates. *)
LEMMA ApplyingAdds ==
  ASSUME RollbackInv, Execute, phase = "applying", OnlyCreates, SourceKnown
  PROVE  Added(backend, before, diff, db') /\ Elements(script') \subseteq CreationsOf(backend, diff)
<1>1. /\ script # <<>> /\ Accepts(backend, db, Head(script))
      /\ db' = Effect(backend, db, Head(script)) /\ script' = Tail(script)
  BY DEF Execute
<1>2. PICK b, be, c, d, s, q, r, to, ops :
        /\ b = backend /\ be = before /\ c = db /\ d = diff /\ s = Head(script) /\ q = script
        /\ r = Tail(script) /\ to = edit.to /\ ops = (IF additive THEN AddingOps ELSE AllOps)
  OBVIOUS
<1>3. b \in Backends /\ IsScript(to, q, ops) /\ q # <<>> /\ Accepts(b, c, s) /\ s = Head(q) /\ r = Tail(q)
  BY <1>1, <1>2 DEF RollbackInv, CreationInv, MigrationInv
<1>4. IsCreation(b, be, d) /\ Added(b, be, d, c) /\ Elements(q) \subseteq CreationsOf(b, d)
  BY <1>2 DEF RollbackInv, Compared
<1>5. Runnable(b, c, {}, q, Cyclic)
  BY <1>2 DEF RollbackInv, CreationInv
<1>6. /\ q \in Seq(Elements(q)) /\ Len(q) \in Nat /\ Len(q) > 0 /\ s = q[1]
      /\ Len(r) = Len(q) - 1 /\ \A i \in 1..Len(r) : r[i] = q[i + 1]
  BY <1>3, ScriptIsSeq, HeadTailProperties, EmptySeq, LenProperties
<1>7. s \in Elements(q) /\ Fresh(c, s) /\ IsStatement(s)
  <2>1. 1 \in 1..Len(q)
    BY <1>6
  <2>2. s \in Elements(q)
    BY <1>6, <2>1 DEF Elements
  <2>3. Fresh(c, q[1])
    BY <1>5, <2>1 DEF Runnable
  <2>4. IsStatementOf(to, Head(q))
    BY <1>3, ScriptHeadTail
  <2>5. IsStatement(s)
    BY <1>3, <2>4 DEF IsStatementOf
  <2>6. QED
    BY <1>6, <2>2, <2>3, <2>5
<1>8. Added(b, be, d, Effect(b, c, s))
  BY <1>3, <1>4, <1>7, CreatingAdds
<1>9. Elements(r) \subseteq Elements(q)
  <2>1. \A i \in 1..Len(r) : i + 1 \in 1..Len(q)
    BY <1>6
  <2>2. QED
    BY <1>6, <2>1 DEF Elements
<1>10. Added(backend, before, diff, db')
  BY <1>1, <1>2, <1>8, Zenon
<1>11. Elements(script') \subseteq CreationsOf(backend, diff)
  BY <1>1, <1>2, <1>4, <1>9
<1>12. QED
  BY <1>10, <1>11

(* And one of the script that takes it back. *)
LEMMA RevertingUndoes ==
  ASSUME RollbackInv, Execute, phase = "reverting", OnlyCreates, SourceKnown
  PROVE  Added(backend, before, diff, db') /\ Undoes(backend, before, diff, db', script', Cyclic)
<1>1. /\ script # <<>> /\ Accepts(backend, db, Head(script))
      /\ db' = Effect(backend, db, Head(script)) /\ script' = Tail(script)
  BY DEF Execute
<1>2. PICK b, be, c, d, q, cyclic :
        b = backend /\ be = before /\ c = db /\ d = diff /\ q = script /\ cyclic = Cyclic
  OBVIOUS
<1>3. /\ b \in Backends /\ IsSchema(be) /\ Sound(b, be) /\ IsCreation(b, be, d) /\ Added(b, be, d, c)
      /\ q # <<>> /\ Undoes(b, be, d, c, q, cyclic) /\ Accepts(b, c, Head(q))
  BY <1>1, <1>2 DEF RollbackInv, CreationInv, MigrationInv, Compared
<1>4. /\ Added(b, be, d, Effect(b, c, Head(q)))
      /\ Undoes(b, be, d, Effect(b, c, Head(q)), Tail(q), cyclic)
  BY <1>3, UndoStep
<1>5. QED
  BY <1>1, <1>2, <1>4, Zenon

(* Every step keeps the invariant. *)
LEMMA RollbackNextInv == RollbackInv /\ [Next]_vars => RollbackInv'
<1> SUFFICES ASSUME RollbackInv, [Next]_vars PROVE RollbackInv'
  OBVIOUS
<1>0. CreationInv /\ CreationInv' /\ backend \in Backends
  BY CreationNextInv DEF RollbackInv, CreationInv, MigrationInv
<1>1. CASE MigrateDev \/ CreateMigration \/ DiffSchemas
  <2>1. PICK s, d, add : phase = "edited" /\ Differ(s, d, add)
    <3>1. CASE MigrateDev
      <4>1. phase = "edited" /\ \E destructive \in BOOLEAN :
              Differ(Introspect(db),
                     IF destructive THEN Diff(Introspect(db), edit.to)
                     ELSE StripDestructive(Diff(Introspect(db), edit.to)),
                     ~destructive)
        BY <3>1 DEF MigrateDev
      <4>2. QED
        BY <4>1, Zenon
    <3>2. CASE CreateMigration
      BY <3>2, Zenon DEF CreateMigration
    <3>3. CASE DiffSchemas
      BY <3>3, Zenon DEF DiffSchemas
    <3>4. QED
      BY <1>1, <3>1, <3>2, <3>3
  <2>2. phase' = "ordering" /\ backend' = backend /\ db' = db
    BY <2>1 DEF Differ
  <2>3. Sound(backend, db)
    BY <2>1 DEF RollbackInv
  <2>4. RollbackRestores'
    BY <2>2 DEF RollbackRestores
  <2>5. QED
    BY <1>0, <2>2, <2>3, <2>4 DEF RollbackInv
<1>2. CASE OrderTables
  <2>1. phase = "ordering" /\ phase' = phase /\ backend' = backend /\ db' = db
    BY <1>2 DEF OrderTables, schemaVars
  <2>2. Sound(backend, db)
    BY <2>1 DEF RollbackInv
  <2>3. RollbackRestores'
    BY <2>1 DEF RollbackRestores
  <2>4. QED
    BY <1>0, <2>1, <2>2, <2>3 DEF RollbackInv
<1>3. CASE Generate
  <2>1. /\ phase = "ordering" /\ phase' = "applying" /\ db' = db
        /\ UNCHANGED <<backend, before, source, diff>> /\ UNCHANGED orderVars
    BY <1>3 DEF Generate
  <2>2. (OnlyCreates' <=> OnlyCreates) /\ (SourceKnown' <=> SourceKnown)
    BY <2>1, UntouchedComparison
  <2>3. Sound(backend, db)
    BY <2>1 DEF RollbackInv
  <2>4. RollbackRestores'
    BY <2>1 DEF RollbackRestores
  <2>5. ASSUME OnlyCreates, SourceKnown
        PROVE  Compared' /\ Added(backend, before, diff, db)
               /\ Elements(script') \subseteq CreationsOf(backend, diff)
    BY <1>3, <2>5, GeneratedIsUndone
  <2>6. QED
    BY <1>0, <2>1, <2>2, <2>3, <2>4, <2>5 DEF RollbackInv
<1>4. CASE Execute
  <2>1. /\ script # <<>> /\ Accepts(backend, db, Head(script))
        /\ db' = Effect(backend, db, Head(script))
        /\ phase' = phase /\ phase \in {"applying", "reverting"}
        /\ UNCHANGED <<backend, before, source, diff, down>> /\ UNCHANGED orderVars
    BY <1>4 DEF Execute, Running
  <2>2. /\ (OnlyCreates' <=> OnlyCreates) /\ (SourceKnown' <=> SourceKnown) /\ Cyclic' = Cyclic
        /\ Compared' <=> Compared
    BY <2>1, UntouchedUndoing
  <2>3. RollbackRestores'
    BY <2>1 DEF RollbackRestores
  <2>4. CASE phase = "applying"
    <3>1. PICK b, c, s, to, ops :
            /\ b = backend /\ c = db /\ s = Head(script) /\ to = edit.to
            /\ ops = (IF additive THEN AddingOps ELSE AllOps)
      OBVIOUS
    <3>2. /\ b \in Backends /\ IsSchema(c) /\ Sound(b, c) /\ IsScript(to, script, ops)
          /\ Accepts(b, c, s)
      BY <1>0, <2>1, <2>4, <3>1 DEF RollbackInv, CreationInv, MigrationInv
    <3>3. s.op \in AllOps /\ IsStatement(s)
      <4>1. Head(script).op \in ops /\ IsStatementOf(to, Head(script))
        BY <2>1, <3>2, ScriptHeadTail
      <4>2. QED
        BY <3>1, <4>1 DEF AllOps, IsStatementOf
    <3>4. Sound(b, Effect(b, c, s))
      BY <3>2, <3>3, EffectSound
    <3>5. Sound(backend', db')
      BY <2>1, <3>1, <3>4, Zenon
    <3>6. ASSUME OnlyCreates, SourceKnown
          PROVE  Compared /\ Added(backend, before, diff, db') /\ Elements(script') \subseteq CreationsOf(backend, diff)
      BY <1>4, <2>4, <3>6, ApplyingAdds DEF RollbackInv
    <3>7. QED
      BY <1>0, <2>1, <2>2, <2>3, <2>4, <3>5, <3>6 DEF RollbackInv
  <2>5. CASE phase = "reverting"
    <3>1. ASSUME OnlyCreates, SourceKnown
          PROVE  Compared /\ Added(backend, before, diff, db') /\ Undoes(backend, before, diff, db', script', Cyclic)
      BY <1>4, <2>5, <3>1, RevertingUndoes DEF RollbackInv
    <3>2. QED
      BY <1>0, <2>1, <2>2, <2>3, <2>5, <3>1 DEF RollbackInv
  <2>6. QED
    BY <2>1, <2>4, <2>5
<1>5. CASE Refuse
  <2>1. /\ script # <<>> /\ ~Accepts(backend, db, Head(script)) /\ db' = db
        /\ UNCHANGED <<backend, before, source, diff, down>> /\ UNCHANGED orderVars
        /\ \/ phase = "applying" /\ phase' = "failed"
           \/ phase = "reverting" /\ phase' = "revert failed"
    BY <1>5 DEF Refuse, Running
  <2>2. /\ (OnlyCreates' <=> OnlyCreates) /\ (SourceKnown' <=> SourceKnown)
        /\ DownIsOutOfOrder' <=> DownIsOutOfOrder
    BY <2>1, UntouchedUndoing
  <2>3. ASSUME phase = "reverting", OnlyCreates, SourceKnown PROVE DownIsOutOfOrder
    <3>1. PICK b, be, c, d, q, cyclic :
            b = backend /\ be = before /\ c = db /\ d = diff /\ q = script /\ cyclic = Cyclic
      OBVIOUS
    <3>2. Compared
      BY <2>3 DEF RollbackInv
    <3>3. /\ b \in Backends /\ Sound(b, be) /\ IsCreation(b, be, d) /\ Added(b, be, d, c)
          /\ q # <<>> /\ Undoes(b, be, d, c, q, cyclic) /\ ~Accepts(b, c, Head(q))
      BY <1>0, <2>1, <2>3, <3>1, <3>2 DEF RollbackInv, Compared
    <3>4. Blocked(b, d, cyclic)
      BY <3>3, RefusedIsBlocked
    <3>5. Blocked(backend, diff, Cyclic)
      BY <3>1, <3>4, Zenon
    <3>6. QED
      BY <3>2, <3>5, BlockedIsOutOfOrder
  <2>4. RollbackRestores'
    BY <2>1, <2>2, <2>3 DEF RollbackRestores
  <2>5. phase = "applying" => Sound(backend, db)
    BY DEF RollbackInv
  <2>6. QED
    BY <1>0, <2>1, <2>4, <2>5 DEF RollbackInv
<1>6. CASE Complete
  <2>1. /\ script = <<>> /\ db' = db
        /\ UNCHANGED <<backend, before, source, diff, down>> /\ UNCHANGED orderVars
        /\ \/ phase = "applying" /\ phase' = "applied"
           \/ phase = "reverting" /\ phase' = "reverted"
    BY <1>6 DEF Complete, Running
  <2>2. /\ (OnlyCreates' <=> OnlyCreates) /\ (SourceKnown' <=> SourceKnown)
        /\ Compared' <=> Compared
    BY <2>1, UntouchedUndoing
  <2>3. ASSUME phase = "reverting", OnlyCreates, SourceKnown PROVE db = before
    <3>1. IsSchema(before) /\ Added(backend, before, diff, db)
      BY <2>3 DEF RollbackInv, Compared
    <3>2. Undone(before, db, Elements(script))
      BY <2>3 DEF RollbackInv, Undoes
    <3>3. Elements(script) = {}
      BY <2>1 DEF Elements
    <3>4. Undone(before, db, {})
      BY <3>2, <3>3, Zenon
    <3>5. QED
      BY <3>1, <3>4, UndoneIsBefore
  <2>4. RollbackRestores'
    BY <2>1, <2>2, <2>3 DEF RollbackRestores
  <2>5. phase = "applying" => Sound(backend, db)
    BY DEF RollbackInv
  <2>6. QED
    BY <1>0, <2>1, <2>2, <2>4, <2>5 DEF RollbackInv
<1>7. CASE Revert
  <2>1. /\ phase = "applied" /\ phase' = "reverting" /\ script' = down /\ db' = db
        /\ UNCHANGED <<backend, before, source, diff, down>> /\ UNCHANGED orderVars
    BY <1>7 DEF Revert
  <2>2. /\ (OnlyCreates' <=> OnlyCreates) /\ (SourceKnown' <=> SourceKnown) /\ Cyclic' = Cyclic
        /\ Compared' <=> Compared
    BY <2>1, UntouchedUndoing
  <2>3. ASSUME OnlyCreates, SourceKnown
        PROVE  Compared /\ Added(backend, before, diff, db) /\ Undoes(backend, before, diff, db, down, Cyclic)
    <3>1. Compared /\ Added(backend, before, diff, db)
      BY <2>1, <2>3 DEF RollbackInv
    <3>2. Undoes(backend, before, diff, db, down, Cyclic)
      BY <3>1, DownUndoes DEF Compared
    <3>3. QED
      BY <3>1, <3>2
  <2>4. RollbackRestores'
    BY <2>1 DEF RollbackRestores
  <2>5. QED
    BY <1>0, <2>1, <2>2, <2>3, <2>4 DEF RollbackInv
<1>8. CASE Retry
  <2>1. phase = "failed" /\ phase' = "edited" /\ backend' = backend /\ db' = db
    BY <1>8 DEF Retry
  <2>2. Sound(backend, db)
    BY <2>1 DEF RollbackInv
  <2>3. RollbackRestores'
    BY <2>1 DEF RollbackRestores
  <2>4. QED
    BY <1>0, <2>1, <2>2, <2>3 DEF RollbackInv
<1>9. CASE UNCHANGED vars
  <2>1. UNCHANGED schemaVars /\ UNCHANGED orderVars
    BY <1>9 DEF vars
  <2>2. /\ db' = db /\ phase' = phase /\ script' = script
        /\ UNCHANGED <<backend, before, source, diff, down>>
    BY <2>1 DEF schemaVars
  <2>3. /\ (OnlyCreates' <=> OnlyCreates) /\ (SourceKnown' <=> SourceKnown) /\ Cyclic' = Cyclic
        /\ Compared' <=> Compared
        /\ DownIsOutOfOrder' <=> DownIsOutOfOrder
    BY <2>1, <2>2, UntouchedUndoing
  <2>4. RollbackRestores'
    BY <2>2, <2>3 DEF RollbackInv, RollbackRestores
  <2>5. QED
    BY <1>0, <2>2, <2>3, <2>4 DEF RollbackInv
<1>10. QED
  BY <1>1, <1>2, <1>3, <1>4, <1>5, <1>6, <1>7, <1>8, <1>9 DEF Next

(* The down script of a migration that only created things, run to its     *)
(* end, leaves the database exactly as it was before the up script, and    *)
(* the only statements of it any backend refuses are those that come in    *)
(* the wrong order: whatever the schemas, the backend and the order the    *)
(* hash maps give (generate and the down scripts of sql.rs).               *)
THEOREM DownScriptsRestore == Spec => []RollbackRestores
<1>1. RollbackInv => RollbackRestores
  BY DEF RollbackInv
<1>2. QED
  BY <1>1, RollbackInitInv, RollbackNextInv, PTL DEF Spec
---------------------------------------------------------------------------
(* Creations reach the target *)

(* What the differ is asked for. *)
DiffOf(add, src, to) == IF add THEN StripDestructive(Diff(src, to)) ELSE Diff(src, to)

(* a has all of b that the differ looks at, and if nothing was stripped no *)
(* other columns.                                                          *)
Matches(add, a, b) ==
  /\ Names(b.columns) \subseteq Names(a.columns)
  /\ \A c \in b.columns : /\ Named(a.columns, c.name).type = c.type
                          /\ Named(a.columns, c.name).nullable = c.nullable
  /\ Names(b.keys) \subseteq Names(a.keys)
  /\ Shapes(b.indexes) \subseteq Shapes(a.indexes)
  /\ ~add => Names(a.columns) = Names(b.columns)

(* One index of each shape is compared, which is enough. *)
LEMMA ShapesCompared ==
  ASSUME NEW S, NEW T, \A i \in OnePerShape(S) : Shape(i) \in T
  PROVE  Shapes(S) \subseteq T
<1>1. ASSUME NEW i \in S PROVE Shape(i) \in T
  <2>1. PICK h : h = Shape(i)
    OBVIOUS
  <2>2. PICK j : j = CHOOSE k \in S : Shape(k) = h
    OBVIOUS
  <2>3. j \in S /\ Shape(j) = h
    BY <2>1, <2>2
  <2>4. j = CHOOSE k \in S : Shape(k) = Shape(j)
    BY <2>2, <2>3
  <2>5. j \in OnePerShape(S)
    BY <2>3, <2>4 DEF OnePerShape
  <2>6. QED
    BY <2>1, <2>3, <2>5
<1>2. QED
  BY <1>1 DEF Shapes

(* No change to make means that nothing is missing. *)
LEMMA NothingToAlter ==
  ASSUME NEW add \in BOOLEAN, NEW a, NEW m, NEW x, x = ModelAlter(a, m),
         x.addFields = {}, x.alterFields = {}, x.addIndexes = {}, x.addKeys = {},
         ~add => x.dropFields = {}
  PROVE  Matches(add, a, m)
<1>1. Names(m.columns) \subseteq Names(a.columns)
  <2>1. {c \in m.columns : c.name \notin Names(a.columns)} = {}
    BY DEF ModelAlter
  <2>2. QED
    BY <2>1 DEF Names
<1>2. ASSUME NEW c \in m.columns
      PROVE  /\ Named(a.columns, c.name).type = c.type
             /\ Named(a.columns, c.name).nullable = c.nullable
  <2>1. {FieldAlter(Named(a.columns, e.name), e) : e \in
           {e \in m.columns : /\ e.name \in Names(a.columns)
                              /\ FieldChanged(Named(a.columns, e.name), e)}} = {}
    BY DEF ModelAlter
  <2>2. c.name \in Names(a.columns)
    BY <1>1 DEF Names
  <2>3. ~FieldChanged(Named(a.columns, c.name), c)
    BY <2>1, <2>2
  <2>4. QED
    BY <2>3 DEF FieldChanged
<1>3. Names(m.keys) \subseteq Names(a.keys)
  <2>1. {k \in m.keys : k.name \notin Names(a.keys)} = {}
    BY DEF ModelAlter
  <2>2. QED
    BY <2>1 DEF Names
<1>4. Shapes(m.indexes) \subseteq Shapes(a.indexes)
  <2>1. {i \in OnePerShape(m.indexes) : Shape(i) \notin Shapes(a.indexes)} = {}
    BY DEF ModelAlter
  <2>2. \A i \in OnePerShape(m.indexes) : Shape(i) \in Shapes(a.indexes)
    BY <2>1
  <2>3. QED
    BY <2>2, ShapesCompared
<1>5. ~add => Names(a.columns) = Names(m.columns)
  <2>1. ~add => Names(a.columns) \ Names(m.columns) = {}
    BY DEF ModelAlter
  <2>2. QED
    BY <1>1, <2>1
<1>6. QED
  BY <1>1, <1>2, <1>3, <1>4, <1>5 DEF Matches

(* A table the differ leaves alone matches the one of the source. *)
LEMMA UnalteredMatches ==
  ASSUME NEW add \in BOOLEAN, NEW src, NEW to, DiffOf(add, src, to).alterModels = {},
         NEW m \in to.models, m.table \in Tables(src)
  PROVE  Matches(add, ModelOf(src, m.table), m)
<1>1. PICK a, x, A, d : /\ a = ModelOf(src, m.table) /\ x = ModelAlter(a, m) /\ d = Diff(src, to)
                        /\ A = d.alterModels
  OBVIOUS
<1>2. IsNoChange(x) \/ x \in A
  BY <1>1 DEF Diff
<1>3. x = [table |-> x.table, addFields |-> x.addFields, dropFields |-> x.dropFields,
           alterFields |-> x.alterFields, addIndexes |-> x.addIndexes, dropIndexes |-> x.dropIndexes,
           addKeys |-> x.addKeys, dropKeys |-> x.dropKeys]
  BY <1>1 DEF ModelAlter
<1>4. ASSUME IsNoChange(x)
      PROVE  /\ x.addFields = {} /\ x.alterFields = {} /\ x.addIndexes = {} /\ x.addKeys = {}
             /\ x.dropFields = {}
  BY <1>4 DEF IsNoChange, Parts
<1>5. CASE ~add
  <2>1. A = {}
    BY <1>1, <1>5 DEF DiffOf
  <2>2. QED
    BY <1>1, <1>2, <1>4, <2>1, NothingToAlter
<1>6. CASE add
  <2>1. StripDestructive(d).alterModels = {}
    BY <1>1, <1>6 DEF DiffOf
  <2>2. "alterModels" \in DOMAIN d
    BY <1>1 DEF Diff
  <2>3. {y \in {[z EXCEPT !.dropFields = {}, !.dropIndexes = {}, !.dropKeys = {}] : z \in A} : ~IsNoChange(y)}
          = {}
    BY <1>1, <2>1, <2>2 DEF StripDestructive
  <2>4. CASE x \in A
    <3>1. PICK y : y = [x EXCEPT !.dropFields = {}, !.dropIndexes = {}, !.dropKeys = {}]
      OBVIOUS
    <3>2. IsNoChange(y)
      BY <2>3, <2>4, <3>1
    <3>3. y.addFields = {} /\ y.alterFields = {} /\ y.addIndexes = {} /\ y.addKeys = {}
      BY <3>2 DEF IsNoChange, Parts
    <3>4. x.addFields = {} /\ x.alterFields = {} /\ x.addIndexes = {} /\ x.addKeys = {}
      <4>1. DOMAIN x = {"table", "addFields", "dropFields", "alterFields", "addIndexes", "dropIndexes",
                        "addKeys", "dropKeys"}
        BY <1>3
      <4>2. /\ y.addFields = x.addFields /\ y.alterFields = x.alterFields
            /\ y.addIndexes = x.addIndexes /\ y.addKeys = x.addKeys
        BY <3>1, <4>1
      <4>3. QED
        BY <3>3, <4>2
    <3>5. QED
      BY <1>1, <1>6, <3>4, NothingToAlter
  <2>5. QED
    BY <1>1, <1>2, <1>4, <2>4, NothingToAlter
<1>7. QED
  BY <1>5, <1>6

(* And so do its enum values, but for those that are gone. *)
LEMMA UnalteredEnums ==
  ASSUME NEW add \in BOOLEAN, NEW src, NEW to, DiffOf(add, src, to).alterEnums = {},
         NEW e \in to.enums, e.name \in Names(src.enums)
  PROVE  \E n \in src.enums : n.name = e.name /\ e.values \subseteq n.values
<1>1. PICK o, x, A, d : /\ o = Named(src.enums, e.name) /\ x = EnumAlter(o, e) /\ d = Diff(src, to)
                        /\ A = d.alterEnums
  OBVIOUS
<1>2. o \in src.enums /\ o.name = e.name
  BY <1>1 DEF Names, Named
<1>3. x \in A \/ e.values = o.values
  <2>1. A = {EnumAlter(Named(src.enums, f.name), f) : f \in
               {f \in {f \in to.enums : f.name \in Names(src.enums)} :
                  f.values # Named(src.enums, f.name).values}}
    BY <1>1 DEF Diff
  <2>2. QED
    BY <1>1, <2>1
<1>4. CASE ~add
  <2>1. A = {}
    BY <1>1, <1>4 DEF DiffOf
  <2>2. QED
    BY <1>2, <1>3, <2>1
<1>5. CASE add
  <2>1. StripDestructive(d).alterEnums = {}
    BY <1>1, <1>5 DEF DiffOf
  <2>2. "alterEnums" \in DOMAIN d
    BY <1>1 DEF Diff
  <2>3. {y \in {[z EXCEPT !.removeValues = {}] : z \in A} : y.addValues # {}} = {}
    BY <1>1, <2>1, <2>2 DEF StripDestructive
  <2>4. CASE x \in A
    <3>1. PICK y : y = [x EXCEPT !.removeValues = {}]
      OBVIOUS
    <3>2. y.addValues = {}
      BY <2>3, <2>4, <3>1
    <3>3. x.addValues = {}
      BY <1>1, <3>1, <3>2 DEF EnumAlter
    <3>4. e.values \ o.values = {}
      BY <1>1, <3>3 DEF EnumAlter
    <3>5. QED
      BY <1>2, <3>4
  <2>5. QED
    BY <1>2, <1>3, <2>4
<1>6. QED
  BY <1>4, <1>5

---------------------------------------------------------------------------
(* The catalog beside the source *)

NamedOnce(S) == \A c, e \in S : c.name = e.name => c = e

(* The model of a table. *)
LEMMA TheModel ==
  ASSUME NEW s, IsSchema(s), NEW x \in s.models
  PROVE  ModelOf(s, x.table) = x /\ x.table \in Tables(s)
<1>1. x.table \in Tables(s)
  BY DEF Tables
<1>2. ModelOf(s, x.table) \in s.models /\ ModelOf(s, x.table).table = x.table
  BY <1>1, ModelOfFacts
<1>3. QED
  BY <1>1, <1>2 DEF IsSchema

(* Storing keeps what the differ looks at of a column. *)
LEMMA StoredShow ==
  ASSUME NEW b, NEW S, \A c \in S : IsColumn(c), NamedOnce(S),
         NEW C, C = {Stored(b, c) : c \in S}
  PROVE  /\ Names(C) = Names(S)
         /\ \A c \in S : Named(C, c.name).type = c.type /\ Named(C, c.name).nullable = c.nullable
<1>1. ASSUME NEW c \in S
      PROVE  /\ Stored(b, c).name = c.name /\ Stored(b, c).type = c.type
             /\ Stored(b, c).nullable = c.nullable
  <2>1. DOMAIN c = {"name", "type", "enum", "nullable", "default"}
    BY DEF IsColumn
  <2>2. QED
    BY <2>1 DEF Stored
<1>2. Names(C) = Names(S)
  BY <1>1 DEF Names
<1>3. ASSUME NEW c \in S
      PROVE  Named(C, c.name).type = c.type /\ Named(C, c.name).nullable = c.nullable
  <2>1. PICK y : y = Named(C, c.name)
    OBVIOUS
  <2>2. y \in C /\ y.name = c.name
    <3>1. Stored(b, c) \in C /\ Stored(b, c).name = c.name
      BY <1>1
    <3>2. QED
      BY <2>1, <3>1 DEF Named
  <2>3. PICK e \in S : y = Stored(b, e)
    BY <2>2
  <2>4. e = c
    BY <1>1, <2>2, <2>3 DEF NamedOnce
  <2>5. QED
    BY <1>1, <2>1, <2>3, <2>4
<1>4. QED
  BY <1>2, <1>3

(* x has all that the differ sees of a. *)
Shows(a, x) ==
  /\ Names(x.columns) = Names(a.columns)
  /\ \A n \in Names(a.columns) : /\ Named(x.columns, n).type = Named(a.columns, n).type
                                 /\ Named(x.columns, n).nullable = Named(a.columns, n).nullable
  /\ Names(x.keys) = Names(a.keys)
  /\ Shapes(a.indexes) \subseteq Shapes(x.indexes)

(* What the differ matched with is what matches. *)
LEMMA ShownMatches ==
  ASSUME NEW add, NEW a, NEW x, NEW m, Matches(add, a, m), Shows(a, x)
  PROVE  Matches(add, x, m)
<1>1. \A c \in m.columns : c.name \in Names(a.columns)
  BY DEF Matches, Names
<1>2. QED
  BY <1>1 DEF Matches, Shows

(* Marking constraints keeps shapes. *)
LEMMA MarkedShape ==
  ASSUME NEW i, IsIndex(i), NEW z
  PROVE  Shape([i EXCEPT !.constraint = z]) = Shape(i)
<1>1. DOMAIN i = {"name", "columns", "unique", "constraint"}
  BY DEF IsIndex
<1>2. QED
  BY <1>1 DEF Shape

(* An introspected table. *)
LEMMA IntrospectedShows ==
  ASSUME NEW be, IsSchema(be), IsSchema(Introspect(be)), NEW t \in Tables(Introspect(be)),
         \A m \in be.models : IndexesAreIndexes(m)
  PROVE  t \in Tables(be) /\ Shows(ModelOf(Introspect(be), t), ModelOf(be, t))
<1>1. PICK src, x : src = Introspect(be) /\ x = ModelOf(be, t)
  OBVIOUS
<1>2. t \in Tables(be)
  BY IntrospectNames
<1>3. x \in be.models /\ x.table = t
  BY <1>1, <1>2, ModelOfFacts
<1>4. DOMAIN x = {"table", "columns", "keys", "indexes"}
  BY <1>3 DEF IsSchema, IsModel
<1>5. PICK a : a = [x EXCEPT !.indexes = IntrospectIndexes(@)]
  OBVIOUS
<1>6. a.table = t /\ a.columns = x.columns /\ a.keys = x.keys /\ a.indexes = IntrospectIndexes(x.indexes)
  BY <1>3, <1>4, <1>5
<1>7. a \in src.models
  BY <1>1, <1>3, <1>5 DEF Introspect
<1>8. ModelOf(src, t) = a
  BY <1>1, <1>6, <1>7, TheModel
<1>9. Shapes(a.indexes) \subseteq Shapes(x.indexes)
  <2>1. ASSUME NEW i \in a.indexes PROVE Shape(i) \in Shapes(x.indexes)
    <3>1. PICK j \in x.indexes : i = [j EXCEPT !.constraint = FALSE]
      BY <1>6 DEF IntrospectIndexes
    <3>2. IsIndex(j)
      BY <1>3 DEF IndexesAreIndexes
    <3>3. Shape(i) = Shape(j)
      BY <3>1, <3>2, MarkedShape
    <3>4. QED
      BY <3>3 DEF Shapes
  <2>2. QED
    BY <2>1 DEF Shapes
<1>10. Shows(a, x)
  BY <1>6, <1>9 DEF Shows
<1>11. QED
  BY <1>1, <1>2, <1>8, <1>10

(* A table built. *)
LEMMA BuiltShows ==
  ASSUME NEW b, NEW src, IsSchema(src), IsSchema(Built(b, src)), NEW t \in Tables(src),
         \A m \in src.models : NamedOnce(m.columns) /\ IndexesAreIndexes(m)
  PROVE  t \in Tables(Built(b, src)) /\ Shows(ModelOf(src, t), ModelOf(Built(b, src), t))
<1>1. PICK be, a : be = Built(b, src) /\ a = ModelOf(src, t)
  OBVIOUS
<1>2. a \in src.models /\ a.table = t
  BY <1>1, ModelOfFacts
<1>3. IsModel(a) /\ DOMAIN a = {"table", "columns", "keys", "indexes"}
  BY <1>2 DEF IsSchema, IsModel
<1>4. PICK C, I : /\ C = {Stored(b, c) : c \in a.columns}
                  /\ I = Constraints(a) \cup {i \in a.indexes : ~i.unique}
  OBVIOUS
<1>5. PICK x : x = [a EXCEPT !.columns = C, !.indexes = I]
  OBVIOUS
<1>6. x.table = t /\ x.columns = C /\ x.keys = a.keys /\ x.indexes = I
  BY <1>2, <1>3, <1>5
<1>7. x \in be.models
  <2>1. x = [a EXCEPT !.columns = {Stored(b, c) : c \in @},
                      !.indexes = Constraints(a) \cup {i \in @ : ~i.unique}]
    BY <1>3, <1>4, <1>5
  <2>2. QED
    BY <1>1, <1>2, <2>1 DEF Built
<1>8. ModelOf(be, t) = x /\ t \in Tables(be)
  BY <1>1, <1>6, <1>7, TheModel
<1>9. /\ Names(C) = Names(a.columns)
      /\ \A c \in a.columns : Named(C, c.name).type = c.type /\ Named(C, c.name).nullable = c.nullable
  <2>1. PICK S : S = a.columns
    OBVIOUS
  <2>2. NamedOnce(S) /\ (\A c \in S : IsColumn(c)) /\ C = {Stored(b, c) : c \in S}
    BY <1>2, <1>3, <1>4, <2>1 DEF IsModel
  <2>3. /\ Names(C) = Names(S)
        /\ \A c \in S : Named(C, c.name).type = c.type /\ Named(C, c.name).nullable = c.nullable
    BY ONLY <2>2, StoredShow
  <2>4. QED
    BY <2>1, <2>3
<1>10. ASSUME NEW n \in Names(a.columns)
       PROVE  /\ Named(C, n).type = Named(a.columns, n).type
              /\ Named(C, n).nullable = Named(a.columns, n).nullable
  <2>1. PICK c : c = Named(a.columns, n)
    OBVIOUS
  <2>2. c \in a.columns /\ c.name = n
    BY <2>1 DEF Names, Named
  <2>3. QED
    BY <1>9, <2>1, <2>2
<1>11. Shapes(a.indexes) \subseteq Shapes(I)
  <2>1. ASSUME NEW i \in a.indexes PROVE Shape(i) \in Shapes(I)
    <3>1. CASE ~i.unique
      BY <1>4, <3>1 DEF Shapes
    <3>2. CASE i.unique
      <4>1. [i EXCEPT !.constraint = TRUE] \in I
        BY <1>4, <3>2 DEF Constraints
      <4>2. IsIndex(i)
        BY <1>2 DEF IndexesAreIndexes
      <4>3. Shape([i EXCEPT !.constraint = TRUE]) = Shape(i)
        BY <4>2, MarkedShape
      <4>4. QED
        BY <4>1, <4>3 DEF Shapes
    <3>3. QED
      BY <3>1, <3>2
  <2>2. QED
    BY <2>1 DEF Shapes
<1>12. Shows(a, x)
  BY <1>6, <1>9, <1>10, <1>11 DEF Shows
<1>13. QED
  BY <1>1, <1>8, <1>12

---------------------------------------------------------------------------
(* What is still to be created *)

MadeTable(b, cat, m) ==
  \E x \in cat.models : /\ x.table = m.table /\ x.columns = ColumnsStored(b, m) /\ x.keys = m.keys
                        /\ Constraints(m) \subseteq x.indexes
MadeIndex(cat, y) == \E x \in cat.models : x.table = y.table /\ y.index \in x.indexes

(* All the difference creates is there or to be made by a statement in E.  *)
Promised(b, d, cat, E) ==
  /\ \A m \in d.createModels : [op |-> "create table", model |-> m] \in E \/ MadeTable(b, cat, m)
  /\ \A y \in d.createIndexes :
       [op |-> "create index", table |-> y.table, index |-> y.index] \in E \/ MadeIndex(cat, y)
  /\ HasTypes(b) => \A e \in d.createEnums : [op |-> "create type", enum |-> e] \in E \/ e \in cat.enums

(* All of it is, by the script as it is generated. *)
LEMMA AllPromised ==
  ASSUME NEW b, NEW d, NEW cat, NEW E, CreationsOf(b, d) \subseteq E
  PROVE  Promised(b, d, cat, E)
BY DEF Promised, CreationsOf, TypesOf, TablesOf, IndexesOf

(* Nothing is taken from a table, a type stays as it is. *)
KeepsTables(cat, new) ==
  /\ \A x \in cat.models : \E y \in new.models :
       y.table = x.table /\ y.columns = x.columns /\ y.keys = x.keys /\ x.indexes \subseteq y.indexes
  /\ cat.enums \subseteq new.enums

LEMMA KeptIsMade ==
  ASSUME NEW b, NEW cat, NEW new, KeepsTables(cat, new)
  PROVE  /\ \A m : MadeTable(b, cat, m) => MadeTable(b, new, m)
         /\ \A y : MadeIndex(cat, y) => MadeIndex(new, y)
<1>1. ASSUME NEW m, MadeTable(b, cat, m) PROVE MadeTable(b, new, m)
  <2>1. PICK x \in cat.models :
          /\ x.table = m.table /\ x.columns = ColumnsStored(b, m) /\ x.keys = m.keys
          /\ Constraints(m) \subseteq x.indexes
    BY <1>1 DEF MadeTable
  <2>2. PICK y \in new.models :
          y.table = x.table /\ y.columns = x.columns /\ y.keys = x.keys /\ x.indexes \subseteq y.indexes
    BY DEF KeepsTables
  <2>3. Constraints(m) \subseteq y.indexes
    BY <2>1, <2>2
  <2>4. QED
    BY <2>1, <2>2, <2>3 DEF MadeTable
<1>2. ASSUME NEW y, MadeIndex(cat, y) PROVE MadeIndex(new, y)
  <2>1. PICK x \in cat.models : x.table = y.table /\ y.index \in x.indexes
    BY <1>2 DEF MadeIndex
  <2>2. PICK z \in new.models : z.table = x.table /\ x.indexes \subseteq z.indexes
    BY DEF KeepsTables
  <2>3. QED
    BY <2>1, <2>2 DEF MadeIndex
<1>3. QED
  BY <1>1, <1>2

(* What a creating statement makes. *)
Makes(b, new, s) ==
  /\ s.op = "create table" => MadeTable(b, new, s.model)
  /\ s.op = "create index" => \E x \in new.models : x.table = s.table /\ s.index \in x.indexes
  /\ s.op = "create type" => s.enum \in new.enums

LEMMA CreatingKeepsAndMakes ==
  ASSUME NEW b \in Backends, NEW cat, IsSchema(cat), NEW s, IsStatement(s),
         s.op \in CreatingOps, Accepts(b, cat, s), Fresh(cat, s)
  PROVE  KeepsTables(cat, Effect(b, cat, s)) /\ Makes(b, Effect(b, cat, s), s)
<1>1. PICK new : new = Effect(b, cat, s)
  OBVIOUS
<1>2. CreatingMakes(b, cat, s, Effect(b, cat, s))
  BY CreatingEffect
<1>3. CreatingMakes(b, cat, s, new)
  BY <1>1, <1>2, Zenon
<1>4. CASE s.op = "create type"
  <2>1. new.models = cat.models /\ new.enums = cat.enums \cup {s.enum}
    BY <1>3, <1>4 DEF CreatingMakes
  <2>2. KeepsTables(cat, new) /\ Makes(b, new, s)
    BY <1>4, <2>1 DEF KeepsTables, Makes
  <2>3. QED
    BY <1>1, <2>2
<1>5. CASE s.op = "create table"
  <2>1. PICK m, x : m = s.model /\ x = StoredModel(b, s.model)
    OBVIOUS
  <2>2. new.models = cat.models \cup {x} /\ new.enums = cat.enums
    BY <1>3, <1>5, <2>1 DEF CreatingMakes
  <2>3. DOMAIN m = {"table", "columns", "keys", "indexes"}
    BY <1>5, <2>1 DEF IsStatement, IsModel
  <2>4. x.table = m.table /\ x.columns = ColumnsStored(b, m) /\ x.keys = m.keys /\ x.indexes = Constraints(m)
    <3>1. x = StoredModel(b, m)
      BY <2>1
    <3>2. QED
      BY <2>3, <3>1 DEF StoredModel, ColumnsStored
  <2>5. MadeTable(b, new, m)
    BY <2>2, <2>4 DEF MadeTable
  <2>6. KeepsTables(cat, new)
    BY <2>2 DEF KeepsTables
  <2>7. Makes(b, new, s)
    BY <1>5, <2>1, <2>5 DEF Makes
  <2>8. QED
    BY <1>1, <2>6, <2>7
<1>6. CASE s.op = "create index"
  <2>1. PICK x, r : x = ModelOf(cat, s.table) /\ r = WithIndex(x, s.index)
    OBVIOUS
  <2>2. /\ s.table \in Tables(cat) /\ new.models = Others(cat, s.table) \cup {r}
        /\ new.enums = cat.enums
    BY <1>3, <1>6, <2>1 DEF CreatingMakes
  <2>3. x \in cat.models /\ x.table = s.table
    BY <2>1, <2>2, ModelOfFacts
  <2>4. r.table = x.table /\ r.keys = x.keys /\ r.columns = x.columns /\ r.indexes = x.indexes \cup {s.index}
    <3>1. DOMAIN x = {"table", "columns", "keys", "indexes"}
      BY <2>3 DEF IsSchema, IsModel
    <3>2. QED
      BY <2>1, <3>1 DEF WithIndex
  <2>5. ASSUME NEW z \in cat.models
        PROVE  \E y \in new.models :
                 y.table = z.table /\ y.columns = z.columns /\ y.keys = z.keys /\ z.indexes \subseteq y.indexes
    <3>1. CASE z.table = s.table
      <4>1. z = x
        BY <2>3, <3>1 DEF IsSchema
      <4>2. QED
        BY <2>2, <2>4, <4>1
    <3>2. CASE z.table # s.table
      BY <2>2, <3>2 DEF Others
    <3>3. QED
      BY <3>1, <3>2
  <2>6. KeepsTables(cat, new)
    BY <2>2, <2>5 DEF KeepsTables
  <2>7. Makes(b, new, s)
    <3>1. r \in new.models /\ r.table = s.table /\ s.index \in r.indexes
      BY <2>2, <2>3, <2>4
    <3>2. QED
      BY <1>6, <3>1 DEF Makes
  <2>8. QED
    BY <1>1, <2>6, <2>7
<1>7. CASE s.op = "create view"
  <2>1. new.models = cat.models /\ new.enums = cat.enums
    BY <1>3, <1>7 DEF CreatingMakes
  <2>2. KeepsTables(cat, new) /\ Makes(b, new, s)
    BY <1>7, <2>1 DEF KeepsTables, Makes
  <2>3. QED
    BY <1>1, <2>2
<1>8. QED
  BY <1>4, <1>5, <1>6, <1>7 DEF CreatingOps

(* A statement keeps the promises it does not fulfil. *)
LEMMA PromisesKept ==
  ASSUME NEW b, NEW d, NEW cat, NEW new, NEW s, KeepsTables(cat, new), Makes(b, new, s),
         NEW E, NEW F, E \subseteq F \cup {s}, Promised(b, d, cat, E)
  PROVE  Promised(b, d, new, F)
<1>1. ASSUME NEW m \in d.createModels
      PROVE  [op |-> "create table", model |-> m] \in F \/ MadeTable(b, new, m)
  <2>1. CASE [op |-> "create table", model |-> m] = s
    <3>1. s.op = "create table" /\ s.model = m
      BY <2>1
    <3>2. QED
      BY <3>1 DEF Makes
  <2>2. CASE MadeTable(b, cat, m)
    BY <2>2, KeptIsMade
  <2>3. QED
    BY <2>1, <2>2 DEF Promised
<1>2. ASSUME NEW y \in d.createIndexes
      PROVE  [op |-> "create index", table |-> y.table, index |-> y.index] \in F \/ MadeIndex(new, y)
  <2>1. CASE [op |-> "create index", table |-> y.table, index |-> y.index] = s
    <3>1. s.op = "create index" /\ s.table = y.table /\ s.index = y.index
      BY <2>1
    <3>2. QED
      BY <3>1 DEF Makes, MadeIndex
  <2>2. CASE MadeIndex(cat, y)
    BY <2>2, KeptIsMade
  <2>3. QED
    BY <2>1, <2>2 DEF Promised
<1>3. ASSUME HasTypes(b), NEW e \in d.createEnums
      PROVE  [op |-> "create type", enum |-> e] \in F \/ e \in new.enums
  <2>1. CASE [op |-> "create type", enum |-> e] = s
    <3>1. s.op = "create type" /\ s.enum = e
      BY <2>1
    <3>2. QED
      BY <3>1 DEF Makes
  <2>2. CASE e \in cat.enums
    BY <2>2 DEF KeepsTables
  <2>3. QED
    BY <1>3, <2>1, <2>2 DEF Promised
<1>4. QED
  BY <1>1, <1>2, <1>3 DEF Promised

(* The statements for the indexes of new tables are all there. *)
LEMMA AllIndexesCreated ==
  ASSUME NEW add \in BOOLEAN, NEW src, NEW to, NEW m \in DiffOf(add, src, to).createModels,
         NEW i \in m.indexes, ~i.unique
  PROVE  [table |-> m.table, index |-> i] \in DiffOf(add, src, to).createIndexes
<1>1. PICK d : d = Diff(src, to)
  OBVIOUS
<1>2. DOMAIN d = {"createModels", "dropModels", "alterModels", "createEnums", "dropEnums", "alterEnums",
                  "createViews", "dropViews", "alterViews", "createIndexes"}
  BY <1>1 DEF Diff
<1>3. d.createIndexes =
        UNION {{[table |-> n.table, index |-> j] : j \in {j \in n.indexes : ~j.unique}} : n \in d.createModels}
  BY <1>1 DEF Diff
<1>4. /\ DiffOf(add, src, to).createModels = d.createModels
      /\ DiffOf(add, src, to).createIndexes = d.createIndexes
  BY <1>1, <1>2 DEF DiffOf, StripDestructive
<1>5. m \in d.createModels
  BY <1>4
<1>6. [table |-> m.table, index |-> i] \in
        {[table |-> m.table, index |-> j] : j \in {j \in m.indexes : ~j.unique}}
  OBVIOUS
<1>7. [table |-> m.table, index |-> i] \in d.createIndexes
  BY <1>3, <1>5, <1>6
<1>8. QED
  BY <1>4, <1>7

(* A new table, once it and its indexes are made. *)
LEMMA CreatedMatches ==
  ASSUME NEW b, NEW add, NEW cat, IsSchema(cat),
         NEW m, IsModel(m), NamedOnce(m.columns), IndexesAreIndexes(m), MadeTable(b, cat, m),
         \A i \in m.indexes : ~i.unique => MadeIndex(cat, [table |-> m.table, index |-> i])
  PROVE  m.table \in Tables(cat) /\ Matches(add, ModelOf(cat, m.table), m)
<1>1. PICK x \in cat.models : /\ x.table = m.table /\ x.columns = ColumnsStored(b, m) /\ x.keys = m.keys
                              /\ Constraints(m) \subseteq x.indexes
  BY DEF MadeTable
<1>2. m.table \in Tables(cat) /\ ModelOf(cat, m.table) = x
  BY <1>1, TheModel
<1>3. /\ Names(x.columns) = Names(m.columns)
      /\ \A c \in m.columns : Named(x.columns, c.name).type = c.type
                              /\ Named(x.columns, c.name).nullable = c.nullable
  <2>1. PICK S, C : S = m.columns /\ C = x.columns
    OBVIOUS
  <2>2. NamedOnce(S) /\ (\A c \in S : IsColumn(c)) /\ C = {Stored(b, c) : c \in S}
    BY <1>1, <2>1 DEF ColumnsStored, IsModel
  <2>3. /\ Names(C) = Names(S)
        /\ \A c \in S : Named(C, c.name).type = c.type /\ Named(C, c.name).nullable = c.nullable
    BY <2>2, StoredShow
  <2>4. QED
    BY <2>1, <2>3
<1>4. Shapes(m.indexes) \subseteq Shapes(x.indexes)
  <2>1. ASSUME NEW i \in m.indexes PROVE Shape(i) \in Shapes(x.indexes)
    <3>1. CASE i.unique
      <4>1. [i EXCEPT !.constraint = TRUE] \in x.indexes
        BY <1>1, <3>1 DEF Constraints
      <4>2. Shape([i EXCEPT !.constraint = TRUE]) = Shape(i)
        BY MarkedShape DEF IndexesAreIndexes
      <4>3. QED
        BY <4>1, <4>2 DEF Shapes
    <3>2. CASE ~i.unique
      <4>1. PICK y : y = [table |-> m.table, index |-> i]
        OBVIOUS
      <4>2. MadeIndex(cat, y) /\ y.table = m.table /\ y.index = i
        BY <3>2, <4>1
      <4>3. PICK z \in cat.models : z.table = m.table /\ i \in z.indexes
        BY <4>2 DEF MadeIndex
      <4>4. z = x
        BY <1>1, <4>3 DEF IsSchema
      <4>5. QED
        BY <4>3, <4>4 DEF Shapes
    <3>3. QED
      BY <3>1, <3>2
  <2>2. QED
    BY <2>1 DEF Shapes
<1>5. Matches(add, x, m)
  BY <1>1, <1>3, <1>4 DEF Matches
<1>6. QED
  BY <1>2, <1>5

(* The differ compared with what is there, as far as it looks. *)
SourceShown(b, be, src) ==
  /\ Tables(be) = Tables(src)
  /\ HasTypes(b) => be.enums = src.enums
  /\ \A t \in Tables(src) : Shows(ModelOf(src, t), ModelOf(be, t))

LEMMA KnownSourceIsShown ==
  ASSUME NEW b, NEW be, IsSchema(be), \A m \in be.models : IndexesAreIndexes(m),
         NEW src, IsSchema(src), src = Introspect(be) \/ be = Built(b, src),
         src = Introspect(be) \/ \A m \in src.models : NamedOnce(m.columns) /\ IndexesAreIndexes(m)
  PROVE  SourceShown(b, be, src)
<1>1. CASE src = Introspect(be)
  <2>1. Tables(src) = Tables(be) /\ src.enums = be.enums
    BY <1>1, IntrospectNames
  <2>2. ASSUME NEW t \in Tables(src) PROVE Shows(ModelOf(src, t), ModelOf(be, t))
    BY <1>1, IntrospectedShows
  <2>3. QED
    BY <2>1, <2>2 DEF SourceShown
<1>2. CASE be = Built(b, src) /\ \A m \in src.models : NamedOnce(m.columns) /\ IndexesAreIndexes(m)
  <2>1. Tables(be) = Tables(src) /\ (HasTypes(b) => be.enums = src.enums)
    BY <1>2, BuiltNames DEF HasTypes
  <2>2. ASSUME NEW t \in Tables(src) PROVE Shows(ModelOf(src, t), ModelOf(be, t))
    BY <1>2, BuiltShows
  <2>3. QED
    BY <2>1, <2>2 DEF SourceShown
<1>3. QED
  BY <1>1, <1>2

(* When nothing is left to create, all that is wanted is there. *)
Reached(b, add, to, cat) ==
  /\ \A m \in to.models : m.table \in Tables(cat) /\ Matches(add, ModelOf(cat, m.table), m)
  /\ ~add => Tables(cat) = Tables(to)
  /\ HasTypes(b) => \A e \in to.enums : \E n \in cat.enums : n.name = e.name /\ e.values \subseteq n.values

LEMMA CreationsReach ==
  ASSUME NEW b, NEW be, IsSchema(be), NEW src, SourceShown(b, be, src),
         NEW to, IsSchema(to), IsWellFormed(to), NEW add \in BOOLEAN,
         NEW d, d = DiffOf(add, src, to), OnlyNew(d),
         NEW cat, Added(b, be, d, cat), Promised(b, d, cat, {})
  PROVE  Reached(b, add, to, cat)
<1>1. Creations(src, to, d)
  BY DiffCreations DEF DiffOf
<1>2. IsSchema(cat) /\ be.models \subseteq cat.models /\ be.enums \subseteq cat.enums
  BY DEF Added
<1>3. ASSUME NEW m \in to.models, m.table \in Tables(src)
      PROVE  m.table \in Tables(cat) /\ Matches(add, ModelOf(cat, m.table), m)
  <2>1. Matches(add, ModelOf(src, m.table), m)
    BY <1>3, UnalteredMatches DEF OnlyNew
  <2>2. Shows(ModelOf(src, m.table), ModelOf(be, m.table)) /\ m.table \in Tables(be)
    BY <1>3 DEF SourceShown
  <2>3. PICK x : x = ModelOf(be, m.table)
    OBVIOUS
  <2>4. x \in cat.models /\ x.table = m.table
    BY <1>2, <2>2, <2>3, ModelOfFacts
  <2>5. ModelOf(cat, m.table) = x /\ m.table \in Tables(cat)
    BY <1>2, <2>4, TheModel
  <2>6. Matches(add, x, m)
    BY <2>1, <2>2, <2>3, ShownMatches
  <2>7. QED
    BY <2>5, <2>6
<1>4. ASSUME NEW m \in to.models, m.table \notin Tables(src)
      PROVE  m.table \in Tables(cat) /\ Matches(add, ModelOf(cat, m.table), m)
  <2>1. m \in d.createModels
    BY <1>1, <1>4 DEF Creations
  <2>2. MadeTable(b, cat, m)
    BY <2>1 DEF Promised
  <2>3. ASSUME NEW i \in m.indexes, ~i.unique PROVE MadeIndex(cat, [table |-> m.table, index |-> i])
    <3>1. [table |-> m.table, index |-> i] \in d.createIndexes
      BY <2>1, <2>3, AllIndexesCreated
    <3>2. QED
      BY <3>1 DEF Promised
  <2>4. IsModel(m) /\ NamedOnce(m.columns) /\ IndexesAreIndexes(m)
    BY DEF IsSchema, IsWellFormed, NamedOnce, IndexesAreIndexes
  <2>5. QED
    BY <1>2, <2>2, <2>3, <2>4, CreatedMatches
<1>5. ASSUME ~add PROVE Tables(cat) = Tables(to)
  <2>1. \A m \in to.models : m.table \in Tables(cat)
    BY <1>3, <1>4
  <2>2. Tables(src) \subseteq Tables(to)
    <3>1. d.dropModels = Tables(src) \ Tables(to)
      BY <1>5 DEF DiffOf, Diff
    <3>2. QED
      BY <3>1 DEF OnlyNew
  <2>3. ASSUME NEW x \in cat.models PROVE x.table \in Tables(to)
    <3>1. CASE x \in be.models
      BY <2>2, <3>1 DEF Tables, SourceShown
    <3>2. CASE x \notin be.models
      <4>1. PICK m \in d.createModels : x.table = m.table
        BY <3>2 DEF Added, NewTable
      <4>2. m \in to.models
        BY <1>1 DEF Creations
      <4>3. QED
        BY <4>1, <4>2 DEF Tables
    <3>3. QED
      BY <3>1, <3>2
  <2>4. QED
    BY <2>1, <2>3 DEF Tables
<1>6. ASSUME HasTypes(b), NEW e \in to.enums
      PROVE  \E n \in cat.enums : n.name = e.name /\ e.values \subseteq n.values
  <2>1. CASE e.name \in Names(src.enums)
    <3>1. PICK n \in src.enums : n.name = e.name /\ e.values \subseteq n.values
      BY <2>1, UnalteredEnums DEF OnlyNew
    <3>2. n \in cat.enums
      BY <1>2, <1>6 DEF SourceShown
    <3>3. QED
      BY <3>1, <3>2
  <2>2. CASE e.name \notin Names(src.enums)
    <3>1. e \in d.createEnums
      BY <1>1, <2>2 DEF Creations
    <3>2. e \in cat.enums
      BY <1>6, <3>1 DEF Promised
    <3>3. QED
      BY <3>2
  <2>3. QED
    BY <2>1, <2>2
<1>7. QED
  BY <1>3, <1>4, <1>5, <1>6 DEF Reached

---------------------------------------------------------------------------
(* Creating migrations reach their target *)

(* The difference stays the one between what was compared, and while the   *)
(* script runs all that is new is there or still to come.                  *)
TargetInv ==
  /\ RollbackInv
  /\ phase \in {"ordering", "applying", "applied"} =>
       /\ additive \in BOOLEAN /\ IsSchema(source)
       /\ source \in {EmptySchema, edit.from, Introspect(before)}
       /\ diff = DiffOf(additive, source, edit.to)
       /\ IndexesKnown(edit, before)
  /\ OnlyCreates /\ SourceKnown =>
       /\ phase = "applying" => Promised(backend, diff, db, Elements(script))
       /\ phase = "applied" => Promised(backend, diff, db, {})

LEMMA TargetInitInv == Init => TargetInv
<1> SUFFICES ASSUME Init PROVE TargetInv
  OBVIOUS
<1>1. phase = "edited"
  BY DEF Init
<1>2. QED
  BY <1>1, RollbackInitInv DEF TargetInv

(* The three ways to compare. *)
LEMMA DifferTarget ==
  ASSUME RollbackInv, RollbackInv', MigrateDev \/ CreateMigration \/ DiffSchemas
  PROVE  TargetInv'
<1>1. phase = "edited" /\ edit \in Edits
  BY DEF MigrateDev, CreateMigration, DiffSchemas, RollbackInv, CreationInv, MigrationInv
<1>2. IsSchema(db) /\ IndexesKnown(edit, db) /\ IsSchema(edit.from)
  BY <1>1, EditsAreGood DEF RollbackInv, CreationInv, MigrationInv, EditIsGood
<1>3. PICK s, add, t :
        /\ add \in BOOLEAN /\ t = edit.to /\ Differ(s, DiffOf(add, s, t), add)
        /\ s \in {EmptySchema, edit.from, Introspect(db)}
  <2>1. CASE MigrateDev
    <3>1. PICK destructive \in BOOLEAN :
            Differ(Introspect(db),
                   IF destructive THEN Diff(Introspect(db), edit.to)
                   ELSE StripDestructive(Diff(Introspect(db), edit.to)),
                   ~destructive)
      BY <2>1 DEF MigrateDev
    <3>2. PICK s, add, t : s = Introspect(db) /\ add = ~destructive /\ t = edit.to
      OBVIOUS
    <3>3. (IF destructive THEN Diff(s, t) ELSE StripDestructive(Diff(s, t))) = DiffOf(add, s, t)
      BY <3>2 DEF DiffOf
    <3>4. Differ(s, DiffOf(add, s, t), add)
      BY <3>1, <3>2, <3>3
    <3>5. add \in BOOLEAN
      BY <3>2
    <3>6. QED
      BY <3>2, <3>4, <3>5
  <2>2. CASE CreateMigration
    <3>1. PICK s, t : s = EmptySchema /\ t = edit.to
      OBVIOUS
    <3>2. Differ(s, Diff(s, t), FALSE)
      BY <2>2, <3>1 DEF CreateMigration
    <3>3. Diff(s, t) = DiffOf(FALSE, s, t)
      BY DEF DiffOf
    <3>4. QED
      BY <3>1, <3>2, <3>3
  <2>3. CASE DiffSchemas
    <3>1. PICK s, t : s = edit.from /\ t = edit.to
      OBVIOUS
    <3>2. Differ(s, Diff(s, t), FALSE)
      BY <2>3, <3>1 DEF DiffSchemas
    <3>3. Diff(s, t) = DiffOf(FALSE, s, t)
      BY DEF DiffOf
    <3>4. QED
      BY <3>1, <3>2, <3>3
  <2>4. QED
    BY <2>1, <2>2, <2>3
<1>4. /\ source' = s /\ additive' = add /\ diff' = DiffOf(add, s, t) /\ before' = db /\ edit' = edit
      /\ phase' = "ordering"
  BY <1>3 DEF Differ
<1>5. IsSchema(s)
  BY <1>2, <1>3, EmptyIsSchema, IntrospectIsSchema
<1>6. QED
  BY <1>2, <1>3, <1>4, <1>5 DEF TargetInv

(* One statement of a script that only creates. *)
LEMMA ApplyingKeepsPromises ==
  ASSUME RollbackInv, Execute, phase = "applying", OnlyCreates, SourceKnown,
         Promised(backend, diff, db, Elements(script))
  PROVE  Promised(backend, diff, db', Elements(script'))
<1>1. /\ script # <<>> /\ Accepts(backend, db, Head(script))
      /\ db' = Effect(backend, db, Head(script)) /\ script' = Tail(script)
  BY DEF Execute
<1>2. PICK b, c, d, s, q, r, to, ops, cyclic :
        /\ b = backend /\ c = db /\ d = diff /\ s = Head(script) /\ q = script /\ r = Tail(script)
        /\ to = edit.to /\ ops = (IF additive THEN AddingOps ELSE AllOps) /\ cyclic = Cyclic
  OBVIOUS
<1>3. b \in Backends /\ IsSchema(c) /\ IsScript(to, q, ops) /\ q # <<>> /\ Accepts(b, c, s)
  BY <1>1, <1>2 DEF RollbackInv, CreationInv, MigrationInv
<1>4. Runnable(b, c, {}, q, cyclic)
  BY <1>2 DEF RollbackInv, CreationInv
<1>5. /\ q \in Seq(Elements(q)) /\ Len(q) \in Nat /\ Len(q) > 0 /\ s = q[1]
      /\ Len(r) = Len(q) - 1 /\ \A i \in 1..Len(r) : r[i] = q[i + 1]
  BY <1>2, <1>3, ScriptIsSeq, HeadTailProperties, EmptySeq, LenProperties
<1>6. s.op \in CreatingOps /\ Fresh(c, s) /\ IsStatement(s)
  <2>1. 1 \in 1..Len(q)
    BY <1>5
  <2>2. q[1].op \in CreatingOps /\ Fresh(c, q[1])
    BY <1>4, <2>1 DEF Runnable
  <2>3. IsStatementOf(to, Head(q))
    BY <1>3, ScriptHeadTail
  <2>4. QED
    BY <1>2, <1>5, <2>2, <2>3 DEF IsStatementOf
<1>7. KeepsTables(c, Effect(b, c, s)) /\ Makes(b, Effect(b, c, s), s)
  BY <1>3, <1>6, CreatingKeepsAndMakes
<1>8. Elements(q) \subseteq Elements(r) \cup {s}
  <2>1. ASSUME NEW i \in 1..Len(q) PROVE q[i] \in Elements(r) \cup {s}
    <3>1. CASE i = 1
      BY <1>5, <3>1
    <3>2. CASE i # 1
      <4>1. i - 1 \in 1..Len(r) /\ (i - 1) + 1 = i
        BY <1>5, <3>2
      <4>2. r[i - 1] = q[i]
        BY <1>5, <4>1
      <4>3. QED
        BY <4>1, <4>2 DEF Elements
    <3>3. QED
      BY <3>1, <3>2
  <2>2. QED
    BY <2>1 DEF Elements
<1>9. Promised(b, d, c, Elements(q))
  BY <1>2
<1>10. Promised(b, d, Effect(b, c, s), Elements(r))
  BY <1>7, <1>8, <1>9, PromisesKept
<1>11. QED
  BY <1>1, <1>2, <1>10, Zenon

(* Every step keeps the invariant. *)
LEMMA TargetNextInv == TargetInv /\ [Next]_vars => TargetInv'
<1> SUFFICES ASSUME TargetInv, [Next]_vars PROVE TargetInv'
  OBVIOUS
<1>0. RollbackInv /\ RollbackInv'
  BY RollbackNextInv DEF TargetInv
<1>1. CASE MigrateDev \/ CreateMigration \/ DiffSchemas
  BY <1>0, <1>1, DifferTarget
<1>2. CASE OrderTables
  <2>1. /\ phase = "ordering" /\ phase' = phase
        /\ UNCHANGED <<backend, edit, before, source, diff, additive>>
    BY <1>2 DEF OrderTables, schemaVars
  <2>2. QED
    BY <1>0, <2>1 DEF TargetInv
<1>3. CASE Generate
  <2>1. /\ phase = "ordering" /\ phase' = "applying" /\ db' = db
        /\ UNCHANGED <<backend, edit, before, source, diff, additive>> /\ UNCHANGED orderVars
    BY <1>3 DEF Generate
  <2>2. (OnlyCreates' <=> OnlyCreates) /\ (SourceKnown' <=> SourceKnown)
    BY <2>1, UntouchedComparison
  <2>3. ASSUME OnlyCreates, SourceKnown PROVE Promised(backend, diff, db, Elements(script'))
    <3>1. Elements(script') = CreationsOf(backend, diff)
      BY <1>0, <1>3, <2>3, GeneratedIsRunnable DEF RollbackInv
    <3>2. QED
      BY <3>1, AllPromised
  <2>4. QED
    BY <1>0, <2>1, <2>2, <2>3 DEF TargetInv
<1>4. CASE Execute
  <2>1. /\ phase' = phase /\ phase \in {"applying", "reverting"}
        /\ UNCHANGED <<backend, edit, before, source, diff, additive>> /\ UNCHANGED orderVars
    BY <1>4 DEF Execute, Running
  <2>2. (OnlyCreates' <=> OnlyCreates) /\ (SourceKnown' <=> SourceKnown)
    BY <2>1, UntouchedComparison
  <2>3. ASSUME phase = "applying", OnlyCreates, SourceKnown
        PROVE  Promised(backend, diff, db', Elements(script'))
    <3>1. Promised(backend, diff, db, Elements(script))
      BY <2>3 DEF TargetInv
    <3>2. QED
      BY <1>0, <1>4, <2>3, <3>1, ApplyingKeepsPromises
  <2>4. QED
    BY <1>0, <2>1, <2>2, <2>3 DEF TargetInv
<1>5. CASE Refuse
  <2>1. phase' \in {"failed", "revert failed"}
    BY <1>5 DEF Refuse
  <2>2. QED
    BY <1>0, <2>1 DEF TargetInv
<1>6. CASE Complete
  <2>1. /\ script = <<>> /\ db' = db
        /\ UNCHANGED <<backend, edit, before, source, diff, additive>> /\ UNCHANGED orderVars
        /\ \/ phase = "applying" /\ phase' = "applied"
           \/ phase = "reverting" /\ phase' = "reverted"
    BY <1>6 DEF Complete, Running
  <2>2. (OnlyCreates' <=> OnlyCreates) /\ (SourceKnown' <=> SourceKnown)
    BY <2>1, UntouchedComparison
  <2>3. ASSUME phase = "applying", OnlyCreates, SourceKnown PROVE Promised(backend, diff, db, {})
    <3>1. Promised(backend, diff, db, Elements(script))
      BY <2>3 DEF TargetInv
    <3>2. Elements(script) = {}
      BY <2>1 DEF Elements
    <3>3. QED
      BY <3>1, <3>2
  <2>4. QED
    BY <1>0, <2>1, <2>2, <2>3 DEF TargetInv
<1>7. CASE Revert \/ Retry
  <2>1. phase' \in {"reverting", "edited"}
    BY <1>7 DEF Revert, Retry
  <2>2. QED
    BY <1>0, <2>1 DEF TargetInv
<1>8. CASE UNCHANGED vars
  <2>1. UNCHANGED schemaVars /\ UNCHANGED orderVars
    BY <1>8 DEF vars
  <2>2. UNCHANGED <<backend, edit, db, before, source, diff, additive, script, phase>>
    BY <2>1 DEF schemaVars
  <2>3. (OnlyCreates' <=> OnlyCreates) /\ (SourceKnown' <=> SourceKnown)
    BY <2>1, <2>2, UntouchedComparison
  <2>4. QED
    BY <1>0, <2>2, <2>3 DEF TargetInv
<1>9. QED
  BY <1>1, <1>2, <1>3, <1>4, <1>5, <1>6, <1>7, <1>8 DEF Next

(* At the end all that is wanted is there. *)
LEMMA TargetInvReaches ==
  ASSUME TargetInv, OnlyCreates, SourceKnown
  PROVE  AppliedReachesTarget
<1> SUFFICES ASSUME phase = "applied" PROVE AppliedReachesTarget
  BY DEF AppliedReachesTarget
<1>1. /\ RollbackInv /\ additive \in BOOLEAN /\ IsSchema(source)
      /\ source \in {EmptySchema, edit.from, Introspect(before)}
      /\ diff = DiffOf(additive, source, edit.to)
      /\ IndexesKnown(edit, before) /\ Promised(backend, diff, db, {})
  BY DEF TargetInv
<1>2. /\ IsSchema(before) /\ Added(backend, before, diff, db) /\ EditIsGood(edit) /\ backend \in Backends
  BY <1>1, EditsAreGood DEF RollbackInv, Compared, CreationInv, MigrationInv
<1>3. PICK b, be, src, e, d, cat, add :
        /\ b = backend /\ be = before /\ src = source /\ e = edit /\ d = diff /\ cat = db
        /\ add = additive
  OBVIOUS
<1>4. /\ add \in BOOLEAN /\ IsSchema(src) /\ src \in {EmptySchema, e.from, Introspect(be)}
      /\ d = DiffOf(add, src, e.to) /\ IndexesKnown(e, be) /\ Promised(b, d, cat, {})
      /\ IsSchema(be) /\ Added(b, be, d, cat) /\ EditIsGood(e)
      /\ src = Introspect(be) \/ be = Built(b, src)
  BY <1>1, <1>2, <1>3 DEF SourceKnown
<1>5. OnlyNew(d)
  BY <1>3 DEF OnlyCreates, OnlyNew
<1>6. SourceShown(b, be, src)
  <2>1. \A m \in be.models : IndexesAreIndexes(m)
    BY <1>4 DEF IndexesKnown, ModelKnown, IndexKnown, IndexesAreIndexes
  <2>2. src = EmptySchema => \A m \in src.models : NamedOnce(m.columns) /\ IndexesAreIndexes(m)
    BY DEF EmptySchema
  <2>3. src = e.from => \A m \in src.models : NamedOnce(m.columns) /\ IndexesAreIndexes(m)
    BY <1>4 DEF EditIsGood, IsWellFormed, NamedOnce, IndexesAreIndexes
  <2>4. QED
    BY <1>4, <2>1, <2>2, <2>3, KnownSourceIsShown
<1>7. Reached(b, add, e.to, cat)
  <2>1. PICK to : to = e.to
    OBVIOUS
  <2>2. IsSchema(to) /\ IsWellFormed(to) /\ d = DiffOf(add, src, to)
    BY <1>4, <2>1 DEF EditIsGood
  <2>3. Reached(b, add, to, cat)
    BY <1>4, <1>5, <1>6, <2>2, CreationsReach
  <2>4. QED
    BY <2>1, <2>3
<1>8. Reached(backend, additive, edit.to, db)
  BY <1>3, <1>7, Zenon
<1>9. ASSUME NEW m \in edit.to.models PROVE TableReached(m)
  <2>1. m.table \in Tables(db) /\ Matches(additive, ModelOf(db, m.table), m)
    BY <1>8 DEF Reached
  <2>2. HasTable(db, m.table)
    BY <2>1 DEF HasTable
  <2>3. PICK now : now = ModelOf(db, m.table)
    OBVIOUS
  <2>4. \A c \in m.columns : ColumnReached(m.table, c)
    BY <2>1 DEF Matches, ColumnReached
  <2>5. QED
    BY <2>1, <2>2, <2>4 DEF Matches, TableReached
<1>10. ~additive => Tables(db) = Tables(edit.to)
  BY <1>8 DEF Reached
<1>11. backend = "Postgres" => \A x \in edit.to.enums : \E n \in db.enums :
         n.name = x.name /\ x.values \subseteq n.values
  BY <1>8 DEF Reached, HasTypes
<1>12. QED
  BY <1>9, <1>10, <1>11 DEF AppliedReachesTarget

(* A script that only creates, generated for what is there, leaves what    *)
(* the edited schema describes when it runs to its end: every table with   *)
(* its columns, types, nullability, foreign keys and indexes, the enums,   *)
(* and, where nothing was stripped, no other table, on all five backends   *)
(* (diff.rs, and generate of sql.rs).                                      *)
THEOREM CreatingMigrationsReachTarget ==
  Spec => [](OnlyCreates /\ SourceKnown => AppliedReachesTarget)
<1>1. TargetInv => (OnlyCreates /\ SourceKnown => AppliedReachesTarget)
  BY TargetInvReaches
<1>2. QED
  BY <1>1, TargetInitInv, TargetNextInv, PTL DEF Spec
===========================================================================
