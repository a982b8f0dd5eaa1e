-------------------------- MODULE MigrationEvents --------------------------
(***************************************************************************)
(* The event log of prax-migrate: the append-only store (event_store.rs,   *)
(* InMemoryEventStore), the replay that derives which migrations are       *)
(* applied (state.rs), and the conversion of a V1 history into events      *)
(* (bootstrap.rs).                                                         *)
(*                                                                         *)
(* append_event takes the next id under one mutex and pushes the event     *)
(* under another, so two writers can push in the opposite order.  Times    *)
(* and counts of the events are left out.                                  *)
(***************************************************************************)
EXTENDS Integers, Sequences, FiniteSets

CONSTANTS
  Migration,   (* migration ids                                            *)
  Checksum,    (* checksums of migration files                             *)
  NoSum,       (* "no checksum": the empty string, new_checksum = None     *)
  Writer,      (* tasks that append to the event store                     *)
  Idle,        (* a writer with nothing in hand                            *)
  MaxEvents    (* bound on the events                                      *)

ASSUME EventAssumption == NoSum \notin Checksum /\ MaxEvents \in Nat

EventType == {"applied", "rolled_back", "failed", "resolved"}

(* MigrationEvent: every applied event has a checksum, a resolution may.   *)
Event ==
  {e \in [number : 1..MaxEvents, id : Migration, type : EventType, sum : Checksum \cup {NoSum}] :
     /\ e.type = "applied" => e.sum # NoSum
     /\ e.type \in {"rolled_back", "failed"} => e.sum = NoSum}

VARIABLES
  log,      (* InMemoryEventStore.events                                   *)
  nextId,   (* InMemoryEventStore.next_id                                  *)
  taken     (* the event each writer has numbered and not pushed yet       *)

eventVars == <<log, nextId, taken>>

EventInit ==
  /\ log = <<>>
  /\ nextId = 1
  /\ taken = [w \in Writer |-> Idle]

(* append_event numbers the event, *)
TakeNumber(w, e) ==
  /\ taken[w] = Idle
  /\ nextId <= MaxEvents
  /\ e.number = nextId
  /\ nextId' = nextId + 1
  /\ taken' = [taken EXCEPT ![w] = e]
  /\ UNCHANGED log

(* and pushes it. *)
Push(w) ==
  /\ taken[w] # Idle
  /\ log' = Append(log, taken[w])
  /\ taken' = [taken EXCEPT ![w] = Idle]
  /\ UNCHANGED nextId

(* MIGRATE_V1_TO_V2_SQL: an applied event for every row of the V1 table,   *)
(* in their order.  (A row that was rolled back is no row of get_applied.) *)
Bootstrap(rows) ==
  /\ log = <<>> /\ nextId = 1
  /\ Len(rows) \in 1..MaxEvents
  /\ log' = [i \in 1..Len(rows) |->
       [number |-> i, id |-> rows[i].id, type |-> "applied", sum |-> rows[i].sum]]
  /\ nextId' = Len(rows) + 1
  /\ UNCHANGED taken

EventNext ==
  \E w \in Writer :
    \/ \E e \in Event : TakeNumber(w, e)
    \/ Push(w)

---------------------------------------------------------------------------
(* MigrationState *)

(* MigrationStatus::new *)
NewStatus == [applied |-> FALSE, sum |-> NoSum]

(* Mutant of After: a failed attempt counts as taken back. *)
AfterFailureClears(s, e) ==
  CASE e.type = "applied" -> [applied |-> TRUE, sum |-> e.sum]
    [] e.type \in {"rolled_back", "failed"} -> [s EXCEPT !.applied = FALSE]
    [] OTHER -> [s EXCEPT !.sum = IF e.sum # NoSum THEN e.sum ELSE @]

(* What an event does to the status of its migration. *)
After(s, e) ==
  CASE e.type = "applied" -> [applied |-> TRUE, sum |-> e.sum]
    [] e.type = "rolled_back" -> [s EXCEPT !.applied = FALSE]
    [] e.type = "resolved" -> [s EXCEPT !.sum = IF e.sum # NoSum THEN e.sum ELSE @]
    [] OTHER -> s

(* from_events: the statuses after the first n events. *)
Replayed(events) ==
  LET state[n \in 0..Len(events)] ==
        IF n = 0 THEN [m \in Migration |-> NewStatus]
        ELSE [state[n - 1] EXCEPT ![events[n].id] = After(@, events[n])]
  IN  state[Len(events)]

(* get_applied: the checksums of the applied migrations. *)
AppliedByLog ==
  LET state == Replayed(log)
  IN  [m \in {x \in Migration : state[x].applied} |-> state[m].sum]

---------------------------------------------------------------------------
(* Properties *)

(* The positions of the events of m with one of the types. *)
EventsOf(m, types) == {i \in 1..Len(log) : log[i].id = m /\ log[i].type \in types}

LastOf(positions, i) == i \in positions /\ \A j \in positions : j <= i

(* Replay has the last word right: a migration is applied exactly when its *)
(* last application was not rolled back afterwards, however often it was   *)
(* applied, failed, was rolled back and resolved, in any order; and its    *)
(* checksum is the last one an application or a resolution gave it.        *)
ReplayIsLastWord ==
  \A m \in Migration :
    LET status == Replayed(log)[m]
        summed == {i \in EventsOf(m, {"applied", "resolved"}) : log[i].sum # NoSum}
    IN  /\ status.applied <=>
             \E i \in EventsOf(m, {"applied"}) :
               \A j \in EventsOf(m, {"rolled_back"}) : j < i
        /\ \A i \in summed : LastOf(summed, i) => status.sum = log[i].sum
===========================================================================
