---------------------------- MODULE SessionPool ----------------------------
(***************************************************************************)
(* What a connection pool promises, without permits, queues or locks: at   *)
(* most Capacity sessions are open at any time and each is owned by at     *)
(* most one client.  The pools of the backends are shown to implement it.  *)
(***************************************************************************)
EXTENDS Naturals, FiniteSets

CONSTANTS
  Client,      (* users of the pool                          *)
  Session,     (* database sessions                          *)
  NoSession,   (* owned by a client that has none            *)
  Capacity     (* how many sessions may be open at a time    *)

VARIABLES
  open,        (* the sessions that are open                 *)
  owned        (* the session each client owns, or NoSession *)

sessionVars == <<open, owned>>

Owned == {owned[c] : c \in {d \in Client : owned[d] # NoSession}}

(* The pool starts with some sessions open and none owned. *)
Init ==
  /\ open \in SUBSET Session
  /\ Cardinality(open) <= Capacity
  /\ owned = [c \in Client |-> NoSession]

(* The pool closes sessions that nobody owns. *)
Retire(expired) ==
  /\ expired \subseteq open \ Owned
  /\ open' = open \ expired

(* A client is given an open session that nobody owns; the pool may close  *)
(* others on the way to it.                                                *)
CheckOut(c) ==
  /\ owned[c] = NoSession
  /\ \E s \in open \ Owned :
       /\ \E expired \in SUBSET (open \ {s}) : Retire(expired)
       /\ owned' = [owned EXCEPT ![c] = s]

(* A client is given a session opened for it. *)
OpenFor(c) ==
  /\ owned[c] = NoSession
  /\ Cardinality(open) < Capacity
  /\ \E s \in Session \ open :
       /\ open' = open \cup {s}
       /\ owned' = [owned EXCEPT ![c] = s]

(* A client gives its session up; the pool keeps it or closes it. *)
CheckIn(c) ==
  /\ owned[c] # NoSession
  /\ owned' = [owned EXCEPT ![c] = NoSession]
  /\ open' \in {open, open \ {owned[c]}}

Next ==
  \/ \E c \in Client : CheckOut(c) \/ OpenFor(c) \/ CheckIn(c)
  \/ \E expired \in SUBSET open : Retire(expired) /\ UNCHANGED owned

Spec == Init /\ [][Next]_sessionVars

---------------------------------------------------------------------------
(* At most one owner for each session, and only open sessions are owned.   *)
Exclusive ==
  /\ \A c, d \in Client : owned[c] # NoSession /\ owned[c] = owned[d] => c = d
  /\ Owned \subseteq open

(* Never more sessions than the pool's capacity. *)
Bounded == Cardinality(open) <= Capacity
===========================================================================
