--------------------------- MODULE SqliteEngine ---------------------------
(***************************************************************************)
(* SqliteEngine (prax-sqlite, engine.rs) on top of SqlitePool.  Each       *)
(* connection has one background thread, which runs the statements sent    *)
(* to its channel in the order they were sent (tokio_rusqlite).  A         *)
(* statement is sent when its future is first polled and is carried out    *)
(* even if that future is then dropped.                                    *)
(*                                                                         *)
(* As in DuckDbEngine a request is one call, and its connection is         *)
(* returned by the last of the call and an engine clone that the closure   *)
(* may have stashed.  The guard RollbackOnPanic holds a raw handle and     *)
(* not the pooled connection: the task it spawns does not keep the         *)
(* connection out of the pool.                                             *)
(***************************************************************************)
EXTENDS SqlitePool, EngineCall

CONSTANT MayPanic   (* whether closures panic *)

ASSUME PanicAssumption == MayPanic \in BOOLEAN

VARIABLES
  chan,      (* what was sent to each connection's thread and not yet run, *)
             (* by a call, its guard or a stashed clone of its engine      *)
  guard,     (* RollbackOnPanic: none, armed, or the connection for which  *)
             (* its task was spawned, until the task is first polled       *)
  stash      (* requests whose closure leaked an engine clone              *)

(* The states of a guard before and after its task are no connections. *)
ASSUME GuardAssumption == {"none", "armed"} \cap Conn = {}

dbVars == <<session, chan, committed>>
engineVars == <<poolVars, callVars, guard, stash, dbVars>>

EngineInit ==
  /\ PoolInit
  /\ CallInit
  /\ session = [c \in Conn |-> NoTx]
  /\ chan = [c \in Conn |-> <<>>]
  /\ guard = [r \in Req |-> "none"]
  /\ stash = {}

(* Connection::call sends op to the thread of c, on behalf of r. *)
Post(r, by, op, c) ==
  chan' = [chan EXCEPT ![c] = Append(@, [req |-> r, by |-> by, op |-> op])]

JobsOf(c) == {chan[c][i] : i \in 1..Len(chan[c])}

(* Guards whose task has not been polled yet. *)
Spawned == {r \in Req : guard[r] \in Conn}

(* No Arc<SqliteConnection> is left. *)
Unreferenced(r) == pc[r] = "ended" /\ r \notin stash

---------------------------------------------------------------------------
(* pool.get() *)

Start(r) ==
  /\ \E to \in {"getQuery", "getTx"} : Goto(r, "idle", to)
  /\ Acquire(r) \/ Enqueue(r)
  /\ UNCHANGED <<reply, result, guard, stash, dbVars>>

GetTimesOut(r) ==
  /\ Getting(r)
  /\ Timeout(r)
  /\ Finish(r, "err")
  /\ UNCHANGED <<guard, stash, dbVars>>

GetFindsNone(r) ==
  /\ Getting(r)
  /\ FindNone(r)
  /\ UNCHANGED <<callVars, guard, stash, dbVars>>

GetCannotOpen(r) ==
  /\ Getting(r)
  /\ OpenFails(r)
  /\ Finish(r, "err")
  /\ UNCHANGED <<guard, stash, dbVars>>

(* get returns a connection; the caller sends its first statement before   *)
(* it suspends again.                                                      *)
FirstStatement(r, c) ==
  \/ Goto(r, "getQuery", "query") /\ Post(r, "call", "STMT", c)
  \/ Goto(r, "getTx", "begin") /\ Post(r, "call", "BEGIN", c)

GetPops(r) ==
  /\ PopIdle(r)
  /\ FirstStatement(r, conn'[r])
  /\ UNCHANGED <<reply, result, guard, stash, session, committed>>

GetOpens(r) ==
  \E c \in Conn :
    /\ chan[c] = <<>>
    /\ \A q \in Req : guard[q] # c
    /\ Open(r, c)
    /\ FirstStatement(r, c)
    /\ session' = [session EXCEPT ![c] = NoTx]
    /\ UNCHANGED <<reply, result, guard, stash, committed>>

---------------------------------------------------------------------------
(* The thread of a connection *)

(* The thread runs the statement that was sent first, and answers the call *)
(* that awaits it.                                                         *)
RunNext(c) ==
  /\ chan[c] # <<>>
  /\ chan' = [chan EXCEPT ![c] = Tail(@)]
  /\ LET j == Head(chan[c]) IN
       \E v \in {"ok", "err"} :
         /\ Execute(c, j.op, j.req, v)
         /\ IF j.by = "call" THEN Answer(j.req, v) ELSE UNCHANGED reply
  /\ UNCHANGED <<poolVars, pc, result, guard, stash>>

---------------------------------------------------------------------------
(* A statement in pool mode *)

QueryReturns(r) ==
  /\ pc[r] = "query"
  /\ reply[r] # "none"
  /\ Finish(r, "done")
  /\ UNCHANGED <<poolVars, guard, stash, dbVars>>

---------------------------------------------------------------------------
(* transaction(f) *)

(* Mutant of Began: the answer of BEGIN is not looked at. *)
BeganAnyway(r) ==
  /\ Goto(r, "begin", "body")
  /\ reply[r] # "none"
  /\ Consume(r, reply[r])
  /\ guard' = [guard EXCEPT ![r] = "armed"]
  /\ UNCHANGED <<poolVars, result, stash, dbVars>>

(* BEGIN succeeded: the engine clone and the guard are created. *)
Began(r) ==
  /\ Goto(r, "begin", "body")
  /\ Consume(r, "ok")
  /\ guard' = [guard EXCEPT ![r] = "armed"]
  /\ UNCHANGED <<poolVars, result, stash, dbVars>>

(* BEGIN failed: transaction returns early, before there is a guard. *)
BeginFailed(r) ==
  /\ pc[r] = "begin"
  /\ reply[r] = "err"
  /\ Finish(r, "err")
  /\ UNCHANGED <<poolVars, guard, stash, dbVars>>

(* f awaits a statement on the engine it was given ... *)
Send(r) ==
  /\ Goto(r, "body", "stmt")
  /\ Post(r, "call", "STMT", conn[r])
  /\ UNCHANGED <<poolVars, reply, result, guard, stash, session, committed>>

(* ... and goes on, whatever the answer. *)
Sent(r) ==
  /\ Goto(r, "stmt", "body")
  /\ reply[r] # "none"
  /\ Consume(r, reply[r])
  /\ UNCHANGED <<poolVars, result, guard, stash, dbVars>>

(* f stores a clone of the engine somewhere that outlives it. *)
Stash(r) ==
  /\ pc[r] = "body"
  /\ r \notin stash
  /\ stash' = stash \cup {r}
  /\ UNCHANGED <<poolVars, callVars, guard, dbVars>>

(* f returns Ok (COMMIT) or Err (ROLLBACK). *)
ReturnFromBody(r, to, op) ==
  /\ Goto(r, "body", to)
  /\ Post(r, "call", op, conn[r])
  /\ UNCHANGED <<poolVars, reply, result, guard, stash, session, committed>>

ReturnOk(r) == ReturnFromBody(r, "commit", "COMMIT")
ReturnErr(r) == ReturnFromBody(r, "undo", "ROLLBACK")

Disarm(r) == guard' = [guard EXCEPT ![r] = "none"]

(* Drop of the armed guard inside a runtime: a task is spawned. *)
SpawnRollback(r) ==
  /\ guard[r] = "armed"
  /\ guard' = [guard EXCEPT ![r] = conn[r]]

(* Mutant of CommitReturns: the answer of COMMIT is not looked at. *)
CommitAssumed(r) ==
  /\ pc[r] = "commit"
  /\ reply[r] # "none"
  /\ Finish(r, "ok")
  /\ Disarm(r)
  /\ UNCHANGED <<poolVars, stash, dbVars>>

CommitReturns(r) ==
  /\ pc[r] = "commit"
  /\ reply[r] = "ok"
  /\ Finish(r, "ok")
  /\ Disarm(r)
  /\ UNCHANGED <<poolVars, stash, dbVars>>

(* Mutant of CommitFails: the guard is disarmed before COMMIT is sent. *)
CommitFailsDisarmed(r) ==
  /\ pc[r] = "commit"
  /\ reply[r] = "err"
  /\ Finish(r, "err")
  /\ Disarm(r)
  /\ UNCHANGED <<poolVars, stash, dbVars>>

(* A failed COMMIT returns early and drops the armed guard. *)
CommitFails(r) ==
  /\ pc[r] = "commit"
  /\ reply[r] = "err"
  /\ Finish(r, "err")
  /\ SpawnRollback(r)
  /\ UNCHANGED <<poolVars, stash, dbVars>>

(* Mutant of UndoReturns: a failed ROLLBACK is tried again. *)
UndoRetries(r) ==
  /\ pc[r] = "undo"
  /\ \/ reply[r] = "ok" /\ Finish(r, "err") /\ Disarm(r) /\ UNCHANGED chan
     \/ /\ Consume(r, "err")
        /\ Post(r, "call", "ROLLBACK", conn[r])
        /\ UNCHANGED <<pc, result, guard>>
  /\ UNCHANGED <<poolVars, stash, session, committed>>

(* A failed ROLLBACK is only logged. *)
UndoReturns(r) ==
  /\ pc[r] = "undo"
  /\ reply[r] # "none"
  /\ Finish(r, "err")
  /\ Disarm(r)
  /\ UNCHANGED <<poolVars, stash, dbVars>>

---------------------------------------------------------------------------
(* Panics and dropped futures *)

(* f panics. *)
Panic(r) ==
  /\ MayPanic
  /\ pc[r] = "body"
  /\ Finish(r, "lost")
  /\ SpawnRollback(r)
  /\ UNCHANGED <<poolVars, stash, dbVars>>

(* The spawned task is polled for the first time: it sends ROLLBACK.       *)
GuardSends(r) ==
  /\ r \in Spawned
  /\ Post(r, "guard", "ROLLBACK", guard[r])
  /\ Disarm(r)
  /\ UNCHANGED <<poolVars, callVars, stash, session, committed>>

(* The future is dropped while it waits for the pool. *)
CancelWaiting(r) ==
  /\ MayCancel
  /\ Getting(r)
  /\ CancelGet(r)
  /\ Finish(r, "lost")
  /\ UNCHANGED <<guard, stash, dbVars>>

(* The future is dropped while it awaits a statement in pool mode or the   *)
(* BEGIN of a transaction: there is no guard.                              *)
CancelUnguarded(r) ==
  /\ MayCancel
  /\ pc[r] \in {"query", "begin"}
  /\ Finish(r, "lost")
  /\ UNCHANGED <<poolVars, guard, stash, dbVars>>

(* The future is dropped once the guard is armed.  Outside any runtime the *)
(* guard only logs a warning.                                              *)
CancelGuarded(r) ==
  /\ MayCancel
  /\ pc[r] \in {"body", "stmt", "commit", "undo"}
  /\ Finish(r, "lost")
  /\ SpawnRollback(r) \/ Disarm(r)
  /\ UNCHANGED <<poolVars, stash, dbVars>>

---------------------------------------------------------------------------
(* The stashed engine: a statement at a time, even after the transaction. *)

StashSends(r) ==
  /\ r \in stash
  /\ conn[r] # NoConn
  /\ \A j \in JobsOf(conn[r]) : j.by # "stash"
  /\ Post(r, "stash", "STMT", conn[r])
  /\ UNCHANGED <<poolVars, callVars, guard, stash, session, committed>>

StashDropped(r) ==
  /\ r \in stash
  /\ stash' = stash \ {r}
  /\ UNCHANGED <<poolVars, callVars, guard, dbVars>>

---------------------------------------------------------------------------
(* Drop of the SqliteConnection *)

HandBack(r) ==
  /\ Unreferenced(r)
  /\ GiveBack(r)
  /\ UNCHANGED <<callVars, guard, stash, dbVars>>

(* Mutant of FreePermit: Drop adds a permit, and so does the field. *)
FreePermitTwice(r) ==
  /\ lease[r] = "returned"
  /\ queue = <<>>
  /\ permits' = permits + 2
  /\ lease' = [lease EXCEPT ![r] = "none"]
  /\ UNCHANGED <<queue, connVars, callVars, guard, stash, dbVars>>

FreePermit(r) ==
  /\ Release(r)
  /\ UNCHANGED <<callVars, guard, stash, dbVars>>

(* A request whose traces are all gone stands for a new call. *)
Reuse(r) ==
  /\ Forget(r)
  /\ lease[r] = "none"
  /\ r \notin Spawned
  /\ \A c \in Conn : \A j \in JobsOf(c) : j.req # r
  /\ UNCHANGED <<poolVars, guard, stash, chan>>

TimePasses == Tick /\ UNCHANGED <<callVars, guard, stash, dbVars>>

---------------------------------------------------------------------------
Get(r) == GetFindsNone(r) \/ GetCannotOpen(r) \/ GetPops(r) \/ GetOpens(r)

(* What a call does when it is polled. *)
Resume(r) ==
  \/ QueryReturns(r)
  \/ Began(r)
  \/ BeginFailed(r)
  \/ Sent(r)
  \/ CommitReturns(r)
  \/ CommitFails(r)
  \/ UndoReturns(r)

(* What f chooses. *)
Body(r) == Send(r) \/ Stash(r)
LeaveBody(r) == ReturnOk(r) \/ ReturnErr(r) \/ Panic(r)

Cancel(r) == CancelWaiting(r) \/ CancelUnguarded(r) \/ CancelGuarded(r)

EngineNext ==
  \/ \E r \in Req :
       \/ Start(r)
       \/ GetTimesOut(r)
       \/ Get(r)
       \/ Resume(r)
       \/ Body(r)
       \/ LeaveBody(r)
       \/ GuardSends(r)
       \/ Cancel(r)
       \/ StashSends(r)
       \/ StashDropped(r)
       \/ HandBack(r)
       \/ FreePermit(r)
       \/ Reuse(r)
  \/ \E c \in Conn : RunNext(c)
  \/ TimePasses

EngineSpec == EngineInit /\ [][EngineNext]_engineVars

(* The runtime polls what it was given and each connection's thread runs   *)
(* what it was sent; closures terminate and stashed engines are dropped    *)
(* some day.                                                               *)
EngineFairness ==
  /\ \A r \in Req :
       /\ WF_engineVars(Get(r))
       /\ WF_engineVars(Resume(r))
       /\ SF_engineVars(LeaveBody(r))
       /\ SF_engineVars(StashDropped(r))
       /\ WF_engineVars(HandBack(r))
       /\ WF_engineVars(FreePermit(r))
  /\ \A c \in Conn : WF_engineVars(RunNext(c))

FairEngine == EngineSpec /\ EngineFairness

---------------------------------------------------------------------------
(* Properties *)

(* The engine uses the pool only through the pool's own operations, in an  *)
(* order the pool allows: everything shown of the pool holds here, with    *)
(* panics, dropped calls and stashed engines.                              *)
UsesPool == PoolSpec

(* While f runs, its connection is in its own transaction or in none: what *)
(* panicked, failed or dropped calls left behind on the connection never   *)
(* makes f's statements part of somebody else's transaction.               *)
NeverInsideAnother ==
  \A r \in Req : pc[r] \in {"body", "stmt"} => session[conn[r]] \in {r, NoTx}

(* A ROLLBACK is on its way to connection c. *)
RollbackPending(c) ==
  \/ \E r \in Req : guard[r] = c
  \/ \E j \in JobsOf(c) : j.op = "ROLLBACK"

(* Panics and failing COMMITs do return a connection with its transaction  *)
(* open, but never for good: the ROLLBACK of some guard is under way.      *)
OpenTransactionIsGuarded ==
  \A c \in IdleConns : session[c] # NoTx => RollbackPending(c)
===========================================================================
