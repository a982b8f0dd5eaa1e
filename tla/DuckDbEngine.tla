--------------------------- MODULE DuckDbEngine ---------------------------
(***************************************************************************)
(* DuckDbEngine (prax-duckdb, engine.rs) on top of DuckDbPool: single      *)
(* statements in pool mode, and transaction(f), which pins one pooled      *)
(* connection, brackets f with BEGIN and COMMIT / ROLLBACK, and leaves the *)
(* clean-up of a panicking or dropped f to the guard RollbackOnPanic.      *)
(*                                                                         *)
(* Every statement runs in spawn_blocking on a clone of the connection, so *)
(* it is a job of its own: jobs on one connection run one at a time, in    *)
(* any order, and a job outlives the future that awaited it.               *)
(*                                                                         *)
(* One request is one call: a statement in pool mode or one transaction.   *)
(* Its PooledConnection is shared by the call itself, by the task the      *)
(* guard spawns and by an engine clone the closure may have stashed; the   *)
(* last of them to go returns it to the pool.                              *)
(***************************************************************************)
EXTENDS DuckDbPool, EngineCall

VARIABLES
  jobs,        (* statements handed to spawn_blocking and not yet run, by  *)
               (* the call, its guard or a stashed clone of its engine     *)
  guard,       (* RollbackOnPanic of a transaction                         *)
  finalized,   (* tx_finalized of a transaction's engine                   *)
  stash        (* an engine clone that the closure leaked                  *)

txVars == <<guard, finalized, stash>>
dbVars == <<session, jobs, committed>>
engineVars == <<poolVars, callVars, txVars, dbVars>>

EngineInit ==
  /\ PoolInit
  /\ CallInit
  /\ session = [c \in Conn |-> NoTx]
  /\ jobs = {}
  /\ guard = [r \in Req |-> "none"]
  /\ finalized = [r \in Req |-> FALSE]
  /\ stash = [r \in Req |-> "none"]

---------------------------------------------------------------------------
(* Small steps *)

(* spawn_blocking of op on c, on behalf of r. *)
Post(r, by, op, c) ==
  jobs' = jobs \cup {[req |-> r, by |-> by, op |-> op, conn |-> c]}

(* Mutant of Unreferenced: the spawned task does not keep a handle. *)
CallIsOver(r) == pc[r] = "ended" /\ stash[r] = "none"

(* No handle of the PooledConnection is left. *)
Unreferenced(r) ==
  /\ pc[r] = "ended"
  /\ guard[r] # "spawned"
  /\ stash[r] = "none"

---------------------------------------------------------------------------
(* pool.get() *)

Start(r) ==
  /\ \E to \in {"getQuery", "getTx"} : Goto(r, "idle", to)
  /\ Acquire(r) \/ Enqueue(r)
  /\ UNCHANGED <<reply, result, txVars, dbVars>>

GetTimesOut(r) ==
  /\ Getting(r)
  /\ Timeout(r)
  /\ Finish(r, "err")
  /\ UNCHANGED <<txVars, dbVars>>

GetFindsNoIdle(r) ==
  /\ Getting(r)
  /\ FindEmpty(r)
  /\ UNCHANGED <<callVars, txVars, dbVars>>

GetCannotOpen(r) ==
  /\ Getting(r)
  /\ OpenFails(r)
  /\ Finish(r, "err")
  /\ UNCHANGED <<txVars, dbVars>>

(* get returns a connection; the caller posts its first statement before   *)
(* it suspends again.                                                      *)
FirstStatement(r, c) ==
  \/ /\ Goto(r, "getQuery", "query")
     /\ Post(r, "call", "STMT", c)
  \/ /\ Goto(r, "getTx", "begin")
     /\ Post(r, "call", "BEGIN", c)

GetPops(r) ==
  /\ PopIdle(r)
  /\ FirstStatement(r, conn'[r])
  /\ UNCHANGED <<reply, result, txVars, session, committed>>

GetOpens(r) ==
  \E c \in Conn :
    /\ \A j \in jobs : j.conn # c
    /\ Open(r, c)
    /\ FirstStatement(r, c)
    /\ session' = [session EXCEPT ![c] = NoTx]
    /\ UNCHANGED <<reply, result, txVars, committed>>

---------------------------------------------------------------------------
(* The database runs a job *)

(* The job j runs on its connection and answers v. *)
Run(j, v) ==
  /\ Execute(j.conn, j.op, j.req, v)
  /\ jobs' = jobs \ {j}

(* A statement of a call runs.  The answer reaches the call if its future  *)
(* still exists; the job of a dropped future runs all the same.            *)
RunCall(j) ==
  /\ j.by = "call"
  /\ \E v \in {"ok", "err"} : Run(j, v) /\ Answer(j.req, v)
  /\ UNCHANGED <<poolVars, pc, result, txVars>>

(* Mutant of RunGuard: a failed ROLLBACK does not poison the connection. *)
RunGuardNoPoison(j) ==
  /\ j.by = "guard"
  /\ guard' = [guard EXCEPT ![j.req] = "none"]
  /\ \E v \in {"ok", "err"} : Run(j, v)
  /\ UNCHANGED <<poolVars, callVars, finalized, stash>>

(* Mutant of RunGuard: after a failed ROLLBACK the handle is kept. *)
RunGuardKeeps(j) ==
  /\ j.by = "guard"
  /\ \/ Run(j, "ok") /\ guard' = [guard EXCEPT ![j.req] = "none"]
     \/ Run(j, "err") /\ UNCHANGED guard
  /\ UNCHANGED <<poolVars, callVars, finalized, stash>>

(* The ROLLBACK of the task that the guard spawned; on failure the task    *)
(* poisons the connection, and in both cases it drops its handle.          *)
RunGuard(j) ==
  /\ j.by = "guard"
  /\ guard' = [guard EXCEPT ![j.req] = "none"]
  /\ \/ Run(j, "ok") /\ UNCHANGED poolVars
     \/ Run(j, "err") /\ Poison(j.req)
  /\ UNCHANGED <<callVars, finalized, stash>>

(* A statement issued through a stashed engine. *)
RunStash(j) ==
  /\ j.by = "stash"
  /\ \E v \in {"ok", "err"} : Run(j, v)
  /\ stash' = [stash EXCEPT ![j.req] = "open"]
  /\ UNCHANGED <<poolVars, callVars, guard, finalized>>

---------------------------------------------------------------------------
(* A statement in pool mode *)

QueryReturns(r) ==
  /\ pc[r] = "query"
  /\ reply[r] # "none"
  /\ Finish(r, "done")
  /\ UNCHANGED <<poolVars, txVars, dbVars>>

---------------------------------------------------------------------------
(* transaction(f) *)

(* BEGIN succeeded: the engine clone, its flag and the guard are created   *)
(* and f starts.                                                           *)
Began(r) ==
  /\ Goto(r, "begin", "body")
  /\ Consume(r, "ok")
  /\ guard' = [guard EXCEPT ![r] = "armed"]
  /\ finalized' = [finalized EXCEPT ![r] = FALSE]
  /\ UNCHANGED <<poolVars, result, stash, dbVars>>

(* BEGIN failed: transaction returns early, before there is a guard. *)
BeginFailed(r) ==
  /\ pc[r] = "begin"
  /\ reply[r] = "err"
  /\ Finish(r, "err")
  /\ UNCHANGED <<poolVars, txVars, dbVars>>

(* f awaits a statement on the engine it was given ... *)
Send(r) ==
  /\ Goto(r, "body", "stmt")
  /\ Post(r, "call", "STMT", conn[r])
  /\ UNCHANGED <<poolVars, reply, result, txVars, session, committed>>

(* ... and goes on, whatever the answer. *)
Sent(r) ==
  /\ Goto(r, "stmt", "body")
  /\ reply[r] # "none"
  /\ Consume(r, reply[r])
  /\ UNCHANGED <<poolVars, result, txVars, dbVars>>

(* f stores a clone of the engine somewhere that outlives it. *)
Stash(r) ==
  /\ pc[r] = "body"
  /\ stash[r] = "none"
  /\ stash' = [stash EXCEPT ![r] = "open"]
  /\ UNCHANGED <<poolVars, callVars, guard, finalized, dbVars>>

(* f returns Ok (COMMIT) or Err (ROLLBACK). *)
ReturnFromBody(r, to, op) ==
  /\ Goto(r, "body", to)
  /\ finalized' = [finalized EXCEPT ![r] = TRUE]
  /\ Post(r, "call", op, conn[r])
  /\ UNCHANGED <<poolVars, reply, result, guard, stash, session, committed>>

ReturnOk(r) == ReturnFromBody(r, "commit", "COMMIT")
ReturnErr(r) == ReturnFromBody(r, "undo", "ROLLBACK")

Disarm(r) ==
  /\ guard' = [guard EXCEPT ![r] = "none"]
  /\ UNCHANGED <<finalized, stash>>

(* Mutant of CommitReturns: the answer of COMMIT is not looked at. *)
CommitAssumed(r) ==
  /\ pc[r] = "commit"
  /\ reply[r] # "none"
  /\ Finish(r, "ok")
  /\ Disarm(r)
  /\ UNCHANGED <<poolVars, dbVars>>

CommitReturns(r) ==
  /\ pc[r] = "commit"
  /\ reply[r] = "ok"
  /\ Finish(r, "ok")
  /\ Disarm(r)
  /\ UNCHANGED <<poolVars, dbVars>>

(* A failed COMMIT is followed by an attempt to roll back. *)
CommitFailed(r) ==
  /\ Goto(r, "commit", "undo")
  /\ Consume(r, "err")
  /\ Post(r, "call", "ROLLBACK", conn[r])
  /\ UNCHANGED <<poolVars, result, txVars, session, committed>>

(* Mutant of UndoReturns: a failed ROLLBACK is only logged. *)
UndoLogged(r) ==
  /\ pc[r] = "undo"
  /\ reply[r] # "none"
  /\ Finish(r, "err")
  /\ Disarm(r)
  /\ UNCHANGED <<poolVars, dbVars>>

(* A failed ROLLBACK poisons the connection. *)
UndoReturns(r) ==
  /\ pc[r] = "undo"
  /\ \/ reply[r] = "ok" /\ UNCHANGED poolVars
     \/ reply[r] = "err" /\ Poison(r)
  /\ Finish(r, "err")
  /\ Disarm(r)
  /\ UNCHANGED dbVars

---------------------------------------------------------------------------
(* Panics and dropped futures *)

(* Drop of the armed guard inside a runtime: it spawns a task that holds   *)
(* its own handle of the connection.                                       *)
SpawnRollback(r) ==
  /\ guard[r] = "armed"
  /\ guard' = [guard EXCEPT ![r] = "spawned"]
  /\ Post(r, "guard", "ROLLBACK", conn[r])
  /\ UNCHANGED <<poolVars, session, committed>>

(* Drop of the armed guard outside any runtime: ROLLBACK on the spot. *)
RollbackInDrop(r) ==
  /\ guard[r] = "armed"
  /\ guard' = [guard EXCEPT ![r] = "none"]
  /\ \E o \in Outcomes("ROLLBACK", r, session[conn[r]]) :
       /\ session' = [session EXCEPT ![conn[r]] = o[2]]
       /\ IF o[1] = "err" THEN Poison(r) ELSE UNCHANGED poolVars
  /\ UNCHANGED <<jobs, committed>>

(* f panics. *)
Panic(r) ==
  /\ pc[r] = "body"
  /\ Finish(r, "lost")
  /\ SpawnRollback(r)
  /\ UNCHANGED <<finalized, stash>>

(* The future is dropped while it waits for the pool. *)
CancelWaiting(r) ==
  /\ MayCancel
  /\ Getting(r)
  /\ CancelGet(r)
  /\ Finish(r, "lost")
  /\ UNCHANGED <<txVars, dbVars>>

(* The future is dropped while it awaits a statement in pool mode or the   *)
(* BEGIN of a transaction: there is no guard.                              *)
CancelUnguarded(r) ==
  /\ MayCancel
  /\ pc[r] \in {"query", "begin"}
  /\ Finish(r, "lost")
  /\ UNCHANGED <<poolVars, txVars, dbVars>>

(* The future is dropped once the guard is armed. *)
CancelGuarded(r) ==
  /\ MayCancel
  /\ pc[r] \in {"body", "stmt", "commit", "undo"}
  /\ Finish(r, "lost")
  /\ SpawnRollback(r) \/ RollbackInDrop(r)
  /\ UNCHANGED <<finalized, stash>>

---------------------------------------------------------------------------
(* The stashed engine *)

(* connection() refuses an engine whose transaction is finalized; any      *)
(* other statement is sent to the pinned connection.                       *)
StashSends(r) ==
  /\ stash[r] = "open"
  /\ ~ finalized[r]
  /\ stash' = [stash EXCEPT ![r] = "stmt"]
  /\ Post(r, "stash", "STMT", conn[r])
  /\ UNCHANGED <<poolVars, callVars, guard, finalized, session, committed>>

StashDropped(r) ==
  /\ stash[r] = "open"
  /\ stash' = [stash EXCEPT ![r] = "none"]
  /\ UNCHANGED <<poolVars, callVars, guard, finalized, dbVars>>

---------------------------------------------------------------------------
(* Drop of the PooledConnection.  A poisoned connection is closed, and its *)
(* transaction ends with it, unless a job still holds a clone of it.       *)

(* Mutant of HandBack: a poisoned connection goes back as well. *)
HandBackAny(r) ==
  /\ Unreferenced(r)
  /\ lease[r] = "held"
  /\ idle' = Append(idle, conn[r])
  /\ conn' = [conn EXCEPT ![r] = NoConn]
  /\ poisoned' = poisoned \ {r}
  /\ lease' = [lease EXCEPT ![r] = "returned"]
  /\ UNCHANGED <<permits, queue, callVars, txVars, dbVars>>

HandBack(r) ==
  /\ Unreferenced(r)
  /\ \/ Recycle(r) /\ UNCHANGED session
     \/ /\ Discard(r)
        /\ session' = IF \E j \in jobs : j.conn = conn[r]
                        THEN session
                        ELSE [session EXCEPT ![conn[r]] = NoTx]
  /\ UNCHANGED <<callVars, txVars, jobs, committed>>

FreePermit(r) ==
  /\ Release(r)
  /\ UNCHANGED <<callVars, txVars, dbVars>>

(* A request whose traces are all gone stands for a new call. *)
Reuse(r) ==
  /\ Forget(r)
  /\ lease[r] = "none"
  /\ \A j \in jobs : j.req # r
  /\ finalized' = [finalized EXCEPT ![r] = FALSE]
  /\ UNCHANGED <<poolVars, guard, stash, jobs>>

---------------------------------------------------------------------------
Get(r) == GetFindsNoIdle(r) \/ GetCannotOpen(r) \/ GetPops(r) \/ GetOpens(r)

(* What a call does when it is polled. *)
Resume(r) ==
  \/ QueryReturns(r)
  \/ Began(r)
  \/ BeginFailed(r)
  \/ Sent(r)
  \/ CommitReturns(r)
  \/ CommitFailed(r)
  \/ UndoReturns(r)

(* What f chooses. *)
Body(r) == Send(r) \/ Stash(r)
LeaveBody(r) == ReturnOk(r) \/ ReturnErr(r) \/ Panic(r)

Cancel(r) == CancelWaiting(r) \/ CancelUnguarded(r) \/ CancelGuarded(r)

EngineNext ==
  \/ \E r \in Req :
       \/ Start(r)
       \/ GetTimesOut(r)
       \/ Get(r)
       \/ Resume(r)
       \/ Body(r)
       \/ LeaveBody(r)
       \/ Cancel(r)
       \/ StashSends(r)
       \/ StashDropped(r)
       \/ HandBack(r)
       \/ FreePermit(r)
       \/ Reuse(r)
  \/ \E j \in jobs : RunCall(j) \/ RunGuard(j) \/ RunStash(j)

EngineSpec == EngineInit /\ [][EngineNext]_engineVars

(* The runtime polls what it was given and the blocking pool runs every    *)
(* job; closures terminate and stashed engines are dropped some day.       *)
EngineFairness ==
  \A r \in Req :
    /\ WF_engineVars(Get(r))
    /\ WF_engineVars(Resume(r))
    /\ SF_engineVars(LeaveBody(r))
    /\ WF_engineVars(\E j \in jobs : j.req = r /\ (RunCall(j) \/ RunGuard(j) \/ RunStash(j)))
    /\ SF_engineVars(StashDropped(r))
    /\ WF_engineVars(HandBack(r))
    /\ WF_engineVars(FreePermit(r))

FairEngine == EngineSpec /\ EngineFairness

---------------------------------------------------------------------------
(* Properties *)

(* The engine uses the pool only through the pool's own operations, in an  *)
(* order the pool allows: everything shown of the pool holds here, with    *)
(* cancelled calls, guards and stashed engines.                            *)
UsesPool == PoolSpec

(* No checkout inherits a transaction: an idle connection is in autocommit *)
(* mode, whichever way the transaction before it ended: COMMIT, ROLLBACK,  *)
(* either of them failing, or a panic that leaves the clean-up to a        *)
(* spawned task.                                                           *)
NoInheritedTransaction == \A c \in IdleConns : session[c] = NoTx

(* A transaction lives on the connection pinned for it, and as long as f   *)
(* runs it is still the one that BEGIN opened: nobody else's COMMIT,       *)
(* ROLLBACK or statement gets in between.                                  *)
TransactionPinned ==
  /\ \A c \in OpenConns, r \in Req : session[c] = r => conn[r] = c
  /\ \A r \in Req : pc[r] \in {"body", "stmt"} => session[conn[r]] = r
  /\ \A j \in jobs : j.by # "stash" /\ j.op # "BEGIN" /\ pc[j.req] \notin {"query", "undo"}
       => session[j.conn] = j.req

(* A statement in pool mode is a transaction of its own.                   *)
QueryAutocommits ==
  \A j \in jobs : pc[j.req] = "query" => session[j.conn] = NoTx

(* The connection cannot be recycled before the spawned ROLLBACK is over.  *)
RollbackBeforeRecycle ==
  \A j \in jobs : j.by = "guard" => lease[j.req] = "held" /\ conn[j.req] = j.conn
===========================================================================
