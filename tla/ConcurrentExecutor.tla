------------------------- MODULE ConcurrentExecutor -------------------------
(***************************************************************************)
(* The concurrent executor of prax-query (async_optimize/concurrent.rs):   *)
(* execute_all runs the futures of its tasks side by side, each behind a   *)
(* permit of the executor's semaphore, and counts what they do in atomics  *)
(* that belong to the executor, not to the call.                           *)
(*                                                                         *)
(* A call is one execute_all; calls of several threads share the executor. *)
(* The futures of one call are polled by the thread that awaits the call,  *)
(* one at a time, and a finished one is handed to the loop at once, so the *)
(* steps of one call are never between the end of a task and the loop's    *)
(* look at its result (Attentive); those of other calls are.  The permit   *)
(* is a local of the future: it is returned when the future is done or     *)
(* dropped.  lease[t] uses none, queued, granted, held (the task is        *)
(* counted and runs) and returned (it is over and still has its permit).   *)
(* A call that changes several counters does it in one step.  Durations    *)
(* and the values of the results are left out.                             *)
(***************************************************************************)
EXTENDS Integers, Sequences, FiniteSets

CONSTANTS
  Call,             (* calls of execute_all                                *)
  TasksPerCall,     (* the number of tasks each is given                   *)
  MaxConcurrency,   (* ConcurrencyConfig::max_concurrency                  *)
  HasTimeout,       (* whether operation_timeout is Some                   *)
  CounterSize       (* 2^64: the atomics wrap                              *)

Job == Call \X (1..TasksPerCall)

VARIABLES
  permits, queue, lease,   (* the semaphore                                *)
  continueOnError,         (* ConcurrencyConfig::continue_on_error         *)
  phase,                   (* how far each call is                         *)
  outcome,                 (* the TaskResult of each task                  *)
  counters,                (* ExecutionStatsCollector                      *)
  alone,                   (* ghost: no other call was in progress         *)
  peak                     (* ghost: most tasks of the call at work        *)

INSTANCE Semaphore WITH Req <- Job, MaxConnections <- MaxConcurrency

(* with_max_concurrency takes max(1); the counters start at zero, and the  *)
(* number of tasks is a usize, which the 64 bits of a counter hold.        *)
ASSUME ExecutorAssumption ==
  /\ IsFiniteSet(Call)
  /\ TasksPerCall \in Nat
  /\ MaxConcurrency \in Nat \ {0}
  /\ HasTimeout \in BOOLEAN
  /\ CounterSize \in Nat \ {0}
  /\ TasksPerCall < CounterSize

statVars == <<counters, alone, peak>>
execVars == <<permits, queue, lease, continueOnError, phase, outcome, counters, alone, peak>>

Phase == {"new", "awaiting", "stopping", "abandoned", "done", "gone"}
Active == {c \in Call : phase[c] \in {"awaiting", "stopping", "abandoned"}}
JobsOf(c) == {t \in Job : t[1] = c}
Working(c) == {t \in JobsOf(c) : lease[t] \in {"held", "returned"}}

Zero == [total |-> 0, ok |-> 0, failed |-> 0, timedOut |-> 0, current |-> 0, max |-> 0]

ExecTypeOK ==
  /\ SemTypeOK
  /\ continueOnError \in BOOLEAN
  /\ phase \in [Call -> Phase]
  /\ outcome \in [Job -> {"pending", "ok", "error", "timeout"}]
  /\ counters \in [total : Nat, ok : Nat, failed : Nat, timedOut : Nat,
                  current : 0..CounterSize - 1, max : 0..CounterSize - 1]
  /\ alone \in [Call -> BOOLEAN]
  /\ peak \in [Call -> Nat]

ExecInit ==
  /\ SemInit
  /\ continueOnError \in BOOLEAN
  /\ phase = [c \in Call |-> "new"]
  /\ outcome = [t \in Job |-> "pending"]
  /\ counters = Zero
  /\ alone = [c \in Call |-> FALSE]
  /\ peak = [c \in Call |-> 0]

---------------------------------------------------------------------------
(* ExecutionStatsCollector *)

(* Mutant of Reset: the tasks counted as running are left as they are. *)
ResetKeepsCurrent(n) == [Zero EXCEPT !.total = n, !.current = counters.current]

(* reset, and the store of the number of tasks. *)
Reset(n) == [Zero EXCEPT !.total = n]

(* increment_concurrent *)
Incremented ==
  LET now == (counters.current + 1) % CounterSize
  IN  [counters EXCEPT !.current = now, !.max = IF now > @ THEN now ELSE @]

(* decrement_concurrent and record_success, record_failure or              *)
(* record_timeout, which counts a failure as well.                         *)
Recorded(o) ==
  [counters EXCEPT !.current = (@ + CounterSize - 1) % CounterSize,
                   !.ok = IF o = "ok" THEN @ + 1 ELSE @,
                   !.failed = IF o = "ok" THEN @ ELSE @ + 1,
                   !.timedOut = IF o = "timeout" THEN @ + 1 ELSE @]

---------------------------------------------------------------------------
(* execute_all *)

(* The thread of c is not about to look at a result. *)
Attentive(c) == \A t \in JobsOf(c) : lease[t] # "returned"

Enter(c, from, to) ==
  /\ phase[c] = from
  /\ phase' = [phase EXCEPT ![c] = to]
  /\ UNCHANGED continueOnError

(* The statistics are reset and the futures are made. *)
Start(c) ==
  /\ Enter(c, "new", "awaiting")
  /\ counters' = Reset(TasksPerCall)
  /\ alone' = [d \in Call |-> IF d = c THEN Active = {} ELSE alone[d] /\ d \notin Active]
  /\ UNCHANGED <<permits, queue, lease, outcome, peak>>

(* A step of task t of an awaited call. *)
OfCall(t) ==
  /\ phase[t[1]] = "awaiting"
  /\ Attentive(t[1])
  /\ outcome[t] = "pending"
  /\ UNCHANGED <<continueOnError, phase, alone>>

(* Mutant of Acquire: a task does not wait when none of its call runs. *)
AcquireOne(t) ==
  /\ OfCall(t)
  /\ \/ TakePermit(t)
     \/ Working(t[1]) # {} /\ WaitInQueue(t)
     \/ /\ Working(t[1]) = {} /\ permits = 0 /\ lease[t] = "none"
        /\ lease' = [lease EXCEPT ![t] = "granted"]
        /\ UNCHANGED <<permits, queue>>
  /\ UNCHANGED <<outcome, counters, peak>>

(* The future is polled for the first time. *)
Acquire(t) ==
  /\ OfCall(t)
  /\ TakePermit(t) \/ WaitInQueue(t)
  /\ UNCHANGED <<outcome, counters, peak>>

(* It has its permit: the task is counted and begins. *)
Begin(t) ==
  /\ OfCall(t)
  /\ Advance(t, "granted", "held")
  /\ counters' = Incremented
  /\ peak' = [peak EXCEPT ![t[1]] =
       IF Cardinality(Working(t[1])) >= @ THEN Cardinality(Working(t[1])) + 1 ELSE @]
  /\ UNCHANGED outcome

(* The task is over, or out of time. *)
Finish(t, o) ==
  /\ OfCall(t)
  /\ o = "timeout" => HasTimeout
  /\ Advance(t, "held", "returned")
  /\ outcome' = [outcome EXCEPT ![t] = o]
  /\ counters' = Recorded(o)
  /\ UNCHANGED peak

(* The future is done; the loop has its result and goes on, or stops.      *)
Yield(t) ==
  /\ lease[t] = "returned"
  /\ DropPermit(t)
  /\ \/ /\ continueOnError \/ outcome[t] = "ok"
        /\ UNCHANGED <<continueOnError, phase>>
     \/ /\ ~continueOnError /\ outcome[t] # "ok"
        /\ Enter(t[1], "awaiting", "stopping")
  /\ UNCHANGED <<outcome, statVars>>

(* The results of c leave the executor, and with them what is known of c.  *)
HandOver(c) ==
  /\ outcome' = [t \in Job |-> IF t[1] = c THEN "pending" ELSE outcome[t]]
  /\ alone' = [alone EXCEPT ![c] = FALSE]
  /\ peak' = [peak EXCEPT ![c] = 0]
  /\ UNCHANGED <<permits, queue, lease, counters>>

(* The future of execute_all itself is dropped. *)
Abandon(c) ==
  /\ Attentive(c)
  /\ Enter(c, "awaiting", "abandoned")
  /\ HandOver(c)

(* Mutant of DropTask: a permit that came after the last poll is lost. *)
DropTaskUnpolled(t) ==
  /\ phase[t[1]] \in {"stopping", "abandoned"}
  /\ \/ StopWaiting(t)
     \/ Advance(t, "granted", "none")
     \/ lease[t] = "held" /\ DropPermit(t)
  /\ UNCHANGED <<continueOnError, phase, outcome, statVars>>

(* One of the remaining futures is dropped where it stands, in the queue,  *)
(* with a permit it does not know of yet, or at work; nothing is counted.  *)
DropTask(t) ==
  /\ phase[t[1]] \in {"stopping", "abandoned"}
  /\ StopWaiting(t) \/ (lease[t] \in {"granted", "held"} /\ DropPermit(t))
  /\ UNCHANGED <<continueOnError, phase, outcome, statVars>>

Dropped(c) == \A t \in JobsOf(c) : lease[t] = "none"

(* The last result is in, or the other futures are dropped. *)
Complete(c) ==
  /\ Dropped(c)
  /\ \/ phase[c] = "awaiting" /\ \A t \in JobsOf(c) : outcome[t] # "pending"
     \/ phase[c] = "stopping"

(* The counters as they stand are the statistics c returns. *)
Finalize(c) ==
  /\ Complete(c)
  /\ Enter(c, phase[c], "done")
  /\ HandOver(c)

(* An abandoned call returns nothing. *)
Vanish(c) ==
  /\ Enter(c, "abandoned", "gone")
  /\ Dropped(c)
  /\ UNCHANGED <<permits, queue, lease, outcome, statVars>>

---------------------------------------------------------------------------
Results == {"ok", "error", "timeout"}

TaskStepOf(t) ==
  \/ Acquire(t)
  \/ Begin(t)
  \/ \E o \in Results : Finish(t, o)
  \/ Yield(t)
  \/ DropTask(t)

ExecNext ==
  \/ \E c \in Call : Start(c) \/ Abandon(c) \/ Finalize(c) \/ Vanish(c)
  \/ \E t \in Job : TaskStepOf(t)

ExecSpec == ExecInit /\ [][ExecNext]_execVars

(* A thread that awaits a call polls it when a future can go on; a task    *)
(* ends or is timed out.                                                   *)
ExecFairness ==
  /\ \A t \in Job : WF_execVars(TaskStepOf(t))
  /\ \A c \in Call : WF_execVars(Finalize(c) \/ Vanish(c))

FairExec == ExecSpec /\ ExecFairness

---------------------------------------------------------------------------
(* Properties *)

(* "at most max_concurrency tasks run at once" (concurrent.rs:204), over   *)
(* all the calls that share the executor, whatever fails, is timed out,    *)
(* stops the others or is dropped.                                         *)
RunningBounded ==
  Cardinality(UNION {Working(c) : c \in Call}) <= MaxConcurrency

(* Every call that is awaited returns: no failed, dropped or abandoned     *)
(* call takes a permit with it that others wait for.                       *)
CallsReturn == \A c \in Call : phase[c] = "awaiting" ~> phase[c] \in {"done", "gone"}

ResultsOf(c, rs) == {t \in JobsOf(c) : outcome[t] \in rs}

(* The statistics of a call that shared the executor with no other call    *)
(* are exact, although calls that were stopped or abandoned before it left *)
(* their tasks counted as running.                                         *)
LoneReportIsExact ==
  \A c \in Call : Complete(c) /\ alone[c] =>
    /\ counters.total = TasksPerCall
    /\ counters.ok = Cardinality(ResultsOf(c, {"ok"}))
    /\ counters.failed = Cardinality(ResultsOf(c, {"error", "timeout"}))
    /\ counters.timedOut = Cardinality(ResultsOf(c, {"timeout"}))
    /\ counters.max = peak[c]
===========================================================================
