---------------------- MODULE ConcurrentExecutorProofs ----------------------
(***************************************************************************)
(* Proofs about ConcurrentExecutor: for any calls, any number of tasks and *)
(* any limit, the limit holds over all the calls that share the executor.  *)
(* It is the semaphore's invariant that carries it, so the steps of the    *)
(* executor are shown to use the semaphore as its lemmas require: a permit *)
(* is dropped only by a task that owns one, whichever way it ends.  That   *)
(* the statistics of a call that was alone are exact is shown with LoneInv *)
(* below, which follows the counters from task to task.                    *)
(***************************************************************************)
EXTENDS ConcurrentExecutor, FiniteSetTheorems, TLAPS

Sem == INSTANCE SemaphoreProofs WITH Req <- Job, MaxConnections <- MaxConcurrency

(* The instance's operators about finite sets are the ones used here. *)
LEMMA SameCardinality ==
  ASSUME NEW S
  PROVE  /\ Sem!IsFiniteSet(S) <=> IsFiniteSet(S)
         /\ Sem!Cardinality(S) = Cardinality(S)
<1>1. Sem!IsFiniteSet(S) <=> IsFiniteSet(S)
  BY DEF IsFiniteSet, Sem!IsFiniteSet
<1>2. Sem!Cardinality(S) = Cardinality(S)
  BY DEF Cardinality, Sem!Cardinality
<1>3. QED
  BY <1>1, <1>2

(* The tasks of the calls are finitely many: the semaphore's assumption. *)
LEMMA JobsAreFinite == Sem!SemaphoreAssumption
<1>1. IsFiniteSet(1..TasksPerCall)
  BY ExecutorAssumption, FS_Interval
<1>2. IsFiniteSet(Job)
  BY <1>1, ExecutorAssumption, FS_Product DEF Job
<1>3. QED
  BY <1>2, ExecutorAssumption, SameCardinality DEF Sem!SemaphoreAssumption

(* The operations of the executor's semaphore keep its invariant. *)
LEMMA TakeKeeps ==
  ASSUME Sem!SemInv, NEW t \in Job, TakePermit(t) \/ WaitInQueue(t) \/ StopWaiting(t)
  PROVE  Sem!SemInv'
<1>1. CASE TakePermit(t)
  <2>1. Sem!TakePermit(t)
    BY <1>1 DEF TakePermit, Sem!TakePermit
  <2>2. QED
    BY <2>1, JobsAreFinite, Sem!TakePermitInv
<1>2. CASE WaitInQueue(t)
  <2>1. Sem!WaitInQueue(t)
    BY <1>2 DEF WaitInQueue, Sem!WaitInQueue
  <2>2. QED
    BY <2>1, JobsAreFinite, Sem!WaitInQueueInv
<1>3. CASE StopWaiting(t)
  <2>1. Sem!StopWaiting(t)
    BY <1>3 DEF StopWaiting, Sem!StopWaiting
  <2>2. QED
    BY <2>1, JobsAreFinite, Sem!StopWaitingInv
<1>4. QED
  BY <1>1, <1>2, <1>3

(* A task that begins or ends its work keeps its place. *)
LEMMA AdvanceKeeps ==
  ASSUME Sem!SemInv, NEW t \in Job,
         NEW from \in {"granted", "held"}, NEW to \in {"held", "returned"}, Advance(t, from, to)
  PROVE  Sem!SemInv'
<1>1. Sem!Advance(t, from, to) /\ from \in Sem!WithPermit /\ to \in Sem!WithPermit
  BY DEF Advance, Sem!Advance, Sem!WithPermit
<1>2. QED
  BY <1>1, JobsAreFinite, Sem!AdvanceInv

(* A task that gives its place back. *)
LEMMA DropKeeps ==
  ASSUME Sem!SemInv, NEW t \in Job, lease[t] \in {"granted", "held", "returned"}, DropPermit(t)
  PROVE  Sem!SemInv'
<1>1. Sem!DropPermit(t) /\ lease[t] \in Sem!WithPermit
  BY DEF DropPermit, Sem!DropPermit, Sem!WithPermit
<1>2. QED
  BY <1>1, JobsAreFinite, Sem!DropPermitInv

(* The semaphore is not touched. *)
LEMMA UntouchedKeeps ==
  ASSUME Sem!SemInv, UNCHANGED <<permits, queue, lease>>
  PROVE  Sem!SemInv'
<1>1. UNCHANGED Sem!semVars
  BY DEF Sem!semVars
<1>2. QED
  BY <1>1, JobsAreFinite, Sem!SemStutter

---------------------------------------------------------------------------
(* No task has run. *)
LEMMA ExecInitInv == ExecInit => Sem!SemInv
<1>1. ExecInit => Sem!SemInit
  BY DEF ExecInit, SemInit, Sem!SemInit
<1>2. QED
  BY <1>1, JobsAreFinite, Sem!SemInitInv

(* One step of one task. *)
LEMMA TaskKeeps ==
  ASSUME Sem!SemInv, NEW t \in Job, TaskStepOf(t)
  PROVE  Sem!SemInv'
<1>1. CASE Acquire(t)
  BY <1>1, TakeKeeps DEF Acquire
<1>2. CASE Begin(t)
  BY <1>2, AdvanceKeeps DEF Begin
<1>3. ASSUME NEW o \in Results, Finish(t, o)
      PROVE  Sem!SemInv'
  BY <1>3, AdvanceKeeps DEF Finish
<1>4. CASE Yield(t)
  BY <1>4, DropKeeps DEF Yield
<1>5. CASE DropTask(t)
  BY <1>5, TakeKeeps, DropKeeps DEF DropTask
<1>6. QED
  BY <1>1, <1>2, <1>3, <1>4, <1>5 DEF TaskStepOf

(* The semaphore's invariant is kept by the executor's steps. *)
LEMMA ExecNextInv == Sem!SemInv /\ [ExecNext]_execVars => Sem!SemInv'
<1> SUFFICES ASSUME Sem!SemInv, [ExecNext]_execVars PROVE Sem!SemInv'
  OBVIOUS
<1>1. ASSUME NEW c \in Call, Start(c) \/ Abandon(c) \/ Finalize(c) \/ Vanish(c)
      PROVE  UNCHANGED <<permits, queue, lease>>
  BY <1>1 DEF Start, Abandon, Finalize, Vanish, HandOver
<1>2. CASE UNCHANGED execVars
  BY <1>2, UntouchedKeeps DEF execVars
<1>3. QED
  BY <1>1, <1>2, UntouchedKeeps, TaskKeeps DEF ExecNext

---------------------------------------------------------------------------
(* Theorems *)

(* The permits of the executor are conserved, and none lies idle while a   *)
(* task waits, however tasks fail, time out and are dropped.               *)
THEOREM ExecutorPermits == ExecSpec => []Sem!SemInv
BY ExecInitInv, ExecNextInv, PTL DEF ExecSpec

(* The counters wrap within their width, and everything else has its type *)
(* (ExecutionStatsCollector, concurrent.rs:358).                           *)
THEOREM ExecutorTypes == ExecSpec => []ExecTypeOK
<1>1. SemTypeOK <=> Sem!SemTypeOK
  BY DEF SemTypeOK, Sem!SemTypeOK, LeaseState, Sem!LeaseState
<1>2. ASSUME Sem!SemInv, ExecInit
      PROVE  ExecTypeOK
  <2>1. SemTypeOK
    BY <1>1, <1>2 DEF Sem!SemInv
  <2>2. counters = Zero /\ CounterSize \in Nat \ {0}
    BY <1>2, ExecutorAssumption DEF ExecInit
  <2>3. QED
    BY <1>2, <2>1, <2>2 DEF ExecInit, ExecTypeOK, Phase, Zero
<1>3. ASSUME Sem!SemInv', ExecTypeOK, [ExecNext]_execVars
      PROVE  ExecTypeOK'
  <2>1. SemTypeOK'
    BY <1>3 DEF SemTypeOK, Sem!SemTypeOK, LeaseState, Sem!LeaseState, Sem!SemInv
  <2>2. ASSUME NEW c \in Call, Start(c) \/ Abandon(c) \/ Finalize(c) \/ Vanish(c)
        PROVE  ExecTypeOK'
    <3>1. phase' \in [Call -> Phase] /\ UNCHANGED continueOnError
      BY <1>3, <2>2 DEF Start, Abandon, Finalize, Vanish, Enter, ExecTypeOK, Phase
    <3>2. /\ outcome' \in [Job -> {"pending", "ok", "error", "timeout"}]
          /\ peak' \in [Call -> Nat]
      BY <1>3, <2>2 DEF Start, Abandon, Finalize, Vanish, HandOver, statVars, ExecTypeOK
    <3>3. counters' \in {counters, Reset(TasksPerCall)}
      BY <2>2 DEF Start, Abandon, Finalize, Vanish, HandOver, statVars
    <3>4. Reset(TasksPerCall) \in [total : Nat, ok : Nat, failed : Nat, timedOut : Nat,
                                    current : 0..CounterSize - 1, max : 0..CounterSize - 1]
      BY ExecutorAssumption DEF Reset, Zero
    <3>5. alone' \in [Call -> BOOLEAN]
      <4>1. \/ alone' = [d \in Call |-> IF d = c THEN Active = {} ELSE alone[d] /\ d \notin Active]
            \/ alone' = [alone EXCEPT ![c] = FALSE]
            \/ UNCHANGED alone
        BY <2>2 DEF Start, Abandon, Finalize, Vanish, HandOver, statVars
      <4>2. QED
        BY <1>3, <4>1, Zenon DEF ExecTypeOK
    <3>6. QED
      BY <1>3, <2>1, <3>1, <3>3, <3>4, <3>5, <3>2 DEF ExecTypeOK
  <2>3. ASSUME NEW t \in Job, TaskStepOf(t)
        PROVE  ExecTypeOK'
    <3>1. t[1] \in Call
      BY DEF Job
    <3>2. UNCHANGED <<continueOnError, alone>> /\ phase' \in [Call -> Phase]
      BY <1>3, <2>3, <3>1 DEF TaskStepOf, Acquire, Begin, Finish, Yield, DropTask, OfCall, Enter,
         statVars, ExecTypeOK, Phase
    <3>3. outcome' \in [Job -> {"pending", "ok", "error", "timeout"}]
      BY <1>3, <2>3 DEF TaskStepOf, Acquire, Begin, Finish, Yield, DropTask, Results, ExecTypeOK
    <3>4. peak' \in [Call -> Nat]
      <4>1. Working(t[1]) \in SUBSET Job
        BY DEF Working, JobsOf
      <4>2. Cardinality(Working(t[1])) \in Nat
        BY <4>1, JobsAreFinite, SameCardinality, FS_Subset, FS_CardinalityType
        DEF Sem!SemaphoreAssumption
      <4>3. QED
        BY <1>3, <2>3, <3>1, <4>2 DEF TaskStepOf, Acquire, Begin, Finish, Yield, DropTask, statVars,
           ExecTypeOK
    <3>5. counters' \in [total : Nat, ok : Nat, failed : Nat, timedOut : Nat,
                         current : 0..CounterSize - 1, max : 0..CounterSize - 1]
      <4>1. \/ UNCHANGED counters
            \/ counters' = Incremented
            \/ \E o \in Results : counters' = Recorded(o)
        BY <2>3 DEF TaskStepOf, Acquire, Begin, Finish, Yield, DropTask, statVars
      <4>2. /\ (counters.current + 1) % CounterSize \in 0..CounterSize - 1
            /\ (counters.current + CounterSize - 1) % CounterSize \in 0..CounterSize - 1
        BY <1>3, ExecutorAssumption DEF ExecTypeOK
      <4> DEFINE Counters == [total : Nat, ok : Nat, failed : Nat, timedOut : Nat,
                              current : 0..CounterSize - 1, max : 0..CounterSize - 1]
      <4>3. counters \in Counters
        BY <1>3 DEF ExecTypeOK
      <4>4. Incremented \in Counters
        BY <4>2, <4>3 DEF Incremented
      <4>5. ASSUME NEW o
            PROVE  Recorded(o) \in Counters
        <5> DEFINE now == (counters.current + CounterSize - 1) % CounterSize
                   oks == IF o = "ok" THEN counters.ok + 1 ELSE counters.ok
                   fails == IF o = "ok" THEN counters.failed ELSE counters.failed + 1
                   late == IF o = "timeout" THEN counters.timedOut + 1 ELSE counters.timedOut
        <5>1. now \in 0..CounterSize - 1 /\ oks \in Nat /\ fails \in Nat /\ late \in Nat
          BY <4>2, <4>3
        <5>2. Recorded(o) = [counters EXCEPT !.current = now, !.ok = oks,
                                            !.failed = fails, !.timedOut = late]
          BY <4>3 DEF Recorded
        <5> HIDE DEF now, oks, fails, late
        <5>3. QED
          BY <4>3, <5>1, <5>2
      <4>6. QED
        BY <4>1, <4>3, <4>4, <4>5
    <3>6. QED
      BY <2>1, <3>2, <3>3, <3>4, <3>5, <1>3 DEF ExecTypeOK
  <2>4. CASE UNCHANGED execVars
    <3>1. UNCHANGED <<continueOnError, phase, outcome, counters, alone, peak>>
      BY <2>4 DEF execVars
    <3>2. QED
      BY <1>3, <2>1, <3>1 DEF ExecTypeOK
  <2>5. QED
    BY <1>3, <2>2, <2>3, <2>4 DEF ExecNext
<1>4. QED
  BY <1>2, <1>3, ExecutorPermits, PTL DEF ExecSpec

(* "at most max_concurrency tasks run at once" (concurrent.rs:204), over   *)
(* all the calls that share the executor.                                  *)
THEOREM LimitHolds == ExecSpec => []RunningBounded
<1>1. Sem!SemInv => RunningBounded
  <2> SUFFICES ASSUME Sem!SemInv PROVE RunningBounded
    OBVIOUS
  <2> DEFINE running == UNION {Working(c) : c \in Call}
  <2>1. IsFiniteSet(Sem!Permitted) /\ Cardinality(Sem!Permitted) \in Nat
    <3>1. Sem!Permitted \in SUBSET Job
      BY DEF Sem!Permitted
    <3>2. IsFiniteSet(Job)
      BY JobsAreFinite, SameCardinality DEF Sem!SemaphoreAssumption
    <3>3. QED
      BY <3>1, <3>2, FS_Subset, FS_CardinalityType
  <2>2. running \in SUBSET Sem!Permitted
    BY DEF Working, JobsOf, Sem!Permitted, Sem!WithPermit
  <2>3. IsFiniteSet(running) /\ Cardinality(running) <= Cardinality(Sem!Permitted)
    BY <2>1, <2>2, FS_Subset
  <2>4. Cardinality(running) \in Nat
    BY <2>3, FS_CardinalityType
  <2>5. permits \in Nat /\ permits + Cardinality(Sem!Permitted) = MaxConcurrency
    BY ExecutorAssumption, SameCardinality DEF Sem!SemInv, Sem!SemTypeOK, Sem!PermitAccounting
  <2> HIDE DEF running
  <2>6. Cardinality(running) <= MaxConcurrency
    BY <2>1, <2>3, <2>4, <2>5, ExecutorAssumption
  <2>7. QED
    BY <2>6 DEF RunningBounded, running
<1>2. QED
  BY <1>1, ExecutorPermits, PTL
---------------------------------------------------------------------------
(* The report of a call that is alone *)

(* The tasks of c that are counted as running. *)
Held(c) == {t \in JobsOf(c) : lease[t] = "held"}

(* Only tasks of calls in progress are in the queue or own a permit. *)
OnlyActiveWork == \A t \in Job : lease[t] # "none" => t[1] \in Active

(* Nothing is left of a call that has returned or was given up. *)
NothingLeft ==
  \A c \in Call : phase[c] \notin {"awaiting", "stopping"} =>
    peak[c] = 0 /\ \A t \in JobsOf(c) : outcome[t] = "pending"

(* A call that started alone is alone until another one starts. *)
AloneIsAlone == \A c \in Call : alone[c] => Active = {c} /\ phase[c] # "abandoned"

(* While it is, the counters are its own; the tasks counted as running are *)
(* the ones that run until it stops at an error.                           *)
CountersAreItsOwn ==
  \A c \in Call : alone[c] =>
    /\ counters.total = TasksPerCall
    /\ counters.ok = Cardinality(ResultsOf(c, {"ok"}))
    /\ counters.failed = Cardinality(ResultsOf(c, {"error", "timeout"}))
    /\ counters.timedOut = Cardinality(ResultsOf(c, {"timeout"}))
    /\ counters.max = peak[c]
    /\ phase[c] = "awaiting" => counters.current = Cardinality(Held(c))

LoneInv ==
  /\ OnlyActiveWork
  /\ NothingLeft
  /\ AloneIsAlone
  /\ CountersAreItsOwn
---------------------------------------------------------------------------
(* The tasks of a call are no more than a counter can count. *)
LEMMA TasksAreFew ==
  ASSUME NEW c \in Call, NEW S \in SUBSET JobsOf(c)
  PROVE  /\ IsFiniteSet(S)
         /\ Cardinality(S) \in Nat
         /\ Cardinality(S) <= TasksPerCall
<1> DEFINE f == [i \in 1..TasksPerCall |-> <<c, i>>]
<1>1. JobsOf(c) \in SUBSET Job /\ IsFiniteSet(Job)
  BY JobsAreFinite, SameCardinality DEF JobsOf, Sem!SemaphoreAssumption
<1>2. f \in Surjection(1..TasksPerCall, JobsOf(c))
  <2>1. \A i \in 1..TasksPerCall : f[i] \in JobsOf(c)
    BY DEF JobsOf, Job
  <2>2. \A t \in JobsOf(c) : t[2] \in 1..TasksPerCall /\ f[t[2]] = t
    BY DEF JobsOf, Job
  <2>3. QED
    BY <2>1, <2>2 DEF Surjection
<1>3. Cardinality(JobsOf(c)) <= TasksPerCall
  BY <1>2, ExecutorAssumption, FS_SurjCardinalityBound DEF ExistsSurjection
<1>4. IsFiniteSet(JobsOf(c))
  BY <1>1, FS_Subset
<1>5. IsFiniteSet(S) /\ Cardinality(S) <= Cardinality(JobsOf(c))
  BY <1>4, FS_Subset
<1>6. Cardinality(S) \in Nat /\ Cardinality(JobsOf(c)) \in Nat
  BY <1>4, <1>5, FS_CardinalityType
<1>7. QED
  BY <1>3, <1>5, <1>6, ExecutorAssumption

(* A dropped permit goes to a waiter or back to the semaphore. *)
LEMMA DropMoves ==
  ASSUME Sem!SemInv, NEW t \in Job, lease[t] \in {"granted", "held", "returned"}, DropPermit(t)
  PROVE  /\ lease'[t] = "none"
         /\ \A u \in Job \ {t} : \/ lease'[u] = lease[u]
                                 \/ lease[u] = "queued" /\ lease'[u] = "granted"
<1>1. /\ lease \in [Job -> LeaseState]
      /\ queue \in Seq(Job)
      /\ \A u \in Job : (\E i \in 1..Len(queue) : queue[i] = u) => lease[u] = "queued"
  BY DEF Sem!SemInv, Sem!SemTypeOK, Sem!NoIdlePermitWhileWaiting, Sem!LeaseState, LeaseState
<1>2. CASE queue = <<>>
  BY <1>1, <1>2 DEF DropPermit
<1>3. CASE queue # <<>>
  <2>1. PICK h \in Job : h = Head(queue) /\ lease[h] = "queued"
    <3>1. Head(queue) = queue[1] /\ Len(queue) >= 1 /\ Len(queue) \in Nat
      BY <1>1, <1>3
    <3>2. Head(queue) \in Job
      BY <1>1, <1>3
    <3>3. QED
      BY <1>1, <3>1, <3>2
  <2>2. lease' = [lease EXCEPT ![t] = "none", ![h] = "granted"]
    BY <1>3, <2>1 DEF DropPermit
  <2>3. QED
    BY <1>1, <2>1, <2>2
<1>4. QED
  BY <1>2, <1>3

(* Which calls are in progress, and which of them alone, is not up to the  *)
(* tasks.                                                                  *)
LEMMA TasksLeaveCalls ==
  ASSUME ExecTypeOK, NEW t \in Job, TaskStepOf(t)
  PROVE  /\ alone' = alone
         /\ Active' = Active
         /\ \A c \in Call : \/ phase'[c] = phase[c]
                            \/ phase[c] = "awaiting" /\ phase'[c] = "stopping"
<1>1. t[1] \in Call
  BY DEF Job
<1>2. alone' = alone
  BY DEF TaskStepOf, Acquire, Begin, Finish, Yield, DropTask, OfCall, statVars
<1>3. \/ phase' = phase
      \/ phase[t[1]] = "awaiting" /\ phase' = [phase EXCEPT ![t[1]] = "stopping"]
  BY DEF TaskStepOf, Acquire, Begin, Finish, Yield, DropTask, OfCall, Enter
<1>4. \A c \in Call : \/ phase'[c] = phase[c]
                      \/ phase[c] = "awaiting" /\ phase'[c] = "stopping"
  BY <1>1, <1>3 DEF ExecTypeOK
<1>5. Active' = Active
  BY <1>4 DEF Active
<1>6. QED
  BY <1>2, <1>4, <1>5

(* How a step of a task moves its own lease and those of the others.       *)
LEMMA TasksMoveLeases ==
  ASSUME Sem!SemInv, ExecTypeOK, OnlyActiveWork, NEW t \in Job, TaskStepOf(t)
  PROVE  /\ t[1] \in Active
         /\ \A u \in Job \ {t} : \/ lease'[u] = lease[u]
                                 \/ lease[u] = "queued" /\ lease'[u] = "granted"
<1>1. t[1] \in Call /\ lease \in [Job -> LeaseState]
  BY DEF Job, ExecTypeOK, SemTypeOK
<1>2. t[1] \in Active
  BY <1>1 DEF TaskStepOf, Acquire, Begin, Finish, Yield, DropTask, OfCall, Active, OnlyActiveWork
<1>3. CASE lease[t] \in {"granted", "held", "returned"} /\ DropPermit(t)
  BY <1>2, <1>3, DropMoves
<1>4. CASE \E l : lease' = [lease EXCEPT ![t] = l]
  BY <1>1, <1>2, <1>4
<1>5. \/ lease[t] \in {"granted", "held", "returned"} /\ DropPermit(t)
      \/ \E l : lease' = [lease EXCEPT ![t] = l]
  BY DEF TaskStepOf, Acquire, Begin, Finish, Yield, DropTask, TakePermit, WaitInQueue,
     StopWaiting, Advance
<1>6. QED
  BY <1>3, <1>4, <1>5

(* The tasks counted as running change with t alone. *)
LEMMA HeldMoves ==
  ASSUME Sem!SemInv, ExecTypeOK, OnlyActiveWork, NEW t \in Job, TaskStepOf(t),
         NEW c \in Call, c = t[1]
  PROVE  Held(c)' = IF lease'[t] = "held" THEN Held(c) \cup {t} ELSE Held(c) \ {t}
<1>1. \A u \in Job \ {t} : lease'[u] = "held" <=> lease[u] = "held"
  BY TasksMoveLeases
<1>2. t \in JobsOf(c) /\ JobsOf(c)' = JobsOf(c) /\ JobsOf(c) \subseteq Job
  BY DEF JobsOf
<1>3. QED
  BY <1>1, <1>2 DEF Held

(* Begin counts one task more, in the counter and in the maximum. *)
LEMMA BeginCounts ==
  ASSUME Sem!SemInv, ExecTypeOK, LoneInv, NEW t \in Job, Begin(t),
         NEW c \in Call, c = t[1], alone[c]
  PROVE  /\ counters' = [counters EXCEPT !.current = counters'.current, !.max = peak'[c]]
         /\ counters'.current = Cardinality(Held(c)')
<1> DEFINE n == Cardinality(Held(c))
<1>1. /\ phase[c] = "awaiting" /\ Attentive(c) /\ outcome[t] = "pending"
      /\ lease[t] = "granted" /\ lease' = [lease EXCEPT ![t] = "held"]
      /\ counters' = Incremented
      /\ peak' = [peak EXCEPT ![c] =
           IF Cardinality(Working(c)) >= peak[c] THEN Cardinality(Working(c)) + 1 ELSE peak[c]]
  BY DEF Begin, OfCall, Advance
<1>2. counters.current = n /\ counters.max = peak[c]
  BY <1>1 DEF LoneInv, CountersAreItsOwn
<1>3. t \in JobsOf(c) /\ t \notin Held(c) /\ Held(c) \in SUBSET JobsOf(c)
  BY <1>1 DEF JobsOf, Held
<1>4. Held(c)' = Held(c) \cup {t}
  <2>1. lease'[t] = "held"
    BY <1>1 DEF ExecTypeOK, SemTypeOK
  <2>2. TaskStepOf(t)
    BY DEF TaskStepOf
  <2>3. QED
    BY <2>1, <2>2, HeldMoves DEF LoneInv
<1>5. /\ IsFiniteSet(Held(c))
      /\ n \in Nat
      /\ Cardinality(Held(c) \cup {t}) = n + 1
      /\ n + 1 <= TasksPerCall
  <2>1. IsFiniteSet(Held(c)) /\ n \in Nat
    BY <1>3, TasksAreFew
  <2>2. Held(c) \cup {t} \in SUBSET JobsOf(c)
    BY <1>3
  <2>3. Cardinality(Held(c) \cup {t}) <= TasksPerCall
    BY <2>2, TasksAreFew
  <2>4. Cardinality(Held(c) \cup {t}) = n + 1
    BY <1>3, <2>1, FS_AddElement
  <2>5. QED
    BY <2>1, <2>3, <2>4
<1>6. Working(c) = Held(c)
  BY <1>1 DEF Working, Held, Attentive
<1> HIDE DEF n
<1>7. (n + 1) % CounterSize = n + 1
  BY <1>5, ExecutorAssumption
<1>8. /\ counters'.current = n + 1
      /\ counters' = [counters EXCEPT !.current = n + 1,
                                      !.max = IF n + 1 > peak[c] THEN n + 1 ELSE peak[c]]
  BY <1>1, <1>2, <1>7 DEF Incremented, ExecTypeOK
<1>9. peak'[c] = IF n + 1 > peak[c] THEN n + 1 ELSE peak[c]
  <2>1. peak[c] \in Nat /\ peak'[c] = IF n >= peak[c] THEN n + 1 ELSE peak[c]
    BY <1>1, <1>6 DEF n, ExecTypeOK
  <2>2. QED
    BY <1>5, <2>1
<1>10. QED
  BY <1>4, <1>5, <1>8, <1>9

(* Finish takes the task from the ones that run to the ones of its outcome. *)
LEMMA FinishCounts ==
  ASSUME Sem!SemInv, ExecTypeOK, LoneInv, NEW t \in Job, NEW o \in Results, Finish(t, o),
         NEW c \in Call, c = t[1], alone[c]
  PROVE  /\ counters'.total = TasksPerCall
         /\ counters'.ok = Cardinality(ResultsOf(c, {"ok"})')
         /\ counters'.failed = Cardinality(ResultsOf(c, {"error", "timeout"})')
         /\ counters'.timedOut = Cardinality(ResultsOf(c, {"timeout"})')
         /\ counters'.max = peak'[c]
         /\ counters'.current = Cardinality(Held(c)')
<1> DEFINE n == Cardinality(Held(c))
<1>1. /\ phase[c] = "awaiting" /\ outcome[t] = "pending" /\ lease[t] = "held"
      /\ lease' = [lease EXCEPT ![t] = "returned"]
      /\ outcome' = [outcome EXCEPT ![t] = o]
      /\ counters' = Recorded(o)
      /\ peak' = peak
  BY DEF Finish, OfCall, Advance
<1>2. /\ counters.total = TasksPerCall
      /\ counters.ok = Cardinality(ResultsOf(c, {"ok"}))
      /\ counters.failed = Cardinality(ResultsOf(c, {"error", "timeout"}))
      /\ counters.timedOut = Cardinality(ResultsOf(c, {"timeout"}))
      /\ counters.max = peak[c]
      /\ counters.current = n
  BY <1>1 DEF LoneInv, CountersAreItsOwn
<1>3. t \in Held(c) /\ Held(c) \in SUBSET JobsOf(c)
  BY <1>1 DEF JobsOf, Held
<1>4. Held(c)' = Held(c) \ {t}
  <2>1. lease'[t] # "held"
    BY <1>1 DEF ExecTypeOK, SemTypeOK
  <2>2. TaskStepOf(t)
    BY DEF TaskStepOf
  <2>3. QED
    BY <2>1, <2>2, HeldMoves DEF LoneInv
<1>5. n \in Nat \ {0} /\ n <= TasksPerCall /\ Cardinality(Held(c) \ {t}) = n - 1
  <2>1. IsFiniteSet(Held(c)) /\ n \in Nat /\ n <= TasksPerCall
    BY <1>3, TasksAreFew
  <2>2. Cardinality(Held(c) \ {t}) = n - 1 /\ n # 0
    BY <1>3, <2>1, FS_RemoveElement, FS_EmptySet
  <2>3. QED
    BY <2>1, <2>2
<1> HIDE DEF n
<1>6. (n + CounterSize - 1) % CounterSize = n - 1
  <2>1. n + CounterSize - 1 = 1 * CounterSize + (n - 1) /\ n - 1 \in 0..CounterSize - 1
    BY <1>5, ExecutorAssumption
  <2>2. QED
    BY <1>5, <2>1, ExecutorAssumption
<1>7. counters'.current = n - 1
  BY <1>1, <1>2, <1>6 DEF Recorded, ExecTypeOK
<1>8. /\ counters'.total = counters.total
      /\ counters'.max = counters.max
      /\ counters'.ok = counters.ok + (IF o \in {"ok"} THEN 1 ELSE 0)
      /\ counters'.failed = counters.failed + (IF o \in {"error", "timeout"} THEN 1 ELSE 0)
      /\ counters'.timedOut = counters.timedOut + (IF o \in {"timeout"} THEN 1 ELSE 0)
  BY <1>1 DEF Recorded, ExecTypeOK, Results
<1>9. ASSUME NEW rs \in SUBSET Results, NEW after,
             after = {u \in JobsOf(c) : outcome'[u] \in rs}
      PROVE  /\ Cardinality(ResultsOf(c, rs)) \in Nat
             /\ o \in rs => Cardinality(after) = Cardinality(ResultsOf(c, rs)) + 1
             /\ o \notin rs => Cardinality(after) = Cardinality(ResultsOf(c, rs))
  <2>1. t \in JobsOf(c) /\ \A u \in JobsOf(c) : outcome'[u] = IF u = t THEN o ELSE outcome[u]
    BY <1>1 DEF ExecTypeOK, JobsOf
  <2>2. /\ t \notin ResultsOf(c, rs)
        /\ after = IF o \in rs THEN ResultsOf(c, rs) \cup {t} ELSE ResultsOf(c, rs)
    BY <1>1, <1>9, <2>1 DEF ResultsOf, Results
  <2>3. IsFiniteSet(ResultsOf(c, rs)) /\ Cardinality(ResultsOf(c, rs)) \in Nat
    <3>1. ResultsOf(c, rs) \in SUBSET JobsOf(c)
      BY DEF ResultsOf
    <3>2. QED
      BY <3>1, TasksAreFew
  <2>4. ASSUME o \in rs
        PROVE  Cardinality(after) = Cardinality(ResultsOf(c, rs)) + 1
    BY <2>2, <2>3, <2>4, FS_AddElement
  <2>5. ASSUME o \notin rs
        PROVE  Cardinality(after) = Cardinality(ResultsOf(c, rs))
    BY <2>2, <2>5
  <2>6. QED
    BY <2>3, <2>4, <2>5
<1>10. ASSUME NEW rs \in SUBSET Results
       PROVE  ResultsOf(c, rs)' = {u \in JobsOf(c) : outcome'[u] \in rs}
  BY DEF ResultsOf, JobsOf
<1>11. counters'.ok = Cardinality(ResultsOf(c, {"ok"})')
  BY <1>2, <1>8, <1>9, <1>10 DEF Results
<1>12. counters'.failed = Cardinality(ResultsOf(c, {"error", "timeout"})')
  BY <1>2, <1>8, <1>9, <1>10 DEF Results
<1>13. counters'.timedOut = Cardinality(ResultsOf(c, {"timeout"})')
  BY <1>2, <1>8, <1>9, <1>10 DEF Results
<1>14. QED
  BY <1>1, <1>2, <1>4, <1>5, <1>7, <1>8, <1>11, <1>12, <1>13

(* LoneInv is kept by the steps of the tasks. *)
LEMMA TaskLoneInv ==
  ASSUME Sem!SemInv, ExecTypeOK, LoneInv, NEW t \in Job, TaskStepOf(t)
  PROVE  LoneInv'
<1>1. /\ alone' = alone
      /\ Active' = Active
      /\ \A c \in Call : \/ phase'[c] = phase[c]
                         \/ phase[c] = "awaiting" /\ phase'[c] = "stopping"
  BY TasksLeaveCalls
<1>2. /\ t[1] \in Active
      /\ \A u \in Job \ {t} : \/ lease'[u] = lease[u]
                              \/ lease[u] = "queued" /\ lease'[u] = "granted"
  BY TasksMoveLeases DEF LoneInv
<1>3. OnlyActiveWork'
  BY <1>1, <1>2 DEF LoneInv, OnlyActiveWork
<1>4. NothingLeft'
  <2>1. SUFFICES ASSUME NEW c \in Call, phase'[c] \notin {"awaiting", "stopping"}
                 PROVE  peak'[c] = 0 /\ \A u \in JobsOf(c) : outcome'[u] = "pending"
    BY DEF NothingLeft, JobsOf
  <2>2. phase[c] \notin {"awaiting", "stopping"}
    BY <1>1, <2>1
  <2>3. peak[c] = 0 /\ \A u \in JobsOf(c) : outcome[u] = "pending"
    BY <2>2 DEF LoneInv, NothingLeft
  <2>4. CASE \E o \in Results : Begin(t) \/ Finish(t, o)
    <3>1. c # t[1] /\ t \notin JobsOf(c)
      BY <2>2, <2>4 DEF Begin, Finish, OfCall, JobsOf
    <3>2. /\ peak' = peak \/ \E n : peak' = [peak EXCEPT ![t[1]] = n]
          /\ outcome' = outcome \/ \E o : outcome' = [outcome EXCEPT ![t] = o]
      BY <2>4 DEF Begin, Finish
    <3>3. peak'[c] = peak[c]
      BY <3>1, <3>2 DEF ExecTypeOK
    <3>4. \A u \in JobsOf(c) : outcome'[u] = outcome[u]
      BY <3>1, <3>2 DEF ExecTypeOK, JobsOf
    <3>5. QED
      BY <2>3, <3>3, <3>4
  <2>5. CASE Acquire(t) \/ Yield(t) \/ DropTask(t)
    BY <2>3, <2>5 DEF Acquire, Yield, DropTask, statVars
  <2>6. QED
    BY <2>4, <2>5 DEF TaskStepOf, Results
<1>5. AloneIsAlone'
  BY <1>1 DEF LoneInv, AloneIsAlone
<1>6. CountersAreItsOwn'
  <2>1. SUFFICES ASSUME NEW c \in Call, alone[c]
                 PROVE  /\ counters'.total = TasksPerCall
                        /\ counters'.ok = Cardinality(ResultsOf(c, {"ok"})')
                        /\ counters'.failed = Cardinality(ResultsOf(c, {"error", "timeout"})')
                        /\ counters'.timedOut = Cardinality(ResultsOf(c, {"timeout"})')
                        /\ counters'.max = peak'[c]
                        /\ phase'[c] = "awaiting" =>
                             counters'.current = Cardinality(Held(c)')
    BY <1>1 DEF CountersAreItsOwn
  <2>2. c = t[1]
    BY <1>2, <2>1 DEF LoneInv, AloneIsAlone
  <2>3. /\ counters.total = TasksPerCall
        /\ counters.ok = Cardinality(ResultsOf(c, {"ok"}))
        /\ counters.failed = Cardinality(ResultsOf(c, {"error", "timeout"}))
        /\ counters.timedOut = Cardinality(ResultsOf(c, {"timeout"}))
        /\ counters.max = peak[c]
        /\ phase[c] = "awaiting" => counters.current = Cardinality(Held(c))
    BY <2>1 DEF LoneInv, CountersAreItsOwn
  <2>4. ASSUME UNCHANGED <<outcome, counters, peak>>,
               phase'[c] = "awaiting" => Held(c)' = Held(c)
        PROVE  /\ counters'.total = TasksPerCall
               /\ counters'.ok = Cardinality(ResultsOf(c, {"ok"})')
               /\ counters'.failed = Cardinality(ResultsOf(c, {"error", "timeout"})')
               /\ counters'.timedOut = Cardinality(ResultsOf(c, {"timeout"})')
               /\ counters'.max = peak'[c]
               /\ phase'[c] = "awaiting" => counters'.current = Cardinality(Held(c)')
    <3>1. \A rs : ResultsOf(c, rs)' = ResultsOf(c, rs)
      BY <2>4 DEF ResultsOf, JobsOf
    <3>2. phase'[c] = "awaiting" => phase[c] = "awaiting"
      BY <1>1
    <3>3. QED
      BY <2>3, <2>4, <3>1, <3>2
  <2>5. CASE Acquire(t) \/ Yield(t)
    <3>1. lease[t] # "held" /\ lease'[t] # "held"
      BY <2>5, DropMoves DEF Acquire, Yield, TakePermit, WaitInQueue, ExecTypeOK, SemTypeOK
    <3>2. Held(c)' = Held(c) \ {t} /\ t \notin Held(c)
      BY <2>2, <3>1, HeldMoves DEF LoneInv, Held
    <3>3. UNCHANGED <<outcome, counters, peak>>
      BY <2>5 DEF Acquire, Yield, statVars
    <3>4. Held(c)' = Held(c)
      BY <3>2
    <3>5. QED
      BY <2>4, <3>3, <3>4
  <2>6. CASE DropTask(t)
    <3>1. phase'[c] # "awaiting" /\ UNCHANGED <<outcome, counters, peak>>
      BY <2>2, <2>6 DEF DropTask, statVars
    <3>2. QED
      BY <2>4, <3>1
  <2>7. CASE Begin(t)
    <3>1. /\ counters' = [counters EXCEPT !.current = counters'.current, !.max = peak'[c]]
          /\ counters'.current = Cardinality(Held(c)')
      BY <2>1, <2>2, <2>7, BeginCounts
    <3>2. /\ counters'.total = counters.total
          /\ counters'.ok = counters.ok
          /\ counters'.failed = counters.failed
          /\ counters'.timedOut = counters.timedOut
          /\ counters'.max = peak'[c]
      BY <3>1 DEF ExecTypeOK
    <3>3. \A rs : ResultsOf(c, rs)' = ResultsOf(c, rs)
      BY <2>7 DEF Begin, ResultsOf, JobsOf
    <3>4. QED
      BY <2>3, <3>1, <3>2, <3>3
  <2>8. CASE \E o \in Results : Finish(t, o)
    BY <2>1, <2>2, <2>8, FinishCounts
  <2>9. QED
    BY <2>5, <2>6, <2>7, <2>8 DEF TaskStepOf
<1>7. QED
  BY <1>3, <1>4, <1>5, <1>6 DEF LoneInv

(* LoneInv is kept when a call starts, returns or is given up. *)
LEMMA CallLoneInv ==
  ASSUME Sem!SemInv, ExecTypeOK, LoneInv, NEW c \in Call,
         Start(c) \/ Abandon(c) \/ Finalize(c) \/ Vanish(c)
  PROVE  LoneInv'
<1>1. lease' = lease
  BY DEF Start, Abandon, Finalize, Vanish, HandOver
<1>2. CASE Start(c)
  <2>1. /\ phase[c] = "new" /\ phase' = [phase EXCEPT ![c] = "awaiting"]
        /\ counters' = [Zero EXCEPT !.total = TasksPerCall]
        /\ alone' = [d \in Call |-> IF d = c THEN Active = {} ELSE alone[d] /\ d \notin Active]
        /\ UNCHANGED <<outcome, peak>>
    BY <1>2 DEF Start, Enter, Reset
  <2>2. /\ \A d \in Call : phase'[d] = IF d = c THEN "awaiting" ELSE phase[d]
        /\ Active' = Active \cup {c}
    BY <2>1 DEF ExecTypeOK, Active
  <2>3. \A d \in Call : alone'[d] => d = c /\ Active = {}
    BY <2>1 DEF LoneInv, AloneIsAlone
  <2>4. OnlyActiveWork'
    BY <1>1, <2>2 DEF LoneInv, OnlyActiveWork
  <2>5. NothingLeft'
    BY <2>1, <2>2 DEF LoneInv, NothingLeft, JobsOf
  <2>6. AloneIsAlone'
    BY <2>2, <2>3 DEF AloneIsAlone
  <2>7. ASSUME Active = {}
        PROVE  /\ \A rs : "pending" \notin rs => Cardinality(ResultsOf(c, rs)') = 0
               /\ Cardinality(Held(c)') = 0
               /\ peak'[c] = 0
    <3>1. \A t \in JobsOf(c) : outcome'[t] = "pending" /\ lease'[t] = "none"
      BY <1>1, <2>1, <2>7 DEF LoneInv, OnlyActiveWork, NothingLeft, JobsOf
    <3>2. /\ \A rs : "pending" \notin rs => ResultsOf(c, rs)' = {}
          /\ Held(c)' = {}
      BY <3>1 DEF ResultsOf, Held, JobsOf
    <3>3. peak'[c] = 0
      BY <2>1 DEF LoneInv, NothingLeft
    <3>4. QED
      BY <3>2, <3>3, FS_EmptySet
  <2>8. CountersAreItsOwn'
    <3>1. /\ counters'.total = TasksPerCall
          /\ counters'.ok = 0 /\ counters'.failed = 0 /\ counters'.timedOut = 0
          /\ counters'.current = 0 /\ counters'.max = 0
      BY <2>1 DEF Zero
    <3>2. QED
      BY <2>3, <2>7, <3>1 DEF CountersAreItsOwn
  <2>9. QED
    BY <2>4, <2>5, <2>6, <2>8 DEF LoneInv
<1>3. CASE Abandon(c) \/ Finalize(c) \/ Vanish(c)
  <2>1. PICK p \in {"abandoned", "done", "gone"} :
          /\ phase' = [phase EXCEPT ![c] = p]
          /\ c \in Active
          /\ \/ p = "abandoned"
             \/ \A t \in JobsOf(c) : lease[t] = "none"
    BY <1>3 DEF Abandon, Finalize, Vanish, Enter, Complete, Dropped, Active
  <2>2. /\ \A d \in Call : phase'[d] = IF d = c THEN p ELSE phase[d]
        /\ \A d \in Call \ {c} : d \in Active' <=> d \in Active
        /\ p = "abandoned" => c \in Active'
    BY <2>1 DEF ExecTypeOK, Active
  <2>3. \A d \in Call : ~ alone'[d]
    <3>1. CASE alone' = [alone EXCEPT ![c] = FALSE]
      <4>1. \A d \in Call \ {c} : ~ alone[d]
        BY <2>1 DEF LoneInv, AloneIsAlone
      <4>2. QED
        BY <3>1, <4>1 DEF ExecTypeOK
    <3>2. CASE alone' = alone /\ phase[c] = "abandoned"
      BY <2>1, <3>2 DEF LoneInv, AloneIsAlone
    <3>3. QED
      BY <1>3, <3>1, <3>2 DEF Abandon, Finalize, Vanish, HandOver, Enter, statVars
  <2>4. OnlyActiveWork'
    BY <1>1, <2>1, <2>2 DEF LoneInv, OnlyActiveWork, JobsOf, Job
  <2>5. NothingLeft'
    <3>1. CASE HandOver(c)
      <4>1. /\ \A d \in Call : peak'[d] = IF d = c THEN 0 ELSE peak[d]
            /\ \A t \in Job : outcome'[t] = IF t[1] = c THEN "pending" ELSE outcome[t]
        BY <3>1 DEF HandOver, ExecTypeOK
      <4>2. QED
        BY <2>2, <4>1 DEF LoneInv, NothingLeft, JobsOf
    <3>2. CASE UNCHANGED <<outcome, peak>> /\ phase[c] = "abandoned"
      BY <2>2, <3>2 DEF LoneInv, NothingLeft, JobsOf
    <3>3. QED
      BY <1>3, <3>1, <3>2 DEF Abandon, Finalize, Vanish, Enter, statVars
  <2>6. QED
    BY <2>3, <2>4, <2>5 DEF LoneInv, AloneIsAlone, CountersAreItsOwn
<1>4. QED
  BY <1>2, <1>3

(* The statistics of a call that shared the executor with no other call    *)
(* from its start to its last result are exact: nothing of the calls that  *)
(* were stopped or given up before it is left in them.                     *)
THEOREM LoneReportsAreExact == ExecSpec => []LoneReportIsExact
<1>1. ExecInit => LoneInv
  BY DEF ExecInit, SemInit, LoneInv, OnlyActiveWork, NothingLeft, AloneIsAlone, CountersAreItsOwn,
     JobsOf
<1>2. Sem!SemInv /\ ExecTypeOK /\ LoneInv /\ [ExecNext]_execVars => LoneInv'
  <2> SUFFICES ASSUME Sem!SemInv, ExecTypeOK, LoneInv, [ExecNext]_execVars PROVE LoneInv'
    OBVIOUS
  <2>1. CASE UNCHANGED execVars
    <3>1. UNCHANGED <<lease, phase, outcome, counters, alone, peak>>
      BY <2>1 DEF execVars
    <3>2. /\ Active' = Active
          /\ \A c \in Call : JobsOf(c)' = JobsOf(c) /\ Held(c)' = Held(c)
          /\ \A c \in Call : \A rs : ResultsOf(c, rs)' = ResultsOf(c, rs)
      BY <3>1 DEF Active, JobsOf, Held, ResultsOf
    <3>3. OnlyActiveWork' /\ NothingLeft' /\ AloneIsAlone'
      BY <3>1, <3>2 DEF LoneInv, OnlyActiveWork, NothingLeft, AloneIsAlone
    <3>4. CountersAreItsOwn'
      BY <3>1, <3>2 DEF LoneInv, CountersAreItsOwn
    <3>5. QED
      BY <3>3, <3>4 DEF LoneInv
  <2>2. QED
    BY <2>1, TaskLoneInv, CallLoneInv DEF ExecNext
<1>3. LoneInv => LoneReportIsExact
  BY DEF LoneInv, CountersAreItsOwn, LoneReportIsExact
<1>4. QED
  BY <1>1, <1>2, <1>3, ExecutorPermits, ExecutorTypes, PTL DEF ExecSpec
===========================================================================
