# TLA+ models of prax

prax is an ORM for Rust: a schema language and code generator, a query layer that builds SQL, a
driver crate per database, a migration engine and a command line, about 230,000 lines in 827 Rust
files. Most of it turns values into text and keeps no state between calls. This directory models
the parts that keep state and are used by several tasks or processes at once (connection pools,
transaction engines, caches, the concurrent executor, the migration engine), and the one long
computation whose errors cost data: how an edited schema becomes a migration script.

`PROJECT.json` lists the runs, the source lines each definition models, and the hazards each
property is aimed at.

    tlc -workers 2 -config MCDuckDbPool.cfg MCDuckDbPool.tla     # one run
    tlapm DuckDbProofs.tla                                       # the proofs of one module

## 1. Inventory

### Components with state, concurrency or an order that matters

| component | state | operations | how it interacts | what makes it correct |
|---|---|---|---|---|
| DuckDB pool (`prax-duckdb/src/pool.rs`) | tokio semaphore, LIFO vector of idle connections behind a mutex, `poisoned` flag per checkout | `with_pool_config`, `get`, `poison`, `Drop` | the engine checks connections out; blocking jobs use them on other threads | permits are conserved; a connection has one owner; never more connections than allowed; no lost wakeup; `get` returns |
| SQLite pool (`prax-sqlite/src/pool.rs`, `connection.rs`) | the same with a FIFO queue of stamped connections, idle and lifetime limits | `with_pool_config`, `get` with its expiry sweep, `Drop` | each connection has a background thread and a channel | the same, and the sweep closes everything that has been idle too long |
| DuckDB engine (`prax-duckdb/src/engine.rs`) | pinned connection and `tx_finalized` of a transaction's engine, `RollbackOnPanic` guard | single statements, `transaction(f)`, engine clones | statements are `spawn_blocking` jobs nobody can cancel; the guard spawns one more | Ok means committed; no checkout inherits a transaction; every permit comes back |
| SQLite engine (`prax-sqlite/src/engine.rs`) | pinned connection, guard with a raw handle | the same | statements go through the connection's FIFO channel | the same, except that a panicked transaction may be on an idle connection for a while |
| In-memory data cache (`prax-query/src/data_cache/memory.rs`) | map behind a lock, atomic entry counter read without it | `get`, `set`, `delete`, `invalidate_*`, `evict_expired`, `clear` | threads share it directly | the counter never drifts; the capacity holds up to concurrent sets; `set` returns |
| Tenant cache (`prax-query/src/tenant/cache.rs`) | entries with a `refreshing` flag, negative entries | `lookup`, `get_or_fetch`, `mark_refreshing`, `complete_refresh`, invalidation, eviction | fetches and refreshes read the source outside the lock | answers have a bounded age; what was invalidated stays gone; `max_entries` holds |
| Concurrent executor (`prax-query/src/async_optimize/concurrent.rs`) | semaphore and statistics, shared by overlapping calls | `execute_all` with timeouts and the stop at the first error | futures are dropped where they stand | the limit holds over all calls; every call returns; a lone call's statistics are exact |
| Schema diff and creation order (`prax-migrate/src/diff.rs`) | none; Kahn's algorithm over tables that come out of a hash map | `SchemaDiffer::diff`, `ordered_create_models` | feeds the generators | referenced tables come first; every table once, cycles included |
| SQL generators (`prax-migrate/src/sql.rs`), `migrate dev` (`prax-cli/src/commands/migrate.rs`) | none; the database they are about | up and down scripts for five databases; introspect, diff, `strip_destructive` | the script is run against a database by somebody else, and may stop in the middle | additive scripts take nothing away; finished ones reach the target; down scripts restore |
| Migration engine (`prax-migrate/src/engine.rs`, `resolution.rs`, `history.rs`) | V1 history, event log, resolutions in memory and on file, lock | `initialize`, `add_resolution`, `plan`, `migrate` | processes share history, log and files, and crash | nothing is recorded that did not happen; `migrate` does what `plan` said |
| Migration events (`event_store.rs`, `state.rs`, `bootstrap.rs`) | append-only log | append, replay, conversion of a V1 table | processes share it | replay gives the last word on every migration |
| Cache manager, tiered cache (`data_cache/mod.rs`, `tiered.rs`) | two caches | `get_or_set`, reads and writes through the tiers | calls the caches one after the other | tiers agree; no stale value outlives an invalidation |
| PostgreSQL, MySQL, SQL Server, sqlx engines | pinned connection, guard | `transaction(f)` | pools of other crates | as for the engines above |

The last two are not modelled (section 7).

### Components without

SQL building (`prax-query`: filters, operations, dialects), row and value conversion in every
driver, the schema language, code generation, `prax-import`, `prax-typegen`, `prax-pgvector`, the
web framework crates and the rest of the command line are functions from values to values or text.
Retry middleware passes queries through without retrying. `PROJECT.json` gives the reason for each.

### What is hard about it

- **Dropped futures.** Rust drops a future at any `await`. What it had already handed to
  `spawn_blocking` or to a connection's thread runs all the same, while its locals, the permit and
  the pooled connection among them, are dropped.
- **Clean-up nobody awaits.** After a panic or a dropped future, `RollbackOnPanic` spawns a task.
- **Engine clones.** The engine given to `f` may outlive the transaction and pin its connection.
- **Windows between lock sections.** `get` opens a connection after releasing the mutex; `Drop`
  returns the connection before the permit; `set` looks at the capacity and inserts later;
  `get_or_fetch` looks up, reads the source and inserts; an event is numbered and pushed.
- **Timers** that fire while a permit is being handed over.
- **Failing COMMIT and ROLLBACK**, after which the session is in a state nobody has checked.
- **Orders that come from hash maps**, so that a script is wrong on some runs only.
- **Scripts that stop in the middle**, on databases that change DDL one statement at a time.
- **Two readings of the same fact**: V1 history and event log; `plan` and `migrate`, which decide
  about a file in two different places.

## 2. Modules

    SessionPool            what a pool promises (abstract)
    Semaphore              tokio::sync::Semaphore, from how the code uses it (external)
      SemaphoreProofs
      DuckDbPool           implements SessionPool
      SqlitePool           implements SessionPool
      ConcurrentExecutor   with the semaphore's requests being the tasks of all calls
        ConcurrentExecutorProofs
    EngineCall             a call of an engine and a database session, shared by both engines
      DuckDbEngine         EXTENDS DuckDbPool, EngineCall
        DuckDbProofs       the pool and the engine; EXTENDS SemaphoreProofs
      SqliteEngine         EXTENDS SqlitePool, EngineCall
        SqliteProofs       the pool and the engine; EXTENDS SemaphoreProofs
    MemoryCache
      MemoryCacheProofs
    TenantCache
      TenantCacheProofs
    CreateOrder            ordered_create_models
    SchemaDiff             the differ, strip_destructive, introspection
      MigrationSql         the five generators
        Catalog            the five databases that run the scripts (external)
          SchemaMigration  EXTENDS Catalog, CreateOrder: from the edited schema to the database
            SchemaMigrationProofs
    MigrationEvents        the event log and its replay
      MigrationEngine      EXTENDS MigrationEvents
        MigrationEngineProofs   both
    MC*                    instances for TLC, with one .cfg per run

A definition whose comment begins with "Mutant of" is a plausible bug in the named definition. No
specification uses it; replacing the definition by it makes the property listed with it fail, which
shows that the property depends on the code being as it is.

### Semaphore and the pools

A *request* is one call of `get` and the pooled connection it yields. `lease[r]` says how far it
is: none, queued, granted (it owns a permit and has not looked at the idle connections), opening
(it found none, the mutex is free), held, returned (`Drop::drop` has run, the permit field is not
yet dropped). A step is what happens between two points at which another thread can run.

| DuckDbPool, SqlitePool | code |
|---|---|
| `Acquire`, `Enqueue` | `acquire_owned` finds a permit or waits |
| `Timeout`, `CancelGet` | the timer of `get`; its future is dropped |
| `PopIdle`, `FindEmpty` / `FindNone` | the critical section of `get`; in SQLite with the loop that closes expired connections |
| `Open`, `OpenFails` | `create_connection` / `open_connection`, outside the mutex |
| `Poison` | `PooledConnection::poison` |
| `GiveBack`, `Release` | `Drop::drop`, then the drop of the permit field |
| `Tick` | time, for `idle_timeout` and `max_lifetime` (SQLite) |

A connection is an identity; what its database contains is left out. In `SqlitePool`, `inMemory`
chooses between file and in-memory databases (which are never kept), and `born` is a ghost that
remembers when a connection was opened, which the code does not.

### The engines

`pc[r]` is the `await` at which the future of a call is suspended. `session[c]` is the request whose
BEGIN opened the transaction of connection `c`, or `NoTx`. `Outcomes` says what a database may
answer: BEGIN inside a transaction and COMMIT or ROLLBACK outside one fail; any statement in
`Failing` may fail in a session that is ready for it; a failing COMMIT ends the transaction or
leaves it open.

DuckDB statements are jobs that may run in any order once handed to the blocking pool, and each
holds a clone of the connection's `Arc`. SQLite statements are appended to the channel of the
connection and run first in, first out. Both engines have actions for the closure sending
statements, returning Ok or Err, panicking, and stashing an engine clone; for the guard being
disarmed or spawning its task; for COMMIT, ROLLBACK and BEGIN answering Ok or Err; and, with
`MayCancel`, for the future being dropped at each `await`. A pool step that the engine causes is
part of the engine's action, so that the engine's behaviours are checked to be behaviours of the
pool (`UsesPool`).

`Reuse` lets a finished request start again under the same name; what it left open in a session is
then attributed to `Leaked`. It changes no state of the program and keeps the instances finite.

### The caches

In `MemoryCache`, a *worker* is a thread in one operation; there is no `await` inside them. Taking
the lock and changing the map is one step; correcting `entry_count` and releasing the lock is the
next, because `set` reads the counter in between without the lock. `removed` is the number that the
holder of the lock has taken out and not yet subtracted. The counter is atomic with relaxed
ordering; the model assumes that a load returns the last value stored, as cache-coherent hardware
does. Values are left out, and tags need no state: `set` stores none.

In `TenantCache`, every operation of the cache is one critical section and one step; a *task* is a
caller of `get_or_fetch` (`Miss`, `ReadSource`, `StoreFetched`) or of a refresh (`MarkRefreshing`,
`ReadSource`, `CompleteRefresh`), which may give up at every point and leave the mark on the entry.
A context is the version of the tenant in the source, 0 for one that does not exist. `read` and
`late` are ghosts: when a version was read, and whether its tenant was invalidated after that
because it had changed. `access_count` is never changed by the code, so that eviction by lowest
count is an arbitrary choice.

### The executor

A *call* is one `execute_all`; its futures are polled by one thread, so that the end of a task and
the loop's look at its result are not separated by steps of the same call (`Attentive`), but are
by those of others. `DropTask` drops one of the remaining futures wherever it stands, after the
first error (`Yield`) or when the caller drops the call (`Abandon`). `HandOver` forgets the results
of a call that is over; nothing in the executor refers to them.

### From a schema to a database

`SchemaMigration` is a state machine around functions. `MigrateDev`, `CreateMigration` and
`DiffSchemas` are the three ways the code gets a source schema; they apply `Diff`, and
`StripDestructive` without `--allow-destructive`. `OrderTables` runs `CreateOrder`, one step for
each table taken from the queue, with every order in which the hash map may give them. `Generate`
applies `Up` and `Down` of `MigrationSql`, whose statements are records in the order in which the
code emits them. Neither the engine nor the command line executes a script, so the database is
external: `Execute` lets it accept the next statement, with the effect `Catalog` gives it, `Refuse`
stops the script where it is; then comes `Revert` with the down script, or `Retry`, which
introspects and diffs again. What differs between the databases is in `Catalog`: who checks that a
referenced table exists or may be dropped, who knows enums as types, what ALTER TABLE takes. Tables
hold no rows, so a statement that only the data refuse is accepted.

### The migration engine

An *engine* is a process with a `MigrationEngine`. The history and its lock are behind traits; the
model takes an append-only table and a lock that the death of its holder frees, like an advisory
lock of PostgreSQL. `migrate` takes the lock (`Lock`), reads history and files (`ReadApplied`) and
visits one file per step (`SkipFile`, `PassGate`, `FailGate`, `Baseline`, `Apply`), and may crash
anywhere. `save` empties the resolutions file and then fills it (`AddResolution`, `FillFile`).
`Plan` is `plan` without the schema diff; `forecast` is a ghost with what it would have said when
the migrate began. `Lapse` lets expiration dates pass. Applying a migration and rolling one back
fail before anything is recorded because no SQL executor is wired in, so `rollback`, `dev` and
`rollback_with_event` change nothing and are left out.

`MigrationEvents` has the two critical sections of `append_event` and replay as a recursive
function; `Bootstrap` is the conversion of a V1 history.

## 3. Runs

| run | instance | what it shows |
|---|---|---|
| `duckdb_pool` | 3 requests, 2 permits, 3 connections, 1 prewarmed | permits add up (`PermitAccounting`); connections are bounded and have one owner; no permit lies idle while someone waits, also when timer and hand-over race; the pool implements `SessionPool`; `get` returns even if no holder ever lets go (`GetReturns`) |
| `duckdb_engine` | 3 requests, 2 permits, every statement may fail, panics, stashed engines, no dropped futures | an idle connection is never inside a transaction; a transaction keeps its connection and stays the one BEGIN opened; single statements run in autocommit mode; calls report what happened |
| `duckdb_engine_faults` | 2 requests, 1 permit, futures dropped at every `await` | the connection is not reused before the guard's ROLLBACK is over; the pool is used as it may be; every permit comes back |
| `duckdb_engine_inherit` | the same | *violated*: a transaction dropped while it awaits BEGIN |
| `sqlite_pool` | 3 requests, 2 permits, 2 prewarmed, connections that expire, file and in-memory | as for DuckDB, also with expiry; the sweep leaves nothing behind that was idle too long although it stops at the first live connection; every waiter is served |
| `sqlite_engine` | 2 requests, 1 permit, panics, failing BEGIN, COMMIT and statements | a transaction left open on an idle connection always has a ROLLBACK under way; every permit comes back |
| `sqlite_engine_faults` | 3 requests, 1 permit, everything fails, futures dropped | Ok still means that this call's own transaction was committed; `f` never runs inside somebody else's transaction; the pool is used as it may be |
| `memory_cache` | 2 threads, 4 keys, capacity 2, entries that expire | the counter never drifts; the size stays below capacity plus threads; every `set` returns |
| `tenant_cache` | 2 callers, 2 tenants, room for 1, one tenant created and changed, clock up to 2 | an answer was true one time to live and one fetch ago at most (`StalenessBounded`); what was invalidated comes back only by tasks already under way with it (`OnlyLateTasksRestore`); `max_entries` is exceeded only by the completion of a refresh whose entry is gone (`OnlyRevivalsOverfill`) |
| `executor` | 2 overlapping calls of 2 tasks, 2 permits; errors, timeouts, dropped calls | the limit holds over both calls; every awaited call returns; the statistics of a call that ran alone are exact, although earlier ones left tasks counted as running |
| `schema_sql` | families of edits of up to three tables, on five databases, from three kinds of source, with one retry | referenced tables come first and every table once; an additive script never takes anything away, also when it stops and is generated anew; a finished one reaches the target; scripts that only create are not refused; their down scripts restore, or fail for one of four known reasons |
| `migrations` | 2 engines that crash, 2 files with every pair of 5 resolutions, 3 histories, 2 logs, strict or not, dry run or not; or the log alone, 2 writers, 3 events | the history records only baselines, and none twice; `migrate` does what `plan` said when it began; replay has the last word on every migration right |

### Why the bounds are enough

*Pools.* Two permits and three requests give a waiter, a holder and a third party; three
connections are one more than may be open. A pool that keeps its permits in order treats further
requests like these, and the proofs of section 5 remove the bounds for both pools.
*Expiry.* One or two ticks distinguish fresh, expired by idling and expired by age.
*Engines.* The hazards are about two users of one connection: one who left something behind and the
next. `sqlite_engine_faults` has a third, so that leftovers of two earlier users can meet. The
theorems about both engines hold for any number of callers and connections.
`MaxTime` is 0 there: expiry only closes connections, and with it what was left on them.
*Caches.* In `memory_cache`, two threads and capacity 2 reach the overshoot (three entries); four
keys let the property fail if the overshoot grew. In `tenant_cache`, room for one of two tenants
makes every insertion of the other an eviction, two callers race, and three instants distinguish
fresh, stale and expired. Section 5 removes all of these bounds.
*Executor.* Two permits for four tasks of two calls: each call can hold both, one or none while the
other waits. `CounterSize` 8 stands for 2^64 and is more than the tasks there are; the counters
wrap below zero when calls overlap.
*Schemas.* Each family of edits is about one kind of change and contains all pairs of its schemas:
all graphs of foreign keys over three new tables (one of which may refer to itself), all changes
between graphs over two, a foreign key and its column, one column with every type, nullability and
default, indexes of every shape, an enum and its column, a view. Kinds of change meet where one
depends on the other, not in all combinations. Section 5 removes the bound for the order of
creation and for what additive scripts keep.
*Migrations.* Two files are enough for one to be renamed from the other, and to be found applied,
changed, skipped, baselined or pending in both orders. A log of three events has every sequence of
an application, what undoes it, and a third.

`MaxTime`, `MaxClock`, `MaxVersion`, `MaxEvents`, `MaxRows` and `MaxRetries` bound the clocks, the
versions of a tenant, the log, the history (a baseline of a renamed file may be recorded again and
again) and the regenerated scripts. No queue or counter is cut off: queues hold at most one element
per request, channels at most what the requests have sent and not seen answered.

Symmetry is used in `duckdb_engine`, `sqlite_engine_faults`, `tenant_cache` and `migrations`, which
check invariants and action properties and no liveness.

Deadlock is not checked in three runs: every execution of `executor` and `schema_sql` ends, and
`migrations` can fill the log.

## 4. Fairness

- `TimedCallers` (DuckDB pool): the steps of the pool itself are weakly fair, and so is the timer,
  because `get` always waits under `connection_timeout`. Giving back is not fair: holders may keep
  their connections for ever.
- `HonestCallers` (SQLite pool): `connection_timeout` is optional there, so holders must give back
  some day; no timer needs to fire.
- `FairEngine`: the tokio runtime polls woken futures and the blocking pool runs its jobs, each
  connection's thread runs its channel (weak fairness). Closures return or panic, and stashed
  engines are dropped some day: strong fairness, because a closure that sends statements is not
  able to return at every moment. Without these two assumptions about user code a permit need
  not come back.
- `FairSpec` (memory cache): strong fairness for a `set` in progress. Its steps need the write lock,
  which others keep taking; parking_lot's locks are eventually fair.
- `FairExec` (executor): the runtime polls a call whose future can go on, and a task that runs ends
  or is timed out (weak fairness of each task's steps). Without `operation_timeout` that is an
  assumption about the task. Callers need not start or drop calls.

The tenant cache, the schema pipeline and the migration engine state no fairness and no liveness:
callers, databases and operators may stop at any point, and do.

## 5. Proofs

Eight modules are checked by TLAPS for every value of the constants, under the `ASSUME`s of the
modules and, in six theorems about the engines, a hypothesis that the theorem states. Every
invariant below was first checked by TLC on the instance of the run it belongs to.

**Assumptions.** Requests, threads, tables, calls and tenants are finite sets; bounds are natural
numbers. Values that stand for "none" are not members of the sets they are added to, and no
connection is called "none" or "armed" (`GuardAssumption`: the state of the SQLite guard is one of
these or the connection it has to roll back). `ExecutorAssumption` says that a call has fewer tasks
than the counters of the code can hold (`TasksPerCall < CounterSize`, 2^64 there). `EditsAssumption`
says what the differ takes for granted: a schema has one model for each table, everything in it is
finite, and foreign keys of the edited schema name known tables. `WellFormedAssumption` says what the
validator checks of a schema file before it is used: enums, views and indexes are given once, foreign
keys, types of columns and columns of indexes exist (`validator.rs:84`, `:206`, `:464`); the fields
of a model are a map by name (`ast/model.rs:15`); an enum has a name, and `constraint`, which the
model sets where a database keeps a UNIQUE constraint, is not set in a schema. It adds three things
the validator leaves to the author: that `@map` does not give two fields of a model one column
(which no database accepts), that a view reads a table of the schema, and that indexes of different
tables have different names, also across the edit. Derived names (`diff.rs:938`) begin
with the table's name; without this for given ones `CreationsRunThrough` would be false, as a model
moved to a new table with the same `map:` name of an index is refused by databases whose index names
are unique in the schema, because the old table is still there.

**DuckDB pool** (finitely many requests, any number of permits, any prewarmed sequence without
repetitions). `PoolInv == SemInv /\ ConnInv`. `SemInv` comes from `SemaphoreProofs`: permits plus
requests with a permit equal `MaxConnections`, the queue holds exactly the queued requests, once
each, and is empty while permits are available. `ConnInv` is the type invariant, the bound, the
exclusion, and `HoldersHold`: a request has a connection exactly when its lease is "held". Neither
the bound nor the exclusion is inductive alone: the bound needs that every request that has or opens
a connection owns a permit; the exclusion needs that a request which is handed a connection had
none. From it: `PoolTypeOK`, `PermitsConserved`, `ConnectionsAreBounded`, `CheckoutIsExclusive`,
`NoLostWakeup`, and `PoolImplementsSessionPool`, by showing that every step under `PoolInv` is a
step of `SessionPool` or leaves its variables alone; opening needs the bound there.

**DuckDB engine** (any callers, any set of failing statements). `EngineUsesPool` comes first: every
step of the engine is one of the pool or leaves it alone, so that `PoolInv` need not be shown again.
With every fault, dropped futures included, `HandleInv` says who holds the connection of a call: the
call while it is past `get`, then the guard that has been spawned, or a stashed engine; and a job of
a guard or of a stash belongs to such a handle. `RollbackComesFirst` follows. The other theorems
carry the hypothesis `~MayCancel`, no future is dropped. They are false without it: that is the
finding of `duckdb_engine_inherit`. Under it, `TxInv` relates each `await` to the session of the
connection: certainly inside the transaction of this call (`Inside`), certainly in none (`Outside`),
or, after a COMMIT or ROLLBACK that failed, unknown, and then the call poisons its connection before
it gives it back. The only job a call has under way is the statement it awaits (`AwaitedJob`), which
is what makes a job that runs late harmless. From it: `NothingIsInherited`, `TransactionsArePinned`,
`QueriesAutocommit`, `OutcomesAreReported`.

**SQLite pool** (as for DuckDB, with any limits on age and idleness). What is new is expiry. The
sweep removes a prefix of the queue and stops at the first connection that may stay; that it leaves
nothing behind needs the queue to be sorted by the time of last use and no stamp to lie in the
future (`StampsAscend`), which holds because connections are stamped when they are appended. An
in-memory pool opens connections without a look at the queue; its bound needs that it keeps none
(`MemoryKeepsNone`). In the refinement a sweep is the closing of several idle sessions at once.
`PoolInvariant`, `PermitsConserved`,
`ConnectionsAreBounded`, `CheckoutIsExclusive`, `NoLostWakeup`, `SweepsAreComplete`,
`PoolImplementsSessionPool`, `EngineUsesPool`.

**SQLite engine** (every fault allowed). A connection may be handed to the next caller with
statements of former ones still in its channel, so `NoInheritedTransaction` is not to be had. What
holds instead rests on the channel being first in, first out: behind the statement of a live call no
other call has sent anything (`LastInLine`), so that once its BEGIN has answered Ok everything sent
before it has run, and the session is in the transaction of this call or in none (`InsideAlone`).
From it: `ClosuresRunAlone`; and `OkIsDurable`, because a COMMIT that succeeded in that session
committed this call (`CommitAnswered`). `OpenTransactionsAreGuarded` supposes that no future is
dropped, because a transaction dropped while it awaits BEGIN has no guard yet (section 6), and that
no ROLLBACK fails, because a failed one is only logged; its invariant is `EndInSight`: a session
inside a transaction has a ROLLBACK queued, a guard about to send one, or a call that will end it.

**Memory cache** (finitely many threads and keys, any capacity above zero). That the counter equals
the size up to `removed` and the entry being counted needs that at most one thread holds the lock
and that `removed` is zero when none does (`OneHolder`, `RemovedIsHeld`), and that `evict_lru` and
`clear`, which store instead of subtracting, store the same number (`EvictedSome`). The bound on the
size is not inductive: a thread past its last look at the counter will insert whatever happens. The
invariant `RoomLeft` counts these threads in, `count + |Past| < MaxCapacity + |Worker|`, and an
eviction that finds the map full makes room for the thread that joins them. From it: `CacheTypeOK`
(so the unsigned counter never wraps), `CounterNeverDrifts`, `OvershootIsBounded`.

**Tenant cache** (any callers, finitely many tenants, any capacity, times to live and fetch time).
`StalenessBounded` speaks of the age of answers, which nothing in the cache records. The invariant
bounds ages twice: what a task has in hand is at most one fetch old (`InHandIsFresh`, because the
clock waits for it), so an entry made of it expires at most one fetch and one time to live after its
version was read (`EntriesExpire`); a mark that is never cleared changes neither. That what was
invalidated stays gone needs the same statement about hands as about the cache (`OldIsLate`). The
bound on the size is an action property: an insertion either replaces an entry or evicts one when
the cache is full, by counting the entries before and after (`InsertHasRoom`), so that a growth
beyond `max_entries` can only be `complete_refresh`. From it: `TenantTypes`, `AnswersAreFresh`,
`InvalidatedStaysGone`, `OnlyRefreshesOverfill`.

**Executor** (finitely many calls, any number of tasks and any limit). The semaphore's lemmas are
taken from an instance, `Sem == INSTANCE SemaphoreProofs WITH Req <- Job`; what has to be shown is
that the executor uses the semaphore as they require, in particular that a permit is dropped only
by a task that owns one, whichever of the five ways it ends. `ExecutorPermits`, and from it
`LimitHolds`: the running tasks are a subset of those with a permit. `ExecutorTypes` shows that the
wrapping counters stay within their width. `LoneReportsAreExact` is about calls that met no other.
Its invariant: tasks of calls that are over hold nothing (`OnlyActiveWork`), nothing is left of a
call before its name starts again (`NothingLeft`), a call that started alone is the only one until
another starts (`AloneIsAlone`), and then the counters are its own (`CountersAreItsOwn`), `current`
only until the first error, after which dropped tasks stay counted. A call that starts resets the
counters, which is why what earlier ones left in them does not matter.

**Order of creation** (finitely many tables, any foreign keys). The invariant of Kahn's algorithm:
until the fallback has run, the degree of a table is the number of its references not yet placed
(`Counted`), and the tables of degree zero are exactly those queued or placed. So the head of the
queue has all its references in front of it; and when the queue is empty and tables are left, each
of them refers to another one that is left, which is what `OnOrBehindCycle` says.
`ReferencedTablesComeFirst`, `EveryTableIsCreatedOnce`; and `MigrationsCreateInOrder`, the same for
the ordering inside a migration, whose batch is the tables the diff creates.

**Additive migrations** (any set of edits, all five databases, any number of retries).
`AdditiveMigrationsKeepEverything` covers the whole way from the differ to the catalog. A diff that
was stripped only adds (`StripDestructiveOnlyAdds`); from such a diff no generator emits an
operation outside `AddingOps` (`UpScript`, by one lemma per kind of change); accepting an operation
of these takes nothing away (`EffectFacts`, by one lemma per kind of operation), because what
is added replaces a model by a larger one of the same table; and `Grows` is transitive, over the
steps of a script. `MigrationInv` puts these in order: facts about the diff while it is ordered,
about the script while it is applied, and `Grows(before, db)` throughout. That the script is built
by concatenating sequences of sequences is where induction over data comes in (see below).

**Creating migrations** (any edits of well-formed schemas, all five databases, any orders of the
hash maps, any point at which the script stops). `CreatingMigrationsRunThrough` says that no
statement of a script that only creates is refused. The invariant `CreationInv` has two parts. While
the script is generated, the edits in hand are good: the schemas are well-formed, the source is what
the database has, the index names of the catalog belong to its tables in one of the two schemas
(`IndexKnown`, kept by all fifteen operations: `EffectKnown`), and the diff is made of the differ's
entries (`DiffCreations`). That gives, at the moment of generation, a script that is `Runnable` from
the catalog (`GeneratedIsRunnable`): its statements create, what each makes is not there and made by
no other, and what each needs is there or made by one in front of it. For tables that is
`ReferencedTablesComeFirst` once more; for types, indexes and views it is the order of the kinds in
each generator (`CreationsAreRunnable`, a lemma per kind). While it is applied, a head of a runnable
script is accepted, and its rest is runnable from the changed catalog (`ExecuteKeepsRunnable`). That
what is new to the source is new to the catalog comes from the comparison, except for the names of
indexes, which is what `IndexKnown` is for: an earlier attempt may have stopped half-way.

**Down scripts** (the same edits, databases and orders). `DownScriptsRestore` says that the down
script of a migration that only created takes the database back to exactly what it was, and that a
statement of it is refused only for one of the reasons in `DownIsOutOfOrder`. The invariant
`RollbackInv` adds three things to `CreationInv`. The catalog has no loose ends (`Sound`: foreign
keys lead to tables except on SQLite, types of columns exist, views on PostgreSQL read tables), which
all fifteen operations keep on a database that accepts them (`EffectSound`); so what was there before
refers to nothing created since, and dropping the latter does not touch it (`DroppingKeepsBefore`).
What is there is what was there before and part of what the diff creates (`Added`), while the up
script runs and while it is taken back. And the script under way names everything of that which is
still there (`Undoes`), so that nothing new is left at its end (`UndoneIsBefore`). On MySQL and SQL
Server `Undoes` also says that the tables that refer to a table are dropped before it, which is
`ReferencedTablesComeFirst` reversed (`ChildrenDroppedBefore`) and why foreign keys alone do not
block a script without a cycle. `RefusedIsBlocked` goes through the kinds of statements and shows
for each which combination of backend and diff makes it fail.

**Reaching the target** (the same edits, databases and orders). `CreatingMigrationsReachTarget` says
that a script that only creates, generated for what the database has, leaves what the edited schema
describes when it runs to its end. `TargetInv` adds to `RollbackInv` that the difference is still the
one between what was compared (`DiffOf`), and that everything in it is in the catalog or to be made
by a statement that is still to be executed (`Promised`): at the start because the generated script
holds every statement the difference asks for (`GeneratedIsRunnable` states the equality), and
statement by statement because a creating one makes what it says and takes nothing from a table
(`CreatingKeepsAndMakes`, `PromisesKept`). At the end nothing is left to be executed. What the
difference does not mention the differ found equal, up to what it looks at: names, types and
nullability of columns, names of foreign keys, shapes of indexes (`UnalteredMatches`,
`UnalteredEnums`); introspection and a database built from the old schema show the differ all of
that (`IntrospectedShows`, `BuiltShows`). The proof goes through `Reached`, which has none of the
exceptions of `ColumnReached` and `TableReached`: those are about altered tables. For other scripts
the property is not a theorem for every edit. Foreign keys are compared by name only
(`SchemaDiff.tla`), so a key that keeps its name while its column is replaced is dropped with the
column where the database drops it along, and is missing afterwards; the run's edits have no such
key.

**Migration engine** (any processes, files, resolutions, histories and logs, crashes anywhere).
`HistoryIsHonest` is about one step, but rests on what the process read long before. The invariant:
who is inside `migrate` has the lock (`OnlyTheHolder`), so every row of the history is one it read
when it began or belongs to a file it has visited (`NothingUnseen`). A baseline about to be recorded
is then not in the history, because file ids differ, unless another file is renamed from it.
`MigrateInvariant`, `HistoryStaysHonest`.

`MigrateFollowsPlan` compares the two places where the code decides about a file. The ghost
`forecast` stays what `plan` would say from what the process has read, unless the event log says
something else and did so when the migrate began (`ForecastKept`); and after each file the sets of
the result are those of the plan, cut down to the files visited (`AsPlanned`). `VisitFollows` shows,
branch by branch, that the loop decides about its file as the plan did.

**Replay** (a log of any length, any writers, numbers in any order). Replay is a recursive function
over the log; `ReplayHasLastWord` needs, for each migration, that after `n` events it is applied
exactly when an application came after the last rollback among them. `ReplayServesEngines` is the
same for the log the engines read.

**Induction over data.** The induction theorems of the library take an operator as parameter, which
these provers cannot instantiate. The proofs over logs and scripts go by the least counterexample
instead: the set of the lengths for which the statement fails is a set of naturals; if it is not
empty it has a least member (`LeastNatural`, from the well-foundedness theorems of the library),
which is not zero, and the statement for its predecessor gives a contradiction.

**Only model-checked**: all liveness (`GetReturns`, `Served`, `PermitComesBack`, `SetReturns`,
`CallsReturn`), which together with ENABLED is beyond the prover; and `AppliedReachesTarget` for
scripts that also alter or drop, which holds of the families of edits of the run. A proof of that
would have to follow the altering operations through the catalog, backend by backend, and would
first have to state which combinations of changes to exclude.

## 6. Where the code and its documentation disagree

Shown by a run: DuckDB awaits BEGIN before the guard exists. A transaction dropped there returns its
connection while the job still runs, and the next checkout inherits an open transaction, which the
guard's comment says it prevents (`duckdb_engine_inherit`; lines in `PROJECT.json`).

Met while modelling, without a run of their own:

*Pools and engines.*
- `tx_finalized` is set when the closure has returned, never when it panics, and checked before the
  statement is queued: a stashed DuckDB engine can run statements outside its transaction
  (`prax-duckdb/src/engine.rs:121`, `:990`).
- `min_connections` above `max_connections` opens more DuckDB connections than `max_connections`
  (`ConnectionsBounded` states the larger of the two). The COMMIT job of a dropped DuckDB
  transaction may run in the transaction of the connection's next user. Discarding the last
  connection of an in-memory DuckDB pool loses the database.
- SQLite sets `created_at` anew at every checkout, so `max_lifetime` only bounds one checkout
  (`connection.rs:67`, `pool.rs:355`). The spawned ROLLBACK is sent when its task is first polled;
  the next checkout may send a statement first (`engine.rs:264`). A transaction dropped while it
  awaits BEGIN leaves one that no guard will end. `min_connections` is not maintained once prewarmed
  connections expire.

*Caches and executor.*
- A hit of the memory cache does not update `last_accessed`; eviction goes by age, not by use
  (`memory.rs:304`). `max_capacity` is exceeded by concurrent sets, within the proved bound. `set`
  never stores tags. `get_or_set` stores what it computed after an invalidation that came in between
  (`data_cache/mod.rs:213`). A hit in the second tier does not fill the first, and two interleaved
  writes leave the tiers with different values (`tiered.rs:189`).
- `complete_refresh` takes the tenant cache above `max_entries`; a sharded one keeps at least 100
  entries per shard. `invalidate_if` never asks about negative entries.
- Two overlapping `execute_all` calls reset each other's statistics, so the decrements of the first
  wrap below zero and `max_concurrent`, the "Maximum concurrent tasks observed."
  (`concurrent.rs:179`), may be near 2^64; where overflow is checked, as in debug builds, the next
  task may panic at `concurrent.rs:402` instead, which the model leaves out. `execute_chunked`
  leaves out chunks that time out. A task that calls `execute_all` on its own executor can wait for
  itself.

*Migration engine.*
- `get_renamed` maps an old id to its new one, but `plan` and `migrate` ask it with the id of the
  file, which is the new one (`engine.rs:391`, `resolution.rs:238`): a renamed file is not found in
  the history and counts as pending. It only finds a file that still has the old id, whose baseline
  is then looked up under the new id and recorded again on every migrate.
- Events are numbered under one mutex and pushed under another, so the log may be out of the
  `event_id` order that `get_migration_history` promises; replay goes by the place in the log.
- After the first event `plan` reads the log and `migrate` still the V1 history; they disagree
  from then on (`PlanPredictsMigrate` supposes that the two agree).
- `add_resolution` writes what this process has in memory over what others have saved, and a crash
  between emptying and writing the file loses all of it.

*Generated scripts.*
- The engine and `migrate dev` without a reachable database have no source schema and generate the
  creation of everything; pending migrations are not taken into account.
- A default that is removed is never dropped on PostgreSQL. On MySQL a changed type loses an
  unchanged default; on MySQL and SQL Server a change of nullability alone is never applied.
- PostgreSQL drops an enum before the columns and tables that use it, up and down. MySQL and SQL
  Server drop a column before its foreign key, drop tables in the order of a hash map and before the
  tables that refer to them are altered, ignore changes of indexes of existing tables, and drop a
  table before its indexes on the way down. DuckDB's down script drops referenced tables first
  because a list already in the right order is reversed (`sql.rs:1916`). An index with changed
  columns and its old name is added before the old one is dropped. SQL Server adds a default where
  one exists.
- Introspection carries over no views, so each `migrate dev` creates them again; a `@@unique` of one
  column comes back as `@unique` and is added again each time. Foreign keys are compared by name
  only, and a column that changes between text and an enum counts as unchanged. A materialized view
  is dropped with a plain DROP VIEW in spite of the comment that promises both.

## 7. Not modelled

SQL text, rows, types, parsing and code generation, which are most of the lines of the repository:
no state between calls, no order of events, and properties that are about text. Values in databases
and caches: the properties are about who owns what, and how old it is. Statistics that are only
read. Of the cache manager and the tiered cache, what there is to say is in section 6: they call
two caches one after the other without anything that would keep them in step, so that the properties
one would want do not hold. Tenant pools and prepared statements are options and names. Drivers
whose pools belong to other crates: their transaction engines repeat the structure of the two
modelled ones without a pool of their own. Process crashes are modelled where something outlives
the process (the migration engine); pools and caches live in memory and start empty. Rows in the
tables a script changes, primary keys, vector columns, extensions and procedures.

## 8. Plan

Modelled, checked and proved: the pools, the engines, the caches, the executor, the migration engine
with its log, and the schema pipeline as far as section 5 says. What is left, in this order:

1. `AppliedReachesTarget` for scripts that alter: which edits to exclude, then the operations of
   each backend in their order.
2. `PostgresEngine` as a third instance of `EngineCall`, with the pool abstracted to `SessionPool`.
3. `CacheTiers`: `get_or_set` and the tiered cache with values and versions, as documentation of
   what they do not promise.
