# A TLA+ verification of the gigaevo evolution runtime

gigaevo runs an evolutionary search over programs. An engine selects parents, has an
LLM mutate them and stores each child in Redis; a DAG runner evaluates every stored
program by running a graph of stages on it; the engine then offers the evaluated
child to a MAP-Elites archive. Everything is cooperative asyncio: one process, many
coroutines, a switch of control at every `await`, and a Redis server as the shared
memory that survives the process.

These modules model the parts of that runtime whose correctness depends on the order
in which things happen. Each action is the code between two awaits of one coroutine,
translated from the source; `PROJECT.json` names the lines of every definition.

## 1. Inventory

| component | source (`src/gigaevo/`) | state it keeps | what is hard about it |
|---|---|---|---|
| program life cycle | `programs/program_state.py` | the state of a program | four states, a transition table, a merge of two states |
| program storage | `database/redis_program_storage.py`, `program_storage.py` | one blob per program, one status set per state | most operations are several round trips; they write the caller's copy whatever the store holds |
| state manager | `database/state_manager.py` | per-program locks | validates the state the caller believes the program to be in |
| DAG runner | `runner/dag_runner.py` | `_active`, `_done_queue`, a semaphore | timeouts, cancellation, orphans, batched writes, stop, restart |
| steady-state engine | `evolution/engine/{steady_state,dispatcher,mutant_task,mutation,ingestor}.py` | two semaphores, `_in_flight`, tickets, counters | slots that change owner; cancellation at every await; two loops that need each other |
| parent refresher | `evolution/engine/refresh.py` | per-parent locks, tickets, a freshness table | locks held across coroutines; invalidation during a refresh |
| stopper | `evolution/engine/stopper.py` | none (reads metrics) | counts something that happens later than what it guards |
| snapshot and resume | `evolution/engine/{core,snapshot}.py`, `run.py` | the persisted counters | a crash between two writes |
| stage graph | `programs/dag/{dag,automata}.py` | per-stage state, cache | data and order dependencies, skipping, deadlock detection |
| islands and archive | `evolution/strategies`, `evolution/storage/archive_storage.py` | archive cells, an in-memory elite table | two copies of one table; migration moves between islands |
| migration bus | `evolution/bus` | stream, claims, an import buffer | at-most-once import, claims that expire |
| synchronisation hooks | `adversarial/sync.py`, `prompts/coevolution/sync.py` | progress counters in Redis | meant to make populations wait for each other; not modelled, see 7 |
| endpoint pool | `infra/{endpoint_pool,balanced_chat}.py` | in-flight counts, health | counts on every exit of a call |
| instance lock | `database/redis/locking.py` | one key with a TTL | renewal and expiry |
| population snapshot | `database/program_storage.py` | an epoch and a cached list | invalidation during a fetch |
| predictors, LLM routers, stages, memory, tools, configuration | the rest | numerical or textual | no protocol state: not modelled |

How they interact. The engine and the runner never call each other. They meet in the
storage: the engine adds a program as QUEUED, or sends a DONE one back to QUEUED; the
runner polls the QUEUED and RUNNING status sets, and leaves a program DONE or
DISCARDED; the ingestor polls the programs of its children in flight. Inside the
engine the dispatcher, the mutant tasks and the ingestor share two semaphores,
`_in_flight` and the tickets; the tasks share the parent locks. Inside the runner one
scheduler shares `_active` and `_done_queue` with its tasks.

What makes each part correct, in short: the storage keeps blob and status sets in
agreement, so that whoever polls finds every program; the runner brings every program
to an end, never undoes one, and never works twice on one at a time; the engine loses
no slot, lock or child on any of its many exits, and comes to rest; a stage graph runs
every stage after what it depends on and reuses no stale result; an archive replaces
only by better ones and its three tables agree; a migrant is imported once; a resumed
run repeats no ordinal; counts and caches say what is true of the calls and programs
they stand for. The list of
hazards in `PROJECT.json` is the detailed version, one entry per line where the code
could go wrong, with the properties that cover it.

## 2. Modules

| module | models |
|---|---|
| `ProgramStates` | the states and the transition table |
| `ProgramStore` | the storage: one operator per round trip of an operation |
| `DagRunner` | scheduler, tasks, the engine's three store operations, failures, stop, crash, restart |
| `DagRunnerProofs` | theorems about it, for any number of DAGs at a time: type correctness, no program is lost, every task is tracked, a program never exposed to a race is in order |
| `StageGraph` | one program's DAG: the scheduling loop, gates, caches and stage tasks, over several evaluations |
| `StageOrder` | what it promises about order: an abstract specification |
| `StageGraphProofs` | theorems about it: every stage is decided, no stale result, the refinement |
| `SteadyState` | dispatcher, mutant tasks with parent locks, ingestor, `run`, `stop`, final sweep |
| `MutantPipeline` | what the engine promises: an abstract bounded pipeline |
| `SteadyStateProofs` | theorems about it |
| `Islands` | MAP-Elites islands: archive transactions, cache, size limit, migration, resume |
| `IslandsProofs` | theorems about them: all their properties, for any islands, cells and programs |
| `MigrationBus`, `MigrationBusProofs` | publication, claims and import of programs between runs; a theorem |
| `EngineSnapshot`, `EngineSnapshotProofs` | ordinals and the persisted counters over stops, crashes and resumes; theorems |
| `ParentLineage`, `ParentLineageProofs` | one parent between lineage updates, refreshes, its evaluation and an eviction; a theorem |
| `ParentRefresh` | the coalesced refresh and its freshness table |
| `PopulationSnapshot` | the epoch cache of the population |
| `EndpointPool` | in-flight counts of LLM endpoints |
| `InstanceLock` | the lock on a Redis prefix |
| `MCDagRunner`, `MCSteadyState`, `MCStageGraph`, `MCIslands` | instances and symmetry for the model checker |
| `MCServices` | seven components side by side, one of which moves in a behaviour |
| `ServicesProofs` | theorems about four of them, and what is proved of all seven carried over to `MCServices` |

`DagRunner` EXTENDS `ProgramStore`; `SteadyState` is separate and sees the runner as
the one action `DagFinishes`, which `QueuedSettles` of `DagRunner` justifies.
`DagRunner` in turn sees a stage graph as the one action `DagEnds`, which `RunEnds` of
`StageGraph` (and the DAG's timeout) justifies. The other modules are about parts that
share no state with these except through one call: `Islands` is what the ingestor's
`strategy.add` does, `ParentRefresh` what a mutant task does where `SteadyState` has
`refresh`, `EngineSnapshot` what `SteadyState` counts.
Definitions marked *Seeded bug* are variants of code-modelling definitions that no
specification uses: each shows that some property fails when the code is wrong there.

### ProgramStore

`blob[p]` is the JSON document of a program reduced to what the callers test: its
state, whether it carries results of a finished evaluation (`_has_terminal_evidence`),
and its orphan retry count. `member[p]` is the set of status sets that contain `p`; in
a correct store exactly one. `Moved` is the SREM/SADD pair that every operation ends
with, and it removes an id from the set *the caller names*. A pipeline
(`transaction=False`) is one step; the INCR of the state counter that precedes it is
merged into it. `update` with its optimistic merge is in `Islands` (metadata) and
`ParentLineage` (state, lineage). Not modelled: `remove`, corrupt
blobs, the stream that wakes pollers.

### DagRunner

`pc` is the await at which the scheduler stands and `task[p]` the one at which the
task of `p` stands. `_maintain` is `MaintainCalm` (nothing overdue) or
`MaintainOverdue`, `CancelOverdue`, `OverdueEnded`, `Expire` for each overdue task,
then `HarvestAfterExpiry` and `Flush`. `_launch` is `ReadQueued`, `ReadRunning`, the
orphans (`ReadOrphans`, `Reconcile`, `RequeueMove`), `Pick`, `GetFresh`,
`CreateTasks`, `BuildFail`, and the two round trips of the QUEUED to RUNNING call
(`MarkRead`, `MarkWrite`), after which `Marked` sets the objects in memory. A task
waits for the semaphore, runs, and then either joins `_done_queue` (and flushes it
itself when the queue is long: `InlineFlush`), or fails (`ErrFlush`, `ErrSet`), or is
cancelled and still writes its blob in a finally block (`Unwind`; `LateWrite` when
nobody awaits it).

Failures: any storage call of the scheduler or of a task may raise, `MaxFaults` times
in all, and the code's own handler decides what follows. A call that raises has not
been executed; a call that is executed and whose answer is lost is not modelled. `Stop` is `stop()`;
`Crash` ends the process between any two awaits; `Restart` runs
`recover_stranded_programs` first, as a resumed run does, and may itself crash.

Options. `Timeouts`, `DagsFail`: a DAG may be overdue, or raise. `EarlyFinish`: a DAG
may end before the launch that created it has returned from its QUEUED to RUNNING
call; possible but far from the usual timing. `MarkRaises`: that call may raise.

`overtaken` is a history variable: the programs that were exposed to a race at some time.
There are two ways. A program is `Outlived` when the runner lets go of it (takes it out of
`_active`, so that `_launch` may reconcile or launch it) while a write of its old task is
still to come: from `_done_queue`, from a batch that some task is flushing, or from a
cancelled task that nobody awaits. It is `Outrun` when its DAG ended before its launch marked
the object RUNNING. The steps that can expose a program `Record` it; no step reads the
variable. In the configuration of `runner_serial` nobody is ever exposed.

The engine's actions are atomic here, and the state manager's locks are left out; the
first hides interleavings inside one engine operation, the second allows more of them
than the code has.

### SteadyState

An element of `Mutants` is a mutant task and the program it makes. `stage[m]` is the
await the task stands at. `AfterCancel` says where `Task.cancel()` takes it from
there: most awaits end the task, `register` makes it give back the buffer slot it has
just acquired, and `lineage` *swallows* the cancellation because the child is already
persisted, so that the task goes on to wait for a buffer slot. `owner[p]` is who holds
the refresh lock of parent `p`: a task, or, when refreshes are not coalesced, the
ticket of a child in flight. `poll` and its variables are one pass of
`poll_and_ingest`, run by the ingestor or by the final sweep.

A pass that is cut off, by `stop()` or because the run reached its cap, is repeated by the
final sweep, and offers again what the strategy has already taken. `Refuse` lets the strategy
turn such a member down: the router compares a program with the elite of its cell, strictly,
and here that elite is the program itself. (`Accept` stands for another island that takes it
as well.) A refused member is discarded (`Discard`), see 6.

Facts of asyncio the model relies on: a task is not cancelled before its first step
(the ready queue is FIFO and the dispatcher yields only inside `acquire`), and a
second cancellation of the dispatcher reaches its tasks through `gather`.
`_in_flight_lock` is never contended, since nothing awaits inside it, and has no state.

Left out: the initial drain of seed programs, hooks, sampling, metrics other than
`mutations_created`, eviction from the archive (it only grows), and a child that is
accepted and chosen as a parent before its slot is released (`Parents` and `Mutants`
are disjoint). `_ingest_batch`'s second read is merged with the first.

### StageGraph and StageOrder

`results` is `program.stage_results` of the object a run works on, `stored` that of the
stored program. The loop of `DAG.run` suspends only in `asyncio.wait`, so `Iterate` is a
whole pass: automatic skips, then each ready stage either taken over from its cached
result or launched. `Collect` takes in the tasks that have ended; `Enter` and `Execute`
are `_run_stage` and `Stage.execute`. `CutShort` is the DAG's timeout or the end of the
process; `Persist` writes the program or fails to, so that a later run starts from any
mixture of results of earlier ones. A stage's inputs are the set of <<producer, output>>
pairs, which also stands for their hash. `Blueprints` are offered to the validator, which
accepts the acyclic ones.

`StageOrder` knows of a stage only whether it is open, running, completed or
unsuccessful. The mapping is by `finished_this_run` and `running`, not by the statuses
alone, which may be left over from an earlier run: that is the mistake the code has to
avoid, and the refinement shows it does.

### Islands

`hash` and `reverse` are the two Redis hashes of an archive, `cache` its in-memory elite
table. `op[a]` is the call the ingestor (an adder) or a mutant task (a producer) is in; each
await on Redis ends a step, and what a command does in Redis (`Commit`, `Delete`, `Stamp`,
`Dispose`, `Refuse`) is kept apart from what the process does with its answer. `island.add` is
`StartAdd` or `NextMigrant` (router and comparison with the cache), `Watch`, `Exec` or
`ExecAborted` (the optimistic transaction; `dirty` are the watchers whose hash was written),
`Mark` (the metadata, with the merge of `storage.update`), `Measure`, `Lookup`, `Bulk`,
`Discard` (the size limit). A migration is `StartSelect`, then per migrant an add, `Leave` and
`Left`, or `Rollback` and `RolledBack`; then `Limits` on each island. `Restart` reads the
cache from Redis and ingests again what is in no archive. `CutOff` is the end of a run: the
dispatcher cancels its tasks, then `run()` the ingestor. The command in flight is executed or
not, the cache is not told, and the program the ingestor was at is offered again by the final
sweep, which trusts that cache (`ending`: no new selections). A pass of the ingestor is here
one program long. `alone` marks the behaviours in which calls do not overlap and nothing
crashes or is cancelled: some properties are promised only there.

### MigrationBus, EngineSnapshot, ParentRefresh, PopulationSnapshot, EndpointPool, InstanceLock, ParentLineage

*MigrationBus.* `Read`, `Claim`, `Deliver` are the poll loop of a node (the cursor moves
before the claim, what the buffer has no room for is dropped), `Drain` and `Import` the
loop of the engine. `PollError`, `StopNode` and `Crash` cut these off where they wait, a
claim in flight being executed or not; `ClaimExpires` is the TTL. `calm` remembers that
none of this, and no drop, has happened.

*EngineSnapshot.* `queue` is the FIFO of `_snapshot_lock` with the keyword arguments each
caller evaluated before it waited. `WriteFails` covers a write that Redis executes and one
it does not. `Start` is `run.py`: seeds in the first life, `restore_state` later.

*ParentRefresh.* A caller takes the locks of its parents in the order of ids, decides which
are stale, flips those whose *object it read* was DONE, awaits them, marks them fresh.
`cycles[p]` counts what pays for another flip of `p`: a completion that made it stale, or a
refresh that failed.

*PopulationSnapshot.* `valid` is `_cached_epoch = _epoch`. A fetch is two round trips, full
(`Scan`, `ReadAll`) or incremental (`ReadIds`, `ReadPrograms`); `Publish` stamps it with the
epoch of that moment, as the code does. `due` is a history variable: what was settled at
the last bump that met no fetch.

*EndpointPool.* `Acquire` is the Lua script. `Cancel` is `CancelledError`, which no except
branch sees; `ReleaseFails` goes on to `mark_unhealthy`, as line 121 of `balanced_chat.py`
does; `MarkFails` allows any prefix of the pipeline.

*InstanceLock.* Reading the key and writing or deleting it are two steps; `lapses` counts
the expiries of a key whose owner still works.

*ParentLineage.* `at[t]` is the await of a mutant task and `copy[t]` the parent as it read
it; `image` is the DAG runner's object, `patch` the raw blob between the two round trips of
the QUEUED to RUNNING call, `removal` the copy of an island that evicts the parent.
`Update` is `storage.update`: it merges with what is there. `Flip`, `MarkWrite`, `Finish`
and `EvictWrite` put their copy in place of it. `tickets` chooses between refreshes with a
ticket and coalesced ones. `recorded` and `exposed` are history variables: the children
whose update was executed, and those of them recorded while such a copy was held. The
runner's failures are in `DagRunner`.

These seven and `MCServices`: `part` selects the one that moves. They are run together
because they ask the same kind of question of small state spaces; nothing in one can
influence another. Their constants' conditions are named definitions (`BusAssumption`
and so on), assumed in `MCServices` and in the theorems.

### MutantPipeline

The abstract specification: at most `Depth` mutants in production, at most `Depth`
buffered, nothing started once `Cap` have been delivered. The refinement maps
producers to live tasks, the buffer to `_in_flight` and deliveries to
`mutations_created`.

## 3. Runs

| run | what it asks | result |
|---|---|---|
| `runner_serial` | one DAG at a time (two prefetched), with timeouts, failing DAGs, a failing call, two refreshes and a crash or stop: do blob and status sets agree, is every step of a program legal, is nothing undone or left unfinished? | holds, 132 000 states |
| `runner_hazards` | two DAGs at a time, a DAG that overtakes its own launch, a failing launch write whose cancelled tasks write late, a refresh: is every program still found in some set, and is one that was never exposed to a race in one set, visible and legally moved? | holds, 1.95 million states, 50 s |
| `engine_slots` | coalesced refreshes, four mutants, `stop()`, a storage failure: are slots conserved on every exit, the overshoot bounded, the pipeline implemented? | holds, 161 000 states |
| `engine_tickets` | locks held until the child is ingested, two parents: do tickets and locks change hands without loss, exclude a refresh under a child, and avoid a deadlock? | holds, 546 000 states |
| `engine_progress` | no `stop()` and no failure: does a run that reaches its cap end, and does every finished child give its slot back? | holds, 118 000 states |
| `stage_graph` | every chain of three stages with any kinds of dependency (and cyclic graphs, which the validator must refuse), two evaluations, cut off anywhere and written or not: is every stage decided, in order, and no stale result kept? | holds, 806 000 states |
| `islands` | three islands, three programs of which two compete, migrations, size limit one; with and without overlapping calls and a crash or a cancellation: do index, cache, homes, sizes and the best elites stay true? | holds, 5.5 million states up to symmetry, 80 s |
| `services` | the seven small modules, see Bounds | holds, 867 000 states, 150 s |
| `islands_home` | "the program's current_island metadata is updated" (`tests/evolution/test_island.py:607`) | violated, see 6 |
| `runner_discard` | "Don't discard a program that already finished" (`dag_runner.py:319`) | violated, see 6 |
| `engine_stop` | "Stop the evolution engine and await task completion" (`core.py:132`) | violated, see 6 |
| `engine_add` | the "archive-member-is-DONE invariant" (`archive_storage.py:184`), in a run without `stop()` or failure | violated, see 6 |

### The properties

*Runner.* `OneStatusSet`: blob and status sets agree ("exactly one status set").
`UnfinishedVisible`: QUEUED or RUNNING work is in a set `_launch` reads.
`TasksTracked`: no task outside `_active`, so none that cannot be cancelled and no
second one for a program. `LegalTransitions`: every step of the *stored* state is one
the table allows, or the requeue of stranded work; the code validates only the state
its caller believes in. `DoneUndoneByEngine`: the runner never sends a DONE program
back. These four are checked with one DAG at a time. `NeverLost`: a stored program is in some
set. `RaceFree`: what the four say, in the presence of every race, of the programs that were
never exposed to one. `QueuedSettles`,
`OrphansResolved`: every program is finished at last, and no RUNNING entry stays
without a task.

*Engine.* `ProducerSlotsConserved`, `BufferSlotsConserved`: every slot has exactly one
holder. `NoOrphanWhileDispatching`: a persisted child is somebody's. `CapOvershoot`:
at most `max_in_flight - 1` mutants over the cap. `TicketsPaired`, `NoRefreshUnderChild`,
`LockWaitsOrdered`: the locks. `PipelineSpec`: the refinement. `CapEndsRun`,
`FinishedAreReleased`: progress.

*Stage graph.* `AllDecided`: a run that ends by itself has decided every stage.
`CacheCoherent`: then no result with a hash was computed from inputs its producers no
longer have. `KeepsOrder`: the refinement of `StageOrder`. `RunEnds`: a run ends.

*Islands.* `ReverseIndexed` and `ReplacedByBetter` hold however calls overlap, wherever one is
cancelled between Redis and the cache, and wherever the process dies. `CacheMirrors`,
`OneIsland`, `BestKept`, `SizeKept` are about the moments between calls that do not overlap.
`OneIsland` makes an exception of discarded programs, which are copied, not moved (see 5).

*Services.* `TakenOnce`: a migrant is imported at most once over all runs, and by one the
topology allows, until its claim key expires. `MigrantsLand`: nothing takes a migrant
away from those that may import it. `ConfirmedKept`, `Covered`, `OrdinalsUnique`: what the
snapshot guarantees to the process that resumes from it. `LoadExact`: an endpoint's count
is the calls at work plus those cut off. `FlipsBounded`: one flip per stale-fresh-stale
cycle. `BumpHonoured`: readers see what was settled at the last bump that met no fetch.
`OneMorePerLapse`: the instance lock admits one process, plus one per key that expired
under a living owner. `LineageKept`: a recorded child stays in the stored lineage unless
somebody held a copy that replaces the blob; with tickets, and no eviction, nobody does,
and the parent's blob and status set agree.

The type invariants of `SteadyState`, `StageGraph`, `Islands` and the small modules were
checked while the models were written and are no part of the runs; that of each proved
module is part of its inductive invariant.

### Bounds

Two programs suffice for every interaction found in the runner: one that a task or a
late writer works on while another is cancelled, harvested, flushed with or reconciled
after it; three programs were also tried for the safety part of `runner_serial` (one
refresh, 263 000 states up to symmetry) and showed nothing new. One crash or stop and
one failing call, each in any place; two refreshes, so that a refreshed program can be
refreshed again. `RetryBudget` is 1, or 0 in
`runner_hazards`, where the budget is no part of the question. That run has one refresh, one
failing call, and neither a crash nor a DAG that raises; each of these two in place of the
refresh was tried as well, and `RaceFree` held. Without `\ overtaken` it fails there, and a
seeded bug that touches programs with a task breaks it. Four mutants against a
cap of two and a depth of two allow the largest overshoot (three) and one more
producer at work; three mutants and two parents allow each kind of lock conflict,
including two waiting tasks and a ticket.

Three stages in a chain, with a second way from first to last, give a stage two dependencies
of different kinds and a skip that makes another skip; two runs give one leftover of an
earlier run, in any state a cut can leave it; two outputs let inputs change or stay. One stage
executes at a time (`MaxParallel = 1`), so that waiting for the semaphore happens; two places
were tried as well (809 000 states). The root is never cached, so that it can change its
output while the others hold results of the earlier run.

In `islands` two programs compete for one cell and a third has its own, so that a program can
be displaced, evicted by the size limit, or neither; three islands let a stale
`current_island` name an island the program has left. Four generations allow three migrations
without overlap, two allow one with overlap and one crash or one cancellation
(`MaxGeneration`, `MaxCrashes`, which counts both). The third matters: it is the first that
can find a program which a size limit has discarded in one island while another still holds
it. One adder and one producer: two of the conflicting calls at a time. Two producers, whose
migrations then overlap, were also tried, with two islands, two programs and no crash (115 000
states), and all six properties held; with three programs that instance is too large for a
run.

In `services`: three runs of which two may compete for a migrant or, in the ring, only
one may take it; two messages in responses of up to two, a buffer of one, one trouble.
Three tasks, one seed, one sweep of the ingestor, two lives. Three calls on two endpoints.
Two parents, two callers, three calls of `refresh_if_stale`: a parent can be refreshed,
made stale and refreshed again while the other caller still awaits it. Two programs and
two readers, which suffice for a shared, an overtaken and an incremental fetch. Four
processes and two lapses. Two mutant tasks of one parent: one records its child while the
other refreshes the parent or records its own. Three were tried separately (1.8 million
states), and the property held.

Deadlock is checked for the runner, which never stops. The other runs switch it off: an
engine, an evaluation or a bounded number of calls comes to its end and has no further
step; that this is the right end is what `CapEndsRun`, `RunEnds`, `AllDecided` and
`MigrantsLand` say.

### Fairness

`FairSpec` of `DagRunner`: the event loop runs every coroutine that is ready, so the
scheduler and a task's writes are weakly fair; a DAG ends because its stages have
timeouts (weak fairness of `DagEnds`); `asyncio.Semaphore` serves its waiters in
order, so the entry of a task is strongly fair; an operator restarts a process that
went down. `FairSpec` of `SteadyState`: a task is strongly fair (locks and semaphores
are FIFO, the refresh and the LLM call have timeouts), the loops and the DAG runner
weakly. `FairSpec` of `StageGraph`: the loop and the stage tasks are weakly fair, the
latter because each stage has a timeout; the DAG's own timeout is not needed for `RunEnds`
and not assumed. `FairSpec` of `MCServices`: the poll and drain loops of the bus do not all
stand still while one has something to do (both are `while` loops with a sleep); as their
work is finite, this is as good as fairness of each. Submissions, refreshes, failures,
crashes, expiries, `stop()` and the start of a run are never assumed to happen.

## 4. Proofs

For all values of the constants that satisfy the modules' assumptions:

* `DagRunnerProofs!NothingLost`: `NeverLost` always holds. It is not inductive,
  because a writer such as the finally block of a cancelled DAG stores a blob and moves
  no status set. The invariant `StoreInv` adds that every program the process still
  *knows of* (it has a task, a pending late write, a place in `_done_queue`, or is in
  the scheduler's hands) is already in a status set. Two notions carry the argument: a
  *sound* write leaves who is found found and changes no blob of one who is not; a
  *tame* step makes the process know only programs it knew or that are stored. A
  sound, tame step preserves the invariant (`TameSound`); one lemma per part of the
  system shows its steps sound and tame.
* `DagRunnerProofs!Tracked`: `TasksTracked` always holds. `TrackInv` says that the tasks
  are exactly those of `_active`, and (`OverdueActive`) that what `_maintain` has still
  to cancel is in `_active`: it removes an entry it read some steps before.
* `DagRunnerProofs!TypeCorrect`. Images of absent programs do circulate (a read
  returns `None`), and a program is moved to the set of the state its image says.
  `TypeInv` adds where only images of existing programs can be: in tasks, in late
  writes, among the orphans being put back; it uses `TrackInv`.
* `DagRunnerProofs!RaceFreedom`: `RaceFree` always holds, whatever `Cap` is (8 by default, 10
  in the shipped configuration), with `EarlyFinish` and `MarkRaises`, every failure, refresh,
  stop, crash and restart. The writers do not look at what they overwrite, so the invariant says
  for each await that what its coroutine holds of a program is still so. It is stated for a set
  `A` of programs that were never exposed: `SoundInv` is `Orderly(A)` and `Unraced(A)` for every
  such set, whatever happens to the programs outside it. A program is `In` the status set of its
  blob, or `HalfMoved`, in the middle of a requeue. `TaskFits`: while a task is at work its
  program is RUNNING, but for the launch it belongs to and after `stop()`. `Owes`: its result is in
  one place at most, in `_done_queue`, in one batch or in the scheduler's flush, and the
  program is RUNNING until it is written. `Launches`, `Strays`, `Expires`, `Recovers`: what the
  scheduler has read of the queued, the orphaned, the overdue and the stranded programs of
  `A` is true when it writes. `OrderlyStep` shows that a step which exposes nobody in `A` keeps
  all this and is lawful for `A`; `Exposures`, that
  whoever is exposed is recorded; `Recording`, that a step which records writes nothing to the
  store, so that the harm always comes later than the exposure; `LastWrites`, that a cancelled task
  leaves a write behind only of a program just let go of.
* `SteadyStateProofs!TypeCorrect`, `ProducerSlots`, `BufferSlots`: conservation of both
  semaphores. The buffer's count needs `HandedOver`, that the task of every child in flight is past
  its registration, so that no child is registered, and no slot counted, twice.
* `CapBound`: the overshoot. `CapInv` bounds the created mutants together with the producers
  that may still register one; a dispatch below the cap keeps the sum below it, because
  the producers are at most `max_in_flight`.
* `Refinement`: initial states and steps of the engine are those of `MutantPipeline`.
* `Tickets`, `RefreshExclusion`, `LockOrder`: from `LockInv`: a task that refreshes, or has
  a ticket, holds the locks of all its parents; one that waits holds only locks with
  smaller ids than those it waits for; one that has not selected holds none.
* `SteadyStateProofs!NoOrphan`. `OrphanInv`: before a shutdown a task leaves its stage of
  registration only with its child in flight (`PassedOn`), and a pass of the ingestor
  releases only what has finished.

* `StageGraphProofs!EveryStageDecided`, `CacheStaysCoherent`, `OrderKept`, all from `GInv`.
  `Shape` ties the sets of the loop to the tasks; `FedFirst` says that what is at work, or
  finished with a hash, has everything it depends on finished, and `Coherent` that its hash
  is that of what its producers hold, since a finished result no longer changes. That
  nothing is left undecided is an argument about the graph: among the undecided stages one
  has the lowest rank (`LowestRank`, by well-founded induction on `<`), all it depends on is
  finished, and each gate is then open or impossible. `OrderKept` is a step refinement: a
  pass of the loop is one `Advance`, in which several stages move at once.

* `IslandsProofs`: all six properties. `IndexInv` serves those that hold under overlap: an
  actor between WATCH and EXEC whose hash nobody wrote still sees what it read (`Fresh`), it
  knows itself better than that (`Sound`), and a program is only ever in the cell of its
  behaviour (`Housed`, `Indexed`). From it `IndexTrue` and `DisplacedByBetter`; none of its parts
  trusts the cache, which is why it survives a cancellation (`CutKeeps`). The other four
  are promised between calls that do not overlap, so their invariants describe every step
  *within* such a call: `SoloInv` (one call at a time, the cache equals the hash, what the call
  has looked up is still there) gives `CacheTrue`; `KnownInv` (every member has metadata, a
  migrant whose source is unknown has been discarded) and `Apart` (a program in two islands
  is just being moved from one to the other) give `OneHome`; `Sized` (an island over
  its limit has somebody on the way to enforce it) gives `SizeTrue`; `Topped` (some island
  holds a best program that is not a migrant about to be taken back) gives `BestStays`. The
  cells in use are counted by `CellCount`: Redis's length is at least the number of members.

* `ServicesProofs!EveryBumpHonoured`. `BumpHonoured` speaks of a list that is
  current; a fetch on its way to publishing one has already read ids. `Covering` says that
  what was settled at the bump is among the ids a full fetch has read, or is among those
  an incremental one refreshes or settled in the id cache; `LockHeld` that there is only
  one fetch, so that a bump that meets none meets nobody between two round trips.
* `ServicesProofs!LockBound`. The processes at work are not enough: one that has read
  its own id and is about to delete the key will delete somebody else's after an expiry.
  `Budget` counts these too, and gives one place for free only while the key is in the
  hands of one of them.
* `ServicesProofs!PoolLoad`. `PoolInv` adds to `LoadExact` that a call which has begun
  has an endpoint; each action moves one call into or out of the set the count stands for.
* `ServicesProofs!FlipBound`. `Paid`: a parent may have one flip more than its cycles
  only while it is fresh or somebody awaits its refresh; a flip needs that it is neither.
  That nobody else awaits it follows from `Exclusive`: a lock has one holder, and a caller
  that refreshes holds the locks of all it found stale, none of which is fresh.
* `MigrationBusProofs!Taken`. `Owned`: a message whose claim has not expired is held by the
  owner of the claim alone, and by nobody once it has been imported. That an import leaves
  nobody with the message needs that its run does not hold it twice, in what it has claimed,
  buffered and drained: `Ordered` says that these follow the order of the stream and do not
  lie beyond the cursor.
* `EngineSnapshotProofs!SnapshotCovers`, `OrdinalsSpread`, `SnapshotKept`. `Lags`: the mirror
  is never ahead of Redis. `Waiting`: a call in the queue of `_snapshot_lock` carries the ordinal
  its task reserved, so that whoever writes first, the mirror passes it when the
  task's own turn comes. `Spread`: the ordinals given out lie below the next one, in the
  process while there is one and in Redis after its last write.
* `ParentLineageProofs!Lineage`. `CopiesKeep`: every copy that will replace the blob holds the
  children recorded while nobody was about to write one. With tickets `Guarded` (a task holds
  the lock from its refresh to the ingestion) and `Quiet` (past the refresh the parent is DONE,
  and the runner has no task for it).

* `ServicesProofs` carries the theorems of the last seven over to `MCServices`, the module
  the run checks: every step of it is a step or a stutter of each component.

The assumptions are the ASSUMEs of the modules, or the named conditions that `MCServices`
assumes: finite sets of mutants, parents, calls and programs, integer parent ids, sizes of at
least one, values such as "nobody" that are no element of what they stand beside. A size limit
of an island is at least one (`island.py:33-37`). `BestStays` has the premise that no two
programs are equally good or an island has room for two, which is needed (see 5).

Two of these proofs failed at first and found something. `OneIsland`
used to claim that no program is in two islands; the proof of `Apart` stopped at a migrant
with no source, and with one more generation TLC showed how one comes about. `BestKept`
used to have no premise; the proof of `Topped` stopped at two equally good programs.

Only model-checked: what `runner_serial` says of *every* program with one DAG at a time
(`OneStatusSet`, `UnfinishedVisible`, `LegalTransitions`, `DoneUndoneByEngine`), of which
`RaceFreedom` is the form that holds for any number of DAGs; and liveness, that is
`QueuedSettles`, `OrphansResolved`, `CapEndsRun`, `FinishedAreReleased`, `RunEnds` and
`MigrantsLand` (fairness and ENABLED are outside the prover's reach). Every other safety and
action property of a passing run is a theorem.

## 5. What does not hold

Each of these is false of the code, as TLC shows when the constants are changed or the
property is stated without its premise. Runner, outside the configuration of
`runner_serial`:

* `OneStatusSet` with `Cap >= 2`: while one task flushes a batch, another program of
  that batch is harvested; `_launch` sees it RUNNING without a task and reconciles it
  as an orphan, and both writers move status sets. It also fails with `EarlyFinish`,
  where DONE is written before RUNNING.
* With `MarkRaises` also `UnfinishedVisible` fails: the cancelled tasks of a failed launch
  are not awaited, and their last write may come after the program has been settled.
* In general: with `Cap = 2`, with `EarlyFinish` or with `MarkRaises` in place of the choice made
  in `runner_serial` (and timeouts, failing DAGs, a refresh, a failing call and a crash) TLC finds
  `OneStatusSet`, `LegalTransitions`, `DoneUndoneByEngine`, `DiscardedForever` and
  `UnfinishedVisible` violated; only the last still holds, for two programs, with `EarlyFinish`
  and `Cap = 1`. The code ships with ten DAGs at a time, so these are failures of the program as it
  runs. `RaceFreedom` says what they have in common: each happens to a program that the
  runner let go of too early or whose DAG overtook its launch, and to no other.

Islands:

* `CacheMirrors` when calls overlap: a removal looks a cell up, an add fills it, the
  removal's pipeline empties it. The removed program may not be the one that was looked up.
* The converse of `ReverseIndexed`: such a removal leaves an index entry without its cell.
* "An archive member is never DISCARDED", even without overlap, with three islands: a
  program migrates twice; its stored `current_island` still names the first island, so it
  is not removed from the second. Added to a full third island it is evicted there and
  discarded, and stays in the archive of the second.
* "A program is in one island at most", by the same history: discarding cleared its
  `current_island`, and the next migration, which reads no source, copies it to
  another island and leaves it where it is.
* `BestKept` with size limits of one and two programs equally good: each may evict the other
  from its island, the second on a migration that is then rolled back, and neither is left.
* The elite that a migrant displaces is lost from its cell when the migrant is rolled back.
  The worst program may migrate into a full island and be discarded there at once.
* The guard of `archive_storage.py:183-189` against adding a member again is not reached
  with fixed bins: the router already refuses it. When an add is cut off with its transaction
  executed, the cache does not know the member; the router then lets it through, the index in
  memory does not know it either, and the comparison after WATCH turns it down, since it is
  not better than itself. Either way the ingestor discards a member.

Engine, outside the model's failures: a `storage.add` that Redis executes and that raises
(`mutation.py:65`, `110-116`) leaves a child that is evaluated and that nobody ingests;
`NoOrphanWhileDispatching` assumes that a call which raises has not been executed.

A parent (`ParentLineage`), when refreshes are coalesced, so that one task records its child
while another sends the parent back:

* A recorded child is lost when a flip, the mark or the end of the evaluation writes a copy
  read before (`mutation.py:88`; nothing in the code reports it).
* An update whose copy says QUEUED and comes after the evaluation puts the blob back to
  QUEUED (`merge_states`: DONE to QUEUED is valid) while the status set says DONE. Nobody
  launches it: every refresh of this parent waits until its timeout, if it has one.
* An update whose copy says DONE and comes while the parent is RUNNING makes it DONE;
  those who await the refresh go on with the old results. If it is then flipped again
  while it runs, the program stays in the QUEUED and the DONE set, and is launched again
  and again.

With tickets as well, when the parent is evicted from its archive (`island.py:279`) while a
refresh is under way: the eviction writes DISCARDED, and the flip, the mark or the end of the
evaluation writes its copy over that. "A DISCARDED program stays so" fails, and the program
is left in two status sets (against `redis_program_storage.py:282`). The eviction itself drops
a child recorded since it read the parent.

Snapshot, bus, pool, refresh, cache, lock:

* "the snapshot can never regress" (`core.py:440`): a write that Redis executed and did not
  confirm is unknown to the mirror, and the next may put back a smaller value.
  `OrdinalsUnique` fails after a crash between `storage.add` and the snapshot write, and
  after a failed first write of the first life, whose successor restores the ordinal 0
  that a seed has.
* At-most-once import fails once a claim key expires. A migrant is lost when its claimer
  is stopped, crashes or meets an error before it delivers, or has no room in its buffer;
  and when the claimer's engine has ended, for its node polls and claims on until it is
  stopped. A migrant that the strategy refuses stays DONE in the store
  (`bus/engine.py:105-106`).
* A release that Redis executes and that raises leads to `mark_unhealthy`, which counts the
  same call down again; the count of a cancelled call is never given back.
* "A parent id is fresh iff it has been refreshed since the last child" (`refresh.py:186`):
  `_fresh.update` comes after the await (line 322), and a caller whose object was read as
  QUEUED flips nothing.
* A bump during a fetch is lost until the next one (`program_storage.py:97`).
* "Prevents multiple instances" (`locking.py:22`) after an expiry under a living owner: one
  failed renewal ends the renewal task, and the process works on although the log says
  STOPPING. An `acquire` whose reply is lost refuses itself on the retry.

## 6. Disagreements with the repository's own statements

* `runner_discard`. Two tasks are overdue. While the first is being cancelled, the
  second completes and joins `_done_queue`; the stored state is still RUNNING, the
  guard lets the discard through, and the flush then writes DONE over DISCARDED. The
  program ends in two status sets.
* `engine_stop`. `stop()` waits for the dispatcher, which waits for a task that
  swallowed its cancellation and waits for a buffer slot, which only the ingestor
  frees, which has ended because `_running` is False. The same happens when the
  ingestor dies of an exception.
* `islands_home`. `island.add` sets `current_island` and calls `update_program`, whose merge
  keeps a key that exists unless the incoming revision is newer, which a copy's never is:
  only the first island is ever stored, and the next migration starts from it; section 5
  says what can come of that.
* `engine_add`. The run reaches its cap while a pass is at work: the strategy has taken a
  program, `run()` cancels the ingestor before the program is released, and the final sweep
  offers it again. The router compares it strictly with the elite of its cell, which is the
  program itself, so `add` returns False and the ingestor discards an archive member. The guard
  whose comment names this case is behind the router (`multi_island.py:88`). A `strategy.add` that
  raises after its archive write (`AddRaises`; `island.py:160`, `166`) has the same outcome.

Without a run, since the behaviour the text describes does not exist in the code:

* `docs/COEVOLUTION.md:119` says the hook polls "Before each generation step" and keeps the
  two processes "in lockstep"; `docs/adversarial_coevolution.md:51` and
  `adversarial/sync.py:14` say alike. `steady_state.py:116` awaits the hook once per run,
  before the dispatcher starts, and the first call of either hook returns at once
  (`adversarial/sync.py:216`; `prompts/coevolution/sync.py:138`, where any progress exceeds
  the initial -1).
* `program_storage.py:27` reserves the incremental bump for changes of state that leave the
  data alone, and line 109 calls DONE programs "stable"; the ingestor bumps incrementally
  always (`ingestor.py:121`), although a refresh evaluates DONE parents again: their new
  results do not reach the collectors.

## 7. Not modelled, and what is left

Not modelled, because there is nothing for a model checker to find or the state is not
the repository's:

* the synchronisation hooks: their waiting loop is never reached (see 6);
* the Redis connection and key names (I/O with retries; a caller sees a call that raises);
* predictors, LLM routers and agents, stages and sandboxes, memory, the problems,
  monitoring, tools, configuration: numerical or textual work within one call. This is
  most of the repository by lines, and includes the vendored benchmark code.

Left out of modules that exist, each with a hazard in `PROJECT.json` where there is one:

* the two stops that share the storage (`dag_runner.py:266`): their order is the caller's;
* in `DagRunner` and `SteadyState`, a storage call that is executed and raises (see 5); in
  `SteadyState`, how the strategy decides, which is in `Islands`;
* the legacy drain of seeds, `remove`, dynamic behaviour spaces (re-binning), the trimming
  of the stream, the statistics of the pool, the full bump.

Still worth doing: the four properties of `runner_serial` as theorems for one DAG at a time
would add little to `RaceFreedom`; worth more is a sharper notion of exposure, which lets a program
recover once the late write has come and the record is consistent again, and a model in which
a storage call may be executed and raise.
