------------------------------ MODULE DagRunner ------------------------------
(***************************************************************************)
(* The DAG runner (gigaevo/runner/dag_runner.py): one scheduler coroutine  *)
(* that expires, harvests, reconciles and launches, and one task per       *)
(* launched program that evaluates its DAG under a semaphore. All of them  *)
(* share the program storage and interleave at every await; an action is   *)
(* the code between two awaits. The evolution engine is present as the     *)
(* three things it does to the store: submit a new program, send a         *)
(* finished one back for re-evaluation, discard one.                       *)
(***************************************************************************)
EXTENDS ProgramStore

CONSTANTS
  Nobody,        \* no program
  Cap,           \* max_concurrent_dags
  Prefetch,      \* prefetch_factor
  Timeouts,      \* TRUE: a DAG may outlive dag_timeout
  EarlyFinish,   \* TRUE: a DAG may end before its QUEUED -> RUNNING write does
  DagsFail,      \* TRUE: a DAG, or its construction, may raise
  MarkRaises,    \* TRUE: a launch's QUEUED -> RUNNING call may raise
  MaxRefreshes,  \* bound: how often the engine re-queues finished programs
  MaxFaults,     \* bound: how many storage calls raise
  MaxCrashes     \* bound: how many times the process stops or dies

ASSUME RunnerAssumption ==
  /\ Nobody \notin Programs
  /\ Cap \in Nat \ {0}
  /\ Prefetch \in Nat \ {0}
  /\ {Timeouts, EarlyFinish, DagsFail, MarkRaises} \subseteq BOOLEAN
  /\ {MaxRefreshes, MaxFaults, MaxCrashes} \subseteq Nat

VARIABLES
  active,    \* _active: the programs the scheduler has a task for
  task,      \* task[p]: where the task of p stands ("none": no task)
  obj,       \* obj[p]: the Program object that task works on
  oldState,  \* oldState[p]: the old state a failed task's write will leave
  batch,     \* batch[p]: the batch that task p is flushing inline
  late,      \* <<p, image>>: last writes of tasks cancelled but not awaited
  doneQueue, \* _done_queue: evaluated programs whose DONE is not written
  overtaken, \* history: the programs that were exposed to a race at some time
  pc,        \* where the scheduler stands
  todo,      \* the programs left for the scheduler's current loop
  group,     \* the tasks _maintain found finished, or _launch has created
  cur,       \* the program the scheduler's loop body is at
  seen,      \* the blobs, or the queued batch, the scheduler last read
  queued,    \* the ids _launch read from the QUEUED status set
  stopping,  \* _stopping: stop() was called
  refreshes, faults, crashes   \* counters for the bounds

runVars == <<active, task, obj, oldState, batch, late, doneQueue, overtaken>>
locals == <<todo, group, cur, seen, queued>>
schedVars == <<pc, stopping, locals>>
bounds == <<refreshes, faults, crashes>>
vars == <<storeVars, runVars, schedVars, bounds>>

NoImages == [p \in Programs |-> Absent]
Pending(q) == {p \in Programs : q[p] # Absent}

\* Tasks inside "async with self._sema".
Holding == {p \in Programs :
              task[p] \in {"running", "unwinding", "errFlush", "errSet", "flush"}}

TaskStates == {"none", "sema", "running", "unwinding", "errFlush", "errSet",
               "flush", "done"}
SchedStates == {"maintain", "expire", "await", "expireGet", "harvest", "flush",
                "ids", "runningIds", "orphans", "reconcile", "requeueMove",
                "pick", "get", "create", "buildFail", "mark", "markWrite", "marked",
                "idle", "stopping", "stopAwait", "down", "recover",
                "recoverMove"}

TypeOK ==
  /\ StoreTypeOK
  /\ active \subseteq Programs
  /\ task \in [Programs -> TaskStates]
  /\ obj \in [Programs -> Image]
  /\ oldState \in [Programs -> States \cup {"absent"}]
  /\ batch \in [Programs -> [Programs -> Image]]
  /\ late \subseteq Programs \X Image
  /\ doneQueue \in [Programs -> Image]
  /\ overtaken \subseteq Programs
  /\ pc \in SchedStates
  /\ todo \subseteq Programs /\ group \subseteq Programs
  /\ queued \subseteq Programs
  /\ cur \in Programs \cup {Nobody}
  /\ seen \in [Programs -> Image]
  /\ stopping \in BOOLEAN
  /\ refreshes \in Nat /\ faults \in Nat /\ crashes \in Nat

Init ==
  /\ StoreInit
  /\ active = {}
  /\ task = [p \in Programs |-> "none"]
  /\ obj = NoImages
  /\ oldState = [p \in Programs |-> "absent"]
  /\ batch = [p \in Programs |-> NoImages]
  /\ late = {}
  /\ doneQueue = NoImages
  /\ overtaken = {}
  /\ pc = "maintain"
  /\ todo = {} /\ group = {} /\ queued = {}
  /\ cur = Nobody
  /\ seen = NoImages
  /\ stopping = FALSE
  /\ refreshes = 0 /\ faults = 0 /\ crashes = 0

-----------------------------------------------------------------------------
(* Races. A program is exposed to one on its own record in two ways only:  *)
(* the runner lets go of it while a write of its task is still due, or its *)
(* DAG ends before its launch has marked it RUNNING. The steps that can    *)
(* expose a program record it in overtaken, which nothing reads.           *)

\* A result of p is on its way to the store with the results of others: in
\* _done_queue, or in the batch that some task is flushing.
Due(p) ==
  \/ doneQueue[p] # Absent
  \/ \E q \in Programs : batch[q][p] # Absent

\* p is not in _active, so that the scheduler may reconcile or launch it, while a
\* write of the task it had is still to come. (After stop() the scheduler does
\* neither any more, and collects what is due itself.)
Outlived(p) ==
  /\ p \notin active
  /\ \/ \E w \in late : w[1] = p
     \/ Due(p) /\ pc \notin {"stopping", "stopAwait"}

\* p's DAG ended, with or without a result, when its launch had not yet marked
\* the object RUNNING.
Outrun(p) ==
  \/ task[p] = "errFlush" /\ obj[p].state = QUEUED
  \/ doneQueue[p].state = QUEUED
  \/ \E q \in Programs : batch[q][p].state = QUEUED

Raced(p) == Outlived(p) \/ Outrun(p)

Record == overtaken' = overtaken \cup {p \in Programs : Raced(p)'}

-----------------------------------------------------------------------------
(* The evolution engine. *)

Up == pc \notin {"down", "recover", "recoverMove"}

Submit(p) ==
  /\ ~Stored(p) /\ Up
  /\ Add(p, Fresh)
  /\ UNCHANGED <<runVars, schedVars, bounds>>

\* Seeded bug: the refresh writes the blob and leaves the status sets alone.
RefreshUnindexed(p) ==
  /\ blob[p].state = DONE /\ refreshes < MaxRefreshes
  /\ Up
  /\ WriteExclusive(p, WithState(blob[p], QUEUED))
  /\ refreshes' = refreshes + 1
  /\ UNCHANGED <<runVars, schedVars, faults, crashes>>

Refresh(p) ==
  /\ blob[p].state = DONE /\ refreshes < MaxRefreshes
  /\ Up
  /\ BatchTransitionState(blob, {p}, DONE, QUEUED)
  /\ refreshes' = refreshes + 1
  /\ UNCHANGED <<runVars, schedVars, faults, crashes>>

Reject(p) ==
  /\ blob[p].state = DONE /\ Up
  /\ BatchTransitionByIds(blob, {p}, DONE, DISCARDED)
  /\ UNCHANGED <<runVars, schedVars, bounds>>

-----------------------------------------------------------------------------
(* One task: _run_one and _execute_dag. *)

\* A storage call raises and the error is logged.
CallRaises ==
  /\ faults < MaxFaults /\ faults' = faults + 1
  /\ UNCHANGED <<storeVars, refreshes, crashes>>

TaskGoes(p, to) == task' = [task EXCEPT ![p] = to]

\* The task enters the semaphore.
StartDag(p) ==
  /\ task[p] = "sema" /\ Cardinality(Holding) < Cap
  /\ TaskGoes(p, "running")
  /\ UNCHANGED <<storeVars, active, obj, oldState, batch, late, doneQueue,
                 overtaken, schedVars, bounds>>

\* Without EarlyFinish a DAG takes longer than the launch it belongs to, which
\* ends by setting the object to RUNNING.
MayFinish(p) == EarlyFinish \/ obj[p].state = RUNNING

\* dag.run returned: the program joins _done_queue and, when that makes the
\* queue as long as Cap, this task takes the whole queue to flush it.
DagSucceeds(p) ==
  LET img == [obj[p] EXCEPT !.evidence = TRUE]
      q == [doneQueue EXCEPT ![p] = img]
      full == Cardinality(Pending(q)) >= Cap
  IN /\ task[p] = "running" /\ MayFinish(p)
     /\ obj' = [obj EXCEPT ![p] = img]
     /\ TaskGoes(p, IF full THEN "flush" ELSE "done")
     /\ batch' = IF full THEN [batch EXCEPT ![p] = q] ELSE batch
     /\ doneQueue' = IF full THEN NoImages ELSE q
     /\ UNCHANGED <<storeVars, active, oldState, late, schedVars, bounds>>
     /\ Record

\* The pipeline of _flush_done_queue, sent from inside a task.
InlineFlush(p) ==
  /\ task[p] = "flush"
  /\ BatchTransitionState(batch[p], Pending(batch[p]), RUNNING, DONE)
  /\ TaskGoes(p, "done")
  /\ batch' = [batch EXCEPT ![p] = NoImages]
  /\ UNCHANGED <<active, obj, oldState, late, doneQueue, overtaken, schedVars, bounds>>

\* The same call raising: the error is logged and the batch is gone.
InlineFlushFails(p) ==
  /\ task[p] = "flush" /\ CallRaises
  /\ TaskGoes(p, "done")
  /\ batch' = [batch EXCEPT ![p] = NoImages]
  /\ UNCHANGED <<active, obj, oldState, late, doneQueue, overtaken, schedVars>>

\* dag.run raised; its finally block is about to write the partial results.
DagFails(p) ==
  /\ DagsFail /\ task[p] = "running" /\ MayFinish(p)
  /\ \E e \in BOOLEAN :
       obj' = [obj EXCEPT ![p].evidence = @ \/ e]
  /\ TaskGoes(p, "errFlush")
  /\ UNCHANGED <<storeVars, active, oldState, batch, late, doneQueue, schedVars,
                 bounds>>
  /\ Record

\* The partial results are written; set_program_state(DISCARDED) then marks the
\* object at once and goes to await its INCR.
ErrFlush(p) ==
  /\ task[p] = "errFlush"
  /\ \/ WriteExclusive(p, obj[p]) /\ UNCHANGED bounds
     \/ CallRaises
  /\ oldState' = [oldState EXCEPT ![p] = obj[p].state]
  /\ obj' = [obj EXCEPT ![p].state = DISCARDED]
  /\ TaskGoes(p, IF obj[p].state = DISCARDED THEN "done" ELSE "errSet")
  /\ UNCHANGED <<active, batch, late, doneQueue, overtaken, schedVars>>

ErrSet(p) ==
  /\ task[p] = "errSet"
  /\ \/ FastStateTransition(p, obj[p], oldState[p], DISCARDED) /\ UNCHANGED bounds
     \/ CallRaises
  /\ TaskGoes(p, "done")
  /\ UNCHANGED <<active, obj, oldState, batch, late, doneQueue, overtaken, schedVars>>

\* A cancelled task's last act is the write of dag.run's finally block, which
\* a second cancellation (2 s after the first) may cut off.
Unwind(p) ==
  /\ task[p] = "unwinding"
  /\ \/ WriteExclusive(p, obj[p])
     \/ UNCHANGED storeVars
  /\ TaskGoes(p, "done")
  /\ UNCHANGED <<active, obj, oldState, batch, late, doneQueue, overtaken, schedVars,
                 bounds>>

\* The same write by a task that nobody waits for.
LateWrite ==
  /\ \E w \in late : /\ \/ WriteExclusive(w[1], w[2])
                        \/ UNCHANGED storeVars
                     /\ late' = late \ {w}
  /\ UNCHANGED <<active, task, obj, oldState, batch, doneQueue, overtaken, schedVars,
                 bounds>>

\* What Task.cancel() makes of a task: only a running DAG has something left to
\* do; a task awaiting a write of its own loses that write.
Cancelled(p) ==
  IF task[p] = "running" THEN "unwinding"
  ELSE IF task[p] = "unwinding" THEN "unwinding" ELSE "done"

-----------------------------------------------------------------------------
(* The scheduler: _maintain. *)

At(from) == pc = from
Goes(to) == pc' = to

\* _cancel_task, up to its await. A task that has ended meanwhile is left alone.
Cancel(p) ==
  /\ cur' = p
  /\ TaskGoes(p, IF task[p] = "done" THEN "done" ELSE Cancelled(p))
  /\ batch' = [batch EXCEPT ![p] = NoImages]

\* Seeded bug: the finished tasks stay in _active.
HarvestNone(finished) ==
  /\ group' = {}
  /\ seen' = doneQueue
  /\ doneQueue' = NoImages
  /\ Goes(IF Pending(doneQueue) = {} THEN "ids" ELSE "flush")
  /\ UNCHANGED <<active, task, obj, oldState>>

\* Forget the finished tasks and take over what is left in _done_queue.
HarvestAll(finished) ==
  /\ active' = active \ finished
  /\ task' = [p \in Programs |-> IF p \in finished THEN "none" ELSE task[p]]
  /\ obj' = [p \in Programs |-> IF p \in finished THEN Absent ELSE obj[p]]
  /\ oldState' = [p \in Programs |->
                    IF p \in finished THEN "absent" ELSE oldState[p]]
  /\ group' = {}
  /\ seen' = doneQueue
  /\ doneQueue' = NoImages
  /\ Goes(IF Pending(doneQueue) = {} THEN "ids" ELSE "flush")

Finished == {p \in active : task[p] = "done"}

\* Nothing is overdue: the finished tasks are harvested at once.
MaintainCalm ==
  /\ At("maintain")
  /\ HarvestAll(Finished)
  /\ UNCHANGED <<storeVars, batch, late, todo, cur, queued, bounds, stopping>>
  /\ Record

\* Some tasks are overdue: the first is cancelled at once; the finished ones
\* are remembered.
MaintainOverdue ==
  /\ At("maintain") /\ Timeouts
  /\ \E overdue \in SUBSET (active \ Finished) :
       /\ todo' = overdue
       /\ \E p \in overdue : Cancel(p)
  /\ group' = Finished
  /\ Goes("await")
  /\ UNCHANGED <<storeVars, active, obj, oldState, late, doneQueue, overtaken, seen,
                 queued, bounds, stopping>>

\* The next overdue task; it may have ended since it was found overdue.
CancelOverdue ==
  /\ At("expire")
  /\ \E p \in todo : Cancel(p)
  /\ Goes("await")
  /\ UNCHANGED <<storeVars, active, obj, oldState, late, doneQueue, overtaken, todo,
                 group, seen, queued, bounds, stopping>>

\* Seeded bug: the cancelled task is dropped without being awaited.
OverdueDropped ==
  /\ At("await")
  /\ active' = active \ {cur}
  /\ seen' = [NoImages EXCEPT ![cur] = blob[cur]]
  /\ Goes("expireGet")
  /\ UNCHANGED <<storeVars, task, obj, oldState, batch, late, doneQueue, todo, group,
                 cur, queued, bounds, stopping>>
  /\ Record

\* The cancelled task has ended: drop it and GET the program.
OverdueEnded ==
  /\ At("await") /\ task[cur] = "done"
  /\ active' = active \ {cur}
  /\ TaskGoes(cur, "none")
  /\ obj' = [obj EXCEPT ![cur] = Absent]
  /\ oldState' = [oldState EXCEPT ![cur] = "absent"]
  /\ seen' = [NoImages EXCEPT ![cur] = blob[cur]]
  /\ Goes("expireGet")
  /\ UNCHANGED <<storeVars, batch, late, doneQueue, todo, group, cur, queued,
                 bounds, stopping>>
  /\ Record

\* Discard it unless the copy just read is DONE (or already DISCARDED).
Expire ==
  LET img == seen[cur]
  IN /\ At("expireGet")
     /\ IF img.state \in {QUEUED, RUNNING}
        THEN FastStateTransition(cur, WithState(img, DISCARDED), img.state,
                                 DISCARDED)
        ELSE UNCHANGED storeVars
     /\ todo' = todo \ {cur}
     /\ cur' = Nobody /\ seen' = NoImages
     /\ Goes(IF todo' = {} THEN "harvest" ELSE "expire")
     /\ UNCHANGED <<runVars, group, queued, bounds, stopping>>

HarvestAfterExpiry ==
  /\ At("harvest")
  /\ HarvestAll(group)
  /\ UNCHANGED <<storeVars, batch, late, todo, cur, queued, bounds, stopping>>
  /\ Record

\* The pipeline of _flush_done_queue, or its failure.
Flush ==
  /\ At("flush")
  /\ \/ BatchTransitionState(seen, Pending(seen), RUNNING, DONE) /\ UNCHANGED bounds
     \/ CallRaises
  /\ seen' = NoImages
  /\ Goes("ids")
  /\ UNCHANGED <<runVars, todo, group, cur, queued, stopping>>

-----------------------------------------------------------------------------
(* The scheduler: _launch, the orphans. *)

ReadQueued ==
  /\ At("ids")
  /\ queued' = IdsByStatus(QUEUED)
  /\ Goes("runningIds")
  /\ UNCHANGED <<storeVars, runVars, todo, group, cur, seen, bounds, stopping>>

\* Seeded bug: programs with a live task count as orphans too.
ReadRunningAll ==
  /\ At("runningIds")
  /\ todo' = IdsByStatus(RUNNING)
  /\ Goes(IF todo' = {} THEN "pick" ELSE "orphans")
  /\ UNCHANGED <<storeVars, runVars, group, cur, seen, queued, bounds, stopping>>

\* Seeded bug: orphans are not looked for unless something is queued.
ReadRunningIfQueued ==
  /\ At("runningIds")
  /\ todo' = IF queued = {} THEN {} ELSE IdsByStatus(RUNNING) \ active
  /\ Goes(IF todo' = {} THEN "pick" ELSE "orphans")
  /\ UNCHANGED <<storeVars, runVars, group, cur, seen, queued, bounds, stopping>>

ReadRunning ==
  /\ At("runningIds")
  /\ todo' = IdsByStatus(RUNNING) \ active
  /\ Goes(IF todo' = {} THEN "pick" ELSE "orphans")
  /\ UNCHANGED <<storeVars, runVars, group, cur, seen, queued, bounds, stopping>>

\* One MGET for all orphans: the later ones are reconciled from old copies.
ReadOrphans ==
  /\ At("orphans")
  /\ seen' = [p \in Programs |-> IF p \in todo THEN blob[p] ELSE Absent]
  /\ todo' = {p \in todo : Stored(p)}
  /\ Goes("reconcile")
  /\ UNCHANGED <<storeVars, runVars, group, cur, queued, bounds, stopping>>

\* An orphan sent back: requeued, and counted.
Retried(img) == [WithState(img, QUEUED) EXCEPT !.retries = @ + 1]

\* _reconcile_orphaned_running_program up to its last write but one.
Reconcile ==
  /\ At("reconcile")
  /\ \E p \in todo :
       LET img == seen[p]
       IN \/ /\ img.state # RUNNING
             /\ MoveStatus({p}, RUNNING, img.state)
             /\ todo' = todo \ {p} /\ cur' = Nobody /\ Goes("reconcile")
          \/ /\ img.state = RUNNING /\ img.evidence
             /\ FastStateTransition(p, WithState(img, DONE), RUNNING, DONE)
             /\ todo' = todo \ {p} /\ cur' = Nobody /\ Goes("reconcile")
          \/ /\ img.state = RUNNING /\ ~img.evidence
             /\ img.retries >= RetryBudget
             /\ FastStateTransition(p, WithState(img, DISCARDED), RUNNING,
                                    DISCARDED)
             /\ todo' = todo \ {p} /\ cur' = Nobody /\ Goes("reconcile")
          \/ /\ img.state = RUNNING /\ ~img.evidence
             /\ img.retries < RetryBudget
             /\ WriteExclusive(p, Retried(img))
             /\ cur' = p /\ Goes("requeueMove") /\ UNCHANGED todo
  /\ UNCHANGED <<runVars, group, seen, queued, bounds, stopping>>

\* The second write of requeue_running_program.
RequeueMove ==
  /\ At("requeueMove")
  /\ MoveStatus({cur}, RUNNING, QUEUED)
  /\ todo' = todo \ {cur}
  /\ cur' = Nobody
  /\ Goes("reconcile")
  /\ UNCHANGED <<runVars, group, seen, queued, bounds, stopping>>

OrphansReconciled ==
  /\ At("reconcile") /\ todo = {}
  /\ seen' = NoImages
  /\ Goes("pick")
  /\ UNCHANGED <<storeVars, runVars, todo, group, cur, queued, bounds, stopping>>

-----------------------------------------------------------------------------
(* The scheduler: _launch, the new tasks. *)

Smaller(a, b) == IF a < b THEN a ELSE b
\* Never below zero: the code returns when the difference is not positive.
Capacity == IF Cardinality(active) >= Cap * Prefetch THEN 0
            ELSE Cap * Prefetch - Cardinality(active)

\* The first Capacity ids of those queued and not active, in SMEMBERS order.
Pick ==
  LET waiting == queued \ active
      n == Smaller(Capacity, Cardinality(waiting))
  IN /\ At("pick")
     /\ \E S \in SUBSET waiting : /\ Cardinality(S) = n
                                  /\ todo' = S
     /\ queued' = {}
     /\ Goes(IF n = 0 THEN "idle" ELSE "get")
     /\ UNCHANGED <<storeVars, runVars, group, cur, seen, bounds, stopping>>

GetFresh ==
  /\ At("get")
  /\ seen' = [p \in Programs |-> IF p \in todo THEN blob[p] ELSE Absent]
  /\ Goes("create")
  /\ UNCHANGED <<storeVars, runVars, todo, group, cur, queued, bounds, stopping>>

\* Create the tasks. The programs whose DAG cannot be built are left in todo.
CreateTasks ==
  /\ At("create")
  /\ \E bad \in SUBSET {p \in todo : DagsFail} :
       LET good == {p \in todo \ bad : seen[p] # Absent}
       IN /\ active' = active \cup good
          /\ task' = [p \in Programs |-> IF p \in good THEN "sema" ELSE task[p]]
          /\ obj' = [p \in Programs |-> IF p \in good THEN seen[p] ELSE obj[p]]
          /\ todo' = {p \in bad : seen[p] # Absent}
          /\ group' = good
  /\ Goes("buildFail")
  /\ UNCHANGED <<storeVars, oldState, batch, late, doneQueue, overtaken, cur, seen,
                 queued, bounds, stopping>>

\* Seeded bug: a program whose DAG cannot be built is taken for RUNNING.
BuildFailAsRunning ==
  /\ At("buildFail")
  /\ \E p \in todo :
       /\ FastStateTransition(p, WithState(seen[p], DISCARDED), RUNNING, DISCARDED)
       /\ todo' = todo \ {p}
  /\ UNCHANGED <<runVars, pc, group, cur, seen, queued, bounds, stopping>>

\* set_program_state(DISCARDED) for a program whose DAG could not be built.
BuildFail ==
  /\ At("buildFail")
  /\ \E p \in todo :
       /\ IF seen[p].state = DISCARDED THEN UNCHANGED storeVars
          ELSE FastStateTransition(p, WithState(seen[p], DISCARDED),
                                   seen[p].state, DISCARDED)
       /\ todo' = todo \ {p}
  /\ UNCHANGED <<runVars, pc, group, cur, seen, queued, bounds, stopping>>

BuiltAll ==
  /\ At("buildFail") /\ todo = {}
  /\ seen' = NoImages
  /\ Goes(IF group = {} THEN "idle" ELSE "mark")
  /\ UNCHANGED <<storeVars, runVars, todo, group, cur, queued, bounds, stopping>>

\* batch_transition_by_ids: the MGET that selects the blobs still QUEUED ...
MarkRead ==
  /\ At("mark")
  /\ todo' = PatchableAmong(group, QUEUED)
  /\ seen' = [p \in Programs |-> IF p \in todo' THEN blob[p] ELSE Absent]
  /\ Goes("markWrite")
  /\ UNCHANGED <<storeVars, runVars, group, cur, queued, bounds, stopping>>

\* ... and the pipeline that writes them back as RUNNING.
MarkWrite ==
  /\ At("markWrite")
  /\ BatchTransitionByIds(seen, todo, QUEUED, RUNNING)
  /\ Goes("marked")
  /\ UNCHANGED <<runVars, todo, group, cur, seen, queued, bounds, stopping>>

\* Every launched object, written or not, is then RUNNING in memory.
Marked ==
  /\ At("marked")
  /\ obj' = [p \in Programs |->
               IF p \in group THEN WithState(obj[p], RUNNING) ELSE obj[p]]
  /\ todo' = {} /\ group' = {} /\ seen' = NoImages
  /\ Goes("idle")
  /\ UNCHANGED <<storeVars, active, task, oldState, batch, late, doneQueue, overtaken,
                 cur, queued, bounds, stopping>>

\* The call raised: the new tasks are cancelled and forgotten, not awaited.
MarkFails ==
  /\ MarkRaises /\ pc \in {"mark", "markWrite"} /\ CallRaises
  /\ active' = active \ group
  /\ late' = late \cup {<<p, obj[p]>> : p \in {q \in group : task[q] = "running"}}
  /\ task' = [p \in Programs |-> IF p \in group THEN "none" ELSE task[p]]
  /\ obj' = [p \in Programs |-> IF p \in group THEN Absent ELSE obj[p]]
  /\ oldState' = [p \in Programs |->
                    IF p \in group THEN "absent" ELSE oldState[p]]
  /\ batch' = [p \in Programs |-> IF p \in group THEN NoImages ELSE batch[p]]
  /\ todo' = {} /\ group' = {} /\ seen' = NoImages
  /\ Goes("idle")
  /\ UNCHANGED <<doneQueue, cur, queued, stopping>>
  /\ Record

\* Any other call of the scheduler raises: the overdue or orphaned program, or the
\* one that could not be built, is left as it is; a read that fails ends the
\* reconciliation or the whole launch.
ReadFails ==
  /\ CallRaises
  /\ \/ pc \in {"ids", "runningIds", "get"} /\ queued' = {} /\ Goes("idle")
     \/ At("orphans") /\ Goes("pick") /\ UNCHANGED queued
  /\ todo' = {} /\ seen' = NoImages
  /\ UNCHANGED <<runVars, group, cur, stopping>>

ProgramSkipped ==
  /\ CallRaises
  /\ \/ /\ At("expireGet")
        /\ todo' = todo \ {cur} /\ seen' = NoImages
        /\ Goes(IF todo' = {} THEN "harvest" ELSE "expire")
     \/ /\ At("requeueMove")
        /\ todo' = todo \ {cur} /\ Goes("reconcile") /\ UNCHANGED seen
     \/ /\ pc \in {"reconcile", "buildFail"}
        /\ \E p \in todo : todo' = todo \ {p}
        /\ UNCHANGED <<pc, seen>>
  /\ cur' = Nobody
  /\ UNCHANGED <<runVars, group, queued, stopping>>

\* wait_for_activity returned: the next iteration of _run.
Wake ==
  /\ At("idle") /\ ~stopping
  /\ Goes("maintain")
  /\ UNCHANGED <<storeVars, runVars, todo, group, cur, seen, queued, bounds, stopping>>

-----------------------------------------------------------------------------
(* stop(), the end of the process, and the next start. *)

\* Everything that lives in the process is gone.
ProcessEnds ==
  /\ active' = {}
  /\ task' = [p \in Programs |-> "none"]
  /\ obj' = NoImages
  /\ oldState' = [p \in Programs |-> "absent"]
  /\ batch' = [p \in Programs |-> NoImages]
  /\ late' = {}
  /\ doneQueue' = NoImages
  /\ pc' = "down"
  /\ stopping' = FALSE
  /\ todo' = {} /\ group' = {} /\ queued' = {}
  /\ cur' = Nobody /\ seen' = NoImages
  /\ UNCHANGED overtaken

\* stop() cancels the scheduler, which loses whatever it was awaiting, except
\* inside _cancel_task: there the cancellation is swallowed and the scheduler
\* finishes its round first.
Stop ==
  /\ Up /\ ~stopping /\ crashes < MaxCrashes
  /\ crashes' = crashes + 1
  /\ stopping' = TRUE
  /\ IF pc = "await" THEN UNCHANGED <<pc, locals>>
     ELSE /\ Goes("stopping")
          /\ todo' = {} /\ group' = {} /\ queued' = {}
          /\ cur' = Nobody /\ seen' = NoImages
  /\ UNCHANGED <<storeVars, runVars, refreshes, faults>>

RoundOver ==
  /\ At("idle") /\ stopping
  /\ Goes("stopping")
  /\ UNCHANGED <<storeVars, runVars, locals, stopping, bounds>>

\* Cancel the active tasks one by one, each awaited.
StopTask ==
  /\ At("stopping")
  /\ \E p \in active : Cancel(p)
  /\ Goes("stopAwait")
  /\ UNCHANGED <<storeVars, active, obj, oldState, late, doneQueue, overtaken, stopping,
                 todo, group, seen, queued, bounds>>

StopTaskEnded ==
  /\ At("stopAwait") /\ task[cur] = "done"
  /\ active' = active \ {cur}
  /\ TaskGoes(cur, "none")
  /\ cur' = Nobody
  /\ Goes("stopping")
  /\ UNCHANGED <<storeVars, obj, oldState, batch, late, doneQueue, overtaken, stopping,
                 todo, group, seen, queued, bounds>>

\* The last flush, and the storage is closed.
StopFlush ==
  /\ At("stopping") /\ active = {}
  /\ \/ BatchTransitionState(doneQueue, Pending(doneQueue), RUNNING, DONE)
        /\ UNCHANGED bounds
     \/ CallRaises
  /\ ProcessEnds

Crash ==
  /\ pc # "down" /\ crashes < MaxCrashes
  /\ crashes' = crashes + 1
  /\ ProcessEnds
  /\ UNCHANGED <<storeVars, refreshes, faults>>

\* A resumed run first calls recover_stranded_programs.
Restart ==
  /\ At("down")
  /\ todo' = IdsByStatus(RUNNING)
  /\ Goes("recover")
  /\ UNCHANGED <<storeVars, runVars, stopping, group, cur, seen, queued, bounds>>

RecoverWrite ==
  /\ At("recover")
  /\ \E p \in todo : /\ cur' = p
                     /\ WriteExclusive(p, WithState(blob[p], QUEUED))
  /\ Goes("recoverMove")
  /\ UNCHANGED <<runVars, stopping, todo, group, seen, queued, bounds>>

RecoverMove ==
  /\ At("recoverMove")
  /\ MoveStatus({cur}, RUNNING, QUEUED)
  /\ todo' = todo \ {cur}
  /\ cur' = Nobody
  /\ Goes("recover")
  /\ UNCHANGED <<runVars, stopping, group, seen, queued, bounds>>

Recovered ==
  /\ At("recover") /\ todo = {}
  /\ Goes("maintain")
  /\ UNCHANGED <<storeVars, runVars, stopping, locals, bounds>>

-----------------------------------------------------------------------------

Engine == \E p \in Programs : Submit(p) \/ Refresh(p) \/ Reject(p)

DagEnds(p) == DagSucceeds(p) \/ DagFails(p)
TaskWrite(p) == InlineFlush(p) \/ ErrFlush(p) \/ ErrSet(p) \/ Unwind(p)

Tasks ==
  \/ \E p \in Programs : \/ StartDag(p) \/ DagEnds(p)
                         \/ TaskWrite(p) \/ InlineFlushFails(p)
  \/ LateWrite

Maintain == \/ MaintainCalm \/ MaintainOverdue \/ CancelOverdue
            \/ OverdueEnded \/ Expire \/ HarvestAfterExpiry \/ Flush
Orphans == \/ ReadQueued \/ ReadRunning \/ ReadOrphans \/ Reconcile
           \/ RequeueMove \/ OrphansReconciled
Launch == \/ Pick \/ GetFresh \/ CreateTasks \/ BuildFail \/ BuiltAll
          \/ MarkRead \/ MarkWrite \/ Marked \/ MarkFails
Shutdown == \/ RoundOver \/ StopTask \/ StopTaskEnded \/ StopFlush
Recovery == \/ Restart \/ RecoverWrite \/ RecoverMove \/ Recovered

Faults == ReadFails \/ ProgramSkipped

Scheduler == Maintain \/ Orphans \/ Launch \/ Wake \/ Shutdown \/ Recovery

Next == Engine \/ Tasks \/ Scheduler \/ Faults \/ Stop \/ Crash

Spec == Init /\ [][Next]_vars

\* The event loop runs every ready coroutine, a DAG ends (its stages time out),
\* asyncio.Semaphore serves its waiters in turn, and an operator restarts the
\* process. The engine, faults and crashes are free.
Fairness ==
  /\ WF_vars(Scheduler)
  /\ \A p \in Programs : /\ SF_vars(StartDag(p))
                         /\ WF_vars(DagEnds(p))
                         /\ WF_vars(TaskWrite(p))

FairSpec == Spec /\ Fairness

-----------------------------------------------------------------------------
(* Properties. *)

\* A stored program is always in some status set: whatever is interleaved,
\* lost or killed, the scheduler and the engine can still find it.
NeverLost == \A p \in Programs : Stored(p) => member[p] # {}

\* A program whose blob says QUEUED or RUNNING is in the QUEUED or the RUNNING
\* set, the only ones _launch reads: unfinished work is never invisible to the
\* runner.
UnfinishedVisible ==
  \A p \in Programs :
    blob[p].state \in {QUEUED, RUNNING}
      => member[p] \cap {QUEUED, RUNNING} # {}

\* "Every program is in exactly one status set"
\* (redis_program_storage.py:281-282).
OneStatusSet == \A p \in Programs : Stored(p) => Cardinality(member[p]) = 1

\* A live task belongs to a program in _active: the scheduler can cancel it, and
\* creates no second task for its program.
TasksTracked == \A p \in Programs : task[p] # "none" => p \in active

\* DISCARDED is terminal (VALID_TRANSITIONS gives it no successor).
DiscardedForever ==
  [][\A p \in Programs :
       blob[p].state = DISCARDED => blob'[p].state = DISCARDED]_vars

\* Every step of a stored blob is a valid transition of its STORED state, except
\* the requeue of stranded work (RUNNING -> QUEUED, "crash/orphan recovery"):
\* set_program_state and the batch calls validate only the state their caller
\* believes the program to be in.
LegalTransitions ==
  [][\A p \in Programs :
       Stored(p) =>
         \/ IsValidTransition(blob[p].state, blob'[p].state)
         \/ blob[p].state = RUNNING /\ blob'[p].state = QUEUED]_vars

\* Only the engine's refresh sends a DONE program back to work: the runner
\* never undoes a finished evaluation.
DoneUndoneByEngine ==
  [][\A p \in Programs :
       blob[p].state = DONE /\ blob'[p].state \in {QUEUED, RUNNING}
         => refreshes' = refreshes + 1]_vars

\* p is in exactly one status set and, while it is unfinished, in one that
\* _launch reads.
Filed(p) ==
  /\ Cardinality(member[p]) = 1
  /\ blob[p].state \in {QUEUED, RUNNING} => member[p] \cap {QUEUED, RUNNING} # {}

\* The step leaves p's stored state, or takes a valid transition from it, or
\* requeues stranded work; and only the engine's refresh sends p back when DONE.
Lawful(p) ==
  /\ \/ IsValidTransition(blob[p].state, blob'[p].state)
     \/ blob[p].state = RUNNING /\ blob'[p].state = QUEUED
  /\ blob[p].state = DONE /\ blob'[p].state = QUEUED => refreshes' = refreshes + 1

\* However many DAGs run at once, whatever fails, and whatever order the writes of
\* the scheduler, the tasks, the engine and the recovery come in: a stored program
\* that was never exposed to a race stays in exactly one status set, is found by
\* _launch while it is unfinished, makes only valid transitions (DISCARDED is
\* final) and is sent back by the engine alone. No writer looks at what it
\* overwrites (dag_runner.py:318-375, 388-397, 464-483, 661-677): this says that
\* nothing but the two exposures above can bring two of them together.
RaceFree ==
  /\ [](\A p \in Programs \ overtaken : Stored(p) => Filed(p))
  /\ [][\A p \in Programs \ overtaken : Stored(p) => Lawful(p)]_vars

\* Every program submitted or sent back is eventually finished.
QueuedSettles ==
  \A p \in Programs :
    blob[p].state = QUEUED ~> blob[p].state \in {DONE, DISCARDED}

\* No entry of the RUNNING set stays without a task forever.
OrphansResolved ==
  \A p \in Programs :
    (RUNNING \in member[p] /\ p \notin active)
      ~> (RUNNING \notin member[p] \/ p \in active)
=============================================================================
