--------------------------- MODULE DagRunnerProofs ---------------------------
(***************************************************************************)
(* Proofs about the DAG runner for any set of programs and any capacity:   *)
(* however its tasks, its scheduler, the engine, the crashes and the       *)
(* restarts interleave, no stored program drops out of the status sets,    *)
(* and a program that was never exposed to a race is filed once and makes  *)
(* only legal steps.                                                       *)
(***************************************************************************)
EXTENDS DagRunner, FiniteSetTheorems, TLAPS

-----------------------------------------------------------------------------
(* The store. *)

\* p is in some status set: who polls the sets can find it.
Found(p) == member[p] # {}

\* A sound write loses no program: who is found stays so, and whose blob
\* changes is found.
SoundWrite ==
  /\ DOMAIN blob' = DOMAIN blob
  /\ \A p \in Programs : Found(p) \/ blob'[p] # blob[p] => Found(p)'

\* Every operation of the storage that moves status sets is a sound write, and
\* so is write_exclusive for a program that is found.
LEMMA SoundWrites ==
  ASSUME DOMAIN blob = Programs
  PROVE  /\ \A p \in Programs : \A img : Add(p, img) => SoundWrite
         /\ \A p \in Programs : \A img : Found(p) /\ WriteExclusive(p, img) => SoundWrite
         /\ \A ps, old, new : MoveStatus(ps, old, new) => SoundWrite
         /\ \A p, img, old, new : FastStateTransition(p, img, old, new) => SoundWrite
         /\ \A objs, ps, old, new : BatchTransitionState(objs, ps, old, new) => SoundWrite
         /\ UNCHANGED storeVars => SoundWrite
<1> USE DEF SoundWrite, Found, Moved
<1>1. \A p \in Programs : \A img : Add(p, img) => SoundWrite
  BY DEF Add
<1>2. \A p \in Programs : \A img : Found(p) /\ WriteExclusive(p, img) => SoundWrite
  BY DEF WriteExclusive
<1>3. \A ps, old, new : MoveStatus(ps, old, new) => SoundWrite
  BY DEF MoveStatus
<1>4. \A p, img, old, new : FastStateTransition(p, img, old, new) => SoundWrite
  BY DEF FastStateTransition
<1>5. \A objs, ps, old, new : BatchTransitionState(objs, ps, old, new) => SoundWrite
  BY DEF BatchTransitionState
<1>6. UNCHANGED storeVars => SoundWrite
  BY DEF storeVars
<1> QED
  BY <1>1, <1>2, <1>3, <1>4, <1>5, <1>6

-----------------------------------------------------------------------------
(* What the process remembers. *)

\* The programs the process still knows of: those with a task, with a last
\* write to come, waiting in _done_queue, or read by the scheduler. What todo
\* holds in these states of the scheduler is about to be cancelled or recovered.
Known(p) ==
  \/ p \in active \/ task[p] # "none"
  \/ \E w \in late : w[1] = p
  \/ doneQueue[p] # Absent
  \/ seen[p] # Absent
  \/ /\ pc \in {"await", "expire", "expireGet", "recover", "recoverMove"}
     /\ p \in todo

Domains ==
  /\ DOMAIN blob = Programs /\ DOMAIN task = Programs
  /\ DOMAIN doneQueue = Programs /\ DOMAIN seen = Programs
  /\ {active, todo, group, queued} \subseteq SUBSET Programs
  /\ \A w \in late : w[1] \in Programs

\* Whatever it may still write, a status set holds it already.
KnownFound ==
  \A p \in Programs : Stored(p) \/ Known(p) => Found(p)

StoreInv == Domains /\ KnownFound

\* The process comes to know only programs it knew, or that are stored.
Tame ==
  /\ Domains'
  /\ \A p \in Programs : Known(p)' => Known(p) \/ Found(p)

LEMMA TameSound ==
  ASSUME StoreInv, SoundWrite, Tame
  PROVE  StoreInv'
BY DEF StoreInv, SoundWrite, Tame, KnownFound, Stored

\* The steps of the engine.
LEMMA EngineSteps ==
  ASSUME StoreInv, Engine
  PROVE  StoreInv'
<1>1. PICK p \in Programs : Submit(p) \/ Refresh(p) \/ Reject(p)
  BY DEF Engine
<1>2. SoundWrite
  BY <1>1, SoundWrites
  DEF Submit, Refresh, Reject, BatchTransitionByIds, StoreInv, Domains
<1>3. Tame
  <2>1. /\ UNCHANGED <<active, task, late, doneQueue, seen, pc, todo, group, queued>>
        /\ DOMAIN blob' = DOMAIN blob
    BY <1>1, <1>2 DEF Submit, Refresh, Reject, runVars, schedVars, locals, SoundWrite
  <2> QED
    BY <2>1 DEF Tame, StoreInv, Domains, Known
<1> QED
  BY <1>2, <1>3, TameSound

\* The steps of the tasks.
LEMMA TaskSteps ==
  ASSUME StoreInv, Tasks
  PROVE  StoreInv'
<1> USE DEF StoreInv, Domains
<1>1. SoundWrite
  <2>1. ASSUME NEW p \in Programs, ErrFlush(p) \/ Unwind(p) PROVE SoundWrite
    <3>1. Found(p)
      BY <2>1 DEF ErrFlush, Unwind, KnownFound, Known
    <3> QED
      BY <2>1, <3>1, SoundWrites DEF ErrFlush, Unwind, CallRaises
  <2>2. CASE LateWrite
    <3>1. PICK w \in late : WriteExclusive(w[1], w[2]) \/ UNCHANGED storeVars
      BY <2>2 DEF LateWrite
    <3>2. w[1] \in Programs /\ Found(w[1])
      BY <3>1 DEF KnownFound, Known
    <3> QED
      BY <3>1, <3>2, SoundWrites
  <2>3. ASSUME NEW p \in Programs,
               StartDag(p) \/ DagEnds(p) \/ InlineFlush(p) \/ ErrSet(p) \/ InlineFlushFails(p)
        PROVE  SoundWrite
    BY <2>3, SoundWrites
    DEF StartDag, DagEnds, DagSucceeds, DagFails, InlineFlush, ErrSet, InlineFlushFails,
        CallRaises
  <2> QED
    BY <2>1, <2>2, <2>3 DEF Tasks, TaskWrite
<1>2. Tame
  <2>1. /\ UNCHANGED <<active, seen, pc, todo, group, queued>>
        /\ DOMAIN blob' = DOMAIN blob /\ late' \subseteq late
    BY <1>1 DEF Tasks, TaskWrite, StartDag, DagEnds, DagSucceeds, DagFails, InlineFlush,
                ErrFlush, ErrSet, Unwind, InlineFlushFails, LateWrite, schedVars, locals,
                SoundWrite
  <2>2. CASE LateWrite
    BY <2>1, <2>2 DEF LateWrite, Tame, Known
  <2>3. ASSUME NEW p \in Programs,
               StartDag(p) \/ DagEnds(p) \/ TaskWrite(p) \/ InlineFlushFails(p)
        PROVE  Tame
    <3>1. /\ task[p] # "none"
          /\ \E s : task' = [task EXCEPT ![p] = s]
          /\ \/ UNCHANGED doneQueue
             \/ doneQueue' = NoImages
             \/ \E img : doneQueue' = [doneQueue EXCEPT ![p] = img]
      BY <2>3 DEF TaskWrite, StartDag, DagEnds, DagSucceeds, DagFails, InlineFlush,
                  ErrFlush, ErrSet, Unwind, InlineFlushFails, TaskGoes
    <3> QED
      BY <2>1, <3>1 DEF Tame, Known, NoImages
  <2> QED
    BY <2>2, <2>3 DEF Tasks
<1> QED
  BY <1>1, <1>2, TameSound

\* The steps of _maintain.
LEMMA MaintainSteps ==
  ASSUME StoreInv, Maintain
  PROVE  StoreInv'
<1> USE DEF StoreInv, Domains, At, Goes
<1>1. SoundWrite
  BY SoundWrites
  DEF Maintain, MaintainCalm, MaintainOverdue, CancelOverdue, OverdueEnded, Expire,
      HarvestAfterExpiry, Flush, CallRaises
<1>2. DOMAIN blob' = DOMAIN blob
  BY <1>1 DEF SoundWrite
<1>3. SUFFICES Tame
  BY <1>1, TameSound
<1>4. ASSUME NEW S, HarvestAll(S), UNCHANGED <<late, todo, queued>>
      PROVE  Tame
  BY <1>2, <1>4 DEF HarvestAll, Tame, Known, NoImages
<1>5. ASSUME NEW p \in Programs, Known(p), Cancel(p), Goes("await"),
             UNCHANGED <<active, late, doneQueue, seen, queued>>, group' \subseteq Programs,
             \A q \in todo' : q \in Programs /\ Known(q)
      PROVE  Tame
  <2>1. \E s : task' = [task EXCEPT ![p] = s]
    BY <1>5 DEF Cancel, TaskGoes
  <2> QED
    BY <1>2, <1>5, <2>1 DEF Tame, Known
<1>6. CASE MaintainCalm \/ HarvestAfterExpiry
  BY <1>4, <1>6 DEF MaintainCalm, HarvestAfterExpiry, Finished
<1>7. CASE MaintainOverdue
  <2>1. PICK overdue \in SUBSET (active \ Finished) :
          todo' = overdue /\ \E p \in overdue : Cancel(p)
    BY <1>7 DEF MaintainOverdue
  <2>2. /\ UNCHANGED <<active, late, doneQueue, seen, queued>>
        /\ group' \subseteq Programs /\ Goes("await")
    BY <1>7 DEF MaintainOverdue, Finished
  <2> QED
    BY <1>5, <2>1, <2>2 DEF Known
<1>10. CASE CancelOverdue
  <2>1. PICK p \in todo : Cancel(p)
    BY <1>10 DEF CancelOverdue
  <2>2. UNCHANGED <<active, late, doneQueue, seen, todo, group, queued>> /\ Goes("await")
        /\ \A q \in todo : Known(q)
    BY <1>10 DEF CancelOverdue, Known
  <2> QED
    BY <1>5, <2>1, <2>2
<1>8. CASE OverdueEnded
  BY <1>2, <1>8 DEF OverdueEnded, TaskGoes, Tame, Known, NoImages, KnownFound, Stored
<1>9. CASE Expire \/ Flush
  BY <1>2, <1>9 DEF Expire, Flush, runVars, Tame, Known, NoImages
<1> QED
  BY <1>6, <1>7, <1>8, <1>9, <1>10 DEF Maintain

\* The steps of _launch before it creates tasks, and of the reconciliation.
LEMMA OrphanSteps ==
  ASSUME StoreInv, Orphans
  PROVE  StoreInv'
<1> USE DEF StoreInv, Domains, At, Goes, runVars
<1>1. SoundWrite
  <2>1. CASE Reconcile
    <3>1. PICK p \in todo :
            \/ \E old, new : MoveStatus({p}, old, new)
            \/ \E img, old, new : FastStateTransition(p, img, old, new)
            \/ seen[p].state = RUNNING /\ \E img : WriteExclusive(p, img)
      BY <2>1 DEF Reconcile
    <3>2. seen[p].state = RUNNING => Found(p)
      BY <3>1 DEF KnownFound, Known, Absent, RUNNING
    <3> QED
      BY <3>1, <3>2, SoundWrites
  <2>2. CASE RequeueMove
    BY <2>2, SoundWrites DEF RequeueMove
  <2>3. CASE ReadQueued \/ ReadRunning \/ ReadOrphans \/ OrphansReconciled
    BY <2>3, SoundWrites DEF ReadQueued, ReadRunning, ReadOrphans, OrphansReconciled
  <2> QED
    BY <2>1, <2>2, <2>3 DEF Orphans
<1>2. SUFFICES Tame
  BY <1>1, TameSound
<1>3. DOMAIN blob' = DOMAIN blob
  BY <1>1 DEF SoundWrite
<1>4. CASE Reconcile \/ RequeueMove
  BY <1>3, <1>4 DEF Reconcile, RequeueMove, Tame, Known
<1>5. CASE ReadQueued \/ ReadRunning \/ OrphansReconciled
  BY <1>3, <1>5 DEF ReadQueued, ReadRunning, OrphansReconciled, IdsByStatus, Tame, Known,
                    NoImages
<1>6. CASE ReadOrphans
  BY <1>3, <1>6 DEF ReadOrphans, Tame, Known, KnownFound, Stored
<1> QED
  BY <1>4, <1>5, <1>6 DEF Orphans

\* The steps of _launch that create tasks and mark their programs RUNNING.
LEMMA LaunchSteps ==
  ASSUME StoreInv, Launch \/ Wake
  PROVE  StoreInv'
<1> USE DEF StoreInv, Domains, At, Goes, runVars
<1>1. SoundWrite
  BY SoundWrites
  DEF Launch, Pick, GetFresh, CreateTasks, BuildFail, BuiltAll, MarkRead, MarkWrite, Marked,
      MarkFails, CallRaises, Wake, BatchTransitionByIds
<1>2. SUFFICES Tame
  BY <1>1, TameSound
<1>3. DOMAIN blob' = DOMAIN blob
  BY <1>1 DEF SoundWrite
<1>4. CASE Pick
  <2>1. /\ todo' \subseteq queued
        /\ pc' \notin {"await", "expire", "expireGet", "recover", "recoverMove"}
        /\ queued' = {} /\ UNCHANGED <<active, task, late, doneQueue, seen, group>>
    BY <1>4 DEF Pick
  <2> QED
    BY <1>3, <2>1 DEF Tame, Known
<1>5. CASE GetFresh \/ MarkRead
  BY <1>3, <1>5 DEF GetFresh, MarkRead, PatchableAmong, Tame, Known, KnownFound, Stored
<1>6. CASE CreateTasks
  BY <1>3, <1>6 DEF CreateTasks, Tame, Known
<1>7. CASE BuildFail \/ BuiltAll \/ MarkWrite \/ Marked \/ Wake
  BY <1>3, <1>7 DEF BuildFail, BuiltAll, MarkWrite, Marked, Wake, Tame, Known, NoImages
<1>8. CASE MarkFails
  BY <1>3, <1>8 DEF MarkFails, Tame, Known, NoImages
<1> QED
  BY <1>4, <1>5, <1>6, <1>7, <1>8 DEF Launch

\* The steps at which a call of the scheduler raises: nothing is written and the
\* scheduler only forgets.
LEMMA FaultSteps ==
  ASSUME StoreInv, Faults
  PROVE  StoreInv'
<1> USE DEF StoreInv, Domains
<1>1. UNCHANGED storeVars /\ UNCHANGED runVars /\ UNCHANGED group
  BY DEF Faults, ReadFails, ProgramSkipped, CallRaises
<1>2. todo' \subseteq todo /\ queued' \subseteq queued
  BY DEF Faults, ReadFails, ProgramSkipped
<1>3. seen' = seen \/ seen' = NoImages
  BY DEF Faults, ReadFails, ProgramSkipped
<1>4. pc' \in {"await", "expire", "expireGet", "recover", "recoverMove"} => At("expireGet")
  BY DEF Faults, ReadFails, ProgramSkipped, At, Goes
<1>5. SoundWrite
  BY <1>1, SoundWrites
<1>6. DOMAIN blob' = DOMAIN blob
  BY <1>5 DEF SoundWrite
<1>7. Tame
  BY <1>1, <1>2, <1>3, <1>4, <1>6 DEF Tame, Known, NoImages, At, runVars
<1> QED
  BY <1>5, <1>7, TameSound

\* stop(), a crash, and the recovery at the next start.
LEMMA EndSteps ==
  ASSUME StoreInv, Shutdown \/ Recovery \/ Stop \/ Crash
  PROVE  StoreInv'
<1> USE DEF StoreInv, Domains, At, Goes, runVars, locals
<1>1. SoundWrite
  <2>1. CASE RecoverWrite
    <3>1. PICK p \in todo : WriteExclusive(p, WithState(blob[p], QUEUED))
      BY <2>1 DEF RecoverWrite
    <3>2. Found(p)
      BY <2>1 DEF RecoverWrite, KnownFound, Known
    <3> QED
      BY <3>1, <3>2, SoundWrites
  <2>2. CASE Shutdown \/ Restart \/ RecoverMove \/ Recovered \/ Stop \/ Crash
    BY <2>2, SoundWrites
    DEF Shutdown, RoundOver, StopTask, StopTaskEnded, StopFlush, CallRaises, Restart,
        RecoverMove, Recovered, Stop, Crash
  <2> QED
    BY <2>1, <2>2 DEF Recovery
<1>2. SUFFICES Tame
  BY <1>1, TameSound
<1>3. DOMAIN blob' = DOMAIN blob
  BY <1>1 DEF SoundWrite
<1>4. ASSUME ProcessEnds PROVE Tame
  BY <1>3, <1>4 DEF ProcessEnds, Tame, Known, NoImages
<1>5. CASE StopFlush \/ Crash
  BY <1>4, <1>5 DEF StopFlush, Crash
<1>6. CASE Stop
  BY <1>3, <1>6 DEF Stop, Tame, Known, NoImages
<1>7. CASE RoundOver \/ StopTaskEnded
  BY <1>3, <1>7 DEF RoundOver, StopTaskEnded, TaskGoes, Tame, Known
<1>8. CASE StopTask
  <2>1. PICK p \in active : \E s : task' = [task EXCEPT ![p] = s]
    BY <1>8 DEF StopTask, Cancel, TaskGoes
  <2> QED
    BY <1>3, <1>8, <2>1 DEF StopTask, Tame, Known
<1>9. CASE Restart
  BY <1>3, <1>9 DEF Restart, IdsByStatus, Tame, Known, Found
<1>10. CASE RecoverWrite \/ RecoverMove \/ Recovered
  BY <1>3, <1>10 DEF RecoverWrite, RecoverMove, Recovered, Tame, Known
<1> QED
  BY <1>5, <1>6, <1>7, <1>8, <1>9, <1>10 DEF Shutdown, Recovery

\* A stored program is always in some status set: no interleaving, failed call,
\* crash or restart makes it unreachable for those who poll the sets.
THEOREM NothingLost == Spec => []NeverLost
<1>1. Init => StoreInv
  BY DEF Init, StoreInit, StoreInv, Domains, KnownFound, Known, Stored, NoImages
<1>2. StoreInv /\ [Next]_vars => StoreInv'
  <2> SUFFICES ASSUME StoreInv, [Next]_vars PROVE StoreInv'
    OBVIOUS
  <2>1. CASE UNCHANGED vars
    BY <2>1 DEF vars, storeVars, runVars, schedVars, locals, StoreInv, Domains, KnownFound,
                Known, Stored, Found
  <2> QED
    BY <2>1, EngineSteps, TaskSteps, MaintainSteps, OrphanSteps, LaunchSteps, FaultSteps,
       EndSteps
    DEF Next, Scheduler
<1>3. StoreInv => NeverLost
  BY DEF StoreInv, KnownFound, NeverLost, Found
<1> QED
  BY <1>1, <1>2, <1>3, PTL DEF Spec

-----------------------------------------------------------------------------
(* The scheduler and its tasks. *)

\* What _maintain has still to cancel is in _active: todo, but for the program at
\* which it stands, which leaves _active first.
OverdueActive ==
  /\ pc = "expire" => todo \subseteq active
  /\ pc \in {"await", "expireGet"} => todo \ {cur} \subseteq active

TrackInv ==
  /\ DOMAIN task = Programs
  /\ \A p \in Programs : task[p] # "none" <=> p \in active
  /\ OverdueActive

\* A step of the tasks gives no program a task, and touches nothing of the
\* scheduler's.
LEMMA TasksTrack ==
  ASSUME TrackInv, Tasks
  PROVE  TrackInv'
<1> USE DEF TrackInv
<1>1. UNCHANGED <<active, pc, todo, cur>>
  BY DEF Tasks, TaskWrite, StartDag, DagEnds, DagSucceeds, DagFails, InlineFlush, ErrFlush,
         ErrSet, Unwind, InlineFlushFails, LateWrite, schedVars, locals
<1>2. \/ UNCHANGED task
      \/ \E p \in Programs :
           task[p] # "none" /\ \E s : s # "none" /\ task' = [task EXCEPT ![p] = s]
  BY DEF Tasks, TaskWrite, StartDag, DagEnds, DagSucceeds, DagFails, InlineFlush, ErrFlush,
         ErrSet, Unwind, InlineFlushFails, LateWrite, TaskGoes
<1> QED
  BY <1>1, <1>2 DEF OverdueActive

\* _maintain cancels only programs in _active, and forgets a task together with
\* its entry.
LEMMA MaintainTracks ==
  ASSUME TrackInv, Maintain
  PROVE  TrackInv'
<1> USE DEF TrackInv, OverdueActive, At, Goes
<1>1. ASSUME NEW S, HarvestAll(S) PROVE TrackInv'
  BY <1>1 DEF HarvestAll
<1>2. ASSUME NEW p \in active, Cancel(p), UNCHANGED active, pc' = "await",
             todo' \subseteq active
      PROVE  TrackInv'
  <2> DEFINE s == IF task[p] = "done" THEN "done" ELSE Cancelled(p)
  <2>1. s # "none" /\ task' = [task EXCEPT ![p] = s]
    BY <1>2 DEF Cancel, TaskGoes, Cancelled
  <2> QED
    BY <1>2, <2>1
<1>3. CASE MaintainCalm \/ HarvestAfterExpiry
  BY <1>1, <1>3 DEF MaintainCalm, HarvestAfterExpiry
<1>4. CASE MaintainOverdue
  <2>1. PICK overdue \in SUBSET (active \ Finished) :
          todo' = overdue /\ \E p \in overdue : Cancel(p)
    BY <1>4 DEF MaintainOverdue
  <2> QED
    BY <1>2, <1>4, <2>1 DEF MaintainOverdue
<1>5. CASE CancelOverdue
  BY <1>2, <1>5 DEF CancelOverdue
<1>6. CASE OverdueEnded
  BY <1>6 DEF OverdueEnded, TaskGoes
<1>7. CASE Expire \/ Flush
  BY <1>7 DEF Expire, Flush, runVars
<1> QED
  BY <1>3, <1>4, <1>5, <1>6, <1>7 DEF Maintain

\* _launch creates a task together with its entry in _active, and gives up both
\* when the QUEUED to RUNNING call fails.
LEMMA LaunchTracks ==
  ASSUME TrackInv, Orphans \/ Launch \/ Wake \/ Faults
  PROVE  TrackInv'
<1> USE DEF TrackInv, OverdueActive, At, Goes, runVars
<1>1. CASE Orphans
  BY <1>1 DEF Orphans, ReadQueued, ReadRunning, ReadOrphans, Reconcile, RequeueMove,
              OrphansReconciled
<1>2. CASE CreateTasks \/ MarkFails
  BY <1>2 DEF CreateTasks, MarkFails
<1>3. CASE Pick \/ GetFresh \/ BuildFail \/ BuiltAll \/ MarkRead \/ MarkWrite \/ Marked \/ Wake
  BY <1>3 DEF Pick, GetFresh, BuildFail, BuiltAll, MarkRead, MarkWrite, Marked, Wake
<1>4. CASE Faults
  BY <1>4 DEF Faults, ReadFails, ProgramSkipped
<1> QED
  BY <1>1, <1>2, <1>3, <1>4 DEF Launch

\* stop() cancels and forgets one entry after the other; a crash forgets all.
LEMMA EndTracks ==
  ASSUME TrackInv, Shutdown \/ Recovery \/ Stop \/ Crash
  PROVE  TrackInv'
<1> USE DEF TrackInv, OverdueActive, At, Goes, runVars
<1>1. CASE StopFlush \/ Crash
  BY <1>1 DEF StopFlush, Crash, ProcessEnds
<1>2. CASE StopTask
  <2>1. PICK p \in active : \E s : s # "none" /\ task' = [task EXCEPT ![p] = s]
    BY <1>2 DEF StopTask, Cancel, TaskGoes, Cancelled
  <2> QED
    BY <1>2, <2>1 DEF StopTask
<1>3. CASE RoundOver \/ StopTaskEnded
  BY <1>3 DEF RoundOver, StopTaskEnded, TaskGoes, locals
<1>4. CASE Stop \/ Recovery
  BY <1>4 DEF Stop, Recovery, Restart, RecoverWrite, RecoverMove, Recovered, locals
<1> QED
  BY <1>1, <1>2, <1>3, <1>4 DEF Shutdown

LEMMA TrackInvariant == Spec => []TrackInv
<1>1. Init => TrackInv
  BY DEF Init, TrackInv, OverdueActive
<1>2. TrackInv /\ [Next]_vars => TrackInv'
  <2> SUFFICES ASSUME TrackInv, [Next]_vars PROVE TrackInv'
    OBVIOUS
  <2>1. CASE UNCHANGED vars
    BY <2>1 DEF vars, runVars, schedVars, locals, TrackInv, OverdueActive
  <2>2. CASE Engine
    BY <2>2 DEF Engine, Submit, Refresh, Reject, runVars, schedVars, locals, TrackInv,
                OverdueActive
  <2> QED
    BY <2>1, <2>2, TasksTrack, MaintainTracks, LaunchTracks, EndTracks DEF Next, Scheduler
<1> QED
  BY <1>1, <1>2, PTL DEF Spec

\* Every live task is in _active (dag_runner.py:459), whatever is launched,
\* cancelled, harvested, stopped or fails in between: the scheduler creates no
\* second task for a program and stop() misses none.
THEOREM Tracked == Spec => []TasksTracked
<1>1. TrackInv => TasksTracked
  BY DEF TrackInv, TasksTracked
<1> QED
  BY <1>1, TrackInvariant, PTL

-----------------------------------------------------------------------------
(* The types. What is not obvious about them is that no status set of a    *)
(* state that does not exist is ever written: a program is moved to the    *)
(* set of the state its image says, and images of absent programs do       *)
(* circulate.                                                              *)

\* The image of a program that exists, and what a read may return.
Real == {img \in Image : img.state \in States}
Blobs == Real \cup {Absent}

StoreTyped ==
  /\ blob \in [Programs -> Blobs]
  /\ member \in [Programs -> SUBSET States]

\* A task works on a program that exists.
RunTyped ==
  /\ active \subseteq Programs
  /\ task \in [Programs -> TaskStates]
  /\ obj \in [Programs -> Image]
  /\ \A p \in Programs : task[p] # "none" => obj[p] \in Real
  /\ oldState \in [Programs -> States \cup {"absent"}]
  /\ batch \in [Programs -> [Programs -> Image]]
  /\ late \subseteq Programs \X Real
  /\ doneQueue \in [Programs -> Blobs]

\* So does the reconciliation of the orphans.
SchedTyped ==
  /\ pc \in SchedStates
  /\ todo \subseteq Programs /\ group \subseteq Programs /\ queued \subseteq Programs
  /\ cur \in Programs \cup {Nobody}
  /\ seen \in [Programs -> Blobs]
  /\ stopping \in BOOLEAN
  /\ pc \in {"reconcile", "requeueMove"} => \A p \in todo : seen[p] \in Real

CountTyped == refreshes \in Nat /\ faults \in Nat /\ crashes \in Nat

TypeInv == StoreTyped /\ RunTyped /\ SchedTyped /\ CountTyped

LEMMA Images ==
  /\ Absent \in Image /\ Absent \notin Real /\ Fresh \in Real
  /\ \A img \in Image, s \in States : WithState(img, s) \in Real
  /\ \A img \in Real, e \in BOOLEAN : [img EXCEPT !.evidence = e] \in Real
  /\ NoImages \in [Programs -> {Absent}]
BY DEF Real, Image, Absent, Fresh, WithState, NoImages, States, QUEUED, RUNNING, DONE,
       DISCARDED

LEMMA TypeInvImplies == TypeInv /\ overtaken \subseteq Programs => TypeOK
<1>1. Blobs \subseteq Image /\ Real \subseteq Image
  BY Images DEF Blobs, Real
<1> QED
  BY <1>1 DEF TypeInv, TypeOK, StoreTypeOK, StoreTyped, RunTyped, SchedTyped, CountTyped

\* What the storage operations write, if they are given images of programs that
\* exist.
LEMMA TypedWrites ==
  ASSUME StoreTyped
  PROVE  /\ \A p : \A img \in Real : Add(p, img) => StoreTyped'
         /\ \A p : \A img : (p \in Programs => img \in Real) /\ WriteExclusive(p, img)
              => StoreTyped'
         /\ \A ps, old : \A new \in States : MoveStatus(ps, old, new) => StoreTyped'
         /\ \A p, img, old : \A new \in States :
              (p \in Programs => img \in Real) /\ FastStateTransition(p, img, old, new)
                => StoreTyped'
         /\ \A objs \in [Programs -> Image] : \A ps, old : \A new \in States :
              BatchTransitionState(objs, ps, old, new) => StoreTyped'
         /\ UNCHANGED storeVars => StoreTyped'
<1> USE DEF StoreTyped, Blobs
<1>1. ASSUME NEW ps, NEW old, NEW new \in States
      PROVE  Moved(ps, old, new) \in [Programs -> SUBSET States]
  BY <1>1 DEF Moved
<1>2. ASSUME NEW p, NEW img, p \in Programs => img \in Real
      PROVE  [blob EXCEPT ![p] = img] \in [Programs -> Blobs]
  BY <1>2
<1>3. \A p : \A img \in Real : Add(p, img) => StoreTyped'
  BY <1>1, <1>2 DEF Add, Real
<1>4. \A p : \A img : (p \in Programs => img \in Real) /\ WriteExclusive(p, img)
        => StoreTyped'
  BY <1>2 DEF WriteExclusive
<1>5. \A ps, old : \A new \in States : MoveStatus(ps, old, new) => StoreTyped'
  BY <1>1 DEF MoveStatus
<1>6. \A p, img, old : \A new \in States :
        (p \in Programs => img \in Real) /\ FastStateTransition(p, img, old, new)
          => StoreTyped'
  BY <1>1, <1>2 DEF FastStateTransition
<1>7. ASSUME NEW objs \in [Programs -> Image], NEW ps, NEW old, NEW new \in States,
             BatchTransitionState(objs, ps, old, new)
      PROVE  StoreTyped'
  <2>1. \A p \in Programs : WithState(objs[p], new) \in Real
    BY Images
  <2> QED
    BY <1>1, <1>7, <2>1 DEF BatchTransitionState
<1>8. UNCHANGED storeVars => StoreTyped'
  BY DEF storeVars
<1> QED
  BY <1>3, <1>4, <1>5, <1>6, <1>7, <1>8

-----------------------------------------------------------------------------
(* The store, step by step. *)

LEMMA EngineStores ==
  ASSUME TypeInv, Engine
  PROVE  StoreTyped'
<1> USE DEF TypeInv, States, QUEUED, RUNNING, DONE, DISCARDED
<1>1. PICK p \in Programs : Submit(p) \/ Refresh(p) \/ Reject(p)
  BY DEF Engine
<1>2. blob \in [Programs -> Image]
  BY Images DEF StoreTyped, Blobs, Real
<1> QED
  BY <1>1, <1>2, TypedWrites, Images
  DEF Submit, Refresh, Reject, BatchTransitionByIds

\* A task that writes has a program that exists.
LEMMA TasksStore ==
  ASSUME TypeInv, Tasks
  PROVE  StoreTyped'
<1> USE DEF TypeInv
<1>1. DONE \in States /\ DISCARDED \in States
  BY DEF States, DONE, DISCARDED
<1>2. ASSUME NEW p \in Programs,
             InlineFlush(p) \/ ErrFlush(p) \/ ErrSet(p) \/ Unwind(p)
      PROVE  StoreTyped'
  <2>1. obj[p] \in Real /\ batch[p] \in [Programs -> Image]
    BY <1>2 DEF InlineFlush, ErrFlush, ErrSet, Unwind, RunTyped
  <2> QED
    BY <1>1, <1>2, <2>1, TypedWrites
    DEF InlineFlush, ErrFlush, ErrSet, Unwind, CallRaises
<1>3. CASE LateWrite
  <2>1. PICK w \in late : WriteExclusive(w[1], w[2]) \/ UNCHANGED storeVars
    BY <1>3 DEF LateWrite
  <2>2. w[2] \in Real
    BY DEF RunTyped
  <2> QED
    BY <2>1, <2>2, TypedWrites
<1>4. ASSUME NEW p \in Programs, StartDag(p) \/ DagEnds(p) \/ InlineFlushFails(p)
      PROVE  StoreTyped'
  BY <1>4, TypedWrites
  DEF StartDag, DagEnds, DagSucceeds, DagFails, InlineFlushFails, CallRaises
<1> QED
  BY <1>2, <1>3, <1>4 DEF Tasks, TaskWrite

LEMMA SchedulerStores ==
  ASSUME TypeInv, Scheduler \/ Faults
  PROVE  StoreTyped'
<1> USE DEF TypeInv, At
<1>1. {QUEUED, RUNNING, DONE, DISCARDED} \subseteq States
  BY DEF States
<1>2. {seen, doneQueue} \subseteq [Programs -> Image]
  BY Images DEF SchedTyped, RunTyped, Blobs, Real
<1>3. CASE Expire
  <2>1. cur \in Programs => WithState(seen[cur], DISCARDED) \in Real
    BY <1>1, <1>2, Images
  <2> QED
    BY <1>1, <1>3, <2>1, TypedWrites DEF Expire
<1>4. CASE Reconcile
  <2>1. PICK p \in todo :
          \/ seen[p].state # RUNNING /\ MoveStatus({p}, RUNNING, seen[p].state)
          \/ \E s \in {DONE, DISCARDED} :
               FastStateTransition(p, WithState(seen[p], s), RUNNING, s)
          \/ WriteExclusive(p, Retried(seen[p]))
    BY <1>4 DEF Reconcile
  <2>2. seen[p] \in Real /\ seen[p] \in Image /\ seen[p].state \in States
    BY <1>4 DEF Reconcile, SchedTyped, Real
  <2>3. Retried(seen[p]) \in Real
    <3>1. WithState(seen[p], QUEUED) \in Real
      BY <1>1, <2>2, Images
    <3> QED
      BY <3>1 DEF Retried, Real, Image
  <2>4. \A s \in {DONE, DISCARDED} : WithState(seen[p], s) \in Real
    BY <1>1, <2>2, Images
  <2> QED
    BY <1>1, <2>1, <2>2, <2>3, <2>4, TypedWrites
<1>5. CASE BuildFail
  <2>1. PICK p \in todo :
          UNCHANGED storeVars
          \/ FastStateTransition(p, WithState(seen[p], DISCARDED), seen[p].state, DISCARDED)
    BY <1>5 DEF BuildFail
  <2>2. p \in Programs => WithState(seen[p], DISCARDED) \in Real
    BY <1>1, <1>2, Images
  <2> QED
    BY <1>1, <2>1, <2>2, TypedWrites
<1>6. CASE RecoverWrite
  <2>1. PICK p \in todo : WriteExclusive(p, WithState(blob[p], QUEUED))
    BY <1>6 DEF RecoverWrite
  <2>2. p \in Programs => WithState(blob[p], QUEUED) \in Real
    BY <1>1, Images DEF StoreTyped, Blobs, Real
  <2> QED
    BY <2>1, <2>2, TypedWrites
<1>7. CASE Flush \/ MarkWrite \/ StopFlush \/ RequeueMove \/ RecoverMove
  BY <1>1, <1>2, <1>7, TypedWrites
  DEF Flush, MarkWrite, StopFlush, RequeueMove, RecoverMove, BatchTransitionByIds, CallRaises
<1>8. CASE MaintainCalm \/ MaintainOverdue \/ CancelOverdue \/ OverdueEnded
           \/ HarvestAfterExpiry \/ ReadQueued \/ ReadRunning \/ ReadOrphans
           \/ OrphansReconciled
  BY <1>8, TypedWrites
  DEF MaintainCalm, MaintainOverdue, CancelOverdue, OverdueEnded, HarvestAfterExpiry,
      ReadQueued, ReadRunning, ReadOrphans, OrphansReconciled
<1>9. CASE Pick \/ GetFresh \/ CreateTasks \/ BuiltAll \/ MarkRead \/ Marked \/ MarkFails
           \/ Wake \/ RoundOver \/ StopTask \/ StopTaskEnded \/ Restart \/ Recovered \/ Faults
  BY <1>9, TypedWrites
  DEF Pick, GetFresh, CreateTasks, BuiltAll, MarkRead, Marked, MarkFails, Wake, RoundOver,
      StopTask, StopTaskEnded, Restart, Recovered, Faults, ReadFails, ProgramSkipped,
      CallRaises
<1> QED
  BY <1>3, <1>4, <1>5, <1>6, <1>7, <1>8, <1>9
  DEF Scheduler, Maintain, Orphans, Launch, Shutdown, Recovery

-----------------------------------------------------------------------------
(* The process, step by step. *)

LocalTyped == RunTyped /\ SchedTyped /\ CountTyped

LEMMA TasksRun ==
  ASSUME TypeInv, Tasks
  PROVE  LocalTyped'
<1> USE DEF TypeInv
<1>1. SchedTyped'
  BY DEF SchedTyped, Tasks, TaskWrite, StartDag, DagEnds, DagSucceeds, DagFails,
         InlineFlush, ErrFlush, ErrSet, Unwind, InlineFlushFails, LateWrite, schedVars, locals
<1>2. CountTyped'
  <2>1. UNCHANGED bounds \/ CallRaises
    <3>1. ASSUME NEW p \in Programs, StartDag(p) \/ DagEnds(p) \/ TaskWrite(p)
                                       \/ InlineFlushFails(p)
          PROVE  UNCHANGED bounds \/ CallRaises
      BY <3>1 DEF TaskWrite, StartDag, DagEnds, DagSucceeds, DagFails, InlineFlush, ErrFlush,
                  ErrSet, Unwind, InlineFlushFails
    <3> QED
      BY <3>1 DEF Tasks, LateWrite
  <2> QED
    BY <2>1 DEF CountTyped, bounds, CallRaises
<1>3. ASSUME NEW p \in Programs, NEW s \in TaskStates, task[p] # "none", TaskGoes(p, s),
             obj' = obj \/ \E img \in Real : obj' = [obj EXCEPT ![p] = img],
             oldState' = oldState
               \/ \E o \in States \cup {"absent"} : oldState' = [oldState EXCEPT ![p] = o],
             batch' = batch
               \/ \E q \in [Programs -> Image] : batch' = [batch EXCEPT ![p] = q],
             doneQueue' \in [Programs -> Blobs],
             UNCHANGED <<active, late>>
      PROVE  RunTyped'
  <2>1. obj' \in [Programs -> Image] /\ \A q \in Programs : obj'[q] = obj[q] \/ obj'[q] \in Real
    BY <1>3 DEF RunTyped, Real
  <2>2. task' \in [Programs -> TaskStates] /\ \A q \in Programs : task'[q] # "none" => task[q] # "none"
    BY <1>3 DEF RunTyped, TaskGoes
  <2>3. oldState' \in [Programs -> States \cup {"absent"}]
    BY <1>3 DEF RunTyped
  <2>4. batch' \in [Programs -> [Programs -> Image]]
    BY <1>3 DEF RunTyped
  <2> QED
    BY <1>3, <2>1, <2>2, <2>3, <2>4 DEF RunTyped
<1>4. NoImages \in [Programs -> Image] /\ NoImages \in [Programs -> Blobs]
  BY Images DEF Blobs
<1>5. ASSUME NEW p \in Programs, StartDag(p) PROVE RunTyped'
  BY <1>3, <1>5 DEF StartDag, TaskStates, RunTyped
<1>6. ASSUME NEW p \in Programs, DagSucceeds(p) PROVE RunTyped'
  <2> DEFINE img == [obj[p] EXCEPT !.evidence = TRUE]
             q == [doneQueue EXCEPT ![p] = img]
  <2>1. task[p] # "none" /\ img \in Real
    BY <1>6, Images DEF DagSucceeds, RunTyped
  <2>2. q \in [Programs -> Blobs] /\ q \in [Programs -> Image]
    BY <2>1, Images DEF RunTyped, Blobs, Real
  <2>3. /\ obj' = [obj EXCEPT ![p] = img] /\ UNCHANGED <<oldState, active, late>>
        /\ \E s \in {"flush", "done"} : TaskGoes(p, s)
        /\ batch' = batch \/ batch' = [batch EXCEPT ![p] = q]
        /\ doneQueue' = NoImages \/ doneQueue' = q
    BY <1>6 DEF DagSucceeds
  <2> HIDE DEF img, q
  <2> QED
    BY <1>3, <1>4, <2>1, <2>2, <2>3 DEF TaskStates
<1>7. ASSUME NEW p \in Programs, InlineFlush(p) \/ InlineFlushFails(p) PROVE RunTyped'
  BY <1>3, <1>4, <1>7 DEF InlineFlush, InlineFlushFails, TaskStates, RunTyped
<1>8. ASSUME NEW p \in Programs, DagFails(p) PROVE RunTyped'
  <2>1. task[p] # "none" /\ obj[p] \in Real /\ obj[p].evidence \in BOOLEAN
    BY <1>8 DEF DagFails, RunTyped, Real, Image
  <2>2. PICK e \in BOOLEAN : obj' = [obj EXCEPT ![p].evidence = @ \/ e]
    BY <1>8 DEF DagFails
  <2>3. [obj[p] EXCEPT !.evidence = @ \/ e] \in Real
    BY <2>1, Images
  <2> QED
    BY <1>3, <1>8, <2>1, <2>2, <2>3 DEF DagFails, TaskStates, RunTyped
<1>9. ASSUME NEW p \in Programs, ErrFlush(p) PROVE RunTyped'
  <2>1. task[p] # "none" /\ obj[p] \in Image /\ obj[p].state \in States
    BY <1>9 DEF ErrFlush, RunTyped, Real
  <2>2. WithState(obj[p], DISCARDED) \in Real
    BY <2>1, Images DEF States
  <2>3. /\ obj' = [obj EXCEPT ![p] = WithState(obj[p], DISCARDED)]
        /\ oldState' = [oldState EXCEPT ![p] = obj[p].state]
        /\ \E s \in {"errSet", "done"} : TaskGoes(p, s)
        /\ UNCHANGED <<active, batch, late, doneQueue>>
    BY <1>9, <2>1 DEF ErrFlush, WithState
  <2> QED
    BY <1>3, <2>1, <2>2, <2>3 DEF TaskStates, RunTyped
<1>10. ASSUME NEW p \in Programs, ErrSet(p) \/ Unwind(p) PROVE RunTyped'
  BY <1>3, <1>10 DEF ErrSet, Unwind, TaskStates, RunTyped
<1>11. ASSUME LateWrite PROVE RunTyped'
  BY <1>11 DEF LateWrite, RunTyped
<1>12. RunTyped'
  <2>1. ASSUME NEW p \in Programs, StartDag(p) \/ DagEnds(p) \/ TaskWrite(p)
                                     \/ InlineFlushFails(p)
        PROVE  RunTyped'
    BY <2>1, <1>5, <1>6, <1>7, <1>8, <1>9, <1>10 DEF DagEnds, TaskWrite
  <2> QED
    BY <2>1, <1>11 DEF Tasks
<1> QED
  BY <1>1, <1>2, <1>12 DEF LocalTyped

\* What the scheduler does to tasks: it cancels some and forgets some. That those
\* it cancels exist is TrackInv.
LEMMA SchedulerRun ==
  ASSUME TypeInv, TrackInv, Scheduler \/ Faults \/ Stop \/ Crash
  PROVE  RunTyped'
<1> USE DEF TypeInv, RunTyped
<1>1. NoImages \in [Programs -> Image] /\ NoImages \in [Programs -> Blobs]
  BY Images DEF Blobs
<1>2. Absent \in Image /\ "none" \in TaskStates
  BY Images DEF TaskStates
<1>3. ASSUME NEW S,
             active' \subseteq Programs,
             task' = [p \in Programs |-> IF p \in S THEN "none" ELSE task[p]],
             obj' = [p \in Programs |-> IF p \in S THEN Absent ELSE obj[p]],
             oldState' = [p \in Programs |-> IF p \in S THEN "absent" ELSE oldState[p]],
             batch' \in [Programs -> [Programs -> Image]],
             late' \subseteq Programs \X Real,
             doneQueue' \in [Programs -> Blobs]
      PROVE  RunTyped'
  BY <1>2, <1>3
<1>4. CASE MaintainCalm \/ HarvestAfterExpiry
  <2>1. PICK S : HarvestAll(S) /\ UNCHANGED <<batch, late>>
    BY <1>4 DEF MaintainCalm, HarvestAfterExpiry
  <2> QED
    BY <1>1, <1>3, <2>1 DEF HarvestAll
<1>5. CASE MarkFails
  <2>1. {<<p, obj[p]>> : p \in {q \in group : task[q] = "running"}} \subseteq Programs \X Real
    BY DEF SchedTyped
  <2>2. batch' \in [Programs -> [Programs -> Image]]
    BY <1>1, <1>5 DEF MarkFails
  <2> QED
    BY <1>3, <1>5, <2>1, <2>2 DEF MarkFails
<1>6. CASE OverdueEnded \/ StopTaskEnded
  <2>1. /\ active' = active \ {cur} /\ TaskGoes(cur, "none")
        /\ \/ UNCHANGED <<obj, oldState>>
           \/ /\ obj' = [obj EXCEPT ![cur] = Absent]
              /\ oldState' = [oldState EXCEPT ![cur] = "absent"]
        /\ UNCHANGED <<batch, late, doneQueue>>
    BY <1>6 DEF OverdueEnded, StopTaskEnded
  <2>2. task' \in [Programs -> TaskStates] /\ task' = [task EXCEPT ![cur] = "none"]
    BY <1>2, <2>1 DEF TaskGoes
  <2>3. obj' \in [Programs -> Image] /\ \A p \in Programs : p # cur => obj'[p] = obj[p]
    BY <1>2, <2>1
  <2>4. oldState' \in [Programs -> States \cup {"absent"}]
    BY <2>1
  <2> QED
    BY <2>1, <2>2, <2>3, <2>4
<1>7. CASE MaintainOverdue \/ CancelOverdue \/ StopTask
  <2>1. PICK p \in active : Cancel(p)
    <3>1. CASE MaintainOverdue
      BY <3>1 DEF MaintainOverdue
    <3>2. CASE CancelOverdue
      BY <3>2 DEF CancelOverdue, TrackInv, OverdueActive, At
    <3>3. CASE StopTask
      BY <3>3 DEF StopTask
    <3> QED
      BY <1>7, <3>1, <3>2, <3>3
  <2> DEFINE s == IF task[p] = "done" THEN "done" ELSE Cancelled(p)
  <2>2. p \in Programs /\ task[p] # "none"
    BY DEF TrackInv
  <2>3. s \in TaskStates /\ task' = [task EXCEPT ![p] = s]
    BY <2>1 DEF Cancel, TaskGoes, Cancelled, TaskStates
  <2>4. batch' \in [Programs -> [Programs -> Image]]
    BY <1>1, <2>1 DEF Cancel
  <2>5. UNCHANGED <<active, obj, oldState, late, doneQueue>>
    BY <1>7 DEF MaintainOverdue, CancelOverdue, StopTask
  <2> HIDE DEF s
  <2> QED
    BY <2>2, <2>3, <2>4, <2>5
<1>8. CASE CreateTasks
  <2>1. PICK good \in SUBSET todo :
          /\ \A p \in good : seen[p] # Absent
          /\ active' = active \cup good
          /\ task' = [p \in Programs |-> IF p \in good THEN "sema" ELSE task[p]]
          /\ obj' = [p \in Programs |-> IF p \in good THEN seen[p] ELSE obj[p]]
    <3>1. PICK bad \in SUBSET {p \in todo : DagsFail} :
            LET good == {p \in todo \ bad : seen[p] # Absent}
            IN /\ active' = active \cup good
               /\ task' = [p \in Programs |-> IF p \in good THEN "sema" ELSE task[p]]
               /\ obj' = [p \in Programs |-> IF p \in good THEN seen[p] ELSE obj[p]]
      BY <1>8 DEF CreateTasks
    <3> WITNESS {p \in todo \ bad : seen[p] # Absent} \in SUBSET todo
    <3> QED
      BY <3>1
  <2>2. UNCHANGED <<oldState, batch, late, doneQueue>>
    BY <1>8 DEF CreateTasks
  <2>3. \A p \in good : p \in Programs /\ seen[p] \in Real /\ seen[p] \in Image
    BY <2>1 DEF SchedTyped, Blobs, Real
  <2>4. "sema" \in TaskStates
    BY DEF TaskStates
  <2> QED
    BY <2>1, <2>2, <2>3, <2>4
<1>9. CASE Marked
  <2>1. /\ obj' = [p \in Programs |->
                     IF p \in group THEN WithState(obj[p], RUNNING) ELSE obj[p]]
        /\ UNCHANGED <<active, task, oldState, batch, late, doneQueue>>
    BY <1>9 DEF Marked
  <2>2. \A p \in Programs : WithState(obj[p], RUNNING) \in Real
    BY Images DEF States
  <2> QED
    BY <2>1, <2>2 DEF Real
<1>10. CASE StopFlush \/ Crash
  BY <1>1, <1>10 DEF StopFlush, Crash, ProcessEnds, TaskStates
<1>11. UNCHANGED runVars => RunTyped'
  BY DEF runVars
<1> QED
  BY <1>4, <1>5, <1>6, <1>7, <1>8, <1>9, <1>10, <1>11
  DEF Scheduler, Maintain, Orphans, Launch, Shutdown, Recovery, Faults, Expire, Flush,
      ReadQueued, ReadRunning, ReadOrphans, Reconcile, RequeueMove, OrphansReconciled,
      Pick, GetFresh, BuildFail, BuiltAll, MarkRead, MarkWrite, Wake, ReadFails,
      ProgramSkipped, RoundOver, Restart, RecoverWrite, RecoverMove, Recovered, Stop

\* What the scheduler knows; the orphans it will reconcile are programs it has
\* just found stored.
LEMMA SchedulerKnows ==
  ASSUME TypeInv, Scheduler \/ Faults \/ Stop \/ Crash
  PROVE  SchedTyped'
<1> USE DEF TypeInv, SchedTyped, At, Goes, SchedStates
<1>1. NoImages \in [Programs -> Blobs]
  BY Images DEF Blobs
<1>2. doneQueue \in [Programs -> Blobs] /\ blob \in [Programs -> Blobs]
  BY DEF RunTyped, StoreTyped
<1>3. ASSUME NEW p, p \in Programs, Cancel(p) PROVE cur' \in Programs
  BY <1>3 DEF Cancel
<1>4. CASE Maintain
  <2>1. CASE MaintainCalm \/ HarvestAfterExpiry
    BY <1>1, <1>2, <2>1 DEF MaintainCalm, HarvestAfterExpiry, HarvestAll
  <2>2. CASE MaintainOverdue \/ CancelOverdue
    <3>1. active \subseteq Programs
      BY DEF RunTyped
    <3>2. cur' \in Programs
      BY <1>3, <2>2, <3>1 DEF MaintainOverdue, CancelOverdue
    <3> QED
      BY <2>2, <3>1, <3>2 DEF MaintainOverdue, CancelOverdue, Finished
  <2>3. CASE OverdueEnded
    <3>1. [NoImages EXCEPT ![cur] = blob[cur]] \in [Programs -> Blobs]
      BY <1>1, <1>2
    <3> QED
      BY <2>3, <3>1 DEF OverdueEnded
  <2>4. CASE Expire \/ Flush
    BY <1>1, <2>4 DEF Expire, Flush
  <2> QED
    BY <1>4, <2>1, <2>2, <2>3, <2>4 DEF Maintain
<1>5. CASE Orphans
  <2>1. CASE ReadOrphans
    <3>1. /\ seen' = [p \in Programs |-> IF p \in todo THEN blob[p] ELSE Absent]
          /\ todo' = {p \in todo : Stored(p)} /\ pc' = "reconcile"
          /\ UNCHANGED <<group, cur, queued, stopping>>
      BY <2>1 DEF ReadOrphans
    <3>2. seen' \in [Programs -> Blobs]
      BY <1>2, <3>1 DEF Blobs
    <3>3. \A p \in todo' : seen'[p] \in Real
      BY <1>2, <3>1 DEF Stored, Blobs
    <3> QED
      BY <3>1, <3>2, <3>3
  <2>2. CASE Reconcile \/ RequeueMove \/ OrphansReconciled
    BY <1>1, <2>2 DEF Reconcile, RequeueMove, OrphansReconciled
  <2>3. CASE ReadQueued \/ ReadRunning
    BY <2>3 DEF ReadQueued, ReadRunning, IdsByStatus
  <2> QED
    BY <1>5, <2>1, <2>2, <2>3 DEF Orphans
<1>6. CASE Launch \/ Wake
  <2>1. CASE Pick
    BY <2>1 DEF Pick
  <2>2. CASE GetFresh \/ MarkRead
    <3>1. seen' \in [Programs -> Blobs]
      BY <1>2, <2>2 DEF GetFresh, MarkRead, Blobs
    <3> QED
      BY <2>2, <3>1 DEF GetFresh, MarkRead, PatchableAmong
  <2>3. CASE CreateTasks
    BY <2>3 DEF CreateTasks
  <2>4. CASE BuildFail \/ BuiltAll \/ MarkWrite \/ Marked \/ MarkFails \/ Wake
    BY <1>1, <2>4 DEF BuildFail, BuiltAll, MarkWrite, Marked, MarkFails, Wake
  <2> QED
    BY <1>6, <2>1, <2>2, <2>3, <2>4 DEF Launch
<1>7. CASE Faults
  BY <1>1, <1>7 DEF Faults, ReadFails, ProgramSkipped
<1>8. CASE Shutdown \/ Recovery \/ Stop \/ Crash
  <2>1. CASE StopTask
    <3>1. cur' \in Programs
      BY <1>3, <2>1 DEF StopTask, RunTyped
    <3> QED
      BY <2>1, <3>1 DEF StopTask
  <2>2. CASE StopFlush \/ Crash
    BY <1>1, <2>2 DEF StopFlush, Crash, ProcessEnds
  <2>3. CASE Stop
    BY <1>1, <2>3 DEF Stop, locals
  <2>4. CASE RoundOver \/ StopTaskEnded \/ Restart \/ RecoverWrite \/ RecoverMove \/ Recovered
    BY <2>4 DEF RoundOver, StopTaskEnded, Restart, RecoverWrite, RecoverMove, Recovered,
                locals, IdsByStatus
  <2> QED
    BY <1>8, <2>1, <2>2, <2>3, <2>4 DEF Shutdown, Recovery
<1> QED
  BY <1>4, <1>5, <1>6, <1>7, <1>8 DEF Scheduler

\* The counters of the bounds only grow.
LEMMA Counts ==
  ASSUME TypeInv, Scheduler \/ Faults \/ Stop \/ Crash
  PROVE  CountTyped'
<1>1. \/ UNCHANGED bounds
      \/ CallRaises
      \/ crashes' = crashes + 1 /\ UNCHANGED <<refreshes, faults>>
  <2>1. CASE Maintain
    BY <2>1 DEF Maintain, MaintainCalm, MaintainOverdue, CancelOverdue, OverdueEnded, Expire,
                HarvestAfterExpiry, Flush
  <2>2. CASE Orphans
    BY <2>2 DEF Orphans, ReadQueued, ReadRunning, ReadOrphans, Reconcile, RequeueMove,
                OrphansReconciled
  <2>3. CASE Launch \/ Wake
    BY <2>3 DEF Launch, Pick, GetFresh, CreateTasks, BuildFail, BuiltAll, MarkRead, MarkWrite,
                Marked, MarkFails, Wake
  <2>4. CASE Faults
    BY <2>4 DEF Faults, ReadFails, ProgramSkipped
  <2>5. CASE Shutdown \/ Recovery \/ Stop \/ Crash
    BY <2>5 DEF Shutdown, RoundOver, StopTask, StopTaskEnded, StopFlush, Recovery, Restart,
                RecoverWrite, RecoverMove, Recovered, Stop, Crash
  <2> QED
    BY <2>1, <2>2, <2>3, <2>4, <2>5 DEF Scheduler
<1> QED
  BY <1>1 DEF bounds, CallRaises, CountTyped, TypeInv

LEMMA TypeInvariant == Spec => []TypeInv
<1>1. Init => TypeInv
  <2> SUFFICES ASSUME Init PROVE TypeInv
    OBVIOUS
  <2>1. NoImages \in [Programs -> Image] /\ NoImages \in [Programs -> Blobs]
    BY Images DEF Blobs
  <2>2. StoreTyped
    BY DEF Init, StoreInit, StoreTyped, Blobs
  <2>3. RunTyped
    BY <2>1 DEF Init, RunTyped, TaskStates
  <2>4. SchedTyped
    BY <2>1 DEF Init, SchedTyped, SchedStates
  <2>5. CountTyped
    BY DEF Init, CountTyped
  <2> QED
    BY <2>2, <2>3, <2>4, <2>5 DEF TypeInv
<1>2. TypeInv /\ TrackInv /\ [Next]_vars => TypeInv'
  <2> SUFFICES ASSUME TypeInv, TrackInv, [Next]_vars PROVE TypeInv'
    OBVIOUS
  <2>1. CASE UNCHANGED vars
    BY <2>1 DEF vars, storeVars, runVars, schedVars, locals, bounds, TypeInv, StoreTyped,
                RunTyped, SchedTyped, CountTyped
  <2>2. CASE Engine
    <3>1. PICK p \in Programs : Submit(p) \/ Refresh(p) \/ Reject(p)
      BY <2>2 DEF Engine
    <3>2. /\ UNCHANGED <<runVars, schedVars, faults, crashes>>
          /\ refreshes' = refreshes \/ refreshes' = refreshes + 1
      BY <3>1 DEF Submit, Refresh, Reject, bounds
    <3> QED
      BY <2>2, <3>2, EngineStores
      DEF runVars, schedVars, locals, TypeInv, RunTyped, SchedTyped, CountTyped
  <2>3. CASE Tasks
    BY <2>3, TasksStore, TasksRun DEF TypeInv, LocalTyped
  <2>4. CASE Scheduler \/ Faults \/ Stop \/ Crash
    <3>1. StoreTyped'
      <4>1. CASE Stop \/ Crash
        BY <4>1, TypedWrites DEF Stop, Crash, TypeInv
      <4> QED
        BY <2>4, <4>1, SchedulerStores
    <3> QED
      BY <2>4, <3>1, SchedulerRun, SchedulerKnows, Counts DEF TypeInv
  <2> QED
    BY <2>1, <2>2, <2>3, <2>4 DEF Next
<1> QED
  BY <1>1, <1>2, TrackInvariant, PTL DEF Spec

\* The steps that may expose a program to a race write nothing.
LEMMA Recording ==
  ASSUME Next
  PROVE  \/ Record /\ UNCHANGED storeVars
         \/ UNCHANGED overtaken
<1>1. CASE Engine \/ Faults \/ Stop \/ Crash
  BY <1>1 DEF Engine, Submit, Refresh, Reject, Faults, ReadFails, ProgramSkipped, Stop, Crash,
              ProcessEnds, runVars
<1>2. CASE Tasks
  BY <1>2 DEF Tasks, StartDag, DagEnds, DagSucceeds, DagFails, TaskWrite, InlineFlush, ErrFlush,
              ErrSet, Unwind, InlineFlushFails, LateWrite
<1>3. CASE Maintain
  BY <1>3 DEF Maintain, MaintainCalm, MaintainOverdue, CancelOverdue, OverdueEnded, Expire,
              HarvestAfterExpiry, Flush, runVars
<1>4. CASE Orphans \/ Recovery
  BY <1>4 DEF Orphans, ReadQueued, ReadRunning, ReadOrphans, Reconcile, RequeueMove,
              OrphansReconciled, Recovery, Restart, RecoverWrite, RecoverMove, Recovered, runVars
<1>5. CASE Launch \/ Wake
  BY <1>5 DEF Launch, Pick, GetFresh, CreateTasks, BuildFail, BuiltAll, MarkRead, MarkWrite,
              Marked, MarkFails, CallRaises, Wake, runVars
<1>6. CASE Shutdown
  BY <1>6 DEF Shutdown, RoundOver, StopTask, StopTaskEnded, StopFlush, ProcessEnds, runVars
<1> QED
  BY <1>1, <1>2, <1>3, <1>4, <1>5, <1>6 DEF Next, Scheduler

\* Every reachable state is well typed; in particular every status set an id is
\* in is that of one of the four states, though ids are moved between sets by
\* what a copy of the program says.
THEOREM TypeCorrect == Spec => []TypeOK
<1>1. Init => overtaken \subseteq Programs
  BY DEF Init
<1>2. overtaken \subseteq Programs /\ [Next]_vars => (overtaken \subseteq Programs)'
  BY Recording DEF Record, vars, runVars
<1>3. TypeInv /\ overtaken \subseteq Programs => TypeOK
  BY TypeInvImplies
<1> QED
  BY <1>1, <1>2, <1>3, TypeInvariant, PTL DEF Spec

-----------------------------------------------------------------------------
(* Races. For a set A of programs none of which was ever exposed to one,   *)
(* what the scheduler or a task holds of a program of A is what the store  *)
(* says, whatever happens to the others.                                   *)

\* p is in the status set of its state; or a requeue of p has written the blob
\* and not yet moved the status set.
In(p, s) == blob[p].state = s /\ member[p] = {s}
HalfMoved(p) == blob[p].state = QUEUED /\ member[p] = {RUNNING}

Settled(p) ==
  IF Stored(p) THEN (\E s \in States : In(p, s)) \/ HalfMoved(p) ELSE member[p] = {}

Launching == {"buildFail", "mark", "markWrite", "marked"}
Ending == {"stopping", "stopAwait"}
Live(p) == task[p] \notin {"none", "done"}
\* p's launch is not over, or never will be.
InLaunch(p) == (pc \in Launching /\ p \in group) \/ pc \in Ending

\* While a task is at work its program is RUNNING; before the launch is over, or
\* when it never will be, the task takes it for QUEUED. Only after stop() may a
\* task put back to QUEUED what its launch has written.
TaskFits(p) ==
  /\ Live(p) =>
       \/ obj[p].state = RUNNING /\ task[p] # "errSet" /\ In(p, RUNNING)
       \/ /\ task[p] = "errSet" /\ In(p, RUNNING)
          /\ obj[p].state = DISCARDED /\ oldState[p] = RUNNING
       \/ /\ obj[p].state = QUEUED /\ (In(p, QUEUED) \/ In(p, RUNNING))
          /\ task[p] \in {"sema", "running", "unwinding"}
          /\ InLaunch(p)
  /\ HalfMoved(p) /\ p \in active => pc \in Ending

\* Where a result of p may be on its way to the store. It is in one place at most,
\* its task has ended or is the one that sends it, and the program is RUNNING.
InQueue(p) == doneQueue[p] # Absent
InBatch(q, p) == batch[q][p] # Absent
InFlush(p) == pc = "flush" /\ seen[p] # Absent
Owes(p) ==
  /\ InQueue(p) \/ InFlush(p) \/ (\E q \in Programs : InBatch(q, p)) => In(p, RUNNING)
  /\ InQueue(p) \/ InFlush(p) => ~Live(p) /\ \A q \in Programs : ~InBatch(q, p)
  /\ ~(InQueue(p) /\ InFlush(p))
  /\ \A q \in Programs : InBatch(q, p) => ~Live(p) \/ (q = p /\ task[p] = "flush")
  /\ \A q, r \in Programs : InBatch(q, p) /\ InBatch(r, p) => q = r

\* What _launch has read, or has yet to write, is still so.
Waits(p) == p \notin active /\ In(p, QUEUED)
Launched(p, s) ==
  p \in active /\ obj[p].state = QUEUED /\ In(p, s) /\ task[p] \in {"sema", "running"}
Launches(A) ==
  /\ pc \in {"runningIds", "orphans", "reconcile", "requeueMove", "pick"} =>
       \A p \in queued \cap A : p \in active \/ In(p, QUEUED)
  /\ pc \in {"get", "create", "buildFail"} => \A p \in todo \cap A : Waits(p)
  /\ pc \in {"create", "buildFail"} => \A p \in todo \cap A : seen[p].state = QUEUED
  /\ pc \in {"buildFail", "mark", "markWrite"} =>
       \A p \in group \cap A : Launched(p, QUEUED)
  /\ pc = "markWrite" =>
       /\ todo \subseteq group
       /\ \A p \in group \cap A : p \in todo /\ seen[p].state = QUEUED
  /\ pc = "marked" => \A p \in group \cap A : Launched(p, RUNNING)

\* So is what it has read of the orphans.
Stray(p) == p \notin active /\ member[p] = {RUNNING}
Strays(A) ==
  /\ pc \in {"orphans", "reconcile", "requeueMove"} => \A p \in todo \cap A : Stray(p)
  /\ pc \in {"reconcile", "requeueMove"} =>
       \A p \in todo \cap A :
         seen[p].state = blob[p].state \/ (pc = "requeueMove" /\ p = cur)
  /\ pc = "requeueMove" => cur \in todo /\ (cur \in A => HalfMoved(cur))

\* And what _maintain has read of an overdue program, unless that is finished.
Expires(A) ==
  /\ pc \in {"await", "expireGet"} => cur \in Programs
  /\ pc = "expireGet" /\ cur \in A =>
       /\ cur \notin active
       /\ seen[cur].state \in {QUEUED, RUNNING} => In(cur, seen[cur].state)

\* A resumed run brings what it found in the RUNNING set back to QUEUED.
Recovers(A) ==
  /\ pc \in {"recover", "recoverMove"} => \A p \in todo \cap A : member[p] = {RUNNING}
  /\ pc = "recoverMove" => cur \in todo /\ (cur \in A => HalfMoved(cur))
  /\ ~Up => active = {}

Programwise(A) == \A p \in A : Settled(p) /\ TaskFits(p) /\ Owes(p)
Orderly(A) == Programwise(A) /\ Launches(A) /\ Strays(A) /\ Expires(A) /\ Recovers(A)

\* No program of A is exposed to a race, and none is left to a cancelled task.
Unraced(A) == \A p \in A : ~Raced(p) /\ \A w \in late : w[1] # p

LawfulFor(p) == Stored(p) => Lawful(p)
AllLawful(A) == \A p \in A : LawfulFor(p)

LEMMA StateFacts ==
  ASSUME TypeInv
  PROVE  /\ \A p \in Programs : Stored(p) <=> blob[p].state \in States
         /\ \A p \in Programs : Stored(p) \/ blob[p].state = "absent"
         /\ \A p \in Programs : blob[p] \in Image /\ seen[p] \in Image /\ obj[p] \in Image
         /\ \A p \in Programs : doneQueue[p] \in Image /\ \A q \in Programs : batch[q][p] \in Image
         /\ \A img \in Image : \A s : WithState(img, s).state = s
         /\ Absent.state \notin States
<1>1. \A img \in Image : \A s : WithState(img, s).state = s
  BY DEF WithState, Image
<1>2. Absent.state = "absent" /\ "absent" \notin States
  BY DEF Absent, States, QUEUED, RUNNING, DONE, DISCARDED
<1>3. \A p \in Programs : blob[p] \in Blobs /\ seen[p] \in Blobs /\ obj[p] \in Image
  BY DEF TypeInv, StoreTyped, SchedTyped, RunTyped
<1>4. \A p \in Programs : doneQueue[p] \in Image /\ \A q \in Programs : batch[q][p] \in Image
  <2>1. doneQueue \in [Programs -> Blobs] /\ batch \in [Programs -> [Programs -> Image]]
    BY DEF TypeInv, RunTyped
  <2>2. Blobs \subseteq Image
    BY Images DEF Blobs, Real
  <2> QED
    BY <2>1, <2>2
<1> QED
  BY <1>1, <1>2, <1>3, <1>4, Images DEF Stored, Blobs, Real

\* The store and the task of q are as before, and nothing more of q is due.
SameStore(q) == blob'[q] = blob[q] /\ member'[q] = member[q]
SameTask(q) == task'[q] = task[q] /\ obj'[q] = obj[q] /\ oldState'[q] = oldState[q]
Lighter(q) ==
  /\ InQueue(q)' => InQueue(q)
  /\ InFlush(q)' => InFlush(q)
  /\ \A r \in Programs : InBatch(r, q)' => InBatch(r, q)

LEMMA SameLawful ==
  ASSUME NEW q \in Programs, SameStore(q)
  PROVE  LawfulFor(q)
BY DEF SameStore, LawfulFor, Lawful, IsValidTransition, QUEUED, RUNNING, DONE

\* What holds of p does not change with other programs.
LEMMA SameSettled ==
  ASSUME NEW q \in Programs, Settled(q), SameStore(q)
  PROVE  Settled(q)'
BY DEF SameStore, Settled, In, HalfMoved, Stored

LEMMA SameFits ==
  ASSUME NEW q \in Programs, TaskFits(q), SameStore(q), SameTask(q),
         q \in active' => q \in active,
         InLaunch(q) => InLaunch(q)',
         pc \in Ending => pc' \in Ending \/ q \notin active'
  PROVE  TaskFits(q)'
BY DEF SameStore, SameTask, TaskFits, In, HalfMoved, Live

LEMMA SameOwes ==
  ASSUME NEW q \in Programs, Owes(q), In(q, RUNNING) => In(q, RUNNING)',
         \/ task'[q] = task[q]
         \/ ~Live(q)',
         Lighter(q)
  PROVE  Owes(q)'
BY DEF Owes, Lighter, Live

\* A program that is not RUNNING has no result on its way, and neither has one
\* outside _active in front of a scheduler at work.
Clear(q) == ~InQueue(q) /\ ~InFlush(q) /\ \A r \in Programs : ~InBatch(r, q)

LEMMA ClearOwes ==
  ASSUME NEW q, Clear(q)'
  PROVE  Owes(q)'
BY DEF Clear, Owes

LEMMA LighterClear ==
  ASSUME NEW q, Clear(q), Lighter(q)
  PROVE  Clear(q)'
BY DEF Clear, Lighter

LEMMA NotRunning ==
  ASSUME NEW q, Owes(q), ~In(q, RUNNING)
  PROVE  Clear(q)
BY DEF Clear, Owes

LEMMA Idle ==
  ASSUME NEW A, Unraced(A), NEW q \in A, q \notin active, pc \notin Ending, pc # "flush"
  PROVE  Clear(q)
BY DEF Unraced, Raced, Outlived, Due, Clear, InQueue, InBatch, InFlush, Ending

\* All is well programwise after a step if it is for the programs of S, and the
\* step leaves the others alone.
LEMMA Frame ==
  ASSUME NEW A \in SUBSET Programs, Programwise(A), NEW S \in SUBSET Programs,
         \A q \in A \ S : SameStore(q) /\ SameTask(q) /\ Lighter(q),
         \A q \in (active' \cap A) \ S : q \in active,
         \A q \in A \ S : InLaunch(q) => InLaunch(q)',
         pc \in Ending => pc' \in Ending \/ active' = {},
         \A q \in S \cap A : Settled(q)' /\ TaskFits(q)' /\ Owes(q)'
  PROVE  Programwise(A)'
<1>1. ASSUME NEW q \in A, q \notin S PROVE Settled(q)' /\ TaskFits(q)' /\ Owes(q)'
  <2>1. q \in Programs /\ Settled(q) /\ TaskFits(q) /\ Owes(q)
    BY DEF Programwise
  <2>2. SameStore(q) /\ SameTask(q) /\ Lighter(q)
    BY <1>1
  <2>3. In(q, RUNNING) => In(q, RUNNING)'
    BY <2>2 DEF SameStore, In
  <2>4. Owes(q)'
    BY <2>1, <2>2, <2>3, SameOwes DEF SameTask
  <2> QED
    BY <1>1, <2>1, <2>2, <2>4, SameSettled, SameFits
<1> QED
  BY <1>1 DEF Programwise

\* The engine changes programs that nobody works on.
LEMMA EngineOrderly ==
  ASSUME NEW A \in SUBSET Programs, TypeInv, Orderly(A), Engine
  PROVE  Orderly(A)' /\ AllLawful(A)
<1> USE DEF Orderly, Programwise
<1>1. PICK p \in Programs : Submit(p) \/ Refresh(p) \/ Reject(p)
  BY DEF Engine
<1>2. UNCHANGED <<runVars, schedVars>>
  BY <1>1 DEF Submit, Refresh, Reject
<1>3. /\ blob[p].state \in {"absent", DONE}
      /\ p \in A /\ Stored(p) => In(p, DONE)
  BY <1>1, StateFacts
  DEF Submit, Refresh, Reject, Settled, In, HalfMoved, States, QUEUED, RUNNING, DONE, DISCARDED
<1>4. PICK s \in {QUEUED, DISCARDED} :
        /\ p \in A => In(p, s)'
        /\ \A q \in Programs : q # p => SameStore(q)
        /\ s = QUEUED /\ Stored(p) => refreshes' = refreshes + 1
  <2>1. blob \in [Programs -> Blobs] /\ member \in [Programs -> SUBSET States]
    BY DEF TypeInv, StoreTyped
  <2>2. ASSUME Submit(p)
        PROVE  (p \in A => In(p, QUEUED)') /\ (\A q \in Programs : q # p => SameStore(q)) /\ ~Stored(p)
    <3>1. blob[p].state = "absent" /\ (p \in A => member[p] = {}) /\ ~Stored(p)
      BY <2>2, StateFacts DEF Submit, Settled
    <3>2. blob' = [blob EXCEPT ![p] = Fresh] /\ member' = Moved({p}, blob[p].state, Fresh.state)
      BY <2>2 DEF Submit, Add
    <3>3. Fresh.state = QUEUED
      BY DEF Fresh
    <3>4. /\ p \in A => member'[p] = {QUEUED}
          /\ \A q \in Programs : q # p => member'[q] = member[q]
      BY <3>1, <3>2, <3>3 DEF Moved
    <3> QED
      BY <2>1, <3>1, <3>2, <3>3, <3>4 DEF In, SameStore
  <2>3. ASSUME NEW s \in {QUEUED, DISCARDED}, BatchTransitionState(blob, {p}, DONE, s), Stored(p)
        PROVE  (p \in A => In(p, s)') /\ \A q \in Programs : q # p => SameStore(q)
    <3>1. member'[p] = (member[p] \ {DONE}) \cup {s} /\ \A q \in Programs : q # p => member'[q] = member[q]
      BY <2>3 DEF BatchTransitionState, Moved
    <3>2. blob'[p] = WithState(blob[p], s) /\ \A q \in Programs : q # p => blob'[q] = blob[q]
      BY <2>3 DEF BatchTransitionState
    <3> QED
      BY <1>3, <2>3, <3>1, <3>2, StateFacts DEF In, SameStore
  <2>4. CASE Refresh(p)
    <3>1. Stored(p) /\ refreshes' = refreshes + 1
      BY <2>4, StateFacts DEF Refresh, States, DONE
    <3>2. (p \in A => In(p, QUEUED)') /\ \A q \in Programs : q # p => SameStore(q)
      BY <2>3, <2>4, <3>1 DEF Refresh
    <3> QED
      BY <3>1, <3>2
  <2>5. CASE Reject(p)
    <3>1. Stored(p)
      BY <2>5, StateFacts DEF Reject, States, DONE
    <3>2. (p \in A => In(p, DISCARDED)') /\ \A q \in Programs : q # p => SameStore(q)
      BY <2>3, <2>5, <3>1 DEF Reject, BatchTransitionByIds
    <3>3. DISCARDED # QUEUED
      BY DEF QUEUED, DISCARDED
    <3> QED
      BY <3>2, <3>3
  <2>6. CASE Submit(p)
    <3>1. (p \in A => In(p, QUEUED)') /\ (\A q \in Programs : q # p => SameStore(q)) /\ ~Stored(p)
      BY <2>2, <2>6
    <3> QED
      BY <3>1
  <2> QED
    BY <1>1, <2>4, <2>5, <2>6
<1>5. p \in A => ~Live(p) /\ Clear(p)
  <2>1. ~In(p, RUNNING) /\ ~In(p, QUEUED)
    BY <1>3 DEF In, DONE, QUEUED, RUNNING
  <2> QED
    BY <2>1, NotRunning DEF TaskFits
<1>6. UNCHANGED <<active, pc, todo, group, cur, seen, queued, task, obj, oldState, batch, late,
                   doneQueue>>
  BY <1>2 DEF runVars, schedVars, locals
<1>7. \A q \in Programs : Lighter(q) /\ SameTask(q)
  BY <1>6 DEF Lighter, SameTask, InQueue, InBatch, InFlush
<1>8. Programwise(A)'
  <2>1. p \in A => Settled(p)'
    BY <1>4 DEF Settled, In, Stored, States, Absent, QUEUED, DISCARDED
  <2>2. p \in A => ~HalfMoved(p)'
    BY <1>4 DEF In, HalfMoved, QUEUED, RUNNING, DISCARDED
  <2>3. p \in A => TaskFits(p)'
    BY <1>6, <1>5, <2>2 DEF TaskFits, Live
  <2>4. p \in A => Owes(p)'
    BY <1>5, <1>7, LighterClear, ClearOwes
  <2>5. UNCHANGED <<pc, active>> /\ \A q \in Programs : InLaunch(q) => InLaunch(q)'
    BY <1>6 DEF InLaunch
  <2>6. {p} \in SUBSET Programs /\ \A q \in {p} \cap A : Settled(q)' /\ TaskFits(q)' /\ Owes(q)'
    BY <2>1, <2>3, <2>4
  <2>7. \A q \in A \ {p} : SameStore(q) /\ SameTask(q) /\ Lighter(q)
    BY <1>4, <1>7
  <2> QED
    BY <2>5, <2>6, <2>7, Frame
<1>9. \A q \in A :
        \/ SameStore(q)
        \/ (\A s1 : In(q, s1) => s1 = DONE) /\ ~HalfMoved(q) /\ member[q] # {RUNNING}
  <2>1. p \in A => ~HalfMoved(p) /\ member[p] # {RUNNING} /\ \A s1 : In(p, s1) => s1 = DONE
    BY <1>3 DEF In, HalfMoved, Settled, QUEUED, RUNNING, DONE
  <2> QED
    BY <1>4, <2>1
<1>10. \A q \in A : /\ \A s1 \in {QUEUED, RUNNING} : In(q, s1) => In(q, s1)'
                    /\ HalfMoved(q) => HalfMoved(q)'
                    /\ member[q] = {RUNNING} => SameStore(q)
  BY <1>9 DEF In, HalfMoved, SameStore, QUEUED, RUNNING, DONE
<1>11. Launches(A)' /\ Strays(A)' /\ Expires(A)' /\ Recovers(A)'
  <2>1. \A q \in A : /\ Waits(q) => Waits(q)'
                     /\ Stray(q) => (Stray(q)' /\ SameStore(q))
                     /\ \A s1 \in {QUEUED, RUNNING} : Launched(q, s1) => Launched(q, s1)'
    BY <1>6, <1>10 DEF Waits, Stray, Launched, SameStore
  <2>2. Launches(A)'
    BY <1>6, <1>10, <2>1 DEF Launches
  <2>3. Strays(A)'
    BY <1>6, <1>10, <2>1 DEF Strays, SameStore
  <2>4. Expires(A)' /\ Recovers(A)'
    BY <1>6, <1>10 DEF Expires, Recovers, Up, SameStore
  <2> QED
    BY <2>2, <2>3, <2>4
<1>12. AllLawful(A)
  <2>1. p \in A => LawfulFor(p)
    BY <1>3, <1>4, StateFacts
    DEF LawfulFor, Lawful, In, IsValidTransition, ValidTransitions, States, QUEUED, RUNNING, DONE,
        DISCARDED
  <2> QED
    BY <1>4, <2>1, SameLawful DEF AllLawful
<1> QED
  BY <1>8, <1>11, <1>12

-----------------------------------------------------------------------------
(* Races: the tasks.                                                       *)

\* A task's step leaves the scheduler's variables alone, writes no program outside
\* _active, unless stop() was called, and leaves a program that is being launched as
\* it was.
LEMMA TaskFrame ==
  ASSUME NEW A \in SUBSET Programs, TypeInv, Orderly(A), NEW S \in SUBSET Programs,
         UNCHANGED <<active, pc, todo, group, cur, seen, queued>>,
         \A q \in A \ S : SameStore(q) /\ SameTask(q) /\ Lighter(q),
         \A q \in S \cap A : Settled(q)' /\ TaskFits(q)' /\ Owes(q)',
         \A q \in S \cap A : q \notin active => SameStore(q) \/ pc \in Ending,
         \A q \in S \cap A : \A s \in States : q \in group /\ Launched(q, s) =>
           SameStore(q) /\ obj'[q] = obj[q] /\ task'[q] \in {"sema", "running"}
  PROVE  Orderly(A)'
<1> USE DEF Orderly
<1>1. active \subseteq Programs /\ todo \subseteq Programs /\ group \subseteq Programs
      /\ queued \subseteq Programs
  BY DEF TypeInv, RunTyped, SchedTyped
<1>2. Programwise(A)'
  <2>1. \A q \in Programs : InLaunch(q) => InLaunch(q)'
    BY DEF InLaunch
  <2> QED
    BY <2>1, Frame
<1>3. CASE pc \in Ending
  BY <1>2, <1>3 DEF Ending, Launches, Strays, Expires, Recovers, Up
<1>4. CASE pc \notin Ending
  <2>1. \A q \in A : q \notin active => SameStore(q)
    BY <1>4
  <2>2. Launches(A)'
    <3>1. \A q \in A : Waits(q) => Waits(q)'
      BY <2>1 DEF Waits, In, SameStore
    <3>2. \A q \in group \cap A : \A s \in {QUEUED, RUNNING} : Launched(q, s) => Launched(q, s)'
      BY <1>1 DEF Launched, In, SameStore, SameTask, States
    <3>3. \A q \in queued \cap A : q \in active \/ In(q, QUEUED) => (q \in active \/ In(q, QUEUED))'
      BY <1>1, <2>1 DEF In, SameStore
    <3> QED
      BY <1>1, <3>1, <3>2, <3>3 DEF Launches
  <2>3. Strays(A)'
    BY <1>1, <2>1 DEF Strays, Stray, HalfMoved, SameStore
  <2>4. Expires(A)' /\ Recovers(A)'
    BY <1>1, <2>1 DEF Expires, Recovers, In, HalfMoved, SameStore, Up
  <2> QED
    BY <1>2, <2>2, <2>3, <2>4
<1> QED
  BY <1>3, <1>4

\* A task beyond the start of its DAG is not being launched any more; while it is at
\* work, no result of its program is on its way, except with the task itself.
LEMMA Working ==
  ASSUME NEW A \in SUBSET Programs, TypeInv, TrackInv, Orderly(A), NEW p \in A,
         task[p] \notin {"none", "done"}
  PROVE  /\ p \in active
         /\ task[p] # "flush" => Clear(p)
         /\ task[p] \notin {"sema", "running", "unwinding"} \/ obj[p].state = RUNNING =>
              /\ In(p, RUNNING)
              /\ obj[p].state = IF task[p] = "errSet" THEN DISCARDED ELSE RUNNING
              /\ task[p] = "errSet" => oldState[p] = RUNNING
         /\ task[p] \in {"sema", "running"} => obj[p].state \in {QUEUED, RUNNING}
         /\ task[p] = "unwinding" =>
              \/ obj[p].state = RUNNING
              \/ obj[p].state = QUEUED /\ (In(p, QUEUED) \/ (In(p, RUNNING) /\ pc \in Ending))
         /\ task[p] \notin {"sema", "running"} \/ obj[p].state = RUNNING =>
              \A s \in States : ~(p \in group /\ Launched(p, s))
<1>1. p \in active
  BY DEF TrackInv
<1>2. TaskFits(p) /\ Live(p) /\ Owes(p)
  BY DEF Orderly, Programwise, Live
<1>3. \A s \in States : Launched(p, s) => task[p] \in {"sema", "running"} /\ obj[p].state = QUEUED
  BY DEF Launched
<1>4. pc \in Launching /\ p \in group => \E s \in States : Launched(p, s)
  BY DEF Orderly, Launches, Launching, States
<1>5. task[p] = "unwinding" => ~(pc \in Launching /\ p \in group)
  BY <1>3, <1>4
<1>10. task[p] # "flush" => Clear(p)
  BY <1>2 DEF Owes, Clear
<1> USE DEF QUEUED, RUNNING, DISCARDED
<1>6. task[p] \notin {"sema", "running", "unwinding"} \/ obj[p].state = RUNNING =>
              /\ In(p, RUNNING)
              /\ obj[p].state = IF task[p] = "errSet" THEN DISCARDED ELSE RUNNING
              /\ task[p] = "errSet" => oldState[p] = RUNNING
  BY <1>2 DEF TaskFits
<1>11. task[p] \in {"sema", "running"} => obj[p].state \in {QUEUED, RUNNING}
  BY <1>2 DEF TaskFits
<1>7. task[p] = "unwinding" =>
              \/ obj[p].state = RUNNING
              \/ obj[p].state = QUEUED /\ (In(p, QUEUED) \/ (In(p, RUNNING) /\ pc \in Ending))
  BY <1>2, <1>5 DEF TaskFits, InLaunch
<1>8. task[p] \notin {"sema", "running"} \/ obj[p].state = RUNNING =>
              \A s \in States : ~(p \in group /\ Launched(p, s))
  BY <1>3
<1> QED
  BY <1>1, <1>6, <1>7, <1>8, <1>10, <1>11

\* What p's task leaves when it only changes its own variables.
LEMMA TaskFitsNext ==
  ASSUME NEW p \in Programs, p \in active, UNCHANGED <<active, pc, group>>,
         \/ task'[p] = "done"
         \/ obj'[p].state = RUNNING /\ task'[p] # "errSet" /\ In(p, RUNNING)'
         \/ /\ task'[p] = "errSet" /\ In(p, RUNNING)'
            /\ obj'[p].state = DISCARDED /\ oldState'[p] = RUNNING,
         HalfMoved(p)' => pc \in Ending
  PROVE  TaskFits(p)'
BY DEF TaskFits, Live

\* A step that only reads is lawful.
LEMMA Reads ==
  ASSUME UNCHANGED storeVars
  PROVE  \A q \in Programs : SameStore(q) /\ LawfulFor(q) /\ (Settled(q) => Settled(q)')
<1>1. \A q \in Programs : SameStore(q)
  BY DEF storeVars, SameStore
<1> QED
  BY <1>1, SameLawful, SameSettled

\* What is due of a program after a step of p's task that sends or drops its batch.
LEMMA BatchGone ==
  ASSUME TypeInv, NEW p \in Programs, UNCHANGED <<doneQueue, pc, seen>>,
         batch' = batch \/ batch' = [batch EXCEPT ![p] = NoImages]
  PROVE  \A q \in Programs : Lighter(q)
<1>1. \A q \in Programs : NoImages[q] = Absent
  BY DEF NoImages
<1>2. DOMAIN batch = Programs
  BY DEF TypeInv, RunTyped
<1> QED
  BY <1>1, <1>2 DEF Lighter, InQueue, InFlush, InBatch

\* A DAG that has ended was RUNNING when it did: else the program would be exposed to
\* a race.
LEMMA EndsRunning ==
  ASSUME NEW A \in SUBSET Programs, TypeInv, TrackInv, Orderly(A), Unraced(A)', NEW p \in A,
         DagEnds(p)
  PROVE  task[p] = "running" /\ obj[p].state = RUNNING /\ In(p, RUNNING)
<1>1. obj \in [Programs -> Image] /\ task \in [Programs -> TaskStates]
      /\ DOMAIN batch = Programs /\ DOMAIN doneQueue = Programs /\ p \in Programs
  BY DEF TypeInv, RunTyped
<1>2. task[p] = "running"
  BY DEF DagEnds, DagSucceeds, DagFails
<1>3. obj[p].state # QUEUED
  <2>1. CASE DagSucceeds(p)
    <3> DEFINE img == [obj[p] EXCEPT !.evidence = TRUE]
    <3>1. img.state = obj[p].state
      BY <1>1 DEF Image
    <3>2. doneQueue'[p] = img \/ batch'[p][p] = img
      BY <1>1, <2>1 DEF DagSucceeds
    <3> QED
      BY <1>1, <3>1, <3>2 DEF Unraced, Raced, Outrun
  <2>2. CASE DagFails(p)
    <3>1. PICK e \in BOOLEAN : obj' = [obj EXCEPT ![p].evidence = @ \/ e]
      BY <2>2 DEF DagFails
    <3>2. obj'[p].state = obj[p].state /\ task'[p] = "errFlush"
      BY <1>1, <2>2, <3>1 DEF Image, DagFails, TaskGoes
    <3> QED
      BY <3>2 DEF Unraced, Raced, Outrun
  <2> QED
    BY <2>1, <2>2 DEF DagEnds
<1> QED
  BY <1>2, <1>3, Working

LEMMA TasksOrderly ==
  ASSUME NEW A \in SUBSET Programs, TypeInv, TrackInv, Orderly(A), Unraced(A), Unraced(A)', Tasks
  PROVE  Orderly(A)' /\ AllLawful(A)
<1>1. CASE LateWrite
  <2>1. PICK w \in late : (\/ WriteExclusive(w[1], w[2]) \/ UNCHANGED storeVars)
    BY <1>1 DEF LateWrite
  <2>2. w[1] \notin A
    BY DEF Unraced
  <2>3. \A q \in A : SameStore(q)
    <3>1. blob \in [Programs -> Blobs]
      BY DEF TypeInv, StoreTyped
    <3> QED
      BY <2>1, <2>2, <3>1 DEF WriteExclusive, storeVars, SameStore
  <2>4. UNCHANGED <<active, pc, todo, group, cur, seen, queued>> /\ \A q \in A : SameTask(q) /\ Lighter(q)
    BY <1>1 DEF LateWrite, schedVars, locals, SameTask, Lighter, InQueue, InFlush, InBatch
  <2>5. Orderly(A)'
    <3>1. {} \in SUBSET Programs /\ \A q \in {} \cap A : FALSE
      OBVIOUS
    <3>2. \A q \in A \ {} : SameStore(q) /\ SameTask(q) /\ Lighter(q)
      BY <2>3, <2>4
    <3> QED
      BY <2>4, <3>1, <3>2, TaskFrame
  <2> QED
    BY <2>3, <2>5, SameLawful DEF AllLawful
<1>2. CASE ~LateWrite
  <2>1. PICK p \in Programs : StartDag(p) \/ DagEnds(p) \/ TaskWrite(p) \/ InlineFlushFails(p)
    BY <1>2 DEF Tasks
  <2>2. task[p] \notin {"none", "done"}
    BY <2>1 DEF StartDag, DagEnds, TaskWrite, DagSucceeds, DagFails, InlineFlush, ErrFlush,
                ErrSet, Unwind, InlineFlushFails
  <2>3. p \in active /\ UNCHANGED <<active, pc, todo, group, cur, seen, queued>>
    <3>1. UNCHANGED schedVars
      BY <2>1 DEF StartDag, DagEnds, TaskWrite, DagSucceeds, DagFails, InlineFlush, ErrFlush,
                  ErrSet, Unwind, InlineFlushFails
    <3>2. UNCHANGED active
      BY <2>1 DEF StartDag, DagEnds, TaskWrite, DagSucceeds, DagFails, InlineFlush, ErrFlush,
                  ErrSet, Unwind, InlineFlushFails
    <3> QED
      BY <2>2, <3>1, <3>2 DEF TrackInv, schedVars, locals
  <2>4. \A q \in A : Settled(q) /\ TaskFits(q) /\ Owes(q)
    BY DEF Orderly, Programwise
  <2>5. /\ task \in [Programs -> TaskStates] /\ obj \in [Programs -> Image]
        /\ DOMAIN oldState = Programs /\ DOMAIN batch = Programs /\ DOMAIN doneQueue = Programs
        /\ blob \in [Programs -> Blobs] /\ member \in [Programs -> SUBSET States]
    BY DEF TypeInv, RunTyped, StoreTyped
  \* The step of a task that touches its own program only.
  <2>6. ASSUME \A q \in A \ {p} : SameStore(q) /\ SameTask(q) /\ Lighter(q),
               p \in A => /\ Settled(p)' /\ TaskFits(p)' /\ Owes(p)' /\ LawfulFor(p)
                          /\ \A s \in States : p \in group /\ Launched(p, s) =>
                               SameStore(p) /\ obj'[p] = obj[p] /\ task'[p] \in {"sema", "running"}
        PROVE  Orderly(A)' /\ AllLawful(A)
    <3>1. Orderly(A)'
      <4>1. {p} \in SUBSET Programs /\ \A q \in {p} \cap A : q \in active
        BY <2>3
      <4> QED
        BY <2>3, <2>6, <4>1, TaskFrame
    <3> QED
      BY <2>6, <3>1, SameLawful DEF AllLawful
  <2>7. UNCHANGED storeVars => \A q \in Programs : SameStore(q) /\ LawfulFor(q)
    BY Reads
  <2>8. p \in A /\ SameStore(p) => Settled(p)' /\ (In(p, RUNNING) => In(p, RUNNING)')
    BY <2>4, SameSettled DEF SameStore, In
  <2>9. In(p, RUNNING)' => ~HalfMoved(p)'
    BY DEF In, HalfMoved, QUEUED, RUNNING
  <2>10. UNCHANGED doneQueue /\ (batch' = batch \/ batch' = [batch EXCEPT ![p] = NoImages])
           => \A q \in Programs : Lighter(q)
    BY <2>3, BatchGone
  <2>11. p \in A /\ task[p] # "flush" /\ Lighter(p) => Owes(p)'
    BY <2>2, Working, LighterClear, ClearOwes
  <2>12. CASE StartDag(p)
    <3>1. /\ UNCHANGED storeVars /\ UNCHANGED <<obj, oldState, batch, late, doneQueue>>
          /\ task[p] = "sema" /\ task' = [task EXCEPT ![p] = "running"]
      BY <2>12 DEF StartDag, TaskGoes
    <3>2. p \in A => TaskFits(p)'
      BY <2>3, <2>4, <2>5, <2>7, <3>1
      DEF TaskFits, Live, InLaunch, SameStore, In, HalfMoved
    <3>3. \A q \in A \ {p} : SameStore(q) /\ SameTask(q) /\ Lighter(q)
      BY <2>5, <2>7, <2>10, <3>1 DEF SameTask
    <3>4. p \in A => Settled(p)' /\ Owes(p)' /\ LawfulFor(p) /\ SameStore(p)
      BY <2>7, <2>8, <2>10, <2>11, <3>1
    <3>5. obj'[p] = obj[p] /\ task'[p] \in {"sema", "running"}
      BY <2>5, <3>1
    <3> QED
      BY <2>6, <3>2, <3>3, <3>4, <3>5
  <2>13. CASE DagSucceeds(p)
    <3> DEFINE img == [obj[p] EXCEPT !.evidence = TRUE]
               q == [doneQueue EXCEPT ![p] = img]
               full == Cardinality(Pending(q)) >= Cap
    <3>1. img # Absent
      BY <2>5 DEF Image, Absent
    <3>2. /\ UNCHANGED storeVars /\ UNCHANGED <<oldState, late>>
          /\ task[p] = "running" /\ obj' = [obj EXCEPT ![p] = img]
          /\ IF full THEN /\ task' = [task EXCEPT ![p] = "flush"]
                          /\ batch' = [batch EXCEPT ![p] = q] /\ doneQueue' = NoImages
             ELSE /\ task' = [task EXCEPT ![p] = "done"]
                  /\ batch' = batch /\ doneQueue' = q
      BY <2>13 DEF DagSucceeds, TaskGoes
    <3> HIDE DEF img, full
    <3>3. p \in A => obj[p].state = RUNNING /\ In(p, RUNNING) /\ In(p, RUNNING)' /\ Clear(p)
      BY <2>2, <2>7, <2>8, <2>13, <3>2, EndsRunning, Working DEF DagEnds
    <3>4. p \in A => \A s \in States : ~(p \in group /\ Launched(p, s))
      BY <2>2, <3>3, Working
    <3>5. img.state = obj[p].state
      BY <2>5 DEF img, Image
    <3>6. p \in A => TaskFits(p)'
      <4>1. obj'[p] = img /\ task'[p] # "errSet"
        BY <2>5, <3>2
      <4> QED
        BY <2>3, <2>9, <3>3, <3>5, <4>1, TaskFitsNext
    <3>7. \A r \in A : SameStore(r) /\ Settled(r)' /\ LawfulFor(r) /\ (r # p => SameTask(r))
      BY <2>4, <2>5, <2>7, <3>2, SameSettled DEF SameTask
    <3>8. CASE ~full
      <4>1. \A r \in Programs \ {p} : Lighter(r)
        BY <2>3, <2>5, <3>2, <3>8 DEF Lighter, InQueue, InBatch, InFlush
      <4>2. p \in A => Owes(p)'
        <5>1. InFlush(p)' => InFlush(p)
          BY <2>3 DEF InFlush
        <5>2. \A r \in Programs : InBatch(r, p)' => InBatch(r, p)
          BY <3>2, <3>8 DEF InBatch
        <5>3. ~Live(p)'
          BY <2>5, <3>2, <3>8 DEF Live
        <5> QED
          BY <3>3, <5>1, <5>2, <5>3 DEF Owes, Clear
      <4> QED
        BY <2>6, <3>4, <3>6, <3>7, <4>1, <4>2
    <3>9. CASE full
      <4> DEFINE S == {p} \cup Pending(doneQueue)
      <4>1. /\ doneQueue' = NoImages /\ batch' = [batch EXCEPT ![p] = q]
            /\ task' = [task EXCEPT ![p] = "flush"]
        BY <3>2, <3>9
      <4>2. \A r \in Programs : ~InQueue(r)' /\ (InFlush(r)' => InFlush(r))
        BY <2>3, <4>1 DEF InQueue, InFlush, NoImages
      <4>3. \A r, t \in Programs : InBatch(t, r)' => InBatch(t, r) \/ (t = p /\ (r = p \/ InQueue(r)))
        BY <2>5, <4>1 DEF InBatch, InQueue
      <4>4. \A r \in A \ S : SameStore(r) /\ SameTask(r) /\ Lighter(r)
        BY <3>7, <4>2, <4>3 DEF Lighter, Pending, InQueue
      <4>5. \A r \in S \cap A : Owes(r)'
        <5>1. ASSUME p \in A PROVE Owes(p)'
          <6>1. task'[p] = "flush"
            BY <2>5, <4>1
          <6> QED
            BY <3>3, <4>2, <4>3, <5>1, <6>1 DEF Owes, Clear
        <5>2. ASSUME NEW r \in A, InQueue(r), r # p PROVE Owes(r)'
          <6>1. Owes(r) /\ SameStore(r) /\ task'[r] = task[r]
            BY <2>4, <3>7, <5>2 DEF SameTask
          <6>2. In(r, RUNNING)' /\ ~Live(r)'
            BY <5>2, <6>1 DEF Owes, In, SameStore, Live
          <6>3. \A t \in Programs : InBatch(t, r)' => t = p
            BY <4>3, <5>2, <6>1 DEF Owes
          <6>4. ~InQueue(r)' /\ ~InFlush(r)'
            BY <4>2, <5>2, <6>1 DEF Owes
          <6> QED
            BY <6>2, <6>3, <6>4 DEF Owes
        <5> QED
          BY <5>1, <5>2 DEF Pending, InQueue
      <4>6. \A r \in S \cap A : TaskFits(r)'
        <5>1. \A r \in A : r # p => TaskFits(r)'
          BY <2>3, <2>4, <3>7, SameFits DEF InLaunch
        <5> QED
          BY <3>6, <5>1
      <4>7. \A r \in S \cap A : \A s \in States : r \in group /\ Launched(r, s) =>
              SameStore(r) /\ obj'[r] = obj[r] /\ task'[r] \in {"sema", "running"}
        BY <3>4, <3>7 DEF Launched, SameTask
      <4>8. S \in SUBSET Programs
        BY DEF Pending
      <4> HIDE DEF S
      <4>9. Orderly(A)'
        BY <2>3, <3>7, <4>4, <4>5, <4>6, <4>7, <4>8, TaskFrame
      <4> QED
        BY <3>7, <4>9 DEF AllLawful
    <3> QED
      BY <3>8, <3>9
  <2>14. CASE DagFails(p)
    <3>1. PICK e \in BOOLEAN : obj' = [obj EXCEPT ![p].evidence = @ \/ e]
      BY <2>14 DEF DagFails
    <3>2. obj'[p].state = obj[p].state /\ \A q \in Programs \ {p} : obj'[q] = obj[q]
      BY <2>5, <3>1 DEF Image
    <3>3. /\ UNCHANGED storeVars /\ UNCHANGED <<oldState, batch, late, doneQueue>>
          /\ task[p] = "running" /\ task' = [task EXCEPT ![p] = "errFlush"]
      BY <2>14 DEF DagFails, TaskGoes
    <3>4. p \in A => obj[p].state = RUNNING /\ In(p, RUNNING)
      BY <2>14, EndsRunning DEF DagEnds
    <3>5. p \in A => TaskFits(p)'
      BY <2>3, <2>5, <2>7, <2>8, <2>9, <3>2, <3>3, <3>4, TaskFitsNext
    <3>6. p \in A => Settled(p)' /\ Owes(p)' /\ LawfulFor(p)
      BY <2>7, <2>8, <2>10, <2>11, <3>3
    <3>7. p \in A => \A s \in States : ~(p \in group /\ Launched(p, s))
      BY <2>2, <3>4, Working
    <3>8. \A q \in A \ {p} : SameStore(q) /\ SameTask(q) /\ Lighter(q)
      BY <2>5, <2>7, <2>10, <3>2, <3>3 DEF SameTask
    <3> QED
      BY <2>6, <3>5, <3>6, <3>7, <3>8
  <2>15. CASE InlineFlush(p)
    <3> DEFINE S == {p} \cup Pending(batch[p])
    <3>1. /\ BatchTransitionState(batch[p], Pending(batch[p]), RUNNING, DONE)
          /\ UNCHANGED <<obj, oldState, late, doneQueue>>
          /\ task[p] = "flush" /\ task' = [task EXCEPT ![p] = "done"]
          /\ batch' = [batch EXCEPT ![p] = NoImages]
      BY <2>15 DEF InlineFlush, TaskGoes
    <3>2. S \in SUBSET Programs /\ Pending(batch[p]) = {q \in Programs : InBatch(p, q)}
      BY DEF Pending, InBatch
    <3>3. \A q \in Programs : /\ ~InBatch(p, q) => SameStore(q)
                              /\ Lighter(q) /\ ~InBatch(p, q)'
      <4>1. \A q \in Programs : NoImages[q] = Absent
        BY DEF NoImages
      <4> QED
        BY <2>5, <2>10, <3>1, <3>2, <4>1 DEF BatchTransitionState, Moved, SameStore, InBatch
    <3>4. \A q \in A : InBatch(p, q) =>
            /\ In(q, RUNNING) /\ blob'[q].state = DONE /\ member'[q] = {DONE}
            /\ ~Live(q)' /\ Clear(q)' /\ ~Launched(q, QUEUED) /\ ~Launched(q, RUNNING)
      <4> SUFFICES ASSUME NEW q \in A, InBatch(p, q)
                   PROVE  /\ In(q, RUNNING) /\ blob'[q].state = DONE /\ member'[q] = {DONE}
                          /\ ~Live(q)' /\ Clear(q)'
                          /\ ~Launched(q, QUEUED) /\ ~Launched(q, RUNNING)
        OBVIOUS
      <4>1. Owes(q) /\ q \in Programs
        BY <2>4
      <4>2. In(q, RUNNING) /\ ~InQueue(q) /\ ~InFlush(q) /\ \A r \in Programs : InBatch(r, q) => r = p
        BY <4>1 DEF Owes
      <4>3. Clear(q)'
        BY <3>3, <4>1, <4>2 DEF Clear, Lighter
      <4>4. blob'[q].state = DONE /\ member'[q] = {DONE}
        <5>1. WithState(batch[p][q], DONE).state = DONE
          BY <4>1, StateFacts
        <5>2. q \in Pending(batch[p])
          BY <3>2, <4>1
        <5> QED
          BY <3>1, <4>1, <4>2, <5>1, <5>2 DEF BatchTransitionState, Moved, In
      <4>5. ~Live(q)' /\ (~Live(q) \/ task[q] = "flush")
        BY <2>5, <3>1, <4>1 DEF Owes, Live
      <4>6. ~Launched(q, QUEUED) /\ ~Launched(q, RUNNING)
        BY <4>5 DEF Launched, Live
      <4> QED
        BY <4>2, <4>3, <4>4, <4>5, <4>6
    <3>5. p \in A => In(p, RUNNING)
      BY <2>2, <3>1, Working
    <3>6. \A q \in S \cap A : Settled(q)' /\ LawfulFor(q) /\ ~HalfMoved(q)'
      <4>1. ASSUME NEW q \in A, InBatch(p, q) PROVE Settled(q)' /\ LawfulFor(q) /\ ~HalfMoved(q)'
        BY <3>4, <4>1
        DEF Settled, In, Stored, Absent, States, LawfulFor, Lawful, IsValidTransition,
            ValidTransitions, HalfMoved, QUEUED, RUNNING, DONE, DISCARDED
      <4>2. ASSUME p \in A, ~InBatch(p, p) PROVE Settled(p)' /\ LawfulFor(p) /\ ~HalfMoved(p)'
        BY <2>8, <2>9, <3>3, <3>5, <4>2, SameLawful
      <4> QED
        BY <3>2, <4>1, <4>2
    <3>7. \A q \in S \cap A : ~Live(q)' /\ TaskFits(q)' /\ Owes(q)'
      <4>1. ~Live(p)'
        BY <2>5, <3>1 DEF Live
      <4>2. \A q \in S \cap A : ~Live(q)'
        BY <3>2, <3>4, <4>1
      <4>3. \A q \in S \cap A : TaskFits(q)'
        BY <3>6, <4>2 DEF TaskFits
      <4>4. ASSUME NEW q \in A, InBatch(p, q) PROVE Owes(q)'
        BY <3>4, <4>4, ClearOwes
      <4>5. ASSUME p \in A, ~InBatch(p, p) PROVE Owes(p)'
        BY <2>4, <2>8, <3>3, <4>1, <4>5, SameOwes
      <4> QED
        BY <3>2, <4>2, <4>3, <4>4, <4>5
    <3>8. \A q \in A \ S : SameStore(q) /\ SameTask(q) /\ Lighter(q)
      BY <2>5, <3>1, <3>2, <3>3 DEF SameTask
    <3>9. \A q \in S \cap A : q \notin active => SameStore(q) \/ pc \in Ending
      <4>1. ASSUME NEW q \in A, InBatch(p, q), q \notin active PROVE pc \in Ending
        BY <4>1 DEF Unraced, Raced, Outlived, Due, InBatch, Ending
      <4> QED
        BY <2>3, <3>2, <4>1
    <3>10. \A q \in S \cap A : \A s \in States : ~Launched(q, s)
      <4>1. ASSUME NEW q \in A, InBatch(p, q), NEW s \in States PROVE ~Launched(q, s)
        <5>1. CASE s \in {QUEUED, RUNNING}
          BY <3>4, <4>1, <5>1
        <5>2. CASE s \notin {QUEUED, RUNNING}
          BY <3>4, <4>1, <5>2 DEF Launched, In
        <5> QED
          BY <5>1, <5>2
      <4>2. \A s \in States : ~Launched(p, s)
        BY <3>1 DEF Launched
      <4> QED
        BY <3>2, <4>1, <4>2
    <3> HIDE DEF S
    <3>11. Orderly(A)'
      BY <2>3, <3>2, <3>6, <3>7, <3>8, <3>9, <3>10, TaskFrame
    <3> QED
      BY <3>6, <3>8, <3>11, SameLawful DEF AllLawful
  <2>16. CASE InlineFlushFails(p)
    <3>1. /\ UNCHANGED storeVars /\ UNCHANGED <<obj, oldState, late, doneQueue>>
          /\ task[p] = "flush" /\ task' = [task EXCEPT ![p] = "done"]
          /\ batch' = [batch EXCEPT ![p] = NoImages]
      BY <2>16 DEF InlineFlushFails, TaskGoes, CallRaises
    <3>2. p \in A => In(p, RUNNING)
      BY <2>2, <3>1, Working
    <3>3. task'[p] = "done" /\ ~Live(p)'
      BY <2>5, <3>1 DEF Live
    <3>4. p \in A => TaskFits(p)'
      BY <2>3, <2>7, <2>8, <2>9, <3>1, <3>2, <3>3, TaskFitsNext
    <3>5. p \in A => Settled(p)' /\ Owes(p)' /\ LawfulFor(p)
      BY <2>4, <2>7, <2>8, <2>10, <3>1, <3>3, SameOwes
    <3>6. \A s \in States : ~Launched(p, s)
      BY <3>1 DEF Launched
    <3>7. \A q \in A \ {p} : SameStore(q) /\ SameTask(q) /\ Lighter(q)
      BY <2>5, <2>7, <2>10, <3>1 DEF SameTask
    <3> QED
      BY <2>6, <3>4, <3>5, <3>6, <3>7
  <2>17. CASE ErrFlush(p)
    <3>1. /\ WriteExclusive(p, obj[p]) \/ UNCHANGED storeVars
          /\ UNCHANGED <<batch, late, doneQueue>>
          /\ oldState' = [oldState EXCEPT ![p] = obj[p].state]
          /\ obj' = [obj EXCEPT ![p].state = DISCARDED]
          /\ task[p] = "errFlush"
          /\ task' = [task EXCEPT ![p] = IF obj[p].state = DISCARDED THEN "done" ELSE "errSet"]
      BY <2>17 DEF ErrFlush, TaskGoes, CallRaises
    <3>2. p \in A => In(p, RUNNING) /\ obj[p].state = RUNNING
      BY <2>2, <3>1, Working
    <3>3. obj'[p].state = DISCARDED
      BY <2>5, <3>1 DEF Image
    <3>4. /\ \A q \in Programs \ {p} : SameStore(q)
          /\ p \in A => In(p, RUNNING)' /\ blob'[p].state = blob[p].state
      BY <2>5, <3>1, <3>2 DEF WriteExclusive, storeVars, SameStore, In
    <3>5. p \in A => Settled(p)' /\ LawfulFor(p)
      BY <3>4 DEF Settled, In, Stored, Absent, States, LawfulFor, Lawful, IsValidTransition,
                  QUEUED, RUNNING, DONE
    <3>6. p \in A => TaskFits(p)'
      <4>1. p \in A => oldState'[p] = RUNNING /\ task'[p] = "errSet"
        BY <2>5, <3>1, <3>2 DEF RUNNING, DISCARDED
      <4> QED
        BY <2>3, <2>9, <3>3, <3>4, <4>1, TaskFitsNext
    <3>7. p \in A => Owes(p)'
      BY <2>10, <2>11, <3>1
    <3>8. \A s \in States : ~Launched(p, s)
      BY <3>1 DEF Launched
    <3>9. \A q \in A \ {p} : SameStore(q) /\ SameTask(q) /\ Lighter(q)
      BY <2>5, <2>10, <3>1, <3>4 DEF SameTask
    <3> QED
      BY <2>6, <3>5, <3>6, <3>7, <3>8, <3>9
  <2>18. CASE ErrSet(p)
    <3>1. /\ FastStateTransition(p, obj[p], oldState[p], DISCARDED) \/ UNCHANGED storeVars
          /\ UNCHANGED <<obj, oldState, batch, late, doneQueue>>
          /\ task[p] = "errSet" /\ task' = [task EXCEPT ![p] = "done"]
      BY <2>18 DEF ErrSet, TaskGoes, CallRaises
    <3>2. p \in A => In(p, RUNNING) /\ oldState[p] = RUNNING /\ obj[p].state = DISCARDED
      BY <2>2, <3>1, Working
    <3>3. /\ \A q \in Programs \ {p} : SameStore(q)
          /\ p \in A => \/ blob'[p].state = DISCARDED /\ member'[p] = {DISCARDED}
                        \/ SameStore(p)
      BY <2>5, <3>1, <3>2 DEF FastStateTransition, Moved, storeVars, SameStore, In
    <3>4. p \in A => Settled(p)' /\ LawfulFor(p) /\ ~HalfMoved(p)'
      <4>1. CASE p \in A /\ blob'[p].state = DISCARDED /\ member'[p] = {DISCARDED}
        BY <3>2, <4>1
        DEF Settled, In, Stored, Absent, States, LawfulFor, Lawful, IsValidTransition,
            ValidTransitions, HalfMoved, QUEUED, RUNNING, DONE, DISCARDED
      <4>2. CASE p \in A /\ SameStore(p)
        BY <2>8, <2>9, <3>2, <4>2, SameLawful
      <4> QED
        BY <3>3, <4>1, <4>2
    <3>5. p \in A => TaskFits(p)'
      BY <2>3, <2>5, <3>1, <3>4, TaskFitsNext
    <3>6. p \in A => Owes(p)'
      BY <2>10, <2>11, <3>1
    <3>7. \A s \in States : ~Launched(p, s)
      BY <3>1 DEF Launched
    <3>8. \A q \in A \ {p} : SameStore(q) /\ SameTask(q) /\ Lighter(q)
      BY <2>5, <2>10, <3>1, <3>3 DEF SameTask
    <3> QED
      BY <2>6, <3>4, <3>5, <3>6, <3>7, <3>8
  <2>19. CASE Unwind(p)
    <3>1. /\ WriteExclusive(p, obj[p]) \/ UNCHANGED storeVars
          /\ UNCHANGED <<obj, oldState, batch, late, doneQueue>>
          /\ task[p] = "unwinding" /\ task' = [task EXCEPT ![p] = "done"]
      BY <2>19 DEF Unwind, TaskGoes
    <3>2. p \in A => \/ obj[p].state = RUNNING /\ In(p, RUNNING)
                     \/ obj[p].state = QUEUED /\ (In(p, QUEUED) \/ (In(p, RUNNING) /\ pc \in Ending))
      BY <2>2, <3>1, Working
    <3>3. /\ \A q \in Programs \ {p} : SameStore(q)
          /\ SameStore(p) \/ (blob'[p] = obj[p] /\ member'[p] = member[p])
      BY <2>5, <3>1 DEF WriteExclusive, storeVars, SameStore
    <3>4. p \in A => Settled(p)' /\ LawfulFor(p) /\ (HalfMoved(p)' => pc \in Ending)
      <4>1. CASE p \in A /\ blob'[p] = obj[p] /\ member'[p] = member[p]
        BY <3>2, <4>1
        DEF Settled, In, Stored, Absent, States, LawfulFor, Lawful, IsValidTransition,
            ValidTransitions, HalfMoved, QUEUED, RUNNING, DONE, DISCARDED
      <4>2. CASE p \in A /\ SameStore(p)
        <5>1. ~HalfMoved(p)'
          BY <3>2, <4>2 DEF SameStore, In, HalfMoved, QUEUED, RUNNING
        <5> QED
          BY <2>8, <4>2, <5>1, SameLawful
      <4> QED
        BY <3>3, <4>1, <4>2
    <3>5. p \in A => TaskFits(p)'
      BY <2>3, <2>5, <3>1, <3>4, TaskFitsNext
    <3>6. p \in A => Owes(p)'
      BY <2>10, <2>11, <3>1
    <3>7. \A s \in States : ~Launched(p, s)
      BY <3>1 DEF Launched
    <3>8. \A q \in A \ {p} : SameStore(q) /\ SameTask(q) /\ Lighter(q)
      BY <2>5, <2>10, <3>1, <3>3 DEF SameTask
    <3> QED
      BY <2>6, <3>4, <3>5, <3>6, <3>7, <3>8
  <2> QED
    BY <2>1, <2>12, <2>13, <2>14, <2>15, <2>16, <2>17, <2>18, <2>19 DEF DagEnds, TaskWrite
<1> QED
  BY <1>1, <1>2

-----------------------------------------------------------------------------
(* Races: the scheduler.                                                   *)

\* A program without a task fits.
LEMMA NoTaskFits ==
  ASSUME NEW p \in Programs, task'[p] \in {"none", "done"}, p \notin active'
  PROVE  TaskFits(p)'
BY DEF TaskFits, Live

\* Away from launches and shutdowns every live task has its program RUNNING.
LEMMA Calm ==
  ASSUME NEW A, Orderly(A), pc \notin Launching, pc \notin Ending, NEW p \in A
  PROVE  /\ ~InLaunch(p) /\ Settled(p) /\ TaskFits(p) /\ Owes(p)
         /\ p \in active => ~HalfMoved(p)
         /\ Live(p) /\ task[p] # "errSet" => obj[p].state = RUNNING /\ In(p, RUNNING)
BY DEF Orderly, Programwise, TaskFits, InLaunch

\* The scheduler takes over what is due, and forgets some tasks.
LEMMA Harvests ==
  ASSUME NEW A \in SUBSET Programs, TypeInv, Orderly(A), NEW S, HarvestAll(S),
         UNCHANGED <<storeVars, batch, late, todo, cur>>,
         pc \notin Launching, pc \notin Ending, pc # "flush", Up
  PROVE  Orderly(A)' /\ AllLawful(A)
<1>1. DOMAIN doneQueue = Programs
  BY DEF TypeInv, RunTyped
<1>2. /\ active' = active \ S /\ pc' \in {"ids", "flush"}
      /\ seen' = doneQueue /\ doneQueue' = NoImages
      /\ \A q \in Programs \ S : SameTask(q)
      /\ \A q \in Programs \cap S : task'[q] = "none" /\ q \notin active'
  BY DEF HarvestAll, SameTask, Goes
<1>3. \A q \in Programs : SameStore(q) /\ LawfulFor(q)
  BY Reads
<1>4. ASSUME NEW q \in A PROVE Settled(q)' /\ TaskFits(q)' /\ Owes(q)'
  <2>1. Settled(q) /\ TaskFits(q) /\ Owes(q) /\ ~InLaunch(q) /\ SameStore(q) /\ q \in Programs
    BY <1>3, Calm
  <2>2. TaskFits(q)'
    BY <1>2, <2>1, NoTaskFits, SameFits
  <2>3. Owes(q)'
    <3>1. ~InQueue(q)' /\ (InFlush(q)' => InQueue(q))
      BY <1>2 DEF InQueue, InFlush, NoImages
    <3>2. \A r \in Programs : InBatch(r, q)' <=> InBatch(r, q)
      BY DEF InBatch
    <3>3. In(q, RUNNING) => In(q, RUNNING)'
      BY <2>1 DEF SameStore, In
    <3>4. task'[q] = task[q] \/ ~Live(q)'
      BY <1>2, <2>1 DEF SameTask, Live
    <3> QED
      BY <2>1, <3>1, <3>2, <3>3, <3>4 DEF Owes, Live
  <2> QED
    BY <2>1, <2>2, <2>3, SameSettled
<1>5. Launches(A)' /\ Strays(A)' /\ Expires(A)' /\ Recovers(A)'
  BY <1>2 DEF Orderly, Launches, Strays, Expires, Recovers, Up
<1> QED
  BY <1>3, <1>4, <1>5 DEF Orderly, Programwise, AllLawful

\* The steps of _maintain: it cancels tasks whose programs are RUNNING, forgets those
\* that are done, sends their results, and discards what is unfinished and has no task
\* any more.
LEMMA MaintainOrderly ==
  ASSUME NEW A \in SUBSET Programs, TypeInv, TrackInv, Orderly(A), Unraced(A), Maintain
  PROVE  Orderly(A)' /\ AllLawful(A)
<1> USE DEF Orderly, At, Goes
<1>1. pc \notin Launching /\ pc \notin Ending /\ Up
  BY DEF Maintain, MaintainCalm, MaintainOverdue, CancelOverdue, OverdueEnded, Expire,
         HarvestAfterExpiry, Flush, Launching, Ending, Up
<1>2. active \subseteq Programs /\ todo \subseteq Programs /\ group \subseteq Programs
      /\ task \in [Programs -> TaskStates] /\ member \in [Programs -> SUBSET States]
      /\ DOMAIN obj = Programs /\ DOMAIN oldState = Programs /\ DOMAIN batch = Programs
      /\ seen \in [Programs -> Blobs] /\ blob \in [Programs -> Blobs]
  BY DEF TypeInv, RunTyped, SchedTyped, StoreTyped
<1>3. \A q \in Programs : task[q] # "none" <=> q \in active
  BY DEF TrackInv
<1>4. \A q \in A : ~InLaunch(q) /\ Settled(q) /\ TaskFits(q) /\ Owes(q)
  BY <1>1, Calm
<1>5. CASE MaintainCalm \/ HarvestAfterExpiry
  <2>1. PICK S : HarvestAll(S) /\ UNCHANGED <<storeVars, batch, late, todo, cur>>
    BY <1>5 DEF MaintainCalm, HarvestAfterExpiry
  <2>2. pc # "flush"
    BY <1>5 DEF MaintainCalm, HarvestAfterExpiry
  <2> QED
    BY <1>1, <2>1, <2>2, Harvests
<1>6. ASSUME NEW p \in active, Cancel(p), pc' = "await", pc # "flush", UNCHANGED storeVars,
             UNCHANGED <<active, obj, oldState, late, doneQueue>>
      PROVE  Orderly(A)' /\ AllLawful(A)
  <2> DEFINE s == IF task[p] = "done" THEN "done" ELSE Cancelled(p)
  <2>1. /\ cur' = p /\ task' = [task EXCEPT ![p] = s]
        /\ batch' = [batch EXCEPT ![p] = NoImages]
        /\ s = "done" \/ (s = "unwinding" /\ task[p] \in {"running", "unwinding"})
    BY <1>6 DEF Cancel, TaskGoes, Cancelled
  <2> HIDE DEF s
  <2>2. \A q \in A : /\ SameStore(q) /\ Settled(q)' /\ (HalfMoved(q)' => HalfMoved(q))
                     /\ (In(q, RUNNING) => In(q, RUNNING)')
    BY <1>4, <1>6, Reads DEF SameStore, HalfMoved, In
  <2>3. \A q \in Programs : Lighter(q)
    <3>1. \A q \in Programs : NoImages[q] = Absent
      BY DEF NoImages
    <3> QED
      BY <1>2, <1>6, <2>1, <3>1 DEF Lighter, InQueue, InFlush, InBatch
  <2>4. p \in A => TaskFits(p)'
    <3>1. p \in A /\ s = "unwinding" => obj[p].state = RUNNING /\ In(p, RUNNING)
      BY <1>1, <1>2, <2>1, Calm DEF Live
    <3>2. p \in A => ~HalfMoved(p)'
      BY <1>1, <1>2, <1>6, <2>2, Calm
    <3> QED
      BY <1>2, <1>6, <2>1, <2>2, <3>1, <3>2 DEF TaskFits, Live
  <2>5. p \in A => Owes(p)'
    <3>1. CASE p \in A /\ s = "done"
      <4>1. ~Live(p)'
        BY <1>2, <2>1, <3>1 DEF Live
      <4> QED
        BY <1>4, <2>2, <2>3, <3>1, <4>1, SameOwes
    <3>2. CASE p \in A /\ s # "done"
      <4>1. task[p] \in {"running", "unwinding"}
        BY <2>1, <3>2
      <4>2. Clear(p)
        BY <3>2, <4>1, Working
      <4> QED
        BY <2>3, <3>2, <4>2, LighterClear, ClearOwes
    <3> QED
      BY <3>1, <3>2
  <2>6. Programwise(A)'
    <3>1. \A q \in A \ {p} : SameStore(q) /\ SameTask(q) /\ Lighter(q)
      BY <1>2, <1>6, <2>1, <2>2, <2>3 DEF SameTask
    <3>2. {p} \in SUBSET Programs /\ \A q \in {p} \cap A : Settled(q)' /\ TaskFits(q)' /\ Owes(q)'
      BY <1>2, <2>2, <2>4, <2>5
    <3> QED
      BY <1>1, <1>4, <1>6, <3>1, <3>2, Frame
  <2>7. Launches(A)' /\ Strays(A)' /\ Expires(A)' /\ Recovers(A)'
    BY <1>2, <1>6, <2>1 DEF Launches, Strays, Expires, Recovers, Up
  <2> QED
    BY <1>6, <2>6, <2>7, Reads DEF AllLawful
<1>7. CASE MaintainOverdue
  <2>1. \E p \in active : Cancel(p)
    BY <1>7 DEF MaintainOverdue
  <2> QED
    BY <1>6, <1>7, <2>1 DEF MaintainOverdue
<1>8. CASE CancelOverdue
  <2>1. \E p \in active : Cancel(p)
    BY <1>8 DEF CancelOverdue, TrackInv, OverdueActive
  <2> QED
    BY <1>6, <1>8, <2>1 DEF CancelOverdue
<1>9. CASE OverdueEnded
  <2>1. /\ cur \in active /\ cur \in Programs /\ UNCHANGED <<storeVars, batch, late, doneQueue>>
        /\ active' = active \ {cur} /\ task' = [task EXCEPT ![cur] = "none"]
        /\ obj' = [obj EXCEPT ![cur] = Absent]
        /\ oldState' = [oldState EXCEPT ![cur] = "absent"]
        /\ seen' = [NoImages EXCEPT ![cur] = blob[cur]]
        /\ pc' = "expireGet" /\ UNCHANGED cur
    BY <1>3, <1>9 DEF OverdueEnded, TaskGoes, Expires
  <2> PICK p \in Programs : p = cur
    BY <2>1
  <2>2. \A q \in A : SameStore(q) /\ Settled(q)' /\ Lighter(q) /\ (In(q, RUNNING) => In(q, RUNNING)')
    BY <1>4, <2>1, Reads DEF Lighter, InQueue, InFlush, InBatch, SameStore, In
  <2>3. TaskFits(p)' /\ ~Live(p)'
    BY <1>2, <2>1, NoTaskFits DEF Live
  <2>4. p \in A => Owes(p)'
    BY <1>4, <2>2, <2>3, SameOwes
  <2>5. Programwise(A)'
    <3>1. \A q \in A \ {p} : SameStore(q) /\ SameTask(q) /\ Lighter(q)
      BY <1>2, <2>1, <2>2 DEF SameTask
    <3>2. {p} \in SUBSET Programs /\ \A q \in {p} \cap A : Settled(q)' /\ TaskFits(q)' /\ Owes(q)'
      BY <2>2, <2>3, <2>4
    <3>3. \A q \in (active' \cap A) \ {p} : q \in active
      BY <2>1
    <3> QED
      BY <1>1, <1>4, <3>1, <3>2, <3>3, Frame
  <2>6. Expires(A)'
    <3>1. seen'[p] = blob[p]
      BY <2>1 DEF NoImages
    <3>2. p \in A => ~HalfMoved(p) /\ Settled(p)
      BY <1>1, <2>1, Calm
    <3>3. p \in A /\ blob[p].state \in {QUEUED, RUNNING} => In(p, blob[p].state)
      <4>1. blob[p].state \in {QUEUED, RUNNING} => Stored(p)
        BY <2>1, StateFacts DEF States
      <4> QED
        BY <3>2, <4>1 DEF Settled, In
    <3> QED
      BY <2>1, <2>2, <3>1, <3>3 DEF Expires, In, SameStore
  <2>7. Launches(A)' /\ Strays(A)' /\ Recovers(A)'
    BY <2>1 DEF Launches, Strays, Recovers, Up
  <2> QED
    BY <2>1, <2>5, <2>6, <2>7, Reads DEF AllLawful
<1>10. CASE Expire
  <2> PICK p \in Programs : p = cur
    BY <1>10 DEF Expire, Expires
  <2>1. /\ p \in A => p \notin active
        /\ UNCHANGED runVars /\ pc = "expireGet" /\ pc' \in {"harvest", "expire"}
    BY <1>10 DEF Expire, Expires
  <2>2. \A q \in A : Lighter(q) /\ SameTask(q)
    BY <2>1 DEF runVars, Lighter, SameTask, InQueue, InFlush, InBatch
  <2>3. /\ \A q \in Programs \ {p} : SameStore(q)
        /\ p \in A => \/ SameStore(p)
                      \/ /\ blob[p].state \in {QUEUED, RUNNING}
                         /\ blob'[p].state = DISCARDED /\ member'[p] = {DISCARDED}
    <3>1. CASE seen[p].state \in {QUEUED, RUNNING}
      <4>1. /\ FastStateTransition(p, WithState(seen[p], DISCARDED), seen[p].state,
                                   DISCARDED)
            /\ p \in A => In(p, seen[p].state)
        BY <1>10, <3>1 DEF Expire, Expires
      <4>2. WithState(seen[p], DISCARDED).state = DISCARDED
        BY <2>1, StateFacts
      <4> QED
        BY <1>2, <2>1, <3>1, <4>1, <4>2 DEF FastStateTransition, Moved, In, SameStore
    <3>2. CASE seen[p].state \notin {QUEUED, RUNNING}
      BY <1>10, <3>2 DEF Expire, storeVars, SameStore
    <3> QED
      BY <3>1, <3>2
  <2>4. p \in A => Settled(p)' /\ LawfulFor(p)
    <3>1. CASE p \in A /\ SameStore(p)
      BY <1>4, <2>1, <3>1, SameSettled, SameLawful
    <3>2. CASE /\ blob[p].state \in {QUEUED, RUNNING}
               /\ blob'[p].state = DISCARDED /\ member'[p] = {DISCARDED}
      BY <3>2
      DEF Settled, In, Stored, Absent, States, LawfulFor, Lawful, IsValidTransition,
          ValidTransitions, QUEUED, RUNNING, DONE, DISCARDED
    <3> QED
      BY <2>3, <3>1, <3>2
  <2>5. p \in A => TaskFits(p)' /\ Owes(p)'
    <3>1. p \in A => Clear(p)
      BY <1>1, <2>1, Idle
    <3>2. p \in A => Owes(p)'
      BY <2>2, <3>1, LighterClear, ClearOwes
    <3> QED
      BY <1>3, <2>1, <3>2, NoTaskFits DEF runVars
  <2>6. Programwise(A)'
    <3>1. \A q \in A \ {p} : SameStore(q) /\ SameTask(q) /\ Lighter(q)
      BY <2>2, <2>3
    <3>2. {p} \in SUBSET Programs /\ \A q \in {p} \cap A : Settled(q)' /\ TaskFits(q)' /\ Owes(q)'
      BY <2>4, <2>5
    <3>3. active' = active
      BY <2>1 DEF runVars
    <3> QED
      BY <1>1, <1>4, <3>1, <3>2, <3>3, Frame
  <2>7. Launches(A)' /\ Strays(A)' /\ Expires(A)' /\ Recovers(A)'
    BY <2>1 DEF Launches, Strays, Expires, Recovers, Up
  <2>8. AllLawful(A)
    BY <2>3, <2>4, SameLawful DEF AllLawful
  <2> QED
    BY <2>6, <2>7, <2>8
<1>11. CASE Flush
  <2> DEFINE S == Pending(seen)
  <2>1. /\ BatchTransitionState(seen, S, RUNNING, DONE) \/ UNCHANGED storeVars
        /\ UNCHANGED runVars /\ seen' = NoImages /\ pc = "flush" /\ pc' = "ids"
    BY <1>11 DEF Flush, CallRaises
  <2>2. S \in SUBSET Programs /\ S = {q \in Programs : InFlush(q)}
    BY <2>1 DEF Pending, InFlush
  <2> HIDE DEF S
  <2>3. \A q \in A : Lighter(q) /\ SameTask(q) /\ ~InFlush(q)'
    BY <2>1 DEF runVars, Lighter, SameTask, InQueue, InFlush, InBatch
  <2>4. \A q \in S \cap A : In(q, RUNNING) /\ ~Live(q) /\ Clear(q)'
    <3>1. \A q \in S \cap A : Owes(q) /\ InFlush(q)
      BY <1>4, <2>2
    <3> QED
      BY <2>3, <3>1 DEF Owes, Clear, Lighter
  <2>5. \A q \in S \cap A : SameStore(q) \/ (blob'[q].state = DONE /\ member'[q] = {DONE})
    <3>1. CASE BatchTransitionState(seen, S, RUNNING, DONE)
      <4>1. \A q \in S : WithState(seen[q], DONE).state = DONE
        BY <2>2, StateFacts
      <4> QED
        BY <2>2, <2>4, <3>1, <4>1 DEF BatchTransitionState, Moved, In
    <3> QED
      BY <2>1, <3>1, Reads
  <2>6. \A q \in S \cap A : Settled(q)' /\ LawfulFor(q) /\ ~HalfMoved(q)'
    <3> SUFFICES ASSUME NEW q \in S \cap A PROVE Settled(q)' /\ LawfulFor(q) /\ ~HalfMoved(q)'
      OBVIOUS
    <3>1. CASE SameStore(q)
      <4>1. ~HalfMoved(q)'
        BY <2>4, <3>1 DEF SameStore, In, HalfMoved, QUEUED, RUNNING
      <4> QED
        BY <1>4, <3>1, <4>1, SameSettled, SameLawful
    <3>2. CASE blob'[q].state = DONE /\ member'[q] = {DONE}
      BY <2>4, <3>2
      DEF Settled, In, Stored, Absent, States, LawfulFor, Lawful, IsValidTransition,
          ValidTransitions, HalfMoved, QUEUED, RUNNING, DONE, DISCARDED
    <3> QED
      BY <2>5, <3>1, <3>2
  <2>7. \A q \in S \cap A : TaskFits(q)' /\ Owes(q)'
    <3>1. \A q \in S \cap A : ~Live(q)'
      BY <2>3, <2>4 DEF SameTask, Live
    <3> QED
      BY <2>4, <2>6, <3>1, ClearOwes DEF TaskFits
  <2>8. \A q \in A \ S : SameStore(q) /\ SameTask(q) /\ Lighter(q)
    BY <2>1, <2>2, <2>3, Reads DEF BatchTransitionState, Moved, SameStore
  <2>9. Programwise(A)'
    <3>1. active' = active
      BY <2>1 DEF runVars
    <3> QED
      BY <1>1, <1>4, <2>2, <2>6, <2>7, <2>8, <3>1, Frame
  <2>10. Launches(A)' /\ Strays(A)' /\ Expires(A)' /\ Recovers(A)'
    BY <2>1 DEF Launches, Strays, Expires, Recovers, Up
  <2> QED
    BY <2>6, <2>8, <2>9, <2>10, SameLawful DEF AllLawful
<1> QED
  BY <1>5, <1>7, <1>8, <1>9, <1>10, <1>11 DEF Maintain

\* One write of the scheduler for a program without a task, away from launches, flushes
\* and shutdowns.
LEMMA ScheduledWrite ==
  ASSUME NEW A \in SUBSET Programs, TypeInv, TrackInv, Orderly(A), Unraced(A),
         NEW p \in Programs, p \in A => p \notin active, UNCHANGED runVars,
         pc \notin Ending, pc # "flush", pc' # "flush",
         \A q \in A \ {p} : SameStore(q),
         \A q \in A : InLaunch(q) => InLaunch(q)',
         p \in A => Settled(p)' /\ LawfulFor(p)
  PROVE  Programwise(A)' /\ AllLawful(A)
<1>1. \A q \in Programs : SameTask(q) /\ Lighter(q)
  BY DEF SameTask, Lighter, InQueue, InFlush, InBatch, runVars
<1>2. p \in A => TaskFits(p)'
  <2>1. p \in A => task'[p] = "none" /\ p \notin active'
    BY DEF TrackInv, runVars
  <2> QED
    BY <2>1, NoTaskFits
<1>3. p \in A => Owes(p)'
  BY <1>1, Idle, LighterClear, ClearOwes
<1>4. {p} \in SUBSET Programs /\ \A q \in {p} \cap A : Settled(q)' /\ TaskFits(q)' /\ Owes(q)'
  BY <1>2, <1>3
<1>5. Programwise(A) /\ \A q \in (active' \cap A) \ {p} : q \in active
  BY DEF Orderly, runVars
<1>6. Programwise(A)'
  BY <1>1, <1>4, <1>5, Frame
<1> QED
  BY <1>6, SameLawful DEF AllLawful

\* A step that writes nothing and leaves the tasks alone.
LEMMA ScheduledRead ==
  ASSUME NEW A \in SUBSET Programs, Orderly(A), UNCHANGED storeVars, UNCHANGED runVars,
         pc \in Ending => pc' \in Ending,
         \A q \in A : InLaunch(q) => InLaunch(q)',
         \A q \in A : InFlush(q)' => InFlush(q)
  PROVE  Programwise(A)' /\ AllLawful(A)
<1>1. \A q \in A \ {} : SameStore(q) /\ SameTask(q) /\ Lighter(q)
  BY Reads DEF SameTask, Lighter, InQueue, InBatch, runVars
<1>2. {} \in SUBSET Programs /\ \A q \in {} \cap A : Settled(q)' /\ TaskFits(q)' /\ Owes(q)'
  OBVIOUS
<1>3. Programwise(A) /\ \A q \in (active' \cap A) \ {} : q \in active
  BY DEF Orderly, runVars
<1>4. Programwise(A)'
  BY <1>1, <1>2, <1>3, Frame
<1> QED
  BY <1>4, Reads DEF AllLawful

\* The reconciliation of the orphans: it moves programs that nobody works on, and
\* whose blob is as it was read.
LEMMA OrphansOrderly ==
  ASSUME NEW A \in SUBSET Programs, TypeInv, TrackInv, Orderly(A), Unraced(A), Orphans
  PROVE  Orderly(A)' /\ AllLawful(A)
<1> USE DEF Orderly, At, Goes
<1>1. /\ pc \in {"ids", "runningIds", "orphans", "reconcile", "requeueMove"}
      /\ pc' \in {"runningIds", "orphans", "reconcile", "requeueMove", "pick"}
      /\ UNCHANGED runVars
  BY DEF Orphans, ReadQueued, ReadRunning, ReadOrphans, Reconcile, RequeueMove,
         OrphansReconciled
<1>2. active \subseteq Programs /\ todo \subseteq Programs /\ queued \subseteq Programs
      /\ member \in [Programs -> SUBSET States] /\ blob \in [Programs -> Blobs]
  BY DEF TypeInv, RunTyped, SchedTyped, StoreTyped
<1>3. pc \notin Launching /\ pc \notin Ending /\ Up /\ Up' /\ pc' \notin Launching
      /\ pc' \notin Ending /\ pc # "flush" /\ pc' # "flush"
  BY <1>1 DEF Launching, Ending, Up
<1>4. \A q \in A : ~InLaunch(q) /\ Settled(q)
  BY <1>3, Calm
<1>5. UNCHANGED storeVars => Programwise(A)' /\ AllLawful(A)
  BY <1>1, <1>3, <1>4, ScheduledRead DEF InFlush
<1>6. Expires(A)' /\ Recovers(A)'
  BY <1>1, <1>3 DEF Expires, Recovers, runVars
<1>7. ASSUME UNCHANGED storeVars
      PROVE  \A q \in Programs : SameStore(q)
  BY <1>7, Reads
<1>8. \A q \in A : \A s \in States :
        s \in member[q] => Stored(q) /\ (In(q, s) \/ (s = RUNNING /\ HalfMoved(q)))
  BY <1>4 DEF Settled, In, HalfMoved
<1>9. CASE ReadQueued
  <2>1. queued' = IdsByStatus(QUEUED) /\ pc' = "runningIds" /\ UNCHANGED storeVars
    BY <1>9 DEF ReadQueued
  <2>2. \A q \in queued' \cap A : In(q, QUEUED)'
    BY <1>7, <1>8, <2>1 DEF IdsByStatus, States, QUEUED, RUNNING, SameStore, In
  <2> QED
    BY <1>5, <1>6, <2>1, <2>2 DEF Launches, Strays
<1>10. CASE ReadRunning
  <2>1. todo' = IdsByStatus(RUNNING) \ active /\ UNCHANGED storeVars /\ UNCHANGED queued
        /\ pc = "runningIds" /\ pc' \in {"pick", "orphans"}
    BY <1>10 DEF ReadRunning
  <2>2. \A q \in todo' \cap A : Stray(q)'
    BY <1>1, <1>7, <1>8, <2>1
    DEF IdsByStatus, States, RUNNING, SameStore, In, HalfMoved, Stray, runVars
  <2>3. \A q \in queued' \cap A : q \in active' \/ In(q, QUEUED)'
    BY <1>1, <1>2, <1>7, <2>1 DEF Launches, SameStore, In, runVars
  <2> QED
    BY <1>5, <1>6, <2>1, <2>2, <2>3 DEF Launches, Strays
<1>11. CASE ReadOrphans
  <2>1. /\ seen' = [p \in Programs |-> IF p \in todo THEN blob[p] ELSE Absent]
        /\ todo' \subseteq todo /\ UNCHANGED storeVars /\ UNCHANGED queued
        /\ pc = "orphans" /\ pc' = "reconcile"
    BY <1>11 DEF ReadOrphans
  <2>2. \A q \in todo' \cap A : Stray(q)' /\ seen'[q].state = blob'[q].state
    BY <1>1, <1>2, <1>7, <2>1 DEF Strays, Stray, SameStore, runVars
  <2>3. \A q \in queued' \cap A : q \in active' \/ In(q, QUEUED)'
    BY <1>1, <1>2, <1>7, <2>1 DEF Launches, SameStore, In, runVars
  <2> QED
    BY <1>5, <1>6, <2>1, <2>2, <2>3 DEF Launches, Strays
<1>12. CASE OrphansReconciled
  <2>1. /\ pc = "reconcile" /\ pc' = "pick" /\ UNCHANGED storeVars /\ UNCHANGED queued
    BY <1>12 DEF OrphansReconciled
  <2>2. \A q \in queued' \cap A : q \in active' \/ In(q, QUEUED)'
    BY <1>1, <1>2, <1>7, <2>1 DEF Launches, SameStore, In, runVars
  <2> QED
    BY <1>5, <1>6, <2>1, <2>2 DEF Launches, Strays
<1>13. ASSUME NEW p \in todo, pc \in {"reconcile", "requeueMove"},
              pc' \in {"reconcile", "requeueMove"}, UNCHANGED <<seen, queued>>,
              \A q \in Programs \ {p} : SameStore(q),
              \/ todo' = todo \ {p} /\ pc' = "reconcile"
                 /\ (p \in A => \E s \in States : In(p, s)')
              \/ todo' = todo /\ pc' = "requeueMove" /\ cur' = p /\ (p \in A => HalfMoved(p)'),
              p \in A => LawfulFor(p), pc = "requeueMove" => cur = p
       PROVE  Orderly(A)' /\ AllLawful(A)
  <2>1. p \in Programs /\ (p \in A => p \notin active /\ member[p] = {RUNNING})
    BY <1>2, <1>13 DEF Strays, Stray
  <2>2. p \in A => Settled(p)'
    BY <1>13 DEF Settled, In, HalfMoved, Stored, Absent, States, QUEUED, RUNNING, DONE,
                 DISCARDED
  <2>3. Programwise(A)' /\ AllLawful(A)
    BY <1>1, <1>3, <1>4, <1>13, <2>1, <2>2, ScheduledWrite
  <2>4. Launches(A)'
    <3>1. p \in A => p \notin queued
      BY <1>13, <2>1 DEF Launches, In, QUEUED, RUNNING
    <3>2. \A q \in queued' \cap A : q \in active' \/ In(q, QUEUED)'
      BY <1>1, <1>2, <1>13, <3>1 DEF Launches, In, SameStore, runVars
    <3> QED
      BY <1>13, <3>2 DEF Launches
  <2>5. Strays(A)'
    <3>1. \A q \in todo' \cap A : Stray(q)'
      BY <1>1, <1>2, <1>13, <2>1 DEF Strays, Stray, SameStore, HalfMoved, runVars
    <3>2. \A q \in (todo' \cap A) \ {p} : seen'[q].state = blob'[q].state
      BY <1>2, <1>13 DEF Strays, SameStore
    <3> QED
      BY <1>13, <3>1, <3>2 DEF Strays
  <2> QED
    BY <1>6, <2>3, <2>4, <2>5
<1>14. CASE Reconcile
  <2>1. PICK p \in todo :
          LET img == seen[p]
          IN \/ /\ img.state # RUNNING
                /\ MoveStatus({p}, RUNNING, img.state)
                /\ todo' = todo \ {p} /\ cur' = Nobody /\ Goes("reconcile")
             \/ /\ img.state = RUNNING /\ img.evidence
                /\ FastStateTransition(p, WithState(img, DONE), RUNNING, DONE)
                /\ todo' = todo \ {p} /\ cur' = Nobody /\ Goes("reconcile")
             \/ /\ img.state = RUNNING /\ ~img.evidence
                /\ img.retries >= RetryBudget
                /\ FastStateTransition(p, WithState(img, DISCARDED), RUNNING, DISCARDED)
                /\ todo' = todo \ {p} /\ cur' = Nobody /\ Goes("reconcile")
             \/ /\ img.state = RUNNING /\ ~img.evidence
                /\ img.retries < RetryBudget
                /\ WriteExclusive(p, Retried(img))
                /\ cur' = p /\ Goes("requeueMove") /\ UNCHANGED todo
    BY <1>14 DEF Reconcile
  <2>2. /\ p \in Programs /\ pc = "reconcile" /\ UNCHANGED <<seen, queued>>
        /\ seen[p] \in Image /\ seen[p].state \in States
        /\ p \in A => member[p] = {RUNNING} /\ seen[p].state = blob[p].state
    BY <1>2, <1>14 DEF Reconcile, Strays, Stray, TypeInv, SchedTyped, Real
  <2>3. /\ \A s : WithState(seen[p], s).state = s
        /\ Retried(seen[p]).state = QUEUED
    BY <2>2 DEF WithState, Retried, Image
  <2>4. CASE seen[p].state # RUNNING /\ MoveStatus({p}, RUNNING, seen[p].state)
             /\ todo' = todo \ {p} /\ pc' = "reconcile"
    <3>1. /\ \A q \in Programs \ {p} : SameStore(q)
          /\ p \in A => In(p, seen[p].state)'
          /\ blob' = blob
      BY <1>2, <2>2, <2>4 DEF MoveStatus, Moved, In, SameStore
    <3>2. LawfulFor(p)
      BY <3>1 DEF LawfulFor, Lawful, IsValidTransition, QUEUED, RUNNING, DONE
    <3>3. p \in A => \E s \in States : In(p, s)'
      BY <2>2, <2>4, <3>1 DEF In
    <3> QED
      BY <1>13, <2>2, <2>4, <3>1, <3>2, <3>3
  <2>5. CASE \E s \in {DONE, DISCARDED} :
               /\ seen[p].state = RUNNING
               /\ FastStateTransition(p, WithState(seen[p], s), RUNNING, s)
               /\ todo' = todo \ {p} /\ pc' = "reconcile"
    <3>1. PICK s \in {DONE, DISCARDED} :
            FastStateTransition(p, WithState(seen[p], s), RUNNING, s)
      BY <2>5
    <3>2. /\ \A q \in Programs \ {p} : SameStore(q)
          /\ p \in A => In(p, s)'
      BY <1>2, <2>2, <2>3, <3>1 DEF FastStateTransition, Moved, In, SameStore
    <3>3. p \in A => LawfulFor(p)
      BY <2>2, <2>5, <3>2 DEF LawfulFor, Lawful, In, IsValidTransition, ValidTransitions, States,
                              QUEUED, RUNNING, DONE, DISCARDED
    <3>4. p \in A => \E s1 \in States : In(p, s1)'
      BY <3>2 DEF In, States
    <3> QED
      BY <1>13, <2>2, <2>5, <3>2, <3>3, <3>4
  <2>6. CASE seen[p].state = RUNNING /\ WriteExclusive(p, Retried(seen[p]))
             /\ cur' = p /\ pc' = "requeueMove" /\ todo' = todo
    <3>1. /\ \A q \in Programs \ {p} : SameStore(q)
          /\ p \in A => HalfMoved(p)'
      BY <1>2, <2>2, <2>3, <2>6 DEF WriteExclusive, HalfMoved, SameStore
    <3>2. p \in A => LawfulFor(p)
      BY <2>2, <2>6, <3>1 DEF LawfulFor, Lawful, HalfMoved, RUNNING, QUEUED, DONE
    <3> QED
      BY <1>13, <2>2, <2>6, <3>1, <3>2
  <2> QED
    BY <2>1, <2>4, <2>5, <2>6
<1>15. CASE RequeueMove
  <2> PICK p \in todo : p = cur /\ (p \in A => HalfMoved(p))
    BY <1>15 DEF RequeueMove, Strays
  <2>1. /\ MoveStatus({p}, RUNNING, QUEUED) /\ todo' = todo \ {p} /\ pc' = "reconcile"
        /\ pc = "requeueMove" /\ UNCHANGED <<seen, queued>> /\ p \in Programs
    BY <1>2, <1>15 DEF RequeueMove
  <2>2. /\ \A q \in Programs \ {p} : SameStore(q)
        /\ p \in A => In(p, QUEUED)'
        /\ blob' = blob
    BY <1>2, <2>1 DEF MoveStatus, Moved, In, SameStore, HalfMoved
  <2>3. LawfulFor(p)
    BY <2>2 DEF LawfulFor, Lawful, IsValidTransition, QUEUED, RUNNING, DONE
  <2>4. p \in A => \E s \in States : In(p, s)'
    BY <2>2 DEF In, States
  <2> QED
    BY <1>13, <2>1, <2>2, <2>3, <2>4
<1> QED
  BY <1>9, <1>10, <1>11, <1>12, <1>14, <1>15 DEF Orphans

\* The steps of _launch up to the creation of the tasks, and the programs whose DAG
\* cannot be built: what has been read as QUEUED is so.
LEMMA PicksOrderly ==
  ASSUME NEW A \in SUBSET Programs, TypeInv, TrackInv, Orderly(A), Unraced(A),
         Pick \/ GetFresh \/ BuildFail \/ BuiltAll \/ Wake
  PROVE  Orderly(A)' /\ AllLawful(A)
<1> USE DEF Orderly, At, Goes
<1>1. /\ pc \in {"pick", "get", "buildFail", "idle"}
      /\ pc' \in {"idle", "get", "create", "buildFail", "mark", "maintain"}
      /\ UNCHANGED runVars /\ UNCHANGED group
  BY DEF Pick, GetFresh, BuildFail, BuiltAll, Wake
<1>2. active \subseteq Programs /\ todo \subseteq Programs /\ queued \subseteq Programs
      /\ group \subseteq Programs
      /\ member \in [Programs -> SUBSET States] /\ blob \in [Programs -> Blobs]
  BY DEF TypeInv, RunTyped, SchedTyped, StoreTyped
<1>3. pc \notin Ending /\ Up /\ Up' /\ pc # "flush" /\ pc' # "flush"
  BY <1>1 DEF Ending, Up
<1>4. Strays(A)' /\ Expires(A)' /\ Recovers(A)'
  BY <1>1, <1>3 DEF Strays, Expires, Recovers, runVars
<1>5. UNCHANGED storeVars => \A q \in Programs : SameStore(q)
  BY Reads
<1>6. ASSUME UNCHANGED storeVars, \A q \in A : InLaunch(q) => InLaunch(q)'
      PROVE  Programwise(A)' /\ AllLawful(A)
  BY <1>1, <1>3, <1>6, ScheduledRead DEF InFlush
<1>7. CASE Pick
  <2>1. /\ pc = "pick" /\ pc' \in {"idle", "get"} /\ UNCHANGED storeVars
        /\ todo' \subseteq queued \ active
    BY <1>7 DEF Pick
  <2>2. Programwise(A)' /\ AllLawful(A)
    BY <1>3, <1>6, <2>1 DEF InLaunch, Launching
  <2>3. \A q \in todo' \cap A : Waits(q)'
    BY <1>1, <1>2, <1>5, <2>1 DEF Launches, Waits, In, SameStore, runVars
  <2> QED
    BY <1>4, <2>1, <2>2, <2>3 DEF Launches
<1>8. CASE GetFresh
  <2>1. /\ pc = "get" /\ pc' = "create" /\ UNCHANGED storeVars /\ UNCHANGED todo
        /\ seen' = [p \in Programs |-> IF p \in todo THEN blob[p] ELSE Absent]
    BY <1>8 DEF GetFresh
  <2>2. Programwise(A)' /\ AllLawful(A)
    BY <1>3, <1>6, <2>1 DEF InLaunch, Launching
  <2>3. \A q \in todo' \cap A : Waits(q)' /\ seen'[q].state = QUEUED
    BY <1>1, <1>2, <1>5, <2>1 DEF Launches, Waits, In, SameStore, runVars
  <2> QED
    BY <1>4, <2>1, <2>2, <2>3 DEF Launches
<1>9. CASE BuildFail
  <2>1. PICK p \in todo :
          /\ IF seen[p].state = DISCARDED THEN UNCHANGED storeVars
             ELSE FastStateTransition(p, WithState(seen[p], DISCARDED), seen[p].state,
                                      DISCARDED)
          /\ todo' = todo \ {p}
    BY <1>9 DEF BuildFail
  <2>2. /\ pc = "buildFail" /\ pc' = pc /\ UNCHANGED seen
        /\ p \in Programs /\ seen[p] \in Image
        /\ p \in A => Waits(p) /\ seen[p].state = QUEUED
    BY <1>2, <1>9, StateFacts DEF BuildFail, Launches
  <2>3. /\ \A q \in Programs \ {p} : SameStore(q)
        /\ p \in A => In(p, DISCARDED)'
    <3>1. WithState(seen[p], DISCARDED).state = DISCARDED
      BY <2>2, StateFacts
    <3>2. p \in A => FastStateTransition(p, WithState(seen[p], DISCARDED), QUEUED, DISCARDED)
      BY <2>1, <2>2 DEF QUEUED, DISCARDED
    <3>3. \A q \in Programs \ {p} : SameStore(q)
      BY <1>2, <1>5, <2>1, <2>2 DEF FastStateTransition, Moved, SameStore
    <3> QED
      BY <1>2, <2>2, <3>1, <3>2, <3>3 DEF FastStateTransition, Moved, In, Waits
  <2>4. p \in A => Settled(p)' /\ LawfulFor(p)
    BY <2>2, <2>3
    DEF Waits, Settled, In, Stored, Absent, States, LawfulFor, Lawful, IsValidTransition,
        ValidTransitions, QUEUED, RUNNING, DONE, DISCARDED
  <2>5. Programwise(A)' /\ AllLawful(A)
    <3>1. \A q \in A : InLaunch(q) => InLaunch(q)'
      BY <1>1, <2>2 DEF InLaunch, Ending
    <3>2. p \in A => p \notin active
      BY <2>2 DEF Waits
    <3> QED
      BY <1>1, <1>3, <2>2, <2>3, <2>4, <3>1, <3>2, ScheduledWrite
  <2>6. Launches(A)'
    <3>1. \A q \in todo' \cap A : Waits(q)' /\ seen'[q].state = QUEUED
      BY <1>1, <1>2, <2>1, <2>2, <2>3 DEF Launches, Waits, In, SameStore, runVars
    <3>2. \A q \in group' \cap A : Launched(q, QUEUED)'
      BY <1>1, <1>2, <2>2, <2>3 DEF Launches, Launched, Waits, In, SameStore, runVars
    <3> QED
      BY <2>2, <3>1, <3>2 DEF Launches
  <2> QED
    BY <1>4, <2>5, <2>6
<1>10. CASE BuiltAll
  <2>1. /\ pc = "buildFail" /\ UNCHANGED storeVars
        /\ pc' = IF group = {} THEN "idle" ELSE "mark"
    BY <1>10 DEF BuiltAll
  <2>2. Programwise(A)' /\ AllLawful(A)
    <3>1. \A q \in A : InLaunch(q) => InLaunch(q)'
      BY <1>1, <2>1 DEF InLaunch, Launching, Ending
    <3> QED
      BY <1>6, <2>1, <3>1
  <2>3. \A q \in group' \cap A : Launched(q, QUEUED)'
    BY <1>1, <1>2, <1>5, <2>1 DEF Launches, Launched, In, SameStore, runVars
  <2> QED
    BY <1>4, <2>1, <2>2, <2>3 DEF Launches
<1>11. CASE Wake
  <2>1. pc = "idle" /\ pc' = "maintain" /\ UNCHANGED storeVars
    BY <1>11 DEF Wake
  <2>2. Programwise(A)' /\ AllLawful(A)
    BY <1>3, <1>6, <2>1 DEF InLaunch, Launching
  <2> QED
    BY <1>4, <2>1, <2>2 DEF Launches
<1> QED
  BY <1>7, <1>8, <1>9, <1>10, <1>11

\* The creation of the tasks and the QUEUED -> RUNNING call for them: a program that is
\* exposed to no race gets no further than its DAG meanwhile, so the call finds it as it
\* was read.
LEMMA LaunchesOrderly ==
  ASSUME NEW A \in SUBSET Programs, TypeInv, TrackInv, Orderly(A),
         CreateTasks \/ MarkRead \/ MarkWrite \/ Marked \/ MarkFails
  PROVE  Orderly(A)' /\ AllLawful(A)
<1> USE DEF Orderly, At, Goes
<1>1. /\ pc \in {"create", "mark", "markWrite", "marked"}
      /\ pc' \in {"buildFail", "markWrite", "marked", "idle"}
      /\ UNCHANGED doneQueue
  BY DEF CreateTasks, MarkRead, MarkWrite, Marked, MarkFails, runVars
<1>2. active \subseteq Programs /\ todo \subseteq Programs /\ group \subseteq Programs
      /\ task \in [Programs -> TaskStates] /\ obj \in [Programs -> Image]
      /\ member \in [Programs -> SUBSET States] /\ blob \in [Programs -> Blobs]
      /\ seen \in [Programs -> Blobs]
      /\ DOMAIN batch = Programs /\ DOMAIN oldState = Programs
  BY DEF TypeInv, RunTyped, SchedTyped, StoreTyped
<1>3. pc \notin Ending /\ Up /\ Up' /\ pc # "flush" /\ pc' # "flush"
  BY <1>1 DEF Ending, Up
<1>4. Strays(A)' /\ Expires(A)' /\ Recovers(A)'
  BY <1>1, <1>3 DEF Strays, Expires, Recovers
<1>5. UNCHANGED storeVars => \A q \in Programs : SameStore(q)
  BY Reads
<1>6. batch' = batch => \A q \in Programs : Lighter(q)
  BY <1>1, <1>3 DEF Lighter, InQueue, InFlush, InBatch
<1>7. Programwise(A)
  OBVIOUS
<1>8. CASE CreateTasks
  <2>1. PICK good \in SUBSET todo :
          /\ active' = active \cup good
          /\ task' = [p \in Programs |-> IF p \in good THEN "sema" ELSE task[p]]
          /\ obj' = [p \in Programs |-> IF p \in good THEN seen[p] ELSE obj[p]]
          /\ todo' \subseteq todo \ good
          /\ group' = good
    <3>1. PICK bad \in SUBSET {p \in todo : DagsFail} :
            LET good == {p \in todo \ bad : seen[p] # Absent}
            IN /\ active' = active \cup good
               /\ task' = [p \in Programs |-> IF p \in good THEN "sema" ELSE task[p]]
               /\ obj' = [p \in Programs |-> IF p \in good THEN seen[p] ELSE obj[p]]
               /\ todo' = {p \in bad : seen[p] # Absent}
               /\ group' = good
      BY <1>8 DEF CreateTasks
    <3> WITNESS {p \in todo \ bad : seen[p] # Absent} \in SUBSET todo
    <3> QED
      BY <3>1
  <2>2. pc = "create" /\ pc' = "buildFail" /\ UNCHANGED storeVars /\ UNCHANGED seen
        /\ UNCHANGED <<batch, oldState>>
    BY <1>8 DEF CreateTasks
  <2>3. \A q \in todo \cap A : Waits(q) /\ seen[q].state = QUEUED
    BY <2>2 DEF Launches
  <2>4. \A q \in good \cap A : /\ Launched(q, QUEUED)'
                               /\ obj'[q].state = QUEUED /\ In(q, QUEUED)' /\ task'[q] = "sema"
    BY <1>2, <1>5, <2>1, <2>2, <2>3 DEF Launched, Waits, In, SameStore
  <2>5. \A q \in good \cap A : Settled(q)' /\ TaskFits(q)' /\ Owes(q)'
    <3>1. \A q \in good \cap A : Settled(q)'
      BY <2>2, Reads DEF Programwise
    <3>2. \A q \in good \cap A : ~HalfMoved(q)' /\ InLaunch(q)'
      BY <2>1, <2>2, <2>4 DEF HalfMoved, In, InLaunch, Launching, QUEUED, RUNNING
    <3>3. \A q \in good \cap A : TaskFits(q)'
      BY <2>4, <3>2 DEF TaskFits
    <3>4. \A q \in good \cap A : Owes(q)'
      <4>1. \A q \in good \cap A : ~In(q, RUNNING) /\ Owes(q)
        BY <2>3 DEF Waits, In, QUEUED, RUNNING, Programwise
      <4> QED
        BY <1>6, <2>2, <4>1, NotRunning, LighterClear, ClearOwes
    <3> QED
      BY <3>1, <3>3, <3>4
  <2>6. Programwise(A)'
    <3>1. \A q \in A \ good : SameStore(q) /\ SameTask(q) /\ Lighter(q)
      BY <1>5, <1>6, <2>1, <2>2 DEF SameTask
    <3>2. \A q \in A : ~InLaunch(q)
      BY <2>2 DEF InLaunch, Launching, Ending
    <3>3. good \in SUBSET Programs /\ \A q \in (active' \cap A) \ good : q \in active
      BY <1>2, <2>1
    <3> QED
      BY <1>3, <1>7, <2>5, <3>1, <3>2, <3>3, Frame
  <2>7. Launches(A)'
    <3>1. \A q \in todo' \cap A : Waits(q)' /\ seen'[q].state = QUEUED
      BY <1>2, <1>5, <2>1, <2>2, <2>3 DEF Waits, In, SameStore
    <3> QED
      BY <2>1, <2>2, <2>4, <3>1 DEF Launches
  <2> QED
    BY <1>4, <2>2, <2>6, <2>7, Reads DEF AllLawful
<1>9. CASE MarkRead
  <2>1. /\ pc = "mark" /\ pc' = "markWrite" /\ UNCHANGED storeVars /\ UNCHANGED runVars
        /\ UNCHANGED group
        /\ todo' = PatchableAmong(group, QUEUED)
        /\ seen' = [p \in Programs |-> IF p \in todo' THEN blob[p] ELSE Absent]
    BY <1>9 DEF MarkRead
  <2>2. Programwise(A)' /\ AllLawful(A)
    <3>1. \A q \in A : InLaunch(q) => InLaunch(q)'
      BY <2>1 DEF InLaunch, Launching, Ending
    <3> QED
      BY <1>3, <2>1, <3>1, ScheduledRead DEF InFlush
  <2>3. \A q \in group \cap A : Launched(q, QUEUED)
    BY <2>1 DEF Launches
  <2>4. todo' \subseteq group' /\ \A q \in group \cap A : q \in todo' /\ seen'[q].state = QUEUED
    BY <1>2, <2>1, <2>3 DEF PatchableAmong, Launched, In
  <2>5. \A q \in group' \cap A : Launched(q, QUEUED)'
    BY <1>2, <1>5, <2>1, <2>3 DEF Launched, In, SameStore, runVars
  <2> QED
    BY <1>4, <2>1, <2>2, <2>4, <2>5 DEF Launches
<1>10. CASE MarkWrite
  <2>1. /\ pc = "markWrite" /\ pc' = "marked" /\ UNCHANGED runVars /\ UNCHANGED group
        /\ BatchTransitionState(seen, todo, QUEUED, RUNNING) /\ todo \subseteq group
        /\ \A q \in group \cap A : Launched(q, QUEUED) /\ q \in todo
    BY <1>10 DEF MarkWrite, BatchTransitionByIds, Launches
  <2>2. /\ \A q \in Programs \ group : SameStore(q)
        /\ \A q \in group \cap A : In(q, RUNNING)'
    <3>1. \A q \in group : WithState(seen[q], RUNNING).state = RUNNING
      BY <1>2, StateFacts
    <3> QED
      BY <1>2, <2>1, <3>1 DEF BatchTransitionState, Moved, In, SameStore, Launched
  <2>3. \A q \in group \cap A : Launched(q, RUNNING)'
    BY <2>1, <2>2 DEF Launched, runVars
  <2>4. \A q \in group \cap A : Settled(q)' /\ TaskFits(q)' /\ Owes(q)' /\ LawfulFor(q)
    <3>1. \A q \in group \cap A : Settled(q)' /\ ~HalfMoved(q)'
      BY <2>2 DEF Settled, In, HalfMoved, Stored, Absent, States, QUEUED, RUNNING
    <3>2. \A q \in group \cap A : InLaunch(q)' /\ q \in active'
      BY <2>1, <2>3 DEF InLaunch, Launching, Launched
    <3>3. \A q \in group \cap A : TaskFits(q)'
      BY <2>2, <2>3, <3>1, <3>2 DEF TaskFits, Launched
    <3>4. \A q \in group \cap A : LawfulFor(q)
      BY <2>1, <2>2
      DEF LawfulFor, Lawful, Launched, In, IsValidTransition, ValidTransitions, States, QUEUED,
          RUNNING, DONE, DISCARDED
    <3>5. \A q \in group \cap A : Owes(q)'
      <4>1. \A q \in group \cap A : ~In(q, RUNNING) /\ Owes(q)
        BY <1>7, <2>1 DEF Launched, In, QUEUED, RUNNING, Programwise
      <4> QED
        BY <1>6, <2>1, <4>1, NotRunning, LighterClear, ClearOwes DEF runVars
    <3> QED
      BY <3>1, <3>3, <3>4, <3>5
  <2>5. Programwise(A)'
    <3>1. \A q \in A \ group : SameStore(q) /\ SameTask(q) /\ Lighter(q)
      BY <1>6, <2>1, <2>2 DEF SameTask, runVars
    <3>2. \A q \in A \ group : ~InLaunch(q)
      BY <1>3 DEF InLaunch
    <3>3. group \in SUBSET Programs /\ \A q \in active' : q \in active
      BY <1>2, <2>1 DEF runVars
    <3> QED
      BY <1>3, <1>7, <2>4, <3>1, <3>2, <3>3, Frame
  <2>6. Launches(A)' /\ AllLawful(A)
    BY <2>1, <2>2, <2>3, <2>4, SameLawful DEF Launches, AllLawful
  <2> QED
    BY <1>4, <2>5, <2>6
<1>11. CASE Marked
  <2>1. /\ pc = "marked" /\ pc' = "idle" /\ UNCHANGED storeVars
        /\ UNCHANGED <<active, task, batch, oldState>>
        /\ obj' = [p \in Programs |->
                     IF p \in group THEN WithState(obj[p], RUNNING) ELSE obj[p]]
        /\ \A q \in group \cap A : Launched(q, RUNNING)
    BY <1>11 DEF Marked, Launches
  <2>2. \A q \in group \cap A : Settled(q)' /\ TaskFits(q)' /\ Owes(q)'
    <3>1. \A q \in group \cap A : In(q, RUNNING)' /\ obj'[q].state = RUNNING
      BY <1>2, <1>5, <2>1, StateFacts DEF Launched, In, SameStore
    <3>2. \A q \in group \cap A : task'[q] \in {"sema", "running"}
      BY <2>1 DEF Launched
    <3>3. \A q \in group \cap A : ~HalfMoved(q)'
      BY <3>1 DEF In, HalfMoved, QUEUED, RUNNING
    <3>4. \A q \in group \cap A : Settled(q)'
      BY <2>1, Reads DEF Programwise
    <3>5. \A q \in group \cap A : Owes(q)'
      BY <1>6, <1>7, <2>1, <3>1, SameOwes DEF Programwise
    <3> QED
      BY <3>1, <3>2, <3>3, <3>4, <3>5 DEF TaskFits
  <2>3. Programwise(A)'
    <3>1. \A q \in A \ group : SameStore(q) /\ SameTask(q) /\ Lighter(q)
      BY <1>5, <1>6, <2>1 DEF SameTask
    <3>2. \A q \in A \ group : ~InLaunch(q)
      BY <1>3 DEF InLaunch
    <3> QED
      BY <1>2, <1>3, <1>7, <2>1, <2>2, <3>1, <3>2, Frame
  <2> QED
    BY <1>4, <2>1, <2>3, Reads DEF Launches, AllLawful
<1>12. CASE MarkFails
  <2>1. /\ pc' = "idle" /\ UNCHANGED storeVars /\ active' = active \ group
        /\ task' = [p \in Programs |-> IF p \in group THEN "none" ELSE task[p]]
        /\ obj' = [p \in Programs |-> IF p \in group THEN Absent ELSE obj[p]]
        /\ oldState' = [p \in Programs |-> IF p \in group THEN "absent" ELSE oldState[p]]
        /\ batch' = [p \in Programs |-> IF p \in group THEN NoImages ELSE batch[p]]
    BY <1>12 DEF MarkFails, CallRaises
  <2>2. \A q \in Programs : Lighter(q)
    <3>1. \A q \in Programs : NoImages[q] = Absent
      BY DEF NoImages
    <3> QED
      BY <1>1, <1>3, <2>1, <3>1 DEF Lighter, InQueue, InFlush, InBatch
  <2>3. \A q \in group \cap A : Settled(q)' /\ TaskFits(q)' /\ Owes(q)'
    <3>1. \A q \in group \cap A : task'[q] = "none" /\ q \notin active' /\ ~Live(q)'
      BY <2>1 DEF Live
    <3>2. \A q \in group \cap A : Settled(q) /\ Owes(q) /\ (In(q, RUNNING) => In(q, RUNNING)')
      BY <1>5, <1>7, <2>1 DEF Programwise, In, SameStore
    <3> QED
      BY <2>1, <2>2, <3>1, <3>2, NoTaskFits, SameOwes, Reads
  <2>4. Programwise(A)'
    <3>1. \A q \in A \ group : SameStore(q) /\ SameTask(q) /\ Lighter(q)
      BY <1>5, <2>1, <2>2 DEF SameTask
    <3>2. \A q \in A \ group : ~InLaunch(q)
      BY <1>3 DEF InLaunch
    <3> QED
      BY <1>2, <1>3, <1>7, <2>1, <2>3, <3>1, <3>2, Frame
  <2> QED
    BY <1>4, <2>1, <2>4, Reads DEF Launches, AllLawful
<1> QED
  BY <1>8, <1>9, <1>10, <1>11, <1>12

\* A call of the scheduler that raises leaves the store and the tasks as they were; a
\* requeue may stay half done, until the next look for orphans.
LEMMA FaultsOrderly ==
  ASSUME NEW A \in SUBSET Programs, TypeInv, Orderly(A), Faults
  PROVE  Orderly(A)' /\ AllLawful(A)
<1> USE DEF Orderly, At, Goes
<1>1. /\ UNCHANGED storeVars /\ UNCHANGED runVars /\ UNCHANGED group
      /\ todo' \subseteq todo /\ queued' \subseteq queued
  BY DEF Faults, ReadFails, ProgramSkipped, CallRaises
<1>2. todo \subseteq Programs /\ queued \subseteq Programs /\ group \subseteq Programs
  BY DEF TypeInv, SchedTyped
<1>3. \/ pc \in {"ids", "runningIds", "get"} /\ pc' = "idle"
      \/ pc = "orphans" /\ pc' = "pick"
      \/ pc = "expireGet" /\ pc' \in {"harvest", "expire"}
      \/ pc = "requeueMove" /\ pc' = "reconcile" /\ seen' = seen /\ todo' = todo \ {cur}
      \/ pc \in {"reconcile", "buildFail"} /\ pc' = pc /\ seen' = seen
  BY DEF Faults, ReadFails, ProgramSkipped
<1>4. \A q \in Programs : SameStore(q)
  BY <1>1, Reads
<1>5. Programwise(A)' /\ AllLawful(A)
  <2>1. pc \notin Ending /\ pc' # "flush"
    BY <1>3 DEF Ending
  <2>2. \A q \in A : InLaunch(q) => InLaunch(q)'
    BY <1>1, <1>3, <2>1 DEF InLaunch, Launching
  <2> QED
    BY <1>1, <2>1, <2>2, ScheduledRead DEF InFlush
<1>6. Expires(A)' /\ Recovers(A)'
  BY <1>1, <1>3 DEF Expires, Recovers, Up, runVars
<1>7. Launches(A)'
  <2>1. \A q \in Programs : /\ Waits(q) => Waits(q)'
                            /\ Launched(q, QUEUED) => Launched(q, QUEUED)'
                            /\ In(q, QUEUED) => In(q, QUEUED)'
    BY <1>1, <1>4 DEF Waits, Launched, In, SameStore, runVars
  <2>2. active' = active
    BY <1>1 DEF runVars
  <2> QED
    BY <1>1, <1>2, <1>3, <2>1, <2>2 DEF Launches
<1>8. Strays(A)'
  <2>1. \A q \in Programs : Stray(q) => Stray(q)'
    BY <1>1, <1>4 DEF Stray, SameStore, runVars
  <2> QED
    BY <1>1, <1>2, <1>3, <1>4, <2>1 DEF Strays, SameStore
<1> QED
  BY <1>5, <1>6, <1>7, <1>8

\* The process ends: what is left is what the store says.
LEMMA EndsOrderly ==
  ASSUME NEW A \in SUBSET Programs, ProcessEnds, \A q \in A : Settled(q)'
  PROVE  Orderly(A)'
<1>1. \A q \in A : TaskFits(q)'
  BY NoTaskFits DEF ProcessEnds
<1>2. \A q \in A : Owes(q)'
  <2>1. \A q \in A : Clear(q)'
    BY DEF ProcessEnds, Clear, InQueue, InFlush, InBatch, NoImages
  <2> QED
    BY <2>1, ClearOwes
<1>3. Launches(A)' /\ Strays(A)' /\ Expires(A)' /\ Recovers(A)'
  BY DEF ProcessEnds, Launches, Strays, Expires, Recovers
<1> QED
  BY <1>1, <1>2, <1>3 DEF Orderly, Programwise

\* stop(): every task is cancelled and awaited, and what is due is sent.
LEMMA StopsOrderly ==
  ASSUME NEW A \in SUBSET Programs, TypeInv, TrackInv, Orderly(A), Shutdown \/ Stop \/ Crash
  PROVE  Orderly(A)' /\ AllLawful(A)
<1> USE DEF Orderly, At, Goes
<1>1. active \subseteq Programs /\ task \in [Programs -> TaskStates]
      /\ DOMAIN obj = Programs /\ DOMAIN oldState = Programs /\ DOMAIN batch = Programs
      /\ member \in [Programs -> SUBSET States] /\ blob \in [Programs -> Blobs]
  BY DEF TypeInv, RunTyped, StoreTyped
<1>2. UNCHANGED storeVars => \A q \in Programs : SameStore(q)
  BY Reads
<1>3. Programwise(A)
  OBVIOUS
<1>4. CASE Stop
  <2>1. UNCHANGED storeVars /\ UNCHANGED runVars /\ Up
    BY <1>4 DEF Stop
  <2>2. CASE pc = "await"
    <3>1. UNCHANGED <<pc, todo, group, cur, seen, queued>>
      BY <1>4, <2>2 DEF Stop, locals
    <3>2. Programwise(A)' /\ AllLawful(A)
      BY <2>1, <3>1, ScheduledRead DEF InLaunch, InFlush
    <3>3. Launches(A)' /\ Strays(A)' /\ Expires(A)' /\ Recovers(A)'
      BY <2>1, <2>2, <3>1 DEF Launches, Strays, Expires, Recovers, Up, runVars
    <3> QED
      BY <3>2, <3>3
  <2>3. CASE pc # "await"
    <3>1. pc' = "stopping"
      BY <1>4, <2>3 DEF Stop
    <3>2. Programwise(A)' /\ AllLawful(A)
      BY <2>1, <3>1, ScheduledRead DEF InLaunch, Ending, InFlush
    <3>3. Launches(A)' /\ Strays(A)' /\ Expires(A)' /\ Recovers(A)'
      BY <2>1, <3>1 DEF Launches, Strays, Expires, Recovers, Up, runVars
    <3> QED
      BY <3>2, <3>3
  <2> QED
    BY <2>2, <2>3
<1>5. CASE Crash
  <2>1. UNCHANGED storeVars /\ ProcessEnds
    BY <1>5 DEF Crash
  <2>2. \A q \in A : Settled(q)' /\ LawfulFor(q)
    BY <1>3, <2>1, Reads DEF Programwise
  <2> QED
    BY <2>1, <2>2, EndsOrderly DEF AllLawful
<1>6. CASE RoundOver
  <2>1. /\ UNCHANGED storeVars /\ UNCHANGED runVars
        /\ pc = "idle" /\ pc' = "stopping"
    BY <1>6 DEF RoundOver
  <2>2. Programwise(A)' /\ AllLawful(A)
    BY <2>1, ScheduledRead DEF InLaunch, Ending, InFlush
  <2>3. Launches(A)' /\ Strays(A)' /\ Expires(A)' /\ Recovers(A)'
    BY <2>1 DEF Launches, Strays, Expires, Recovers, Up, runVars
  <2> QED
    BY <2>2, <2>3
<1>7. CASE StopTask
  <2>1. PICK p \in active : Cancel(p)
    BY <1>7 DEF StopTask
  <2> DEFINE s == IF task[p] = "done" THEN "done" ELSE Cancelled(p)
  <2>2. /\ task' = [task EXCEPT ![p] = s] /\ batch' = [batch EXCEPT ![p] = NoImages]
        /\ s = "done" \/ (s = "unwinding" /\ task[p] \in {"running", "unwinding"})
        /\ UNCHANGED storeVars /\ UNCHANGED <<active, obj, oldState, late, doneQueue>>
        /\ pc = "stopping" /\ pc' = "stopAwait"
    BY <1>7, <2>1 DEF StopTask, Cancel, TaskGoes, Cancelled
  <2> HIDE DEF s
  <2>3. \A q \in A : SameStore(q) /\ Settled(q)' /\ \A x : In(q, x) => In(q, x)'
    BY <1>3, <2>2, Reads DEF Programwise, In, SameStore
  <2>4. \A q \in Programs : Lighter(q)
    <3>1. \A q \in Programs : NoImages[q] = Absent
      BY DEF NoImages
    <3> QED
      BY <1>1, <2>2, <3>1 DEF Lighter, InQueue, InFlush, InBatch
  <2>5. p \in A => TaskFits(p)'
    <3>1. InLaunch(p)' /\ pc' \in Ending
      BY <2>2 DEF InLaunch, Ending
    <3>2. p \in A /\ s = "unwinding" =>
            \/ obj[p].state = RUNNING /\ In(p, RUNNING)
            \/ obj[p].state = QUEUED /\ (In(p, QUEUED) \/ In(p, RUNNING))
      <4>1. task[p] \in {"running", "unwinding"} => Live(p) /\ task[p] # "errSet"
        BY DEF Live
      <4>2. p \in A => TaskFits(p)
        BY <1>3 DEF Programwise
      <4> QED
        BY <2>2, <4>1, <4>2 DEF TaskFits
    <3>3. task'[p] = s
      BY <1>1, <2>2
    <3> QED
      BY <2>2, <2>3, <3>1, <3>2, <3>3 DEF TaskFits, Live
  <2>6. p \in A => Owes(p)'
    <3>1. CASE p \in A /\ s = "done"
      <4>1. ~Live(p)'
        BY <1>1, <2>2, <3>1 DEF Live
      <4>2. Owes(p)
        BY <1>3, <3>1 DEF Programwise
      <4> QED
        BY <2>3, <2>4, <3>1, <4>1, <4>2, SameOwes
    <3>2. CASE p \in A /\ s # "done"
      <4>1. task[p] \in {"running", "unwinding"}
        BY <2>2, <3>2
      <4>2. Clear(p)
        BY <3>2, <4>1, Working
      <4> QED
        BY <2>4, <3>2, <4>2, LighterClear, ClearOwes
    <3> QED
      BY <3>1, <3>2
  <2>7. Programwise(A)'
    <3>1. \A q \in A \ {p} : SameStore(q) /\ SameTask(q) /\ Lighter(q)
      BY <1>1, <2>2, <2>3, <2>4 DEF SameTask
    <3>2. {p} \in SUBSET Programs /\ \A q \in {p} \cap A : Settled(q)' /\ TaskFits(q)' /\ Owes(q)'
      BY <1>1, <2>3, <2>5, <2>6
    <3>3. pc' \in Ending /\ \A q \in Programs : InLaunch(q)'
      BY <2>2 DEF InLaunch, Ending
    <3> QED
      BY <1>3, <2>2, <3>1, <3>2, <3>3, Frame
  <2>8. Launches(A)' /\ Strays(A)' /\ Expires(A)' /\ Recovers(A)'
    BY <2>2 DEF Launches, Strays, Expires, Recovers, Up
  <2> QED
    BY <2>2, <2>7, <2>8, Reads DEF AllLawful
<1>8. CASE StopTaskEnded
  <2>1. /\ active' = active \ {cur} /\ task' = [task EXCEPT ![cur] = "none"]
        /\ UNCHANGED storeVars /\ UNCHANGED <<obj, oldState, batch, late, doneQueue>>
        /\ pc = "stopAwait" /\ pc' = "stopping"
    BY <1>8 DEF StopTaskEnded, TaskGoes
  <2>2. \A q \in A : /\ SameStore(q) /\ Settled(q)' /\ Owes(q)
                     /\ In(q, RUNNING) => In(q, RUNNING)'
    BY <1>3, <2>1, Reads DEF Programwise, In, SameStore
  <2>3. PICK S \in SUBSET Programs : S = Programs \cap {cur}
    OBVIOUS
  <2>4. \A q \in Programs : Lighter(q)
    BY <2>1 DEF Lighter, InQueue, InFlush, InBatch
  <2>5. \A q \in S \cap A : Settled(q)' /\ TaskFits(q)' /\ Owes(q)'
    <3>1. \A q \in S : task'[q] = "none" /\ q \notin active' /\ ~Live(q)'
      BY <1>1, <2>1, <2>3 DEF Live
    <3> QED
      BY <2>2, <2>4, <3>1, NoTaskFits, SameOwes
  <2>6. \A q \in A \ S : SameStore(q) /\ SameTask(q) /\ Lighter(q)
    BY <1>1, <2>1, <2>2, <2>3, <2>4 DEF SameTask
  <2>7. pc' \in Ending /\ \A q \in Programs : InLaunch(q)'
    BY <2>1 DEF InLaunch, Ending
  <2>8. Programwise(A)'
    BY <1>3, <2>1, <2>5, <2>6, <2>7, Frame
  <2>9. Launches(A)' /\ Strays(A)' /\ Expires(A)' /\ Recovers(A)'
    BY <2>1 DEF Launches, Strays, Expires, Recovers, Up
  <2> QED
    BY <2>1, <2>8, <2>9, Reads DEF AllLawful
<1>9. CASE StopFlush
  <2> DEFINE S == Pending(doneQueue)
  <2>1. ProcessEnds /\ (BatchTransitionState(doneQueue, S, RUNNING, DONE) \/ UNCHANGED storeVars)
    BY <1>9 DEF StopFlush, CallRaises
  <2>2. S = {q \in Programs : InQueue(q)}
    BY DEF Pending, InQueue
  <2> HIDE DEF S
  <2>3. \A q \in S \cap A : In(q, RUNNING)
    BY <1>3, <2>2 DEF Programwise, Owes
  <2>4. \A q \in A : \/ SameStore(q)
                     \/ In(q, RUNNING) /\ blob'[q].state = DONE /\ member'[q] = {DONE}
    <3>1. CASE BatchTransitionState(doneQueue, S, RUNNING, DONE)
      <4>1. \A q \in Programs : WithState(doneQueue[q], DONE).state = DONE
        BY StateFacts
      <4>2. \A q \in S \cap A : blob'[q].state = DONE /\ member'[q] = {DONE}
        BY <2>2, <2>3, <3>1, <4>1 DEF BatchTransitionState, Moved, In
      <4>3. \A q \in A \ S : SameStore(q)
        BY <1>1, <3>1 DEF BatchTransitionState, Moved, SameStore
      <4> QED
        BY <2>3, <4>2, <4>3
    <3> QED
      BY <1>2, <2>1, <3>1
  <2>5. \A q \in A : Settled(q)' /\ LawfulFor(q)
    <3> SUFFICES ASSUME NEW q \in A PROVE Settled(q)' /\ LawfulFor(q)
      OBVIOUS
    <3>1. CASE SameStore(q)
      BY <1>3, <3>1, SameSettled, SameLawful DEF Programwise
    <3>2. CASE In(q, RUNNING) /\ blob'[q].state = DONE /\ member'[q] = {DONE}
      BY <3>2
      DEF Settled, In, Stored, Absent, States, LawfulFor, Lawful, IsValidTransition,
          ValidTransitions, QUEUED, RUNNING, DONE, DISCARDED
    <3> QED
      BY <2>4, <3>1, <3>2
  <2> QED
    BY <2>1, <2>5, EndsOrderly DEF AllLawful
<1> QED
  BY <1>4, <1>5, <1>6, <1>7, <1>8, <1>9 DEF Shutdown

\* The next start: what the run before left in the RUNNING set is QUEUED again.
LEMMA RecoveryOrderly ==
  ASSUME NEW A \in SUBSET Programs, TypeInv, TrackInv, Orderly(A), Unraced(A), Recovery
  PROVE  Orderly(A)' /\ AllLawful(A)
<1> USE DEF Orderly, At, Goes
<1>1. /\ pc \in {"down", "recover", "recoverMove"}
      /\ pc' \in {"recover", "recoverMove", "maintain"} /\ UNCHANGED runVars
  BY DEF Recovery, Restart, RecoverWrite, RecoverMove, Recovered
<1>2. todo \subseteq Programs
      /\ member \in [Programs -> SUBSET States] /\ blob \in [Programs -> Blobs]
  BY DEF TypeInv, SchedTyped, StoreTyped
<1>3. active = {} /\ active' = {} /\ pc \notin Ending /\ pc # "flush" /\ pc' # "flush"
      /\ \A q \in A : InLaunch(q) => InLaunch(q)'
  BY <1>1 DEF Recovers, Up, runVars, InLaunch, Launching, Ending
<1>4. Launches(A)' /\ Strays(A)' /\ Expires(A)'
  BY <1>1 DEF Launches, Strays, Expires, runVars
<1>5. ASSUME UNCHANGED storeVars
      PROVE  Programwise(A)' /\ AllLawful(A) /\ \A q \in Programs : SameStore(q)
  BY <1>1, <1>3, <1>5, ScheduledRead, Reads DEF InFlush
<1>6. CASE Restart
  <2>1. todo' = IdsByStatus(RUNNING) /\ pc' = "recover" /\ UNCHANGED storeVars
    BY <1>6 DEF Restart
  <2>2. \A q \in todo' \cap A : member'[q] = {RUNNING}
    BY <1>5, <2>1 DEF Programwise, Settled, In, HalfMoved, IdsByStatus, SameStore
  <2> QED
    BY <1>3, <1>4, <1>5, <2>1, <2>2 DEF Recovers
<1>7. CASE RecoverWrite
  <2>1. PICK p \in todo : cur' = p /\ WriteExclusive(p, WithState(blob[p], QUEUED))
    BY <1>7 DEF RecoverWrite
  <2>2. /\ pc' = "recoverMove" /\ todo' = todo
        /\ p \in A => Settled(p)
        /\ \A q \in todo \cap A : member[q] = {RUNNING}
    BY <1>2, <1>7 DEF RecoverWrite, Recovers, Programwise
  <2>3. /\ \A q \in Programs \ {p} : SameStore(q)
        /\ p \in A => HalfMoved(p)'
        /\ member' = member
    BY <1>2, <2>1, <2>2, StateFacts DEF WriteExclusive, HalfMoved, SameStore
  <2>4. p \in A => blob[p].state \in {QUEUED, RUNNING}
    BY <2>2 DEF Settled, In, HalfMoved
  <2>5. p \in A => Settled(p)' /\ LawfulFor(p)
    BY <2>3, <2>4
    DEF Settled, HalfMoved, Stored, Absent, LawfulFor, Lawful, IsValidTransition, QUEUED, RUNNING,
        DONE
  <2>6. Programwise(A)' /\ AllLawful(A)
    BY <1>1, <1>2, <1>3, <2>3, <2>5, ScheduledWrite
  <2> QED
    BY <1>3, <1>4, <2>1, <2>2, <2>3, <2>6 DEF Recovers, HalfMoved
<1>8. CASE RecoverMove
  <2> PICK p \in todo : p = cur /\ (p \in A => HalfMoved(p))
    BY <1>8 DEF RecoverMove, Recovers
  <2>1. /\ MoveStatus({p}, RUNNING, QUEUED) /\ todo' = todo \ {p} /\ pc' = "recover"
        /\ \A q \in todo \cap A : member[q] = {RUNNING}
    BY <1>8 DEF RecoverMove, Recovers
  <2>2. /\ \A q \in Programs \ {p} : SameStore(q)
        /\ p \in A => In(p, QUEUED)'
        /\ blob' = blob
    BY <1>2, <2>1 DEF MoveStatus, Moved, In, SameStore, HalfMoved
  <2>3. p \in A => Settled(p)' /\ LawfulFor(p)
    BY <2>2 DEF Settled, In, Stored, Absent, States, LawfulFor, Lawful, IsValidTransition,
                QUEUED, RUNNING, DONE, DISCARDED
  <2>4. Programwise(A)' /\ AllLawful(A)
    BY <1>1, <1>2, <1>3, <2>2, <2>3, ScheduledWrite
  <2>5. \A q \in todo' \cap A : member'[q] = {RUNNING}
    BY <1>2, <2>1, <2>2 DEF SameStore
  <2> QED
    BY <1>3, <1>4, <2>1, <2>4, <2>5 DEF Recovers
<1>9. CASE Recovered
  <2>1. pc' = "maintain" /\ UNCHANGED storeVars
    BY <1>9 DEF Recovered
  <2> QED
    BY <1>3, <1>4, <1>5, <2>1 DEF Recovers
<1> QED
  BY <1>6, <1>7, <1>8, <1>9 DEF Recovery

-----------------------------------------------------------------------------
(* Races: the whole.                                                       *)

LEMMA OrderlyStep ==
  ASSUME NEW A \in SUBSET Programs, TypeInv, TrackInv, Orderly(A), Unraced(A), Unraced(A)', Next
  PROVE  Orderly(A)' /\ AllLawful(A)
<1>1. CASE Launch \/ Wake
  BY <1>1, PicksOrderly, LaunchesOrderly DEF Launch
<1>2. CASE Engine \/ Tasks \/ Maintain \/ Orphans \/ Faults \/ Shutdown \/ Recovery \/ Stop
           \/ Crash
  BY <1>2, EngineOrderly, TasksOrderly, MaintainOrderly, OrphansOrderly, FaultsOrderly,
     StopsOrderly, RecoveryOrderly
<1> QED
  BY <1>1, <1>2 DEF Next, Scheduler

\* Whoever is exposed to a race is recorded.
LEMMA Exposures ==
  ASSUME TypeInv, NEW p \in Programs, ~Raced(p), \A w \in late : w[1] # p, Next
  PROVE  Record \/ ~Raced(p)'
<1> USE DEF Raced, Outlived, Outrun, Due
<1>1. /\ DOMAIN task = Programs /\ DOMAIN obj = Programs /\ DOMAIN batch = Programs
      /\ DOMAIN doneQueue = Programs
  BY DEF TypeInv, RunTyped
<1>2. Absent.state # QUEUED /\ \A q \in Programs : NoImages[q] = Absent
  BY DEF Absent, QUEUED, NoImages
<1>3. ASSUME UNCHANGED runVars, pc \notin {"stopping", "stopAwait"} \/ UNCHANGED pc
      PROVE  ~Raced(p)'
  BY <1>3 DEF runVars
<1>4. CASE Engine
  <2>1. UNCHANGED runVars /\ UNCHANGED pc
    BY <1>4 DEF Engine, Submit, Refresh, Reject, schedVars
  <2> QED
    BY <1>3, <2>1
<1>5. CASE Tasks
  <2>1. CASE LateWrite
    BY <2>1 DEF LateWrite, schedVars
  <2>2. ASSUME NEW q \in Programs, StartDag(q) \/ TaskWrite(q) \/ InlineFlushFails(q)
        PROVE  ~Raced(p)'
    <3>1. UNCHANGED <<active, late, doneQueue, pc>>
      BY <2>2 DEF StartDag, InlineFlushFails, TaskWrite, InlineFlush, ErrFlush, ErrSet, Unwind,
                  schedVars
    <3>2. /\ task' = [task EXCEPT ![q] = task'[q]] /\ task'[q] # "errFlush"
          /\ \A r \in Programs : r # q => obj'[r] = obj[r]
      BY <1>1, <2>2
      DEF StartDag, InlineFlushFails, TaskWrite, InlineFlush, ErrFlush, ErrSet, Unwind, TaskGoes
    <3>3. batch' = batch \/ batch' = [batch EXCEPT ![q] = NoImages]
      BY <2>2 DEF StartDag, InlineFlushFails, TaskWrite, InlineFlush, ErrFlush, ErrSet, Unwind
    <3>4. ~Outlived(p)'
      BY <1>1, <1>2, <3>1, <3>3
    <3>5. ~Outrun(p)'
      BY <1>1, <1>2, <3>1, <3>2, <3>3
    <3> QED
      BY <3>4, <3>5
  <2>3. ASSUME NEW q \in Programs, DagEnds(q)
        PROVE  Record
    BY <2>3 DEF DagEnds, DagSucceeds, DagFails
  <2> QED
    BY <1>5, <2>1, <2>2, <2>3 DEF Tasks
<1>6. ASSUME NEW q \in Programs, Cancel(q), UNCHANGED <<active, obj, late, doneQueue>>,
             pc \notin {"stopping", "stopAwait"} \/ pc' = "stopAwait"
      PROVE  ~Raced(p)'
  <2>1. /\ \A r \in Programs : r # q => task'[r] = task[r]
        /\ task'[q] # "errFlush"
    BY <1>1, <1>6 DEF Cancel, Cancelled, TaskGoes
  <2>2. batch' = [batch EXCEPT ![q] = NoImages]
    BY <1>6 DEF Cancel
  <2>3. ~Outlived(p)'
    BY <1>1, <1>2, <1>6, <2>2
  <2>4. ~Outrun(p)'
    BY <1>1, <1>2, <1>6, <2>1, <2>2
  <2> QED
    BY <2>3, <2>4
<1>7. CASE Maintain
  <2>1. CASE Expire \/ Flush
    BY <1>3, <2>1 DEF Expire, Flush, At
  <2>2. CASE MaintainCalm \/ OverdueEnded \/ HarvestAfterExpiry
    BY <2>2 DEF MaintainCalm, OverdueEnded, HarvestAfterExpiry
  <2>3. CASE MaintainOverdue \/ CancelOverdue
    <3>1. PICK q \in Programs : Cancel(q)
      BY <2>3 DEF MaintainOverdue, CancelOverdue, TypeInv, RunTyped, SchedTyped
    <3>2. UNCHANGED <<active, obj, late, doneQueue>> /\ pc \notin {"stopping", "stopAwait"}
      BY <2>3 DEF MaintainOverdue, CancelOverdue, At
    <3> QED
      BY <1>6, <3>1, <3>2
  <2> QED
    BY <1>7, <2>1, <2>2, <2>3 DEF Maintain
<1>8. CASE Orphans \/ Recovery
  <2>1. UNCHANGED runVars /\ pc \notin {"stopping", "stopAwait"}
    BY <1>8 DEF Orphans, ReadQueued, ReadRunning, ReadOrphans, Reconcile, RequeueMove,
                OrphansReconciled, Recovery, Restart, RecoverWrite, RecoverMove, Recovered, At
  <2> QED
    BY <1>3, <2>1
<1>9. CASE Launch \/ Wake
  <2>1. CASE Pick \/ GetFresh \/ BuildFail \/ BuiltAll \/ MarkRead \/ MarkWrite \/ Wake
    BY <1>3, <2>1 DEF Pick, GetFresh, BuildFail, BuiltAll, MarkRead, MarkWrite, Wake, At
  <2>2. CASE CreateTasks
    <3>1. /\ active \subseteq active' /\ UNCHANGED <<batch, late, doneQueue>>
          /\ task'[p] = "errFlush" => obj'[p] = obj[p] /\ task'[p] = task[p]
          /\ pc \notin {"stopping", "stopAwait"}
      BY <2>2 DEF CreateTasks, At
    <3> QED
      BY <3>1
  <2>3. CASE Marked
    <3>1. /\ UNCHANGED <<active, task, batch, late, doneQueue>>
          /\ obj'[p] = obj[p] \/ obj'[p].state = RUNNING
          /\ pc \notin {"stopping", "stopAwait"}
      BY <1>1, <2>3 DEF Marked, WithState, At
    <3> QED
      BY <3>1 DEF QUEUED, RUNNING
  <2>4. CASE MarkFails
    BY <2>4 DEF MarkFails
  <2> QED
    BY <1>9, <2>1, <2>2, <2>3, <2>4 DEF Launch
<1>10. ASSUME ProcessEnds
       PROVE  ~Raced(p)'
  BY <1>2, <1>10 DEF ProcessEnds
<1>11. CASE Shutdown
  <2>1. CASE StopFlush
    BY <1>10, <2>1 DEF StopFlush
  <2>2. CASE RoundOver
    BY <2>2 DEF RoundOver, runVars, At
  <2>3. CASE StopTask
    <3>1. PICK q \in Programs : Cancel(q)
      BY <2>3 DEF StopTask, TypeInv, RunTyped
    <3>2. UNCHANGED <<active, obj, late, doneQueue>> /\ pc' = "stopAwait"
      BY <2>3 DEF StopTask, Goes
    <3> QED
      BY <1>6, <3>1, <3>2
  <2>4. CASE StopTaskEnded
    <3>1. /\ UNCHANGED <<obj, batch, late, doneQueue>> /\ pc' = "stopping"
          /\ task'[p] = task[p] \/ task'[p] = "none"
      BY <1>1, <2>4 DEF StopTaskEnded, TaskGoes, Goes
    <3> QED
      BY <3>1
  <2> QED
    BY <1>11, <2>1, <2>2, <2>3, <2>4 DEF Shutdown
<1>12. CASE Faults
  <2>1. UNCHANGED runVars /\ pc \notin {"stopping", "stopAwait"}
    BY <1>12 DEF Faults, ReadFails, ProgramSkipped, At
  <2> QED
    BY <1>3, <2>1
<1>13. CASE Stop \/ Crash
  <2>1. CASE Stop
    <3>1. UNCHANGED runVars /\ (UNCHANGED pc \/ pc' = "stopping")
      BY <2>1 DEF Stop, Goes
    <3> QED
      BY <1>3, <3>1 DEF runVars
  <2>2. CASE Crash
    BY <1>10, <2>2 DEF Crash
  <2> QED
    BY <1>13, <2>1, <2>2
<1> QED
  BY <1>4, <1>5, <1>7, <1>8, <1>9, <1>11, <1>12, <1>13 DEF Next, Scheduler

\* A last write is left only of a program that has just left _active.
LEMMA LastWrites ==
  ASSUME Next, NEW w \in late'
  PROVE  w \in late \/ w[1] \notin active'
<1>1. CASE MarkFails
  BY <1>1 DEF MarkFails
<1>2. CASE ~MarkFails
  <2>1. Tasks \/ Engine \/ Orphans \/ Recovery => late' \subseteq late
    BY DEF Tasks, StartDag, DagEnds, DagSucceeds, DagFails, TaskWrite, InlineFlush, ErrFlush,
           ErrSet, Unwind, InlineFlushFails, LateWrite, Engine, Submit, Refresh, Reject, Orphans,
           ReadQueued, ReadRunning, ReadOrphans, Reconcile, RequeueMove, OrphansReconciled,
           Recovery, Restart, RecoverWrite, RecoverMove, Recovered, runVars
  <2>2. Maintain \/ Launch \/ Wake => late' \subseteq late
    BY <1>2 DEF Maintain, MaintainCalm, MaintainOverdue, CancelOverdue, OverdueEnded, Expire,
           HarvestAfterExpiry, Flush, Launch, Pick, GetFresh, CreateTasks, BuildFail, BuiltAll,
           MarkRead, MarkWrite, Marked, Wake, runVars
  <2>3. Shutdown \/ Faults \/ Stop \/ Crash => late' \subseteq late
    BY DEF Shutdown, RoundOver, StopTask, StopTaskEnded, StopFlush, ProcessEnds, Faults,
           ReadFails, ProgramSkipped, Stop, Crash, runVars
  <2> QED
    BY <2>1, <2>2, <2>3 DEF Next, Scheduler
<1> QED
  BY <1>1, <1>2

\* The invariant: the programs that were never exposed to a race are in order.
SoundInv == \A A \in SUBSET (Programs \ overtaken) : Orderly(A) /\ Unraced(A)

LEMMA SoundStep ==
  ASSUME TypeInv, TrackInv, SoundInv, Next
  PROVE  SoundInv' /\ \A p \in Programs \ overtaken : LawfulFor(p)
<1>1. /\ overtaken \subseteq overtaken'
      /\ \A p \in Programs : Raced(p)' /\ p \notin overtaken => p \in overtaken'
      /\ UNCHANGED storeVars \/ UNCHANGED overtaken
  <2>1. Record \/ UNCHANGED overtaken
    BY Recording
  <2>2. ASSUME NEW p \in Programs, Raced(p)', p \notin overtaken PROVE p \in overtaken'
    <3>1. {p} \in SUBSET (Programs \ overtaken)
      BY <2>2
    <3>2. ~Raced(p) /\ \A w \in late : w[1] # p
      BY <3>1 DEF SoundInv, Unraced
    <3> QED
      BY <2>2, <3>2, Exposures DEF Record
  <2> QED
    BY <2>1, <2>2, Recording DEF Record
<1>2. ASSUME NEW A \in SUBSET (Programs \ overtaken')
      PROVE  Orderly(A)' /\ Unraced(A)' /\ AllLawful(A)
  <2>1. A \in SUBSET Programs /\ Orderly(A) /\ Unraced(A)
    BY <1>1 DEF SoundInv
  <2>2. Unraced(A)'
    <3> SUFFICES ASSUME NEW p \in A PROVE ~Raced(p)' /\ \A w \in late' : w[1] # p
      BY DEF Unraced
    <3>1. ~Raced(p)'
      BY <1>1
    <3>2. ASSUME NEW w \in late', w[1] = p PROVE FALSE
      <4>1. w \in late \/ p \notin active'
        BY <1>1, <3>2, LastWrites
      <4>2. w \notin late
        BY <2>1, <3>2 DEF Unraced
      <4> QED
        BY <3>1, <3>2, <4>1, <4>2 DEF Raced, Outlived
    <3> QED
      BY <3>1, <3>2
  <2> QED
    BY <1>1, <2>1, <2>2, OrderlyStep
<1>3. SoundInv'
  BY <1>2 DEF SoundInv
<1>4. ASSUME NEW p \in Programs \ overtaken PROVE LawfulFor(p)
  <2>1. CASE p \notin overtaken'
    <3>1. {p} \in SUBSET (Programs \ overtaken')
      BY <2>1
    <3>2. AllLawful({p})
      BY <1>2, <3>1
    <3> QED
      BY <3>2 DEF AllLawful
  <2>2. CASE p \in overtaken'
    BY <1>1, <2>2, Reads
  <2> QED
    BY <2>1, <2>2
<1> QED
  BY <1>3, <1>4

LEMMA SoundInvariant == Spec => [](TypeInv /\ TrackInv /\ SoundInv)
<1>1. Init => SoundInv
  <2> SUFFICES ASSUME Init, NEW A \in SUBSET Programs PROVE Orderly(A) /\ Unraced(A)
    BY DEF SoundInv
  <2>1. Init /\ pc = "maintain"
    BY DEF Init
  <2>2. Programwise(A)
    <3>1. \A p \in A : Settled(p) /\ TaskFits(p)
      BY <2>1 DEF Init, StoreInit, Settled, TaskFits, Stored, Live, HalfMoved
    <3>2. \A p \in A : Owes(p)
      BY <2>1 DEF Init, Owes, InQueue, InFlush, InBatch, NoImages
    <3> QED
      BY <3>1, <3>2 DEF Programwise
  <2>3. Launches(A) /\ Strays(A) /\ Expires(A) /\ Recovers(A)
    BY <2>1 DEF Init, Launches, Strays, Expires, Recovers, Up
  <2>4. Unraced(A)
    <3>1. Absent.state # QUEUED
      BY DEF Absent, QUEUED
    <3> QED
      BY <2>1, <3>1 DEF Init, Unraced, Raced, Outlived, Outrun, Due, NoImages
  <2> QED
    BY <2>2, <2>3, <2>4 DEF Orderly
<1>2. TypeInv /\ TrackInv /\ SoundInv /\ [Next]_vars => SoundInv'
  <2> SUFFICES ASSUME TypeInv, TrackInv, SoundInv, UNCHANGED vars PROVE SoundInv'
    BY SoundStep
  <2>1. UNCHANGED <<vars, overtaken>>
    BY DEF vars, runVars
  <2>2. ASSUME NEW A \in SUBSET (Programs \ overtaken) PROVE Orderly(A)' /\ Unraced(A)'
    <3>1. Orderly(A) /\ Unraced(A)
      BY DEF SoundInv
    <3>2. Unraced(A)'
      BY <2>1, <3>1 DEF vars, runVars, schedVars, Unraced, Raced, Outlived, Outrun, Due
    <3>3. UNCHANGED storeVars /\ UNCHANGED runVars
          /\ UNCHANGED <<pc, todo, group, cur, seen, queued>>
      BY <2>1 DEF vars, schedVars, locals
    <3>4. Programwise(A)'
      BY <3>1, <3>3, ScheduledRead DEF InLaunch, InFlush
    <3>5. Launches(A)' /\ Strays(A)' /\ Expires(A)' /\ Recovers(A)'
      BY <3>1, <3>3
      DEF Orderly, storeVars, runVars, Launches, Waits, Launched, Strays, Stray, Expires,
          Recovers, In, HalfMoved, Up
    <3> QED
      BY <3>2, <3>4, <3>5 DEF Orderly
  <2> QED
    BY <2>1, <2>2 DEF SoundInv
<1> QED
  BY <1>1, <1>2, TypeInvariant, TrackInvariant, PTL DEF Spec

\* Whatever the capacity, the launches that fail, the DAGs that end early, the crashes
\* and the restarts: unless the runner once let go of a program that had a write to come,
\* or its DAG ended before its launch, the program is in exactly one status set, unfinished
\* work of it is visible to _launch, and every step of its stored state is legal; none
\* takes it back from DONE but the engine's refresh.
THEOREM RaceFreedom == Spec => RaceFree
<1>1. SoundInv => \A p \in Programs \ overtaken : Stored(p) => Filed(p)
  <2> SUFFICES ASSUME SoundInv, NEW p \in Programs \ overtaken, Stored(p) PROVE Filed(p)
    OBVIOUS
  <2>1. {p} \in SUBSET (Programs \ overtaken)
    OBVIOUS
  <2>2. Settled(p)
    BY <2>1 DEF SoundInv, Orderly, Programwise
  <2>3. PICK s : member[p] = {s}
    BY <2>2 DEF Settled, In, HalfMoved
  <2>4. Cardinality(member[p]) = 1
    BY <2>3, FS_Singleton
  <2>5. blob[p].state \in {QUEUED, RUNNING} => member[p] \cap {QUEUED, RUNNING} # {}
    BY <2>2 DEF Settled, In, HalfMoved
  <2> QED
    BY <2>4, <2>5 DEF Filed
<1>2. TypeInv /\ TrackInv /\ SoundInv /\ [Next]_vars =>
        [\A p \in Programs \ overtaken : Stored(p) => Lawful(p)]_vars
  BY SoundStep DEF LawfulFor
<1> QED
  BY <1>1, <1>2, SoundInvariant, PTL DEF Spec, RaceFree

=============================================================================
