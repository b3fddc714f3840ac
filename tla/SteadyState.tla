------------------------------ MODULE SteadyState ------------------------------
(***************************************************************************)
(* The steady-state evolution engine (gigaevo/evolution/engine): the       *)
(* dispatcher spawns one task per mutant under the producer semaphore; a   *)
(* task locks and refreshes its parents, asks the LLM, persists the child, *)
(* waits for a slot of the buffer semaphore and registers the child as in  *)
(* flight; the ingestor polls the children in flight, hands the finished   *)
(* ones to the strategy and frees their slots; run() ties the two loops    *)
(* together and takes them down. An action is the code between two awaits  *)
(* of one coroutine. One element of Mutants stands for a task and for the  *)
(* program it makes.                                                       *)
(***************************************************************************)
EXTENDS Integers, FiniteSets

CONSTANTS
  Mutants,      \* the mutant tasks the dispatcher may spawn, and their children
  Parents,      \* ids of programs that may be selected as parents: integers
  NumParents,   \* parent_selector.num_parents
  Nobody,       \* no mutant
  MaxInFlight,  \* max_in_flight: the size of both semaphores
  MaxMutants,   \* MaxMutantsStopper.max_mutants
  Coalesce,     \* coalesce_refresh
  MayStop,      \* TRUE: stop() may be called
  AddsMayRaise, \* TRUE: strategy.add may raise
  MaxFaults     \* bound: how many storage calls raise

ASSUME EngineAssumption ==
  /\ IsFiniteSet(Mutants) /\ Nobody \notin Mutants
  /\ IsFiniteSet(Parents) /\ Parents \subseteq Int /\ NumParents \in Nat \ {0}
  /\ MaxInFlight \in Nat \ {0}
  /\ MaxMutants \in Nat
  /\ {Coalesce, MayStop, AddsMayRaise} \subseteq BOOLEAN
  /\ MaxFaults \in Nat

VARIABLES
  stage,        \* stage[m]: where the task of m stands
  targets,      \* targets[m]: the parents m selected
  owner,        \* owner[p]: who holds the refresh lock of parent p
  child,        \* child[m]: the state of the program m, "none" before storage.add
  producerSema, \* value of _producer_sema
  bufferSema,   \* value of _buffer_sema
  inFlight,     \* _in_flight
  tickets,      \* the keys of _inflight_tickets
  created,      \* metrics.mutations_created
  dispatcher,   \* the dispatcher: loop, gather (its finally block), ended
  ingestor,     \* the ingestor: on, ended
  poll,         \* where poll_and_ingest stands
  candidates,   \* the ids it took from _in_flight
  todo,         \* the DONE programs not yet offered to the strategy
  rejects,      \* the programs the strategy or the acceptor refused
  released,     \* the ids it will release: ingested or leaked
  archive,      \* the programs the strategy keeps
  running,      \* _running
  run,          \* where run() stands
  stopAsked,    \* stop() was called
  faults        \* counter for the bound

taskVars == <<stage, targets, owner, child>>
slotVars == <<producerSema, bufferSema, inFlight, tickets, created>>
pollVars == <<poll, candidates, todo, rejects, released>>
runVars == <<dispatcher, ingestor, running, run, stopAsked>>
vars == <<taskVars, slotVars, pollVars, archive, runVars, faults>>

Stages == {"none", "select", "locking", "refresh", "llm", "adding", "lineage",
           "buffer", "register", "snapshot", "leaving", "leavingWithSlot", "done"}
ChildStates == {"none", "active", "done", "discarded"}

\* The tasks that hold a producer slot.
Live == {m \in Mutants : stage[m] \notin {"none", "done"}}
\* The programs the DAG runner has finished with.
Finished == {m \in Mutants : child[m] \in {"done", "discarded"}}

TypeOK ==
  /\ stage \in [Mutants -> Stages]
  /\ targets \in [Mutants -> SUBSET Parents]
  /\ owner \in [Parents -> Mutants \cup {Nobody}]
  /\ child \in [Mutants -> ChildStates]
  /\ producerSema \in Nat /\ bufferSema \in Nat /\ created \in Nat
  /\ inFlight \subseteq Mutants /\ tickets \subseteq Mutants
  /\ dispatcher \in {"loop", "gather", "ended"}
  /\ ingestor \in {"on", "ended"}
  /\ poll \in {"idle", "read", "ingest", "release"}
  /\ candidates \subseteq Mutants /\ todo \subseteq Mutants
  /\ rejects \subseteq Mutants /\ released \subseteq Mutants
  /\ archive \subseteq Mutants
  /\ running \in BOOLEAN /\ stopAsked \in BOOLEAN
  /\ run \in {"wait", "reap", "endDispatcher", "sweep", "stopped"}
  /\ faults \in Nat

Init ==
  /\ stage = [m \in Mutants |-> "none"]
  /\ targets = [m \in Mutants |-> {}]
  /\ owner = [p \in Parents |-> Nobody]
  /\ child = [m \in Mutants |-> "none"]
  /\ producerSema = MaxInFlight /\ bufferSema = MaxInFlight
  /\ inFlight = {} /\ tickets = {}
  /\ created = 0
  /\ dispatcher = "loop" /\ ingestor = "on"
  /\ poll = "idle"
  /\ candidates = {} /\ todo = {} /\ rejects = {} /\ released = {}
  /\ archive = {}
  /\ running = TRUE /\ stopAsked = FALSE
  /\ run = "wait"
  /\ faults = 0

-----------------------------------------------------------------------------
(* A mutant task: run_one_mutant and generate_one_mutation. *)

Goes(m, from, to) == stage[m] = from /\ stage' = [stage EXCEPT ![m] = to]

\* Seeded bug: the ticket handed to the ingestor is released here as well.
UnlockedTwice(m) == [p \in Parents |-> IF owner[p] = m THEN Nobody ELSE owner[p]]

\* The locks m holds that it has not handed over with its ticket.
Unlocked(m) ==
  [p \in Parents |-> IF owner[p] = m /\ m \notin tickets THEN Nobody ELSE owner[p]]

\* select_elites: nothing to select ends the task.
Select(m) ==
  /\ \E ps \in SUBSET Parents :
       /\ Cardinality(ps) <= NumParents
       /\ targets' = [targets EXCEPT ![m] = ps]
       /\ Goes(m, "select", IF ps = {} THEN "leaving" ELSE "locking")
  /\ UNCHANGED <<owner, child, slotVars, pollVars, archive, runVars, faults>>

\* The per-parent locks are taken one by one, in the order of the ids.
Missing(m) == {p \in targets[m] : owner[p] # m}

\* Seeded bug: the locks are taken in the order of the selection.
AcquireAnyLock(m) ==
  /\ Goes(m, "locking", IF Cardinality(Missing(m)) = 1 THEN "refresh" ELSE "locking")
  /\ \E p \in Missing(m) : owner[p] = Nobody /\ owner' = [owner EXCEPT ![p] = m]
  /\ UNCHANGED <<targets, child, slotVars, pollVars, archive, runVars, faults>>

AcquireLock(m) ==
  /\ Goes(m, "locking", IF Cardinality(Missing(m)) = 1 THEN "refresh" ELSE "locking")
  /\ \E p \in Missing(m) :
       /\ \A q \in Missing(m) : p <= q
       /\ owner[p] = Nobody
       /\ owner' = [owner EXCEPT ![p] = m]
  /\ UNCHANGED <<targets, child, slotVars, pollVars, archive, runVars, faults>>

\* The parents are DONE again. Coalesced refreshes give their locks back now.
Refreshed(m) ==
  /\ Goes(m, "refresh", "llm")
  /\ owner' = IF Coalesce THEN Unlocked(m) ELSE owner
  /\ UNCHANGED <<targets, child, slotVars, pollVars, archive, runVars, faults>>

\* A parent was discarded or vanished, or the wait timed out.
RefreshFails(m) ==
  /\ Goes(m, "refresh", "leaving")
  /\ UNCHANGED <<targets, owner, child, slotVars, pollVars, archive, runVars, faults>>

\* The LLM answers and Redis executes storage.add; or there is no mutant.
Generate(m) ==
  /\ Goes(m, "llm", "adding")
  /\ child' = [child EXCEPT ![m] = "active"]
  /\ UNCHANGED <<targets, owner, slotVars, pollVars, archive, runVars, faults>>

GenerateFails(m) ==
  /\ Goes(m, "llm", "leaving")
  /\ UNCHANGED <<targets, owner, child, slotVars, pollVars, archive, runVars, faults>>

\* storage.add has returned: from here on the id is returned whatever happens.
Added(m) ==
  /\ Goes(m, "adding", "lineage")
  /\ UNCHANGED <<targets, owner, child, slotVars, pollVars, archive, runVars, faults>>

\* Seeded bug: a failing lineage update loses the id of the persisted child.
LineageLosesId(m) ==
  /\ stage[m] = "lineage"
  /\ \E s \in {"buffer", "leaving"} : stage' = [stage EXCEPT ![m] = s]
  /\ UNCHANGED <<targets, owner, child, slotVars, pollVars, archive, runVars, faults>>

\* The lineage of the parents is updated, or could not be: both lead on.
Lineage(m) ==
  /\ Goes(m, "lineage", "buffer")
  /\ UNCHANGED <<targets, owner, child, slotVars, pollVars, archive, runVars, faults>>

\* Seeded bug: the buffer slot is taken without waiting for one to be free.
AcquireBufferAtOnce(m) ==
  /\ Goes(m, "buffer", "register")
  /\ bufferSema' = bufferSema - 1
  /\ UNCHANGED <<targets, owner, child, producerSema, inFlight, tickets, created,
                 pollVars, archive, runVars, faults>>

AcquireBuffer(m) ==
  /\ bufferSema > 0
  /\ Goes(m, "buffer", "register")
  /\ bufferSema' = bufferSema - 1
  /\ UNCHANGED <<targets, owner, child, producerSema, inFlight, tickets, created,
                 pollVars, archive, runVars, faults>>

\* Buffer slot and ticket change hands together, under _in_flight_lock.
Register(m) ==
  /\ Goes(m, "register", "snapshot")
  /\ inFlight' = inFlight \cup {m}
  /\ tickets' = IF Coalesce THEN tickets ELSE tickets \cup {m}
  /\ created' = created + 1
  /\ UNCHANGED <<targets, owner, child, producerSema, bufferSema, pollVars, archive,
                 runVars, faults>>

\* The snapshot write returned or raised.
SnapshotWritten(m) ==
  /\ Goes(m, "snapshot", "leaving")
  /\ UNCHANGED <<targets, owner, child, slotVars, pollVars, archive, runVars, faults>>

\* Seeded bug: a slot acquired but not handed over is not given back.
LeaveKeepingSlot(m) ==
  /\ stage[m] \in {"leaving", "leavingWithSlot"}
  /\ stage' = [stage EXCEPT ![m] = "done"]
  /\ producerSema' = producerSema + 1
  /\ owner' = Unlocked(m)
  /\ UNCHANGED <<targets, child, bufferSema, inFlight, tickets, created, pollVars,
                 archive, runVars, faults>>

\* The finally block.
Leave(m) ==
  /\ stage[m] \in {"leaving", "leavingWithSlot"}
  /\ stage' = [stage EXCEPT ![m] = "done"]
  /\ producerSema' = producerSema + 1
  /\ bufferSema' = IF stage[m] = "leavingWithSlot" THEN bufferSema + 1 ELSE bufferSema
  /\ owner' = Unlocked(m)
  /\ UNCHANGED <<targets, child, inFlight, tickets, created, pollVars, archive,
                 runVars, faults>>

\* Where Task.cancel() takes a task. After storage.add has returned, the
\* except clause of generate_one_mutation swallows the cancellation.
AfterCancel(s) ==
  IF s \in {"select", "locking", "refresh", "llm", "adding", "buffer", "snapshot"}
  THEN "leaving"
  ELSE IF s = "register" THEN "leavingWithSlot"
  ELSE IF s = "lineage" THEN "buffer"
  ELSE s

-----------------------------------------------------------------------------
(* The dispatcher. *)

\* Seeded bug: off by one.
CapExceeded == created > MaxMutants

CapReached == created >= MaxMutants

Dispatch(m) ==
  /\ dispatcher = "loop" /\ running /\ ~CapReached
  /\ producerSema > 0
  /\ producerSema' = producerSema - 1
  /\ Goes(m, "none", "select")
  /\ UNCHANGED <<targets, owner, child, bufferSema, inFlight, tickets, created,
                 pollVars, archive, runVars, faults>>

\* Its finally block cancels every live task, then waits for all of them. A
\* second cancellation goes through asyncio.gather to the tasks again.
CancelDispatcher ==
  IF dispatcher = "ended" THEN UNCHANGED <<dispatcher, stage>>
  ELSE /\ dispatcher' = "gather"
       /\ stage' = [m \in Mutants |-> AfterCancel(stage[m])]

\* Seeded bug: the slot acquired just before the early stop is kept.
DispatcherStopsWithSlot ==
  /\ dispatcher = "loop" /\ (~running \/ CapReached)
  /\ producerSema > 0
  /\ producerSema' = producerSema - 1
  /\ CancelDispatcher
  /\ UNCHANGED <<targets, owner, child, bufferSema, inFlight, tickets, created, pollVars,
                 archive, ingestor, running, run, stopAsked, faults>>

\* The cap, or _running = False, is seen only after acquire() has returned.
DispatcherStops ==
  /\ dispatcher = "loop" /\ (~running \/ CapReached)
  /\ producerSema > 0
  /\ CancelDispatcher
  /\ UNCHANGED <<targets, owner, child, slotVars, pollVars, archive, ingestor, running,
                 run, stopAsked, faults>>

DispatcherEnds ==
  /\ dispatcher = "gather" /\ Live = {}
  /\ dispatcher' = "ended"
  /\ UNCHANGED <<taskVars, slotVars, pollVars, archive, ingestor, running, run,
                 stopAsked, faults>>

-----------------------------------------------------------------------------
(* The ingestor and the final sweep: both run poll_and_ingest. *)

PollForgets ==
  /\ poll' = "idle"
  /\ candidates' = {} /\ todo' = {} /\ rejects' = {} /\ released' = {}

CancelIngestor == ingestor' = "ended" /\ PollForgets

PollStart ==
  /\ poll = "idle" /\ inFlight # {}
  /\ (ingestor = "on" /\ running) \/ run = "sweep"
  /\ candidates' = inFlight
  /\ poll' = "read"
  /\ UNCHANGED <<taskVars, slotVars, todo, rejects, released, archive, runVars, faults>>

\* Seeded bug: programs the DAG runner discarded are not swept.
PollReadDoneOnly ==
  LET finished == {m \in candidates : child[m] = "done"}
  IN /\ poll = "read"
     /\ todo' = finished
     /\ released' = finished
     /\ candidates' = {}
     /\ poll' = IF finished = {} THEN "idle" ELSE "ingest"
     /\ UNCHANGED <<taskVars, slotVars, rejects, archive, runVars, faults>>

\* What the mget finds: DONE programs to ingest, DISCARDED ones to sweep.
PollRead ==
  LET finished == candidates \cap Finished
  IN /\ poll = "read"
     /\ todo' = {m \in finished : child[m] = "done"}
     /\ released' = finished
     /\ candidates' = {}
     /\ poll' = IF finished = {} THEN "idle" ELSE "ingest"
     /\ UNCHANGED <<taskVars, slotVars, rejects, archive, runVars, faults>>

\* The mget raised. It ends the ingestor; the sweep gives up.
PollFails ==
  /\ poll = "read" /\ faults < MaxFaults
  /\ faults' = faults + 1
  /\ PollForgets
  /\ IF run = "sweep" THEN run' = "stopped" /\ UNCHANGED ingestor
     ELSE ingestor' = "ended" /\ UNCHANGED run
  /\ UNCHANGED <<taskVars, slotVars, archive, dispatcher, running, stopAsked>>

\* strategy.add took the program. A member offered again may be taken once more,
\* by another island than the one that holds it.
Accept(m) ==
  /\ poll = "ingest" /\ m \in todo
  /\ archive' = archive \cup {m}
  /\ todo' = todo \ {m}
  /\ UNCHANGED <<taskVars, slotVars, poll, candidates, rejects, released, runVars, faults>>

\* strategy.add returned False, or the acceptor refused. So does strategy.add for
\* a member that a repeated pass offers again: the router compares it strictly with
\* the elite of its cell, which is itself, and never gets to add_elite's guard.
Refuse(m) ==
  /\ poll = "ingest" /\ m \in todo
  /\ rejects' = rejects \cup {m}
  /\ todo' = todo \ {m}
  /\ UNCHANGED <<taskVars, slotVars, poll, candidates, released, archive, runVars, faults>>

\* strategy.add raised, before or after it put the program into the archive.
\* The program counts as refused.
AddRaises(m) ==
  /\ poll = "ingest" /\ m \in todo
  /\ AddsMayRaise /\ faults < MaxFaults
  /\ faults' = faults + 1
  /\ archive' \in {archive, archive \cup {m}}
  /\ rejects' = rejects \cup {m}
  /\ todo' = todo \ {m}
  /\ UNCHANGED <<taskVars, slotVars, poll, candidates, released, runVars>>

\* The refused ones go DONE -> DISCARDED in one batch; a failure is logged.
Discard ==
  /\ poll = "ingest" /\ todo = {}
  /\ \/ /\ child' = [m \in Mutants |-> IF m \in rejects THEN "discarded" ELSE child[m]]
        /\ UNCHANGED faults
     \/ /\ rejects # {} /\ faults < MaxFaults
        /\ faults' = faults + 1
        /\ UNCHANGED child
  /\ rejects' = {}
  /\ poll' = "release"
  /\ UNCHANGED <<stage, targets, owner, slotVars, candidates, todo, released, archive,
                 runVars>>

\* Seeded bug: the tickets are dropped but not released.
ReleaseKeepingLocks ==
  LET freed == released \cap inFlight
  IN /\ poll = "release"
     /\ inFlight' = inFlight \ freed
     /\ bufferSema' = bufferSema + Cardinality(freed)
     /\ tickets' = tickets \ freed
     /\ released' = {}
     /\ poll' = "idle"
     /\ UNCHANGED <<taskVars, producerSema, created, candidates, todo, rejects, archive,
                    runVars, faults>>

\* Slots and tickets of what was handled go back, atomically.
Release ==
  LET freed == released \cap inFlight
  IN /\ poll = "release"
     /\ inFlight' = inFlight \ freed
     /\ bufferSema' = bufferSema + Cardinality(freed)
     /\ tickets' = tickets \ freed
     /\ owner' = [p \in Parents |->
                    IF owner[p] \in freed \cap tickets THEN Nobody ELSE owner[p]]
     /\ released' = {}
     /\ poll' = "idle"
     /\ UNCHANGED <<stage, targets, child, producerSema, created, candidates, todo, rejects,
                    archive, runVars, faults>>

\* Seeded bug: the ingestor too stops at the cap.
IngestorQuitsAtCap ==
  /\ ingestor = "on" /\ poll = "idle" /\ (~running \/ CapReached)
  /\ ingestor' = "ended"
  /\ UNCHANGED <<taskVars, slotVars, pollVars, archive, dispatcher, running, run,
                 stopAsked, faults>>

\* The loop condition fails.
IngestorQuits ==
  /\ ingestor = "on" /\ poll = "idle" /\ ~running
  /\ ingestor' = "ended"
  /\ UNCHANGED <<taskVars, slotVars, pollVars, archive, dispatcher, running, run,
                 stopAsked, faults>>

-----------------------------------------------------------------------------
(* run() and stop(). *)

\* asyncio.wait returns with the first loop that ended; the other is cancelled.
FirstLoopEnded ==
  /\ run = "wait"
  /\ \/ dispatcher = "ended" /\ CancelIngestor /\ UNCHANGED <<dispatcher, stage>>
     \/ dispatcher # "ended" /\ ingestor = "ended" /\ CancelDispatcher
        /\ UNCHANGED <<ingestor, pollVars>>
  /\ run' = "reap"
  /\ UNCHANGED <<targets, owner, child, slotVars, archive, running, stopAsked, faults>>

\* Both loops are over: the finally block has nothing left to cancel.
Reaped ==
  /\ run = "reap" /\ dispatcher = "ended" /\ ingestor = "ended"
  /\ running' = FALSE
  /\ run' = "sweep"
  /\ UNCHANGED <<taskVars, slotVars, pollVars, archive, dispatcher, ingestor, stopAsked,
                 faults>>

\* stop() clears _running and cancels run(), which passes the cancellation to
\* what it awaits: in asyncio.wait it goes to its finally block, which cancels
\* the dispatcher first; a task it is reaping is cancelled again; the sweep
\* gives up its pass.
Stop ==
  /\ MayStop /\ ~stopAsked
  /\ stopAsked' = TRUE
  /\ running' = FALSE
  /\ CASE run = "wait" ->
            /\ CancelDispatcher
            /\ run' = "endDispatcher"
            /\ UNCHANGED <<pollVars, ingestor>>
       [] run = "reap" ->
            /\ CancelDispatcher
            /\ UNCHANGED <<run, pollVars, ingestor>>
       [] run = "sweep" ->
            /\ PollForgets
            /\ run' = "stopped"
            /\ UNCHANGED <<dispatcher, stage, ingestor>>
       [] OTHER -> UNCHANGED <<dispatcher, stage, run, pollVars, ingestor>>
  /\ UNCHANGED <<targets, owner, child, slotVars, archive, faults>>

\* The dispatcher is down; the ingestor follows.
DispatcherDown ==
  /\ run = "endDispatcher" /\ dispatcher = "ended"
  /\ CancelIngestor
  /\ run' = "sweep"
  /\ UNCHANGED <<taskVars, slotVars, archive, dispatcher, running, stopAsked, faults>>

\* Nothing is in flight any more, or the deadline has passed.
SweepEnds ==
  /\ run = "sweep" /\ poll = "idle"
  /\ run' = "stopped"
  /\ UNCHANGED <<taskVars, slotVars, pollVars, archive, dispatcher, ingestor, running,
                 stopAsked, faults>>

-----------------------------------------------------------------------------
\* The DAG runner finishes a program; see DagRunner.
DagFinishes(m) ==
  /\ child[m] = "active"
  /\ \E s \in {"done", "discarded"} : child' = [child EXCEPT ![m] = s]
  /\ UNCHANGED <<stage, targets, owner, slotVars, pollVars, archive, runVars, faults>>

Task(m) ==
  \/ Select(m) \/ AcquireLock(m) \/ Refreshed(m) \/ RefreshFails(m)
  \/ Generate(m) \/ GenerateFails(m)
  \/ Added(m) \/ Lineage(m) \/ AcquireBuffer(m) \/ Register(m) \/ SnapshotWritten(m)
  \/ Leave(m)

Dispatcher == (\E m \in Mutants : Dispatch(m)) \/ DispatcherStops \/ DispatcherEnds
Poll == \/ PollStart \/ PollRead \/ PollFails \/ Discard \/ Release \/ IngestorQuits
        \/ \E m \in Mutants : Accept(m) \/ Refuse(m) \/ AddRaises(m)
Run == FirstLoopEnded \/ Reaped \/ DispatcherDown \/ SweepEnds

Next ==
  \/ \E m \in Mutants : Task(m) \/ DagFinishes(m)
  \/ Dispatcher \/ Poll \/ Run \/ Stop

Spec == Init /\ [][Next]_vars

\* Every coroutine that can run does; the refresh, the LLM call and the DAG of
\* a program end (each has a timeout); asyncio's locks and semaphores serve
\* their waiters in turn. stop() and the faults are free.
Fairness ==
  /\ \A m \in Mutants : SF_vars(Task(m))
  /\ WF_vars(\E m \in Mutants : DagFinishes(m))
  /\ WF_vars(Dispatcher) /\ WF_vars(Poll) /\ WF_vars(Run)

FairSpec == Spec /\ Fairness

-----------------------------------------------------------------------------
(* Properties. *)

\* "Producer-sema slot: ... the producer task ALWAYS releases it"
\* (mutant_task.py:9-13): every slot is free or held by exactly one live task,
\* through every failure, cancellation and second cancellation.
ProducerSlotsConserved == producerSema + Cardinality(Live) = MaxInFlight

\* "Never both, never neither" (mutant_task.py:15-19): every buffer slot is
\* free, held by a task about to register, or owned by a child in flight.
BufferSlotsConserved ==
  bufferSema + Cardinality(inFlight)
    + Cardinality({m \in Mutants : stage[m] \in {"register", "leavingWithSlot"}})
  = MaxInFlight

\* Without coalescing, the children in flight are those with a ticket, and a
\* lock is held either by a task at work or under the ticket of such a child:
\* no lock outlives both.
TicketsPaired ==
  /\ tickets = IF Coalesce THEN {} ELSE inFlight
  /\ \A p \in Parents : owner[p] # Nobody => owner[p] \in Live \cup tickets

\* "no parent refresh while a child of that parent is in flight"
\* (mutant_task.py:27-28), when refreshes are not coalesced.
NoRefreshUnderChild ==
  \A m \in Mutants, n \in inFlight :
    ~Coalesce /\ stage[m] = "refresh" => targets[m] \cap targets[n] = {}

\* A task that waits for a parent lock held by another waiting task waits for a
\* smaller id than that one: waits never form a cycle, so no two producers with
\* overlapping parents block each other (refresh.py:98-99).
LockWaitsOrdered ==
  \A m, n \in Mutants :
    stage[m] = "locking" /\ stage[n] = "locking" =>
      \A p \in Missing(m) : owner[p] = n => \A q \in Missing(n) : p < q

\* Before any shutdown, a program that was persisted is in the hands of its
\* task, in flight, or has been handled by the ingestor ("otherwise the program
\* becomes an orphan ghost", mutation.py:34-37).
NoOrphanWhileDispatching ==
  dispatcher = "loop" =>
    \A m \in Mutants :
      child[m] = "active" => m \in Live \cup inFlight

\* The stopper is asked before each dispatch, but a mutant counts only when it
\* is registered: the run may overshoot by the producers then at work, no more.
CapOvershoot == created <= MaxMutants + MaxInFlight - 1

\* "archive-member-is-DONE invariant" (archive_storage.py:184-188): the ingestor's
\* reject branch never discards a program the archive holds. The code breaks it: a
\* cancelled pass is repeated by the final sweep, and the member is then refused.
ArchivedNotDiscarded == \A m \in archive : child[m] = "done"

\* The engine implements the two-stage pipeline: producers are its live tasks,
\* the buffer is _in_flight.
Pipeline == INSTANCE MutantPipeline
              WITH Depth <- MaxInFlight, Cap <- MaxMutants, producing <- Live,
                   buffered <- inFlight, delivered <- created
PipelineSpec == Pipeline!Spec

\* Every child in flight whose DAG has finished gives its slot back, at the
\* latest when the run ends (checked without stop() and storage failures).
FinishedAreReleased ==
  \A m \in Mutants :
    (m \in inFlight \cap Finished) ~> (m \notin inFlight \/ run = "stopped")

\* A run that reaches its cap comes to an end by itself: the dispatcher waits
\* for producers that wait for the buffer, which only the ingestor can empty
\* (checked without stop() and storage failures).
CapEndsRun == CapReached ~> run = "stopped"

\* stop() comes back ("Stop the evolution engine and await task completion.",
\* core.py:132).
StopReturns == stopAsked ~> run = "stopped"
=============================================================================
