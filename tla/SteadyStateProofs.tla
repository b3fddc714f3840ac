-------------------------- MODULE SteadyStateProofs --------------------------
(***************************************************************************)
(* Proofs about the steady-state engine for any number of mutants, parents *)
(* and slots. Every invariant is proved from the type invariant and the    *)
(* invariants before it, one step per action that can disturb it.          *)
(***************************************************************************)
EXTENDS SteadyState, FiniteSetTheorems, TLAPS

\* A subset of the mutants is finite and has a size.
LEMMA MutantSets ==
  ASSUME NEW S \in SUBSET Mutants
  PROVE  IsFiniteSet(S) /\ Cardinality(S) \in Nat
BY EngineAssumption, FS_Subset, FS_CardinalityType DEF EngineAssumption

\* Wherever Task.cancel() takes a task, it stays a task of the same kind: live
\* or not, with or without an acquired buffer slot.
LEMMA AfterCancelType ==
  ASSUME NEW s \in Stages
  PROVE  /\ AfterCancel(s) \in Stages
         /\ AfterCancel(s) \in {"none", "done"} <=> s \in {"none", "done"}
         /\ AfterCancel(s) \in {"register", "leavingWithSlot"}
              <=> s \in {"register", "leavingWithSlot"}
BY DEF AfterCancel, Stages

-----------------------------------------------------------------------------
(* Types. *)

\* The steps of one mutant task respect the types.
LEMMA TaskType ==
  ASSUME TypeOK, NEW m \in Mutants, Task(m)
  PROVE  TypeOK'
<1> USE EngineAssumption DEF EngineAssumption, TypeOK, Stages, ChildStates,
        taskVars, slotVars, pollVars, runVars, Goes
<1>1. CASE Select(m)
  BY <1>1 DEF Select
<1>2. CASE AcquireLock(m)
  BY <1>2 DEF AcquireLock, Missing
<1>3. CASE Refreshed(m)
  BY <1>3 DEF Refreshed, Unlocked
<1>4. CASE RefreshFails(m) \/ GenerateFails(m) \/ Added(m) \/ Lineage(m)
           \/ SnapshotWritten(m)
  BY <1>4 DEF RefreshFails, GenerateFails, Added, Lineage, SnapshotWritten
<1>5. CASE Generate(m)
  BY <1>5 DEF Generate
<1>6. CASE AcquireBuffer(m)
  BY <1>6 DEF AcquireBuffer
<1>7. CASE Register(m)
  BY <1>7 DEF Register
<1>8. CASE Leave(m)
  BY <1>8 DEF Leave, Unlocked
<1> QED
  BY <1>1, <1>2, <1>3, <1>4, <1>5, <1>6, <1>7, <1>8 DEF Task

\* Cancelling the dispatcher moves tasks and nothing else.
LEMMA CancelDispatcherType ==
  ASSUME TypeOK, CancelDispatcher
  PROVE  /\ dispatcher' \in {"loop", "gather", "ended"}
         /\ stage' \in [Mutants -> Stages]
BY AfterCancelType DEF CancelDispatcher, TypeOK

\* The steps of the dispatcher respect the types.
LEMMA DispatcherType ==
  ASSUME TypeOK, Dispatcher
  PROVE  TypeOK'
<1> USE EngineAssumption DEF EngineAssumption, taskVars, slotVars, pollVars, runVars
<1>1. CASE \E m \in Mutants : Dispatch(m)
  BY <1>1 DEF Dispatch, Goes, TypeOK, Stages
<1>2. CASE DispatcherStops
  BY <1>2, CancelDispatcherType DEF DispatcherStops, TypeOK
<1>3. CASE DispatcherEnds
  BY <1>3 DEF DispatcherEnds, TypeOK
<1> QED
  BY <1>1, <1>2, <1>3 DEF Dispatcher

\* The steps of the ingestor and of the final sweep respect the types.
LEMMA PollType ==
  ASSUME TypeOK, Poll
  PROVE  TypeOK'
<1> USE EngineAssumption DEF EngineAssumption, TypeOK, taskVars, slotVars, pollVars,
        runVars, ChildStates
<1>1. CASE PollStart
  BY <1>1 DEF PollStart
<1>2. CASE PollRead
  BY <1>2 DEF PollRead, Finished
<1>3. CASE PollFails
  BY <1>3 DEF PollFails, PollForgets
<1>4. CASE Discard
  BY <1>4 DEF Discard
<1>5. CASE Release
  <2>1. Cardinality(released \cap inFlight) \in Nat
    BY MutantSets
  <2> QED
    BY <1>5, <2>1 DEF Release
<1>6. CASE IngestorQuits
  BY <1>6 DEF IngestorQuits
<1>7. CASE \E m \in Mutants : Accept(m) \/ Refuse(m) \/ AddRaises(m)
  BY <1>7 DEF Accept, Refuse, AddRaises
<1> QED
  BY <1>1, <1>2, <1>3, <1>4, <1>5, <1>6, <1>7 DEF Poll

\* The steps of run(), and of stop(), respect the types.
LEMMA RunType ==
  ASSUME TypeOK, Run \/ Stop
  PROVE  TypeOK'
<1> USE DEF TypeOK, taskVars, slotVars, pollVars, runVars, CancelIngestor, PollForgets
<1>1. CASE FirstLoopEnded
  BY <1>1, CancelDispatcherType DEF FirstLoopEnded
<1>2. CASE Reaped
  BY <1>2 DEF Reaped
<1>3. CASE DispatcherDown
  BY <1>3 DEF DispatcherDown
<1>4. CASE SweepEnds
  BY <1>4 DEF SweepEnds
<1>5. CASE Stop
  <2>1. /\ run' \in {"wait", "reap", "endDispatcher", "sweep", "stopped"}
        /\ UNCHANGED pollVars \/ PollForgets
        /\ UNCHANGED ingestor
        /\ CancelDispatcher \/ UNCHANGED <<dispatcher, stage>>
        /\ running' = FALSE /\ stopAsked' = TRUE
        /\ UNCHANGED <<targets, owner, child, slotVars, archive, faults>>
    BY <1>5 DEF Stop
  <2> QED
    BY <2>1, CancelDispatcherType
<1> QED
  BY <1>1, <1>2, <1>3, <1>4, <1>5 DEF Run

\* The engine's state keeps its types: counters stay natural numbers, so no
\* semaphore is ever released below zero or acquired when it is empty.
THEOREM TypeCorrect == Spec => []TypeOK
<1>1. Init => TypeOK
  <2>1. Init => running \in BOOLEAN /\ stopAsked \in BOOLEAN
    BY DEF Init
  <2>2. Init => MaxInFlight \in Nat /\ [m \in Mutants |-> "none"] \in [Mutants -> Stages]
    BY EngineAssumption DEF EngineAssumption, Stages
  <2> QED
    BY <2>1, <2>2 DEF Init, TypeOK, Stages, ChildStates
<1>2. TypeOK /\ [Next]_vars => TypeOK'
  <2> SUFFICES ASSUME TypeOK, [Next]_vars PROVE TypeOK'
    OBVIOUS
  <2>1. CASE \E m \in Mutants : Task(m)
    BY <2>1, TaskType
  <2>2. CASE \E m \in Mutants : DagFinishes(m)
    BY <2>2 DEF DagFinishes, TypeOK, ChildStates, slotVars, pollVars, runVars
  <2>3. CASE UNCHANGED vars
    BY <2>3 DEF vars, taskVars, slotVars, pollVars, runVars, TypeOK
  <2> QED
    BY <2>1, <2>2, <2>3, DispatcherType, PollType, RunType DEF Next
<1> QED
  BY <1>1, <1>2, PTL DEF Spec

-----------------------------------------------------------------------------
(* The slots. Five actions move a slot; all other steps are quiet.         *)

\* A task before its child is registered, after it, and one whose acquired
\* buffer slot has not changed hands.
Producing == {"select", "locking", "refresh", "llm", "adding", "lineage", "buffer",
              "register"}
Delivered == {"snapshot", "leaving", "done"}
Claiming == {m \in Mutants : stage[m] \in {"register", "leavingWithSlot"}}
Undelivered == {m \in Mutants : stage[m] \in Producing}

\* A step that moves no slot: tasks may go on, but none starts, ends, claims or
\* gives up a slot.
Quiet ==
  /\ UNCHANGED slotVars
  /\ stage' \in [Mutants -> Stages]
  /\ \A m \in Mutants :
       /\ stage'[m] \in {"none", "done"} <=> stage[m] \in {"none", "done"}
       /\ stage'[m] \in {"register", "leavingWithSlot"}
            <=> stage[m] \in {"register", "leavingWithSlot"}
       /\ stage'[m] \in Producing => stage[m] \in Producing
       /\ stage[m] \in Delivered => stage'[m] \in Delivered

\* A step that changes no stage is quiet if it leaves the slots alone.
LEMMA QuietStage ==
  ASSUME TypeOK, UNCHANGED <<stage, slotVars>>
  PROVE  Quiet
BY DEF Quiet, TypeOK

\* Cancelling the dispatcher claims and frees no slot.
LEMMA QuietCancel ==
  ASSUME TypeOK, CancelDispatcher, UNCHANGED slotVars
  PROVE  Quiet
<1>1. CASE dispatcher = "ended"
  BY <1>1, QuietStage DEF CancelDispatcher
<1>2. CASE dispatcher # "ended"
  <2>1. stage' = [m \in Mutants |-> AfterCancel(stage[m])]
    BY <1>2 DEF CancelDispatcher
  <2>2. \A s \in Stages : /\ AfterCancel(s) \in Producing => s \in Producing
                          /\ s \in Delivered => AfterCancel(s) \in Delivered
    BY DEF AfterCancel, Stages, Producing, Delivered
  <2> QED
    BY <2>1, <2>2, AfterCancelType DEF Quiet, TypeOK
<1> QED
  BY <1>1, <1>2

\* Every step is one of the five, or quiet.
LEMMA SlotSteps ==
  ASSUME TypeOK, [Next]_vars
  PROVE  \/ \E m \in Mutants : Dispatch(m) \/ AcquireBuffer(m) \/ Register(m) \/ Leave(m)
         \/ Release
         \/ Quiet
<1>1. ASSUME NEW m \in Mutants, Task(m), ~AcquireBuffer(m), ~Register(m), ~Leave(m)
      PROVE  Quiet
  <2>1. UNCHANGED slotVars
    BY <1>1 DEF Task, Select, AcquireLock, Refreshed, RefreshFails, Generate,
                GenerateFails, Added, Lineage, SnapshotWritten
  <2>2. PICK s \in Stages, t \in Stages :
          /\ stage[m] = s /\ stage' = [stage EXCEPT ![m] = t]
          /\ s \notin {"none", "done", "register", "leavingWithSlot"}
          /\ t \notin {"none", "done", "register", "leavingWithSlot"}
          /\ t \in Producing => s \in Producing
          /\ s \in Delivered => t \in Delivered
    BY <1>1 DEF Task, Select, AcquireLock, Refreshed, RefreshFails, Generate,
                GenerateFails, Added, Lineage, SnapshotWritten, Goes, Stages,
                Producing, Delivered
  <2> QED
    BY <2>1, <2>2 DEF Quiet, TypeOK
<1>2. ASSUME NEW m \in Mutants, DagFinishes(m) PROVE Quiet
  BY <1>2, QuietStage DEF DagFinishes
<1>3. CASE DispatcherStops \/ DispatcherEnds
  BY <1>3, QuietStage, QuietCancel DEF DispatcherStops, DispatcherEnds, taskVars
<1>4. CASE Poll /\ ~Release
  BY <1>4, QuietStage DEF Poll, PollStart, PollRead, PollFails, Discard, IngestorQuits,
                          Accept, Refuse, AddRaises, taskVars
<1>5. CASE Run
  BY <1>5, QuietStage, QuietCancel DEF Run, FirstLoopEnded, Reaped, DispatcherDown,
                                       SweepEnds, taskVars
<1>6. CASE Stop
  <2>1. /\ UNCHANGED slotVars
        /\ CancelDispatcher \/ UNCHANGED <<dispatcher, stage>>
    BY <1>6 DEF Stop
  <2> QED
    BY <2>1, QuietStage, QuietCancel
<1>7. CASE UNCHANGED vars
  BY <1>7, QuietStage DEF vars, taskVars
<1> QED
  BY <1>1, <1>2, <1>3, <1>4, <1>5, <1>6, <1>7 DEF Next, Dispatcher

\* A quiet step leaves the sets of slot holders as they are.
LEMMA QuietSets ==
  ASSUME Quiet
  PROVE  Live' = Live /\ Claiming' = Claiming /\ Undelivered' \subseteq Undelivered
BY DEF Quiet, Live, Claiming, Undelivered

\* What the five actions do to the sets of slot holders.
LEMMA SlotSets ==
  ASSUME TypeOK, NEW m \in Mutants
  PROVE  /\ Dispatch(m) => /\ Live' = Live \cup {m} /\ m \notin Live
                           /\ Claiming' = Claiming
                           /\ Undelivered' = Undelivered \cup {m}
         /\ AcquireBuffer(m) => /\ Live' = Live
                                /\ Claiming' = Claiming \cup {m} /\ m \notin Claiming
                                /\ Undelivered' = Undelivered
         /\ Register(m) => /\ Live' = Live /\ m \in Live
                           /\ Claiming' = Claiming \ {m} /\ m \in Claiming
                           /\ Undelivered' = Undelivered \ {m} /\ m \in Undelivered
         /\ Leave(m) => /\ Live' = Live \ {m} /\ m \in Live
                        /\ Claiming' = Claiming \ {m}
                        /\ m \in Claiming <=> stage[m] = "leavingWithSlot"
                        /\ Undelivered' = Undelivered
<1> USE DEF TypeOK, Live, Claiming, Undelivered, Producing, Stages, Goes
<1>1. Dispatch(m) => /\ Live' = Live \cup {m} /\ m \notin Live
                     /\ Claiming' = Claiming
                     /\ Undelivered' = Undelivered \cup {m}
  BY DEF Dispatch
<1>2. AcquireBuffer(m) => /\ Live' = Live
                          /\ Claiming' = Claiming \cup {m} /\ m \notin Claiming
                          /\ Undelivered' = Undelivered
  BY DEF AcquireBuffer
<1>3. Register(m) => /\ Live' = Live /\ m \in Live
                     /\ Claiming' = Claiming \ {m} /\ m \in Claiming
                     /\ Undelivered' = Undelivered \ {m} /\ m \in Undelivered
  BY DEF Register
<1>4. Leave(m) => /\ Live' = Live \ {m} /\ m \in Live
                  /\ Claiming' = Claiming \ {m}
                  /\ m \in Claiming <=> stage[m] = "leavingWithSlot"
                  /\ Undelivered' = Undelivered
  BY DEF Leave
<1> QED
  BY <1>1, <1>2, <1>3, <1>4

-----------------------------------------------------------------------------
(* The invariants of the slots. *)

\* "The producer task ALWAYS releases it" (mutant_task.py:9-13): whatever fails
\* or is cancelled, however often, every producer slot is free or held by one
\* live task.
THEOREM ProducerSlots == Spec => []ProducerSlotsConserved
<1>1. Init => ProducerSlotsConserved
  <2>1. Init => Live = {} /\ producerSema = MaxInFlight
    BY DEF Init, Live
  <2> QED
    BY <2>1, FS_EmptySet, EngineAssumption DEF EngineAssumption, ProducerSlotsConserved
<1>2. TypeOK /\ ProducerSlotsConserved /\ [Next]_vars => ProducerSlotsConserved'
  <2> SUFFICES ASSUME TypeOK, ProducerSlotsConserved, [Next]_vars
               PROVE  ProducerSlotsConserved'
    OBVIOUS
  <2> USE DEF ProducerSlotsConserved
  <2>1. IsFiniteSet(Live) /\ Cardinality(Live) \in Nat /\ producerSema \in Nat
    BY MutantSets DEF Live, TypeOK
  <2>2. ASSUME NEW m \in Mutants, Dispatch(m) PROVE ProducerSlotsConserved'
    <3>1. Cardinality(Live') = Cardinality(Live) + 1
      BY <2>1, <2>2, SlotSets, FS_AddElement
    <3> QED
      BY <2>1, <2>2, <3>1 DEF Dispatch
  <2>3. ASSUME NEW m \in Mutants, Leave(m) PROVE ProducerSlotsConserved'
    <3>1. Cardinality(Live') = Cardinality(Live) - 1
      BY <2>1, <2>3, SlotSets, FS_RemoveElement
    <3> QED
      BY <2>1, <2>3, <3>1 DEF Leave
  <2>4. ASSUME NEW m \in Mutants, AcquireBuffer(m) \/ Register(m)
        PROVE  ProducerSlotsConserved'
    BY <2>4, SlotSets DEF AcquireBuffer, Register
  <2>5. CASE Release
    BY <2>5 DEF Release, Live
  <2>6. CASE Quiet
    BY <2>6, QuietSets DEF Quiet, slotVars
  <2> QED
    BY <2>2, <2>3, <2>4, <2>5, <2>6, SlotSteps
<1> QED
  BY <1>1, <1>2, TypeCorrect, PTL DEF Spec

\* A child in flight is out of its task's hands: a slot has one owner only.
HandedOver == \A m \in inFlight : stage[m] \in Delivered

\* The buffer slots are counted right, and each has one owner.
BufferInv == BufferSlotsConserved /\ HandedOver

\* The count of the buffer slots needs to know that no child is registered twice.
LEMMA BufferInvariant == Spec => []BufferInv
<1>1. Init => BufferInv
  <2>1. Init => inFlight = {} /\ Claiming = {} /\ bufferSema = MaxInFlight
    BY DEF Init, Claiming
  <2> QED
    BY <2>1, FS_EmptySet, EngineAssumption
    DEF EngineAssumption, BufferInv, BufferSlotsConserved, HandedOver, Claiming
<1>2. TypeOK /\ BufferInv /\ [Next]_vars => BufferInv'
  <2> SUFFICES ASSUME TypeOK, BufferInv, [Next]_vars PROVE BufferInv'
    OBVIOUS
  <2>1. /\ IsFiniteSet(inFlight) /\ Cardinality(inFlight) \in Nat
        /\ IsFiniteSet(Claiming) /\ Cardinality(Claiming) \in Nat
        /\ bufferSema \in Nat
    BY MutantSets DEF Claiming, TypeOK
  <2>2. bufferSema + Cardinality(inFlight) + Cardinality(Claiming) = MaxInFlight
    BY DEF BufferInv, BufferSlotsConserved, Claiming
  <2>3. SUFFICES
          /\ bufferSema' + Cardinality(inFlight') + Cardinality(Claiming') = MaxInFlight
          /\ HandedOver'
    BY DEF BufferInv, BufferSlotsConserved, Claiming
  <2> USE DEF HandedOver, BufferInv, Delivered
  <2>4. ASSUME NEW m \in Mutants, Dispatch(m)
        PROVE  UNCHANGED <<bufferSema, inFlight, Claiming>> /\ HandedOver'
    BY <2>4, SlotSets DEF Dispatch, Goes, TypeOK
  <2>5. ASSUME NEW m \in Mutants, AcquireBuffer(m)
        PROVE  /\ bufferSema' = bufferSema - 1 /\ UNCHANGED inFlight
               /\ Cardinality(Claiming') = Cardinality(Claiming) + 1
               /\ HandedOver'
    <3>1. Claiming' = Claiming \cup {m} /\ m \notin Claiming
      BY <2>5, SlotSets
    <3>2. Cardinality(Claiming') = Cardinality(Claiming) + 1
      BY <2>1, <3>1, FS_AddElement
    <3>3. HandedOver'
      BY <2>5 DEF AcquireBuffer, Goes, TypeOK
    <3> QED
      BY <2>5, <3>2, <3>3 DEF AcquireBuffer
  <2>6. ASSUME NEW m \in Mutants, Register(m)
        PROVE  /\ UNCHANGED bufferSema
               /\ Cardinality(inFlight') = Cardinality(inFlight) + 1
               /\ Cardinality(Claiming') = Cardinality(Claiming) - 1
               /\ HandedOver'
    <3>1. stage[m] = "register" /\ m \notin inFlight /\ inFlight' = inFlight \cup {m}
      BY <2>6 DEF Register, Goes
    <3>2. HandedOver' /\ UNCHANGED bufferSema
      BY <2>6 DEF Register, Goes, TypeOK
    <3>3. Cardinality(inFlight') = Cardinality(inFlight) + 1
      BY <2>1, <3>1, FS_AddElement
    <3>4. Claiming' = Claiming \ {m} /\ m \in Claiming
      BY <2>6, SlotSets
    <3>5. Cardinality(Claiming') = Cardinality(Claiming) - 1
      BY <2>1, <3>4, FS_RemoveElement
    <3> QED
      BY <3>2, <3>3, <3>5
  <2>7. ASSUME NEW m \in Mutants, Leave(m)
        PROVE  /\ bufferSema' = IF m \in Claiming THEN bufferSema + 1 ELSE bufferSema
               /\ UNCHANGED inFlight
               /\ Cardinality(Claiming') = IF m \in Claiming
                                           THEN Cardinality(Claiming) - 1
                                           ELSE Cardinality(Claiming)
               /\ HandedOver'
    <3>1. /\ Claiming' = Claiming \ {m}
          /\ m \in Claiming <=> stage[m] = "leavingWithSlot"
      BY <2>7, SlotSets
    <3>2. Cardinality(Claiming') = IF m \in Claiming THEN Cardinality(Claiming) - 1
                                   ELSE Cardinality(Claiming)
      BY <2>1, <3>1, FS_RemoveElement
    <3>3. HandedOver'
      BY <2>7 DEF Leave, TypeOK
    <3> QED
      BY <2>7, <3>1, <3>2, <3>3 DEF Leave
  <2>8. CASE Release
    <3> DEFINE freed == released \cap inFlight
    <3>1. /\ inFlight' = inFlight \ freed /\ UNCHANGED Claiming
          /\ bufferSema' = bufferSema + Cardinality(freed)
          /\ HandedOver'
      BY <2>8 DEF Release, Claiming
    <3>2. Cardinality(inFlight') = Cardinality(inFlight) - Cardinality(freed)
      <4>1. inFlight \cap freed = freed
        OBVIOUS
      <4> QED
        BY <2>1, <3>1, <4>1, FS_Difference
    <3>3. Cardinality(freed) \in Nat
      BY MutantSets DEF TypeOK
    <3> QED
      BY <2>1, <2>2, <3>1, <3>2, <3>3
  <2>9. CASE Quiet
    <3>1. UNCHANGED <<bufferSema, inFlight, Claiming>>
      BY <2>9, QuietSets DEF Quiet, slotVars
    <3>2. HandedOver'
      BY <2>9 DEF Quiet, slotVars, TypeOK
    <3> QED
      BY <2>2, <3>1, <3>2
  <2> QED
    BY <2>1, <2>2, <2>4, <2>5, <2>6, <2>7, <2>8, <2>9, SlotSteps
<1> QED
  BY <1>1, <1>2, TypeCorrect, PTL DEF Spec

\* "Never both, never neither" (mutant_task.py:15-19): every buffer slot is
\* free, held by one task about to register, or owned by one child in flight.
THEOREM BufferSlots == Spec => []BufferSlotsConserved
<1>1. BufferInv => BufferSlotsConserved
  BY DEF BufferInv
<1> QED
  BY <1>1, BufferInvariant, PTL

\* What has been delivered and what is being produced now stay together below
\* the cap plus the producers that may work at once.
CapInv == created + Cardinality(Undelivered) <= MaxMutants + MaxInFlight - 1

\* The stop cap may be overshot by the producers at work when it is reached
\* (the stopper is asked only at dispatch), and by no more.
THEOREM CapBound == Spec => []CapOvershoot
<1>1. Init => CapInv
  <2>1. Init => Undelivered = {} /\ created = 0
    BY DEF Init, Undelivered, Producing
  <2> QED
    BY <2>1, FS_EmptySet, EngineAssumption DEF EngineAssumption, CapInv
<1>2. TypeOK /\ ProducerSlotsConserved /\ CapInv /\ [Next]_vars => CapInv'
  <2> SUFFICES ASSUME TypeOK, ProducerSlotsConserved, CapInv, [Next]_vars
               PROVE  CapInv'
    OBVIOUS
  <2> USE EngineAssumption DEF EngineAssumption, CapInv
  <2>1. /\ IsFiniteSet(Undelivered) /\ Cardinality(Undelivered) \in Nat
        /\ created \in Nat
    BY MutantSets DEF Undelivered, TypeOK
  <2>2. ASSUME NEW m \in Mutants, Dispatch(m) PROVE CapInv'
    <3>1. created' = created /\ created <= MaxMutants - 1
      BY <2>1, <2>2 DEF Dispatch, CapReached
    <3>2. IsFiniteSet(Live) /\ Cardinality(Live) \in Nat
      BY MutantSets DEF Live
    <3>3. Cardinality(Live) <= MaxInFlight - 1
      BY <2>2, <3>2 DEF Dispatch, ProducerSlotsConserved, TypeOK
    <3>4. Undelivered' \subseteq Live \cup {m}
      BY <2>2, SlotSets DEF Undelivered, Live, Producing
    <3>5. IsFiniteSet(Live \cup {m}) /\ Cardinality(Live \cup {m}) <= MaxInFlight
      <4>1. m \notin Live
        BY <2>2, SlotSets
      <4>2. IsFiniteSet(Live \cup {m}) /\ Cardinality(Live \cup {m}) = Cardinality(Live) + 1
        BY <3>2, <4>1, FS_AddElement
      <4> QED
        BY <3>2, <3>3, <4>2
    <3>6. Cardinality(Undelivered') <= Cardinality(Live \cup {m})
      BY <3>4, <3>5, FS_Subset
    <3>7. Cardinality(Live \cup {m}) \in Nat /\ Cardinality(Undelivered') \in Nat
      <4>1. IsFiniteSet(Undelivered')
        BY <3>4, <3>5, FS_Subset
      <4> QED
        BY <3>5, <4>1, FS_CardinalityType
    <3> QED
      BY <2>1, <3>1, <3>5, <3>6, <3>7
  <2>3. ASSUME NEW m \in Mutants, Register(m) PROVE CapInv'
    <3>1. Undelivered' = Undelivered \ {m} /\ m \in Undelivered
      BY <2>3, SlotSets
    <3>2. Cardinality(Undelivered') = Cardinality(Undelivered) - 1
      BY <2>1, <3>1, FS_RemoveElement
    <3> QED
      BY <2>1, <2>3, <3>2 DEF Register
  <2>4. ASSUME NEW m \in Mutants, AcquireBuffer(m) \/ Leave(m) PROVE CapInv'
    BY <2>4, SlotSets DEF AcquireBuffer, Leave
  <2>5. CASE Release
    BY <2>5 DEF Release, Undelivered
  <2>6. CASE Quiet
    <3>1. created' = created /\ Undelivered' \subseteq Undelivered
      BY <2>6, QuietSets DEF Quiet, slotVars
    <3>2. /\ Cardinality(Undelivered') <= Cardinality(Undelivered)
          /\ Cardinality(Undelivered') \in Nat
      BY <2>1, <3>1, FS_Subset, FS_CardinalityType
    <3> QED
      BY <2>1, <3>1, <3>2
  <2> QED
    BY <2>2, <2>3, <2>4, <2>5, <2>6, SlotSteps
<1>3. CapInv /\ TypeOK => CapOvershoot
  <2>1. Cardinality(Undelivered) \in Nat
    BY MutantSets DEF Undelivered
  <2> QED
    BY <2>1, EngineAssumption DEF CapInv, TypeOK, CapOvershoot, EngineAssumption
<1> QED
  BY <1>1, <1>2, <1>3, TypeCorrect, ProducerSlots, PTL DEF Spec

-----------------------------------------------------------------------------
(* The engine implements the two-stage pipeline. *)

\* The instance counts as the engine does.
LEMMA SameCardinality == \A S : Pipeline!Cardinality(S) = Cardinality(S)
BY DEF Pipeline!Cardinality, Cardinality

\* Every step of the engine is a step of MutantPipeline or leaves it alone: a
\* producer starts only while fewer than MaxInFlight work and the cap is not
\* reached, and delivers only into a buffer with a free place.
THEOREM Refinement == Spec => PipelineSpec
<1>1. Init => Pipeline!Init
  BY DEF Init, Pipeline!Init, Live
<1>2. TypeOK /\ ProducerSlotsConserved /\ BufferInv /\ [Next]_vars
        => [Pipeline!Next]_<<Live, inFlight, created>>
  <2> SUFFICES ASSUME TypeOK, ProducerSlotsConserved, BufferInv, [Next]_vars
               PROVE  Pipeline!Next \/ UNCHANGED <<Live, inFlight, created>>
    OBVIOUS
  <2> USE EngineAssumption DEF EngineAssumption
  <2>1. ASSUME NEW m \in Mutants, Dispatch(m) PROVE Pipeline!Start(m)
    <3>1. Cardinality(Live) \in Nat
      BY MutantSets DEF Live
    <3>2. Cardinality(Live) < MaxInFlight
      BY <2>1, <3>1 DEF Dispatch, ProducerSlotsConserved, TypeOK
    <3>3. created < MaxMutants
      BY <2>1 DEF Dispatch, CapReached, TypeOK
    <3> QED
      BY <2>1, <3>2, <3>3, SlotSets, SameCardinality DEF Dispatch, Pipeline!Start
  <2>2. ASSUME NEW m \in Mutants, Register(m) PROVE Pipeline!Deliver(m)
    <3>1. m \in Claiming /\ m \in Live /\ Live' = Live
      BY <2>2, SlotSets
    <3>2. m \notin inFlight
      BY <2>2 DEF Register, Goes, BufferInv, HandedOver, Delivered
    <3>3. IsFiniteSet(Claiming) /\ Cardinality(Claiming) \in Nat
          /\ Cardinality(inFlight) \in Nat
      BY MutantSets DEF Claiming, TypeOK
    <3>4. Cardinality(Claiming) # 0
      BY <3>1, <3>3, FS_EmptySet
    <3>5. Cardinality(inFlight) < MaxInFlight
      BY <3>3, <3>4 DEF BufferInv, BufferSlotsConserved, Claiming, TypeOK
    <3> QED
      BY <2>2, <3>1, <3>2, <3>5, SameCardinality DEF Register, Pipeline!Deliver
  <2>3. ASSUME NEW m \in Mutants, Leave(m) PROVE Pipeline!Finish(m)
    BY <2>3, SlotSets DEF Leave, Pipeline!Finish
  <2>4. ASSUME NEW m \in Mutants, AcquireBuffer(m)
        PROVE  UNCHANGED <<Live, inFlight, created>>
    BY <2>4, SlotSets DEF AcquireBuffer
  <2>5. CASE Release
    <3>1. inFlight' = inFlight \ (released \cap inFlight)
          /\ UNCHANGED <<stage, created>>
      BY <2>5 DEF Release
    <3>2. UNCHANGED Live
      BY <3>1 DEF Live
    <3>3. Pipeline!Take
      BY <3>1, <3>2 DEF Pipeline!Take
    <3> QED
      BY <3>3 DEF Pipeline!Next
  <2>6. CASE Quiet
    BY <2>6, QuietSets DEF Quiet, slotVars
  <2> QED
    BY <2>1, <2>2, <2>3, <2>4, <2>5, <2>6, SlotSteps DEF Pipeline!Next
<1> QED
  BY <1>1, <1>2, TypeCorrect, ProducerSlots, BufferInvariant, PTL
  DEF Spec, PipelineSpec, Pipeline!Spec

-----------------------------------------------------------------------------
(* The parent locks and the tickets. *)

lockVars == <<targets, owner, inFlight, tickets>>

\* The stages in which a task holds the locks of all its parents: while it
\* refreshes them and, without coalescing, until its child is registered.
HoldingStages == IF Coalesce THEN {"refresh"}
                 ELSE {"refresh", "llm", "adding", "lineage", "buffer", "register"}

\* Who refreshes, or has a ticket, holds the locks of all its parents.
LocksHeld ==
  \A m \in Mutants :
    stage[m] \in HoldingStages \/ m \in tickets => \A p \in targets[m] : owner[p] = m

\* The locks of a waiting task are below all those it waits for.
LocksOrdered ==
  \A m \in Mutants :
    stage[m] = "locking" =>
      \A p \in Parents : owner[p] = m => \A q \in Missing(m) : p < q

\* A task that has not chosen its parents holds nothing.
NoLocksYet ==
  \A m \in Mutants :
    stage[m] \in {"none", "select"} => \A p \in Parents : owner[p] # m

LockInv == TicketsPaired /\ LocksHeld /\ LocksOrdered /\ NoLocksYet

\* The steps of a mutant task preserve the lock invariant.
LEMMA TaskLocks ==
  ASSUME TypeOK, HandedOver, LockInv, NEW m \in Mutants, Task(m)
  PROVE  LockInv'
<1> USE EngineAssumption DEF EngineAssumption, TypeOK, HandedOver, Delivered, Goes,
        Missing, slotVars, LockInv, TicketsPaired, LocksHeld, LocksOrdered, NoLocksYet,
        Live
<1>1. CASE Select(m)
  BY <1>1 DEF Select, HoldingStages
<1>2. CASE AcquireLock(m)
  <2>1. PICK p \in Missing(m) : /\ \A q \in Missing(m) : p <= q
                                /\ owner[p] = Nobody
                                /\ owner' = [owner EXCEPT ![p] = m]
    BY <1>2 DEF AcquireLock
  <2>2. /\ stage[m] = "locking"
        /\ stage' = [stage EXCEPT ![m] = IF Cardinality(Missing(m)) = 1 THEN "refresh"
                                         ELSE "locking"]
        /\ UNCHANGED <<targets, inFlight, tickets>>
    BY <1>2 DEF AcquireLock
  <2>3. p \in Parents /\ p \in targets[m] /\ p \in Int
    BY <2>1
  <2>4. TicketsPaired'
    BY <2>1, <2>2
  <2>5. LocksHeld'
    <3>1. ASSUME Cardinality(Missing(m)) = 1 PROVE Missing(m) = {p}
      <4>1. IsFiniteSet(Missing(m))
        BY FS_Subset
      <4> QED
        BY <2>1, <3>1, <4>1, FS_Singleton
    <3> SUFFICES ASSUME NEW n \in Mutants, NEW q \in targets[n],
                        stage'[n] \in HoldingStages \/ n \in tickets
                 PROVE  owner'[q] = n
      BY <2>2 DEF HoldingStages
    <3>2. CASE n = m
      <4>1. m \notin tickets
        BY <2>2
      <4>2. Cardinality(Missing(m)) = 1
        BY <2>2, <3>2, <4>1 DEF HoldingStages
      <4> QED
        BY <2>1, <2>3, <3>1, <3>2, <4>2
    <3>3. CASE n # m
      BY <2>1, <2>2, <3>3
    <3> QED
      BY <3>2, <3>3
  <2>6. LocksOrdered'
    <3> SUFFICES ASSUME NEW n \in Mutants, stage'[n] = "locking",
                        NEW a \in Parents, owner'[a] = n,
                        NEW b \in targets[n], owner'[b] # n
                 PROVE  a < b
      BY <2>2
    <3>1. CASE n = m /\ a = p
      <4>1. b \in Missing(m) /\ b # p
        BY <2>1, <2>3, <3>1
      <4>2. p <= b /\ b \in Int
        BY <2>1, <4>1
      <4> HIDE DEF LockInv, Missing, TypeOK, HandedOver
      <4> QED
        BY <2>3, <3>1, <4>1, <4>2
    <3>2. CASE n = m /\ a # p
      <4>1. owner[a] = m /\ b \in Missing(m)
        BY <2>1, <2>3, <3>2
      <4> QED
        BY <2>2, <4>1
    <3>3. CASE n # m
      BY <2>1, <2>2, <2>3, <3>3
    <3> QED
      BY <3>1, <3>2, <3>3
  <2>7. NoLocksYet'
    BY <2>1, <2>2
  <2> QED
    BY <2>4, <2>5, <2>6, <2>7
<1>3. CASE Refreshed(m)
  <2>1. TicketsPaired' /\ LocksOrdered' /\ NoLocksYet'
    BY <1>3 DEF Refreshed, Unlocked
  <2>2. LocksHeld'
    BY <1>3 DEF Refreshed, Unlocked, HoldingStages
  <2> QED
    BY <2>1, <2>2
<1>4. CASE Leave(m)
  <2>1. TicketsPaired' /\ LocksOrdered' /\ NoLocksYet'
    BY <1>4 DEF Leave, Unlocked
  <2>2. LocksHeld'
    BY <1>4 DEF Leave, Unlocked, HoldingStages
  <2> QED
    BY <2>1, <2>2
<1>5. CASE Register(m)
  BY <1>5 DEF Register, HoldingStages
<1>6. CASE RefreshFails(m) \/ GenerateFails(m) \/ Added(m) \/ Lineage(m)
           \/ SnapshotWritten(m) \/ Generate(m) \/ AcquireBuffer(m)
  <2>1. UNCHANGED lockVars
    BY <1>6 DEF RefreshFails, GenerateFails, Added, Lineage, SnapshotWritten, Generate,
                AcquireBuffer, lockVars
  <2>2. PICK s \in Stages, t \in Stages :
          /\ stage[m] = s /\ stage' = [stage EXCEPT ![m] = t]
          /\ s \notin {"none", "select", "done"}
          /\ t \notin {"none", "select", "done", "locking"}
          /\ t \in HoldingStages => s \in HoldingStages
    BY <1>6 DEF RefreshFails, GenerateFails, Added, Lineage, SnapshotWritten, Generate,
                AcquireBuffer, HoldingStages, Stages
  <2> QED
    BY <2>1, <2>2 DEF lockVars
<1> QED
  BY <1>1, <1>2, <1>3, <1>4, <1>5, <1>6 DEF Task

\* Tickets and locks outlive neither their task nor their child, are all held
\* where they must be, and are waited for in the order of the ids.
THEOREM LockInvariant == Spec => []LockInv
<1> USE EngineAssumption DEF EngineAssumption
<1>1. Init => LockInv
  BY DEF Init, LockInv, TicketsPaired, LocksHeld, LocksOrdered, NoLocksYet
<1>2. TypeOK /\ BufferInv /\ LockInv /\ [Next]_vars => LockInv'
  <2> SUFFICES ASSUME TypeOK, BufferInv, LockInv, [Next]_vars PROVE LockInv'
    OBVIOUS
  <2>1. HandedOver
    BY DEF BufferInv
  <2> USE DEF LockInv, TicketsPaired, LocksHeld, LocksOrdered, NoLocksYet, Missing, Live
  <2>2. ASSUME NEW m \in Mutants, Task(m) PROVE LockInv'
    BY <2>1, <2>2, TaskLocks
  <2>3. ASSUME NEW m \in Mutants, Dispatch(m) PROVE LockInv'
    BY <2>1, <2>3 DEF Dispatch, Goes, TypeOK, HoldingStages, HandedOver, Delivered
  <2>4. ASSUME CancelDispatcher, UNCHANGED lockVars PROVE LockInv'
    <3>1. CASE dispatcher = "ended"
      BY <2>4, <3>1 DEF CancelDispatcher, lockVars
    <3>2. CASE dispatcher # "ended"
      <4>1. \A m \in Mutants : /\ stage[m] \in Stages /\ stage'[m] = AfterCancel(stage[m])
        BY <2>4, <3>2 DEF CancelDispatcher, TypeOK
      <4>2. \A s \in Stages :
              /\ AfterCancel(s) \in {"none", "done"} <=> s \in {"none", "done"}
              /\ AfterCancel(s) \in {"none", "select"} => s = "none"
              /\ AfterCancel(s) # "locking"
              /\ AfterCancel(s) \in HoldingStages => s \in HoldingStages
        BY DEF AfterCancel, Stages, HoldingStages
      <4> QED
        BY <2>4, <4>1, <4>2 DEF lockVars
    <3> QED
      BY <3>1, <3>2
  <2>5. CASE Release
    <3> DEFINE freed == released \cap inFlight
    <3>1. /\ inFlight' = inFlight \ freed /\ tickets' = tickets \ freed
          /\ owner' = [p \in Parents |-> IF owner[p] \in freed \cap tickets
                                         THEN Nobody ELSE owner[p]]
          /\ UNCHANGED <<stage, targets>>
      BY <2>5 DEF Release
    <3>2. TicketsPaired' /\ LocksOrdered' /\ NoLocksYet'
      BY <3>1 DEF TypeOK
    <3>3. \A m \in Mutants : stage[m] \in HoldingStages => m \notin tickets
      BY <2>1 DEF HoldingStages, HandedOver, Delivered
    <3>4. LocksHeld'
      BY <3>1, <3>3 DEF TypeOK, HoldingStages
    <3> QED
      BY <3>2, <3>4
  <2>6. CASE UNCHANGED <<stage, lockVars>>
    BY <2>6 DEF lockVars, HoldingStages
  <2>7. \/ \E m \in Mutants : Task(m) \/ Dispatch(m)
        \/ CancelDispatcher /\ UNCHANGED lockVars
        \/ Release
        \/ UNCHANGED <<stage, lockVars>>
    <3>1. CASE Stop
      <4>1. /\ CancelDispatcher \/ UNCHANGED <<dispatcher, stage>>
            /\ UNCHANGED lockVars
        BY <3>1 DEF Stop, slotVars, lockVars
      <4> QED
        BY <4>1
    <3>2. CASE Dispatcher \/ Run \/ UNCHANGED vars
      BY <3>2 DEF Dispatcher, DispatcherStops, DispatcherEnds, Run, FirstLoopEnded, Reaped,
                  DispatcherDown, SweepEnds, vars, taskVars, slotVars, lockVars
    <3>3. CASE Poll \/ \E m \in Mutants : DagFinishes(m)
      BY <3>3 DEF Poll, PollStart, PollRead, PollFails, Discard, IngestorQuits, Accept,
                  Refuse, AddRaises, DagFinishes, taskVars, slotVars, lockVars
    <3> QED
      BY <3>1, <3>2, <3>3 DEF Next
  <2> QED
    BY <2>2, <2>3, <2>4, <2>5, <2>6, <2>7
<1> QED
  BY <1>1, <1>2, TypeCorrect, BufferInvariant, PTL DEF Spec

\* "No parent refresh while a child of that parent is in flight"
\* (mutant_task.py:27-28): the ticket of the child and the refreshing task
\* would both hold the parent's lock.
THEOREM RefreshExclusion == Spec => []NoRefreshUnderChild
<1>1. TypeOK /\ LockInv /\ BufferInv => NoRefreshUnderChild
  <2> SUFFICES ASSUME TypeOK, LockInv, BufferInv, NEW m \in Mutants, NEW n \in inFlight,
                      ~Coalesce, stage[m] = "refresh",
                      NEW p \in targets[m] \cap targets[n]
               PROVE  FALSE
    BY DEF NoRefreshUnderChild
  <2>1. owner[p] = m
    BY DEF LockInv, LocksHeld, HoldingStages
  <2>2. owner[p] = n
    BY DEF TypeOK, LockInv, LocksHeld, TicketsPaired
  <2> QED
    BY <2>1, <2>2 DEF BufferInv, HandedOver, Delivered
<1> QED
  BY <1>1, LockInvariant, BufferInvariant, TypeCorrect, PTL

\* Lock waits go from larger ids to smaller ones, so they form no cycle
\* (refresh.py:98-99).
THEOREM LockOrder == Spec => []LockWaitsOrdered
<1>1. TypeOK /\ LockInv => LockWaitsOrdered
  BY DEF TypeOK, LockInv, LocksOrdered, LockWaitsOrdered, Missing
<1> QED
  BY <1>1, LockInvariant, TypeCorrect, PTL

\* The children with a ticket are those in flight, and every lock is held by a
\* live task or under such a ticket.
THEOREM Tickets == Spec => []TicketsPaired
<1>1. LockInv => TicketsPaired
  BY DEF LockInv
<1> QED
  BY <1>1, LockInvariant, PTL

-----------------------------------------------------------------------------
(* Orphans. Before a shutdown nobody is cancelled, so a task leaves a       *)
(* persisted child behind only by registering it.                           *)

\* A task that has not heard from the LLM has no child.
NoChildYet ==
  \A m \in Mutants :
    stage[m] \in {"none", "select", "locking", "refresh", "llm"} => child[m] = "none"

\* A child whose DAG has not finished and whose task has let go of it is in
\* flight.
PassedOn ==
  \A m \in Mutants : /\ stage[m] # "leavingWithSlot"
                     /\ stage[m] \in Delivered /\ child[m] = "active" => m \in inFlight

\* The ingestor handles what has finished, and only a shutdown breaks the
\* chain from a task to the set in flight.
OrphanInv ==
  /\ NoChildYet
  /\ todo \cup rejects \cup released \subseteq Finished
  /\ dispatcher = "loop" => PassedOn

\* The steps of a mutant task keep its child in somebody's hands.
LEMMA TaskPassesOn ==
  ASSUME TypeOK, OrphanInv, NEW m \in Mutants, Task(m)
  PROVE  OrphanInv'
<1> USE DEF TypeOK, OrphanInv, NoChildYet, PassedOn, Finished, Delivered
<1>1. CASE Generate(m)
  BY <1>1 DEF Generate, Goes, slotVars, pollVars, runVars
<1>2. CASE Register(m)
  BY <1>2 DEF Register, Goes, pollVars, runVars
<1>3. CASE ~Generate(m) /\ ~Register(m)
  <2>1. UNCHANGED <<child, pollVars, inFlight, dispatcher>>
    BY <1>3 DEF Task, Select, AcquireLock, Refreshed, RefreshFails, GenerateFails, Added,
                Lineage, AcquireBuffer, SnapshotWritten, Leave, slotVars, runVars
  <2>2. PICK s \in Stages, t \in Stages :
          /\ stage[m] = s /\ stage' = [stage EXCEPT ![m] = t]
          /\ t \in {"none", "select", "locking", "refresh", "llm"}
               => s \in {"none", "select", "locking", "refresh", "llm"}
          /\ t # "leavingWithSlot"
          /\ t \in Delivered
               => s \in {"select", "locking", "refresh", "llm", "leavingWithSlot"} \cup Delivered
    BY <1>3 DEF Task, Select, AcquireLock, Refreshed, RefreshFails, GenerateFails, Added,
                Lineage, AcquireBuffer, SnapshotWritten, Leave, Goes, Stages
  <2> QED
    BY <2>1, <2>2 DEF pollVars
<1> QED
  BY <1>1, <1>2, <1>3

\* The ingestor takes out of flight only what has finished.
LEMMA PollPassesOn ==
  ASSUME TypeOK, OrphanInv, Poll
  PROVE  OrphanInv'
<1> USE DEF TypeOK, OrphanInv, NoChildYet, PassedOn, Finished, taskVars, slotVars, runVars
<1>1. CASE PollStart
  BY <1>1 DEF PollStart
<1>2. CASE PollRead
  BY <1>2 DEF PollRead
<1>3. CASE PollFails
  BY <1>3 DEF PollFails, PollForgets
<1>4. CASE Discard
  <2>1. /\ UNCHANGED <<stage, todo, released, inFlight, dispatcher>> /\ rejects' = {}
        /\ \/ child' = [m \in Mutants |-> IF m \in rejects THEN "discarded" ELSE child[m]]
           \/ UNCHANGED child
    BY <1>4 DEF Discard
  <2>2. \A m \in Mutants :
          /\ stage[m] \in {"none", "select", "locking", "refresh", "llm"}
               => m \notin rejects
          /\ child'[m] = child[m] \/ (m \in rejects /\ child'[m] = "discarded")
    BY <2>1
  <2> QED
    BY <2>1, <2>2
<1>5. CASE Release
  <2>1. /\ inFlight' = inFlight \ released /\ released' = {}
        /\ UNCHANGED <<stage, child, todo, rejects, dispatcher>>
    BY <1>5 DEF Release
  <2>2. \A m \in Mutants : child'[m] = "active" => m \notin released
    BY <2>1
  <2> QED
    BY <2>1, <2>2
<1>6. CASE IngestorQuits
  BY <1>6 DEF IngestorQuits, pollVars
<1>7. CASE \E m \in Mutants : Accept(m) \/ Refuse(m) \/ AddRaises(m)
  BY <1>7 DEF Accept, Refuse, AddRaises
<1> QED
  BY <1>1, <1>2, <1>3, <1>4, <1>5, <1>6, <1>7 DEF Poll

\* All other steps leave the chain alone, or are part of a shutdown.
LEMMA OthersPassOn ==
  ASSUME TypeOK, OrphanInv, [Next]_vars, ~Poll, \A m \in Mutants : ~Task(m)
  PROVE  OrphanInv'
<1>1. ASSUME NEW m \in Mutants, DagFinishes(m) PROVE OrphanInv'
  BY <1>1 DEF DagFinishes, TypeOK, OrphanInv, NoChildYet, PassedOn, Finished, slotVars,
              pollVars, runVars
<1>2. ASSUME NEW m \in Mutants, Dispatch(m) PROVE OrphanInv'
  BY <1>2 DEF Dispatch, Goes, TypeOK, OrphanInv, NoChildYet, PassedOn, Finished, Delivered,
              pollVars, runVars
<1>3. ASSUME CancelDispatcher, UNCHANGED <<child, inFlight>>,
             UNCHANGED pollVars \/ PollForgets
      PROVE  OrphanInv'
  <2>1. dispatcher' # "loop"
    BY <1>3 DEF CancelDispatcher
  <2>2. NoChildYet'
    <3>1. \A s \in Stages :
            AfterCancel(s) \in {"none", "select", "locking", "refresh", "llm"}
              => AfterCancel(s) = s
      BY DEF AfterCancel, Stages
    <3> QED
      BY <1>3, <3>1 DEF CancelDispatcher, OrphanInv, NoChildYet, TypeOK
  <2> QED
    BY <1>3, <2>1, <2>2 DEF OrphanInv, Finished, PollForgets, pollVars
<1>4. ASSUME UNCHANGED <<stage, child, inFlight>>,
             UNCHANGED pollVars \/ PollForgets,
             dispatcher' = "loop" => dispatcher = "loop"
      PROVE  OrphanInv'
  BY <1>4 DEF OrphanInv, NoChildYet, PassedOn, Finished, PollForgets, pollVars
<1>5. CASE Stop
  <2>1. /\ CancelDispatcher \/ UNCHANGED <<dispatcher, stage>>
        /\ UNCHANGED pollVars \/ PollForgets
        /\ UNCHANGED <<child, inFlight>>
    BY <1>5 DEF Stop, slotVars
  <2> QED
    BY <1>3, <1>4, <2>1
<1>6. CASE DispatcherStops \/ DispatcherEnds
  BY <1>3, <1>4, <1>6 DEF DispatcherStops, DispatcherEnds, taskVars, slotVars
<1>7. CASE Run \/ UNCHANGED vars
  <2>1. /\ CancelDispatcher \/ UNCHANGED <<dispatcher, stage>>
        /\ UNCHANGED pollVars \/ PollForgets
        /\ UNCHANGED <<child, inFlight>>
    BY <1>7 DEF Run, FirstLoopEnded, Reaped, DispatcherDown, SweepEnds, CancelIngestor,
                vars, taskVars, slotVars, runVars
  <2> QED
    BY <1>3, <1>4, <2>1
<1> QED
  BY <1>1, <1>2, <1>5, <1>6, <1>7 DEF Next, Dispatcher

\* "Otherwise the program becomes an orphan ghost" (mutation.py:34-37): while
\* the engine dispatches, a program whose DAG has not finished has a live task
\* or is in flight, whatever fails around it. A shutdown may orphan it.
THEOREM NoOrphan == Spec => []NoOrphanWhileDispatching
<1>1. Init => OrphanInv
  BY DEF Init, OrphanInv, NoChildYet, PassedOn, Delivered
<1>2. TypeOK /\ OrphanInv /\ [Next]_vars => OrphanInv'
  BY TaskPassesOn, PollPassesOn, OthersPassOn
<1>3. TypeOK /\ OrphanInv => NoOrphanWhileDispatching
  BY DEF TypeOK, OrphanInv, NoChildYet, PassedOn, Delivered, Live, Stages,
         NoOrphanWhileDispatching
<1> QED
  BY <1>1, <1>2, <1>3, TypeCorrect, PTL DEF Spec
=============================================================================
