--------------------------- MODULE EngineSnapshot ---------------------------
(***************************************************************************)
(* Ordinals and the engine snapshot over stops, crashes and resumes:       *)
(* _write_snapshot and restore_state (gigaevo/evolution/engine/core.py),   *)
(* the ordinals and counters of run_one_mutant (engine/mutant_task.py),    *)
(* the writes of run() and of the ingestor, and how src/run.py starts and  *)
(* resumes a run.                                                          *)
(***************************************************************************)
EXTENDS Naturals, Sequences

CONSTANTS
  Tasks,      \* mutant tasks, each of which makes at most one program
  Seeds,      \* the number of initial programs; they have ordinals 0..Seeds-1
  None,       \* the task has stored no program
  MaxSweeps,  \* bound: sweeps of the ingestor that write the snapshot
  MaxLives    \* bound: how often the process is started

\* What the constants must satisfy.
SnapshotAssumption ==
  /\ {Seeds, MaxSweeps, MaxLives} \subseteq Nat
  /\ None \notin Nat
  /\ Tasks \cap {"start", "final", "ingestor"} = {}

VARIABLES
  stored,    \* the snapshot in Redis
  mirror,    \* self._snapshot
  counter,   \* metrics.iteration, mutations_created, programs_processed
  life,      \* "down", "up", or "stopping"
  stage,     \* stage[t]: where a task stands
  ordinal,   \* ordinal[t]: what it has reserved
  program,   \* program[t]: the ordinal of the program it has stored
  queue,     \* calls of _write_snapshot in the order of its lock, the first
             \* one holding it: the caller and the updates it carries
  lives,     \* counter for the bound
  rough      \* a crash, or a final write that failed, has happened

vars == <<stored, mirror, counter, life, stage, ordinal, program, queue,
          lives, rough>>

Zero == [next |-> 0, mutants |-> 0, processed |-> 0]

\* The mirror with the updates merged in, none of which lowers a counter.
Merged(updates) ==
  [at |-> [f \in DOMAIN Zero |->
             IF f \in DOMAIN updates /\ updates[f] > mirror.at[f]
               THEN updates[f] ELSE mirror.at[f]],
   version |-> mirror.version + 1]

Init ==
  /\ stored = [at |-> Zero, version |-> 0]
  /\ mirror = stored
  /\ counter = Zero
  /\ life = "down"
  /\ stage = [t \in Tasks |-> "new"]
  /\ ordinal = [t \in Tasks |-> None]
  /\ program = [t \in Tasks |-> None]
  /\ queue = <<>>
  /\ lives = 0
  /\ rough = FALSE

Move(t, s) == stage' = [stage EXCEPT ![t] = s]

-----------------------------------------------------------------------------
(* _write_snapshot. The keyword arguments are evaluated when it is called, *)
(* and the call queues for the lock at once: asyncio.Lock is FIFO.         *)

Call(who, updates) == [who |-> who, updates |-> updates]

\* Seeded bug: the mirror follows before Redis confirms.
MirrorFirst ==
  /\ queue # <<>>
  /\ mirror' = Merged(Head(queue).updates)
  /\ \/ stored' = mirror' /\ stage' = [t \in Tasks |->
            IF Head(queue).who = t THEN "done" ELSE stage[t]]
     \/ UNCHANGED <<stored, stage>>
  /\ queue' = Tail(queue)
  /\ life' = IF Head(queue).who = "final" THEN "down" ELSE life
  /\ UNCHANGED <<counter, ordinal, program, lives, rough>>

\* The holder of the lock saves the clamped counters, then the mirror follows.
\* The run's last write ends the process.
Write ==
  /\ queue # <<>>
  /\ LET call == Head(queue)
         image == Merged(call.updates)
     IN
     /\ stored' = image
     /\ mirror' = image
     /\ queue' = Tail(queue)
     /\ stage' = [t \in Tasks |-> IF call.who = t THEN "done" ELSE stage[t]]
     /\ life' = IF call.who = "final" THEN "down" ELSE life
  /\ UNCHANGED <<counter, ordinal, program, lives, rough>>

\* save_run_state raises, or the caller is cancelled in it; Redis may have
\* executed it. The mirror stays. A task ends with the exception, run() with
\* that of its first write, and the one of its last write is suppressed.
WriteFails ==
  /\ queue # <<>>
  /\ LET call == Head(queue)
         image == Merged(call.updates)
     IN
     /\ stored' \in {stored, image}
     /\ queue' = Tail(queue)
     /\ stage' = [t \in Tasks |-> IF call.who = t THEN "failed" ELSE stage[t]]
     /\ life' = IF call.who \in {"start", "final"} THEN "down" ELSE life
     /\ rough' = (rough \/ call.who \in {"start", "final"})
  /\ UNCHANGED <<mirror, counter, ordinal, program, lives>>

-----------------------------------------------------------------------------
(* The life of the process. *)

\* src/run.py: the first process loads the seeds and hands out the ordinal
\* after theirs; a later one restores what the snapshot says. run() writes
\* the snapshot before it starts anything else.
Start ==
  /\ life = "down" /\ lives < MaxLives
  /\ lives' = lives + 1
  /\ life' = "up"
  /\ counter' = IF lives = 0 THEN [Zero EXCEPT !.next = Seeds] ELSE stored.at
  /\ mirror' = IF lives = 0 THEN mirror ELSE stored
  /\ queue' = <<Call("start", counter')>>
  /\ UNCHANGED <<stored, stage, ordinal, program, rough>>

Started == life = "up" /\ \A i \in DOMAIN queue : queue[i].who # "start"

Busy(t) == stage[t] \in {"reserved", "stored", "writing"}

\* run() has ended its loops and their tasks, and writes a last time.
Stop ==
  /\ Started
  /\ life' = "stopping"
  /\ stage' = [t \in Tasks |-> IF Busy(t) THEN "failed" ELSE stage[t]]
  /\ queue' = <<Call("final", counter)>>
  /\ UNCHANGED <<stored, mirror, counter, ordinal, program, lives, rough>>

Crash ==
  /\ life # "down"
  /\ life' = "down"
  /\ rough' = TRUE
  /\ queue' = <<>>
  /\ stage' = [t \in Tasks |-> IF Busy(t) THEN "failed" ELSE stage[t]]
  /\ UNCHANGED <<stored, mirror, counter, ordinal, program, lives>>

-----------------------------------------------------------------------------
(* run_one_mutant. *)

\* Seeded bug: the ordinal is taken when the program is stored.
ReserveOnly(t) ==
  /\ Started /\ stage[t] = "new"
  /\ Move(t, "reserved")
  /\ ordinal' = [ordinal EXCEPT ![t] = counter.next]
  /\ UNCHANGED <<stored, mirror, counter, life, program, queue, lives, rough>>

Reserve(t) ==
  /\ Started /\ stage[t] = "new"
  /\ Move(t, "reserved")
  /\ ordinal' = [ordinal EXCEPT ![t] = counter.next]
  /\ counter' = [counter EXCEPT !.next = @ + 1]
  /\ UNCHANGED <<stored, mirror, life, program, queue, lives, rough>>

\* mutate_single and storage.add; the ordinal is spent if either fails.
Store(t) ==
  /\ life = "up" /\ stage[t] = "reserved"
  /\ \/ Move(t, "stored") /\ program' = [program EXCEPT ![t] = ordinal[t]]
     \/ Move(t, "failed") /\ UNCHANGED program
  /\ UNCHANGED <<stored, mirror, counter, life, ordinal, queue, lives, rough>>

\* Seeded bug: the snapshot records the task's own ordinal as the next one.
CountOwn(t) ==
  /\ life = "up" /\ stage[t] = "stored"
  /\ Move(t, "writing")
  /\ counter' = [counter EXCEPT !.mutants = @ + 1]
  /\ queue' = Append(queue, Call(t, [next |-> ordinal[t],
                                   mutants |-> counter'.mutants]))
  /\ UNCHANGED <<stored, mirror, life, ordinal, program, lives, rough>>

\* Registration in _in_flight (waiting for a buffer slot), and the call.
Count(t) ==
  /\ life = "up" /\ stage[t] = "stored"
  /\ Move(t, "writing")
  /\ counter' = [counter EXCEPT !.mutants = @ + 1]
  /\ queue' = Append(queue, Call(t, [next |-> counter.next,
                                   mutants |-> counter'.mutants]))
  /\ UNCHANGED <<stored, mirror, life, ordinal, program, lives, rough>>

\* The ingestor has handled some programs: it writes its counter alone.
Sweep ==
  /\ Started /\ counter.processed < MaxSweeps
  /\ \A i \in DOMAIN queue : queue[i].who # "ingestor"
  /\ counter' = [counter EXCEPT !.processed = @ + 1]
  /\ queue' = Append(queue, Call("ingestor", [processed |-> counter'.processed]))
  /\ UNCHANGED <<stored, mirror, life, stage, ordinal, program, lives, rough>>

Next ==
  \/ Start \/ Stop \/ Crash \/ Write \/ WriteFails \/ Sweep
  \/ \E t \in Tasks : Reserve(t) \/ Store(t) \/ Count(t)

Spec == Init /\ [][Next]_vars

-----------------------------------------------------------------------------
(* Properties. *)

\* No confirmed write is ever lost: the mirror of a running process is never
\* ahead of Redis and never goes back, over failed writes (of which Redis may
\* have executed some), callers that queue with old values, crashes and
\* resumes ("the mirror is thus always <= Redis", core.py:429). What Redis
\* executed without confirming may still be overwritten by an older value.
ConfirmedKept ==
  [][\A f \in DOMAIN Zero :
        mirror'.at[f] <= stored'.at[f] /\ mirror'.at[f] >= mirror.at[f]]_vars

\* Once the task of a mutant has ended well, the stored snapshot lies beyond
\* its ordinal: whenever the process dies after that, no resumed run hands
\* the ordinal out again.
Covered ==
  \A t \in Tasks :
    stage[t] = "done" => program[t] # None /\ program[t] < stored.at.next

\* As long as nothing crashes and every final write succeeds, no two programs
\* have the same ordinal, seeds included, over any number of stops and
\* resumes, failed mutations and failed writes. (After a crash between
\* storage.add and the write it is false.)
OrdinalsUnique ==
  ~rough =>
    \A t, u \in Tasks :
      program[t] # None =>
        /\ program[t] >= Seeds
        /\ t # u => program[t] # program[u]
=============================================================================
