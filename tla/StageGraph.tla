----------------------------- MODULE StageGraph -----------------------------
(***************************************************************************)
(* One program's stage graph: the scheduling loop of DAG.run               *)
(* (gigaevo/programs/dag/dag.py), the gates of DAGAutomata                 *)
(* (programs/dag/automata.py), Stage.execute (programs/stages/base.py) and *)
(* the cache handlers (programs/stages/cache_handler.py), over several     *)
(* runs of the same program: a first evaluation and the re-evaluations a   *)
(* refresh asks for. The loop runs without suspension from its top to      *)
(* asyncio.wait, so an iteration is one action; the stages are tasks of    *)
(* their own. A stage's inputs are the set of <<producer, output>> pairs,  *)
(* and stand for their hash as well.                                       *)
(***************************************************************************)
EXTENDS Naturals, FiniteSets

CONSTANTS
  Stages,
  Outputs,      \* what a completed stage may produce
  Void,         \* no output: the field is None
  Blueprints,   \* the graphs offered to DAGAutomata.build
  Policy,       \* Policy[s]: "inputs", "never" or "maybe" (its cache handler)
  MaxParallel,  \* max_parallel_stages
  MaxRuns       \* bound: how often the program is evaluated

DataKinds == {"required", "optional"}
Kinds == DataKinds \cup {"success", "failure", "always"}

PENDING == "pending"
RUNNING == "running"
COMPLETED == "completed"
FAILED == "failed"
CANCELLED == "cancelled"
SKIPPED == "skipped"
FINAL_STATES == {COMPLETED, FAILED, CANCELLED, SKIPPED}
StageStates == {PENDING, RUNNING} \cup FINAL_STATES

ASSUME StageAssumption ==
  /\ IsFiniteSet(Stages)
  /\ Void \notin Outputs
  /\ \A g \in Blueprints : g \subseteq Stages \X Kinds \X Stages
  /\ Policy \in [Stages -> {"inputs", "never", "maybe"}]
  /\ MaxParallel \in Nat \ {0}
  /\ MaxRuns \in Nat

VARIABLES
  graph,     \* the topology and the execution-order dependencies
  stored,    \* the stage results in the stored program
  results,   \* program.stage_results of the run's Program object
  pc,        \* where DAG.run stands
  running,   \* the stages with a task in pending_tasks
  launched,  \* launched_this_run
  finished,  \* finished_this_run
  task,      \* task[s]: "none", waiting for "sema", "executing", "done"
  inputs,    \* inputs[s]: the inputs computed for the task of s
  outcome,   \* outcome[s]: what the task of s returned
  runs       \* counter for the bound

locals == <<running, launched, finished, task, inputs, outcome>>
vars == <<graph, stored, results, pc, locals, runs>>

Inputs == SUBSET (Stages \X Outputs)
NoHash == {<<Void, Void>>}   \* the hash field is None
Result == [status: StageStates, output: Outputs \cup {Void},
           hash: Inputs \cup {NoHash}]

Plain(status) == [status |-> status, output |-> Void, hash |-> NoHash]
Pending == Plain(PENDING)
\* The result of an automatic skip carries no hash.
AutoSkip == Plain(SKIPPED)

TypeOK ==
  /\ graph \in Blueprints
  /\ stored \in [Stages -> Result]
  /\ results \in [Stages -> Result]
  /\ pc \in {"idle", "loop", "wait", "over", "cut"}
  /\ running \subseteq Stages /\ launched \subseteq Stages
  /\ finished \subseteq Stages
  /\ task \in [Stages -> {"none", "sema", "executing", "done"}]
  /\ inputs \in [Stages -> Inputs]
  /\ outcome \in [Stages -> Result]
  /\ runs \in 0..MaxRuns

\* DAGValidator: no cycle through data edges and execution-order
\* dependencies taken together. (Unknown names, types and inputs without a
\* provider are not expressible here.)
Acyclic(g) ==
  \E rank \in [Stages -> 1..Cardinality(Stages)] :
    \A e \in g : rank[e[1]] < rank[e[3]]

Init ==
  /\ graph \in {g \in Blueprints : Acyclic(g)}
  /\ stored = [s \in Stages |-> Pending]
  /\ results = stored
  /\ pc = "idle"
  /\ running = {} /\ launched = {} /\ finished = {}
  /\ task = [s \in Stages |-> "none"]
  /\ inputs = [s \in Stages |-> {}]
  /\ outcome = [s \in Stages |-> Pending]
  /\ runs = 0

-----------------------------------------------------------------------------
(* DAGAutomata: the gates. res and fin are the stage results and           *)
(* finished_this_run at the moment of the call.                            *)

\* Seeded bug: the final status of an earlier run counts as well.
FinalizedAnyRun(s, res, fin) == res[s].status \in FINAL_STATES

FinalizedThisRun(s, res, fin) == s \in fin /\ res[s].status \in FINAL_STATES

Expected(kind) ==
  CASE kind \in {"success", "required"} -> {COMPLETED}
    [] kind = "failure" -> {FAILED, CANCELLED, SKIPPED}
    [] kind \in {"always", "optional"} -> FINAL_STATES

Into(s) == {e \in graph : e[3] = s}

\* Seeded bug: a success dependency whose source did not succeed is awaited.
ImpossibleByData(s, res, fin) ==
  \E e \in Into(s) : /\ e[2] # "success"
                     /\ FinalizedThisRun(e[1], res, fin)
                     /\ res[e[1]].status \notin Expected(e[2])

\* GateState.IMPOSSIBLE of one dependency decides, whatever the others say.
Impossible(s, res, fin) ==
  \E e \in Into(s) : /\ FinalizedThisRun(e[1], res, fin)
                     /\ res[e[1]].status \notin Expected(e[2])

Ready(s, res, fin) ==
  \A e \in Into(s) : /\ FinalizedThisRun(e[1], res, fin)
                     /\ res[e[1]].status \in Expected(e[2])

\* build_named_inputs: COMPLETED producers, of this run or of an earlier one.
NamedInputs(s, res) ==
  {<<e[1], res[e[1]].output>> :
     e \in {d \in Into(s) : /\ d[2] \in DataKinds
                            /\ res[d[1]].status = COMPLETED}}

\* Seeded bug: a final result is kept whatever it was computed from.
RerunIfNotFinal(s, res) ==
  IF Policy[s] = "inputs" THEN {res[s].status \notin FINAL_STATES}
  ELSE IF Policy[s] = "never" \/ res[s].status \notin FINAL_STATES THEN {TRUE}
  ELSE BOOLEAN

\* should_rerun: the answers the stage's cache handler may give.
ShouldRerun(s, res) ==
  CASE \/ Policy[s] = "never"
       \/ res[s].status \notin FINAL_STATES -> {TRUE}
    [] Policy[s] = "maybe" /\ res[s].status \in FINAL_STATES -> BOOLEAN
    [] Policy[s] = "inputs" /\ res[s].status \in FINAL_STATES ->
         {res[s].hash # NamedInputs(s, res)}

-----------------------------------------------------------------------------
(* DAG.run. *)

LocalsGone ==
  /\ running' = {} /\ launched' = {} /\ finished' = {}
  /\ task' = [s \in Stages |-> "none"]
  /\ inputs' = [s \in Stages |-> {}]
  /\ outcome' = [s \in Stages |-> Pending]

StartRun ==
  /\ pc = "idle" /\ runs < MaxRuns
  /\ results' = stored
  /\ pc' = "loop"
  /\ runs' = runs + 1
  /\ UNCHANGED <<graph, stored, locals>>

\* get_stages_to_skip.
ToSkip == {s \in Stages \ (running \cup launched \cup finished) :
             Impossible(s, results, finished)}

\* One iteration up to asyncio.wait: the automatic skips; then, with those
\* counted as finished, the stages that are ready, each either taken over
\* from its stored result or launched. What a skip makes impossible in turn
\* is found by the next iteration.
Iterate ==
  LET skipped == [s \in Stages |->
                    IF s \in ToSkip THEN AutoSkip ELSE results[s]]
      fin == finished \cup ToSkip
      ready == {s \in Stages \ (running \cup launched \cup fin) :
                  Ready(s, skipped, fin)}
  IN \E cached \in SUBSET ready :
       LET new == ready \ cached IN
       /\ pc = "loop"
       /\ \A s \in ready : (s \in new) \in ShouldRerun(s, skipped)
       /\ results' = [s \in Stages |->
                        IF s \in new
                        THEN [status |-> RUNNING, output |-> Void,
                              hash |-> skipped[s].hash]
                        ELSE skipped[s]]
       /\ running' = running \cup new
       /\ launched' = launched \cup ToSkip \cup new
       /\ finished' = fin \cup cached
       /\ task' = [s \in Stages |-> IF s \in new THEN "sema" ELSE task[s]]
       /\ inputs' = [s \in Stages |->
                       IF s \in new THEN NamedInputs(s, skipped)
                       ELSE inputs[s]]
       /\ pc' = CASE running' # {} -> "wait"
                  [] running' = {} /\ ToSkip \cup cached # {} -> "loop"
                  [] running' = {} /\ ToSkip \cup cached = {} -> "over"
       /\ UNCHANGED <<graph, stored, outcome, runs>>

\* Seeded bug: a collected stage stays in the running set.
CollectAndKeep ==
  LET ended == {s \in Stages : task[s] = "done"} IN
  /\ pc = "wait" /\ ended # {}
  /\ results' = [s \in Stages |->
                   IF s \in ended THEN outcome[s] ELSE results[s]]
  /\ task' = [s \in Stages |-> IF s \in ended THEN "none" ELSE task[s]]
  /\ finished' = finished \cup ended
  /\ outcome' = [s \in Stages |-> Pending]
  /\ pc' = "loop"
  /\ UNCHANGED <<graph, stored, running, launched, inputs, runs>>

\* asyncio.wait(FIRST_COMPLETED) hands over every task that is done;
\* _process_finished_task stores its result. (A wait that ends after its
\* second without a finished task leads to an iteration that finds nothing.)
Collect ==
  LET ended == {s \in Stages : task[s] = "done"} IN
  /\ pc = "wait" /\ ended # {}
  /\ results' = [s \in Stages |->
                   IF s \in ended THEN outcome[s] ELSE results[s]]
  /\ task' = [s \in Stages |-> IF s \in ended THEN "none" ELSE task[s]]
  /\ running' = running \ ended
  /\ finished' = finished \cup ended
  /\ outcome' = [s \in Stages |-> Pending]
  /\ pc' = "loop"
  /\ UNCHANGED <<graph, stored, launched, inputs, runs>>

\* dag_timeout, or the end of the process: wait_for cancels the loop at its
\* await. The stage tasks are not cancelled, but nobody collects them.
CutShort ==
  /\ pc = "wait"
  /\ pc' = "cut"
  /\ LocalsGone
  /\ UNCHANGED <<graph, stored, results, runs>>

\* The whole program is written, by run's "finally" or, after a normal end,
\* by its caller; or that write fails, or never happens, and the stored
\* program keeps the results of an earlier run.
Persist ==
  /\ pc \in {"over", "cut"}
  /\ stored' \in {results, stored}
  /\ results' = stored'
  /\ pc' = "idle"
  /\ LocalsGone
  /\ UNCHANGED <<graph, runs>>

-----------------------------------------------------------------------------
(* A stage task: _run_stage and Stage.execute. *)

Enter(s) ==
  /\ task[s] = "sema"
  /\ Cardinality({t \in Stages : task[t] = "executing"}) < MaxParallel
  /\ task' = [task EXCEPT ![s] = "executing"]
  /\ UNCHANGED <<graph, stored, results, pc, running, launched, finished,
                 inputs, outcome, runs>>

\* on_complete: InputHashCache stores the hash, with a failure as well.
OnComplete(s) == IF Policy[s] = "inputs" THEN inputs[s] ELSE NoHash

\* What execute returns: an output or a failure (its own timeout, an
\* exception; a SKIPPED result that a stage returns itself keeps its hash too
\* and every gate treats it alike). Or the task is cancelled from inside, and
\* _process_finished_task makes up a result.
Outcomes(s) ==
  [status: {COMPLETED}, output: Outputs, hash: {OnComplete(s)}]
  \cup [status: {FAILED}, output: {Void}, hash: {OnComplete(s)}]
  \cup {Plain(CANCELLED)}

Execute(s) ==
  /\ task[s] = "executing"
  /\ \E r \in Outcomes(s) : outcome' = [outcome EXCEPT ![s] = r]
  /\ task' = [task EXCEPT ![s] = "done"]
  /\ inputs' = [inputs EXCEPT ![s] = {}]
  /\ UNCHANGED <<graph, stored, results, pc, running, launched, finished,
                 runs>>

Scheduler == StartRun \/ Iterate \/ Collect \/ CutShort \/ Persist
Next == Scheduler \/ \E s \in Stages : Enter(s) \/ Execute(s)

Spec == Init /\ [][Next]_vars

\* The loop keeps going; a free place under the semaphore is given to a
\* waiting stage; and every stage has a timeout of its own.
Fairness ==
  /\ WF_vars(Iterate \/ Collect)
  /\ WF_vars(\E s \in Stages : Enter(s))
  /\ WF_vars(\E s \in Stages : Execute(s))

FairSpec == Spec /\ Fairness

-----------------------------------------------------------------------------
(* Properties. *)

\* A run that ends by itself has decided every stage: the scheduler never
\* stops with a stage that neither ran, nor was taken over, nor was skipped
\* (the "unresolved stages" warning of dag.py is never logged), whatever the
\* mixture of failures, skips, cached results and leftovers of a run cut off.
AllDecided == pc = "over" => finished = Stages

\* When a run ends by itself, every result of a stage with the default cache
\* that carries a hash was computed from the outputs its producers have NOW:
\* no run, in whatever order its stages end and whatever an earlier run, cut
\* short and partly written, left behind, takes over a result whose inputs
\* have changed since.
CacheCoherent ==
  pc = "over" =>
    \A s \in Stages :
      Policy[s] = "inputs" =>
        /\ results[s].hash \in {NoHash, NamedInputs(s, results)}
        /\ results[s].status = COMPLETED => results[s].hash # NoHash

\* The run keeps the order its graph promises: no stage runs, or has its old
\* result taken over, before all it depends on is decided in THIS run and
\* allows it; none is skipped without a reason; none is decided twice.
Promise == INSTANCE StageOrder WITH
  fate <- [s \in Stages |->
             IF s \in finished
             THEN IF results[s].status = COMPLETED THEN "completed"
                  ELSE "unsuccessful"
             ELSE IF s \in running THEN "running" ELSE "open"]

KeepsOrder == Promise!Spec

\* A run that began ends, by itself or by its timeout: no graph, failure or
\* cache decision leaves the scheduler waiting for a stage that nobody runs.
RunEnds == (pc = "loop") ~> (pc \in {"over", "cut"})
=============================================================================
