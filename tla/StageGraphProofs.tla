-------------------------- MODULE StageGraphProofs --------------------------
(***************************************************************************)
(* AllDecided, CacheCoherent and KeepsOrder for any stages, any acyclic    *)
(* graph over them, any outputs, cache handlers and number of runs. A      *)
(* stage is launched or taken over only when all it depends on is          *)
(* finished, and a finished result does not change within the run: so the  *)
(* inputs a stage was given are those its producers have at the end. And   *)
(* when nothing is left to do, an undecided stage of the lowest rank would *)
(* be ready, or impossible.                                                *)
(***************************************************************************)
EXTENDS StageGraph, FiniteSetTheorems, WellFoundedInduction, TLAPS

\* A result that says COMPLETED has an output.
Produced(res) ==
  \A s \in Stages : res[s].status = COMPLETED => res[s].output \in Outputs

\* The stages launched in this run are at work or finished, and not both;
\* between two runs nothing of the last one is left but the results.
Shape ==
  /\ running = {s \in Stages : task[s] # "none"}
  /\ running \cap finished = {}
  /\ launched \subseteq running \cup finished
  /\ \A s \in finished : results[s].status \in FINAL_STATES
  /\ \A s \in Stages : task[s] = "done" => outcome[s].status \in FINAL_STATES
  /\ pc \in {"idle", "cut"} => running = {} /\ finished = {}
  /\ pc = "over" => running = {} /\ finished = Stages

\* All that s depends on is finished.
Fed(s) == \A e \in Into(s) : e[1] \in finished

\* Whatever is at work, or finished with a hash, has been fed.
FedFirst ==
  \A s \in Stages :
    /\ s \in running => Fed(s)
    /\ s \in finished => results[s].hash = NoHash \/ Fed(s)

\* The hash of a stage with the default cache is that of its inputs.
Fresh(s, result) ==
  /\ result.hash \in {NoHash, NamedInputs(s, results)}
  /\ result.status = COMPLETED => result.hash # NoHash

Coherent ==
  \A s \in Stages :
    Policy[s] = "inputs" =>
      /\ s \in finished => Fresh(s, results[s])
      /\ task[s] \in {"sema", "executing"} => inputs[s] = NamedInputs(s, results)
      /\ task[s] = "done" => Fresh(s, outcome[s])

GInv ==
  /\ TypeOK
  /\ Acyclic(graph)
  /\ Produced(stored) /\ Produced(results) /\ Produced(outcome)
  /\ Shape
  /\ FedFirst
  /\ Coherent

-----------------------------------------------------------------------------
(* The helpers. *)

\* Of the ranks of some stages one is the lowest.
LEMMA LowestRank ==
  ASSUME NEW S, IsFiniteSet(S), NEW rank \in [S -> Nat],
         NEW T \in SUBSET S, T # {}
  PROVE  \E x \in T : \A y \in T : rank[x] <= rank[y]
<1> DEFINE Below(x) == {z \in S : rank[z] < rank[x]}
           Belows == {Below(x) : x \in T}
<1>1. Belows \in SUBSET (SUBSET S)
  OBVIOUS
<1>2. Belows \subseteq FiniteSubsetsOf(S) /\ Belows # {}
  <2>1. Belows \subseteq FiniteSubsetsOf(S)
    <3> HIDE DEF Belows
    <3> QED
      BY <1>1, FS_FiniteSubsetsOfFinite
  <2>2. PICK x \in T : TRUE
    OBVIOUS
  <2>3. Below(x) \in Belows
    OBVIOUS
  <2> QED
    BY <2>1, <2>3
<1>3. PICK B \in Belows : \A C \in Belows : <<C, B>> \notin StrictSubsetOrdering(S)
  <2> HIDE DEF Belows
  <2> QED
    BY <1>2, FS_StrictSubsetOrderingWellFounded, WFMin
<1>4. PICK x \in T : B = Below(x)
  OBVIOUS
<1>5. ASSUME NEW y \in T, rank[y] < rank[x]
      PROVE  FALSE
  <2>1. Below(y) \subseteq Below(x) /\ y \in Below(x) /\ y \notin Below(y)
    BY <1>5
  <2>2. <<Below(y), Below(x)>> \in StrictSubsetOrdering(S)
    BY <2>1 DEF StrictSubsetOrdering
  <2> QED
    BY <1>3, <1>4, <2>2
<1> QED
  BY <1>5

\* The names of the states are told apart.
LEMMA StateNames ==
  /\ FINAL_STATES = {"completed", "failed", "cancelled", "skipped"}
  /\ PENDING \notin FINAL_STATES /\ RUNNING \notin FINAL_STATES
  /\ COMPLETED \in FINAL_STATES /\ SKIPPED \in FINAL_STATES
  /\ SKIPPED # COMPLETED /\ PENDING # COMPLETED /\ RUNNING # COMPLETED
  /\ FINAL_STATES \subseteq StageStates
BY DEF FINAL_STATES, StageStates, PENDING, RUNNING, COMPLETED, FAILED,
       CANCELLED, SKIPPED

\* Results made without inputs.
LEMMA PlainResults ==
  ASSUME NEW status \in StageStates
  PROVE  /\ Plain(status) \in Result
         /\ Plain(status).status = status
         /\ Plain(status).hash = NoHash
BY DEF Plain, Result

\* A dependency has a source, a kind and a target.
LEMMA Dependencies ==
  ASSUME graph \in Blueprints, NEW e \in graph
  PROVE  e[1] \in Stages /\ e[2] \in Kinds /\ e[3] \in Stages
BY StageAssumption

\* The inputs of a stage are outputs, and never the missing hash.
LEMMA InputsTyped ==
  ASSUME graph \in Blueprints, NEW s \in Stages, NEW res, Produced(res)
  PROVE  NamedInputs(s, res) \in Inputs /\ NamedInputs(s, res) # NoHash
<1>1. ASSUME NEW e \in Into(s), res[e[1]].status = COMPLETED
      PROVE  e[1] \in Stages /\ res[e[1]].output \in Outputs
  BY <1>1, Dependencies DEF Into, Produced
<1>2. NamedInputs(s, res) \in Inputs
  BY <1>1 DEF NamedInputs, Inputs
<1>3. NoHash \notin Inputs
  BY StageAssumption DEF NoHash, Inputs
<1> QED
  BY <1>2, <1>3

\* They are the same as long as the results of the producers are.
LEMMA InputsSame ==
  ASSUME NEW s, NEW res, NEW other,
         \A e \in Into(s) : res[e[1]] = other[e[1]]
  PROVE  NamedInputs(s, res) = NamedInputs(s, other)
BY DEF NamedInputs

\* What a kind of dependency expects is final, and does not contradict itself.
LEMMA Expectations ==
  ASSUME NEW kind \in Kinds
  PROVE  /\ Expected(kind) \subseteq FINAL_STATES
         /\ \A status \in FINAL_STATES :
              status \in Expected(kind) <=>
                (IF status = COMPLETED THEN "completed" ELSE "unsuccessful")
                  \in Promise!Allows(kind)
BY DEF Kinds, DataKinds, Expected, FINAL_STATES, COMPLETED, FAILED, CANCELLED,
       SKIPPED, Promise!Allows, Promise!Decided

-----------------------------------------------------------------------------
(* The scheduling loop. *)

\* The results after the automatic skips of an iteration.
Skipped == [s \in Stages |-> IF s \in ToSkip THEN AutoSkip ELSE results[s]]

\* What an iteration leaves to be decided.
Undecided == Stages \ (running \cup launched \cup finished \cup ToSkip)

\* When nothing is at work, impossible or ready, every stage is decided.
LEMMA NothingLeft ==
  ASSUME GInv, running = {}, ToSkip = {},
         \A s \in Undecided : ~Ready(s, Skipped, finished \cup ToSkip)
  PROVE  finished = Stages
<1> SUFFICES ASSUME Stages \ finished # {} PROVE FALSE
  BY DEF GInv, TypeOK
<1>1. PICK rank \in [Stages -> 1..Cardinality(Stages)] :
             \A e \in graph : rank[e[1]] < rank[e[3]]
  BY DEF GInv, Acyclic
<1>2. rank \in [Stages -> Nat] /\ IsFiniteSet(Stages)
  BY StageAssumption, FS_CardinalityType
<1>3. PICK x \in Stages \ finished : \A y \in Stages \ finished : rank[x] <= rank[y]
  BY <1>2, LowestRank
<1>4. x \in Undecided /\ Skipped = results /\ finished \cup ToSkip = finished
  BY DEF GInv, TypeOK, Shape, Undecided, Skipped
<1>5. PICK e \in Into(x) :
        ~(FinalizedThisRun(e[1], results, finished)
          /\ results[e[1]].status \in Expected(e[2]))
  BY <1>4 DEF Ready
<1>6. e \in graph /\ e[3] = x /\ e[1] \in Stages
  BY Dependencies DEF Into, GInv, TypeOK
<1>7. e[1] \in finished
  <2>1. rank[e[1]] < rank[x] /\ rank[e[1]] \in Nat /\ rank[x] \in Nat
    BY <1>1, <1>2, <1>6
  <2> QED
    BY <1>3, <1>6, <2>1
<1>8. FinalizedThisRun(e[1], results, finished)
  BY <1>6, <1>7 DEF FinalizedThisRun, GInv, Shape
<1>9. Impossible(x, results, finished)
  BY <1>5, <1>8 DEF Impossible
<1> QED
  BY <1>4, <1>9 DEF Undecided, ToSkip

\* What an iteration does: it skips, takes over and launches.
LEMMA Iteration ==
  ASSUME Iterate
  PROVE  \E cached, new \in SUBSET Undecided :
           /\ cached \cap new = {}
           /\ \A s \in Undecided :
                s \in cached \cup new <=> Ready(s, Skipped, finished \cup ToSkip)
           /\ \A s \in cached : FALSE \in ShouldRerun(s, Skipped)
           /\ results' = [s \in Stages |->
                            IF s \in new
                            THEN [status |-> RUNNING, output |-> Void,
                                  hash |-> Skipped[s].hash]
                            ELSE Skipped[s]]
           /\ running' = running \cup new
           /\ launched' = launched \cup ToSkip \cup new
           /\ finished' = finished \cup ToSkip \cup cached
           /\ task' = [s \in Stages |-> IF s \in new THEN "sema" ELSE task[s]]
           /\ inputs' = [s \in Stages |->
                           IF s \in new THEN NamedInputs(s, Skipped)
                           ELSE inputs[s]]
           /\ pc = "loop"
           /\ pc' \in {"wait", "loop", "over"}
           /\ pc' = "over" => running = {} /\ ToSkip = {} /\ cached = {} /\ new = {}
           /\ UNCHANGED <<graph, stored, outcome, runs>>
<1> DEFINE ready == {s \in Stages \ (running \cup launched \cup (finished \cup ToSkip)) :
                       Ready(s, Skipped, finished \cup ToSkip)}
<1>1. PICK cached \in SUBSET ready :
        /\ pc = "loop"
        /\ \A s \in ready : (s \in ready \ cached) \in ShouldRerun(s, Skipped)
        /\ results' = [s \in Stages |->
                         IF s \in ready \ cached
                         THEN [status |-> RUNNING, output |-> Void,
                               hash |-> Skipped[s].hash]
                         ELSE Skipped[s]]
        /\ running' = running \cup (ready \ cached)
        /\ launched' = launched \cup ToSkip \cup (ready \ cached)
        /\ finished' = (finished \cup ToSkip) \cup cached
        /\ task' = [s \in Stages |-> IF s \in ready \ cached THEN "sema" ELSE task[s]]
        /\ inputs' = [s \in Stages |->
                        IF s \in ready \ cached THEN NamedInputs(s, Skipped)
                        ELSE inputs[s]]
        /\ pc' = CASE running' # {} -> "wait"
                   [] running' = {} /\ ToSkip \cup cached # {} -> "loop"
                   [] running' = {} /\ ToSkip \cup cached = {} -> "over"
        /\ UNCHANGED <<graph, stored, outcome, runs>>
  BY DEF Iterate, Skipped
<1>2. ready \subseteq Undecided
      /\ \A s \in Undecided : s \in ready <=> Ready(s, Skipped, finished \cup ToSkip)
  BY DEF Undecided
<1> HIDE DEF ready
<1>3. pc' \in {"wait", "loop", "over"}
  BY <1>1
<1>4. pc' = "over" => running = {} /\ ToSkip = {} /\ cached = {} /\ ready \ cached = {}
  BY <1>1
<1>5. \A s \in cached : FALSE \in ShouldRerun(s, Skipped)
  <2>1. ASSUME NEW s \in cached PROVE FALSE \in ShouldRerun(s, Skipped)
    <3>1. s \in ready /\ (s \in ready \ cached) = FALSE
      BY <1>1
    <3> QED
      BY <1>1, <3>1
  <2> QED
    BY <2>1
<1>6. cached \in SUBSET Undecided /\ ready \ cached \in SUBSET Undecided
  BY <1>2
<1> USE <1>6
<1> WITNESS cached \in SUBSET Undecided, ready \ cached \in SUBSET Undecided
<1> QED
  BY <1>1, <1>2, <1>3, <1>4, <1>5

\* The results after the skips.
LEMMA SkippedFacts ==
  ASSUME GInv
  PROVE  /\ ToSkip \subseteq Stages /\ ToSkip \cap (running \cup finished) = {}
         /\ Skipped \in [Stages -> Result] /\ Produced(Skipped)
         /\ \A s \in ToSkip : Skipped[s].status = SKIPPED /\ Skipped[s].hash = NoHash
         /\ \A s \in Stages \ ToSkip : Skipped[s] = results[s]
<1>1. ToSkip \subseteq Stages /\ ToSkip \cap (running \cup finished) = {}
  BY DEF ToSkip
<1>2. AutoSkip \in Result /\ AutoSkip.status = SKIPPED /\ AutoSkip.hash = NoHash
  BY StateNames, PlainResults DEF AutoSkip
<1>3. \A s \in Stages : Skipped[s] = IF s \in ToSkip THEN AutoSkip ELSE results[s]
  BY DEF Skipped
<1>4. Skipped \in [Stages -> Result]
  BY <1>2 DEF Skipped, GInv, TypeOK
<1>5. Produced(Skipped)
  BY <1>2, <1>3, StateNames DEF Produced, GInv
<1> QED
  BY <1>1, <1>2, <1>3, <1>4, <1>5

\* A taken-over result is final, and with the default cache that of its inputs.
LEMMA TakenOver ==
  ASSUME NEW s \in Stages, NEW res, FALSE \in ShouldRerun(s, res)
  PROVE  /\ res[s].status \in FINAL_STATES
         /\ Policy[s] = "inputs" => res[s].hash = NamedInputs(s, res)
<1>1. Policy[s] \in {"inputs", "never", "maybe"}
  BY StageAssumption
<1> QED
  BY <1>1 DEF ShouldRerun

LEMMA IterateKeeps ==
  ASSUME GInv, Iterate
  PROVE  GInv'
<1>1. PICK cached, new \in SUBSET Undecided :
        /\ cached \cap new = {}
        /\ \A s \in Undecided :
             s \in cached \cup new <=> Ready(s, Skipped, finished \cup ToSkip)
        /\ \A s \in cached : FALSE \in ShouldRerun(s, Skipped)
        /\ results' = [s \in Stages |->
                         IF s \in new
                         THEN [status |-> RUNNING, output |-> Void,
                               hash |-> Skipped[s].hash]
                         ELSE Skipped[s]]
        /\ running' = running \cup new
        /\ launched' = launched \cup ToSkip \cup new
        /\ finished' = finished \cup ToSkip \cup cached
        /\ task' = [s \in Stages |-> IF s \in new THEN "sema" ELSE task[s]]
        /\ inputs' = [s \in Stages |->
                        IF s \in new THEN NamedInputs(s, Skipped)
                        ELSE inputs[s]]
        /\ pc = "loop"
        /\ pc' \in {"wait", "loop", "over"}
        /\ pc' = "over" => running = {} /\ ToSkip = {} /\ cached = {} /\ new = {}
        /\ UNCHANGED <<graph, stored, outcome, runs>>
  BY Iteration
<1>2. cached \subseteq Stages /\ new \subseteq Stages
      /\ (cached \cup new) \cap (running \cup finished \cup ToSkip) = {}
  BY DEF Undecided
<1>3. /\ \A s \in Stages \ new : results'[s] = Skipped[s]
      /\ \A s \in new : /\ results'[s].status = RUNNING
                        /\ results'[s].output = Void
                        /\ results'[s].hash = Skipped[s].hash
  BY <1>1, <1>2
<1>4. \A s \in finished : s \in Stages /\ results'[s] = results[s]
  BY <1>2, <1>3, SkippedFacts DEF GInv, TypeOK
<1>5. Produced(results)' /\ Produced(stored)' /\ Produced(outcome)'
  <2>1. Produced(results)'
    BY <1>3, SkippedFacts, StateNames DEF Produced
  <2> QED
    BY <1>1, <2>1 DEF GInv, Produced
<1>6. TypeOK'
  <2>1. results' \in [Stages -> Result]
    <3>1. ASSUME NEW s \in Stages PROVE results'[s] \in Result
      <4>1. Skipped[s] \in Result /\ RUNNING \in StageStates
        BY SkippedFacts DEF StageStates
      <4>2. [status |-> RUNNING, output |-> Void, hash |-> Skipped[s].hash] \in Result
        BY <4>1 DEF Result
      <4> QED
        BY <1>1, <4>1, <4>2
    <3> QED
      BY <1>1, <3>1
  <2>2. inputs' \in [Stages -> Inputs]
    BY <1>1, <1>2, SkippedFacts, InputsTyped DEF GInv, TypeOK
  <2>3. task' \in [Stages -> {"none", "sema", "executing", "done"}]
    BY <1>1 DEF GInv, TypeOK
  <2>4. running' \subseteq Stages /\ launched' \subseteq Stages /\ finished' \subseteq Stages
    BY <1>1, <1>2, SkippedFacts DEF GInv, TypeOK
  <2> QED
    BY <1>1, <2>1, <2>2, <2>3, <2>4 DEF GInv, TypeOK
<1>7. Shape'
  <2>1. running' = {s \in Stages : task'[s] # "none"}
    BY <1>1, <1>2 DEF GInv, Shape
  <2>2. running' \cap finished' = {}
    BY <1>1, <1>2, SkippedFacts DEF GInv, Shape
  <2>3. launched' \subseteq running' \cup finished'
    BY <1>1 DEF GInv, Shape
  <2>4. \A s \in finished' : results'[s].status \in FINAL_STATES
    <3>1. \A s \in cached : results'[s].status \in FINAL_STATES
      BY <1>1, <1>2, <1>3, TakenOver
    <3>2. \A s \in ToSkip : results'[s].status \in FINAL_STATES
      BY <1>2, <1>3, SkippedFacts, StateNames
    <3> QED
      BY <1>1, <1>4, <3>1, <3>2 DEF GInv, Shape
  <2>5. \A s \in Stages : task'[s] = "done" => outcome'[s].status \in FINAL_STATES
    BY <1>1 DEF GInv, Shape
  <2>6. pc' = "over" => running' = {} /\ finished' = Stages
    BY <1>1, NothingLeft
  <2> QED
    BY <1>1, <2>1, <2>2, <2>3, <2>4, <2>5, <2>6 DEF Shape
<1>8. \A s : Into(s)' = Into(s)
  BY <1>1 DEF Into
<1>9. \A s \in cached \cup new : \A e \in Into(s) : e[1] \in finished \cup ToSkip
  BY <1>1 DEF Ready, FinalizedThisRun
<1>10. FedFirst'
  <2>1. \A s \in Stages : Fed(s) => Fed(s)'
    BY <1>1, <1>8 DEF Fed
  <2>2. \A s \in cached \cup new : Fed(s)'
    BY <1>1, <1>8, <1>9 DEF Fed
  <2>3. \A s \in ToSkip : results'[s].hash = NoHash
    BY <1>2, <1>3, SkippedFacts
  <2> QED
    BY <1>1, <1>4, <2>1, <2>2, <2>3 DEF FedFirst, GInv
<1>11. Coherent'
  <2>1. ASSUME NEW s \in Stages, Fed(s)
        PROVE  NamedInputs(s, results)' = NamedInputs(s, results)
    <3>1. \A e \in Into(s) : results'[e[1]] = results[e[1]]
      BY <1>4, <2>1 DEF Fed
    <3>2. NamedInputs(s, results)' = NamedInputs(s, results')
      BY <1>8 DEF NamedInputs
    <3> QED
      BY <3>1, <3>2, InputsSame
  <2>2. ASSUME NEW s \in cached \cup new
        PROVE  NamedInputs(s, results)' = NamedInputs(s, Skipped)
    <3>1. \A e \in Into(s) : results'[e[1]] = Skipped[e[1]]
      BY <1>2, <1>3, <1>9, SkippedFacts DEF GInv, TypeOK
    <3>2. NamedInputs(s, results)' = NamedInputs(s, results')
      BY <1>8 DEF NamedInputs
    <3> QED
      BY <3>1, <3>2, InputsSame
  <2>3. ASSUME NEW s \in Stages, Policy[s] = "inputs", s \in finished'
        PROVE  Fresh(s, results[s])'
    <3>1. CASE s \in finished
      <4>1. Fresh(s, results[s]) /\ (results[s].hash = NoHash \/ Fed(s))
        BY <2>3, <3>1 DEF GInv, Coherent, FedFirst
      <4> QED
        BY <1>4, <2>1, <3>1, <4>1 DEF Fresh
    <3>2. CASE s \in ToSkip
      BY <1>2, <1>3, <3>2, SkippedFacts, StateNames DEF Fresh
    <3>3. CASE s \in cached
      <4>1. results'[s] = Skipped[s]
        BY <1>1, <1>3, <3>3
      <4>2. Skipped[s].hash = NamedInputs(s, Skipped)
        BY <1>1, <2>3, <3>3, TakenOver
      <4>3. NamedInputs(s, Skipped) # NoHash
        BY SkippedFacts, InputsTyped DEF GInv, TypeOK
      <4> QED
        BY <2>2, <3>3, <4>1, <4>2, <4>3 DEF Fresh
    <3> QED
      BY <1>1, <2>3, <3>1, <3>2, <3>3
  <2>4. ASSUME NEW s \in Stages, Policy[s] = "inputs",
               task'[s] \in {"sema", "executing"}
        PROVE  inputs'[s] = NamedInputs(s, results)'
    <3>1. CASE s \in new
      BY <1>1, <2>2, <3>1
    <3>2. CASE s \notin new
      <4>1. task[s] \in {"sema", "executing"} /\ inputs'[s] = inputs[s]
        BY <1>1, <2>4, <3>2
      <4>2. Fed(s)
        BY <4>1 DEF GInv, Shape, FedFirst
      <4> QED
        BY <2>1, <2>4, <4>1, <4>2 DEF GInv, Coherent
    <3> QED
      BY <3>1, <3>2
  <2>5. ASSUME NEW s \in Stages, Policy[s] = "inputs", task'[s] = "done"
        PROVE  Fresh(s, outcome[s])'
    <3>1. task[s] = "done" /\ outcome'[s] = outcome[s]
      BY <1>1, <2>5
    <3>2. Fed(s)
      BY <3>1 DEF GInv, Shape, FedFirst
    <3> QED
      BY <2>1, <2>5, <3>1, <3>2 DEF GInv, Coherent, Fresh
  <2> QED
    BY <2>3, <2>4, <2>5 DEF Coherent
<1> QED
  BY <1>1, <1>5, <1>6, <1>7, <1>10, <1>11 DEF GInv, Acyclic

\* The outcomes that are ready to be collected become results, for good.
LEMMA CollectKeeps ==
  ASSUME GInv, Collect
  PROVE  GInv'
<1> DEFINE ended == {s \in Stages : task[s] = "done"}
<1>1. /\ pc = "wait" /\ pc' = "loop"
      /\ results' = [s \in Stages |-> IF s \in ended THEN outcome[s] ELSE results[s]]
      /\ task' = [s \in Stages |-> IF s \in ended THEN "none" ELSE task[s]]
      /\ running' = running \ ended
      /\ finished' = finished \cup ended
      /\ outcome' = [s \in Stages |-> Pending]
      /\ UNCHANGED <<graph, stored, launched, inputs, runs>>
  BY DEF Collect
<1>2. /\ ended \subseteq Stages /\ ended \subseteq running /\ ended \cap finished = {}
      /\ \A s \in ended : task[s] = "done"
  BY DEF GInv, Shape
<1>3. \A s \in Stages : s \notin ended => task[s] # "done"
  OBVIOUS
<1> HIDE DEF ended
<1>4. /\ \A s \in ended : results'[s] = outcome[s]
      /\ \A s \in Stages \ ended : results'[s] = results[s]
  BY <1>1, <1>2
<1>5. \A s \in finished : s \in Stages /\ results'[s] = results[s]
  BY <1>2, <1>4 DEF GInv, TypeOK
<1>6. Pending \in Result /\ Pending.status = PENDING
  BY PlainResults DEF Pending, StageStates
<1>7. TypeOK'
  <2>1. results' \in [Stages -> Result] /\ outcome' \in [Stages -> Result]
    BY <1>1, <1>6 DEF GInv, TypeOK
  <2>2. task' \in [Stages -> {"none", "sema", "executing", "done"}]
    BY <1>1 DEF GInv, TypeOK
  <2> QED
    BY <1>1, <1>2, <2>1, <2>2 DEF GInv, TypeOK
<1>8. Produced(results)' /\ Produced(stored)' /\ Produced(outcome)'
  BY <1>1, <1>4, <1>6, StateNames DEF Produced, GInv
<1>9. Shape'
  <2>1. running' = {s \in Stages : task'[s] # "none"}
    BY <1>1, <1>2 DEF GInv, Shape
  <2>2. \A s \in finished' : results'[s].status \in FINAL_STATES
    BY <1>1, <1>2, <1>4, <1>5 DEF GInv, Shape
  <2>3. \A s \in Stages : task'[s] = "done" => outcome'[s].status \in FINAL_STATES
    BY <1>1, <1>3
  <2>4. launched' \subseteq running' \cup finished' /\ running' \cap finished' = {}
    BY <1>1, <1>2 DEF GInv, Shape
  <2> QED
    BY <1>1, <2>1, <2>2, <2>3, <2>4 DEF Shape
<1>10. \A s : Into(s)' = Into(s) /\ (Fed(s) => Fed(s)')
  BY <1>1 DEF Into, Fed
<1>11. FedFirst'
  BY <1>1, <1>2, <1>5, <1>10 DEF FedFirst, GInv
<1>12. ASSUME NEW s \in Stages, Fed(s)
       PROVE  NamedInputs(s, results)' = NamedInputs(s, results)
  <2>1. \A e \in Into(s) : results'[e[1]] = results[e[1]]
    BY <1>5, <1>12 DEF Fed
  <2>2. NamedInputs(s, results)' = NamedInputs(s, results')
    BY <1>10 DEF NamedInputs
  <2> QED
    BY <2>1, <2>2, InputsSame
<1>13. Coherent'
  <2>1. ASSUME NEW s \in Stages, Policy[s] = "inputs", s \in finished'
        PROVE  Fresh(s, results[s])'
    <3>1. CASE s \in finished
      BY <1>5, <1>12, <2>1, <3>1 DEF GInv, Coherent, FedFirst, Fresh
    <3>2. CASE s \in ended
      <4>1. Fresh(s, outcome[s]) /\ Fed(s)
        BY <1>2, <2>1, <3>2 DEF GInv, Coherent, FedFirst
      <4> QED
        BY <1>4, <1>12, <3>2, <4>1 DEF Fresh
    <3> QED
      BY <1>1, <2>1, <3>1, <3>2
  <2>2. ASSUME NEW s \in Stages, Policy[s] = "inputs",
               task'[s] \in {"sema", "executing"}
        PROVE  inputs'[s] = NamedInputs(s, results)'
    <3>1. task[s] = task'[s] /\ inputs'[s] = inputs[s]
      BY <1>1, <2>2
    <3>2. Fed(s)
      BY <2>2, <3>1 DEF GInv, Shape, FedFirst
    <3> QED
      BY <1>12, <2>2, <3>1, <3>2 DEF GInv, Coherent
  <2>3. \A s \in Stages : task'[s] # "done"
    BY <1>1, <1>3
  <2> QED
    BY <2>1, <2>2, <2>3 DEF Coherent
<1> QED
  BY <1>1, <1>7, <1>8, <1>9, <1>11, <1>13 DEF GInv, Acyclic

\* Outside a run nothing is at work, and nothing finished.
LEMMA OutsideKeeps ==
  ASSUME GInv, StartRun \/ CutShort \/ Persist
  PROVE  GInv'
<1>1. UNCHANGED graph /\ running' = {} /\ finished' = {} /\ launched' = {}
      /\ task' = [s \in Stages |-> "none"]
  <2>1. CASE StartRun
    <3>1. running = {} /\ finished = {} /\ UNCHANGED <<graph, locals>>
      BY <2>1 DEF StartRun, GInv, Shape
    <3>2. task = [s \in Stages |-> "none"]
      BY <3>1 DEF GInv, Shape, TypeOK
    <3> QED
      BY <3>1, <3>2 DEF locals, GInv, Shape
  <2>2. CASE CutShort \/ Persist
    BY <2>2 DEF CutShort, Persist, LocalsGone
  <2> QED
    BY <2>1, <2>2
<1>2. results' \in {results, stored} /\ stored' \in {results, stored}
  BY DEF StartRun, CutShort, Persist
<1>3. inputs' \in [Stages -> Inputs] /\ outcome' \in [Stages -> Result]
      /\ Produced(outcome)'
  <2>1. CASE StartRun
    BY <2>1 DEF StartRun, locals, GInv, TypeOK, Produced
  <2>2. CASE CutShort \/ Persist
    <3>1. inputs' = [s \in Stages |-> {}] /\ outcome' = [s \in Stages |-> Pending]
      BY <2>2 DEF CutShort, Persist, LocalsGone
    <3>2. Pending \in Result /\ Pending.status = PENDING
      BY PlainResults DEF Pending, StageStates
    <3> QED
      BY <3>1, <3>2, StateNames DEF Inputs, Produced
  <2> QED
    BY <2>1, <2>2
<1>4. pc' \in {"loop", "cut", "idle"} /\ runs' \in 0..MaxRuns
  BY StageAssumption DEF StartRun, CutShort, Persist, GInv, TypeOK
<1>5. TypeOK'
  <2>1. task' \in [Stages -> {"none", "sema", "executing", "done"}]
    BY <1>1
  <2> QED
    BY <1>1, <1>2, <1>3, <1>4, <2>1 DEF GInv, TypeOK
<1>6. Produced(results)' /\ Produced(stored)'
  BY <1>2 DEF GInv, Produced
<1>7. Shape' /\ FedFirst' /\ Coherent'
  BY <1>1, <1>4 DEF Shape, FedFirst, Coherent
<1> QED
  BY <1>1, <1>3, <1>5, <1>6, <1>7 DEF GInv, Acyclic

-----------------------------------------------------------------------------
(* The stages. *)

LEMMA EnterKeeps ==
  ASSUME GInv, NEW s \in Stages, Enter(s)
  PROVE  GInv'
<1>1. /\ task[s] = "sema" /\ task' = [task EXCEPT ![s] = "executing"]
      /\ UNCHANGED <<graph, stored, results, pc, running, launched, finished,
                     inputs, outcome, runs>>
  BY DEF Enter
<1>2. /\ task' \in [Stages -> {"none", "sema", "executing", "done"}]
      /\ task'[s] = "executing" /\ \A t \in Stages \ {s} : task'[t] = task[t]
  BY <1>1 DEF GInv, TypeOK
<1>3. TypeOK'
  BY <1>1, <1>2 DEF GInv, TypeOK
<1>4. Shape'
  BY <1>1, <1>2 DEF GInv, Shape
<1>5. FedFirst' /\ Produced(results)' /\ Produced(stored)' /\ Produced(outcome)'
  BY <1>1 DEF GInv, FedFirst, Fed, Into, Produced
<1>6. Coherent'
  BY <1>1, <1>2 DEF GInv, Coherent, Fresh, NamedInputs, Into
<1> QED
  BY <1>1, <1>3, <1>4, <1>5, <1>6 DEF GInv, Acyclic

\* The outcome carries the hash of the inputs the stage was given.
LEMMA ExecuteKeeps ==
  ASSUME GInv, NEW s \in Stages, Execute(s)
  PROVE  GInv'
<1>1. PICK r \in Outcomes(s) : outcome' = [outcome EXCEPT ![s] = r]
  BY DEF Execute
<1>2. /\ task[s] = "executing" /\ task' = [task EXCEPT ![s] = "done"]
      /\ inputs' = [inputs EXCEPT ![s] = {}]
      /\ UNCHANGED <<graph, stored, results, pc, running, launched, finished, runs>>
  BY DEF Execute
<1>3. /\ OnComplete(s) \in Inputs \cup {NoHash}
      /\ Policy[s] = "inputs" => OnComplete(s) = NamedInputs(s, results)
      /\ NamedInputs(s, results) # NoHash
  BY <1>2, InputsTyped DEF GInv, TypeOK, Coherent, OnComplete
<1>4. /\ r \in Result /\ r.status \in FINAL_STATES
      /\ r.hash \in {OnComplete(s), NoHash}
      /\ r.status = COMPLETED => r.output \in Outputs /\ r.hash = OnComplete(s)
  <2>1. CASE r \in [status: {COMPLETED}, output: Outputs, hash: {OnComplete(s)}]
    BY <1>3, <2>1, StateNames DEF Result
  <2>2. CASE r \in [status: {FAILED}, output: {Void}, hash: {OnComplete(s)}]
    BY <1>3, <2>2, StateNames DEF Result, FAILED, COMPLETED
  <2>3. CASE r = Plain(CANCELLED)
    <3>1. CANCELLED \in FINAL_STATES /\ CANCELLED # COMPLETED
      BY StateNames DEF CANCELLED, COMPLETED
    <3> QED
      BY <2>3, <3>1, PlainResults, StateNames
  <2> QED
    BY <2>1, <2>2, <2>3 DEF Outcomes
<1>5. /\ task' \in [Stages -> {"none", "sema", "executing", "done"}]
      /\ task'[s] = "done" /\ \A t \in Stages \ {s} : task'[t] = task[t]
      /\ outcome'[s] = r /\ \A t \in Stages \ {s} : outcome'[t] = outcome[t]
      /\ \A t \in Stages \ {s} : inputs'[t] = inputs[t]
  BY <1>1, <1>2 DEF GInv, TypeOK
<1>6. TypeOK'
  <2>1. outcome' \in [Stages -> Result]
    BY <1>1, <1>4 DEF GInv, TypeOK
  <2>2. inputs' \in [Stages -> Inputs]
    BY <1>2 DEF GInv, TypeOK, Inputs
  <2> QED
    BY <1>2, <1>5, <2>1, <2>2 DEF GInv, TypeOK
<1>7. Shape'
  BY <1>2, <1>4, <1>5 DEF GInv, Shape
<1>8. FedFirst' /\ Produced(results)' /\ Produced(stored)'
  BY <1>2 DEF GInv, FedFirst, Fed, Into, Produced
<1>9. Produced(outcome)'
  BY <1>4, <1>5 DEF GInv, Produced
<1>10. Coherent'
  <2>1. \A t : NamedInputs(t, results)' = NamedInputs(t, results)
    BY <1>2 DEF NamedInputs, Into
  <2>2. Policy[s] = "inputs" => Fresh(s, outcome[s])'
    BY <1>3, <1>4, <1>5, <2>1 DEF Fresh
  <2>3. \A t \in Stages : Fresh(t, results[t]) => Fresh(t, results[t])'
    BY <1>2, <2>1 DEF Fresh
  <2>4. \A t \in Stages \ {s} : Fresh(t, outcome[t]) => Fresh(t, outcome[t])'
    BY <1>5, <2>1 DEF Fresh
  <2> QED
    BY <1>2, <1>5, <2>1, <2>2, <2>3, <2>4 DEF GInv, Coherent
<1> QED
  BY <1>2, <1>6, <1>7, <1>8, <1>9, <1>10 DEF GInv, Acyclic

-----------------------------------------------------------------------------
LEMMA GraphInvariant == Spec => []GInv
<1>1. Init => GInv
  <2> SUFFICES ASSUME Init PROVE GInv
    OBVIOUS
  <2>1. Pending \in Result /\ Pending.status = PENDING
    BY PlainResults DEF Pending, StageStates
  <2>2. /\ stored = [s \in Stages |-> Pending] /\ results = stored
        /\ outcome = stored
    BY DEF Init
  <2>3. graph \in Blueprints /\ Acyclic(graph) /\ 0 \in 0..MaxRuns
    BY StageAssumption DEF Init
  <2>4. TypeOK
    BY <2>1, <2>2, <2>3 DEF Init, TypeOK, Inputs
  <2>5. Produced(stored) /\ Produced(results) /\ Produced(outcome)
    BY <2>1, <2>2, StateNames DEF Produced
  <2>6. Shape /\ FedFirst /\ Coherent
    BY DEF Init, Shape, FedFirst, Coherent
  <2> QED
    BY <2>3, <2>4, <2>5, <2>6 DEF GInv
<1>2. GInv /\ [Next]_vars => GInv'
  <2> SUFFICES ASSUME GInv, [Next]_vars PROVE GInv'
    OBVIOUS
  <2>1. CASE Next
    BY <2>1, IterateKeeps, CollectKeeps, OutsideKeeps, EnterKeeps, ExecuteKeeps
       DEF Next, Scheduler
  <2>2. CASE UNCHANGED vars
    BY <2>2 DEF vars, locals, GInv, TypeOK, Acyclic, Produced, Shape, FedFirst,
                Fed, Coherent, Fresh, NamedInputs, Into
  <2> QED
    BY <2>1, <2>2
<1> QED
  BY <1>1, <1>2, PTL DEF Spec

\* The scheduler never stops with a stage that neither ran, nor was taken over,
\* nor was skipped, whatever fails, is skipped or was left by an earlier run.
THEOREM EveryStageDecided == Spec => []AllDecided
<1>1. GInv => AllDecided
  BY DEF GInv, Shape, AllDecided
<1> QED
  BY <1>1, GraphInvariant, PTL

\* A result that is left at the end of a run belongs to the inputs its stage has
\* then, whatever was taken over from earlier runs.
THEOREM CacheStaysCoherent == Spec => []CacheCoherent
<1>1. GInv => CacheCoherent
  BY DEF GInv, Shape, Coherent, Fresh, CacheCoherent
<1> QED
  BY <1>1, GraphInvariant, PTL

-----------------------------------------------------------------------------
(* The order of a run. *)

\* What StageOrder sees of a stage.
Fate ==
  [s \in Stages |->
     IF s \in finished
     THEN IF results[s].status = COMPLETED THEN "completed" ELSE "unsuccessful"
     ELSE IF s \in running THEN "running" ELSE "open"]

\* After a step, a decided source allows what its status is expected to be, and
\* forbids the rest.
LEMMA Gates ==
  ASSUME GInv, GInv', graph' = graph, NEW e \in graph, e[1] \in finished'
  PROVE  /\ Fate'[e[1]] \in Promise!Decided
         /\ Fate'[e[1]] \in Promise!Allows(e[2]) <=>
              results'[e[1]].status \in Expected(e[2])
<1>1. e[1] \in Stages /\ e[2] \in Kinds
  BY Dependencies DEF GInv, TypeOK
<1>2. results'[e[1]].status \in FINAL_STATES
  BY DEF GInv, Shape
<1> QED
  BY <1>1, <1>2, Expectations DEF Fate, Promise!Decided

\* An iteration skips a stage only when a dependency forbids it, and launches or
\* takes over one only when all of them allow it.
LEMMA IterationAdvances ==
  ASSUME GInv, GInv', Iterate
  PROVE  graph' = graph /\ \A s \in Stages : Fate'[s] = Fate[s] \/ Promise!Moves(s)
<1>1. PICK cached, new \in SUBSET Undecided :
        /\ cached \cap new = {}
        /\ \A s \in Undecided :
             s \in cached \cup new <=> Ready(s, Skipped, finished \cup ToSkip)
        /\ \A s \in cached : FALSE \in ShouldRerun(s, Skipped)
        /\ results' = [s \in Stages |->
                         IF s \in new
                         THEN [status |-> RUNNING, output |-> Void,
                               hash |-> Skipped[s].hash]
                         ELSE Skipped[s]]
        /\ running' = running \cup new
        /\ launched' = launched \cup ToSkip \cup new
        /\ finished' = finished \cup ToSkip \cup cached
        /\ task' = [s \in Stages |-> IF s \in new THEN "sema" ELSE task[s]]
        /\ inputs' = [s \in Stages |->
                        IF s \in new THEN NamedInputs(s, Skipped)
                        ELSE inputs[s]]
        /\ pc = "loop"
        /\ pc' \in {"wait", "loop", "over"}
        /\ pc' = "over" => running = {} /\ ToSkip = {} /\ cached = {} /\ new = {}
        /\ UNCHANGED <<graph, stored, outcome, runs>>
  BY Iteration
<1>2. /\ (cached \cup new) \cap (running \cup finished \cup ToSkip) = {}
      /\ cached \subseteq Stages /\ new \subseteq Stages
  BY DEF Undecided
<1>3. \A s \in Stages \ new : results'[s] = Skipped[s]
  BY <1>1
<1>4. \A s \in finished : s \in Stages /\ results'[s] = results[s] /\ s \in finished'
  BY <1>1, <1>2, <1>3, SkippedFacts DEF GInv, TypeOK
<1>5. ASSUME NEW s \in ToSkip PROVE Promise!Moves(s)
  <2>1. PICK e \in Into(s) : /\ e[1] \in finished
                             /\ results[e[1]].status \notin Expected(e[2])
    BY <1>5 DEF ToSkip, Impossible, FinalizedThisRun
  <2>2. e \in graph /\ e[3] = s /\ e[1] \in finished'
    BY <1>4, <2>1 DEF Into
  <2>3. Fate'[e[1]] \in Promise!Decided \ Promise!Allows(e[2])
    BY <1>1, <1>4, <2>1, <2>2, Gates
  <2>4. Fate[s] = "open"
    BY <1>5, SkippedFacts DEF Fate
  <2>5. Fate'[s] = "unsuccessful"
    BY <1>1, <1>2, <1>3, <1>5, SkippedFacts, StateNames DEF Fate
  <2> QED
    BY <1>1, <2>2, <2>3, <2>4, <2>5
       DEF Promise!Moves, Promise!Forbidden, Fate
<1>6. ASSUME NEW s \in cached \cup new PROVE Promise!Moves(s)
  <2>1. ASSUME NEW e \in graph, e[3] = s
        PROVE  Fate'[e[1]] \in Promise!Allows(e[2])
    <3>1. e \in Into(s) /\ e[1] \in Stages
      BY <2>1, Dependencies DEF Into, GInv, TypeOK
    <3>2. e[1] \in finished \cup ToSkip /\ Skipped[e[1]].status \in Expected(e[2])
      BY <1>1, <1>6, <3>1 DEF Ready, FinalizedThisRun
    <3>3. e[1] \in finished' /\ results'[e[1]] = Skipped[e[1]]
      BY <1>1, <1>2, <1>3, <3>1, <3>2
    <3> QED
      BY <1>1, <2>1, <3>2, <3>3, Gates
  <2>2. Fate[s] = "open" /\ s \in Stages
    BY <1>2, <1>6 DEF Fate
  <2>3. Fate'[s] \in {"running"} \cup Promise!Decided
    BY <1>1, <1>2, <1>6, <2>2 DEF Fate, Promise!Decided
  <2> QED
    BY <1>1, <2>1, <2>2, <2>3 DEF Promise!Moves, Promise!Allowed, Fate
<1>7. ASSUME NEW s \in Stages, s \notin ToSkip, s \notin cached \cup new
      PROVE  Fate'[s] = Fate[s]
  BY <1>1, <1>4, <1>7 DEF Fate
<1> QED
  BY <1>1, <1>5, <1>6, <1>7

LEMMA CollectAdvances ==
  ASSUME GInv, Collect
  PROVE  graph' = graph /\ \A s \in Stages : Fate'[s] = Fate[s] \/ Promise!Moves(s)
<1> DEFINE ended == {s \in Stages : task[s] = "done"}
<1>1. /\ results' = [s \in Stages |-> IF s \in ended THEN outcome[s] ELSE results[s]]
      /\ running' = running \ ended
      /\ finished' = finished \cup ended
      /\ UNCHANGED graph
  BY DEF Collect
<1>2. ended \subseteq running /\ running \cap finished = {}
  BY DEF GInv, Shape
<1> HIDE DEF ended
<1>3. ASSUME NEW s \in Stages \cap ended PROVE Promise!Moves(s)
  <2>1. Fate[s] = "running" /\ Fate'[s] \in Promise!Decided
    BY <1>1, <1>2, <1>3 DEF Fate, Promise!Decided
  <2> QED
    BY <2>1 DEF Promise!Moves, Fate
<1>4. ASSUME NEW s \in Stages \ ended PROVE Fate'[s] = Fate[s]
  BY <1>1, <1>4 DEF Fate
<1> QED
  BY <1>1, <1>3, <1>4

\* The stage graph implements StageOrder: no stage runs or is taken over before
\* what it depends on is decided in this run and allows it, none is skipped
\* without a reason, none is decided twice.
THEOREM OrderKept == Spec => KeepsOrder
<1>1. Init => Promise!Init
  BY DEF Init, Promise!Init
<1>2. GInv /\ GInv' /\ [Next]_vars => [Promise!Next]_<<graph, Fate>>
  <2> SUFFICES ASSUME GInv, GInv', [Next]_vars
               PROVE  [Promise!Next]_<<graph, Fate>>
    OBVIOUS
  <2>1. CASE Iterate \/ Collect
    <3>1. graph' = graph /\ \A s \in Stages : Fate'[s] = Fate[s] \/ Promise!Moves(s)
      BY <2>1, IterationAdvances, CollectAdvances
    <3> QED
      BY <3>1 DEF Promise!Next, Promise!Advance, Fate
  <2>2. CASE CutShort \/ Persist
    <3>1. graph' = graph /\ running' = {} /\ finished' = {}
      BY <2>2 DEF CutShort, Persist, LocalsGone
    <3>2. Promise!Restart
      BY <3>1 DEF Promise!Restart
    <3> QED
      BY <3>1, <3>2 DEF Promise!Next
  <2>3. CASE StartRun
    <3>1. UNCHANGED <<graph, running, finished>> /\ finished = {}
      BY <2>3 DEF StartRun, locals, GInv, Shape
    <3> QED
      BY <3>1 DEF Fate
  <2>4. CASE UNCHANGED vars \/ \E s \in Stages : Enter(s) \/ Execute(s)
    BY <2>4 DEF vars, locals, Enter, Execute, Fate
  <2> QED
    BY <2>1, <2>2, <2>3, <2>4 DEF Next, Scheduler
<1> QED
  BY <1>1, <1>2, GraphInvariant, PTL DEF Spec, KeepsOrder, Promise!Spec, Fate
=============================================================================
