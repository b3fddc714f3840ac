------------------------- MODULE EngineSnapshotProofs -------------------------
(***************************************************************************)
(* Covered, OrdinalsUnique and ConfirmedKept for any tasks, seeds and      *)
(* bounds. The mirror lags behind Redis, and the first and the last write  *)
(* of run() are alone in the queue, so that a process that has ended has   *)
(* written everything it counted; a task waits for one write, which was    *)
(* called with a next ordinal beyond its own; and whichever of the process *)
(* and Redis speaks for the run is beyond every ordinal given out.         *)
(***************************************************************************)
EXTENDS EngineSnapshot, TLAPS

Fields == {"next", "mutants", "processed"}
Counters == [Fields -> Nat]
Image == [at: Counters, version: Nat]

\* What a call of _write_snapshot carries.
Updates == UNION {[fields -> Nat] : fields \in SUBSET Fields}
Calls == [who: Tasks \cup {"start", "final", "ingestor"}, updates: Updates]

TypeOK ==
  /\ stored \in Image /\ mirror \in Image
  /\ counter \in Counters
  /\ life \in {"down", "up", "stopping"}
  /\ stage \in [Tasks -> {"new", "reserved", "stored", "writing", "done", "failed"}]
  /\ ordinal \in [Tasks -> Nat \cup {None}]
  /\ program \in [Tasks -> Nat \cup {None}]
  /\ queue \in Seq(Calls)
  /\ lives \in Nat
  /\ rough \in BOOLEAN

\* The mirror lags behind Redis.
Lags == \A f \in Fields : mirror.at[f] <= stored.at[f]

\* The first write of run() is alone in the queue, and so is the last one.
Queued ==
  /\ life = "down" => queue = <<>>
  /\ life = "stopping" => queue = <<Call("final", counter)>>
  /\ \A i \in 1..Len(queue) :
       /\ queue[i].who = "start" => Len(queue) = 1
       /\ queue[i].who = "final" => life = "stopping"

\* A task at work has an ordinal below the next one, and so have the program
\* it stores and the mirror once its write is done.
Working ==
  \A t \in Tasks :
    /\ Busy(t) => Started /\ ordinal[t] # None /\ ordinal[t] < counter.next
    /\ stage[t] \in {"stored", "writing"} => program[t] = ordinal[t]
    /\ stage[t] = "done" => program[t] # None /\ program[t] < mirror.at.next

\* A task waits for one write, which carries an ordinal beyond its program's.
Waiting ==
  \A i \in 1..Len(queue), t \in Tasks :
    queue[i].who = t =>
      /\ stage[t] = "writing"
      /\ "next" \in DOMAIN queue[i].updates
      /\ program[t] < queue[i].updates.next
      /\ \A j \in 1..Len(queue) : queue[j].who = t => i = j

\* The ordinals given out so far.
Given == {t \in Tasks : ordinal[t] # None}

\* Before the next ordinal to be given out: in the process while there is one,
\* in Redis after its last write.
Ahead == IF life = "down" THEN stored.at.next ELSE counter.next

Spread ==
  /\ \A t \in Tasks : program[t] \in {None, ordinal[t]}
  /\ \A t \in Tasks : stage[t] = "new" => ordinal[t] = None
  /\ lives = 0 => life = "down" /\ Given = {}
  /\ ~rough =>
       /\ lives > 0 => Seeds <= Ahead
       /\ \A t \in Given : Seeds <= ordinal[t] /\ ordinal[t] < Ahead
       /\ \A t, u \in Given : t # u => ordinal[t] # ordinal[u]

SInv == TypeOK /\ Lags /\ Queued /\ Working /\ Waiting /\ Spread

-----------------------------------------------------------------------------
\* What the assumption says, fact by fact.
LEMMA SnapshotConstants ==
  ASSUME SnapshotAssumption
  PROVE  Seeds \in Nat /\ None \notin Nat
         /\ "start" \notin Tasks /\ "final" \notin Tasks /\ "ingestor" \notin Tasks
BY Zenon DEF SnapshotAssumption

\* The counters of the snapshot are Fields.
LEMMA ZeroFields == DOMAIN Zero = Fields /\ Zero \in Counters
BY DEF Zero, Fields, Counters

\* The merged image is one, not below the mirror nor below the updates.
LEMMA MergedFacts ==
  ASSUME mirror \in Image, NEW u \in Updates
  PROVE  /\ Merged(u) \in Image
         /\ \A f \in Fields : /\ Merged(u).at[f] >= mirror.at[f]
                              /\ f \in DOMAIN u => Merged(u).at[f] >= u[f]
<1>1. /\ mirror.at \in [Fields -> Nat] /\ mirror.version \in Nat
  BY DEF Image, Counters
<1>2. \A f \in DOMAIN u : u[f] \in Nat
  BY DEF Updates
<1>3. Merged(u).at = [f \in Fields |-> IF f \in DOMAIN u /\ u[f] > mirror.at[f]
                                        THEN u[f] ELSE mirror.at[f]]
  BY ZeroFields DEF Merged
<1>4. Merged(u).version = mirror.version + 1
  BY DEF Merged
<1>5. Merged(u).at \in Counters
  BY <1>1, <1>2, <1>3 DEF Counters
<1>6. Merged(u) \in Image
  <2>1. Merged(u) = [at |-> Merged(u).at, version |-> Merged(u).version]
    BY DEF Merged
  <2> QED
    BY <1>1, <1>4, <1>5, <2>1 DEF Image
<1>7. ASSUME NEW f \in Fields
      PROVE  /\ Merged(u).at[f] >= mirror.at[f]
             /\ f \in DOMAIN u => Merged(u).at[f] >= u[f]
  BY <1>1, <1>2, <1>3
<1> QED
  BY <1>6, <1>7

\* A call in the queue, and what is left when the first one leaves it.
LEMMA CallFacts ==
  ASSUME NEW w \in Tasks \cup {"start", "final", "ingestor"}, NEW u \in Updates
  PROVE  /\ Call(w, u) \in Calls /\ Call(w, u).who = w /\ Call(w, u).updates = u
BY DEF Call, Calls

\* The first call of the queue, and the calls behind it.
LEMMA QueueFacts ==
  ASSUME queue \in Seq(Calls), queue # <<>>
  PROVE  /\ Len(queue) \in Nat /\ Len(queue) >= 1
         /\ Head(queue) = queue[1] /\ queue[1] \in Calls
         /\ Tail(queue) \in Seq(Calls) /\ Len(Tail(queue)) = Len(queue) - 1
         /\ \A i \in 1..Len(Tail(queue)) :
              i + 1 \in 1..Len(queue) /\ Tail(queue)[i] = queue[i + 1]
OBVIOUS

\* The counters are updates that have a next ordinal.
LEMMA CounterUpdates ==
  ASSUME NEW c \in Counters
  PROVE  /\ c \in Updates /\ "next" \in DOMAIN c /\ c["next"] \in Nat
BY DEF Counters, Updates, Fields

\* Counters have numbers, also after one of them is set.
LEMMA CounterFacts ==
  ASSUME NEW c \in Counters, NEW n \in Nat
  PROVE  /\ c.next \in Nat /\ c.mutants \in Nat /\ c.processed \in Nat
         /\ [c EXCEPT !.next = n] \in Counters /\ [c EXCEPT !.next = n].next = n
         /\ [c EXCEPT !.mutants = n] \in Counters
         /\ [c EXCEPT !.mutants = n].next = c.next
         /\ [c EXCEPT !.mutants = n].mutants = n
         /\ [c EXCEPT !.processed = n] \in Counters
         /\ [c EXCEPT !.processed = n].next = c.next
         /\ [c EXCEPT !.processed = n].processed = n
BY DEF Counters, Fields

\* What a task and the ingestor write are updates.
LEMMA TaskUpdates ==
  ASSUME NEW a \in Nat, NEW b \in Nat
  PROVE  /\ [next |-> a, mutants |-> b] \in Updates
         /\ "next" \in DOMAIN [next |-> a, mutants |-> b]
         /\ [next |-> a, mutants |-> b].next = a
         /\ [processed |-> b] \in Updates
BY DEF Updates, Fields

LEMMA NextField == "next" \in Fields
BY DEF Fields

-----------------------------------------------------------------------------
\* Reserve gives out the next ordinal and moves it on.
LEMMA ReserveKeeps ==
  ASSUME SnapshotAssumption, SInv, NEW t \in Tasks, Reserve(t)
  PROVE  SInv'
<1>1. /\ life = "up" /\ stage[t] = "new" /\ Started
      /\ stage' = [stage EXCEPT ![t] = "reserved"]
      /\ ordinal' = [ordinal EXCEPT ![t] = counter.next]
      /\ UNCHANGED <<stored, mirror, life, program, queue, lives, rough>>
  BY DEF Reserve, Started, Move
<1>2. counter' = [counter EXCEPT !.next = counter.next + 1]
  BY DEF Reserve
<1>3. counter.next \in Nat /\ counter' \in Counters /\ counter'.next = counter.next + 1
  <2>1. counter \in Counters
    BY DEF SInv, TypeOK
  <2>2. counter.next \in Nat
    BY <2>1, CounterFacts
  <2>3. counter.next + 1 \in Nat
    BY <2>2
  <2> QED
    BY <1>2, <2>1, <2>2, <2>3, CounterFacts
<1>4. ordinal'[t] = counter.next /\ \A u \in Tasks \ {t} : ordinal'[u] = ordinal[u]
  BY <1>1 DEF SInv, TypeOK
<1>5. stage'[t] = "reserved" /\ \A u \in Tasks \ {t} : stage'[u] = stage[u]
  BY <1>1 DEF SInv, TypeOK
<1>6. TypeOK'
  BY <1>1, <1>3 DEF SInv, TypeOK
<1>7. Lags' /\ Queued'
  BY <1>1 DEF SInv, Lags, Queued
<1>8. counter.next # None
  BY <1>3, SnapshotConstants
<1>9. Started'
  BY <1>1 DEF Started
<1>10. Working'
  <2>1. ASSUME NEW u \in Tasks
        PROVE  /\ Busy(u)' => ordinal'[u] # None /\ ordinal'[u] < counter'.next
               /\ stage'[u] \in {"stored", "writing"} => program'[u] = ordinal'[u]
               /\ stage'[u] = "done" =>
                    program'[u] # None /\ program'[u] < mirror'.at.next
    <3>1. ordinal[u] \in Nat \cup {None}
      BY DEF SInv, TypeOK
    <3> QED
      BY <1>1, <1>3, <1>4, <1>5, <1>8, <3>1, SnapshotConstants DEF SInv, Working, Busy
  <2> QED
    BY <1>9, <2>1 DEF Working
<1>11. Waiting'
  BY <1>1, <1>5 DEF SInv, Waiting
<1>12. Spread'
  <2>1. /\ \A u \in Tasks : program'[u] \in {None, ordinal'[u]}
        /\ \A u \in Tasks : stage'[u] = "new" => ordinal'[u] = None
    BY <1>1, <1>4, <1>5 DEF SInv, Spread
  <2>2. lives' # 0
    BY <1>1 DEF SInv, Spread
  <2>3. Given' = Given \cup {t} /\ t \notin Given
    BY <1>1, <1>4, <1>8 DEF SInv, Spread, Given
  <2>4. Ahead = counter.next /\ Ahead' = counter.next + 1
    BY <1>1, <1>3 DEF Ahead
  <2>5. \A u \in Given : ordinal[u] \in Nat /\ ordinal'[u] = ordinal[u]
    BY <1>4, <2>3 DEF SInv, TypeOK, Given
  <2>6. ASSUME ~rough'
        PROVE  /\ lives' > 0 => Seeds <= Ahead'
               /\ \A u \in Given' : Seeds <= ordinal'[u] /\ ordinal'[u] < Ahead'
               /\ \A u, v \in Given' : u # v => ordinal'[u] # ordinal'[v]
    <3>1. /\ lives > 0 => Seeds <= Ahead
          /\ \A u \in Given : Seeds <= ordinal[u] /\ ordinal[u] < Ahead
          /\ \A u, v \in Given : u # v => ordinal[u] # ordinal[v]
      BY <1>1, <2>6 DEF SInv, Spread
    <3>2. lives > 0
      BY <1>1, <2>2 DEF SInv, TypeOK
    <3> QED
      BY <1>1, <1>3, <1>4, <2>3, <2>4, <2>5, <3>1, <3>2, SnapshotConstants
  <2> QED
    BY <2>1, <2>2, <2>6 DEF Spread
<1> QED
  BY <1>6, <1>7, <1>10, <1>11, <1>12 DEF SInv

\* No ordinal is given out, and the next one does not go back.
LEMMA SpreadKeeps ==
  ASSUME SInv, ordinal' = ordinal, Ahead \in Nat, Ahead' \in Nat, Seeds \in Nat,
         \A t \in Tasks : program'[t] \in {None, ordinal[t]},
         \A t \in Tasks : stage'[t] = "new" => stage[t] = "new",
         rough \in BOOLEAN, rough => rough',
         lives' = 0 => lives = 0 /\ life' = "down",
         ~rough' => Ahead <= Ahead' /\ (lives' > 0 => Seeds <= Ahead')
  PROVE  Spread'
<1>1. Given' = Given /\ \A t \in Given : ordinal[t] \in Nat
  BY DEF Given, SInv, TypeOK
<1>2. /\ \A t \in Tasks : program'[t] \in {None, ordinal'[t]}
      /\ \A t \in Tasks : stage'[t] = "new" => ordinal'[t] = None
      /\ lives' = 0 => life' = "down" /\ Given' = {}
  BY <1>1 DEF SInv, Spread
<1>3. ASSUME ~rough'
      PROVE  /\ \A t \in Given : Seeds <= ordinal[t] /\ ordinal[t] < Ahead'
             /\ \A t, u \in Given : t # u => ordinal[t] # ordinal[u]
  BY <1>1, <1>3 DEF SInv, Spread
<1> QED
  BY <1>1, <1>2, <1>3 DEF Spread

\* The next ordinal is a number wherever it is kept.
LEMMA AheadNat ==
  ASSUME TypeOK
  PROVE  /\ Ahead \in Nat /\ counter.next \in Nat /\ stored.at.next \in Nat
         /\ mirror.at.next \in Nat
<1>1. stored.at \in Counters /\ mirror.at \in Counters /\ counter \in Counters
  BY DEF TypeOK, Image
<1>2. stored.at.next \in Nat /\ mirror.at.next \in Nat /\ counter.next \in Nat
  BY <1>1, CounterFacts
<1> QED
  BY <1>2 DEF Ahead

\* Store: the program has the ordinal of its task, or there is none.
LEMMA StoreKeeps ==
  ASSUME SnapshotAssumption, SInv, NEW t \in Tasks, Store(t)
  PROVE  SInv'
<1>1. /\ life = "up" /\ stage[t] = "reserved"
      /\ \/ /\ stage' = [stage EXCEPT ![t] = "stored"]
            /\ program' = [program EXCEPT ![t] = ordinal[t]]
         \/ stage' = [stage EXCEPT ![t] = "failed"] /\ program' = program
      /\ UNCHANGED <<stored, mirror, counter, life, ordinal, queue, lives, rough>>
  BY DEF Store, Move
<1>2. /\ \/ stage'[t] = "stored" /\ program'[t] = ordinal[t]
         \/ stage'[t] = "failed" /\ program'[t] = program[t]
      /\ \A u \in Tasks \ {t} : stage'[u] = stage[u] /\ program'[u] = program[u]
  BY <1>1 DEF SInv, TypeOK
<1>3. TypeOK'
  BY <1>1 DEF SInv, TypeOK
<1>4. Lags' /\ Queued'
  BY <1>1 DEF SInv, Lags, Queued
<1>5. Working'
  BY <1>1, <1>2 DEF SInv, Working, Busy, Started
<1>6. Waiting'
  BY <1>1, <1>2 DEF SInv, Waiting
<1>7. Spread'
  <2>1. /\ Ahead' = Ahead /\ Ahead \in Nat /\ rough \in BOOLEAN /\ lives' = lives
        /\ Seeds \in Nat
    BY <1>1, AheadNat, SnapshotConstants DEF Ahead, SInv, TypeOK
  <2>2. \A u \in Tasks : /\ program'[u] \in {None, ordinal[u]}
                         /\ stage'[u] = "new" => stage[u] = "new"
    BY <1>2 DEF SInv, Spread
  <2>3. /\ lives' = 0 => lives = 0 /\ life' = "down"
        /\ ~rough' => Ahead <= Ahead' /\ (lives' > 0 => Seeds <= Ahead')
    BY <1>1, <2>1 DEF SInv, Spread
  <2> QED
    BY <1>1, <2>1, <2>2, <2>3, SpreadKeeps
<1> QED
  BY <1>3, <1>4, <1>5, <1>6, <1>7 DEF SInv

\* A call more in the queue of a running process.
LEMMA AppendFacts ==
  ASSUME queue \in Seq(Calls), NEW c \in Calls, queue' = Append(queue, c)
  PROVE  /\ queue' \in Seq(Calls) /\ Len(queue') = Len(queue) + 1
         /\ Len(queue) \in Nat
         /\ \A i \in 1..Len(queue) : i \in 1..Len(queue') /\ queue'[i] = queue[i]
         /\ queue'[Len(queue')] = c
         /\ \A i \in 1..Len(queue') : i \in 1..Len(queue) \/ i = Len(queue')
OBVIOUS

\* Count: the call is the only one of its task, and beyond its ordinal.
LEMMA CountKeeps ==
  ASSUME SnapshotAssumption, SInv, NEW t \in Tasks, Count(t)
  PROVE  SInv'
<1> DEFINE u == [next |-> counter.next, mutants |-> counter.mutants + 1]
           c == Call(t, u)
<1>1. /\ life = "up" /\ stage[t] = "stored"
      /\ stage' = [stage EXCEPT ![t] = "writing"]
      /\ counter' = [counter EXCEPT !.mutants = counter.mutants + 1]
      /\ UNCHANGED <<stored, mirror, life, ordinal, program, lives, rough>>
  BY DEF Count, Move
<1>2. /\ counter.next \in Nat /\ counter.mutants + 1 \in Nat /\ counter' \in Counters
      /\ counter'.next = counter.next /\ counter'.mutants = counter.mutants + 1
  <2>1. counter \in Counters
    BY DEF SInv, TypeOK
  <2>2. counter.mutants \in Nat
    BY <2>1, CounterFacts
  <2>3. counter.mutants + 1 \in Nat
    BY <2>2
  <2> QED
    BY <1>1, <2>1, <2>3, CounterFacts
<1>3. queue' = Append(queue, c)
  BY <1>2 DEF Count
<1>4. /\ c \in Calls /\ c.who = t /\ "next" \in DOMAIN c.updates
      /\ c.updates.next = counter.next
  <2>1. u \in Updates /\ "next" \in DOMAIN u /\ u.next = counter.next
    BY <1>2, TaskUpdates
  <2> HIDE DEF u
  <2>2. c \in Calls /\ c.who = t /\ c.updates = u
    BY <2>1, CallFacts
  <2> QED
    BY <2>1, <2>2
<1> HIDE DEF c, u
<1>5. queue \in Seq(Calls)
  BY DEF SInv, TypeOK
<1>6. /\ queue' \in Seq(Calls) /\ Len(queue') = Len(queue) + 1
      /\ Len(queue) \in Nat
      /\ \A i \in 1..Len(queue) : i \in 1..Len(queue') /\ queue'[i] = queue[i]
      /\ queue'[Len(queue')] = c
      /\ \A i \in 1..Len(queue') : i \in 1..Len(queue) \/ i = Len(queue')
  BY <1>3, <1>4, <1>5, AppendFacts
<1>7. stage'[t] = "writing" /\ \A v \in Tasks \ {t} : stage'[v] = stage[v]
  BY <1>1 DEF SInv, TypeOK
<1>8. TypeOK'
  BY <1>1, <1>2, <1>6 DEF SInv, TypeOK
<1>9. /\ Started /\ ordinal[t] # None /\ ordinal[t] < counter.next
      /\ program[t] = ordinal[t]
  BY <1>1 DEF SInv, Working, Busy
<1>10. Started'
  <2>1. \A i \in 1..Len(queue) : queue[i].who # "start"
    BY <1>5, <1>9 DEF Started
  <2>2. \A i \in 1..Len(queue') : queue'[i].who # "start"
    BY <1>4, <1>6, <2>1, SnapshotConstants
  <2> QED
    BY <1>1, <1>6, <2>2 DEF Started
<1>11. Queued'
  <2>1. \A i \in 1..Len(queue) : queue[i].who # "start" /\ queue[i].who # "final"
    BY <1>1, <1>5, <1>9 DEF Started, SInv, Queued
  <2> QED
    BY <1>1, <1>4, <1>6, <2>1, SnapshotConstants DEF Queued
<1>12. Lags'
  BY <1>1 DEF SInv, Lags
<1>13. Working'
  BY <1>1, <1>2, <1>7, <1>9, <1>10 DEF SInv, Working, Busy
<1>14. Waiting'
  <2>1. \A i \in 1..Len(queue) : queue[i].who # t
    BY <1>1 DEF SInv, Waiting
  <2> SUFFICES ASSUME NEW i \in 1..Len(queue'), NEW v \in Tasks, queue'[i].who = v
               PROVE  /\ stage'[v] = "writing"
                      /\ "next" \in DOMAIN queue'[i].updates
                      /\ program'[v] < queue'[i].updates.next
                      /\ \A j \in 1..Len(queue') : queue'[j].who = v => i = j
    BY DEF Waiting
  <2>2. CASE i = Len(queue')
    <3>1. v = t
      BY <1>4, <1>6, <2>2
    <3> QED
      BY <1>1, <1>4, <1>6, <1>7, <1>9, <2>1, <2>2, <3>1
  <2>3. CASE i \in 1..Len(queue)
    <3>1. queue[i].who = v /\ v # t /\ queue'[i] = queue[i]
      BY <1>6, <2>1, <2>3
    <3>2. /\ stage[v] = "writing" /\ "next" \in DOMAIN queue[i].updates
          /\ program[v] < queue[i].updates.next
          /\ \A j \in 1..Len(queue) : queue[j].who = v => i = j
      BY <2>3, <3>1 DEF SInv, Waiting
    <3>3. \A j \in 1..Len(queue') : queue'[j].who = v => i = j
      BY <1>4, <1>6, <3>1, <3>2
    <3> QED
      BY <1>1, <1>7, <3>1, <3>2, <3>3
  <2> QED
    BY <1>6, <2>2, <2>3
<1>15. Spread'
  <2>1. /\ Ahead' = Ahead /\ Ahead \in Nat /\ rough \in BOOLEAN /\ lives' = lives
        /\ Seeds \in Nat
    BY <1>1, <1>2, AheadNat, SnapshotConstants DEF Ahead, SInv, TypeOK
  <2>2. \A v \in Tasks : /\ program'[v] \in {None, ordinal[v]}
                         /\ stage'[v] = "new" => stage[v] = "new"
    BY <1>1, <1>7 DEF SInv, Spread
  <2>3. /\ lives' = 0 => lives = 0 /\ life' = "down"
        /\ ~rough' => Ahead <= Ahead' /\ (lives' > 0 => Seeds <= Ahead')
    BY <1>1, <2>1 DEF SInv, Spread
  <2> QED
    BY <1>1, <2>1, <2>2, <2>3, SpreadKeeps
<1> QED
  BY <1>8, <1>11, <1>12, <1>13, <1>14, <1>15 DEF SInv

\* Sweep: the call of the ingestor is no call of a task.
LEMMA SweepKeeps ==
  ASSUME SnapshotAssumption, SInv, Sweep
  PROVE  SInv'
<1> DEFINE u == [processed |-> counter.processed + 1]
           c == Call("ingestor", u)
<1>1. /\ Started /\ life = "up"
      /\ counter' = [counter EXCEPT !.processed = counter.processed + 1]
      /\ UNCHANGED <<stored, mirror, life, stage, ordinal, program, lives, rough>>
  BY DEF Sweep, Started
<1>2. /\ counter.next \in Nat /\ counter.processed + 1 \in Nat /\ counter' \in Counters
      /\ counter'.next = counter.next /\ counter'.processed = counter.processed + 1
  <2>1. counter \in Counters
    BY DEF SInv, TypeOK
  <2>2. counter.processed \in Nat
    BY <2>1, CounterFacts
  <2>3. counter.processed + 1 \in Nat
    BY <2>2
  <2> QED
    BY <1>1, <2>1, <2>3, CounterFacts
<1>3. queue' = Append(queue, c)
  BY <1>2 DEF Sweep
<1>4. c \in Calls /\ c.who = "ingestor"
  <2>1. u \in Updates
    BY <1>2, TaskUpdates
  <2> HIDE DEF u
  <2> QED
    BY <2>1, CallFacts
<1> HIDE DEF c, u
<1>5. queue \in Seq(Calls)
  BY DEF SInv, TypeOK
<1>6. /\ queue' \in Seq(Calls) /\ Len(queue') = Len(queue) + 1
      /\ Len(queue) \in Nat
      /\ \A i \in 1..Len(queue) : i \in 1..Len(queue') /\ queue'[i] = queue[i]
      /\ queue'[Len(queue')] = c
      /\ \A i \in 1..Len(queue') : i \in 1..Len(queue) \/ i = Len(queue')
  BY <1>3, <1>4, <1>5, AppendFacts
<1>7. TypeOK'
  BY <1>1, <1>2, <1>6 DEF SInv, TypeOK
<1>8. Started'
  <2>1. \A i \in 1..Len(queue) : queue[i].who # "start"
    BY <1>1, <1>5 DEF Started
  <2>2. \A i \in 1..Len(queue') : queue'[i].who # "start"
    BY <1>4, <1>6, <2>1
  <2> QED
    BY <1>1, <1>6, <2>2 DEF Started
<1>9. Queued'
  <2>1. \A i \in 1..Len(queue) : queue[i].who # "start" /\ queue[i].who # "final"
    BY <1>1, <1>5 DEF Started, SInv, Queued
  <2> QED
    BY <1>1, <1>4, <1>6, <2>1 DEF Queued
<1>10. Lags'
  BY <1>1 DEF SInv, Lags
<1>11. Working'
  BY <1>1, <1>2, <1>8 DEF SInv, Working, Busy
<1>12. Waiting'
  <2>1. \A t \in Tasks : c.who # t
    BY <1>4, SnapshotConstants
  <2> QED
    BY <1>1, <1>6, <2>1 DEF SInv, Waiting
<1>13. Spread'
  <2>1. /\ Ahead' = Ahead /\ Ahead \in Nat /\ rough \in BOOLEAN /\ lives' = lives
        /\ Seeds \in Nat
    BY <1>1, <1>2, AheadNat, SnapshotConstants DEF Ahead, SInv, TypeOK
  <2>2. \A v \in Tasks : /\ program'[v] \in {None, ordinal[v]}
                         /\ stage'[v] = "new" => stage[v] = "new"
    BY <1>1 DEF SInv, Spread
  <2>3. /\ lives' = 0 => lives = 0 /\ life' = "down"
        /\ ~rough' => Ahead <= Ahead' /\ (lives' > 0 => Seeds <= Ahead')
    BY <1>1, <2>1 DEF SInv, Spread
  <2> QED
    BY <1>1, <2>1, <2>2, <2>3, SpreadKeeps
<1> QED
  BY <1>7, <1>9, <1>10, <1>11, <1>12, <1>13 DEF SInv

\* A queue of one call.
LEMMA SingleFacts ==
  ASSUME NEW w \in {"start", "final"}, NEW u \in Updates, queue' = <<Call(w, u)>>
  PROVE  /\ queue' \in Seq(Calls) /\ Len(queue') = 1
         /\ \A i \in 1..Len(queue') : queue'[i].who = w
<1>1. Call(w, u) \in Calls /\ Call(w, u).who = w
  BY CallFacts
<1> QED
  BY <1>1

\* Start: a resumed process takes its counters over from Redis.
LEMMA StartKeeps ==
  ASSUME SnapshotAssumption, SInv, Start
  PROVE  SInv'
<1>1. /\ life = "down" /\ life' = "up" /\ lives' = lives + 1
      /\ counter' = IF lives = 0 THEN [Zero EXCEPT !.next = Seeds] ELSE stored.at
      /\ mirror' = IF lives = 0 THEN mirror ELSE stored
      /\ queue' = <<Call("start", counter')>>
      /\ UNCHANGED <<stored, stage, ordinal, program, rough>>
  BY DEF Start
<1>2. Seeds \in Nat /\ lives \in Nat
  BY SnapshotConstants DEF SInv, TypeOK
<1>3. counter' \in Counters
  BY <1>1, <1>2, ZeroFields, CounterFacts DEF SInv, TypeOK, Image
<1>4. counter'.next = IF lives = 0 THEN Seeds ELSE stored.at.next
  BY <1>1, <1>2, ZeroFields, CounterFacts
<1>5. /\ queue' \in Seq(Calls) /\ Len(queue') = 1
      /\ \A i \in 1..Len(queue') : queue'[i].who = "start"
  BY <1>1, <1>3, CounterUpdates, SingleFacts
<1>6. TypeOK'
  BY <1>1, <1>2, <1>3, <1>5 DEF SInv, TypeOK
<1>7. Lags'
  <2>1. \A f \in Fields : stored.at[f] \in Nat
    BY DEF SInv, TypeOK, Image, Counters
  <2> QED
    BY <1>1, <2>1 DEF SInv, Lags
<1>8. Queued'
  BY <1>1, <1>5 DEF Queued
<1>9. \A t \in Tasks : ~Busy(t)
  BY <1>1 DEF SInv, Working, Started
<1>10. Working'
  <2>1. mirror.at.next <= stored.at.next
    BY NextField DEF SInv, Lags
  <2>2. mirror'.at.next \in {mirror.at.next, stored.at.next}
    BY <1>1
  <2>3. \A t \in Tasks : ~Busy(t)' /\ stage'[t] \notin {"stored", "writing"}
    BY <1>1, <1>9 DEF Busy
  <2>4. ASSUME NEW t \in Tasks, stage'[t] = "done"
        PROVE  program'[t] # None /\ program'[t] < mirror'.at.next
    <3>1. program[t] # None /\ program[t] < mirror.at.next
      BY <1>1, <2>4 DEF SInv, Working
    <3>2. program[t] \in Nat
      BY <3>1 DEF SInv, TypeOK
    <3> QED
      BY <1>1, <2>1, <2>2, <3>1, <3>2, AheadNat DEF SInv
  <2> QED
    BY <2>3, <2>4 DEF Working
<1>11. Waiting'
  BY <1>5, SnapshotConstants DEF Waiting
<1>12. Spread'
  <2>1. CASE lives = 0
    <3>1. Given = {} /\ Given' = {}
      BY <1>1, <2>1 DEF SInv, Spread, Given
    <3>2. Ahead' = Seeds
      BY <1>1, <1>4, <2>1 DEF Ahead
    <3> QED
      BY <1>1, <1>2, <2>1, <3>1, <3>2 DEF SInv, Spread
  <2>2. CASE lives # 0
    <3>1. /\ Ahead' = Ahead /\ Ahead \in Nat /\ rough \in BOOLEAN
      BY <1>1, <1>4, <2>2, AheadNat DEF Ahead, SInv, TypeOK
    <3>2. lives' # 0 /\ lives > 0
      BY <1>1, <1>2, <2>2
    <3>3. ~rough' => Seeds <= Ahead
      BY <1>1, <3>2 DEF SInv, Spread
    <3>4. \A t \in Tasks : program'[t] \in {None, ordinal[t]}
      BY <1>1 DEF SInv, Spread
    <3> QED
      BY <1>1, <1>2, <3>1, <3>2, <3>3, <3>4, SpreadKeeps
  <2> QED
    BY <2>1, <2>2
<1> QED
  BY <1>6, <1>7, <1>8, <1>10, <1>11, <1>12 DEF SInv

\* Stop: the tasks are cut off, and the last write has all the counters.
LEMMA StopKeeps ==
  ASSUME SnapshotAssumption, SInv, Stop
  PROVE  SInv'
<1>1. /\ life = "up" /\ life' = "stopping"
      /\ stage' = [t \in Tasks |-> IF Busy(t) THEN "failed" ELSE stage[t]]
      /\ queue' = <<Call("final", counter)>>
      /\ UNCHANGED <<stored, mirror, counter, ordinal, program, lives, rough>>
  BY DEF Stop, Started
<1>2. /\ queue' \in Seq(Calls) /\ Len(queue') = 1
      /\ \A i \in 1..Len(queue') : queue'[i].who = "final"
  BY <1>1, CounterUpdates, SingleFacts DEF SInv, TypeOK
<1>3. TypeOK'
  BY <1>1, <1>2 DEF SInv, TypeOK
<1>4. Lags' /\ Queued'
  BY <1>1, <1>2 DEF SInv, Lags, Queued, Call
<1>5. Working'
  BY <1>1 DEF SInv, Working, Busy
<1>6. Waiting'
  BY <1>2, SnapshotConstants DEF Waiting
<1>7. Spread'
  <2>1. /\ Ahead' = Ahead /\ Ahead \in Nat /\ rough \in BOOLEAN /\ Seeds \in Nat
    BY <1>1, AheadNat, SnapshotConstants DEF Ahead, SInv, TypeOK
  <2>2. \A v \in Tasks : /\ program'[v] \in {None, ordinal[v]}
                         /\ stage'[v] = "new" => stage[v] = "new"
    BY <1>1 DEF SInv, Spread
  <2>3. /\ lives' = 0 => lives = 0 /\ life' = "down"
        /\ ~rough' => Ahead <= Ahead' /\ (lives' > 0 => Seeds <= Ahead')
    BY <1>1, <2>1 DEF SInv, Spread
  <2> QED
    BY <1>1, <2>1, <2>2, <2>3, SpreadKeeps
<1> QED
  BY <1>3, <1>4, <1>5, <1>6, <1>7 DEF SInv

\* Crash: the tasks are cut off, and only Redis speaks for the run.
LEMMA CrashKeeps ==
  ASSUME SnapshotAssumption, SInv, Crash
  PROVE  SInv'
<1>1. /\ life # "down" /\ life' = "down" /\ rough' = TRUE /\ queue' = <<>>
      /\ stage' = [t \in Tasks |-> IF Busy(t) THEN "failed" ELSE stage[t]]
      /\ UNCHANGED <<stored, mirror, counter, ordinal, program, lives>>
  BY DEF Crash
<1>2. queue' \in Seq(Calls) /\ Len(queue') = 0
  BY <1>1
<1>3. TypeOK'
  BY <1>1, <1>2 DEF SInv, TypeOK
<1>4. Lags' /\ Queued' /\ Waiting'
  BY <1>1, <1>2 DEF SInv, Lags, Queued, Waiting
<1>5. Working'
  BY <1>1 DEF SInv, Working, Busy
<1>6. Spread'
  BY <1>1 DEF SInv, Spread, Busy
<1> QED
  BY <1>3, <1>4, <1>5, <1>6 DEF SInv

\* The first call leaves the queue. If it was the first or the last write of
\* run(), it was alone there, and no task was at work.
LEMMA Leaving ==
  ASSUME SInv, queue # <<>>, queue' = Tail(queue)
  PROVE  /\ queue' \in Seq(Calls) /\ life # "down"
         /\ queue[1].who \in {"start", "final"} =>
              queue' = <<>> /\ \A t \in Tasks : ~Busy(t)
         /\ life = "stopping" => queue[1].who = "final" /\ queue[1].updates = counter
         /\ queue[1].who = "final" => life = "stopping"
         /\ Started => \A i \in 1..Len(queue') : queue'[i].who # "start"
         /\ \A i \in 1..Len(queue') : queue'[i].who \notin {"start", "final"}
<1>1. /\ Len(queue) \in Nat /\ Len(queue) >= 1
      /\ Tail(queue) \in Seq(Calls) /\ Len(Tail(queue)) = Len(queue) - 1
      /\ \A i \in 1..Len(Tail(queue)) :
           i + 1 \in 1..Len(queue) /\ Tail(queue)[i] = queue[i + 1]
  BY QueueFacts DEF SInv, TypeOK
<1>2. life # "down"
  BY DEF SInv, Queued
<1>3. life = "stopping" => /\ Len(queue) = 1 /\ queue[1].who = "final"
                          /\ queue[1].updates = counter
  BY DEF SInv, Queued, Call
<1>4. queue[1].who = "start" => Len(queue) = 1
  BY <1>1 DEF SInv, Queued
<1>5. queue[1].who = "final" => life = "stopping"
  BY <1>1 DEF SInv, Queued
<1>6. queue[1].who \in {"start", "final"} => \A t \in Tasks : ~Busy(t)
  BY <1>1, <1>5 DEF SInv, Working, Started
<1>7. Len(queue) = 1 => queue' = <<>>
  BY <1>1
<1>8. \A i \in 1..Len(queue') : queue'[i].who \notin {"start", "final"}
  <2> SUFFICES ASSUME NEW i \in 1..Len(queue') PROVE queue'[i].who \notin {"start", "final"}
    OBVIOUS
  <2>1. Len(queue) # 1 /\ i + 1 \in 1..Len(queue) /\ queue'[i] = queue[i + 1]
    BY <1>1
  <2> QED
    BY <1>3, <2>1 DEF SInv, Queued
<1> QED
  BY <1>1, <1>2, <1>3, <1>4, <1>5, <1>6, <1>7, <1>8

\* The tasks that wait are those whose calls are left.
LEMMA WaitingKeeps ==
  ASSUME SInv, queue # <<>>, queue' = Tail(queue), program' = program, NEW end,
         stage' = [t \in Tasks |-> IF queue[1].who = t THEN end ELSE stage[t]]
  PROVE  Waiting'
<1>1. /\ Len(queue) \in Nat /\ Len(queue) >= 1
      /\ Len(queue') = Len(queue) - 1
      /\ \A i \in 1..Len(queue') :
           i + 1 \in 1..Len(queue) /\ queue'[i] = queue[i + 1]
  BY QueueFacts DEF SInv, TypeOK
<1> SUFFICES ASSUME NEW i \in 1..Len(queue'), NEW t \in Tasks, queue'[i].who = t
             PROVE  /\ stage'[t] = "writing"
                    /\ "next" \in DOMAIN queue'[i].updates
                    /\ program'[t] < queue'[i].updates.next
                    /\ \A j \in 1..Len(queue') : queue'[j].who = t => i = j
  BY DEF Waiting
<1>2. i + 1 \in 1..Len(queue) /\ queue[i + 1].who = t
  BY <1>1
<1>3. /\ stage[t] = "writing"
      /\ "next" \in DOMAIN queue[i + 1].updates
      /\ program[t] < queue[i + 1].updates.next
      /\ \A j \in 1..Len(queue) : queue[j].who = t => i + 1 = j
  BY <1>2 DEF SInv, Waiting
<1>4. 1 \in 1..Len(queue) /\ i + 1 # 1
  BY <1>1
<1>5. queue[1].who # t
  BY <1>3, <1>4
<1>6. \A j \in 1..Len(queue') : queue'[j].who = t => i = j
  BY <1>1, <1>3
<1> QED
  BY <1>1, <1>3, <1>5, <1>6

\* Write: Redis and the mirror become the merged image.
LEMMA WriteKeeps ==
  ASSUME SnapshotAssumption, SInv, Write
  PROVE  SInv'
<1> DEFINE u == queue[1].updates
           w == queue[1].who
<1>1. queue # <<>> /\ Head(queue) = queue[1] /\ queue[1] \in Calls
  BY QueueFacts DEF Write, SInv, TypeOK
<1>2. /\ stored' = Merged(u) /\ mirror' = Merged(u) /\ queue' = Tail(queue)
      /\ stage' = [t \in Tasks |-> IF w = t THEN "done" ELSE stage[t]]
      /\ life' = IF w = "final" THEN "down" ELSE life
      /\ UNCHANGED <<counter, ordinal, program, lives, rough>>
  BY <1>1 DEF Write
<1>3. u \in Updates /\ w \in Tasks \cup {"start", "final", "ingestor"}
  BY <1>1 DEF Calls
<1>4. /\ Merged(u) \in Image
      /\ \A f \in Fields : /\ Merged(u).at[f] >= mirror.at[f]
                           /\ f \in DOMAIN u => Merged(u).at[f] >= u[f]
  BY <1>3, MergedFacts DEF SInv, TypeOK
<1>5. /\ queue' \in Seq(Calls) /\ life # "down"
      /\ w \in {"start", "final"} => queue' = <<>> /\ \A t \in Tasks : ~Busy(t)
      /\ life = "stopping" => w = "final" /\ u = counter
      /\ w = "final" => life = "stopping"
      /\ \A i \in 1..Len(queue') : queue'[i].who \notin {"start", "final"}
  BY <1>1, <1>2, Leaving
<1> HIDE DEF u, w
<1>6. TypeOK'
  BY <1>2, <1>4, <1>5 DEF SInv, TypeOK
<1>7. Lags'
  BY <1>2, <1>4 DEF Lags, Image, Counters
<1>8. Queued'
  BY <1>2, <1>5, <1>6 DEF Queued, SInv, TypeOK
<1>9. Waiting'
  BY <1>1, <1>2, WaitingKeeps DEF w
<1>10. Working'
  <2> SUFFICES ASSUME NEW t \in Tasks
               PROVE  /\ Busy(t)' => /\ Started' /\ ordinal'[t] # None
                                     /\ ordinal'[t] < counter'.next
                      /\ stage'[t] \in {"stored", "writing"} => program'[t] = ordinal'[t]
                      /\ stage'[t] = "done" =>
                           program'[t] # None /\ program'[t] < mirror'.at.next
    BY DEF Working
  <2>1. stage'[t] = IF w = t THEN "done" ELSE stage[t]
    BY <1>2
  <2>2. Busy(t)' => Busy(t)
    BY <2>1 DEF Busy
  <2>3. Busy(t) => life' = "up" /\ Started'
    BY <1>2, <1>5 DEF SInv, Working, Started
  <2>4. ASSUME stage'[t] = "done"
        PROVE  program[t] # None /\ program[t] < Merged(u).at.next
    <3>1. CASE w = t
      <4>1. 1 \in 1..Len(queue) /\ queue[1].who = t
        BY <1>1, <3>1, QueueFacts DEF w, SInv, TypeOK
      <4>2. stage[t] = "writing" /\ "next" \in DOMAIN u /\ program[t] < u.next
        BY <4>1 DEF SInv, Waiting, u
      <4>3. program[t] # None /\ program[t] \in Nat
        BY <4>2 DEF SInv, Working, Busy, TypeOK
      <4>4. Merged(u).at.next >= u.next /\ Merged(u).at.next \in Nat /\ u.next \in Nat
        BY <1>3, <1>4, <4>2, NextField DEF Updates, Image, Counters
      <4> QED
        BY <4>2, <4>3, <4>4
    <3>2. CASE w # t
      <4>1. program[t] # None /\ program[t] < mirror.at.next /\ program[t] \in Nat
        BY <2>1, <2>4, <3>2 DEF SInv, Working, TypeOK
      <4>2. Merged(u).at.next >= mirror.at.next /\ Merged(u).at.next \in Nat
        BY <1>4, NextField DEF Image, Counters
      <4>3. mirror.at.next \in Nat
        BY AheadNat DEF SInv
      <4> QED
        BY <4>1, <4>2, <4>3
    <3> QED
      BY <3>1, <3>2
  <2> QED
    BY <1>2, <2>1, <2>2, <2>3, <2>4 DEF SInv, Working, Busy
<1>11. Spread'
  <2>1. Ahead \in Nat /\ Ahead' \in Nat /\ Seeds \in Nat /\ rough \in BOOLEAN
    <3>1. stored'.at.next \in Nat /\ counter'.next \in Nat
      <4>1. stored' \in Image /\ counter' \in Counters
        BY <1>6 DEF TypeOK
      <4>2. stored'.at \in Counters
        BY <4>1 DEF Image
      <4> QED
        BY <4>1, <4>2, CounterFacts
    <3>2. Ahead' \in Nat
      BY <3>1 DEF Ahead
    <3> QED
      BY <3>2, AheadNat, SnapshotConstants DEF SInv, TypeOK
  <2>2. Ahead <= Ahead'
    <3>1. CASE w = "final"
      <4>1. Ahead = counter.next /\ Ahead' = Merged(u).at.next /\ u = counter
        BY <1>2, <1>5, <3>1 DEF Ahead
      <4>2. "next" \in DOMAIN counter /\ counter["next"] = counter.next
        BY CounterUpdates DEF SInv, TypeOK
      <4> QED
        BY <1>4, <2>1, <4>1, <4>2, NextField
    <3>2. CASE w # "final"
      BY <1>2, <1>5, <2>1, <3>2 DEF Ahead
    <3> QED
      BY <3>1, <3>2
  <2>3. \A t \in Tasks : /\ program'[t] \in {None, ordinal[t]}
                         /\ stage'[t] = "new" => stage[t] = "new"
    BY <1>2 DEF SInv, Spread
  <2>4. /\ lives' = 0 => lives = 0 /\ life' = "down"
        /\ ~rough' => Ahead <= Ahead' /\ (lives' > 0 => Seeds <= Ahead')
    BY <1>2, <1>5, <2>1, <2>2 DEF SInv, Spread
  <2> QED
    BY <1>2, <2>1, <2>3, <2>4, SpreadKeeps
<1> QED
  BY <1>6, <1>7, <1>8, <1>9, <1>10, <1>11 DEF SInv

\* WriteFails: at most Redis becomes the merged image.
LEMMA WriteFailsKeeps ==
  ASSUME SnapshotAssumption, SInv, WriteFails
  PROVE  SInv'
<1> DEFINE u == queue[1].updates
           w == queue[1].who
<1>1. queue # <<>> /\ Head(queue) = queue[1] /\ queue[1] \in Calls
  BY QueueFacts DEF WriteFails, SInv, TypeOK
<1>2. /\ stored' \in {stored, Merged(u)} /\ queue' = Tail(queue)
      /\ stage' = [t \in Tasks |-> IF w = t THEN "failed" ELSE stage[t]]
      /\ life' = IF w \in {"start", "final"} THEN "down" ELSE life
      /\ rough' = (rough \/ w \in {"start", "final"})
      /\ UNCHANGED <<mirror, counter, ordinal, program, lives>>
  BY <1>1 DEF WriteFails
<1>3. u \in Updates /\ w \in Tasks \cup {"start", "final", "ingestor"}
  BY <1>1 DEF Calls
<1>4. /\ Merged(u) \in Image
      /\ \A f \in Fields : Merged(u).at[f] >= mirror.at[f]
  BY <1>3, MergedFacts DEF SInv, TypeOK
<1>5. /\ queue' \in Seq(Calls) /\ life # "down"
      /\ w \in {"start", "final"} => queue' = <<>> /\ \A t \in Tasks : ~Busy(t)
      /\ life = "stopping" => w = "final"
      /\ \A i \in 1..Len(queue') : queue'[i].who \notin {"start", "final"}
  BY <1>1, <1>2, Leaving
<1> HIDE DEF u, w
<1>6. TypeOK'
  BY <1>2, <1>4, <1>5 DEF SInv, TypeOK
<1>7. Lags'
  <2>1. \A f \in Fields : Merged(u).at[f] \in Nat /\ mirror.at[f] \in Nat
    BY <1>4 DEF SInv, TypeOK, Image, Counters
  <2> QED
    BY <1>2, <1>4, <2>1 DEF SInv, Lags
<1>8. Queued'
  BY <1>2, <1>5 DEF Queued, SInv, TypeOK
<1>9. Waiting'
  BY <1>1, <1>2, WaitingKeeps DEF w
<1>10. Working'
  <2> SUFFICES ASSUME NEW t \in Tasks
               PROVE  /\ Busy(t)' => /\ Started' /\ ordinal'[t] # None
                                     /\ ordinal'[t] < counter'.next
                      /\ stage'[t] \in {"stored", "writing"} => program'[t] = ordinal'[t]
                      /\ stage'[t] = "done" =>
                           program'[t] # None /\ program'[t] < mirror'.at.next
    BY DEF Working
  <2>1. stage'[t] = IF w = t THEN "failed" ELSE stage[t]
    BY <1>2
  <2>2. Busy(t)' => Busy(t)
    BY <2>1 DEF Busy
  <2>3. Busy(t) => life' = "up" /\ Started'
    BY <1>2, <1>5 DEF SInv, Working, Started
  <2> QED
    BY <1>2, <2>1, <2>2, <2>3 DEF SInv, Working, Busy
<1>11. Spread'
  <2>1. Ahead \in Nat /\ Ahead' \in Nat /\ Seeds \in Nat /\ rough \in BOOLEAN
    <3>1. stored'.at.next \in Nat /\ counter'.next \in Nat
      <4>1. stored' \in Image /\ counter' \in Counters
        BY <1>6 DEF TypeOK
      <4>2. stored'.at \in Counters
        BY <4>1 DEF Image
      <4> QED
        BY <4>1, <4>2, CounterFacts
    <3>2. Ahead' \in Nat
      BY <3>1 DEF Ahead
    <3> QED
      BY <3>2, AheadNat, SnapshotConstants DEF SInv, TypeOK
  <2>2. ~rough' => Ahead' = Ahead
    BY <1>2, <1>5 DEF Ahead
  <2>3. \A t \in Tasks : /\ program'[t] \in {None, ordinal[t]}
                         /\ stage'[t] = "new" => stage[t] = "new"
    BY <1>2 DEF SInv, Spread
  <2>4. /\ lives' = 0 => lives = 0 /\ life' = "down"
        /\ ~rough' => Ahead <= Ahead' /\ (lives' > 0 => Seeds <= Ahead')
    BY <1>2, <1>5, <2>1, <2>2 DEF SInv, Spread
  <2> QED
    BY <1>2, <2>1, <2>3, <2>4, SpreadKeeps
<1> QED
  BY <1>6, <1>7, <1>8, <1>9, <1>10, <1>11 DEF SInv

-----------------------------------------------------------------------------
\* Whatever stops, crashes, resumes and fails, SInv holds.
LEMMA SnapshotInvariant ==
  ASSUME SnapshotAssumption
  PROVE  Spec => []SInv
<1>1. Init => SInv
  <2>1. ASSUME Init PROVE SInv
    <3>1. Zero \in Counters
      BY ZeroFields
    <3>2. stored \in Image /\ mirror = stored
      BY <2>1, <3>1 DEF Init, Image
    <3>3. queue = <<>> /\ queue \in Seq(Calls) /\ Len(queue) = 0
      BY <2>1 DEF Init
    <3>4. TypeOK
      BY <2>1, <3>1, <3>2, <3>3 DEF Init, TypeOK
    <3>5. Lags
      BY <3>2 DEF Lags, Image, Counters
    <3>6. Queued /\ Waiting
      BY <2>1, <3>3 DEF Init, Queued, Waiting
    <3>7. Working /\ Spread
      BY <2>1 DEF Init, Working, Busy, Spread, Given
    <3> QED
      BY <3>4, <3>5, <3>6, <3>7 DEF SInv
  <2> QED
    BY <2>1
<1>2. SInv /\ [Next]_vars => SInv'
  <2>1. ASSUME SInv, Next PROVE SInv'
    BY <2>1, ReserveKeeps, StoreKeeps, CountKeeps, SweepKeeps, StartKeeps,
       StopKeeps, CrashKeeps, WriteKeeps, WriteFailsKeeps DEF Next
  <2>2. ASSUME SInv, UNCHANGED vars PROVE SInv'
    BY <2>2 DEF SInv, TypeOK, Lags, Queued, Working, Busy, Started, Waiting,
                Spread, Given, Ahead, vars
  <2> QED
    BY <2>1, <2>2
<1> QED
  BY <1>1, <1>2, PTL DEF Spec

\* The stored snapshot lies beyond the ordinal of every program whose task ended
\* well, whatever is stopped, crashes or fails afterwards.
THEOREM SnapshotCovers ==
  ASSUME SnapshotAssumption
  PROVE  Spec => []Covered
<1>1. SInv => Covered
  <2>1. ASSUME SInv, NEW t \in Tasks, stage[t] = "done"
        PROVE  program[t] # None /\ program[t] < stored.at.next
    <3>1. program[t] # None /\ program[t] < mirror.at.next /\ program[t] \in Nat
      BY <2>1 DEF SInv, Working, TypeOK
    <3>2. mirror.at.next <= stored.at.next
      BY <2>1, NextField DEF SInv, Lags
    <3> QED
      BY <2>1, <3>1, <3>2, AheadNat DEF SInv
  <2> QED
    BY <2>1 DEF Covered
<1> QED
  BY <1>1, SnapshotInvariant, PTL

\* No two programs have the same ordinal, and none that of a seed, over any
\* number of stops and resumes, as long as nothing crashes and the last writes
\* succeed.
THEOREM OrdinalsSpread ==
  ASSUME SnapshotAssumption
  PROVE  Spec => []OrdinalsUnique
<1>1. SInv => OrdinalsUnique
  BY DEF SInv, Spread, Given, OrdinalsUnique, TypeOK
<1> QED
  BY <1>1, SnapshotInvariant, PTL

\* No step takes the mirror back or ahead of Redis: what Redis confirmed is
\* never overwritten by less.
THEOREM SnapshotKept ==
  ASSUME SnapshotAssumption
  PROVE  Spec => ConfirmedKept
<1>1. SInv /\ SInv' /\ [Next]_vars =>
        [\A f \in DOMAIN Zero :
           mirror'.at[f] <= stored'.at[f] /\ mirror'.at[f] >= mirror.at[f]]_vars
  <2> SUFFICES ASSUME SInv, SInv', Next
               PROVE  \A f \in Fields : /\ mirror'.at[f] <= stored'.at[f]
                                         /\ mirror'.at[f] >= mirror.at[f]
    BY ZeroFields
  <2>1. \A f \in Fields : /\ mirror.at[f] \in Nat /\ mirror.at[f] <= stored.at[f]
                          /\ mirror'.at[f] <= stored'.at[f]
    BY DEF SInv, Lags, TypeOK, Image, Counters
  <2>2. CASE Start
    BY <2>1, <2>2 DEF Start
  <2>3. CASE Write
    <3>1. mirror' = Merged(queue[1].updates) /\ queue[1].updates \in Updates
      BY <2>3, QueueFacts DEF Write, SInv, TypeOK, Calls
    <3> QED
      BY <2>1, <3>1, MergedFacts DEF SInv, TypeOK
  <2>4. CASE UNCHANGED mirror
    BY <2>1, <2>4
  <2> QED
    BY <2>2, <2>3, <2>4
       DEF Next, Stop, Crash, WriteFails, Sweep, Reserve, Store, Count
<1> QED
  BY <1>1, SnapshotInvariant, PTL DEF Spec, ConfirmedKept
=============================================================================
