------------------------- MODULE ParentLineageProofs -------------------------
(***************************************************************************)
(* LineageKept for any tasks of a parent. What was recorded while no copy  *)
(* was about to be written is in every copy that will be, because a copy   *)
(* made since then was read from a blob that had it. With tickets the lock *)
(* keeps whoever records a child apart from the evaluation.                *)
(***************************************************************************)
EXTENDS ParentLineage, TLAPS

\* Where a task with a ticket holds the lock of the parent.
Held == {"reading", "flipping", "awaiting", "mutating", "getting", "updating",
         "registered"}

\* What every copy that will be written must contain.
Kept == recorded \ exposed

\* Every copy of the parent that will be written in its place holds the
\* children that were recorded while nobody was about to write one.
CopiesKeep ==
  /\ Kept \subseteq blob.children
  /\ image # Unheld => Kept \subseteq image.children
  /\ patch # Unheld => Kept \subseteq patch.children
  /\ removal # Unheld => Kept \subseteq removal.children
  /\ \A t \in Tasks :
       at[t] = "flipping" => copy[t] # Unheld /\ Kept \subseteq copy[t].children
  /\ \A t \in Tasks :
       at[t] = "updating" => copy[t] # Unheld /\ t \in copy[t].children
  /\ patch # Unheld => image # Unheld /\ image.state = QUEUED
  /\ evicting \in {"merging", "writing"} => removal # Unheld

\* With tickets, a task holds the lock from its refresh to the ingestion of
\* its child.
Guarded == tickets => \A t \in Tasks : at[t] \in Held => holder = t

\* While a task with a ticket is past its refresh the parent is DONE, and the
\* runner has no task for it; a copy that will be written has the lineage that
\* is there.
Quiet ==
  tickets /\ evicting = "kept" =>
    /\ recorded \subseteq blob.children
    /\ member = {blob.state}
    /\ \A t \in Tasks :
         /\ at[t] = "flipping" => copy[t] = blob
         /\ at[t] \in {"flipping", "mutating", "getting", "updating",
                       "registered"} => blob.state = DONE
         /\ at[t] = "updating" => copy[t].state = DONE
    /\ image # Unheld =>
         /\ image.children = blob.children
         /\ image.state \in {QUEUED, RUNNING} /\ image.state = blob.state
    /\ patch # Unheld => patch.children = blob.children

LInv == TypeOK /\ CopiesKeep /\ Guarded /\ Quiet

-----------------------------------------------------------------------------
\* storage.update of a DONE parent by a DONE copy leaves it DONE.
LEMMA MergedState ==
  ASSUME NEW s \in States, NEW u \in States
  PROVE  /\ MergeStates(s, u) \in States
         /\ s = DONE /\ u = DONE => MergeStates(s, u) = DONE
BY DEF MergeStates, States, QUEUED, RUNNING, DONE, DISCARDED, IsValidTransition

\* What the update of a lineage makes of a parent.
LEMMA MergedParent ==
  ASSUME NEW p \in Parent, NEW q \in Parent
  PROVE  /\ Merge(p, q) \in Parent
         /\ Merge(p, q).children = p.children \cup q.children
         /\ p.state = DONE /\ q.state = DONE => Merge(p, q).state = DONE
BY MergedState DEF Merge, Parent

\* A parent is no missing copy, and a state or a child more leaves a parent.
LEMMA ParentValues ==
  ASSUME LineageAssumption, NEW p \in Parent
  PROVE  /\ p # Unheld
         /\ \A s \in States : /\ [p EXCEPT !.state = s] \in Parent
                              /\ [p EXCEPT !.state = s].children = p.children
                              /\ [p EXCEPT !.state = s].state = s
         /\ \A t \in Tasks :
              /\ [p EXCEPT !.children = @ \cup {t}] \in Parent
              /\ [p EXCEPT !.children = @ \cup {t}].state = p.state
              /\ t \in [p EXCEPT !.children = @ \cup {t}].children
BY DEF LineageAssumption, Parent

\* The states the proofs tell apart.
LEMMA StateNames ==
  /\ {QUEUED, RUNNING, DONE, DISCARDED} \subseteq States
  /\ QUEUED # RUNNING /\ QUEUED # DONE /\ RUNNING # DONE
BY DEF States, QUEUED, RUNNING, DONE, DISCARDED

-----------------------------------------------------------------------------
\* Every step keeps the types.
LEMMA LineageTypeKeeps ==
  ASSUME LineageAssumption, LInv, Next
  PROVE  TypeOK'
<1> USE DEF LInv, TypeOK, runner, island, history
<1>1. ASSUME NEW t \in Tasks,
             Acquire(t) \/ Awaited(t) \/ GivesUp(t) \/ StoreChild(t)
               \/ UpdateFails(t) \/ Ingested(t)
      PROVE  TypeOK'
  BY <1>1 DEF Acquire, Awaited, GivesUp, StoreChild, UpdateFails, Ingested,
              Move, Keep, Release
<1>2. ASSUME NEW t \in Tasks, ReadToFlip(t)
      PROVE  TypeOK'
  BY <1>2 DEF ReadToFlip, Move, Keep
<1>3. ASSUME NEW t \in Tasks, Flip(t)
      PROVE  TypeOK'
  <2>1. copy[t] \in Parent
    BY <1>3 DEF Flip, CopiesKeep
  <2>2. blob' \in Parent /\ member' \subseteq States
    BY <1>3, <2>1, ParentValues, StateNames DEF Flip, Moved
  <2> QED
    BY <1>3, <2>2 DEF Flip, Move, Keep
<1>4. ASSUME NEW t \in Tasks, Get(t)
      PROVE  TypeOK'
  <2>1. [blob EXCEPT !.children = @ \cup {t}] \in Parent
    BY ParentValues
  <2> QED
    BY <1>4, <2>1 DEF Get, Move, Keep
<1>5. ASSUME NEW t \in Tasks, Update(t)
      PROVE  TypeOK'
  <2>1. copy[t] \in Parent
    BY <1>5 DEF Update, CopiesKeep
  <2> QED
    BY <1>5, <2>1, MergedParent DEF Update, Move, Keep
<1>6. CASE Launch
  <2>1. [blob EXCEPT !.state = QUEUED] \in Parent
    BY ParentValues, StateNames
  <2> QED
    BY <1>6, <2>1 DEF Launch
<1>7. CASE MarkRead
  <2>1. [image EXCEPT !.state = RUNNING] \in Parent
    BY <1>7, ParentValues, StateNames DEF MarkRead
  <2> QED
    BY <1>7, <2>1 DEF MarkRead
<1>8. CASE MarkWrite
  <2>1. patch \in Parent /\ image \in Parent
    BY <1>8 DEF MarkWrite, CopiesKeep
  <2>2. {[patch EXCEPT !.state = RUNNING], [image EXCEPT !.state = RUNNING]}
           \subseteq Parent
    BY <2>1, ParentValues, StateNames
  <2> QED
    BY <1>8, <2>2, StateNames DEF MarkWrite, Moved
<1>9. CASE Finish
  <2>1. PICK end \in {DONE, DISCARDED} : /\ blob' = [image EXCEPT !.state = end]
                                         /\ member' = Moved(RUNNING, end)
    BY <1>9 DEF Finish
  <2>2. blob' \in Parent
    BY <1>9, <2>1, ParentValues, StateNames DEF Finish
  <2> QED
    BY <1>9, <2>1, <2>2, StateNames DEF Finish, Moved
<1>10. CASE Evict
  BY <1>10 DEF Evict
<1>11. CASE EvictUpdate
  BY <1>11, MergedParent DEF EvictUpdate, CopiesKeep
<1>12. CASE EvictWrite
  <2>1. removal \in Parent
    BY <1>12 DEF EvictWrite, CopiesKeep
  <2>2. [removal EXCEPT !.state = DISCARDED] \in Parent
    BY <2>1, ParentValues, StateNames
  <2> QED
    BY <1>12, <2>2, StateNames DEF EvictWrite, Moved
<1> QED
  BY <1>1, <1>2, <1>3, <1>4, <1>5, <1>6, <1>7, <1>8, <1>9, <1>10, <1>11, <1>12
     DEF Next

-----------------------------------------------------------------------------
\* Whoever reads, updates or replaces the parent, every copy at large keeps
\* what it must contain.
LEMMA CopiesKept ==
  ASSUME LineageAssumption, LInv, Next
  PROVE  CopiesKeep'
<1> USE DEF LInv, TypeOK, runner, island, history
<1>1. ASSUME NEW t \in Tasks,
             \/ Acquire(t) \/ Awaited(t) \/ GivesUp(t) \/ StoreChild(t)
             \/ UpdateFails(t) \/ Ingested(t)
      PROVE  CopiesKeep'
  <2>1. UNCHANGED <<blob, runner, island, history>>
    BY <1>1 DEF Acquire, Awaited, GivesUp, StoreChild, UpdateFails, Ingested
  <2>2. ASSUME NEW u \in Tasks, at'[u] \in {"flipping", "updating"}
        PROVE  at[u] = at'[u] /\ copy'[u] = copy[u]
    BY <1>1, <2>2 DEF Acquire, Awaited, GivesUp, StoreChild, UpdateFails,
                      Ingested, Move, Keep
  <2> QED
    BY <2>1, <2>2 DEF CopiesKeep, Kept
<1>2. ASSUME NEW t \in Tasks, ReadToFlip(t)
      PROVE  CopiesKeep'
  <2>1. ASSUME NEW u \in Tasks, at'[u] \in {"flipping", "updating"}
        PROVE  \/ at'[u] = "flipping" /\ copy'[u] = blob
               \/ at[u] = at'[u] /\ copy'[u] = copy[u]
    BY <1>2, <2>1 DEF ReadToFlip, Move, Keep
  <2> QED
    BY <1>2, <2>1, ParentValues DEF ReadToFlip, CopiesKeep, Kept
<1>3. ASSUME NEW t \in Tasks, Flip(t)
      PROVE  CopiesKeep'
  <2>1. copy[t] \in Parent /\ Kept \subseteq copy[t].children
    BY <1>3 DEF Flip, CopiesKeep
  <2>2. blob'.children = copy[t].children
    BY <1>3, <2>1, ParentValues, StateNames DEF Flip
  <2>3. ASSUME NEW u \in Tasks, at'[u] \in {"flipping", "updating"}
        PROVE  at[u] = at'[u] /\ copy'[u] = copy[u]
    BY <1>3, <2>3 DEF Flip, Move, Keep
  <2> QED
    BY <1>3, <2>1, <2>2, <2>3 DEF Flip, CopiesKeep, Kept
<1>4. ASSUME NEW t \in Tasks, Get(t)
      PROVE  CopiesKeep'
  <2>1. ASSUME NEW u \in Tasks, at'[u] \in {"flipping", "updating"}
        PROVE  \/ at[u] = at'[u] /\ copy'[u] = copy[u]
               \/ /\ u = t /\ at'[u] = "updating"
                  /\ copy'[u] # Unheld /\ t \in copy'[u].children
    BY <1>4, <2>1, ParentValues DEF Get, Move, Keep
  <2> QED
    BY <1>4, <2>1 DEF Get, CopiesKeep, Kept
<1>5. ASSUME NEW t \in Tasks, Update(t)
      PROVE  CopiesKeep'
  <2>1. copy[t] \in Parent /\ t \in copy[t].children
    BY <1>5 DEF Update, CopiesKeep
  <2>2. blob.children \cup {t} \subseteq blob'.children
    BY <1>5, <2>1, MergedParent DEF Update
  <2>3. ASSUME NEW u \in Tasks, at'[u] \in {"flipping", "updating"}
        PROVE  at[u] = at'[u] /\ copy'[u] = copy[u]
    BY <1>5, <2>3 DEF Update, Move, Keep
  <2>4. CASE CopyOut
    <3>1. Kept' = Kept \/ Kept' = Kept \ {t}
      BY <1>5, <2>4 DEF Update, Kept
    <3> QED
      BY <1>5, <2>2, <2>3, <3>1 DEF Update, CopiesKeep
  <2>5. CASE ~CopyOut
    <3>1. image = Unheld /\ patch = Unheld /\ removal = Unheld
      BY <2>5 DEF CopyOut
    <3>2. Kept' \subseteq Kept \cup {t}
      BY <1>5, <2>5 DEF Update, Kept
    <3> QED
      BY <1>5, <2>2, <2>3, <2>5, <3>1, <3>2 DEF Update, CopiesKeep, CopyOut
  <2> QED
    BY <2>4, <2>5
<1>6. CASE Launch
  <2>1. image'.children = blob.children
    BY <1>6, ParentValues, StateNames DEF Launch
  <2>2. image' # Unheld
    BY <1>6, ParentValues, StateNames DEF Launch
  <2> QED
    BY <1>6, <2>1, <2>2 DEF Launch, CopiesKeep, Kept
<1>7. CASE MarkRead
  <2>1. [image EXCEPT !.state = RUNNING].children = image.children
    BY <1>7, ParentValues, StateNames DEF MarkRead
  <2>2. image' # Unheld
    BY <1>7, ParentValues, StateNames DEF MarkRead
  <2> QED
    BY <1>7, <2>1, <2>2 DEF MarkRead, CopiesKeep, Kept
<1>8. CASE MarkWrite
  <2>1. patch \in Parent /\ image \in Parent
    BY <1>8 DEF MarkWrite, CopiesKeep
  <2>2. blob'.children = patch.children /\ image'.children = image.children
    BY <1>8, <2>1, ParentValues, StateNames DEF MarkWrite
  <2> QED
    BY <1>8, <2>1, <2>2 DEF MarkWrite, CopiesKeep, Kept
<1>9. CASE Finish
  <2>1. blob'.children = image.children
    BY <1>9, ParentValues, StateNames DEF Finish
  <2> QED
    BY <1>9, <2>1, StateNames DEF Finish, CopiesKeep, Kept
<1>10. CASE Evict
  BY <1>10, ParentValues DEF Evict, CopiesKeep, Kept
<1>11. CASE EvictUpdate
  <2>1. blob.children \subseteq blob'.children
    BY <1>11, MergedParent DEF EvictUpdate, CopiesKeep
  <2> QED
    BY <1>11, <2>1 DEF EvictUpdate, CopiesKeep, Kept
<1>12. CASE EvictWrite
  <2>1. removal \in Parent
    BY <1>12 DEF EvictWrite, CopiesKeep
  <2>2. blob' = blob \/ blob'.children = removal.children
    BY <1>12, <2>1, ParentValues, StateNames DEF EvictWrite
  <2> QED
    BY <1>12, <2>1, <2>2 DEF EvictWrite, CopiesKeep, Kept
<1> QED
  BY <1>1, <1>2, <1>3, <1>4, <1>5, <1>6, <1>7, <1>8, <1>9, <1>10, <1>11, <1>12
     DEF Next

-----------------------------------------------------------------------------
\* The lock is given up with the ticket only.
LEMMA GuardKept ==
  ASSUME LineageAssumption, LInv, Next
  PROVE  Guarded'
<1> USE DEF LInv, TypeOK, Guarded, Held
<1>1. ASSUME NEW t \in Tasks, Acquire(t)
      PROVE  Guarded'
  BY <1>1 DEF Acquire, Move, LineageAssumption
<1>2. ASSUME NEW t \in Tasks,
             ReadToFlip(t) \/ Flip(t) \/ StoreChild(t) \/ Get(t)
               \/ Update(t) \/ UpdateFails(t)
      PROVE  Guarded'
  BY <1>2 DEF ReadToFlip, Flip, StoreChild, Get, Update, UpdateFails, Move
<1>3. ASSUME NEW t \in Tasks, Awaited(t)
      PROVE  Guarded'
  BY <1>3 DEF Awaited, Move
<1>4. ASSUME NEW t \in Tasks, GivesUp(t) \/ Ingested(t)
      PROVE  Guarded'
  BY <1>4 DEF GivesUp, Ingested, Move, Release
<1>5. CASE UNCHANGED <<tickets, at, holder>>
  BY <1>5
<1> QED
  BY <1>1, <1>2, <1>3, <1>4, <1>5
     DEF Next, Launch, MarkRead, MarkWrite, Finish, Evict, EvictUpdate, EvictWrite

-----------------------------------------------------------------------------
\* Between refresh and ingestion of a task nobody moves the parent, and a task
\* that records its child meets no evaluation.
LEMMA QuietKept ==
  ASSUME LineageAssumption, LInv, Next
  PROVE  Quiet'
<1> SUFFICES ASSUME tickets', evicting' = "kept"
             PROVE  Quiet'
  BY DEF Quiet
<1>0. /\ tickets /\ evicting = "kept"
      /\ UNCHANGED <<tickets, island>>
  BY DEF Next, Acquire, ReadToFlip, Flip, Awaited, GivesUp, StoreChild, Get,
         Update, UpdateFails, Ingested, Launch, MarkRead, MarkWrite, Finish,
         Evict, EvictUpdate, EvictWrite, island
<1> USE <1>0 DEF LInv, TypeOK, runner, island, history
<1>1. ASSUME NEW t \in Tasks,
             Acquire(t) \/ GivesUp(t) \/ UpdateFails(t) \/ Ingested(t)
               \/ StoreChild(t)
      PROVE  Quiet'
  <2>1. UNCHANGED <<blob, member, runner, history>>
    BY <1>1 DEF Acquire, GivesUp, UpdateFails, Ingested, StoreChild
  <2>2. ASSUME NEW u \in Tasks
        PROVE  /\ at'[u] \in {"flipping", "updating"} =>
                    at[u] = at'[u] /\ copy'[u] = copy[u]
               /\ at'[u] \in {"mutating", "getting", "registered"} =>
                    at[u] \in {"mutating", "getting", "updating", "registered"}
    BY <1>1 DEF Acquire, GivesUp, UpdateFails, Ingested, StoreChild, Move, Keep
  <2> QED
    BY <2>1, <2>2 DEF Quiet
<1>2. ASSUME NEW t \in Tasks, ReadToFlip(t)
      PROVE  Quiet'
  <2>1. ASSUME NEW u \in Tasks
        PROVE  /\ at'[u] # "flipping" => at'[u] = "awaiting" \/ at[u] = at'[u]
               /\ at'[u] = "flipping" =>
                    \/ at[u] = "flipping" /\ copy'[u] = copy[u]
                    \/ copy'[u] = blob /\ blob.state = DONE
               /\ at'[u] = "updating" => copy'[u] = copy[u]
    BY <1>2 DEF ReadToFlip, Move, Keep
  <2> QED
    BY <1>2, <2>1 DEF ReadToFlip, Quiet
<1>3. ASSUME NEW t \in Tasks, Awaited(t)
      PROVE  Quiet'
  <2>1. blob.state = DONE /\ UNCHANGED <<blob, member, copy, runner, history>>
    BY <1>3 DEF Awaited
  <2>2. ASSUME NEW u \in Tasks
        PROVE  at'[u] \in {"flipping", "updating"} => at[u] = at'[u]
    BY <1>3 DEF Awaited, Move
  <2> QED
    BY <2>1, <2>2 DEF Quiet
<1>4. ASSUME NEW t \in Tasks, Get(t)
      PROVE  Quiet'
  <2>1. [blob EXCEPT !.children = @ \cup {t}].state = DONE
    BY <1>4, ParentValues DEF Get, Quiet
  <2>2. ASSUME NEW u \in Tasks
        PROVE  /\ at'[u] = "updating" =>
                    \/ at[u] = "updating" /\ copy'[u] = copy[u]
                    \/ copy'[u].state = DONE
               /\ at'[u] # "updating" => at[u] = at'[u] /\ copy'[u] = copy[u]
    BY <1>4, <2>1 DEF Get, Move, Keep
  <2>3. blob.state = DONE
    BY <1>4 DEF Get, Quiet
  <2> QED
    BY <1>4, <2>2, <2>3 DEF Get, Quiet
<1>5. ASSUME NEW t \in Tasks, Flip(t)
      PROVE  Quiet'
  <2>1. copy[t] = blob /\ blob.state = DONE
    BY <1>5 DEF Flip, Quiet
  <2>2. /\ blob'.children = blob.children /\ blob'.state = QUEUED
        /\ member' = {QUEUED}
    BY <1>5, <2>1, ParentValues, StateNames DEF Flip, Moved, Quiet
  <2>3. image = Unheld /\ patch = Unheld
    BY <2>1, StateNames DEF Quiet, CopiesKeep
  <2>4. \A u \in Tasks :
           at'[u] \notin {"flipping", "mutating", "getting", "updating",
                         "registered"}
    BY <1>5 DEF Flip, Move, Guarded, Held
  <2> QED
    BY <1>5, <2>2, <2>3, <2>4 DEF Flip, Quiet
<1>6. ASSUME NEW t \in Tasks, Update(t)
      PROVE  Quiet'
  <2>1. /\ copy[t] \in Parent /\ t \in copy[t].children
        /\ copy[t].state = DONE /\ blob.state = DONE
    BY <1>6 DEF Update, CopiesKeep, Quiet
  <2>2. blob.children \cup {t} \subseteq blob'.children /\ blob'.state = DONE
    BY <1>6, <2>1, MergedParent DEF Update
  <2>3. image = Unheld /\ patch = Unheld
    BY <2>1, StateNames DEF Quiet, CopiesKeep
  <2>4. \A u \in Tasks : at'[u] \notin {"flipping", "updating"}
    BY <1>6 DEF Update, Move, Guarded, Held
  <2> QED
    BY <1>6, <2>1, <2>2, <2>3, <2>4 DEF Update, Quiet
<1>7. CASE Launch
  <2>1. blob.state = QUEUED
    BY <1>7 DEF Launch, Quiet
  <2>2. image'.children = blob.children /\ image'.state = QUEUED
    BY <1>7, ParentValues, StateNames DEF Launch
  <2> QED
    BY <1>7, <2>1, <2>2 DEF Launch, Quiet
<1>8. CASE MarkRead
  <2>1. blob.state = QUEUED
    BY <1>8 DEF MarkRead, Quiet
  <2> QED
    BY <1>8, <2>1 DEF MarkRead, Quiet
<1>9. CASE MarkWrite
  <2>1. /\ patch \in Parent /\ image \in Parent
        /\ image.state = QUEUED
    BY <1>9 DEF MarkWrite, CopiesKeep
  <2>2. blob.state = QUEUED /\ patch.children = blob.children
    BY <1>9, <2>1 DEF MarkWrite, Quiet, CopiesKeep
  <2>3. /\ blob'.children = patch.children /\ blob'.state = RUNNING
        /\ image'.children = image.children /\ image'.state = RUNNING
        /\ member' = {RUNNING}
    BY <1>9, <2>1, <2>2, ParentValues, StateNames DEF MarkWrite, Moved, Quiet
  <2>4. \A t \in Tasks :
           at[t] \notin {"flipping", "mutating", "getting", "updating",
                        "registered"}
    BY <2>2, StateNames DEF Quiet
  <2> QED
    BY <1>9, <2>2, <2>3, <2>4 DEF MarkWrite, Quiet, CopiesKeep
<1>10. CASE Finish
  <2>1. image \in Parent /\ image.state = RUNNING
    BY <1>10 DEF Finish
  <2>2. blob.state = RUNNING /\ image.children = blob.children
    BY <1>10, <2>1 DEF Finish, Quiet
  <2>3. PICK end \in {DONE, DISCARDED} : /\ blob' = [image EXCEPT !.state = end]
                                         /\ member' = Moved(RUNNING, end)
    BY <1>10 DEF Finish
  <2>4. /\ blob'.children = blob.children /\ blob'.state = end
        /\ member' = {end}
    BY <2>1, <2>2, <2>3, ParentValues, StateNames DEF Moved, Quiet
  <2>5. patch = Unheld
    BY <2>1, StateNames DEF CopiesKeep
  <2>6. \A t \in Tasks :
           at[t] \notin {"flipping", "mutating", "getting", "updating",
                        "registered"}
    BY <2>2, StateNames DEF Quiet
  <2> QED
    BY <1>10, <2>4, <2>5, <2>6 DEF Finish, Quiet
<1>11. CASE Evict \/ EvictUpdate \/ EvictWrite
  BY <1>11 DEF Evict, EvictUpdate, EvictWrite
<1> QED
  BY <1>1, <1>2, <1>3, <1>4, <1>5, <1>6, <1>7, <1>8, <1>9, <1>10, <1>11 DEF Next

-----------------------------------------------------------------------------
\* A child recorded in its parent's lineage stays there unless a copy read
\* before was about to be written; with tickets, and the parent in its archive,
\* none ever is, and its blob and status set agree.
THEOREM Lineage ==
  ASSUME LineageAssumption
  PROVE  Spec => []LineageKept
<1>1. Init => LInv
  <2>1. ASSUME Init PROVE LInv
    <3>1. TypeOK
      BY <2>1, StateNames DEF Init, TypeOK, Parent
    <3>2. CopiesKeep
      BY <2>1 DEF Init, CopiesKeep, Kept
    <3>3. Guarded
      BY <2>1 DEF Init, Guarded, Held
    <3>4. Quiet
      BY <2>1 DEF Init, Quiet
    <3> QED
      BY <3>1, <3>2, <3>3, <3>4 DEF LInv
  <2> QED
    BY <2>1
<1>2. LInv /\ [Next]_vars => LInv'
  <2>1. ASSUME LInv, Next PROVE LInv'
    BY <2>1, LineageTypeKeeps, CopiesKept, GuardKept, QuietKept DEF LInv
  <2>2. ASSUME LInv, UNCHANGED vars PROVE LInv'
    BY <2>2 DEF LInv, TypeOK, CopiesKeep, Kept, Guarded, Quiet, vars, runner,
                island, history
  <2> QED
    BY <2>1, <2>2
<1>3. LInv => LineageKept
  BY DEF LInv, CopiesKeep, Kept, Quiet, LineageKept
<1> QED
  BY <1>1, <1>2, <1>3, PTL DEF Spec
=============================================================================
