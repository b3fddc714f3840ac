---------------------------- MODULE ParentLineage ----------------------------
(***************************************************************************)
(* The stored parent between the mutant tasks that record their children   *)
(* in its lineage (gigaevo/evolution/engine/mutation.py, storage.update    *)
(* and its merge, database/merge_strategies.py), the tasks that send it    *)
(* back for a refresh (engine/refresh.py), the DAG runner that evaluates   *)
(* it again, and an island that evicts it. storage.update is one step: it  *)
(* repeats until the blob it has merged with is the one it replaces. Other *)
(* writes replace the blob by a copy read some steps before.               *)
(***************************************************************************)
EXTENDS ProgramStates

CONSTANTS
  Tasks,     \* mutant tasks of one parent; each names the child it makes
  Unheld     \* no copy; no holder of the parent's lock

Parent == [state: States, children: SUBSET Tasks]

\* What the constants must satisfy.
LineageAssumption == Unheld \notin Tasks \cup Parent

VARIABLES
  tickets,   \* coalesce_refresh is off: the lock is held up to the ingestion
  blob,      \* the parent in Redis
  member,    \* the status sets it is in
  holder,    \* the holder of its lock
  at,        \* at[t]: where task t stands
  copy,      \* copy[t]: the parent as t has read it
  image,     \* the DAG runner's object, while it has a task for the parent
  patch,     \* the raw blob that the runner is about to mark RUNNING
  evicting,  \* how far the island is with its eviction
  removal,   \* the parent as the island has read it
  recorded,  \* the children whose lineage update has been executed
  exposed    \* those among them recorded while a copy was about to be written

vars == <<tickets, blob, member, holder, at, copy, image, patch, evicting,
          removal, recorded, exposed>>
runner == <<image, patch>>
island == <<evicting, removal>>
history == <<recorded, exposed>>

TypeOK ==
  /\ tickets \in BOOLEAN
  /\ blob \in Parent
  /\ member \subseteq States
  /\ holder \in Tasks \cup {Unheld}
  /\ at \in [Tasks -> {"locking", "reading", "flipping", "awaiting", "mutating",
                       "getting", "updating", "registered", "over"}]
  /\ copy \in [Tasks -> Parent \cup {Unheld}]
  /\ evicting \in {"kept", "merging", "writing", "evicted"}
  /\ {image, patch, removal} \subseteq Parent \cup {Unheld}
  /\ recorded \subseteq Tasks /\ exposed \subseteq recorded

Init ==
  /\ tickets \in BOOLEAN
  /\ blob = [state |-> DONE, children |-> {}]
  /\ member = {DONE}
  /\ holder = Unheld
  /\ at = [t \in Tasks |-> "locking"]
  /\ copy = [t \in Tasks |-> Unheld]
  /\ image = Unheld /\ patch = Unheld
  /\ evicting = "kept" /\ removal = Unheld
  /\ recorded = {} /\ exposed = {}

Move(t, s) == at' = [at EXCEPT ![t] = s]
Keep(t, parent) == copy' = [copy EXCEPT ![t] = parent]
Release(t) == holder' = IF holder = t THEN Unheld ELSE holder

\* The parent leaves one status set for another.
Moved(old, new) == (member \ {old}) \cup {new}

-----------------------------------------------------------------------------
(* A refresh, with a ticket or coalesced.                                  *)

\* With the lock held a coalesced call may find the parent fresh.
Acquire(t) ==
  /\ at[t] = "locking" /\ holder = Unheld
  /\ \/ holder' = t /\ Move(t, "reading")
     \/ ~tickets /\ Move(t, "mutating") /\ UNCHANGED holder
  /\ UNCHANGED <<tickets, blob, member, copy, runner, island, history>>

\* batch_transition_by_ids DONE -> QUEUED reads the raw blob, unless the parent
\* was not DONE when it was selected, ...
ReadToFlip(t) ==
  /\ at[t] = "reading"
  /\ \/ Move(t, "awaiting") /\ UNCHANGED copy
     \/ blob.state = DONE /\ Move(t, "flipping") /\ Keep(t, blob)
  /\ UNCHANGED <<tickets, blob, member, holder, runner, island, history>>

\* ... and writes it back with its state patched.
Flip(t) ==
  /\ at[t] = "flipping"
  /\ blob' = [copy[t] EXCEPT !.state = QUEUED]
  /\ member' = Moved(DONE, QUEUED)
  /\ Move(t, "awaiting") /\ Keep(t, Unheld)
  /\ UNCHANGED <<tickets, holder, runner, island, history>>

\* _await_done; a coalesced call gives up the lock.
Awaited(t) ==
  /\ at[t] = "awaiting" /\ blob.state = DONE
  /\ Move(t, "mutating")
  /\ IF tickets THEN UNCHANGED holder ELSE Release(t)
  /\ UNCHANGED <<tickets, blob, member, copy, runner, island, history>>

\* A timeout, an error or a discarded parent; or the LLM makes no child.
GivesUp(t) ==
  /\ at[t] \in {"reading", "flipping", "awaiting", "mutating"}
  /\ Move(t, "over") /\ Keep(t, Unheld) /\ Release(t)
  /\ UNCHANGED <<tickets, blob, member, runner, island, history>>

-----------------------------------------------------------------------------
(* The lineage update.                                                     *)

\* storage.add of the child.
StoreChild(t) ==
  /\ at[t] = "mutating"
  /\ Move(t, "getting")
  /\ UNCHANGED <<tickets, blob, member, holder, copy, runner, island, history>>

Get(t) ==
  /\ at[t] = "getting"
  /\ Keep(t, [blob EXCEPT !.children = @ \cup {t}])
  /\ Move(t, "updating")
  /\ UNCHANGED <<tickets, blob, member, holder, runner, island, history>>

\* Seeded bug: the lineage is taken from the incoming copy.
IncomingLineage(current, incoming) ==
  [state |-> MergeStates(current.state, incoming.state),
   children |-> incoming.children]

\* merge_programs, as far as state and lineage go: children are a union.
Merge(current, incoming) ==
  [state |-> MergeStates(current.state, incoming.state),
   children |-> current.children \cup incoming.children]

\* A copy of the parent will be written in place of what is there by then.
CopyOut == \/ {image, patch, removal} # {Unheld}
           \/ \E t \in Tasks : at[t] = "flipping"

\* storage.update. It moves no status set.
Update(t) ==
  /\ at[t] = "updating"
  /\ blob' = Merge(blob, copy[t])
  /\ recorded' = recorded \cup {t}
  /\ exposed' = IF CopyOut THEN exposed \cup {t} ELSE exposed
  /\ Move(t, "registered") /\ Keep(t, Unheld)
  /\ UNCHANGED <<tickets, member, holder, runner, island>>

\* Errors and cancellation are swallowed: the child is stored.
UpdateFails(t) ==
  /\ at[t] \in {"getting", "updating"}
  /\ Move(t, "registered") /\ Keep(t, Unheld)
  /\ UNCHANGED <<tickets, blob, member, holder, runner, island, history>>

\* The child is ingested, and its ticket released.
Ingested(t) ==
  /\ at[t] = "registered"
  /\ Move(t, "over") /\ Release(t)
  /\ UNCHANGED <<tickets, blob, member, copy, runner, island, history>>

-----------------------------------------------------------------------------
(* The DAG runner (DagRunner has its failures).                            *)

\* _launch reads what the status set names, whatever its blob says. (The state
\* of the object does not matter before it is marked.)
Launch ==
  /\ QUEUED \in member /\ image = Unheld
  /\ image' = [blob EXCEPT !.state = QUEUED]
  /\ patch' = Unheld
  /\ UNCHANGED <<tickets, blob, member, holder, at, copy, island, history>>

\* batch_transition_by_ids QUEUED -> RUNNING, in two round trips.
MarkRead ==
  /\ image # Unheld /\ image.state = QUEUED /\ patch = Unheld
  /\ IF blob.state = QUEUED
       THEN patch' = blob /\ UNCHANGED image
       ELSE image' = [image EXCEPT !.state = RUNNING] /\ UNCHANGED patch
  /\ UNCHANGED <<tickets, blob, member, holder, at, copy, island, history>>
MarkWrite ==
  /\ patch # Unheld
  /\ blob' = [patch EXCEPT !.state = RUNNING]
  /\ member' = Moved(QUEUED, RUNNING)
  /\ image' = [image EXCEPT !.state = RUNNING]
  /\ patch' = Unheld
  /\ UNCHANGED <<tickets, holder, at, copy, island, history>>

\* The evaluation ends: the runner's object is written in full.
Finish ==
  /\ image # Unheld /\ image.state = RUNNING
  /\ \E end \in {DONE, DISCARDED} :
       /\ blob' = [image EXCEPT !.state = end]
       /\ member' = Moved(RUNNING, end)
  /\ image' = Unheld
  /\ UNCHANGED <<tickets, holder, at, copy, patch, island, history>>

-----------------------------------------------------------------------------
(* An eviction from a full island, _enforce_size_limit.                    *)

Evict ==
  /\ evicting = "kept"
  /\ evicting' = "merging" /\ removal' = blob
  /\ UNCHANGED <<tickets, blob, member, holder, at, copy, runner, history>>

\* current_island is cleared by storage.update ...
EvictUpdate ==
  /\ evicting = "merging"
  /\ blob' = Merge(blob, removal)
  /\ evicting' = "writing"
  /\ UNCHANGED <<tickets, member, holder, at, copy, runner, removal, history>>

\* ... and the parent is written as it was read, but DISCARDED.
EvictWrite ==
  /\ evicting = "writing"
  /\ IF removal.state = DISCARDED
       THEN UNCHANGED <<blob, member>>
       ELSE /\ blob' = [removal EXCEPT !.state = DISCARDED]
            /\ member' = Moved(removal.state, DISCARDED)
  /\ evicting' = "evicted" /\ removal' = Unheld
  /\ UNCHANGED <<tickets, holder, at, copy, runner, history>>

Next ==
  \/ \E t \in Tasks :
       \/ Acquire(t) \/ ReadToFlip(t) \/ Flip(t) \/ Awaited(t) \/ GivesUp(t)
       \/ StoreChild(t) \/ Get(t) \/ Update(t) \/ UpdateFails(t) \/ Ingested(t)
  \/ Launch \/ MarkRead \/ MarkWrite \/ Finish
  \/ Evict \/ EvictUpdate \/ EvictWrite

Spec == Init /\ [][Next]_vars

-----------------------------------------------------------------------------
(* Properties. *)

\* A child recorded in its parent's lineage stays there, over concurrent
\* updates, refreshes, evaluations and an eviction, unless somebody was about
\* to write a copy read before. With tickets, and the parent in its archive,
\* nobody ever is, and its blob and status set agree ("exactly one status set",
\* redis_program_storage.py:282): no update meets an evaluation. (Coalesced or
\* evicted, both fail: README.)
LineageKept ==
  /\ recorded \ exposed \subseteq blob.children
  /\ tickets /\ evicting = "kept" =>
       recorded \subseteq blob.children /\ member = {blob.state}
=============================================================================
