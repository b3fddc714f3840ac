---------------------------- MODULE ProgramStore ----------------------------
(***************************************************************************)
(* The Redis program storage (gigaevo/database/redis_program_storage.py)   *)
(* as its callers use it: one blob per program and one status set per      *)
(* state. Every public operation is one or more round trips; an operator   *)
(* here is the effect of ONE round trip (a pipeline is sent in one piece), *)
(* and the modules that EXTEND this one interleave the round trips of      *)
(* their actors. A blob keeps what those callers tell apart: the state,    *)
(* whether the program carries results of a finished evaluation, and how   *)
(* often it was requeued as an orphan.                                     *)
(***************************************************************************)
EXTENDS ProgramStates, FiniteSets

CONSTANTS Programs,      \* the program ids
          RetryBudget    \* orphan_retry_budget of the DAG runner

ASSUME StoreAssumption == RetryBudget \in Nat

VARIABLES blob,     \* blob[p]: the JSON blob of program p (Absent: no key)
          member    \* member[p]: the status sets whose members include p

storeVars == <<blob, member>>

Image == [state: States \cup {"absent"}, evidence: BOOLEAN, retries: Nat]
Absent == [state |-> "absent", evidence |-> FALSE, retries |-> 0]
Fresh == [state |-> QUEUED, evidence |-> FALSE, retries |-> 0]

Stored(p) == blob[p] # Absent
IdsByStatus(s) == {p \in Programs : s \in member[p]}
WithState(img, s) == [img EXCEPT !.state = s]

\* SREM from one status set and SADD to another, for every program of ps.
Moved(ps, old, new) ==
  [p \in Programs |->
     IF p \in ps THEN (member[p] \ {old}) \cup {new} ELSE member[p]]

StoreTypeOK ==
  /\ blob \in [Programs -> Image]
  /\ member \in [Programs -> SUBSET States]

StoreInit ==
  /\ blob = [p \in Programs |-> Absent]
  /\ member = [p \in Programs |-> {}]

\* Seeded bug: the old and the new status set are exchanged.
AddSwapped(p, img) ==
  /\ blob' = [blob EXCEPT ![p] = img]
  /\ member' = Moved({p}, img.state, blob[p].state)

\* add: SET the blob, leave the old blob's status set, enter the new one.
Add(p, img) ==
  /\ blob' = [blob EXCEPT ![p] = img]
  /\ member' = Moved({p}, blob[p].state, img.state)

\* write_exclusive: SET, no merge with the stored blob, no status set touched.
WriteExclusive(p, img) ==
  /\ blob' = [blob EXCEPT ![p] = img]
  /\ UNCHANGED member

\* Seeded bug: a stale entry is removed and not moved.
RemoveStatus(ps, old, new) ==
  /\ member' = [p \in Programs |->
                  IF p \in ps THEN member[p] \ {old} ELSE member[p]]
  /\ UNCHANGED blob

\* transition_status and batch_move_status_sets: status sets only.
MoveStatus(ps, old, new) ==
  /\ member' = Moved(ps, old, new)
  /\ UNCHANGED blob

\* fast_state_transition: the pipeline after its INCR. It writes the caller's
\* object whatever the store holds; old is the caller's idea of the old state.
FastStateTransition(p, img, old, new) ==
  /\ blob' = [blob EXCEPT ![p] = img]
  /\ member' = Moved({p}, old, new)

\* batch_transition_state: the pipeline after its INCRBY. objs[p] is the
\* caller's object of p; every object is written with the new state.
BatchTransitionState(objs, ps, old, new) ==
  /\ blob' = [p \in Programs |->
                IF p \in ps THEN WithState(objs[p], new) ELSE blob[p]]
  /\ member' = Moved(ps, old, new)

\* batch_transition_by_ids first MGETs the blobs and keeps those in the old
\* state; its pipeline then writes the blobs it read back, with the new state.
PatchableAmong(ids, old) == {p \in ids : blob[p].state = old}

BatchTransitionByIds(read, patch, old, new) ==
  BatchTransitionState(read, patch, old, new)
=============================================================================
