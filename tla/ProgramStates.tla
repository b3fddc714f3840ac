---------------------------- MODULE ProgramStates ----------------------------
(***************************************************************************)
(* The life cycle of a program (gigaevo/programs/program_state.py): four   *)
(* states and the table of valid transitions.                              *)
(***************************************************************************)
EXTENDS Naturals

QUEUED == "queued"
RUNNING == "running"
DONE == "done"
DISCARDED == "discarded"

States == {QUEUED, RUNNING, DONE, DISCARDED}

ValidTransitions ==
  [s \in States |->
     CASE s = QUEUED -> {RUNNING, DISCARDED}
       [] s = RUNNING -> {DONE, DISCARDED}
       [] s = DONE -> {QUEUED, DISCARDED}
       [] s = DISCARDED -> {}]

IsValidTransition(current, new) ==
  current = new \/ new \in ValidTransitions[current]

\* What storage.update makes of the stored state and the caller's. (Between any
\* two states there is a transition one way or the other.)
MergeStates(current, incoming) ==
  IF DISCARDED \in {current, incoming} THEN DISCARDED
  ELSE IF IsValidTransition(current, incoming) THEN incoming ELSE current
=============================================================================
