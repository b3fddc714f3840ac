---------------------------- MODULE ParentRefresh ----------------------------
(***************************************************************************)
(* The coalesced refresh of parents: refresh_if_stale and                  *)
(* mark_children_completed of ParentRefresher (gigaevo/evolution/engine/   *)
(* refresh.py). (The refresh with a ticket is in SteadyState.) A caller is *)
(* a mutant task; it mutates the parents it got back, and the ingestor     *)
(* reports its child. A parent that is discarded or vanishes while it is   *)
(* awaited shows as a failure of the call, like a timeout.                 *)
(***************************************************************************)
EXTENDS Naturals, FiniteSets

CONSTANTS
  Parents,     \* program ids, numbers for the order of the locks
  Callers,     \* mutant tasks
  MaxCalls     \* bound: calls of refresh_if_stale

\* What the constants must satisfy.
RefreshAssumption == Parents \subseteq Nat /\ MaxCalls \in Nat

VARIABLES
  idle,     \* the parents DONE in Redis; the others wait for the DAG or run
  fresh,    \* _fresh
  at,       \* at[c]: where caller c stands
  want,     \* want[c]: the parents of its call
  seen,     \* seen[c]: those whose object it has read as DONE
  held,     \* held[c]: the parents whose locks it holds
  stale,    \* stale[c]: stale_ids
  calls,    \* counter for the bound
  flips,    \* flips[p]: how often p was flipped DONE -> QUEUED
  cycles    \* cycles[p]: how often p went stale, or its refresh failed

vars == <<idle, fresh, at, want, seen, held, stale, calls, flips, cycles>>

TypeOK ==
  /\ {idle, fresh} \subseteq SUBSET Parents
  /\ at \in [Callers -> {"away", "locking", "flipping", "awaiting",
                         "fetching", "mutating"}]
  /\ {want, seen, held, stale} \subseteq [Callers -> SUBSET Parents]
  /\ calls \in Nat
  /\ {flips, cycles} \subseteq [Parents -> Nat]

Init ==
  /\ idle = Parents
  /\ fresh = {}
  /\ at = [c \in Callers |-> "away"]
  /\ want = [c \in Callers |-> {}]
  /\ seen = want /\ held = want /\ stale = want
  /\ calls = 0
  /\ flips = [p \in Parents |-> 0]
  /\ cycles = flips

Move(c, s) == at' = [at EXCEPT ![c] = s]
Counted(counter, ps) ==
  [p \in Parents |-> IF p \in ps THEN counter[p] + 1 ELSE counter[p]]

\* The archive's elites are read: objects in whatever state they are then.
Begin(c) ==
  /\ at[c] = "away" /\ calls < MaxCalls
  /\ Move(c, "locking")
  /\ \E ps \in SUBSET Parents \ {{}} :
       /\ want' = [want EXCEPT ![c] = ps]
       /\ seen' = [seen EXCEPT ![c] = ps \cap idle]
  /\ calls' = calls + 1
  /\ UNCHANGED <<idle, fresh, held, stale, flips, cycles>>

\* Seeded bug: freshness is read before the locks are held.
LockChecked(c) ==
  /\ at[c] = "locking"
  /\ \E p \in want[c] \ held[c] :
       /\ \A q \in want[c] \ held[c] : p <= q
       /\ \A d \in Callers : p \notin held[d]
       /\ held' = [held EXCEPT ![c] = @ \cup {p}]
       /\ stale' = [stale EXCEPT ![c] =
                      IF held[c] = {} THEN want[c] \ fresh ELSE @]
  /\ Move(c, IF held'[c] = want[c] THEN "flipping" ELSE "locking")
  /\ UNCHANGED <<idle, fresh, want, seen, calls, flips, cycles>>

\* The locks are taken in the order of the ids; with the last one held the
\* call looks which of its parents are stale.
Lock(c) ==
  /\ at[c] = "locking"
  /\ \E p \in want[c] \ held[c] :
       /\ \A q \in want[c] \ held[c] : p <= q
       /\ \A d \in Callers : p \notin held[d]
       /\ held' = [held EXCEPT ![c] = @ \cup {p}]
  /\ IF held'[c] # want[c]
       THEN UNCHANGED <<at, stale>>
       ELSE /\ stale' = [stale EXCEPT ![c] = want[c] \ fresh]
            /\ Move(c, IF want[c] \subseteq fresh THEN "fetching"
                                                  ELSE "flipping")
  /\ UNCHANGED <<idle, fresh, want, seen, calls, flips, cycles>>

\* _do_refresh: the stale parents read as DONE, of which Redis moves those
\* that are. The others are awaited only.
Flip(c) ==
  /\ at[c] = "flipping"
  /\ LET flipped == stale[c] \cap seen[c] \cap idle IN
     /\ idle' = idle \ flipped
     /\ flips' = Counted(flips, flipped)
  /\ Move(c, "awaiting")
  /\ UNCHANGED <<fresh, want, seen, held, stale, calls, cycles>>

Released(c) == held' = [held EXCEPT ![c] = {}]

\* _await_done finds all of them DONE, and they are fresh, whatever has been
\* completed meanwhile.
Refreshed(c) ==
  /\ at[c] = "awaiting" /\ stale[c] \subseteq idle
  /\ fresh' = fresh \cup stale[c]
  /\ IF want[c] = stale[c]
       THEN Released(c) /\ Move(c, "mutating")
       ELSE Move(c, "fetching") /\ UNCHANGED held
  /\ UNCHANGED <<idle, want, seen, stale, calls, flips, cycles>>

\* A timeout, a discarded or vanished parent, a Redis error or a cancellation
\* before any parent is marked fresh.
AwaitFails(c) ==
  /\ at[c] \in {"locking", "flipping", "awaiting"}
  /\ Released(c) /\ Move(c, "away")
  /\ cycles' = IF at[c] = "locking" THEN cycles ELSE Counted(cycles, stale[c])
  /\ UNCHANGED <<idle, fresh, want, seen, stale, calls, flips>>

\* The fresh parents are read.
Fetched(c) ==
  /\ at[c] = "fetching"
  /\ Released(c) /\ Move(c, "mutating")
  /\ UNCHANGED <<idle, fresh, want, seen, stale, calls, flips, cycles>>

\* Reading them fails: what this call has marked fresh is unmarked.
FetchFails(c) ==
  /\ at[c] = "fetching"
  /\ Released(c) /\ Move(c, "away")
  /\ fresh' = fresh \ stale[c]
  /\ cycles' = Counted(cycles, stale[c] \cap fresh)
  /\ UNCHANGED <<idle, want, seen, stale, calls, flips>>

\* mark_children_completed, when the child is ingested; or there is no child.
ChildCompletes(c) ==
  /\ at[c] = "mutating"
  /\ Move(c, "away")
  /\ \/ /\ fresh' = fresh \ want[c]
        /\ cycles' = Counted(cycles, want[c] \cap fresh)
     \/ UNCHANGED <<fresh, cycles>>
  /\ UNCHANGED <<idle, want, seen, held, stale, calls, flips>>

\* The DAG runner has evaluated a parent.
Evaluated(p) ==
  /\ p \notin idle
  /\ idle' = idle \cup {p}
  /\ UNCHANGED <<fresh, at, want, seen, held, stale, calls, flips, cycles>>

Next ==
  \/ \E c \in Callers :
       \/ Begin(c) \/ Lock(c) \/ Flip(c) \/ Refreshed(c) \/ AwaitFails(c)
       \/ Fetched(c) \/ FetchFails(c) \/ ChildCompletes(c)
  \/ \E p \in Parents : Evaluated(p)

Spec == Init /\ [][Next]_vars

-----------------------------------------------------------------------------
(* Properties. *)

\* "Net work per stale->fresh->stale cycle is exactly one flip, regardless of
\* how many concurrent mutations launch" (refresh.py:281), from above: however
\* callers overlap on one or several parents, a parent is sent back to the DAG
\* runner once, and once more for every time a child's completion made it
\* stale or a refresh of it failed.
FlipsBounded == \A p \in Parents : flips[p] <= cycles[p] + 1
=============================================================================
