----------------------------- MODULE InstanceLock -----------------------------
(***************************************************************************)
(* The lock by which one process at a time works under a Redis prefix:     *)
(* RedisInstanceLock (gigaevo/database/redis/locking.py) under the retries *)
(* of RedisConnection.execute. A read of the key and the write that relies *)
(* on it are two round trips; the key expires when it is not renewed.      *)
(***************************************************************************)
EXTENDS Naturals, FiniteSets

CONSTANTS
  Instances,   \* processes; each has an instance id of its own
  Free,        \* value of key when it does not exist
  MaxLapses    \* bound: expiries of the key of a process that still works

\* What the constants must satisfy.
LockAssumption == Free \notin Instances /\ MaxLapses \in Nat

VARIABLES
  key,         \* whose instance id the key instance_lock holds
  at,          \* at[i]: where process i stands
  lapses       \* counter: how often the key expired under a living owner

vars == <<key, at, lapses>>

TypeOK ==
  /\ key \in Instances \cup {Free}
  /\ at \in [Instances -> {"new", "holding", "renewing", "unrenewed",
                           "releasing", "gone"}]
  /\ lapses \in Nat

Init ==
  /\ key = Free
  /\ at = [i \in Instances |-> "new"]
  /\ lapses = 0

Move(i, s) == at' = [at EXCEPT ![i] = s]

\* Those that work under the prefix; nothing stops one that lost the lock.
Working == {i \in Instances : at[i] \in {"holding", "renewing", "unrenewed"}}

\* Seeded bug: a GET and a SET instead of SET NX.
AcquireInTwoSteps(i) ==
  /\ \/ at[i] = "new" /\ key = Free /\ Move(i, "found") /\ UNCHANGED key
     \/ at[i] = "found" /\ key' = i /\ Move(i, "holding")
  /\ UNCHANGED lapses

\* acquire: SET NX, or StorageError. When the reply is lost the retry finds
\* the process's own value in the key, and raises as well.
Acquire(i) ==
  /\ at[i] = "new"
  /\ IF key = Free
       THEN key' = i /\ (Move(i, "holding") \/ Move(i, "gone"))
       ELSE Move(i, "gone") /\ UNCHANGED key
  /\ UNCHANGED lapses

\* renew, every lock_renewal_secs. The renewal task ends when the lock is
\* found lost; the process works on.
Renew(i) ==
  /\ at[i] = "holding"
  /\ Move(i, IF key = i THEN "renewing" ELSE "unrenewed")
  /\ UNCHANGED <<key, lapses>>
RenewWrite(i) ==
  /\ at[i] = "renewing"
  /\ key' = i
  /\ Move(i, "holding")
  /\ UNCHANGED lapses
\* Redis fails between the two and execute begins again, or the last attempt
\* fails, which ends the renewal task too.
RenewFails(i) ==
  /\ \/ at[i] = "renewing" /\ (Move(i, "holding") \/ Move(i, "unrenewed"))
     \/ at[i] = "holding" /\ Move(i, "unrenewed")
  /\ UNCHANGED <<key, lapses>>

\* release, after the renewal task is cancelled: the key is deleted if it was
\* this process's a round trip ago.
Release(i) ==
  /\ i \in Working
  /\ Move(i, IF key = i THEN "releasing" ELSE "gone")
  /\ UNCHANGED <<key, lapses>>
Delete(i) ==
  /\ at[i] = "releasing"
  /\ key' = Free
  /\ Move(i, "gone")
  /\ UNCHANGED lapses

\* The process dies, or its release fails.
Crash(i) ==
  /\ i \in Working \/ at[i] = "releasing"
  /\ Move(i, "gone")
  /\ UNCHANGED <<key, lapses>>

\* lock_expiry_secs have gone by since the key was written.
Expire ==
  /\ key # Free
  /\ key' = Free
  /\ IF key \in Working \/ at[key] = "releasing"
       THEN lapses < MaxLapses /\ lapses' = lapses + 1
       ELSE UNCHANGED lapses
  /\ UNCHANGED at

Next ==
  \/ \E i \in Instances :
       \/ Acquire(i) \/ Renew(i) \/ RenewWrite(i) \/ RenewFails(i)
       \/ Release(i) \/ Delete(i) \/ Crash(i)
  \/ Expire

Spec == Init /\ [][Next]_vars

-----------------------------------------------------------------------------
(* Properties. *)

\* "Prevents multiple instances from using the same Redis prefix"
\* (locking.py:22), as far as it goes: processes that renew over one another's
\* keys, delete them late, crash or lose replies add no process of their own;
\* each key that expires under a living owner adds one at most.
OneMorePerLapse == Cardinality(Working) <= 1 + lapses
=============================================================================
