-------------------------- MODULE PopulationSnapshot --------------------------
(***************************************************************************)
(* The population shared by the collector stages of one process:           *)
(* PopulationSnapshot (gigaevo/database/program_storage.py), a list of     *)
(* programs fetched once per epoch, and again, incrementally, after each   *)
(* bump of the ingestor. A program is abstracted to where its evaluation   *)
(* stands; a program is never deleted while the engine runs.               *)
(***************************************************************************)
CONSTANTS
  Programs,    \* program ids
  Readers,     \* collector stages, each in a DAG of its own
  Unlocked     \* value of lock when no reader holds it

\* What the constants must satisfy.
PopulationAssumption == Unlocked \notin Readers

Images == {"absent", "queued", "done", "requeued", "discarded"}
INCOMPLETE_STATES == {"queued", "requeued"}

VARIABLES
  store,       \* store[p]: the program in Redis
  cached,      \* _cached
  idCache,     \* _id_cache
  valid,       \* _cached_epoch = _epoch
  lock,        \* the holder of _lock
  at,          \* at[r]: where reader r stands in get_all
  ids,         \* ids[r]: the programs it reads
  due          \* what was settled at the last bump that met no fetch

vars == <<store, cached, idCache, valid, lock, at, ids, due>>

TypeOK ==
  /\ {store, cached, idCache} \subseteq [Programs -> Images]
  /\ valid \in BOOLEAN
  /\ lock \in Readers \cup {Unlocked}
  /\ at \in [Readers -> {"away", "waiting", "scan", "sunion", "mget", "all"}]
  /\ ids \in [Readers -> SUBSET Programs]
  /\ due \subseteq Programs

Nothing == [p \in Programs |-> "absent"]
In(programs) == {p \in Programs : programs[p] # "absent"}
Settled(programs) == {p \in Programs : programs[p] \notin {"absent", "queued"}}

Init ==
  /\ store = Nothing /\ cached = Nothing /\ idCache = Nothing
  /\ valid = FALSE
  /\ lock = Unlocked
  /\ at = [r \in Readers |-> "away"]
  /\ ids = [r \in Readers |-> {}]
  /\ due = {}

\* add; a launched DAG that ends, or is discarded; a refresh of a parent.
Store(p) ==
  /\ \E image \in Images \ {"absent"} :
       /\ CASE image = "queued" -> store[p] = "absent"
            [] image = "done" -> store[p] \in INCOMPLETE_STATES
            [] image = "requeued" -> store[p] = "done"
            [] image = "discarded" -> store[p] \in INCOMPLETE_STATES \cup {"done"}
       /\ store' = [store EXCEPT ![p] = image]
  /\ UNCHANGED <<cached, idCache, valid, lock, at, ids, due>>

Fetching == \E r \in Readers : at[r] \in {"scan", "sunion", "mget", "all"}

\* bump(incremental=True), by the ingestor: the epoch moves on, and the next
\* fetch starts from what is cached. (due is a history variable.)
Bump ==
  /\ valid' = FALSE
  /\ idCache' = IF idCache = Nothing THEN cached ELSE idCache
  /\ due' = IF Fetching THEN due ELSE Settled(store)
  /\ UNCHANGED <<store, cached, lock, at, ids>>

\* get_all, when the cached list is out of date. (Otherwise it is returned.)
Call(r) ==
  /\ at[r] = "away" /\ ~valid
  /\ at' = [at EXCEPT ![r] = "waiting"]
  /\ UNCHANGED <<store, cached, idCache, valid, lock, ids, due>>

\* With the lock, another reader's fetch may have made the list current.
Enter(r) ==
  /\ at[r] = "waiting" /\ lock = Unlocked
  /\ IF valid
       THEN at' = [at EXCEPT ![r] = "away"] /\ UNCHANGED lock
       ELSE /\ at' = [at EXCEPT ![r] = IF idCache = Nothing THEN "scan"
                                                            ELSE "sunion"]
            /\ lock' = r
  /\ UNCHANGED <<store, cached, idCache, valid, ids, due>>

\* The list is stamped with the epoch of now, whatever it was at the start.
Publish(r, programs) ==
  /\ cached' = programs
  /\ valid' = TRUE
  /\ lock' = Unlocked
  /\ at' = [at EXCEPT ![r] = "away"]

\* The images of the programs in ps are those of the store.
Updated(programs, ps) ==
  [p \in Programs |-> IF p \in ps THEN store[p] ELSE programs[p]]

\* storage.get_all: SCAN for the keys, then MGET.
Scan(r) ==
  /\ at[r] = "scan"
  /\ ids' = [ids EXCEPT ![r] = In(store)]
  /\ at' = [at EXCEPT ![r] = "all"]
  /\ UNCHANGED <<store, cached, idCache, valid, lock, due>>
ReadAll(r) ==
  /\ at[r] = "all"
  /\ Publish(r, Updated(Nothing, ids[r]))
  /\ idCache' = Nothing
  /\ UNCHANGED <<store, ids, due>>

\* Seeded bug: only the new programs are fetched.
NewIds(current) == current \ In(idCache)

\* refresh_ids: the programs not cached, and those cached unfinished.
RefreshIds(current) ==
  {p \in current : idCache[p] \in INCOMPLETE_STATES \cup {"absent"}}

\* _incremental_update: the ids, then the programs to refresh, if any.
ReadIds(r) ==
  /\ at[r] = "sunion"
  /\ LET refresh == RefreshIds(In(store)) IN
       /\ ids' = [ids EXCEPT ![r] = refresh]
       /\ IF refresh = {}
            THEN Publish(r, idCache)
            ELSE at' = [at EXCEPT ![r] = "mget"] /\ UNCHANGED <<cached, valid, lock>>
  /\ UNCHANGED <<store, idCache, due>>
ReadPrograms(r) ==
  /\ at[r] = "mget"
  /\ idCache' = Updated(idCache, ids[r])
  /\ Publish(r, idCache')
  /\ UNCHANGED <<store, ids, due>>

\* A Redis error, or the stage is cancelled: nothing has been assigned yet.
Fails(r) ==
  /\ at[r] # "away"
  /\ at' = [at EXCEPT ![r] = "away"]
  /\ lock' = IF lock = r THEN Unlocked ELSE lock
  /\ UNCHANGED <<store, cached, idCache, valid, ids, due>>

Next ==
  \/ \E p \in Programs : Store(p)
  \/ Bump
  \/ \E r \in Readers :
       Call(r) \/ Enter(r) \/ Scan(r) \/ ReadAll(r) \/ ReadIds(r)
       \/ ReadPrograms(r) \/ Fails(r)

Spec == Init /\ [][Next]_vars

-----------------------------------------------------------------------------
(* Properties. *)

\* "Without this bump, the population snapshot stays frozen" (ingestor.py:119):
\* with it, and whatever fetches fail, overlap or are incremental, a reader is
\* given every program settled at the last bump, with its evaluation. (A bump
\* that meets a fetch under way is not honoured: program_storage.py:97.)
BumpHonoured == valid => due \subseteq Settled(cached)
=============================================================================
