----------------------------- MODULE MCServices -----------------------------
(***************************************************************************)
(* Seven components that share no state, one of which moves in a behaviour:  *)
(* the migration bus, the engine snapshot, the endpoint pool, the          *)
(* coalesced parent refresh, the lineage of a parent, the population cache *)
(* and the instance lock.                                                  *)
(***************************************************************************)
EXTENDS Naturals, Sequences

CONSTANTS
  R1, R2, R3, Nobody, PollCount, BufferSize, DrainCount, MaxPublished,
  MaxTroubles,
  Tasks, Seeds, None, MaxSweeps, MaxLives,
  Endpoints, LlmCalls, Nowhere,
  Parents, Callers, MaxCalls,
  Programs, Readers, Unlocked,
  Instances, Free, MaxLapses,
  Children, Unheld

Order == <<R1, R2, R3>>

VARIABLES
  part,
  topology, stream, claim, lapsed, phase, cursor, saved, polled, won, buffer,
  arrivals, imports, troubles, calm,
  stored, mirror, counter, life, stage, ordinal, program, queue, lives, rough,
  inflight, cooling, callAt, endpoint, twice,
  idle, fresh, at, want, seen, held, stale, calls, flips, cycles,
  store, cached, idCache, valid, lock, readerAt, ids, due,
  key, lockAt, lapses,
  tickets, blob, member, holder, taskAt, copy, image, patch, evicting, removal,
  recorded, exposed

Bus == INSTANCE MigrationBus
Snapshot == INSTANCE EngineSnapshot
Pool == INSTANCE EndpointPool WITH Calls <- LlmCalls, at <- callAt
Refresh == INSTANCE ParentRefresh
Population == INSTANCE PopulationSnapshot WITH at <- readerAt
Lock == INSTANCE InstanceLock WITH at <- lockAt
Lineage == INSTANCE ParentLineage WITH Tasks <- Children, at <- taskAt

ASSUME ServicesAssumption ==
  /\ Bus!BusAssumption /\ Snapshot!SnapshotAssumption
  /\ Pool!PoolAssumption /\ Refresh!RefreshAssumption
  /\ Population!PopulationAssumption /\ Lock!LockAssumption
  /\ Lineage!LineageAssumption

busVars == <<topology, stream, claim, lapsed, phase, cursor, saved, polled,
             won, buffer, arrivals, imports, troubles, calm>>
snapshotVars == <<stored, mirror, counter, life, stage, ordinal, program,
                  queue, lives, rough>>
poolVars == <<inflight, cooling, callAt, endpoint, twice>>
refreshVars == <<idle, fresh, at, want, seen, held, stale, calls, flips, cycles>>
populationVars == <<store, cached, idCache, valid, lock, readerAt, ids, due>>
lockVars == <<key, lockAt, lapses>>
lineageVars == <<tickets, blob, member, holder, taskAt, copy, image, patch,
                 evicting, removal, recorded, exposed>>
vars == <<part, busVars, snapshotVars, poolVars, refreshVars, populationVars,
          lockVars, lineageVars>>

Init ==
  /\ part \in {"bus", "snapshot", "pool", "refresh", "population", "lock",
              "lineage"}
  /\ Bus!Init /\ Snapshot!Init /\ Pool!Init /\ Refresh!Init
  /\ Population!Init /\ Lock!Init /\ Lineage!Init
  /\ part # "bus" => topology = "bus"
  /\ part # "lineage" => tickets

BusNext ==
  /\ part = "bus" /\ Bus!Next
  /\ UNCHANGED <<part, snapshotVars, poolVars, refreshVars, populationVars,
                 lockVars, lineageVars>>
SnapshotNext ==
  /\ part = "snapshot" /\ Snapshot!Next
  /\ UNCHANGED <<part, busVars, poolVars, refreshVars, populationVars, lockVars,
                 lineageVars>>
PoolNext ==
  /\ part = "pool" /\ Pool!Next
  /\ UNCHANGED <<part, busVars, snapshotVars, refreshVars, populationVars,
                 lockVars, lineageVars>>
RefreshNext ==
  /\ part = "refresh" /\ Refresh!Next
  /\ UNCHANGED <<part, busVars, snapshotVars, poolVars, populationVars, lockVars,
                 lineageVars>>
PopulationNext ==
  /\ part = "population" /\ Population!Next
  /\ UNCHANGED <<part, busVars, snapshotVars, poolVars, refreshVars, lockVars,
                 lineageVars>>
LockNext ==
  /\ part = "lock" /\ Lock!Next
  /\ UNCHANGED <<part, busVars, snapshotVars, poolVars, refreshVars,
                 populationVars, lineageVars>>
LineageNext ==
  /\ part = "lineage" /\ Lineage!Next
  /\ UNCHANGED <<part, busVars, snapshotVars, poolVars, refreshVars,
                 populationVars, lockVars>>

Next ==
  \/ BusNext \/ SnapshotNext \/ PoolNext \/ RefreshNext \/ PopulationNext
  \/ LockNext \/ LineageNext

\* The poll loops and the drain loops do not all stand still while one of
\* them has something to do. (Their work is finite, so each of it is done.)
BusLoops ==
  /\ part = "bus" /\ \E i \in 1..3 : Bus!Poll(Order[i]) \/ Bus!DrainStep(Order[i])
  /\ UNCHANGED <<part, snapshotVars, poolVars, refreshVars, populationVars,
                 lockVars, lineageVars>>

FairSpec == Init /\ [][Next]_vars /\ WF_vars(BusLoops)

-----------------------------------------------------------------------------
\* A migrant is imported at most once over all runs.
TakenOnce == Bus!TakenOnce

\* A published migrant is imported, unless something goes wrong.
MigrantsLand == Bus!MigrantsLand

\* No confirmed snapshot is lost.
ConfirmedKept == Snapshot!ConfirmedKept

\* The stored snapshot lies beyond the ordinals of the counted programs.
Covered == Snapshot!Covered

\* No two programs have the same ordinal, as long as nothing crashes.
OrdinalsUnique == Snapshot!OrdinalsUnique

\* The in-flight counts are the calls at work and the calls cut off.
LoadExact == Pool!LoadExact

\* One flip per parent for every time it goes stale or its refresh fails.
FlipsBounded == Refresh!FlipsBounded

\* Readers are given what was settled at the last bump that met no fetch.
BumpHonoured == Population!BumpHonoured

\* One process more works under the prefix for each key that lapsed.
OneMorePerLapse == Lock!OneMorePerLapse

\* Recorded children stay in the lineage unless a copy is about to be written.
LineageKept == Lineage!LineageKept
=============================================================================
