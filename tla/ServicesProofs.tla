--------------------------- MODULE ServicesProofs ---------------------------
(***************************************************************************)
(* What the components of MCServices keep, each by itself and side by      *)
(* side: every step of MCServices is a step or a stutter of each of them.  *)
(* The proofs about the pool, the refresher, the population cache and the  *)
(* instance lock are here; those about the bus, the snapshot and the       *)
(* lineage are long, and in modules of their own.                          *)
(***************************************************************************)
EXTENDS MCServices, FiniteSetTheorems, TLAPS

BusProofs == INSTANCE MigrationBusProofs
SnapshotProofs == INSTANCE EngineSnapshotProofs
LineageProofs == INSTANCE ParentLineageProofs
                   WITH Tasks <- Children, at <- taskAt

-----------------------------------------------------------------------------
(* Each component is let alone by the steps of the others. *)

LEMMA ComponentSteps ==
  ASSUME [Next]_vars
  PROVE  /\ [Bus!Next]_busVars
         /\ [Snapshot!Next]_snapshotVars
         /\ [Pool!Next]_poolVars
         /\ [Refresh!Next]_refreshVars
         /\ [Population!Next]_populationVars
         /\ [Lock!Next]_lockVars
         /\ [Lineage!Next]_lineageVars
BY DEF Next, BusNext, SnapshotNext, PoolNext, RefreshNext, PopulationNext,
       LockNext, LineageNext, vars

-----------------------------------------------------------------------------
(* The endpoint pool: a step takes one call into the set an endpoint's     *)
(* count stands for, or out of it, and moves the count by the same, or     *)
(* leaves both alone.                                                      *)

Charged == {"open", "answered", "failed", "leaked"}

Exact ==
  ~twice =>
    \A e \in Endpoints : inflight[e] = Cardinality(Pool!Counted(e))

PoolInv ==
  /\ Pool!TypeOK
  /\ \A c \in LlmCalls : callAt[c] # "new" => endpoint[c] \in Endpoints
  /\ Exact

-----------------------------------------------------------------------------
\* The counts of the instance are those of the library.
LEMMA PoolCounts ==
  /\ Pool!PoolAssumption => IsFiniteSet(LlmCalls)
  /\ Exact <=> Pool!LoadExact
BY DEF Pool!PoolAssumption, Pool!IsFiniteSet, IsFiniteSet, Exact,
       Pool!LoadExact, Pool!Cardinality, Cardinality

LEMMA CountedFinite ==
  ASSUME Pool!PoolAssumption, NEW e
  PROVE  IsFiniteSet(Pool!Counted(e)) /\ Cardinality(Pool!Counted(e)) \in Nat
BY PoolCounts, FS_Subset, FS_CardinalityType DEF Pool!Counted

\* A call is charged to one endpoint.
LEMMA ChargedOnce ==
  ASSUME Pool!PoolAssumption, PoolInv, NEW c \in LlmCalls, NEW e \in Endpoints,
         callAt[c] = "new", UNCHANGED twice, inflight' = [inflight EXCEPT ![e] = @ + 1],
         endpoint' = [endpoint EXCEPT ![c] = e],
         NEW s \in Charged, callAt' = [callAt EXCEPT ![c] = s]
  PROVE  Exact'
<1> SUFFICES ASSUME ~twice', NEW f \in Endpoints
             PROVE  inflight'[f] = Cardinality(Pool!Counted(f)')
  BY DEF Exact
<1>1. inflight[f] = Cardinality(Pool!Counted(f)) /\ c \notin Pool!Counted(f)
  BY DEF PoolInv, Exact, Pool!Counted
<1>2. CASE f = e
  <2>1. Pool!Counted(f)' = Pool!Counted(f) \cup {c}
    BY <1>2 DEF PoolInv, Pool!TypeOK, Pool!Counted, Charged
  <2>2. Cardinality(Pool!Counted(f)') = Cardinality(Pool!Counted(f)) + 1
    BY <1>1, <2>1, CountedFinite, FS_AddElement
  <2> QED
    BY <1>1, <1>2, <2>2 DEF PoolInv, Pool!TypeOK
<1>3. CASE f # e
  <2>1. Pool!Counted(f)' = Pool!Counted(f)
    BY <1>1, <1>3 DEF PoolInv, Pool!TypeOK, Pool!Counted
  <2> QED
    BY <1>1, <1>3, <2>1 DEF PoolInv, Pool!TypeOK
<1> QED
  BY <1>2, <1>3

\* A call ends, and its endpoint counts one less.
LEMMA DischargedOnce ==
  ASSUME Pool!PoolAssumption, PoolInv, NEW c \in LlmCalls, callAt[c] \in Charged,
         UNCHANGED <<endpoint, twice>>,
         inflight' = [inflight EXCEPT ![endpoint[c]] = @ - 1],
         callAt' = [callAt EXCEPT ![c] = "over"]
  PROVE  Exact'
<1> SUFFICES ASSUME ~twice', NEW f \in Endpoints
             PROVE  inflight'[f] = Cardinality(Pool!Counted(f)')
  BY DEF Exact
<1>1. inflight[f] = Cardinality(Pool!Counted(f))
  BY DEF PoolInv, Exact
<1>2. CASE f = endpoint[c]
  <2>1. Pool!Counted(f)' = Pool!Counted(f) \ {c} /\ c \in Pool!Counted(f)
    BY <1>2 DEF PoolInv, Pool!TypeOK, Pool!Counted, Charged
  <2>2. Cardinality(Pool!Counted(f)') = Cardinality(Pool!Counted(f)) - 1
    BY <2>1, CountedFinite, FS_RemoveElement
  <2> QED
    BY <1>1, <1>2, <2>2 DEF PoolInv, Pool!TypeOK
<1>3. CASE f # endpoint[c]
  <2>1. Pool!Counted(f)' = Pool!Counted(f)
    BY <1>3 DEF PoolInv, Pool!TypeOK, Pool!Counted
  <2> QED
    BY <1>1, <1>3, <2>1 DEF PoolInv, Pool!TypeOK
<1> QED
  BY <1>2, <1>3

\* A call goes on, charged as before.
LEMMA StillCharged ==
  ASSUME PoolInv, NEW c \in LlmCalls, callAt[c] \in Charged,
         NEW s \in Charged, callAt' = [callAt EXCEPT ![c] = s],
         UNCHANGED <<inflight, endpoint, twice>>
  PROVE  Exact'
<1>1. \A e \in Endpoints : Pool!Counted(e)' = Pool!Counted(e)
  BY DEF PoolInv, Pool!TypeOK, Pool!Counted, Charged
<1> QED
  BY <1>1 DEF PoolInv, Exact

-----------------------------------------------------------------------------
LEMMA PoolTypeKeeps ==
  ASSUME PoolInv, Pool!Next
  PROVE  /\ Pool!TypeOK'
         /\ \A c \in LlmCalls : callAt'[c] # "new" => endpoint'[c] \in Endpoints
<1>1. ASSUME NEW c \in LlmCalls, Pool!Acquire(c)
      PROVE  /\ Pool!TypeOK'
             /\ \A d \in LlmCalls : callAt'[d] # "new" => endpoint'[d] \in Endpoints
  <2>1. PICK e \in Pool!Candidates : /\ Pool!Add(e, 1)
                                /\ endpoint' = [endpoint EXCEPT ![c] = e]
    BY <1>1 DEF Pool!Acquire
  <2>2. e \in Endpoints
    BY DEF Pool!Candidates
  <2> QED
    BY <1>1, <2>1, <2>2
       DEF PoolInv, Pool!TypeOK, Pool!Acquire, Pool!Add, Pool!Move
<1>2. ASSUME NEW c \in LlmCalls,
             \/ Pool!Answer(c) \/ Pool!Cancel(c) \/ Pool!Release(c)
             \/ Pool!ReleaseFails(c) \/ Pool!MarkUnhealthy(c) \/ Pool!MarkFails(c)
      PROVE  /\ Pool!TypeOK'
             /\ \A d \in LlmCalls : callAt'[d] # "new" => endpoint'[d] \in Endpoints
  <2>1. callAt[c] # "new" /\ endpoint' = endpoint
    BY <1>2
       DEF Pool!Answer, Pool!Cancel, Pool!Release, Pool!ReleaseFails,
           Pool!MarkUnhealthy, Pool!MarkFails
  <2>2. endpoint[c] \in Endpoints
    BY <2>1 DEF PoolInv
  <2>3. callAt' \in [LlmCalls -> {"new", "open", "answered", "failed", "leaked", "over"}]
        /\ \A d \in LlmCalls : callAt'[d] # "new" => callAt[d] # "new"
    BY <1>2, <2>1
       DEF PoolInv, Pool!TypeOK, Pool!Answer, Pool!Cancel, Pool!Release,
           Pool!ReleaseFails,
                      Pool!MarkUnhealthy, Pool!MarkFails, Pool!Move
  <2>4. inflight' \in [Endpoints -> Int]
    BY <1>2
       DEF PoolInv, Pool!TypeOK, Pool!Answer, Pool!Cancel, Pool!Release,
           Pool!ReleaseFails,
                Pool!MarkUnhealthy, Pool!MarkFails, Pool!Add
  <2>5. cooling' \in SUBSET Endpoints /\ twice' \in BOOLEAN
    BY <1>2, <2>2
       DEF PoolInv, Pool!TypeOK, Pool!Answer, Pool!Cancel, Pool!Release,
           Pool!ReleaseFails,
                      Pool!MarkUnhealthy, Pool!MarkFails
  <2> QED
    BY <2>1, <2>3, <2>4, <2>5 DEF PoolInv, Pool!TypeOK
<1>3. ASSUME NEW e \in Endpoints, Pool!CooldownEnds(e)
      PROVE  /\ Pool!TypeOK'
             /\ \A d \in LlmCalls : callAt'[d] # "new" => endpoint'[d] \in Endpoints
  BY <1>3 DEF PoolInv, Pool!TypeOK, Pool!CooldownEnds
<1> QED
  BY <1>1, <1>2, <1>3 DEF Pool!Next

LEMMA LoadKeeps ==
  ASSUME Pool!PoolAssumption, PoolInv, Pool!Next
  PROVE  Exact'
<1>1. ASSUME NEW c \in LlmCalls, Pool!Acquire(c)
      PROVE  Exact'
  <2>1. PICK e \in Endpoints : /\ Pool!Add(e, 1)
                               /\ endpoint' = [endpoint EXCEPT ![c] = e]
    BY <1>1 DEF Pool!Acquire, Pool!Candidates
  <2>2. PICK s \in {"open", "leaked"} : callAt' = [callAt EXCEPT ![c] = s]
    BY <1>1 DEF Pool!Acquire, Pool!Move
  <2> QED
    BY <1>1, <2>1, <2>2, ChargedOnce DEF Pool!Acquire, Pool!Add, Charged
<1>2. ASSUME NEW c \in LlmCalls, Pool!Answer(c)
      PROVE  Exact'
  BY <1>2, StillCharged DEF Pool!Answer, Pool!Move, Charged
<1>3. ASSUME NEW c \in LlmCalls, Pool!Cancel(c)
      PROVE  Exact'
  <2>1. callAt[c] \in Charged /\ UNCHANGED <<endpoint, twice>>
    BY <1>3 DEF Pool!Cancel, Charged
  <2>2. CASE Pool!Move(c, "leaked") /\ UNCHANGED inflight
    BY <2>1, <2>2, StillCharged DEF Pool!Move, Charged
  <2>3. CASE Pool!Move(c, "over") /\ Pool!Add(endpoint[c], -1)
    <3>1. inflight' = [inflight EXCEPT ![endpoint[c]] = @ - 1]
      BY <2>1, <2>3 DEF PoolInv, Pool!TypeOK, Pool!Add, Charged
    <3> QED
      BY <2>1, <2>3, <3>1, DischargedOnce DEF Pool!Move
  <2> QED
    BY <1>3, <2>2, <2>3 DEF Pool!Cancel
<1>4. ASSUME NEW c \in LlmCalls, Pool!Release(c) \/ Pool!MarkUnhealthy(c)
      PROVE  Exact'
  <2>1. callAt[c] \in Charged /\ UNCHANGED <<endpoint, twice>>
        /\ Pool!Move(c, "over") /\ Pool!Add(endpoint[c], -1)
    BY <1>4 DEF Pool!Release, Pool!MarkUnhealthy, Charged
  <2>2. inflight' = [inflight EXCEPT ![endpoint[c]] = @ - 1]
    BY <2>1 DEF PoolInv, Pool!TypeOK, Pool!Add
  <2> QED
    BY <2>1, <2>2, DischargedOnce DEF Pool!Move
<1>5. ASSUME NEW c \in LlmCalls, Pool!ReleaseFails(c)
      PROVE  Exact'
  <2>1. CASE UNCHANGED <<inflight, twice>>
    BY <1>5, <2>1, StillCharged DEF Pool!ReleaseFails, Pool!Move, Charged
  <2>2. CASE twice'
    BY <2>2 DEF Exact
  <2> QED
    BY <1>5, <2>1, <2>2 DEF Pool!ReleaseFails
<1>6. ASSUME NEW c \in LlmCalls, Pool!MarkFails(c)
      PROVE  Exact'
  <2>1. callAt[c] \in Charged /\ UNCHANGED <<endpoint, twice>>
    BY <1>6 DEF Pool!MarkFails, Charged
  <2>2. CASE Pool!Move(c, "leaked") /\ UNCHANGED inflight
    BY <2>1, <2>2, StillCharged DEF Pool!Move, Charged
  <2>3. CASE Pool!Move(c, "over") /\ Pool!Add(endpoint[c], -1)
    <3>1. inflight' = [inflight EXCEPT ![endpoint[c]] = @ - 1]
      BY <2>3 DEF PoolInv, Pool!TypeOK, Pool!Add
    <3> QED
      BY <2>1, <2>3, <3>1, DischargedOnce DEF Pool!Move
  <2> QED
    BY <1>6, <2>2, <2>3 DEF Pool!MarkFails
<1>7. ASSUME NEW e \in Endpoints, Pool!CooldownEnds(e)
      PROVE  Exact'
  BY <1>7 DEF PoolInv, Exact, Pool!Counted, Pool!CooldownEnds
<1> QED
  BY <1>1, <1>2, <1>3, <1>4, <1>5, <1>6, <1>7 DEF Pool!Next

-----------------------------------------------------------------------------
\* However many calls share the pool, and wherever they fail or are cut off,
\* a count is the calls at work plus those cut off, up to a release that Redis
\* executed although it raised.
THEOREM PoolLoad ==
  ASSUME Pool!PoolAssumption
  PROVE  Pool!Spec => []Pool!LoadExact
<1>1. Pool!Init => PoolInv
  <2> SUFFICES ASSUME Pool!Init PROVE PoolInv
    OBVIOUS
  <2>1. Pool!TypeOK
    <3>1. inflight \in [Endpoints -> Int] /\ cooling \in SUBSET Endpoints
      BY DEF Pool!Init
    <3>2. /\ callAt \in [LlmCalls -> {"new", "open", "answered", "failed", "leaked", "over"}]
          /\ endpoint \in [LlmCalls -> Endpoints \cup {Nowhere}]
          /\ twice \in BOOLEAN
      BY DEF Pool!Init
    <3> QED
      BY <3>1, <3>2 DEF Pool!TypeOK
  <2>2. \A e \in Endpoints : Pool!Counted(e) = {}
    BY DEF Pool!Init, Pool!Counted
  <2>3. Exact
    BY <2>2, FS_EmptySet DEF Pool!Init, Exact
  <2> QED
    BY <2>1, <2>3 DEF PoolInv, Pool!Init
<1>2. PoolInv /\ [Pool!Next]_(Pool!vars) => PoolInv'
  <2> SUFFICES ASSUME PoolInv, [Pool!Next]_(Pool!vars) PROVE PoolInv'
    OBVIOUS
  <2>1. CASE Pool!Next
    BY <2>1, PoolTypeKeeps, LoadKeeps DEF PoolInv
  <2>2. CASE UNCHANGED Pool!vars
    BY <2>2 DEF PoolInv, Pool!TypeOK, Exact, Pool!Counted, Pool!vars
  <2> QED
    BY <2>1, <2>2
<1>3. PoolInv => Pool!LoadExact
  BY PoolCounts DEF PoolInv
<1> QED
  BY <1>1, <1>2, <1>3, PTL DEF Pool!Spec

\* The same while the other components run.
THEOREM PoolLoadKept == FairSpec => []LoadExact
<1>1. Init => Pool!Init
  BY DEF Init
<1>2. [Next]_vars => [Pool!Next]_(Pool!vars)
  BY ComponentSteps DEF poolVars, Pool!vars
<1>3. Pool!Spec => []Pool!LoadExact
  BY ServicesAssumption, PoolLoad DEF ServicesAssumption
<1> QED
  BY <1>1, <1>2, <1>3, PTL DEF FairSpec, Pool!Spec, LoadExact

-----------------------------------------------------------------------------
(* The coalesced parent refresh: a flip is paid for by what made the       *)
(* parent stale, because callers that refresh the same parent exclude each *)
(* other and whoever waits takes the refresh of the other for its own.     *)

\* Where a caller holds the locks of all its parents, with stale_ids decided.
Refreshing == {"flipping", "awaiting"}

\* No two callers hold the same lock; a caller that refreshes holds the locks
\* of what it found stale, and nobody has made that fresh.
Exclusive ==
  /\ \A c, d \in Callers : c # d => held[c] \cap held[d] = {}
  /\ \A c \in Callers :
       at[c] \in Refreshing => stale[c] \subseteq held[c] /\ stale[c] \cap fresh = {}

Awaited(p) == \E c \in Callers : at[c] = "awaiting" /\ p \in stale[c]

\* The flip that no cycle has paid for yet.
Paid ==
  \A p \in Parents :
    flips[p] <= cycles[p] + (IF p \in fresh \/ Awaited(p) THEN 1 ELSE 0)

RInv == Refresh!TypeOK /\ Exclusive /\ Paid

-----------------------------------------------------------------------------
LEMMA RefreshTypeKeeps ==
  ASSUME Refresh!TypeOK, Refresh!Next
  PROVE  Refresh!TypeOK'
<1>1. ASSUME NEW c \in Callers, Refresh!Begin(c)
      PROVE  Refresh!TypeOK'
  <2>1. PICK ps \in SUBSET Parents : /\ want' = [want EXCEPT ![c] = ps]
                                     /\ seen' = [seen EXCEPT ![c] = ps \cap idle]
    BY <1>1 DEF Refresh!Begin
  <2> QED
    BY <1>1, <2>1 DEF Refresh!TypeOK, Refresh!Begin, Refresh!Move
<1>2. ASSUME NEW c \in Callers, Refresh!Lock(c)
      PROVE  Refresh!TypeOK'
  <2>1. held' \in [Callers -> SUBSET Parents]
    BY <1>2 DEF Refresh!TypeOK, Refresh!Lock
  <2>2. stale' \in [Callers -> SUBSET Parents]
    BY <1>2 DEF Refresh!TypeOK, Refresh!Lock
  <2>3. at' = at \/ at' = [at EXCEPT ![c] = "fetching"]
                 \/ at' = [at EXCEPT ![c] = "flipping"]
    BY <1>2 DEF Refresh!Lock, Refresh!Move
  <2> QED
    BY <1>2, <2>1, <2>2, <2>3 DEF Refresh!TypeOK, Refresh!Lock
<1>3. ASSUME NEW c \in Callers, Refresh!Flip(c)
      PROVE  Refresh!TypeOK'
  <2>1. flips' \in [Parents -> Nat]
    BY <1>3 DEF Refresh!TypeOK, Refresh!Flip, Refresh!Counted
  <2> QED
    BY <1>3, <2>1 DEF Refresh!TypeOK, Refresh!Flip, Refresh!Move
<1>4. ASSUME NEW c \in Callers, Refresh!Refreshed(c)
      PROVE  Refresh!TypeOK'
  BY <1>4 DEF Refresh!TypeOK, Refresh!Refreshed, Refresh!Released, Refresh!Move
<1>5. ASSUME NEW c \in Callers, Refresh!AwaitFails(c)
      PROVE  Refresh!TypeOK'
  <2>1. cycles' \in [Parents -> Nat]
    BY <1>5 DEF Refresh!TypeOK, Refresh!AwaitFails, Refresh!Counted
  <2> QED
    BY <1>5, <2>1
       DEF Refresh!TypeOK, Refresh!AwaitFails, Refresh!Released, Refresh!Move
<1>6. ASSUME NEW c \in Callers, Refresh!Fetched(c) \/ Refresh!FetchFails(c)
      PROVE  Refresh!TypeOK'
  <2>1. cycles' \in [Parents -> Nat]
    BY <1>6
       DEF Refresh!TypeOK, Refresh!Fetched, Refresh!FetchFails,
           Refresh!Counted
  <2> QED
    BY <1>6, <2>1
       DEF Refresh!TypeOK, Refresh!Fetched, Refresh!FetchFails,
           Refresh!Released, Refresh!Move
<1>7. ASSUME NEW c \in Callers, Refresh!ChildCompletes(c)
      PROVE  Refresh!TypeOK'
  <2>1. cycles' \in [Parents -> Nat]
    BY <1>7 DEF Refresh!TypeOK, Refresh!ChildCompletes, Refresh!Counted
  <2> QED
    BY <1>7, <2>1 DEF Refresh!TypeOK, Refresh!ChildCompletes, Refresh!Move
<1>8. ASSUME NEW p \in Parents, Refresh!Evaluated(p)
      PROVE  Refresh!TypeOK'
  BY <1>8 DEF Refresh!TypeOK, Refresh!Evaluated
<1> QED
  BY <1>1, <1>2, <1>3, <1>4, <1>5, <1>6, <1>7, <1>8 DEF Refresh!Next

-----------------------------------------------------------------------------
(* The locks. *)

\* A caller moves on or lets go of its locks, and nothing becomes fresh.
LEMMA LettingGoKeeps ==
  ASSUME RInv, NEW c \in Callers, NEW s, at' = [at EXCEPT ![c] = s],
         s \in Refreshing => at[c] \in Refreshing,
         \/ held' = held
         \/ held' = [held EXCEPT ![c] = {}] /\ s \notin Refreshing,
         stale' = stale, fresh' \subseteq fresh
  PROVE  Exclusive'
BY DEF RInv, Refresh!TypeOK, Exclusive

LEMMA LockKeeps ==
  ASSUME RInv, NEW c \in Callers, Refresh!Lock(c)
  PROVE  Exclusive'
<1>1. PICK p \in want[c] : /\ \A d \in Callers : p \notin held[d]
                           /\ held' = [held EXCEPT ![c] = @ \cup {p}]
  BY DEF Refresh!Lock
<1>2. \A d, e \in Callers : d # e => held'[d] \cap held'[e] = {}
  BY <1>1 DEF RInv, Refresh!TypeOK, Exclusive
<1>3. CASE held'[c] # want[c]
  <2>1. at' = at /\ stale' = stale /\ fresh' = fresh
    BY <1>3 DEF Refresh!Lock
  <2> QED
    BY <1>1, <1>2, <2>1 DEF RInv, Refresh!TypeOK, Exclusive
<1>4. CASE held'[c] = want[c]
  <2>1. /\ stale' = [stale EXCEPT ![c] = want[c] \ fresh]
        /\ \E s : at' = [at EXCEPT ![c] = s]
        /\ fresh' = fresh
    BY <1>4 DEF Refresh!Lock, Refresh!Move
  <2>2. \A d \in Callers \ {c} : at'[d] = at[d] /\ stale'[d] = stale[d]
                                                /\ held'[d] = held[d]
    BY <1>1, <2>1 DEF RInv, Refresh!TypeOK
  <2>3. stale'[c] \subseteq held'[c] /\ stale'[c] \cap fresh' = {}
    BY <1>4, <2>1 DEF RInv, Refresh!TypeOK
  <2> QED
    BY <1>2, <2>1, <2>2, <2>3 DEF RInv, Exclusive
<1> QED
  BY <1>3, <1>4

\* What a refresh makes fresh is locked by the caller that ends it, so no
\* other caller has it among its stale ones.
LEMMA RefreshedKeeps ==
  ASSUME RInv, NEW c \in Callers, Refresh!Refreshed(c)
  PROVE  Exclusive'
<1>1. at'[c] \notin Refreshing /\ \A d \in Callers \ {c} : at'[d] = at[d]
  BY DEF RInv, Refresh!TypeOK, Refresh!Refreshed, Refreshing, Refresh!Move
<1>2. \A d \in Callers :
        held'[d] \subseteq held[d] /\ (d # c => held'[d] = held[d])
  BY DEF RInv, Refresh!TypeOK, Refresh!Refreshed, Refresh!Released
<1>3. \A d \in Callers \ {c} :
         at[d] \in Refreshing => stale[d] \cap stale[c] = {}
  BY DEF RInv, Exclusive, Refresh!Refreshed, Refreshing
<1>4. fresh' = fresh \cup stale[c] /\ stale' = stale
  BY DEF Refresh!Refreshed
<1>5. \A d, e \in Callers : d # e => held'[d] \cap held'[e] = {}
  BY <1>2 DEF RInv, Exclusive
<1>6. \A d \in Callers : at'[d] \in Refreshing =>
         stale'[d] \subseteq held'[d] /\ stale'[d] \cap fresh' = {}
  BY <1>1, <1>2, <1>3, <1>4 DEF RInv, Exclusive
<1> QED
  BY <1>5, <1>6 DEF Exclusive

LEMMA ExclusiveKeeps ==
  ASSUME RInv, Refresh!Next
  PROVE  Exclusive'
<1>1. ASSUME NEW c \in Callers, Refresh!Begin(c)
      PROVE  Exclusive'
  BY <1>1, LettingGoKeeps DEF Refresh!Begin, Refresh!Move, Refreshing
<1>2. ASSUME NEW c \in Callers, Refresh!Flip(c)
      PROVE  Exclusive'
  BY <1>2, LettingGoKeeps DEF Refresh!Flip, Refresh!Move, Refreshing
<1>3. ASSUME NEW c \in Callers, Refresh!AwaitFails(c)
      PROVE  Exclusive'
  BY <1>3, LettingGoKeeps
     DEF Refresh!AwaitFails, Refresh!Released, Refresh!Move, Refreshing
<1>4. ASSUME NEW c \in Callers, Refresh!Fetched(c) \/ Refresh!FetchFails(c)
      PROVE  Exclusive'
  <2>1. /\ at' \in {[at EXCEPT ![c] = "mutating"], [at EXCEPT ![c] = "away"]}
        /\ held' = [held EXCEPT ![c] = {}]
        /\ stale' = stale /\ fresh' \subseteq fresh
    BY <1>4
       DEF Refresh!Fetched, Refresh!FetchFails, Refresh!Released, Refresh!Move
  <2> QED
    BY <2>1, LettingGoKeeps DEF Refreshing
<1>5. ASSUME NEW c \in Callers, Refresh!ChildCompletes(c)
      PROVE  Exclusive'
  <2>1. /\ at' = [at EXCEPT ![c] = "away"]
        /\ held' = held /\ stale' = stale /\ fresh' \subseteq fresh
    BY <1>5 DEF Refresh!ChildCompletes, Refresh!Move
  <2> QED
    BY <2>1, LettingGoKeeps DEF Refreshing
<1>6. ASSUME NEW p \in Parents, Refresh!Evaluated(p)
      PROVE  Exclusive'
  BY <1>6 DEF RInv, Exclusive, Refresh!Evaluated
<1> QED
  BY <1>1, <1>2, <1>3, <1>4, <1>5, <1>6, LockKeeps, RefreshedKeeps
     DEF Refresh!Next

-----------------------------------------------------------------------------
(* The account of the flips. *)

\* Nothing is flipped, and whatever stops paying is counted as a cycle.
LEMMA NoFlipKeeps ==
  ASSUME RInv, flips' = flips, cycles' \in [Parents -> Nat],
         \A p \in Parents : cycles'[p] >= cycles[p],
         \A p \in Parents :
           \/ p \in fresh \/ Awaited(p) => p \in fresh' \/ Awaited(p)'
           \/ cycles'[p] >= cycles[p] + 1
  PROVE  Paid'
<1> SUFFICES ASSUME NEW p \in Parents
             PROVE  flips'[p] <= cycles'[p]
                      + (IF p \in fresh' \/ Awaited(p)' THEN 1 ELSE 0)
  BY DEF Paid
<1>1. /\ flips[p] \in Nat /\ cycles[p] \in Nat /\ cycles'[p] \in Nat
      /\ flips'[p] = flips[p] /\ cycles'[p] >= cycles[p]
  BY DEF RInv, Refresh!TypeOK
<1>2. flips[p] <= cycles[p] + (IF p \in fresh \/ Awaited(p) THEN 1 ELSE 0)
  BY DEF RInv, Paid
<1>3. CASE cycles'[p] >= cycles[p] + 1
  BY <1>1, <1>2, <1>3
<1>4. CASE p \in fresh \/ Awaited(p) => p \in fresh' \/ Awaited(p)'
  BY <1>1, <1>2, <1>4
<1> QED
  BY <1>3, <1>4

\* A flip hits stale parents only, which nobody has paid for, and the caller
\* awaits them from then on.
LEMMA FlipKeeps ==
  ASSUME RInv, NEW c \in Callers, Refresh!Flip(c)
  PROVE  Paid'
<1> SUFFICES ASSUME NEW p \in Parents
             PROVE  flips'[p] <= cycles'[p]
                      + (IF p \in fresh' \/ Awaited(p)' THEN 1 ELSE 0)
  BY DEF Paid
<1> DEFINE flipped == stale[c] \cap seen[c] \cap idle
<1>1. /\ at' = [at EXCEPT ![c] = "awaiting"] /\ at[c] = "flipping"
      /\ flips' = Refresh!Counted(flips, flipped)
      /\ UNCHANGED <<fresh, stale, cycles>>
  BY DEF Refresh!Flip, Refresh!Move
<1>2. flips[p] \in Nat /\ cycles[p] \in Nat
  BY DEF RInv, Refresh!TypeOK
<1>3. flips[p] <= cycles[p] + (IF p \in fresh \/ Awaited(p) THEN 1 ELSE 0)
  BY DEF RInv, Paid
<1>4. CASE p \in stale[c]
  <2>1. p \notin fresh /\ ~Awaited(p)
    BY <1>1, <1>4 DEF RInv, Exclusive, Awaited, Refreshing
  <2>2. Awaited(p)'
    BY <1>1, <1>4 DEF RInv, Refresh!TypeOK, Awaited
  <2>3. flips'[p] <= flips[p] + 1
    BY <1>1, <1>2 DEF Refresh!Counted
  <2> QED
    BY <1>1, <1>2, <1>3, <2>1, <2>2, <2>3 DEF Refresh!Counted
<1>5. CASE p \notin stale[c]
  <2>1. flips'[p] = flips[p]
    BY <1>1, <1>5 DEF Refresh!Counted
  <2>2. Awaited(p) => Awaited(p)'
    BY <1>1 DEF RInv, Refresh!TypeOK, Awaited
  <2> QED
    BY <1>1, <1>2, <1>3, <2>1, <2>2
<1> QED
  BY <1>4, <1>5

\* A step of a caller that awaits nothing leaves the others awaiting.
LEMMA OthersAwait ==
  ASSUME RInv, NEW c \in Callers, NEW s, at' = [at EXCEPT ![c] = s],
         \A d \in Callers \ {c} : stale'[d] = stale[d],
         NEW p \in Parents, Awaited(p), at[c] = "awaiting" => p \notin stale[c]
  PROVE  Awaited(p)'
BY DEF RInv, Refresh!TypeOK, Awaited

LEMMA PaidKeeps ==
  ASSUME RInv, Refresh!Next
  PROVE  Paid'
<1> USE DEF RInv
<1>1. ASSUME NEW c \in Callers, Refresh!Begin(c)
      PROVE  Paid'
  <2>1. \A p \in Parents : Awaited(p) => Awaited(p)'
    BY <1>1, OthersAwait DEF Refresh!Begin, Refresh!Move
  <2>2. UNCHANGED <<flips, cycles, fresh>>
    BY <1>1 DEF Refresh!Begin
  <2> QED
    BY <2>1, <2>2, NoFlipKeeps DEF Refresh!TypeOK
<1>2. ASSUME NEW c \in Callers, Refresh!Lock(c)
      PROVE  Paid'
  <2>1. UNCHANGED <<flips, cycles, fresh>> /\ at[c] = "locking"
    BY <1>2 DEF Refresh!Lock
  <2>2. \A d \in Callers \ {c} : at'[d] = at[d] /\ stale'[d] = stale[d]
    BY <1>2 DEF Refresh!TypeOK, Refresh!Lock, Refresh!Move
  <2>3. \A p \in Parents : Awaited(p) => Awaited(p)'
    BY <2>1, <2>2 DEF Awaited
  <2> QED
    BY <2>1, <2>3, NoFlipKeeps DEF Refresh!TypeOK
<1>3. ASSUME NEW c \in Callers, Refresh!Refreshed(c)
      PROVE  Paid'
  <2>1. /\ UNCHANGED <<flips, cycles, stale>> /\ fresh' = fresh \cup stale[c]
        /\ \E s : at' = [at EXCEPT ![c] = s]
    BY <1>3 DEF Refresh!Refreshed, Refresh!Move
  <2>2. \A p \in Parents : Awaited(p) => p \in fresh' \/ Awaited(p)'
    BY <2>1, OthersAwait
  <2> QED
    BY <2>1, <2>2, NoFlipKeeps DEF Refresh!TypeOK
<1>4. ASSUME NEW c \in Callers, Refresh!AwaitFails(c)
      PROVE  Paid'
  <2>1. /\ UNCHANGED <<flips, stale, fresh>> /\ at' = [at EXCEPT ![c] = "away"]
        /\ at[c] \in {"locking", "flipping", "awaiting"}
        /\ cycles' = IF at[c] = "locking" THEN cycles ELSE Refresh!Counted(cycles, stale[c])
    BY <1>4 DEF Refresh!AwaitFails, Refresh!Move
  <2>2. /\ cycles' \in [Parents -> Nat]
        /\ \A p \in Parents : cycles'[p] >= cycles[p]
    BY <2>1 DEF Refresh!TypeOK, Refresh!Counted
  <2>3. \A p \in Parents :
          at[c] = "awaiting" /\ p \in stale[c] => cycles'[p] >= cycles[p] + 1
    BY <2>1 DEF Refresh!TypeOK, Refresh!Counted
  <2>4. \A p \in Parents :
          Awaited(p) => Awaited(p)' \/ cycles'[p] >= cycles[p] + 1
    BY <2>1, <2>3, OthersAwait
  <2> QED
    BY <2>1, <2>2, <2>4, NoFlipKeeps
<1>5. ASSUME NEW c \in Callers,
             Refresh!Fetched(c) \/ Refresh!FetchFails(c) \/ Refresh!ChildCompletes(c)
      PROVE  Paid'
  <2>1. /\ UNCHANGED <<flips, stale>> /\ at[c] # "awaiting"
        /\ \E s : at' = [at EXCEPT ![c] = s]
    BY <1>5
       DEF Refresh!Fetched, Refresh!FetchFails, Refresh!ChildCompletes,
           Refresh!Move
  <2>2. \A p \in Parents : Awaited(p) => Awaited(p)'
    BY <2>1, OthersAwait
  <2>3. \/ fresh' = fresh /\ cycles' = cycles
        \/ \E ps : fresh' = fresh \ ps /\ cycles' = Refresh!Counted(cycles, ps \cap fresh)
    BY <1>5 DEF Refresh!Fetched, Refresh!FetchFails, Refresh!ChildCompletes
  <2>4. /\ cycles' \in [Parents -> Nat]
        /\ \A p \in Parents : cycles'[p] >= cycles[p]
    BY <2>3 DEF Refresh!TypeOK, Refresh!Counted
  <2>5. \A p \in Parents :
          p \in fresh => p \in fresh' \/ cycles'[p] >= cycles[p] + 1
    BY <2>3 DEF Refresh!TypeOK, Refresh!Counted
  <2> QED
    BY <2>1, <2>2, <2>4, <2>5, NoFlipKeeps
<1>6. ASSUME NEW p \in Parents, Refresh!Evaluated(p)
      PROVE  Paid'
  <2>1. UNCHANGED <<flips, cycles, fresh, at, stale>>
    BY <1>6 DEF Refresh!Evaluated
  <2>2. \A q \in Parents : Awaited(q) => Awaited(q)'
    BY <2>1 DEF Awaited
  <2> QED
    BY <2>1, <2>2, NoFlipKeeps DEF Refresh!TypeOK
<1> QED
  BY <1>1, <1>2, <1>3, <1>4, <1>5, <1>6, FlipKeeps DEF Refresh!Next

-----------------------------------------------------------------------------
\* However many callers share parents, and wherever they fail, a parent is
\* flipped once, and once more for each time it went stale or a refresh of it
\* failed.
THEOREM FlipBound == Refresh!Spec => []Refresh!FlipsBounded
<1>1. Refresh!Init => RInv
  <2> SUFFICES ASSUME Refresh!Init PROVE RInv
    OBVIOUS
  <2>1. Refresh!TypeOK
    BY DEF Refresh!Init, Refresh!TypeOK
  <2>2. Exclusive /\ Paid
    BY DEF Refresh!Init, Exclusive, Paid, Refreshing
  <2> QED
    BY <2>1, <2>2 DEF RInv
<1>2. RInv /\ [Refresh!Next]_(Refresh!vars) => RInv'
  <2> SUFFICES ASSUME RInv, [Refresh!Next]_(Refresh!vars) PROVE RInv'
    OBVIOUS
  <2>1. CASE Refresh!Next
    BY <2>1, RefreshTypeKeeps, ExclusiveKeeps, PaidKeeps DEF RInv
  <2>2. CASE UNCHANGED Refresh!vars
    BY <2>2 DEF RInv, Refresh!TypeOK, Exclusive, Paid, Awaited, Refresh!vars
  <2> QED
    BY <2>1, <2>2
<1>3. RInv => Refresh!FlipsBounded
  <2> SUFFICES ASSUME RInv, NEW p \in Parents PROVE flips[p] <= cycles[p] + 1
    BY DEF Refresh!FlipsBounded
  <2>1. flips[p] \in Nat /\ cycles[p] \in Nat
    BY DEF RInv, Refresh!TypeOK
  <2> QED
    BY <2>1 DEF RInv, Paid
<1> QED
  BY <1>1, <1>2, <1>3, PTL DEF Refresh!Spec

\* The same while the other components run.
THEOREM FlipsBoundKept == FairSpec => []FlipsBounded
<1>1. Init => Refresh!Init
  BY DEF Init
<1>2. [Next]_vars => [Refresh!Next]_(Refresh!vars)
  BY ComponentSteps DEF refreshVars, Refresh!vars
<1>3. Refresh!Spec => []Refresh!FlipsBounded
  BY FlipBound
<1> QED
  BY <1>1, <1>2, <1>3, PTL DEF FairSpec, Refresh!Spec, FlipsBounded

-----------------------------------------------------------------------------
(* The population cache: what a fetch is about to publish covers the last  *)
(* bump that met no fetch.                                                 *)

Fetch == {"scan", "sunion", "mget", "all"}

\* The reader that fetches is the one that holds the lock.
LockHeld == \A r \in Readers : readerAt[r] \in Fetch <=> lock = r

\* What was settled at the bump is settled now, and a fetch will publish it.
Covering ==
  /\ due \subseteq Population!Settled(store)
  /\ \A r \in Readers :
       /\ readerAt[r] = "all" => due \subseteq ids[r]
       /\ readerAt[r] = "mget" => due \subseteq ids[r] \cup Population!Settled(idCache)

PInv == Population!TypeOK /\ LockHeld /\ Covering /\ Population!BumpHonoured

-----------------------------------------------------------------------------
\* The steps that touch neither the lists nor the lock: a program moves on.
LEMMA StoreKeeps ==
  ASSUME PInv, NEW p \in Programs, Population!Store(p)
  PROVE  PInv'
<1>1. Population!TypeOK'
  BY DEF PInv, Population!TypeOK, Population!Store, Population!Images
<1>2. Population!Settled(store) \subseteq Population!Settled(store')
  BY
     DEF PInv, Population!TypeOK, Population!Store, Population!Settled,
         Population!Images, Population!INCOMPLETE_STATES
<1>3. LockHeld'
  BY DEF PInv, LockHeld, Population!Store
<1>4. Covering'
  BY <1>2 DEF PInv, Covering, Population!Store, Population!Settled
<1>5. Population!BumpHonoured'
  BY DEF PInv, Population!BumpHonoured, Population!Store, Population!Settled
<1> QED
  BY <1>1, <1>3, <1>4, <1>5 DEF PInv

\* A bump: what becomes due is settled in the store, and nobody is fetching;
\* a fetch under way finds nothing taken out of the id cache.
LEMMA BumpKeeps ==
  ASSUME PInv, Population!Bump
  PROVE  PInv'
<1>1. Population!TypeOK'
  BY DEF PInv, Population!TypeOK, Population!Bump, Population!Settled
<1>2. LockHeld'
  BY DEF PInv, LockHeld, Population!Bump
<1>3. Population!Settled(idCache) \subseteq Population!Settled(idCache')
  BY
     DEF PInv, Population!TypeOK, Population!Bump, Population!Settled,
         Population!Nothing
<1>4. Covering'
  <2>1. CASE Population!Fetching
    BY <2>1, <1>3 DEF PInv, Covering, Population!Bump, Population!Settled
  <2>2. CASE ~Population!Fetching
    BY <2>2
       DEF PInv, Covering, Population!Bump, Population!Settled,
           Population!Fetching
  <2> QED
    BY <2>1, <2>2
<1>5. Population!BumpHonoured'
  BY DEF Population!BumpHonoured, Population!Bump
<1> QED
  BY <1>1, <1>2, <1>4, <1>5 DEF PInv

-----------------------------------------------------------------------------
\* A reader enters or leaves without a result.
LEMMA EntryKeeps ==
  ASSUME PInv, Population!PopulationAssumption,
         NEW r \in Readers,
         Population!Call(r) \/ Population!Enter(r) \/ Population!Fails(r)
  PROVE  PInv'
<1>1. Population!TypeOK'
  <2>1. CASE Population!Call(r)
    BY <2>1 DEF PInv, Population!TypeOK, Population!Call
  <2>2. CASE Population!Enter(r)
    BY <2>2 DEF PInv, Population!TypeOK, Population!Enter
  <2>3. CASE Population!Fails(r)
    BY <2>3 DEF PInv, Population!TypeOK, Population!Fails
  <2> QED
    BY <2>1, <2>2, <2>3
<1>2. LockHeld'
  <2>1. CASE Population!Call(r)
    BY <2>1 DEF PInv, Population!TypeOK, LockHeld, Population!Call, Fetch
  <2>2. CASE Population!Enter(r)
    BY <2>2
       DEF PInv, Population!TypeOK, LockHeld, Population!Enter, Fetch,
           Population!PopulationAssumption
  <2>3. CASE Population!Fails(r)
    BY <2>3
       DEF PInv, Population!TypeOK, LockHeld, Population!Fails, Fetch,
           Population!PopulationAssumption
  <2> QED
    BY <2>1, <2>2, <2>3
<1>3. Covering'
  <2>1. \A q \in Readers :
          readerAt'[q] \in {"all", "mget"} => readerAt'[q] = readerAt[q]
    BY
       DEF PInv, Population!TypeOK, Population!Call, Population!Enter,
           Population!Fails
  <2> QED
    BY <2>1
       DEF PInv, Covering, Population!Settled, Population!Call,
           Population!Enter, Population!Fails
<1>4. Population!BumpHonoured'
  BY
     DEF PInv, Population!BumpHonoured, Population!Settled, Population!Call,
         Population!Enter, Population!Fails
<1> QED
  BY <1>1, <1>2, <1>3, <1>4 DEF PInv

\* A reader publishes a list in which all that is due is settled.
LEMMA PublishKeeps ==
  ASSUME PInv, Population!PopulationAssumption, NEW r \in Readers,
         NEW programs \in [Programs -> Population!Images], readerAt[r] \in Fetch,
         Population!Publish(r, programs), due \subseteq Population!Settled(programs),
         idCache' \in [Programs -> Population!Images], UNCHANGED <<store, due>>,
         ids' \in [Readers -> SUBSET Programs]
  PROVE  PInv'
<1>1. Population!TypeOK'
  BY DEF PInv, Population!TypeOK, Population!Publish
<1>2. LockHeld'
  BY
     DEF PInv, Population!TypeOK, LockHeld, Population!Publish, Fetch,
         Population!PopulationAssumption
<1>3. \A q \in Readers : readerAt'[q] \notin {"all", "mget"}
  BY DEF PInv, Population!TypeOK, LockHeld, Population!Publish, Fetch
<1>4. Covering'
  BY <1>3 DEF PInv, Covering, Population!Settled
<1>5. Population!BumpHonoured'
  BY DEF Population!BumpHonoured, Population!Settled, Population!Publish
<1> QED
  BY <1>1, <1>2, <1>4, <1>5 DEF PInv

\* The full fetch asks for all that is stored.
LEMMA FullFetchKeeps ==
  ASSUME PInv, Population!PopulationAssumption, NEW r \in Readers,
         Population!Scan(r) \/ Population!ReadAll(r)
  PROVE  PInv'
<1>1. CASE Population!Scan(r)
  <2>1. Population!TypeOK'
    BY <1>1 DEF PInv, Population!TypeOK, Population!Scan, Population!In
  <2>2. LockHeld'
    BY <1>1 DEF PInv, Population!TypeOK, LockHeld, Population!Scan, Fetch
  <2>3. due \subseteq Population!In(store)
    BY DEF PInv, Covering, Population!Settled, Population!In
  <2>4. Covering'
    BY <1>1, <2>3
       DEF PInv, Population!TypeOK, Covering, Population!Scan,
           Population!Settled
  <2>5. Population!BumpHonoured'
    BY <1>1
       DEF PInv, Population!BumpHonoured, Population!Scan, Population!Settled
  <2> QED
    BY <2>1, <2>2, <2>4, <2>5 DEF PInv
<1>2. CASE Population!ReadAll(r)
  <2> DEFINE programs == Population!Updated(Population!Nothing, ids[r])
  <2>1. programs \in [Programs -> Population!Images]
    BY
       DEF PInv, Population!TypeOK, Population!Updated, Population!Nothing,
           Population!Images
  <2>2. due \subseteq Population!Settled(programs)
    BY <1>2
       DEF PInv, Population!TypeOK, Covering, Population!ReadAll,
           Population!Settled, Population!Updated
  <2>3. idCache' \in [Programs -> Population!Images]
    BY <1>2 DEF Population!ReadAll, Population!Nothing, Population!Images
  <2>4. Population!Publish(r, programs) /\ readerAt[r] \in Fetch /\ UNCHANGED <<store, due, ids>>
    BY <1>2 DEF Population!ReadAll, Fetch
  <2> HIDE DEF programs
  <2> QED
    BY <2>1, <2>2, <2>3, <2>4, PublishKeeps DEF PInv, Population!TypeOK
<1> QED
  BY <1>1, <1>2

\* The incremental fetch asks for what the id cache lacks or has unfinished.
LEMMA IncrementalFetchKeeps ==
  ASSUME PInv, Population!PopulationAssumption, NEW r \in Readers,
         Population!ReadIds(r) \/ Population!ReadPrograms(r)
  PROVE  PInv'
<1>1. CASE Population!ReadIds(r)
  <2> DEFINE refresh == Population!RefreshIds(Population!In(store))
  <2>1. due \subseteq refresh \cup Population!Settled(idCache)
    BY
       DEF PInv, Population!TypeOK, Covering, Population!RefreshIds,
           Population!In, Population!Settled, Population!INCOMPLETE_STATES
  <2>2. refresh \subseteq Programs
    BY DEF Population!RefreshIds, Population!In
  <2>3. ids' = [ids EXCEPT ![r] = refresh] /\ readerAt[r] = "sunion"
        /\ UNCHANGED <<store, idCache, due>>
    BY <1>1 DEF Population!ReadIds
  <2>4. CASE refresh = {}
    <3>1. Population!Publish(r, idCache)
      BY <1>1, <2>4 DEF Population!ReadIds
    <3> QED
      BY <2>1, <2>2, <2>3, <2>4, <3>1, PublishKeeps
         DEF PInv, Population!TypeOK, Fetch
  <2>5. CASE refresh # {}
    <3>1. readerAt' = [readerAt EXCEPT ![r] = "mget"] /\ UNCHANGED <<cached, valid, lock>>
      BY <1>1, <2>5 DEF Population!ReadIds
    <3> HIDE DEF refresh
    <3>2. Population!TypeOK'
      BY <2>2, <2>3, <3>1 DEF PInv, Population!TypeOK
    <3>3. LockHeld'
      BY <2>3, <3>1 DEF PInv, Population!TypeOK, LockHeld, Fetch
    <3>4. Covering'
      BY <2>1, <2>3, <3>1
         DEF PInv, Population!TypeOK, Covering, Population!Settled
    <3>5. Population!BumpHonoured'
      BY <2>3, <3>1 DEF PInv, Population!BumpHonoured, Population!Settled
    <3> QED
      BY <3>2, <3>3, <3>4, <3>5 DEF PInv
  <2> QED
    BY <2>4, <2>5
<1>2. CASE Population!ReadPrograms(r)
  <2> DEFINE programs == Population!Updated(idCache, ids[r])
  <2>1. programs \in [Programs -> Population!Images]
    BY DEF PInv, Population!TypeOK, Population!Updated
  <2>2. due \subseteq Population!Settled(programs)
    BY <1>2
       DEF PInv, Population!TypeOK, Covering, Population!ReadPrograms,
           Population!Settled, Population!Updated
  <2>3. idCache' = programs /\ Population!Publish(r, programs) /\ readerAt[r] \in Fetch
        /\ UNCHANGED <<store, due, ids>>
    BY <1>2 DEF Population!ReadPrograms, Fetch
  <2> HIDE DEF programs
  <2> QED
    BY <2>1, <2>2, <2>3, PublishKeeps DEF PInv, Population!TypeOK
<1> QED
  BY <1>1, <1>2

-----------------------------------------------------------------------------
\* Whatever readers fetch, share, fail to fetch or wait for, a current list
\* shows every program settled at the last bump that met no fetch.
THEOREM EveryBumpHonoured ==
  ASSUME Population!PopulationAssumption
  PROVE  Population!Spec => []Population!BumpHonoured
<1>1. Population!Init => PInv
  <2> SUFFICES ASSUME Population!Init PROVE PInv
    OBVIOUS
  <2>1. Population!TypeOK
    BY
       DEF Population!Init, Population!TypeOK, Population!Nothing,
           Population!Images
  <2>2. LockHeld
    BY DEF Population!Init, LockHeld, Fetch, Population!PopulationAssumption
  <2>3. Covering /\ Population!BumpHonoured
    BY DEF Population!Init, Covering, Population!BumpHonoured
  <2> QED
    BY <2>1, <2>2, <2>3 DEF PInv
<1>2. PInv /\ [Population!Next]_(Population!vars) => PInv'
  <2> SUFFICES ASSUME PInv, [Population!Next]_(Population!vars) PROVE PInv'
    OBVIOUS
  <2>1. CASE \E p \in Programs : Population!Store(p)
    BY <2>1, StoreKeeps
  <2>2. CASE Population!Bump
    BY <2>2, BumpKeeps
  <2>3. ASSUME NEW r \in Readers,
               Population!Call(r) \/ Population!Enter(r) \/ Population!Fails(r)
        PROVE  PInv'
    BY <2>3, EntryKeeps
  <2>4. ASSUME NEW r \in Readers, Population!Scan(r) \/ Population!ReadAll(r)
        PROVE  PInv'
    BY <2>4, FullFetchKeeps
  <2>5. ASSUME NEW r \in Readers,
               Population!ReadIds(r) \/ Population!ReadPrograms(r)
        PROVE  PInv'
    BY <2>5, IncrementalFetchKeeps
  <2>6. CASE UNCHANGED Population!vars
    BY <2>6
       DEF PInv, Population!TypeOK, LockHeld, Covering,
           Population!BumpHonoured, Population!Settled, Population!vars
  <2> QED
    BY <2>1, <2>2, <2>3, <2>4, <2>5, <2>6 DEF Population!Next
<1>3. PInv => Population!BumpHonoured
  BY DEF PInv
<1> QED
  BY <1>1, <1>2, <1>3, PTL DEF Population!Spec

\* The same while the other components run.
THEOREM BumpsKept == FairSpec => []BumpHonoured
<1>1. Init => Population!Init
  BY DEF Init
<1>2. [Next]_vars => [Population!Next]_(Population!vars)
  BY ComponentSteps DEF populationVars, Population!vars
<1>3. Population!Spec => []Population!BumpHonoured
  BY ServicesAssumption, EveryBumpHonoured DEF ServicesAssumption
<1> QED
  BY <1>1, <1>2, <1>3, PTL DEF FairSpec, Population!Spec, BumpHonoured

-----------------------------------------------------------------------------
(* The instance lock: a living process that is not the one in the key got  *)
(* there by a lapse.                                                       *)

Living == {i \in Instances : lockAt[i] \in {"holding", "renewing", "unrenewed",
                                        "releasing"}}

Budget ==
  /\ IsFiniteSet(Living)
  /\ Cardinality(Living) <= lapses + (IF key \in Living THEN 1 ELSE 0)

LockInv == Lock!TypeOK /\ Budget

-----------------------------------------------------------------------------
LEMMA LockTypeKeeps ==
  ASSUME Lock!LockAssumption, Lock!TypeOK, Lock!Next
  PROVE  Lock!TypeOK'
<1>1. ASSUME NEW i \in Instances, Lock!Acquire(i)
      PROVE  Lock!TypeOK'
  BY <1>1 DEF Lock!TypeOK, Lock!Acquire, Lock!Move
<1>2. ASSUME NEW i \in Instances,
             Lock!Renew(i) \/ Lock!RenewWrite(i) \/ Lock!RenewFails(i)
      PROVE  Lock!TypeOK'
  BY <1>2
     DEF Lock!TypeOK, Lock!Renew, Lock!RenewWrite, Lock!RenewFails, Lock!Move
<1>3. ASSUME NEW i \in Instances,
             Lock!Release(i) \/ Lock!Delete(i) \/ Lock!Crash(i)
      PROVE  Lock!TypeOK'
  BY <1>3 DEF Lock!TypeOK, Lock!Release, Lock!Delete, Lock!Crash, Lock!Move
<1>4. ASSUME Lock!Expire
      PROVE  Lock!TypeOK'
  BY <1>4 DEF Lock!TypeOK, Lock!Expire
<1> QED
  BY <1>1, <1>2, <1>3, <1>4 DEF Lock!Next

\* The same processes are living, and the key did not leave them.
LEMMA SameBudget ==
  ASSUME LockInv, Living' = Living, lapses' = lapses,
         key \in Living => key' \in Living
  PROVE  Budget'
<1>1. Cardinality(Living') = Cardinality(Living) /\ Cardinality(Living) \in Nat
  BY FS_CardinalityType DEF LockInv, Budget
<1> QED
  BY <1>1 DEF LockInv, Budget, Lock!TypeOK

\* A process leaves, and with it at most its own claim to the key.
LEMMA SmallerBudget ==
  ASSUME LockInv, NEW i \in Living, Living' = Living \ {i}, lapses' = lapses
  PROVE  Budget'
<1>1. IsFiniteSet(Living') /\ Cardinality(Living') = Cardinality(Living) - 1
  BY FS_RemoveElement DEF LockInv, Budget
<1>2. Cardinality(Living) \in Nat /\ lapses \in Nat
  BY FS_CardinalityType DEF LockInv, Budget, Lock!TypeOK
<1>3. Cardinality(Living) <= lapses + 1
  BY <1>2 DEF LockInv, Budget
<1>4. Cardinality(Living') <= lapses'
  BY <1>1, <1>2, <1>3
<1> QED
  BY <1>1, <1>2, <1>4 DEF Budget

LEMMA AcquireKeeps ==
  ASSUME Lock!LockAssumption, LockInv, NEW i \in Instances, Lock!Acquire(i)
  PROVE  Budget'
<1>1. CASE Living' = Living
  <2>1. key \in Living => key' = key
    BY DEF Lock!Acquire, Living, Lock!LockAssumption
  <2> QED
    BY <1>1, <2>1, SameBudget DEF Lock!Acquire
<1>2. CASE Living' # Living
  <2>1. key = Free /\ key' = i /\ lockAt' = [lockAt EXCEPT ![i] = "holding"]
    BY <1>2 DEF LockInv, Lock!TypeOK, Lock!Acquire, Lock!Move, Living
  <2>2. Living' = Living \cup {i} /\ i \notin Living /\ key \notin Living
    BY <2>1 DEF LockInv, Lock!TypeOK, Lock!Acquire, Living, Lock!LockAssumption
  <2>3. IsFiniteSet(Living') /\ Cardinality(Living') = Cardinality(Living) + 1
    BY <2>2, FS_AddElement DEF LockInv, Budget
  <2>4. Cardinality(Living) \in Nat /\ lapses \in Nat
    BY FS_CardinalityType DEF LockInv, Budget, Lock!TypeOK
  <2>5. Cardinality(Living) <= lapses
    BY <2>2, <2>4 DEF LockInv, Budget
  <2>6. key' \in Living' /\ lapses' = lapses
    BY <2>1, <2>2 DEF Lock!Acquire
  <2> QED
    BY <2>3, <2>4, <2>5, <2>6 DEF Budget
<1> QED
  BY <1>1, <1>2

LEMMA RenewKeeps ==
  ASSUME LockInv, NEW i \in Instances,
         Lock!Renew(i) \/ Lock!RenewWrite(i) \/ Lock!RenewFails(i)
  PROVE  Budget'
<1>1. Living' = Living /\ lapses' = lapses
  BY
     DEF LockInv, Lock!TypeOK, Lock!Renew, Lock!RenewWrite, Lock!RenewFails,
         Lock!Move, Living
<1>2. key' = key \/ key' \in Living
  BY DEF Lock!Renew, Lock!RenewWrite, Lock!RenewFails, Living
<1> QED
  BY <1>1, <1>2, SameBudget

LEMMA LeaveKeeps ==
  ASSUME LockInv, NEW i \in Instances,
         Lock!Release(i) \/ Lock!Delete(i) \/ Lock!Crash(i)
  PROVE  Budget'
<1>1. i \in Living /\ lapses' = lapses
  BY DEF Lock!Release, Lock!Delete, Lock!Crash, Lock!Working, Living
<1>2. CASE lockAt' = [lockAt EXCEPT ![i] = "releasing"]
  <2>1. Living' = Living /\ key' = key
    BY <1>1, <1>2
       DEF LockInv, Lock!TypeOK, Lock!Release, Lock!Delete, Lock!Crash,
           Lock!Move, Living
  <2> QED
    BY <1>1, <2>1, SameBudget
<1>3. CASE lockAt' = [lockAt EXCEPT ![i] = "gone"]
  <2>1. Living' = Living \ {i}
    BY <1>1, <1>3 DEF LockInv, Lock!TypeOK, Living
  <2> QED
    BY <1>1, <2>1, SmallerBudget
<1> QED
  BY <1>2, <1>3 DEF Lock!Release, Lock!Delete, Lock!Crash, Lock!Move

LEMMA ExpireKeeps ==
  ASSUME Lock!LockAssumption, LockInv, Lock!Expire
  PROVE  Budget'
<1>1. Living' = Living
  BY DEF Lock!Expire, Living
<1>2. Cardinality(Living) \in Nat /\ lapses \in Nat
  BY FS_CardinalityType DEF LockInv, Budget, Lock!TypeOK
<1>3. CASE key \in Living
  <2>1. lapses' = lapses + 1
    BY <1>3 DEF Lock!Expire, Living, Lock!Working
  <2>2. Cardinality(Living) <= lapses + 1
    BY <1>3 DEF LockInv, Budget
  <2> QED
    BY <1>1, <1>2, <2>1, <2>2 DEF LockInv, Budget
<1>4. CASE key \notin Living
  <2>1. lapses' = lapses
    BY <1>4 DEF LockInv, Lock!TypeOK, Lock!Expire, Living, Lock!Working
  <2> QED
    BY <1>1, <1>4, <2>1, SameBudget
<1> QED
  BY <1>3, <1>4

-----------------------------------------------------------------------------
\* However processes start, renew, lose, release and crash under a prefix,
\* those at work are one, and one more for each key that expired under a
\* living owner.
THEOREM LockBound ==
  ASSUME Lock!LockAssumption
  PROVE  Lock!Spec => []Lock!OneMorePerLapse
<1>1. Lock!Init => LockInv
  <2> SUFFICES ASSUME Lock!Init PROVE LockInv
    OBVIOUS
  <2>1. Lock!TypeOK
    BY DEF Lock!Init, Lock!TypeOK
  <2>2. Living = {}
    BY DEF Lock!Init, Living
  <2>3. IsFiniteSet(Living) /\ Cardinality(Living) = 0
    BY <2>2, FS_EmptySet
  <2>4. Budget
    BY <2>3 DEF Lock!Init, Budget
  <2> QED
    BY <2>1, <2>4 DEF LockInv
<1>2. LockInv /\ [Lock!Next]_(Lock!vars) => LockInv'
  <2> SUFFICES ASSUME LockInv, [Lock!Next]_(Lock!vars) PROVE LockInv'
    OBVIOUS
  <2>1. CASE Lock!Next
    <3>1. Lock!TypeOK'
      BY <2>1, LockTypeKeeps DEF LockInv
    <3>2. Budget'
      BY <2>1, AcquireKeeps, RenewKeeps, LeaveKeeps, ExpireKeeps DEF Lock!Next
    <3> QED
      BY <3>1, <3>2 DEF LockInv
  <2>2. CASE UNCHANGED Lock!vars
    BY <2>2 DEF LockInv, Lock!TypeOK, Budget, Living, Lock!vars
  <2> QED
    BY <2>1, <2>2
<1>3. LockInv => Lock!OneMorePerLapse
  <2> SUFFICES ASSUME LockInv PROVE Lock!OneMorePerLapse
    OBVIOUS
  <2>1. Lock!Working \subseteq Living
    BY DEF Lock!Working, Living
  <2>2. Cardinality(Lock!Working) <= Cardinality(Living)
    BY <2>1, FS_Subset DEF LockInv, Budget
  <2>3. /\ Cardinality(Lock!Working) \in Nat /\ Cardinality(Living) \in Nat
        /\ lapses \in Nat
    BY <2>1, FS_Subset, FS_CardinalityType DEF LockInv, Budget, Lock!TypeOK
  <2>4. Cardinality(Living) <= lapses + 1
    BY <2>3 DEF LockInv, Budget
  <2> QED
    BY <2>2, <2>3, <2>4
       DEF Lock!OneMorePerLapse, Lock!Cardinality, Cardinality
<1> QED
  BY <1>1, <1>2, <1>3, PTL DEF Lock!Spec

\* The same while the other components run.
THEOREM LockBoundKept == FairSpec => []OneMorePerLapse
<1>1. Init => Lock!Init
  BY DEF Init
<1>2. [Next]_vars => [Lock!Next]_(Lock!vars)
  BY ComponentSteps DEF lockVars, Lock!vars
<1>3. Lock!Spec => []Lock!OneMorePerLapse
  BY ServicesAssumption, LockBound DEF ServicesAssumption
<1> QED
  BY <1>1, <1>2, <1>3, PTL DEF FairSpec, Lock!Spec, OneMorePerLapse

-----------------------------------------------------------------------------
LEMMA BusSteps ==
  ASSUME [Next]_vars
  PROVE  [BusProofs!Next]_(BusProofs!vars)
<1>1. [Bus!Next]_busVars
  BY ComponentSteps
<1> QED
  BY <1>1
     DEF busVars, BusProofs!vars, Bus!Runs, BusProofs!Runs, Bus!Messages,
         BusProofs!Messages, Bus!Published, BusProofs!Published,
         Bus!Predecessor, BusProofs!Predecessor, Bus!Accepts,
         BusProofs!Accepts, Bus!Polling, BusProofs!Polling, Bus!Draining,
         BusProofs!Draining, Bus!Trouble, BusProofs!Trouble, Bus!Publish,
         BusProofs!Publish, Bus!Read, BusProofs!Read, Bus!Claim,
         BusProofs!Claim, Bus!Deliver, BusProofs!Deliver, Bus!Claiming,
         BusProofs!Claiming, Bus!CutOff, BusProofs!CutOff, Bus!PollError,
         BusProofs!PollError, Bus!ClaimExpires, BusProofs!ClaimExpires,
         Bus!Drain, BusProofs!Drain, Bus!Import, BusProofs!Import, Bus!Start,
         BusProofs!Start, Bus!Vanish, BusProofs!Vanish, Bus!StopNode,
         BusProofs!StopNode, Bus!Finish, BusProofs!Finish, Bus!Exit,
         BusProofs!Exit, Bus!Crash, BusProofs!Crash, Bus!Poll, BusProofs!Poll,
         Bus!DrainStep, BusProofs!DrainStep, Bus!Next, BusProofs!Next

\* Whatever is stopped, lost or expires, a migrant is imported at most once over
\* all runs, and by none but those it is meant for.
THEOREM BusTaken == FairSpec => []TakenOnce
<1>1. Init => BusProofs!Init
  BY DEF Init, Bus!Init, BusProofs!Init, Bus!Runs, BusProofs!Runs,
         Bus!Messages, BusProofs!Messages
<1>2. BusProofs!BusAssumption
  BY ServicesAssumption
     DEF ServicesAssumption, Bus!BusAssumption, BusProofs!BusAssumption,
         Bus!Runs, BusProofs!Runs, Bus!Cardinality, BusProofs!Cardinality
<1>3. BusProofs!Spec => []BusProofs!TakenOnce
  BY <1>2, BusProofs!Taken
<1>4. BusProofs!TakenOnce => TakenOnce
  BY DEF TakenOnce, Bus!TakenOnce, BusProofs!TakenOnce, Bus!Published,
         BusProofs!Published, Bus!Accepts, BusProofs!Accepts,
         Bus!Predecessor, BusProofs!Predecessor
<1> QED
  BY <1>1, <1>3, <1>4, BusSteps, PTL DEF FairSpec, BusProofs!Spec

-----------------------------------------------------------------------------
LEMMA SnapshotSteps ==
  ASSUME [Next]_vars
  PROVE  [SnapshotProofs!Next]_(SnapshotProofs!vars)
<1>1. [Snapshot!Next]_snapshotVars
  BY ComponentSteps
<1> QED
  BY <1>1
     DEF snapshotVars, SnapshotProofs!vars, Snapshot!Zero,
         SnapshotProofs!Zero, Snapshot!Merged, SnapshotProofs!Merged,
         Snapshot!Move, SnapshotProofs!Move, Snapshot!Call,
         SnapshotProofs!Call, Snapshot!Write, SnapshotProofs!Write,
         Snapshot!WriteFails, SnapshotProofs!WriteFails, Snapshot!Start,
         SnapshotProofs!Start, Snapshot!Started, SnapshotProofs!Started,
         Snapshot!Busy, SnapshotProofs!Busy, Snapshot!Stop,
         SnapshotProofs!Stop, Snapshot!Crash, SnapshotProofs!Crash,
         Snapshot!Reserve, SnapshotProofs!Reserve, Snapshot!Store,
         SnapshotProofs!Store, Snapshot!Count, SnapshotProofs!Count,
         Snapshot!Sweep, SnapshotProofs!Sweep, Snapshot!Next,
         SnapshotProofs!Next

LEMMA SnapshotBehaves == FairSpec => SnapshotProofs!Spec
<1>1. Init => SnapshotProofs!Init
  BY DEF Init, Snapshot!Init, SnapshotProofs!Init, Snapshot!Zero,
         SnapshotProofs!Zero
<1> QED
  BY <1>1, SnapshotSteps, PTL DEF FairSpec, SnapshotProofs!Spec

LEMMA SnapshotAssumed == SnapshotProofs!SnapshotAssumption
BY ServicesAssumption
   DEF ServicesAssumption, Snapshot!SnapshotAssumption,
       SnapshotProofs!SnapshotAssumption

\* However often the run stops, crashes, resumes or fails to write, the stored
\* snapshot lies beyond the ordinal of every program that was counted.
THEOREM SnapshotCovered == FairSpec => []Covered
<1>1. SnapshotProofs!Spec => []SnapshotProofs!Covered
  BY SnapshotAssumed, SnapshotProofs!SnapshotCovers
<1>2. SnapshotProofs!Covered => Covered
  BY DEF Covered, Snapshot!Covered, SnapshotProofs!Covered
<1> QED
  BY <1>1, <1>2, SnapshotBehaves, PTL

\* As long as nothing crashes and the last writes succeed, no two programs have
\* the same ordinal.
THEOREM OrdinalsKept == FairSpec => []OrdinalsUnique
<1>1. SnapshotProofs!Spec => []SnapshotProofs!OrdinalsUnique
  BY SnapshotAssumed, SnapshotProofs!OrdinalsSpread
<1>2. SnapshotProofs!OrdinalsUnique => OrdinalsUnique
  BY DEF OrdinalsUnique, Snapshot!OrdinalsUnique, SnapshotProofs!OrdinalsUnique
<1> QED
  BY <1>1, <1>2, SnapshotBehaves, PTL

\* The mirror never goes back, nor ahead of Redis.
THEOREM ConfirmedStays == FairSpec => ConfirmedKept
<1>1. SnapshotProofs!Spec => SnapshotProofs!ConfirmedKept
  BY SnapshotAssumed, SnapshotProofs!SnapshotKept
<1>2. SnapshotProofs!ConfirmedKept => ConfirmedKept
  BY PTL DEF ConfirmedKept, Snapshot!ConfirmedKept, SnapshotProofs!ConfirmedKept,
         Snapshot!Zero, SnapshotProofs!Zero, Snapshot!vars, SnapshotProofs!vars
<1> QED
  BY <1>1, <1>2, SnapshotBehaves

-----------------------------------------------------------------------------
LEMMA LineageSteps ==
  ASSUME [Next]_vars
  PROVE  [LineageProofs!Next]_(LineageProofs!vars)
<1>1. [Lineage!Next]_lineageVars
  BY ComponentSteps
<1> QED
  BY <1>1
     DEF lineageVars, LineageProofs!vars, Lineage!Parent,
         LineageProofs!Parent, Lineage!runner, LineageProofs!runner,
         Lineage!island, LineageProofs!island, Lineage!history,
         LineageProofs!history, Lineage!Move, LineageProofs!Move,
         Lineage!Keep, LineageProofs!Keep, Lineage!Release,
         LineageProofs!Release, Lineage!Moved, LineageProofs!Moved,
         Lineage!Acquire, LineageProofs!Acquire, Lineage!ReadToFlip,
         LineageProofs!ReadToFlip, Lineage!Flip, LineageProofs!Flip,
         Lineage!Awaited, LineageProofs!Awaited, Lineage!GivesUp,
         LineageProofs!GivesUp, Lineage!StoreChild, LineageProofs!StoreChild,
         Lineage!Get, LineageProofs!Get, Lineage!Merge, LineageProofs!Merge,
         Lineage!CopyOut, LineageProofs!CopyOut, Lineage!Update,
         LineageProofs!Update, Lineage!UpdateFails, LineageProofs!UpdateFails,
         Lineage!Ingested, LineageProofs!Ingested, Lineage!Launch,
         LineageProofs!Launch, Lineage!MarkRead, LineageProofs!MarkRead,
         Lineage!MarkWrite, LineageProofs!MarkWrite, Lineage!Finish,
         LineageProofs!Finish, Lineage!Evict, LineageProofs!Evict,
         Lineage!EvictUpdate, LineageProofs!EvictUpdate, Lineage!EvictWrite,
         LineageProofs!EvictWrite, Lineage!Next, LineageProofs!Next,
         Lineage!MergeStates, LineageProofs!MergeStates,
         Lineage!ValidTransitions, LineageProofs!ValidTransitions,
         Lineage!IsValidTransition, LineageProofs!IsValidTransition,
         Lineage!QUEUED, LineageProofs!QUEUED, Lineage!RUNNING,
         LineageProofs!RUNNING, Lineage!DONE, LineageProofs!DONE,
         Lineage!DISCARDED, LineageProofs!DISCARDED, Lineage!States,
         LineageProofs!States

\* A child recorded in its parent's lineage stays there, unless it was recorded
\* while a copy of the parent was about to be written; with tickets, and the
\* parent in its archive, it always does.
THEOREM LineageStays == FairSpec => []LineageKept
<1>1. Init => LineageProofs!Init
  BY DEF Init, Lineage!Init, LineageProofs!Init, Lineage!DONE,
         LineageProofs!DONE
<1>2. LineageProofs!LineageAssumption
  BY ServicesAssumption
     DEF ServicesAssumption, Lineage!LineageAssumption,
         LineageProofs!LineageAssumption, Lineage!Parent, LineageProofs!Parent,
         Lineage!States, LineageProofs!States, Lineage!QUEUED,
         LineageProofs!QUEUED, Lineage!RUNNING, LineageProofs!RUNNING,
         Lineage!DONE, LineageProofs!DONE, Lineage!DISCARDED,
         LineageProofs!DISCARDED
<1>3. LineageProofs!Spec => []LineageProofs!LineageKept
  BY <1>2, LineageProofs!Lineage
<1>4. LineageProofs!LineageKept => LineageKept
  BY DEF LineageKept, Lineage!LineageKept, LineageProofs!LineageKept
<1> QED
  BY <1>1, <1>3, <1>4, LineageSteps, PTL DEF FairSpec, LineageProofs!Spec
=============================================================================
