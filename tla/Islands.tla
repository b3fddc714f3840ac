------------------------------ MODULE Islands ------------------------------
(***************************************************************************)
(* The MAP-Elites islands: MapElitesMultiIsland.add and select_elites with *)
(* its migration (gigaevo/evolution/strategies/multi_island.py),           *)
(* MapElitesIsland.add and _enforce_size_limit (strategies/island.py) and  *)
(* the Redis archive with its write-through cache                          *)
(* (evolution/storage/archive_storage.py), fixed behavior spaces. The      *)
(* ingestor and the migration bus add programs while the mutant tasks      *)
(* select elites; every await that reads or writes Redis ends a step. A    *)
(* pipeline is one step.                                                   *)
(***************************************************************************)
EXTENDS Integers, FiniteSets

CONSTANTS
  Programs,
  Fitness,      \* Fitness[p]: what the archive selector and remover compare
  Isles,
  Cells,
  CellOf,       \* CellOf[i][p]: the cell of p in the behavior space of i
  MaxSize,      \* config.max_size of every island
  Adders,       \* the ingestor, and the bus if there is one
  Producers,    \* mutant tasks that call select_elites
  Interval,     \* migration_interval
  MaxMigrants,  \* max_migrants_per_island
  Vacant, Unset, Cleared,  \* no program; current_island absent; None
  MaxGeneration,  \* bound: MaxGeneration[alone], see below
  MaxCrashes      \* bound: restarts and cancellations

ASSUME IslandsAssumption ==
  /\ IsFiniteSet(Programs) /\ Vacant \notin Programs
  /\ Fitness \in [Programs -> Nat]
  /\ Unset \notin Isles /\ Cleared \notin Isles /\ Unset # Cleared
  /\ CellOf \in [Isles -> [Programs -> Cells]] /\ Vacant \notin Cells
  /\ Adders \cap Producers = {}
  /\ {Interval, MaxMigrants, MaxCrashes} \subseteq Nat /\ MaxSize \in Nat \ {0}
  /\ MaxGeneration \in [BOOLEAN -> Nat]

VARIABLES
  hash,       \* hash[i][c]: the program of a cell, in Redis
  reverse,    \* reverse[i][p]: its cell by the reverse index, in Redis
  cache,      \* cache[i][c]: _elite_cache (_elite_reverse is its inverse)
  current,    \* current[p]: metadata "current_island" of the stored program
  discarded,  \* the programs that are DISCARDED, the others are DONE
  todo,       \* programs evaluated and not ingested yet
  op,         \* op[a]: the call a is in
  dirty,      \* the actors whose watched hash was written
  generation, lastMigration,  \* run state: in memory and saved
  ending,     \* the dispatcher has ended
  alone,      \* in this behavior calls never overlap, crash or are cancelled
  crashes     \* counter for the bound

archive == <<hash, reverse, cache, dirty>>
programs == <<current, discarded, todo>>
run == <<generation, lastMigration, ending, alone, crashes>>
vars == <<archive, programs, op, run>>

Actors == Adders \cup Producers
Idle == [pc |-> "idle", task |-> "none", prog |-> Vacant, isle |-> Unset,
         seen |-> Vacant, redis |-> Vacant, doomed |-> {}, found |-> {},
         source |-> Unset, migrants |-> {}, left |-> {}]

Homes == Isles \cup {Unset, Cleared}
Copies == Programs \X Homes  \* a program with the metadata read with it

OpType ==
  [pc: {"idle", "watch", "exec", "mark", "measure", "lookup", "bulk",
        "discard", "reject", "next", "leave", "left", "rollback",
        "rolledback", "limits", "select"},
   task: {"none", "ingest", "migrate", "limits"},
   prog: Programs \cup {Vacant}, isle: Isles \cup {Unset},
   seen: Programs \cup {Vacant}, redis: Programs \cup {Vacant},
   doomed: SUBSET Copies, found: SUBSET (Programs \X Cells),
   source: Homes, migrants: SUBSET (Isles \X Copies), left: SUBSET Isles]

TypeOK ==
  /\ hash \in [Isles -> [Cells -> Programs \cup {Vacant}]]
  /\ reverse \in [Isles -> [Programs -> Cells \cup {Vacant}]]
  /\ cache \in [Isles -> [Cells -> Programs \cup {Vacant}]]
  /\ current \in [Programs -> Homes]
  /\ discarded \subseteq Programs /\ todo \subseteq Programs
  /\ op \in [Actors -> OpType]
  /\ dirty \subseteq Actors
  /\ generation \in 0..MaxGeneration[alone] /\ lastMigration \in 0..generation
  /\ ending \in BOOLEAN /\ alone \in BOOLEAN
  /\ crashes \in 0..MaxCrashes

Init ==
  /\ hash = [i \in Isles |-> [c \in Cells |-> Vacant]]
  /\ reverse = [i \in Isles |-> [p \in Programs |-> Vacant]]
  /\ cache = hash
  /\ current = [p \in Programs |-> Unset]
  /\ discarded = {} /\ todo = Programs
  /\ op = [a \in Actors |-> Idle]
  /\ dirty = {}
  /\ generation = 0 /\ lastMigration = 0
  /\ ending = FALSE
  /\ alone \in BOOLEAN
  /\ crashes = 0

-----------------------------------------------------------------------------
(* Reading the archive. *)

\* SumArchiveSelector: only a strictly better program replaces an elite.
Better(p, q) == q = Vacant \/ Fitness[p] > Fitness[q]

Elites(i) == {cache[i][c] : c \in Cells} \ {Vacant}
Members(i) == {hash[i][c] : c \in Cells} \ {Vacant}

\* RandomMutantRouter: the islands whose cached elite p would replace. (For an
\* island whose cache holds p this is false, so the guard against adding a member
\* again is not reached from here.)
Compatible(p, isles) == {i \in isles : Better(p, cache[i][CellOf[i][p]])}

Goto(a, pc) == op' = [op EXCEPT ![a].pc = pc]

AllIdle == \A a \in Actors : op[a].pc = "idle"
MayBegin(a) == op[a].pc = "idle" /\ (alone => AllIdle)

\* Router and island.add up to the existence check: no suspension between.
AddTo(o, p, i) ==
  [o EXCEPT !.pc = "watch", !.prog = p, !.isle = i,
            !.seen = cache[i][CellOf[i][p]]]

\* Back to the loop over the migrants that are left.
NextOf(o) == [Idle EXCEPT !.pc = "next", !.task = "migrate",
                          !.migrants = o.migrants]

\* Seeded bug: a program that was added is never removed from its source.
StayInSource(o, ok) ==
  IF o.task = "ingest"
  THEN IF ok THEN Idle ELSE [Idle EXCEPT !.pc = "reject", !.prog = o.prog]
  ELSE NextOf(o)

\* Where an ended island.add leads: the ingestor keeps or rejects the
\* program, a migration removes it from its source, when that is known.
AddEnded(o, ok) ==
  CASE o.task = "ingest" /\ ok -> Idle
    [] o.task = "ingest" /\ ~ok ->
         [Idle EXCEPT !.pc = "reject", !.prog = o.prog]
    [] o.task = "migrate" /\ ok /\ o.source \in Isles ->
         [o EXCEPT !.pc = "leave"]
    [] o.task = "migrate" /\ ~(ok /\ o.source \in Isles) -> NextOf(o)

EnforceEnded(o) ==
  IF o.task = "limits"
  THEN [Idle EXCEPT !.pc = "limits", !.task = "limits", !.left = o.left]
  ELSE AddEnded([o EXCEPT !.doomed = {}], TRUE)

-----------------------------------------------------------------------------
(* island.add: archive_storage.add_elite, the metadata, the size limit. *)

\* The ingestor takes an evaluated program; no island may accept it.
StartAdd(a) ==
  /\ MayBegin(a)
  /\ \E p \in todo :
       /\ todo' = todo \ {p}
       /\ LET o == [Idle EXCEPT !.task = "ingest"] IN
          \/ \E i \in Compatible(p, Isles) :
               op' = [op EXCEPT ![a] = AddTo(o, p, i)]
          \/ /\ Compatible(p, Isles) = {}
             /\ op' = [op EXCEPT ![a] = AddEnded([o EXCEPT !.prog = p], FALSE)]
  /\ UNCHANGED <<archive, current, discarded, run>>

\* Seeded bug: what Redis holds by now is not compared again.
WatchOnly(a) ==
  LET o == op[a]
      c == CellOf[o.isle][o.prog]
  IN
  /\ o.pc = "watch"
  /\ dirty' = dirty \ {a}
  /\ op' = [op EXCEPT ![a].pc = "exec", ![a].redis = hash[o.isle][c]]
  /\ UNCHANGED <<hash, reverse, cache, programs, run>>

\* WATCH and HGET; an elite the cache did not know is compared as well, and
\* if it wins the cache learns it.
Watch(a) ==
  LET o == op[a]
      c == CellOf[o.isle][o.prog]
      now == hash[o.isle][c]
      loses == now # Vacant /\ now # o.seen /\ ~Better(o.prog, now)
  IN
  /\ o.pc = "watch"
  /\ dirty' = dirty \ {a}
  /\ \/ /\ loses
        /\ cache' = [cache EXCEPT ![o.isle][c] = now]
        /\ op' = [op EXCEPT ![a] = AddEnded(o, FALSE)]
     \/ /\ ~loses
        /\ op' = [op EXCEPT ![a].pc = "exec", ![a].redis = now]
        /\ UNCHANGED cache
  /\ UNCHANGED <<hash, reverse, programs, run>>

\* Everybody else who watches the hash of island i.
Watchers(a, i) == {b \in Actors \ {a} : op[b].pc = "exec" /\ op[b].isle = i}

\* EXEC: the archive transaction in Redis.
Commit(a) ==
  LET o == op[a]
      c == CellOf[o.isle][o.prog]
  IN
  /\ o.pc = "exec" /\ a \notin dirty
  /\ hash' = [hash EXCEPT ![o.isle][c] = o.prog]
  /\ reverse' = [reverse EXCEPT ![o.isle] =
       [p \in Programs |-> IF p = o.prog THEN c
                           ELSE IF p = o.redis THEN Vacant ELSE @[p]]]
  /\ dirty' = dirty \cup Watchers(a, o.isle)

\* Seeded bug: the elite that is replaced stays in the cache.
ExecRedisOnly(a) ==
  /\ Commit(a)
  /\ op' = [op EXCEPT ![a].pc = "mark", ![a].seen = Vacant, ![a].redis = Vacant]
  /\ UNCHANGED <<cache, programs, run>>

\* EXEC, and its answer: the cache entry.
Exec(a) ==
  LET o == op[a] IN
  /\ Commit(a)
  /\ cache' = [cache EXCEPT ![o.isle][CellOf[o.isle][o.prog]] = o.prog]
  /\ op' = [op EXCEPT ![a].pc = "mark", ![a].seen = Vacant, ![a].redis = Vacant]
  /\ UNCHANGED <<programs, run>>

\* WatchError: the cache entry is dropped and the cell is read again.
ExecAborted(a) ==
  LET o == op[a] IN
  /\ o.pc = "exec" /\ a \in dirty
  /\ cache' = [cache EXCEPT ![o.isle][CellOf[o.isle][o.prog]] = Vacant]
  /\ Goto(a, "watch")
  /\ UNCHANGED <<hash, reverse, dirty, programs, run>>

\* update_program. The stored revision is never older than the one the
\* program was read with, so storage.update's merge keeps a key that the
\* stored metadata already has: only the first island is ever written.
Stamp(o) ==
  /\ o.pc = "mark"
  /\ current' = [current EXCEPT ![o.prog] = IF @ = Unset THEN o.isle ELSE @]
  /\ UNCHANGED discarded

Mark(a) ==
  /\ Stamp(op[a])
  /\ Goto(a, "measure")
  /\ UNCHANGED <<archive, todo, run>>

\* Seeded bug: the remover's score has the wrong sign.
Highest(elites) ==
  {d \in SUBSET elites :
     /\ Cardinality(d) = Cardinality(elites) - MaxSize
     /\ \A p \in d, q \in elites \ d : Fitness[p] >= Fitness[q]}

\* Seeded bug: one program too many is tolerated.
LowestButOne(elites) ==
  {d \in SUBSET elites :
     /\ Cardinality(d) = Cardinality(elites) - MaxSize - 1
     /\ \A p \in d, q \in elites \ d : Fitness[p] <= Fitness[q]}

\* FitnessArchiveRemover: the lowest ones beyond the limit.
Lowest(elites) ==
  {d \in SUBSET elites :
     /\ Cardinality(d) = Cardinality(elites) - MaxSize
     /\ \A p \in d, q \in elites \ d : Fitness[p] <= Fitness[q]}

\* _enforce_size_limit: the length is Redis's, the candidates the cache's.
Measure(a) ==
  LET o == op[a]
      over == /\ Cardinality({c \in Cells : hash[o.isle][c] # Vacant}) > MaxSize
              /\ Cardinality(Elites(o.isle)) > MaxSize
  IN
  /\ o.pc = "measure"
  /\ \/ /\ over
        /\ \E d \in Lowest(Elites(o.isle)) :
             op' = [op EXCEPT ![a].pc = "lookup",
                              ![a].doomed = {<<p, current[p]>> : p \in d}]
     \/ /\ ~over
        /\ op' = [op EXCEPT ![a] = EnforceEnded(o)]
  /\ UNCHANGED <<archive, programs, run>>

\* HGET of the reverse index.
Where(i, ps) == {<<p, reverse[i][p]>> : p \in {q \in ps : reverse[i][q] # Vacant}}

Lookup(a) ==
  LET o == op[a] IN
  /\ o.pc = "lookup"
  /\ op' = [op EXCEPT ![a].pc = "bulk",
                      ![a].found = Where(o.isle, {m[1] : m \in o.doomed})]
  /\ UNCHANGED <<archive, programs, run>>

\* Seeded bug: only the index entries are deleted.
UnlinkIndex(a, i, found, ps) ==
  /\ reverse' = [reverse EXCEPT ![i] =
       [p \in Programs |-> IF \E f \in found : f[1] = p THEN Vacant ELSE @[p]]]
  /\ UNCHANGED <<hash, cache, dirty>>

\* HDEL of the cells that were looked up, whoever is in them by now, and of
\* the programs.
Delete(a, i, found) ==
  /\ hash' = [hash EXCEPT ![i] =
       [c \in Cells |-> IF \E f \in found : f[2] = c THEN Vacant ELSE @[c]]]
  /\ reverse' = [reverse EXCEPT ![i] =
       [p \in Programs |-> IF \E f \in found : f[1] = p THEN Vacant ELSE @[p]]]
  /\ dirty' = IF hash' # hash THEN dirty \cup Watchers(a, i) ELSE dirty

\* The pipeline, and its answer: the cache forgets all of ps.
Unlink(a, i, found, ps) ==
  /\ Delete(a, i, found)
  /\ cache' = [cache EXCEPT ![i] =
       [c \in Cells |-> IF found # {} /\ @[c] \in ps THEN Vacant ELSE @[c]]]

Bulk(a) ==
  LET o == op[a] IN
  /\ o.pc = "bulk"
  /\ Unlink(a, o.isle, o.found, {m[1] : m \in o.doomed})
  /\ op' = [op EXCEPT ![a].pc = "discard", ![a].found = {}]
  /\ UNCHANGED <<programs, run>>

\* The state of a program is written with the whole program, as it was read, its
\* current_island cleared. (The update before that keeps the stored key.)
Dispose(copies) ==
  /\ discarded' = discarded \cup {m[1] : m \in copies}
  /\ current' = [p \in Programs |->
                   IF <<p, Unset>> \in copies THEN Unset
                   ELSE IF \E m \in copies : m[1] = p THEN Cleared
                   ELSE current[p]]

\* Every program chosen is discarded, found or not.
Discard(a) ==
  LET o == op[a] IN
  /\ o.pc = "discard"
  /\ Dispose(o.doomed)
  /\ op' = [op EXCEPT ![a] = EnforceEnded(o)]
  /\ UNCHANGED <<archive, todo, run>>

\* The batch discard of the ingestor.
Refuse(o) ==
  /\ o.pc = "reject"
  /\ discarded' = discarded \cup {o.prog}
  /\ UNCHANGED current

Reject(a) ==
  /\ Refuse(op[a])
  /\ op' = [op EXCEPT ![a] = Idle]
  /\ UNCHANGED <<archive, todo, run>>

-----------------------------------------------------------------------------
(* select_elites and _perform_migration. *)

\* What select_migrants may return for island i.
Emigrants(i) ==
  {m \in SUBSET Elites(i) :
     \/ Cardinality(m) = MaxMigrants
     \/ m = Elites(i) /\ Cardinality(m) < MaxMigrants}

\* select_elites up to the migrants, which are read with their metadata.
StartSelect(a) ==
  /\ MayBegin(a) /\ ~ending
  /\ generation < MaxGeneration[alone]
  /\ \/ /\ generation - lastMigration >= Interval
        /\ \E chosen \in [Isles -> SUBSET Programs] :
             /\ \A i \in Isles : chosen[i] \in Emigrants(i)
             /\ op' = [op EXCEPT ![a] =
                  [Idle EXCEPT !.pc = "next", !.task = "migrate",
                     !.migrants = UNION {{<<i, <<p, current[p]>>>> :
                                            p \in chosen[i]} : i \in Isles}]]
     \/ /\ generation - lastMigration < Interval
        /\ Goto(a, "select")
  /\ UNCHANGED <<archive, programs, run>>

\* The next migrant, in any order: routed to an island other than the one its
\* metadata names, or left where it is.
NextMigrant(a) ==
  LET o == op[a] IN
  /\ o.pc = "next" /\ o.migrants # {}
  /\ \E m \in o.migrants :
       LET p == m[2][1]
           from == m[2][2]
           rest == [o EXCEPT !.migrants = @ \ {m}, !.source = from]
       IN \/ \E i \in Compatible(p, Isles \ {from}) :
               op' = [op EXCEPT ![a] = AddTo(rest, p, i)]
          \/ /\ Compatible(p, Isles \ {from}) = {}
             /\ op' = [op EXCEPT ![a] = rest]
  /\ UNCHANGED <<archive, programs, run>>

\* remove_elite_by_id on the source: the cell is looked up ...
Leave(a) ==
  LET o == op[a] IN
  /\ o.pc = "leave"
  /\ LET found == Where(o.source, {o.prog}) IN
     op' = [op EXCEPT ![a] =
       IF found = {} THEN [o EXCEPT !.pc = "rollback"]
       ELSE [o EXCEPT !.pc = "left", !.found = found]]
  /\ UNCHANGED <<archive, programs, run>>

\* ... and the entries are deleted.
Left(a) ==
  LET o == op[a] IN
  /\ o.pc = "left"
  /\ Unlink(a, o.source, o.found, {o.prog})
  /\ op' = [op EXCEPT ![a] = NextOf(o)]
  /\ UNCHANGED <<programs, run>>

\* Not in its source any more: remove_elite_by_id on the destination.
Rollback(a) ==
  LET o == op[a] IN
  /\ o.pc = "rollback"
  /\ LET found == Where(o.isle, {o.prog}) IN
     op' = [op EXCEPT ![a] =
       IF found = {} THEN NextOf(o)
       ELSE [o EXCEPT !.pc = "rolledback", !.found = found]]
  /\ UNCHANGED <<archive, programs, run>>

RolledBack(a) ==
  LET o == op[a] IN
  /\ o.pc = "rolledback"
  /\ Unlink(a, o.isle, o.found, {o.prog})
  /\ op' = [op EXCEPT ![a] = NextOf(o)]
  /\ UNCHANGED <<programs, run>>

\* _enforce_all_island_size_limits, here one island after the other.
MigrantsDone(a) ==
  /\ op[a].pc = "next" /\ op[a].migrants = {}
  /\ op' = [op EXCEPT ![a] = [Idle EXCEPT !.pc = "limits", !.task = "limits",
                                          !.left = Isles]]
  /\ UNCHANGED <<archive, programs, run>>

Limits(a) ==
  LET o == op[a] IN
  /\ o.pc = "limits"
  /\ \/ \E i \in o.left :
          /\ op' = [op EXCEPT ![a] = [o EXCEPT !.pc = "measure", !.isle = i,
                                               !.left = @ \ {i},
                                               !.doomed = {}]]
          /\ UNCHANGED lastMigration
     \/ /\ o.left = {}
        /\ lastMigration' = generation
        /\ op' = [op EXCEPT ![a] = [Idle EXCEPT !.pc = "select"]]
  /\ UNCHANGED <<archive, programs, generation, ending, alone, crashes>>

\* The selection itself; it counts as a generation unless it is empty.
Select(a) ==
  /\ op[a].pc = "select"
  /\ generation' =
       IF generation < MaxGeneration[alone] /\ \E i \in Isles : Elites(i) # {}
       THEN generation + 1 ELSE generation
  /\ op' = [op EXCEPT ![a] = Idle]
  /\ UNCHANGED <<archive, programs, lastMigration, ending, alone, crashes>>

\* The process ends and is resumed: calls and cache are lost, the cache is
\* read from Redis, and the engine ingests again every DONE program that is in
\* no archive. (Generations are saved right after they are changed.)
Restart ==
  /\ ~alone /\ crashes < MaxCrashes
  /\ op' = [a \in Actors |-> Idle]
  /\ dirty' = {}
  /\ cache' = hash
  /\ todo' = Programs \ (discarded \cup UNION {Members(i) : i \in Isles})
  /\ ending' = FALSE
  /\ crashes' = crashes + 1
  /\ UNCHANGED <<hash, reverse, current, discarded, generation,
                 lastMigration, alone>>

\* The run ends: the dispatcher cancels the mutant tasks, and when they are gone
\* run() cancels the ingestor. What the call awaited from Redis is executed or not
\* (of the discards, which run side by side, any); the cache, with which the final
\* sweep goes on, is not told. The program the ingestor was adding or rejecting is
\* offered again.
CutOff(a) ==
  LET o == op[a] IN
  /\ ~alone /\ crashes < MaxCrashes
  /\ o.pc # "idle"
  /\ a \in Adders => \A b \in Producers : op[b].pc = "idle"
  /\ \/ Commit(a)
     \/ o.pc \in {"bulk", "rolledback"} /\ Delete(a, o.isle, o.found)
     \/ o.pc = "left" /\ Delete(a, o.source, o.found)
     \/ UNCHANGED <<hash, reverse>> /\ dirty' = dirty \ {a}
  /\ \/ Stamp(o) \/ Refuse(o)
     \/ o.pc = "discard" /\ \E copies \in SUBSET o.doomed : Dispose(copies)
     \/ UNCHANGED <<current, discarded>>
  /\ op' = [op EXCEPT ![a] = Idle]
  /\ todo' = todo \cup {p \in Programs \ discarded' : a \in Adders /\ p = o.prog}
  /\ ending' = TRUE
  /\ crashes' = crashes + 1
  /\ UNCHANGED <<cache, generation, lastMigration, alone>>

Add(a) == Watch(a) \/ Exec(a) \/ ExecAborted(a) \/ Mark(a)
Enforce(a) == Measure(a) \/ Lookup(a) \/ Bulk(a) \/ Discard(a)
Migrate(a) == \/ NextMigrant(a) \/ Leave(a) \/ Left(a) \/ Rollback(a)
              \/ RolledBack(a) \/ MigrantsDone(a) \/ Limits(a)

Next ==
  \/ \E a \in Adders : StartAdd(a) \/ Reject(a)
  \/ \E a \in Producers : StartSelect(a) \/ Migrate(a) \/ Select(a)
  \/ \E a \in Actors : Add(a) \/ Enforce(a) \/ CutOff(a)
  \/ Restart

Spec == Init /\ [][Next]_vars

-----------------------------------------------------------------------------
(* Properties. *)

\* However calls overlap, wherever one is cut off between Redis and the cache, and
\* wherever the process dies, the archive of an island keeps the index that removal
\* relies on: the program of a cell is found under that cell. (The converse fails: a
\* removal that overtakes an add leaves an index entry without its cell.)
ReverseIndexed ==
  \A i \in Isles, c \in Cells :
    hash[i][c] # Vacant => reverse[i][hash[i][c]] = c

\* However calls overlap, an elite that another program displaces is displaced by
\* a better one: the check that read the cell cannot be outdated when the cell is
\* written, not even when the cache missed what a cancelled call wrote.
ReplacedByBetter ==
  [][\A i \in Isles, c \in Cells :
       hash'[i][c] \notin {Vacant, hash[i][c]} =>
         Better(hash'[i][c], hash[i][c])]_vars

AtRest == alone /\ AllIdle

\* Calls that do not overlap leave the cache equal to Redis, through
\* replacement, migration, rollback and size enforcement alike.
CacheMirrors == AtRest => cache = hash

\* Calls that do not overlap leave no program in two islands, unless it has been
\* discarded: a migration that added it to one has removed it from the other, or
\* taken it back. (A size limit may discard a migrant that another island still
\* holds; with its metadata cleared it is then copied from there, not moved.)
OneIsland ==
  AtRest =>
    \A i, j \in Isles : i # j => Members(i) \cap Members(j) \subseteq discarded

\* No two programs have the same fitness.
NoTies == \A p, q \in Programs : Fitness[p] = Fitness[q] => p = q

\* Calls that do not overlap never lose the best: whatever was accepted once,
\* some island holds a program at least as good. This needs NoTies or a size
\* limit above one: of two equals with one place, each may evict the other,
\* the second of them on a migration that is then rolled back.
BestKept ==
  AtRest =>
    \A p \in Programs :
      current[p] # Unset =>
        \E i \in Isles : \E q \in Members(i) : Fitness[q] >= Fitness[p]

\* Calls that do not overlap leave every island within its size limit.
SizeKept == AtRest => \A i \in Isles : Cardinality(Members(i)) <= MaxSize

\* What a test says of a migration, "the program's current_island metadata is
\* updated": between calls the metadata of a member names its island.
CurrentIsland ==
  AtRest => \A i \in Isles : \A p \in Members(i) : current[p] = i
=============================================================================
