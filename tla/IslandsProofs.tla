---------------------------- MODULE IslandsProofs ----------------------------
(***************************************************************************)
(* Proofs about the islands for any number of programs, islands, cells and *)
(* calls. The first part holds however calls overlap or are cancelled and  *)
(* wherever the process dies; the second is about calls that do not.       *)
(***************************************************************************)
EXTENDS Islands, FiniteSetTheorems, TLAPS

\* The four parts of a call: adding a program to an island, the size limit of
\* the island, and taking a migrant out of its source or back.
AddPcs == {"watch", "exec"}
EnforcePcs == {"measure", "lookup", "bulk", "discard"}
LeavePcs == {"leave", "left", "rollback", "rolledback"}
AfterPcs == {"mark"} \cup EnforcePcs \cup LeavePcs

\* What a call knows about itself: its island and program once it has them, a
\* migrant's source is another island, the cells it looked up are the cells of
\* the programs it looked for, and its program is better than what it has seen
\* in the cell it is about to write.
Sound(o) ==
  /\ o.pc \in AddPcs \cup AfterPcs => o.isle \in Isles
  /\ o.pc \in AddPcs \cup {"mark"} => o.task \in {"ingest", "migrate"}
  /\ o.pc \in EnforcePcs => o.task # "none"
  /\ o.pc = "limits" => o.task = "limits"
  /\ o.pc \in LeavePcs \cup {"next"} => o.task = "migrate"
  /\ o.pc \in AddPcs \cup AfterPcs /\ o.task # "limits" => o.prog \in Programs
  /\ o.pc = "reject" => o.prog \in Programs
  /\ o.pc \in LeavePcs => o.source \in Isles
  /\ o.pc \in AddPcs \cup AfterPcs /\ o.task = "migrate" => o.source # o.isle
  /\ o.pc \in {"bulk", "rolledback"} => \A f \in o.found : f[2] = CellOf[o.isle][f[1]]
  /\ o.pc = "left" => \A f \in o.found : f[2] = CellOf[o.source][f[1]]
  /\ o.pc \in AddPcs => Better(o.prog, o.seen)
  /\ o.pc = "exec" =>
       /\ Better(o.prog, o.redis)
       /\ o.redis # Vacant => CellOf[o.isle][o.redis] = CellOf[o.isle][o.prog]

CallsSound == \A a \in Actors : Sound(op[a])

\* Every program is in the cell of its behavior, by the hash and by the index.
Housed ==
  \A i \in Isles, c \in Cells : hash[i][c] # Vacant => CellOf[i][hash[i][c]] = c
Indexed ==
  \A i \in Isles, p \in Programs : reverse[i][p] \in {Vacant, CellOf[i][p]}

\* What an actor has read under WATCH is there unless the hash was written.
Fresh ==
  \A a \in Actors :
    op[a].pc = "exec" /\ a \notin dirty =>
      op[a].redis = hash[op[a].isle][CellOf[op[a].isle][op[a].prog]]

IndexInv == TypeOK /\ CallsSound /\ Housed /\ Indexed /\ ReverseIndexed /\ Fresh

-----------------------------------------------------------------------------
(* The calls. *)

\* A call that has ended is sound.
LEMMA IdleSound == Idle \in OpType /\ Sound(Idle)
BY DEF Idle, OpType, Homes, Sound, AddPcs, AfterPcs, EnforcePcs, LeavePcs

\* Back in the loop over the migrants, a call is sound.
LEMMA NextSound ==
  ASSUME NEW o \in OpType
  PROVE  /\ NextOf(o) \in OpType /\ Sound(NextOf(o))
         /\ NextOf(o).pc = "next" /\ NextOf(o).task = "migrate"
         /\ NextOf(o).migrants = o.migrants
<1> DEFINE n == NextOf(o)
<1>1. n = [Idle EXCEPT !.pc = "next", !.task = "migrate", !.migrants = o.migrants]
  BY DEF NextOf
<1>2. o.migrants \in SUBSET (Isles \X Copies)
  BY DEF OpType
<1> HIDE DEF n
<1>3. n \in OpType /\ n.pc = "next" /\ n.task = "migrate" /\ n.migrants = o.migrants
  BY <1>1, <1>2, IdleSound DEF OpType
<1>4. Sound(n)
  BY <1>3 DEF Sound, AddPcs, AfterPcs, EnforcePcs, LeavePcs
<1> QED
  BY <1>3, <1>4 DEF n

\* So is one that ends island.add.
LEMMA AddEndedSound ==
  ASSUME NEW o \in OpType, NEW ok \in BOOLEAN, o.task \in {"ingest", "migrate"},
         o.prog \in Programs, ok => o.isle \in Isles, o.task = "migrate" => o.source # o.isle
  PROVE  AddEnded(o, ok) \in OpType /\ Sound(AddEnded(o, ok))
<1>1. CASE o.task = "ingest" /\ ok
  <2>1. AddEnded(o, ok) = Idle
    BY <1>1 DEF AddEnded
  <2> QED
    BY <2>1, IdleSound
<1>2. CASE o.task = "ingest" /\ ~ok
  <2>1. AddEnded(o, ok) = [Idle EXCEPT !.pc = "reject", !.prog = o.prog]
    BY <1>2 DEF AddEnded
  <2>2. AddEnded(o, ok) \in OpType
    BY <2>1, IdleSound DEF OpType
  <2>3. AddEnded(o, ok).pc = "reject" /\ AddEnded(o, ok).prog = o.prog
    BY <2>1, IdleSound DEF OpType
  <2> QED
    BY <2>2, <2>3 DEF Sound, AddPcs, AfterPcs, EnforcePcs, LeavePcs
<1>3. CASE o.task = "migrate" /\ ok /\ o.source \in Isles
  <2>1. AddEnded(o, ok) = [o EXCEPT !.pc = "leave"]
    BY <1>3 DEF AddEnded
  <2> QED
    BY <1>3, <2>1 DEF OpType, Sound, AddPcs, AfterPcs, EnforcePcs, LeavePcs
<1>4. CASE o.task = "migrate" /\ ~(ok /\ o.source \in Isles)
  <2>1. AddEnded(o, ok) = NextOf(o)
    BY <1>4 DEF AddEnded
  <2> QED
    BY <2>1, NextSound
<1> QED
  BY <1>1, <1>2, <1>3, <1>4

\* A call that enters an island's cell is sound.
LEMMA AddToSound ==
  ASSUME TypeOK, NEW o \in OpType, NEW p \in Programs, NEW i \in Isles,
         o.task \in {"ingest", "migrate"}, o.task = "migrate" => o.source # i,
         i \in Compatible(p, Isles)
  PROVE  AddTo(o, p, i) \in OpType /\ Sound(AddTo(o, p, i))
<1>1. CellOf[i][p] \in Cells /\ cache[i][CellOf[i][p]] \in Programs \cup {Vacant}
  BY IslandsAssumption DEF IslandsAssumption, TypeOK
<1>2. Better(p, cache[i][CellOf[i][p]])
  BY DEF Compatible
<1> DEFINE seen == cache[i][CellOf[i][p]]
<1>3. AddTo(o, p, i) = [o EXCEPT !.pc = "watch", !.prog = p, !.isle = i, !.seen = seen]
  BY DEF AddTo
<1> HIDE DEF seen
<1>4. seen \in Programs \cup {Vacant} /\ Better(p, seen)
  BY <1>1, <1>2 DEF seen
<1> DEFINE n == [o EXCEPT !.pc = "watch", !.prog = p, !.isle = i, !.seen = seen]
<1>5. n \in OpType
  BY <1>4 DEF OpType
<1>6. /\ n.pc = "watch" /\ n.prog = p /\ n.isle = i /\ n.seen = seen
      /\ n.task = o.task /\ n.source = o.source
  BY DEF OpType
<1>7. AddTo(o, p, i) = n
  BY <1>3
<1> HIDE DEF n
<1>8. Sound(n)
  BY <1>4, <1>6 DEF Sound, AddPcs, AfterPcs, EnforcePcs, LeavePcs
<1> QED
  BY <1>5, <1>7, <1>8

\* A call that has enforced a size limit is sound.
LEMMA EnforceEndedSound ==
  ASSUME NEW o \in OpType, Sound(o), o.pc \in EnforcePcs
  PROVE  EnforceEnded(o) \in OpType /\ Sound(EnforceEnded(o))
<1>1. CASE o.task = "limits"
  <2>1. EnforceEnded(o) = [Idle EXCEPT !.pc = "limits", !.task = "limits", !.left = o.left]
    BY <1>1 DEF EnforceEnded
  <2>2. EnforceEnded(o) \in OpType
    BY <2>1, IdleSound DEF OpType
  <2>3. EnforceEnded(o).pc = "limits" /\ EnforceEnded(o).task = "limits"
    BY <2>1, IdleSound DEF OpType
  <2> QED
    BY <2>2, <2>3 DEF Sound, AddPcs, AfterPcs, EnforcePcs, LeavePcs
<1>2. CASE o.task # "limits"
  <2> DEFINE o1 == [o EXCEPT !.doomed = {}]
  <2>1. o1 \in OpType /\ o1.task = o.task /\ o1.prog = o.prog /\ o1.isle = o.isle
        /\ o1.source = o.source
    BY DEF OpType
  <2>2. EnforceEnded(o) = AddEnded(o1, TRUE)
    BY <1>2 DEF EnforceEnded
  <2> HIDE DEF o1
  <2>3. /\ o.task \in {"ingest", "migrate"} /\ o.prog \in Programs /\ o.isle \in Isles
        /\ o.task = "migrate" => o.source # o.isle
    BY <1>2 DEF Sound, OpType, AddPcs, AfterPcs
  <2> QED
    BY <2>1, <2>2, <2>3, AddEndedSound
<1> QED
  BY <1>1, <1>2

\* Actor a goes on to o, and the call of everyone else stays as it is.
Turn(a, o) == o \in OpType /\ Sound(o) /\ op' = [op EXCEPT ![a] = o]
Turns == \E a \in Actors : \E o : Turn(a, o)

\* A turn leaves all calls well-typed and sound.
LEMMA TurnSound ==
  ASSUME TypeOK, CallsSound, Turns
  PROVE  op' \in [Actors -> OpType] /\ CallsSound'
BY DEF Turns, Turn, TypeOK, CallsSound

\* The steps of island.add are turns.
LEMMA AddTurns ==
  ASSUME TypeOK, CallsSound, Housed, NEW a \in Actors, Add(a)
  PROVE  Turns
<1> DEFINE o == op[a]
<1>1. o \in OpType /\ Sound(o)
  BY DEF TypeOK, CallsSound
<1>2. CASE Watch(a)
  <2> DEFINE c == CellOf[o.isle][o.prog]
             now == hash[o.isle][c]
             loses == now # Vacant /\ now # o.seen /\ ~Better(o.prog, now)
  <2>1. o.pc = "watch"
    BY <1>2 DEF Watch
  <2>2. /\ o.task \in {"ingest", "migrate"} /\ o.prog \in Programs /\ o.isle \in Isles
        /\ o.task = "migrate" => o.source # o.isle
        /\ Better(o.prog, o.seen)
    BY <1>1, <2>1 DEF Sound, AddPcs
  <2>3. CASE loses
    <3>1. op' = [op EXCEPT ![a] = AddEnded(o, FALSE)]
      BY <1>2, <2>3 DEF Watch
    <3>2. AddEnded(o, FALSE) \in OpType /\ Sound(AddEnded(o, FALSE))
      BY <1>1, <2>2, AddEndedSound
    <3> QED
      BY <3>1, <3>2 DEF Turns, Turn
  <2>4. CASE ~loses
    <3> DEFINE o2 == [o EXCEPT !.pc = "exec", !.redis = now]
    <3>1. op' = [op EXCEPT ![a] = o2]
      BY <1>2, <2>4 DEF Watch, TypeOK
    <3>2. now \in Programs \cup {Vacant}
      BY <2>2, IslandsAssumption DEF IslandsAssumption, TypeOK
    <3>3. Better(o.prog, now)
      BY <2>2, <2>4 DEF Better
    <3>4. now # Vacant => CellOf[o.isle][now] = c
      BY <2>2, IslandsAssumption DEF IslandsAssumption, Housed
    <3> HIDE DEF now, c
    <3>5. o2 \in OpType
      BY <1>1, <3>2 DEF OpType
    <3>6. Sound(o2)
      BY <1>1, <2>1, <2>2, <3>3, <3>4 DEF OpType, Sound, AddPcs, AfterPcs, EnforcePcs,
                                          LeavePcs, c
    <3> QED
      BY <3>1, <3>5, <3>6 DEF Turns, Turn
  <2> QED
    BY <2>3, <2>4
<1>3. CASE Exec(a)
  <2> DEFINE o2 == [o EXCEPT !.pc = "mark", !.seen = Vacant, !.redis = Vacant]
  <2>1. op' = [op EXCEPT ![a] = o2] /\ o.pc = "exec"
    BY <1>3 DEF Exec, Commit, TypeOK
  <2>2. o2 \in OpType /\ Sound(o2)
    BY <1>1, <2>1 DEF OpType, Sound, AddPcs, AfterPcs, EnforcePcs, LeavePcs
  <2> QED
    BY <2>1, <2>2 DEF Turns, Turn
<1>4. CASE ExecAborted(a)
  <2> DEFINE o2 == [o EXCEPT !.pc = "watch"]
  <2>1. op' = [op EXCEPT ![a] = o2] /\ o.pc = "exec"
    BY <1>4 DEF ExecAborted, Goto, TypeOK
  <2>2. o2 \in OpType /\ Sound(o2)
    BY <1>1, <2>1 DEF OpType, Sound, AddPcs, AfterPcs, EnforcePcs, LeavePcs
  <2> QED
    BY <2>1, <2>2 DEF Turns, Turn
<1>5. CASE Mark(a)
  <2> DEFINE o2 == [o EXCEPT !.pc = "measure"]
  <2>1. op' = [op EXCEPT ![a] = o2] /\ o.pc = "mark"
    BY <1>5 DEF Mark, Stamp, Goto, TypeOK
  <2>2. o2 \in OpType /\ Sound(o2)
    BY <1>1, <2>1 DEF OpType, Sound, AddPcs, AfterPcs, EnforcePcs, LeavePcs
  <2> QED
    BY <2>1, <2>2 DEF Turns, Turn
<1> QED
  BY <1>2, <1>3, <1>4, <1>5 DEF Add

\* What the index tells of some programs are cells of theirs.
LEMMA WhereSound ==
  ASSUME TypeOK, Indexed, NEW i \in Isles, NEW ps \in SUBSET Programs
  PROVE  /\ Where(i, ps) \in SUBSET (Programs \X Cells)
         /\ \A f \in Where(i, ps) : f[2] = CellOf[i][f[1]]
<1>1. \A p \in ps : reverse[i][p] # Vacant =>
        reverse[i][p] \in Cells /\ reverse[i][p] = CellOf[i][p]
  BY DEF TypeOK, Indexed
<1> QED
  BY <1>1 DEF Where

\* The steps that enforce a size limit are turns.
LEMMA EnforceTurns ==
  ASSUME TypeOK, CallsSound, Indexed, NEW a \in Actors, Enforce(a)
  PROVE  Turns
<1> DEFINE o == op[a]
<1>1. o \in OpType /\ Sound(o)
  BY DEF TypeOK, CallsSound
<1>2. CASE Measure(a)
  <2>1. o.pc = "measure"
    BY <1>2 DEF Measure
  <2>2. CASE op' = [op EXCEPT ![a] = EnforceEnded(o)]
    <3>1. EnforceEnded(o) \in OpType /\ Sound(EnforceEnded(o))
      BY <1>1, <2>1, EnforceEndedSound DEF EnforcePcs
    <3> QED
      BY <2>2, <3>1 DEF Turns, Turn
  <2>3. CASE op' # [op EXCEPT ![a] = EnforceEnded(o)]
    <3>1. PICK d \in Lowest(Elites(o.isle)) :
            op' = [op EXCEPT ![a].pc = "lookup",
                             ![a].doomed = {<<p, current[p]>> : p \in d}]
      BY <1>2, <2>3 DEF Measure
    <3> DEFINE doomed == {<<p, current[p]>> : p \in d}
               o2 == [o EXCEPT !.pc = "lookup", !.doomed = doomed]
    <3>2. o.isle \in Isles
      BY <1>1, <2>1 DEF Sound, AfterPcs, EnforcePcs
    <3>3. d \subseteq Programs
      BY <3>1, <3>2 DEF Lowest, Elites, TypeOK
    <3>4. doomed \in SUBSET Copies
      BY <3>3 DEF TypeOK, Copies
    <3>5. op' = [op EXCEPT ![a] = o2]
      BY <3>1 DEF TypeOK
    <3> HIDE DEF doomed
    <3>6. o2 \in OpType /\ Sound(o2)
      BY <1>1, <2>1, <3>4 DEF OpType, Sound, AddPcs, AfterPcs, EnforcePcs, LeavePcs
    <3> QED
      BY <3>5, <3>6 DEF Turns, Turn
  <2> QED
    BY <2>2, <2>3
<1>3. CASE Lookup(a)
  <2> DEFINE found == Where(o.isle, {m[1] : m \in o.doomed})
             o2 == [o EXCEPT !.pc = "bulk", !.found = found]
  <2>1. op' = [op EXCEPT ![a] = o2] /\ o.pc = "lookup"
    BY <1>3 DEF Lookup, TypeOK
  <2>2. o.isle \in Isles
    BY <1>1, <2>1 DEF Sound, AfterPcs, EnforcePcs
  <2>3. {m[1] : m \in o.doomed} \in SUBSET Programs
    BY <1>1 DEF OpType, Copies
  <2>4. /\ found \in SUBSET (Programs \X Cells)
        /\ \A f \in found : f[2] = CellOf[o.isle][f[1]]
    BY <2>2, <2>3, WhereSound
  <2> HIDE DEF found
  <2>5. o2 \in OpType
    BY <1>1, <2>4 DEF OpType
  <2>6. Sound(o2)
    BY <1>1, <2>1, <2>4 DEF OpType, Sound, AddPcs, AfterPcs, EnforcePcs, LeavePcs
  <2> QED
    BY <2>1, <2>5, <2>6 DEF Turns, Turn
<1>4. CASE Bulk(a)
  <2> DEFINE o2 == [o EXCEPT !.pc = "discard", !.found = {}]
  <2>1. op' = [op EXCEPT ![a] = o2] /\ o.pc = "bulk"
    BY <1>4 DEF Bulk, TypeOK
  <2>2. o2 \in OpType /\ Sound(o2)
    BY <1>1, <2>1 DEF OpType, Sound, AddPcs, AfterPcs, EnforcePcs, LeavePcs
  <2> QED
    BY <2>1, <2>2 DEF Turns, Turn
<1>5. CASE Discard(a)
  <2>1. o.pc = "discard" /\ op' = [op EXCEPT ![a] = EnforceEnded(o)]
    BY <1>5 DEF Discard
  <2>2. EnforceEnded(o) \in OpType /\ Sound(EnforceEnded(o))
    BY <1>1, <2>1, EnforceEndedSound DEF EnforcePcs
  <2> QED
    BY <2>1, <2>2 DEF Turns, Turn
<1> QED
  BY <1>2, <1>3, <1>4, <1>5 DEF Enforce

\* The steps of a migration are turns.
LEMMA MigrateTurns ==
  ASSUME TypeOK, CallsSound, Indexed, NEW a \in Actors, Migrate(a)
  PROVE  Turns
<1> DEFINE o == op[a]
<1>1. o \in OpType /\ Sound(o)
  BY DEF TypeOK, CallsSound
<1>2. CASE NextMigrant(a)
  <2>1. o.pc = "next" /\ o.task = "migrate"
    BY <1>1, <1>2 DEF NextMigrant, Sound
  <2>2. PICK m \in o.migrants :
          LET rest == [o EXCEPT !.migrants = @ \ {m}, !.source = m[2][2]]
          IN  \/ \E i \in Compatible(m[2][1], Isles \ {m[2][2]}) :
                    op' = [op EXCEPT ![a] = AddTo(rest, m[2][1], i)]
              \/ op' = [op EXCEPT ![a] = rest]
    BY <1>2 DEF NextMigrant
  <2> DEFINE rest == [o EXCEPT !.migrants = @ \ {m}, !.source = m[2][2]]
  <2>3. m[2][1] \in Programs /\ m[2][2] \in Homes
    BY <1>1 DEF OpType, Copies
  <2>4. rest \in OpType /\ rest.task = "migrate" /\ rest.source = m[2][2]
    BY <1>1, <2>1, <2>3 DEF OpType
  <2>5. CASE op' = [op EXCEPT ![a] = rest]
    <3>1. Sound(rest)
      BY <1>1, <2>1, <2>3 DEF OpType, Sound, AddPcs, AfterPcs, EnforcePcs, LeavePcs
    <3> QED
      BY <2>4, <2>5, <3>1 DEF Turns, Turn
  <2>6. CASE op' # [op EXCEPT ![a] = rest]
    <3>1. PICK i \in Compatible(m[2][1], Isles \ {m[2][2]}) :
            op' = [op EXCEPT ![a] = AddTo(rest, m[2][1], i)]
      BY <2>2, <2>6
    <3>2. i \in Isles /\ i # m[2][2] /\ i \in Compatible(m[2][1], Isles)
      BY <3>1 DEF Compatible
    <3> HIDE DEF rest
    <3>3. AddTo(rest, m[2][1], i) \in OpType /\ Sound(AddTo(rest, m[2][1], i))
      BY <2>3, <2>4, <3>2, AddToSound
    <3> QED
      BY <3>1, <3>3 DEF Turns, Turn
  <2> QED
    BY <2>5, <2>6
<1>3. CASE Leave(a)
  <2> DEFINE found == Where(o.source, {o.prog})
             o2 == IF found = {} THEN [o EXCEPT !.pc = "rollback"]
                   ELSE [o EXCEPT !.pc = "left", !.found = found]
  <2>1. op' = [op EXCEPT ![a] = o2] /\ o.pc = "leave"
    BY <1>3 DEF Leave
  <2>2. o.source \in Isles /\ o.prog \in Programs
    BY <1>1, <2>1 DEF Sound, AddPcs, AfterPcs, LeavePcs
  <2>3. /\ found \in SUBSET (Programs \X Cells)
        /\ \A f \in found : f[2] = CellOf[o.source][f[1]]
    BY <2>2, WhereSound
  <2> HIDE DEF found
  <2>4. /\ o2 \in OpType
        /\ o2.task = o.task /\ o2.prog = o.prog /\ o2.source = o.source
        /\ o2.isle = o.isle
        /\ o2.pc = "rollback" \/ (o2.pc = "left" /\ o2.found = found)
    <3>1. CASE found = {}
      BY <1>1, <3>1 DEF OpType
    <3>2. CASE found # {}
      BY <1>1, <2>3, <3>2 DEF OpType
    <3> QED
      BY <3>1, <3>2
  <2> HIDE DEF o2
  <2>5. Sound(o2)
    BY <1>1, <2>1, <2>3, <2>4 DEF Sound, AddPcs, AfterPcs, EnforcePcs, LeavePcs
  <2> QED
    BY <2>1, <2>4, <2>5 DEF Turns, Turn
<1>4. CASE Rollback(a)
  <2> DEFINE found == Where(o.isle, {o.prog})
             o2 == [o EXCEPT !.pc = "rolledback", !.found = found]
  <2>1. o.pc = "rollback"
        /\ op' = [op EXCEPT ![a] = IF found = {} THEN NextOf(o) ELSE o2]
    BY <1>4 DEF Rollback
  <2>2. o.isle \in Isles /\ o.prog \in Programs
    BY <1>1, <2>1 DEF Sound, AddPcs, AfterPcs, LeavePcs
  <2>3. /\ found \in SUBSET (Programs \X Cells)
        /\ \A f \in found : f[2] = CellOf[o.isle][f[1]]
    BY <2>2, WhereSound
  <2> HIDE DEF found
  <2>4. o2 \in OpType /\ Sound(o2)
    BY <1>1, <2>1, <2>3 DEF OpType, Sound, AddPcs, AfterPcs, EnforcePcs, LeavePcs
  <2> QED
    BY <1>1, <2>1, <2>4, NextSound DEF Turns, Turn
<1>5. CASE Left(a) \/ RolledBack(a)
  <2>1. op' = [op EXCEPT ![a] = NextOf(o)]
    BY <1>5 DEF Left, RolledBack
  <2> QED
    BY <1>1, <2>1, NextSound DEF Turns, Turn
<1>6. CASE MigrantsDone(a)
  <2> DEFINE o2 == [Idle EXCEPT !.pc = "limits", !.task = "limits", !.left = Isles]
  <2>1. op' = [op EXCEPT ![a] = o2]
    BY <1>6 DEF MigrantsDone
  <2>2. o2 \in OpType /\ Sound(o2)
    BY DEF Idle, OpType, Homes, Sound, AddPcs, AfterPcs, EnforcePcs, LeavePcs
  <2> QED
    BY <2>1, <2>2 DEF Turns, Turn
<1>7. CASE Limits(a)
  <2>1. CASE op' = [op EXCEPT ![a] = [Idle EXCEPT !.pc = "select"]]
    <3>1. [Idle EXCEPT !.pc = "select"] \in OpType /\ Sound([Idle EXCEPT !.pc = "select"])
      BY DEF Idle, OpType, Homes, Sound, AddPcs, AfterPcs, EnforcePcs, LeavePcs
    <3> QED
      BY <2>1, <3>1 DEF Turns, Turn
  <2>2. CASE op' # [op EXCEPT ![a] = [Idle EXCEPT !.pc = "select"]]
    <3>1. PICK i \in o.left :
            op' = [op EXCEPT ![a] = [o EXCEPT !.pc = "measure", !.isle = i,
                                              !.left = @ \ {i}, !.doomed = {}]]
      BY <1>7, <2>2 DEF Limits
    <3> DEFINE o2 == [o EXCEPT !.pc = "measure", !.isle = i, !.left = @ \ {i},
                               !.doomed = {}]
    <3>2. o.task = "limits"
      BY <1>1, <1>7 DEF Limits, Sound
    <3>3. i \in Isles
      BY <1>1, <3>1 DEF OpType
    <3>4. /\ o2 \in OpType /\ o2.pc = "measure"
          /\ o2.task = "limits" /\ o2.isle \in Isles
      BY <1>1, <3>2, <3>3 DEF OpType
    <3>5. op' = [op EXCEPT ![a] = o2]
      BY <3>1
    <3> HIDE DEF o2
    <3>6. Sound(o2)
      BY <3>4 DEF Sound, AddPcs, AfterPcs, EnforcePcs, LeavePcs
    <3> QED
      BY <3>4, <3>5, <3>6 DEF Turns, Turn
  <2> QED
    BY <2>1, <2>2
<1> QED
  BY <1>2, <1>3, <1>4, <1>5, <1>6, <1>7 DEF Migrate

\* The steps that begin a call, and those that end one outside the archive, are
\* turns.
LEMMA BeginTurns ==
  ASSUME TypeOK, CallsSound, NEW a \in Actors,
         StartAdd(a) \/ Reject(a) \/ StartSelect(a) \/ Select(a)
  PROVE  Turns
<1> DEFINE o == op[a]
<1>1. o \in OpType /\ Sound(o)
  BY DEF TypeOK, CallsSound
<1>2. CASE StartAdd(a)
  <2> DEFINE o1 == [Idle EXCEPT !.task = "ingest"]
  <2>1. PICK p \in todo :
          \/ \E i \in Compatible(p, Isles) : op' = [op EXCEPT ![a] = AddTo(o1, p, i)]
          \/ op' = [op EXCEPT ![a] = AddEnded([o1 EXCEPT !.prog = p], FALSE)]
    BY <1>2 DEF StartAdd
  <2>2. p \in Programs
    BY DEF TypeOK
  <2>3. o1 \in OpType /\ o1.task = "ingest"
    BY DEF Idle, OpType, Homes
  <2>4. /\ [o1 EXCEPT !.prog = p] \in OpType
        /\ [o1 EXCEPT !.prog = p].task = "ingest" /\ [o1 EXCEPT !.prog = p].prog = p
    BY <2>2 DEF Idle, OpType, Homes
  <2> HIDE DEF o1
  <2>5. CASE op' = [op EXCEPT ![a] = AddEnded([o1 EXCEPT !.prog = p], FALSE)]
    <3>1. /\ AddEnded([o1 EXCEPT !.prog = p], FALSE) \in OpType
          /\ Sound(AddEnded([o1 EXCEPT !.prog = p], FALSE))
      BY <2>2, <2>4, AddEndedSound
    <3> QED
      BY <2>5, <3>1 DEF Turns, Turn
  <2>6. ASSUME NEW i \in Compatible(p, Isles), op' = [op EXCEPT ![a] = AddTo(o1, p, i)]
        PROVE  Turns
    <3>1. AddTo(o1, p, i) \in OpType /\ Sound(AddTo(o1, p, i))
      BY <2>2, <2>3, AddToSound DEF Compatible
    <3> QED
      BY <2>6, <3>1 DEF Turns, Turn
  <2> QED
    BY <2>1, <2>5, <2>6
<1>3. CASE Reject(a)
  BY <1>3, IdleSound DEF Reject, Turns, Turn
<1>4. CASE Select(a)
  BY <1>4, IdleSound DEF Select, Turns, Turn
<1>5. CASE StartSelect(a)
  <2>1. CASE op' = [op EXCEPT ![a].pc = "select"]
    <3> DEFINE o2 == [o EXCEPT !.pc = "select"]
    <3>1. op' = [op EXCEPT ![a] = o2]
      BY <2>1 DEF TypeOK
    <3>2. o2 \in OpType /\ Sound(o2)
      BY <1>1 DEF OpType, Sound, AddPcs, AfterPcs, EnforcePcs, LeavePcs
    <3> QED
      BY <3>1, <3>2 DEF Turns, Turn
  <2>2. CASE op' # [op EXCEPT ![a].pc = "select"]
    <3>1. PICK chosen \in [Isles -> SUBSET Programs] :
            op' = [op EXCEPT ![a] =
                     [Idle EXCEPT !.pc = "next", !.task = "migrate",
                        !.migrants = UNION {{<<i, <<p, current[p]>>>> :
                                               p \in chosen[i]} : i \in Isles}]]
      BY <1>5, <2>2 DEF StartSelect, Goto
    <3> DEFINE migrants == UNION {{<<i, <<p, current[p]>>>> : p \in chosen[i]} : i \in Isles}
               o2 == [Idle EXCEPT !.pc = "next", !.task = "migrate", !.migrants = migrants]
    <3>2. migrants \in SUBSET (Isles \X Copies)
      BY DEF TypeOK, Copies
    <3>3. op' = [op EXCEPT ![a] = o2]
      BY <3>1
    <3> HIDE DEF migrants
    <3>4. o2 \in OpType /\ Sound(o2)
      BY <3>2 DEF Idle, OpType, Homes, Sound, AddPcs, AfterPcs, EnforcePcs, LeavePcs
    <3> QED
      BY <3>3, <3>4 DEF Turns, Turn
  <2> QED
    BY <2>1, <2>2
<1> QED
  BY <1>2, <1>3, <1>4, <1>5

\* The process goes down, or a call is cancelled.
Cut == \E a \in Actors : CutOff(a)
Broken == Restart \/ Cut

\* Every step of a call is a turn.
LEMMA StepTurns ==
  ASSUME TypeOK, CallsSound, Housed, Indexed, Next, ~Broken
  PROVE  Turns
<1>1. ASSUME NEW a \in Actors, Add(a) PROVE Turns
  BY <1>1, AddTurns
<1>2. ASSUME NEW a \in Actors, Enforce(a) PROVE Turns
  BY <1>2, EnforceTurns
<1>3. ASSUME NEW a \in Actors, Migrate(a) PROVE Turns
  BY <1>3, MigrateTurns
<1>4. ASSUME NEW a \in Actors, StartAdd(a) \/ Reject(a) \/ StartSelect(a) \/ Select(a)
      PROVE  Turns
  BY <1>4, BeginTurns
<1> QED
  BY <1>1, <1>2, <1>3, <1>4 DEF Next, Actors, Broken, Cut

-----------------------------------------------------------------------------
(* The archive. Its hash is written by EXEC and by the removals.           *)

\* The types of the archive.
ArchiveType ==
  /\ hash \in [Isles -> [Cells -> Programs \cup {Vacant}]]
  /\ reverse \in [Isles -> [Programs -> Cells \cup {Vacant}]]
  /\ cache \in [Isles -> [Cells -> Programs \cup {Vacant}]]
  /\ dirty \subseteq Actors

\* A removal keeps the index true, and spoils what others read under WATCH if it
\* takes anything away.
LEMMA UnlinkIndexed ==
  ASSUME ArchiveType, Housed, Indexed, ReverseIndexed,
         NEW a, NEW i \in Isles, NEW found \in SUBSET (Programs \X Cells),
         \A f \in found : f[2] = CellOf[i][f[1]],
         Delete(a, i, found),
         cache' \in [Isles -> [Cells -> Programs \cup {Vacant}]]
  PROVE  /\ ArchiveType' /\ Housed' /\ Indexed' /\ ReverseIndexed'
         /\ \A j \in Isles : j # i => hash'[j] = hash[j]
         /\ dirty \subseteq dirty'
         /\ hash' # hash => Watchers(a, i) \subseteq dirty'
<1>1. /\ hash' = [hash EXCEPT ![i] =
           [c \in Cells |-> IF \E f \in found : f[2] = c THEN Vacant ELSE hash[i][c]]]
      /\ reverse' = [reverse EXCEPT ![i] =
           [p \in Programs |-> IF \E f \in found : f[1] = p THEN Vacant ELSE reverse[i][p]]]
      /\ dirty' = IF hash' # hash THEN dirty \cup Watchers(a, i) ELSE dirty
  BY DEF Delete
<1>2. ArchiveType'
  BY <1>1 DEF ArchiveType, Watchers
<1>3. Housed' /\ Indexed'
  BY <1>1 DEF ArchiveType, Housed, Indexed
<1>4. ReverseIndexed'
  <2> SUFFICES ASSUME NEW j \in Isles, NEW c \in Cells, hash'[j][c] # Vacant
               PROVE  reverse'[j][hash'[j][c]] = c
    BY DEF ReverseIndexed
  <2>1. hash'[j][c] = hash[j][c] /\ hash[j][c] \in Programs
        /\ reverse[j][hash[j][c]] = c /\ CellOf[j][hash[j][c]] = c
    BY <1>1 DEF ArchiveType, ReverseIndexed, Housed
  <2>2. CASE j # i
    BY <1>1, <2>1, <2>2 DEF ArchiveType
  <2>3. CASE j = i
    <3>1. \A f \in found : f[2] # c
      BY <1>1, <2>3 DEF ArchiveType
    <3>2. \A f \in found : f[1] # hash[j][c]
      BY <2>1, <2>3, <3>1
    <3> QED
      BY <1>1, <2>1, <2>3, <3>2 DEF ArchiveType
  <2> QED
    BY <2>2, <2>3
<1>5. \A j \in Isles : j # i => hash'[j] = hash[j]
  BY <1>1 DEF ArchiveType
<1> QED
  BY <1>1, <1>2, <1>3, <1>4, <1>5

\* EXEC moves the index along with the cell.
LEMMA ExecIndexed ==
  ASSUME TypeOK, CallsSound, Housed, Indexed, ReverseIndexed, NEW a \in Actors, Commit(a),
         cache' \in [Isles -> [Cells -> Programs \cup {Vacant}]]
  PROVE  ArchiveType' /\ Housed' /\ Indexed' /\ ReverseIndexed'
<1> DEFINE o == op[a]
           i == o.isle
           p == o.prog
           c == CellOf[i][p]
<1>1. /\ o.pc = "exec" /\ i \in Isles /\ p \in Programs
      /\ o.redis # Vacant => CellOf[i][o.redis] = c
  BY DEF Commit, CallsSound, Sound, AddPcs, AfterPcs
<1>2. c \in Cells
  BY <1>1, IslandsAssumption DEF IslandsAssumption
<1>3. /\ hash' = [hash EXCEPT ![i][c] = p]
      /\ reverse' = [reverse EXCEPT ![i] =
           [q \in Programs |-> IF q = p THEN c
                               ELSE IF q = o.redis THEN Vacant ELSE reverse[i][q]]]
      /\ dirty' = dirty \cup Watchers(a, i)
  BY DEF Commit
<1> DEFINE r == o.redis
<1>4. r # Vacant => CellOf[i][r] = c
  BY <1>1
<1>5. c = CellOf[i][p]
  OBVIOUS
<1> HIDE DEF o, i, p, c, r
<1>6. ArchiveType'
  BY <1>1, <1>2, <1>3 DEF ArchiveType, TypeOK, Watchers
<1>7. Housed' /\ Indexed'
  BY <1>1, <1>2, <1>3, <1>5 DEF TypeOK, Housed, Indexed
<1>8. ReverseIndexed'
  <2> SUFFICES ASSUME NEW j \in Isles, NEW d \in Cells, hash'[j][d] # Vacant
               PROVE  reverse'[j][hash'[j][d]] = d
    BY DEF ReverseIndexed
  <2>1. CASE j = i /\ d = c
    BY <1>1, <1>2, <1>3, <2>1 DEF TypeOK
  <2>2. CASE j = i /\ d # c
    <3>1. hash'[j][d] = hash[j][d] /\ hash[j][d] \in Programs
          /\ reverse[j][hash[j][d]] = d /\ CellOf[j][hash[j][d]] = d
      BY <1>1, <1>2, <1>3, <2>2 DEF TypeOK, ReverseIndexed, Housed
    <3>2. hash[j][d] # p /\ hash[j][d] # r
      BY <1>4, <1>5, <2>2, <3>1, IslandsAssumption DEF IslandsAssumption
    <3> QED
      BY <1>1, <1>3, <2>2, <3>1, <3>2 DEF TypeOK, r
  <2>3. CASE j # i
    BY <1>1, <1>3, <2>3 DEF TypeOK, ReverseIndexed
  <2> QED
    BY <2>1, <2>2, <2>3
<1> QED
  BY <1>6, <1>7, <1>8

\* Where an ended island.add leads.
LEMMA AddEndedPc ==
  ASSUME NEW o \in OpType, NEW ok \in BOOLEAN, o.task \in {"ingest", "migrate"}
  PROVE  AddEnded(o, ok).pc \in {"idle", "reject", "leave", "next"}
<1>1. AddEnded(o, ok) \in {Idle, [Idle EXCEPT !.pc = "reject", !.prog = o.prog],
                          [o EXCEPT !.pc = "leave"], NextOf(o)}
  BY DEF AddEnded
<1>2. /\ Idle.pc = "idle" /\ [Idle EXCEPT !.pc = "reject", !.prog = o.prog].pc = "reject"
      /\ [o EXCEPT !.pc = "leave"].pc = "leave"
  BY DEF Idle, OpType
<1> QED
  BY <1>1, <1>2, NextSound

\* Where an enforced size limit leads.
LEMMA EnforceEndedPc ==
  ASSUME NEW o \in OpType, o.task # "none"
  PROVE  EnforceEnded(o).pc \in {"idle", "reject", "leave", "next", "limits"}
<1>1. CASE o.task = "limits"
  BY <1>1 DEF EnforceEnded, Idle
<1>2. CASE o.task # "limits"
  <2>1. [o EXCEPT !.doomed = {}] \in OpType /\ [o EXCEPT !.doomed = {}].task = o.task
    BY DEF OpType
  <2>2. o.task \in {"ingest", "migrate"}
    BY <1>2 DEF OpType
  <2>3. EnforceEnded(o) = AddEnded([o EXCEPT !.doomed = {}], TRUE)
    BY <1>2 DEF EnforceEnded
  <2> QED
    BY <2>1, <2>2, <2>3, AddEndedPc
<1> QED
  BY <1>1, <1>2

\* Only Watch leads to EXEC.
LEMMA OnlyWatchReads ==
  ASSUME TypeOK, CallsSound, NEW a \in Actors,
         \/ Exec(a) \/ ExecAborted(a) \/ Mark(a) \/ Enforce(a) \/ Migrate(a)
         \/ StartAdd(a) \/ Reject(a) \/ StartSelect(a) \/ Select(a)
  PROVE  \E o : o.pc # "exec" /\ op' = [op EXCEPT ![a] = o]
<1> DEFINE o == op[a]
<1>1. o \in OpType /\ Sound(o)
  BY DEF TypeOK, CallsSound
<1>2. CASE Exec(a) \/ ExecAborted(a) \/ Mark(a)
  <2>1. \/ op' = [op EXCEPT ![a] = [o EXCEPT !.pc = "mark", !.seen = Vacant, !.redis = Vacant]]
        \/ op' = [op EXCEPT ![a] = [o EXCEPT !.pc = "watch"]]
        \/ op' = [op EXCEPT ![a] = [o EXCEPT !.pc = "measure"]]
    BY <1>2 DEF Exec, Commit, ExecAborted, Mark, Goto, TypeOK
  <2> QED
    BY <1>1, <2>1 DEF OpType
<1>3. CASE Enforce(a)
  <2>1. o.pc \in EnforcePcs
    BY <1>3 DEF Enforce, Measure, Lookup, Bulk, Discard, EnforcePcs
  <2>2. CASE op' = [op EXCEPT ![a] = EnforceEnded(o)]
    BY <1>1, <2>1, <2>2, EnforceEndedPc DEF Sound
  <2>3. ASSUME NEW d, op' = [op EXCEPT ![a].pc = "lookup", ![a].doomed = d]
        PROVE  op' = [op EXCEPT ![a] = [o EXCEPT !.pc = "lookup", !.doomed = d]]
    BY <2>3 DEF TypeOK
  <2>4. ASSUME NEW d PROVE [o EXCEPT !.pc = "lookup", !.doomed = d].pc # "exec"
    BY <1>1 DEF OpType
  <2>5. CASE Measure(a) /\ op' # [op EXCEPT ![a] = EnforceEnded(o)]
    BY <2>3, <2>4, <2>5 DEF Measure
  <2>6. CASE Lookup(a)
    <3> DEFINE found == Where(o.isle, {m[1] : m \in o.doomed})
    <3>1. op' = [op EXCEPT ![a] = [o EXCEPT !.pc = "bulk", !.found = found]]
      BY <2>6 DEF Lookup, TypeOK
    <3> HIDE DEF found
    <3> QED
      BY <1>1, <3>1 DEF OpType
  <2>7. CASE Bulk(a)
    <3>1. op' = [op EXCEPT ![a] = [o EXCEPT !.pc = "discard", !.found = {}]]
      BY <2>7 DEF Bulk, TypeOK
    <3> QED
      BY <1>1, <3>1 DEF OpType
  <2> QED
    BY <1>3, <2>2, <2>5, <2>6, <2>7 DEF Enforce, Discard
<1>4. CASE NextMigrant(a)
  <2>1. PICK m \in o.migrants :
          LET rest == [o EXCEPT !.migrants = @ \ {m}, !.source = m[2][2]]
          IN  \/ \E i \in Compatible(m[2][1], Isles \ {m[2][2]}) :
                    op' = [op EXCEPT ![a] = AddTo(rest, m[2][1], i)]
              \/ op' = [op EXCEPT ![a] = rest]
    BY <1>4 DEF NextMigrant
  <2> DEFINE rest == [o EXCEPT !.migrants = @ \ {m}, !.source = m[2][2]]
  <2>2. rest.pc # "exec"
    BY <1>1, <1>4 DEF NextMigrant, OpType
  <2>3. ASSUME NEW i PROVE AddTo(rest, m[2][1], i).pc # "exec"
    BY <1>1 DEF AddTo, OpType
  <2> QED
    BY <2>1, <2>2, <2>3
<1>5. CASE Leave(a)
  <2> DEFINE found == Where(o.source, {o.prog})
             o2 == IF found = {} THEN [o EXCEPT !.pc = "rollback"]
                   ELSE [o EXCEPT !.pc = "left", !.found = found]
  <2>1. op' = [op EXCEPT ![a] = o2]
    BY <1>5 DEF Leave
  <2> HIDE DEF found
  <2>2. o2.pc # "exec"
    BY <1>1 DEF OpType
  <2> QED
    BY <2>1, <2>2
<1>6. CASE Rollback(a)
  <2> DEFINE found == Where(o.isle, {o.prog})
             o2 == IF found = {} THEN NextOf(o)
                   ELSE [o EXCEPT !.pc = "rolledback", !.found = found]
  <2>1. op' = [op EXCEPT ![a] = o2]
    BY <1>6 DEF Rollback
  <2> HIDE DEF found
  <2>2. o2.pc # "exec"
    BY <1>1, NextSound DEF OpType
  <2> QED
    BY <2>1, <2>2
<1>7. CASE Left(a) \/ RolledBack(a)
  BY <1>1, <1>7, NextSound DEF Left, RolledBack
<1>8. CASE MigrantsDone(a)
  BY <1>8 DEF MigrantsDone, Idle
<1>9. CASE Limits(a)
  <2>1. ASSUME NEW i PROVE [o EXCEPT !.pc = "measure", !.isle = i, !.left = @ \ {i},
                                     !.doomed = {}].pc # "exec"
    BY <1>1 DEF OpType
  <2> QED
    BY <1>9, <2>1 DEF Limits, Idle
<1>10. CASE StartAdd(a)
  <2> DEFINE o1 == [Idle EXCEPT !.task = "ingest"]
  <2>1. PICK p \in todo :
          \/ \E i \in Compatible(p, Isles) : op' = [op EXCEPT ![a] = AddTo(o1, p, i)]
          \/ op' = [op EXCEPT ![a] = AddEnded([o1 EXCEPT !.prog = p], FALSE)]
    BY <1>10 DEF StartAdd
  <2>2. [o1 EXCEPT !.prog = p] \in OpType /\ [o1 EXCEPT !.prog = p].task = "ingest"
    BY DEF Idle, OpType, Homes, TypeOK
  <2>3. AddEnded([o1 EXCEPT !.prog = p], FALSE).pc # "exec"
    BY <2>2, AddEndedPc
  <2>4. ASSUME NEW i PROVE AddTo(o1, p, i).pc # "exec"
    BY DEF AddTo, Idle
  <2> QED
    BY <2>1, <2>3, <2>4
<1>11. CASE Reject(a) \/ Select(a)
  BY <1>11 DEF Reject, Select, Idle
<1>12. CASE StartSelect(a)
  <2>1. CASE op' = [op EXCEPT ![a].pc = "select"]
    <3>1. op' = [op EXCEPT ![a] = [o EXCEPT !.pc = "select"]]
      BY <2>1 DEF TypeOK
    <3> QED
      BY <1>1, <3>1 DEF OpType
  <2>2. ASSUME NEW ms PROVE [Idle EXCEPT !.pc = "next", !.task = "migrate",
                                         !.migrants = ms].pc # "exec"
    BY DEF Idle
  <2> QED
    BY <1>12, <2>1, <2>2 DEF StartSelect, Goto
<1> QED
  BY <1>2, <1>3, <1>4, <1>5, <1>6, <1>7, <1>8, <1>9, <1>10, <1>11, <1>12 DEF Migrate

-----------------------------------------------------------------------------
(* The archive invariants.                                                 *)

\* Only EXEC and the removals change the hash or the index, and only WATCH takes
\* anybody off the list of those whose watched hash was written.
LEMMA ArchiveSteps ==
  ASSUME TypeOK, Next, ~Broken
  PROVE  \E a \in Actors :
           \/ Exec(a)
           \/ Watch(a)
           \/ Bulk(a) \/ Left(a) \/ RolledBack(a)
           \/ /\ UNCHANGED <<hash, reverse, dirty>>
              /\ cache' = cache \/ ExecAborted(a)
              /\ \/ ExecAborted(a) \/ Mark(a) \/ Enforce(a) \/ Migrate(a)
                 \/ StartAdd(a) \/ Reject(a) \/ StartSelect(a) \/ Select(a)
<1>1. PICK a \in Actors : \/ StartAdd(a) \/ Reject(a) \/ StartSelect(a) \/ Select(a)
                          \/ Migrate(a) \/ Add(a) \/ Enforce(a)
  BY DEF Next, Actors, Broken, Cut
<1>2. CASE StartAdd(a) \/ Reject(a) \/ StartSelect(a) \/ Select(a)
  BY <1>2 DEF StartAdd, Reject, StartSelect, Select, archive
<1>3. CASE Migrate(a)
  BY <1>3 DEF Migrate, NextMigrant, Leave, Rollback, MigrantsDone, Limits, archive
<1>4. CASE Add(a)
  BY <1>4 DEF Add, ExecAborted, Mark, archive
<1>5. CASE Enforce(a)
  BY <1>5 DEF Enforce, Measure, Lookup, Discard, archive
<1> QED
  BY <1>1, <1>2, <1>3, <1>4, <1>5

\* The three removals: of what was looked up in an island, by the island.
LEMMA Removals ==
  ASSUME TypeOK, CallsSound, NEW a \in Actors, Bulk(a) \/ Left(a) \/ RolledBack(a)
  PROVE  \E i \in Isles, found \in SUBSET (Programs \X Cells), ps \in SUBSET Programs :
           /\ Unlink(a, i, found, ps)
           /\ \A f \in found : f[2] = CellOf[i][f[1]]
<1> DEFINE o == op[a]
<1>1. o \in OpType /\ Sound(o)
  BY DEF TypeOK, CallsSound
<1>2. o.found \in SUBSET (Programs \X Cells) /\ {m[1] : m \in o.doomed} \in SUBSET Programs
  BY <1>1 DEF OpType, Copies
<1>3. CASE Bulk(a)
  <2>1. o.pc = "bulk" /\ Unlink(a, o.isle, o.found, {m[1] : m \in o.doomed})
    BY <1>3 DEF Bulk
  <2>2. o.isle \in Isles /\ \A f \in o.found : f[2] = CellOf[o.isle][f[1]]
    BY <1>1, <2>1 DEF Sound, AfterPcs, EnforcePcs
  <2> QED
    BY <1>2, <2>1, <2>2
<1>4. CASE Left(a)
  <2>1. o.pc = "left" /\ Unlink(a, o.source, o.found, {o.prog})
    BY <1>4 DEF Left
  <2>2. /\ o.source \in Isles /\ o.prog \in Programs
        /\ \A f \in o.found : f[2] = CellOf[o.source][f[1]]
    BY <1>1, <2>1 DEF Sound, AfterPcs, LeavePcs
  <2> QED
    BY <1>2, <2>1, <2>2
<1>5. CASE RolledBack(a)
  <2>1. o.pc = "rolledback" /\ Unlink(a, o.isle, o.found, {o.prog})
    BY <1>5 DEF RolledBack
  <2>2. /\ o.isle \in Isles /\ o.prog \in Programs
        /\ \A f \in o.found : f[2] = CellOf[o.isle][f[1]]
    BY <1>1, <2>1 DEF Sound, AfterPcs, LeavePcs
  <2> QED
    BY <1>2, <2>1, <2>2
<1> QED
  BY <1>3, <1>4, <1>5

\* The index stays true and WATCH reliable, by whoever's step.
LEMMA IndexSteps ==
  ASSUME IndexInv, Next, ~Broken
  PROVE  ArchiveType' /\ Housed' /\ Indexed' /\ ReverseIndexed' /\ Fresh'
<1> USE DEF IndexInv
<1>1. PICK a \in Actors :
           \/ Exec(a)
           \/ Watch(a)
           \/ Bulk(a) \/ Left(a) \/ RolledBack(a)
           \/ /\ UNCHANGED <<hash, reverse, dirty>>
              /\ cache' = cache \/ ExecAborted(a)
              /\ \/ ExecAborted(a) \/ Mark(a) \/ Enforce(a) \/ Migrate(a)
                 \/ StartAdd(a) \/ Reject(a) \/ StartSelect(a) \/ Select(a)
  BY ArchiveSteps
<1>2. op[a] \in OpType /\ Sound(op[a])
  BY DEF TypeOK, CallsSound
<1>3. ASSUME NEW i \in Isles, NEW o,
             op' = [op EXCEPT ![a] = o], o.pc # "exec",
             dirty \subseteq dirty', \A j \in Isles : j # i => hash'[j] = hash[j],
             hash' # hash => Watchers(a, i) \subseteq dirty'
      PROVE  Fresh'
  <2> SUFFICES ASSUME NEW b \in Actors, op'[b].pc = "exec", b \notin dirty'
               PROVE  op'[b].redis = hash'[op'[b].isle][CellOf[op'[b].isle][op'[b].prog]]
    BY DEF Fresh
  <2>1. b # a /\ op'[b] = op[b] /\ b \notin dirty
    BY <1>3 DEF TypeOK
  <2>2. op[b].redis = hash[op[b].isle][CellOf[op[b].isle][op[b].prog]]
    BY <2>1 DEF Fresh
  <2>3. op[b].isle \in Isles
    BY <2>1 DEF CallsSound, Sound, AddPcs
  <2>4. hash'[op[b].isle] = hash[op[b].isle]
    BY <1>3, <2>1, <2>3 DEF Watchers
  <2> QED
    BY <2>1, <2>2, <2>4
<1>4. CASE Exec(a)
  <2>1. PICK o : o.pc # "exec" /\ op' = [op EXCEPT ![a] = o]
    BY <1>4, OnlyWatchReads
  <2>2. op[a].isle \in Isles
    BY <1>2, <1>4 DEF Exec, Commit, Sound, AddPcs
  <2>3. /\ dirty' = dirty \cup Watchers(a, op[a].isle)
        /\ \A j \in Isles : j # op[a].isle => hash'[j] = hash[j]
    BY <1>4 DEF Exec, Commit, TypeOK
  <2>4. Fresh'
    BY <1>3, <2>1, <2>2, <2>3
  <2>5. op[a].prog \in Programs /\ CellOf[op[a].isle][op[a].prog] \in Cells
    BY <1>2, <1>4, IslandsAssumption DEF Exec, Commit, Sound, AddPcs, IslandsAssumption
  <2>6. cache' \in [Isles -> [Cells -> Programs \cup {Vacant}]]
    BY <1>4, <2>5 DEF Exec, TypeOK
  <2>7. Commit(a)
    BY <1>4 DEF Exec
  <2> QED
    BY <2>4, <2>6, <2>7, ExecIndexed
<1>5. CASE Watch(a)
  <2>1. /\ UNCHANGED <<hash, reverse>> /\ dirty' = dirty \ {a}
        /\ op[a].pc = "watch"
    BY <1>5 DEF Watch
  <2>2. op[a].isle \in Isles /\ op[a].prog \in Programs /\ op[a].task \in {"ingest", "migrate"}
    BY <1>2, <2>1 DEF Sound, AddPcs
  <2> DEFINE now == hash[op[a].isle][CellOf[op[a].isle][op[a].prog]]
  <2>3. now \in Programs \cup {Vacant} /\ CellOf[op[a].isle][op[a].prog] \in Cells
    BY <2>2, IslandsAssumption DEF IslandsAssumption, TypeOK
  <2>4. cache' \in [Isles -> [Cells -> Programs \cup {Vacant}]]
    <3>1. \/ UNCHANGED cache
          \/ cache' = [cache EXCEPT ![op[a].isle][CellOf[op[a].isle][op[a].prog]] = now]
      BY <1>5 DEF Watch
    <3> DEFINE j == op[a].isle
               d == CellOf[j][op[a].prog]
    <3>2. /\ j \in Isles /\ d \in Cells
          /\ cache' = cache \/ cache' = [cache EXCEPT ![j][d] = now]
      BY <2>2, <2>3, <3>1
    <3>3. cache \in [Isles -> [Cells -> Programs \cup {Vacant}]]
      BY DEF TypeOK
    <3> HIDE DEF j, d, now
    <3>4. [cache EXCEPT ![j][d] = now] \in [Isles -> [Cells -> Programs \cup {Vacant}]]
      BY <2>3, <3>2, <3>3
    <3> QED
      BY <3>2, <3>3, <3>4
  <2>5. Fresh'
    <3>1. CASE op' = [op EXCEPT ![a] = AddEnded(op[a], FALSE)]
      <4>1. AddEnded(op[a], FALSE).pc # "exec"
        BY <1>2, <2>2, AddEndedPc
      <4> QED
        BY <2>1, <3>1, <4>1 DEF Fresh, TypeOK
    <3>2. CASE op' # [op EXCEPT ![a] = AddEnded(op[a], FALSE)]
      <4>1. op' = [op EXCEPT ![a].pc = "exec", ![a].redis = now]
        BY <1>5, <3>2 DEF Watch
      <4>2. op' = [op EXCEPT ![a] = [op[a] EXCEPT !.pc = "exec", !.redis = now]]
        BY <4>1 DEF TypeOK
      <4> DEFINE o2 == [op[a] EXCEPT !.pc = "exec", !.redis = now]
      <4>3. o2.redis = now /\ o2.isle = op[a].isle /\ o2.prog = op[a].prog
        BY <1>2 DEF OpType
      <4> HIDE DEF o2
      <4>4. op'[a] = o2 /\ \A b \in Actors : b # a => op'[b] = op[b]
        BY <4>2 DEF TypeOK, o2
      <4> QED
        BY <2>1, <4>3, <4>4 DEF Fresh
    <3> QED
      BY <3>1, <3>2
  <2> QED
    BY <2>1, <2>4, <2>5 DEF TypeOK, ArchiveType, Housed, Indexed, ReverseIndexed
<1>6. CASE Bulk(a) \/ Left(a) \/ RolledBack(a)
  <2>1. PICK i \in Isles, found \in SUBSET (Programs \X Cells), ps \in SUBSET Programs :
           /\ Unlink(a, i, found, ps)
           /\ \A f \in found : f[2] = CellOf[i][f[1]]
    BY <1>6, Removals
  <2>2. ArchiveType
    BY DEF TypeOK, ArchiveType
  <2>3. /\ ArchiveType' /\ Housed' /\ Indexed' /\ ReverseIndexed'
        /\ \A j \in Isles : j # i => hash'[j] = hash[j]
        /\ dirty \subseteq dirty'
        /\ hash' # hash => Watchers(a, i) \subseteq dirty'
    <3>1. Delete(a, i, found)
      BY <2>1 DEF Unlink
    <3>2. cache' \in [Isles -> [Cells -> Programs \cup {Vacant}]]
      BY <2>1, <2>2 DEF Unlink, ArchiveType
    <3> QED
      BY <2>1, <2>2, <3>1, <3>2, UnlinkIndexed
  <2>4. PICK o : o.pc # "exec" /\ op' = [op EXCEPT ![a] = o]
    BY <1>6, OnlyWatchReads DEF Enforce, Migrate
  <2> QED
    BY <1>3, <2>3, <2>4
<1>7. CASE /\ UNCHANGED <<hash, reverse, dirty>>
           /\ cache' = cache \/ ExecAborted(a)
           /\ \/ ExecAborted(a) \/ Mark(a) \/ Enforce(a) \/ Migrate(a)
              \/ StartAdd(a) \/ Reject(a) \/ StartSelect(a) \/ Select(a)
  <2>1. PICK o : o.pc # "exec" /\ op' = [op EXCEPT ![a] = o]
    BY <1>7, OnlyWatchReads
  <2>2. Fresh'
    BY <1>7, <2>1 DEF Fresh, TypeOK
  <2>3. cache' \in [Isles -> [Cells -> Programs \cup {Vacant}]]
    <3>1. CASE cache' = cache
      BY <3>1 DEF TypeOK
    <3>2. CASE ExecAborted(a)
      <4>1. PICK i, c : cache' = [cache EXCEPT ![i][c] = Vacant]
        BY <3>2 DEF ExecAborted
      <4> QED
        BY <4>1 DEF TypeOK
    <3> QED
      BY <1>7, <3>1, <3>2
  <2>4. ArchiveType'
    BY <1>7, <2>3 DEF TypeOK, ArchiveType
  <2>5. Housed' /\ Indexed' /\ ReverseIndexed'
    BY <1>7 DEF Housed, Indexed, ReverseIndexed
  <2> QED
    BY <2>2, <2>4, <2>5
<1> QED
  BY <1>1, <1>4, <1>5, <1>6, <1>7

\* A cancellation leaves the index true and what others read under WATCH, whether
\* the command it cuts off was executed or not: the cache has no part in either.
LEMMA CutKeeps ==
  ASSUME IndexInv, NEW a \in Actors, CutOff(a)
  PROVE  /\ ArchiveType' /\ Housed' /\ Indexed' /\ ReverseIndexed' /\ Fresh'
         /\ op' \in [Actors -> OpType] /\ CallsSound'
<1> USE DEF IndexInv
<1>1. /\ op' = [op EXCEPT ![a] = Idle] /\ cache' = cache
      /\ Idle.pc = "idle" /\ Idle \in OpType /\ Sound(Idle)
  BY IdleSound DEF CutOff, Idle
<1>2. op' \in [Actors -> OpType] /\ CallsSound'
  BY <1>1 DEF TypeOK, CallsSound
<1>3. ArchiveType /\ cache' \in [Isles -> [Cells -> Programs \cup {Vacant}]]
  BY <1>1 DEF ArchiveType, TypeOK
<1>4. op[a] \in OpType /\ Sound(op[a])
  BY DEF TypeOK, CallsSound
<1>5. ASSUME NEW i \in Isles, dirty \ {a} \subseteq dirty',
             \A j \in Isles : j # i => hash'[j] = hash[j],
             hash' # hash => Watchers(a, i) \subseteq dirty'
      PROVE  Fresh'
  <2> SUFFICES ASSUME NEW b \in Actors, op'[b].pc = "exec", b \notin dirty'
               PROVE  op'[b].redis = hash'[op'[b].isle][CellOf[op'[b].isle][op'[b].prog]]
    BY DEF Fresh
  <2>1. b # a /\ op'[b] = op[b] /\ b \notin dirty
    BY <1>1, <1>5 DEF TypeOK
  <2>2. op[b].redis = hash[op[b].isle][CellOf[op[b].isle][op[b].prog]]
    BY <2>1 DEF Fresh
  <2>3. op[b].isle \in Isles
    BY <2>1 DEF CallsSound, Sound, AddPcs
  <2>4. hash'[op[b].isle] = hash[op[b].isle]
    BY <1>5, <2>1, <2>3 DEF Watchers
  <2> QED
    BY <2>1, <2>2, <2>4
<1>6. CASE Commit(a)
  <2>1. op[a].isle \in Isles
    BY <1>4, <1>6 DEF Commit, Sound, AddPcs
  <2>2. /\ dirty' = dirty \cup Watchers(a, op[a].isle)
        /\ \A j \in Isles : j # op[a].isle => hash'[j] = hash[j]
    BY <1>6 DEF Commit, TypeOK
  <2>3. Fresh'
    BY <1>5, <2>1, <2>2
  <2> QED
    BY <1>2, <1>3, <1>6, <2>3, ExecIndexed
<1>7. ASSUME NEW i \in Isles, NEW found \in SUBSET (Programs \X Cells),
             \A f \in found : f[2] = CellOf[i][f[1]], Delete(a, i, found)
      PROVE  ArchiveType' /\ Housed' /\ Indexed' /\ ReverseIndexed' /\ Fresh'
  <2>1. /\ ArchiveType' /\ Housed' /\ Indexed' /\ ReverseIndexed'
        /\ \A j \in Isles : j # i => hash'[j] = hash[j]
        /\ dirty \subseteq dirty'
        /\ hash' # hash => Watchers(a, i) \subseteq dirty'
    BY <1>3, <1>7, UnlinkIndexed
  <2>2. Fresh'
    BY <1>5, <2>1
  <2> QED
    BY <2>1, <2>2
<1>8. op[a].found \in SUBSET (Programs \X Cells)
  BY <1>4 DEF OpType
<1>9. CASE op[a].pc \in {"bulk", "rolledback"} /\ Delete(a, op[a].isle, op[a].found)
  <2>1. op[a].isle \in Isles /\ \A f \in op[a].found : f[2] = CellOf[op[a].isle][f[1]]
    BY <1>4, <1>9 DEF Sound, AfterPcs, EnforcePcs, LeavePcs
  <2> QED
    BY <1>2, <1>7, <1>8, <1>9, <2>1
<1>10. CASE op[a].pc = "left" /\ Delete(a, op[a].source, op[a].found)
  <2>1. op[a].source \in Isles /\ \A f \in op[a].found : f[2] = CellOf[op[a].source][f[1]]
    BY <1>4, <1>10 DEF Sound, LeavePcs
  <2> QED
    BY <1>2, <1>7, <1>8, <1>10, <2>1
<1>11. CASE UNCHANGED <<hash, reverse>> /\ dirty' = dirty \ {a}
  <2>1. ArchiveType' /\ Housed' /\ Indexed' /\ ReverseIndexed'
    BY <1>3, <1>11 DEF ArchiveType, Housed, Indexed, ReverseIndexed
  <2>2. Fresh'
    BY <1>1, <1>11 DEF Fresh, TypeOK
  <2> QED
    BY <1>2, <2>1, <2>2
<1> QED
  BY <1>6, <1>9, <1>10, <1>11 DEF CutOff

\* What a step may do to the programs and the run state.
LEMMA ProgramTypes ==
  ASSUME TypeOK, CallsSound, Next
  PROVE  /\ current' \in [Programs -> Homes]
         /\ discarded' \subseteq Programs /\ todo' \subseteq Programs
         /\ generation' \in 0..MaxGeneration[alone'] /\ lastMigration' \in 0..generation'
         /\ alone' = alone /\ alone' \in BOOLEAN /\ ending' \in BOOLEAN
         /\ crashes' \in 0..MaxCrashes
<1> USE DEF TypeOK
<1>1. MaxCrashes \in Nat /\ MaxGeneration[alone] \in Nat
  BY IslandsAssumption DEF IslandsAssumption
<1>2. CASE Restart
  <2>1. crashes' = crashes + 1 /\ crashes < MaxCrashes
        /\ todo' = Programs \ (discarded \cup UNION {Members(i) : i \in Isles})
        /\ UNCHANGED <<current, discarded, generation, lastMigration, alone>>
    BY <1>2 DEF Restart
  <2>2. ending' \in BOOLEAN
    BY <1>2 DEF Restart
  <2> QED
    BY <1>1, <2>1, <2>2
<1>3. CASE Cut
  <2>1. /\ crashes' = crashes + 1 /\ crashes < MaxCrashes
        /\ todo' \subseteq todo \cup Programs
        /\ UNCHANGED <<generation, lastMigration, alone>>
    BY <1>3 DEF Cut, CutOff
  <2>2. ending' \in BOOLEAN
    BY <1>3 DEF Cut, CutOff
  <2>3. PICK a \in Actors : CutOff(a)
    BY <1>3 DEF Cut
  <2>4. op[a] \in OpType /\ Sound(op[a])
    BY DEF CallsSound
  <2>5. current' \in [Programs -> Homes] /\ discarded' \subseteq Programs
    <3>1. CASE Stamp(op[a])
      BY <2>4, <3>1 DEF Stamp, Sound, AfterPcs, Homes
    <3>2. CASE Refuse(op[a])
      BY <2>4, <3>2 DEF Refuse, Sound
    <3>3. ASSUME NEW copies \in SUBSET op[a].doomed, Dispose(copies)
          PROVE  current' \in [Programs -> Homes] /\ discarded' \subseteq Programs
      <4>1. {m[1] : m \in copies} \subseteq Programs
        BY <2>4 DEF OpType, Copies
      <4> QED
        BY <3>3, <4>1 DEF Dispose, Homes
    <3> QED
      BY <2>3, <3>1, <3>2, <3>3 DEF CutOff
  <2> QED
    BY <1>1, <2>1, <2>2, <2>5
<1>4. CASE ~Broken
  <2>1. PICK a \in Actors : \/ StartAdd(a) \/ Reject(a) \/ StartSelect(a) \/ Select(a)
                            \/ Migrate(a) \/ Add(a) \/ Enforce(a)
    BY <1>4 DEF Next, Actors, Broken, Cut
  <2>2. op[a] \in OpType /\ Sound(op[a])
    BY DEF CallsSound
  <2>3. CASE StartAdd(a)
    BY <2>3 DEF StartAdd, run
  <2>4. CASE Reject(a)
    BY <2>2, <2>4 DEF Reject, Refuse, run, Sound
  <2>5. CASE StartSelect(a)
    BY <2>5 DEF StartSelect, run, programs
  <2>6. CASE Select(a)
    <3>1. /\ generation' = generation \/ (generation < MaxGeneration[alone] /\ generation' = generation + 1)
          /\ UNCHANGED <<programs, lastMigration, ending, alone, crashes>>
      BY <2>6 DEF Select
    <3> QED
      BY <1>1, <3>1 DEF programs
  <2>7. CASE Migrate(a)
    <3>1. /\ lastMigration' \in {lastMigration, generation}
          /\ UNCHANGED <<programs, generation, ending, alone, crashes>>
      BY <2>7 DEF Migrate, NextMigrant, Leave, Left, Rollback, RolledBack, MigrantsDone,
                  Limits, run
    <3> QED
      BY <1>1, <3>1 DEF programs
  <2>8. CASE Add(a)
    <3>1. CASE Mark(a)
      <4>1. op[a].isle \in Isles
        BY <2>2, <3>1 DEF Mark, Stamp, Sound, AfterPcs
      <4> QED
        BY <3>1, <4>1 DEF Mark, Stamp, run, Homes
    <3>2. CASE ~Mark(a)
      BY <2>8, <3>2 DEF Add, Watch, Exec, Commit, ExecAborted, run, programs
    <3> QED
      BY <3>1, <3>2
  <2>9. CASE Enforce(a)
    <3>1. CASE Discard(a)
      <4>1. {m[1] : m \in op[a].doomed} \subseteq Programs
        BY <2>2 DEF OpType, Copies
      <4> QED
        BY <3>1, <4>1 DEF Discard, Dispose, run, Homes
    <3>2. CASE ~Discard(a)
      BY <2>9, <3>2 DEF Enforce, Measure, Lookup, Bulk, run, programs
    <3> QED
      BY <3>1, <3>2
  <2> QED
    BY <2>1, <2>3, <2>4, <2>5, <2>6, <2>7, <2>8, <2>9
<1> QED
  BY <1>2, <1>3, <1>4 DEF Broken

\* The types, the calls and the index, through every overlap, cancellation and
\* restart.
LEMMA IndexInvariant == Spec => []IndexInv
<1>1. Init => IndexInv
  <2> SUFFICES ASSUME Init PROVE IndexInv
    OBVIOUS
  <2>1. TypeOK
    <3>1. MaxCrashes \in Nat /\ \A b \in BOOLEAN : MaxGeneration[b] \in Nat
      BY IslandsAssumption DEF IslandsAssumption
    <3>2. alone \in BOOLEAN /\ ending \in BOOLEAN
      BY DEF Init
    <3> QED
      BY <3>1, <3>2, IdleSound DEF Init, TypeOK, Homes
  <2>2. CallsSound /\ Fresh
    BY IdleSound DEF Init, CallsSound, Fresh, Idle
  <2>3. Housed /\ Indexed /\ ReverseIndexed
    BY DEF Init, Housed, Indexed, ReverseIndexed
  <2> QED
    BY <2>1, <2>2, <2>3 DEF IndexInv
<1>2. IndexInv /\ [Next]_vars => IndexInv'
  <2> SUFFICES ASSUME IndexInv, [Next]_vars PROVE IndexInv'
    OBVIOUS
  <2>1. TypeOK /\ CallsSound /\ Housed /\ Indexed
    BY DEF IndexInv
  <2>2. CASE Next /\ ~Broken
    <3>1. op' \in [Actors -> OpType] /\ CallsSound'
      BY <2>1, <2>2, StepTurns, TurnSound
    <3>2. ArchiveType' /\ Housed' /\ Indexed' /\ ReverseIndexed' /\ Fresh'
      BY <2>2, IndexSteps
    <3>3. TypeOK'
      BY <2>1, <2>2, <3>1, <3>2, ProgramTypes DEF TypeOK, ArchiveType
    <3> QED
      BY <3>1, <3>2, <3>3 DEF IndexInv
  <2>3. CASE Restart
    <3>1. /\ op' = [a \in Actors |-> Idle] /\ dirty' = {} /\ cache' = hash
          /\ UNCHANGED <<hash, reverse>>
      BY <2>3 DEF Restart
    <3>2. op' \in [Actors -> OpType] /\ CallsSound' /\ Fresh'
      BY <3>1, IdleSound DEF CallsSound, Fresh, Idle
    <3>3. TypeOK'
      BY <2>1, <2>3, <3>1, <3>2, ProgramTypes DEF TypeOK, Next
    <3> QED
      BY <3>1, <3>2, <3>3 DEF IndexInv, Housed, Indexed, ReverseIndexed
  <2>4. CASE Cut
    <3>1. /\ ArchiveType' /\ Housed' /\ Indexed' /\ ReverseIndexed' /\ Fresh'
          /\ op' \in [Actors -> OpType] /\ CallsSound'
      BY <2>4, CutKeeps DEF Cut
    <3>2. Next
      BY <2>4 DEF Cut, Next
    <3>3. TypeOK'
      BY <2>1, <3>1, <3>2, ProgramTypes DEF TypeOK, ArchiveType
    <3> QED
      BY <3>1, <3>3 DEF IndexInv
  <2>5. CASE UNCHANGED vars
    BY <2>5 DEF IndexInv, TypeOK, CallsSound, Housed, Indexed, ReverseIndexed, Fresh,
                vars, archive, programs, run
  <2> QED
    BY <2>2, <2>3, <2>4, <2>5 DEF Broken
<1> QED
  BY <1>1, <1>2, PTL DEF Spec

\* The archive's state keeps its types.
THEOREM TypeCorrect == Spec => []TypeOK
<1>1. IndexInv => TypeOK
  BY DEF IndexInv
<1> QED
  BY <1>1, IndexInvariant, PTL

\* However calls overlap, are cancelled and wherever the process dies, the program of
\* a cell is found under that cell by the reverse index: a program has one cell for
\* ever, so neither a replacement nor a removal that comes late can take the entry of
\* another program away.
THEOREM IndexTrue == Spec => []ReverseIndexed
<1>1. IndexInv => ReverseIndexed
  BY DEF IndexInv
<1> QED
  BY <1>1, IndexInvariant, PTL

\* However calls overlap, an elite that another program displaces is displaced
\* by a better one: what WATCH read and the program beat is what EXEC replaces.
THEOREM DisplacedByBetter == Spec => ReplacedByBetter
<1>1. IndexInv /\ [Next]_vars =>
        [\A i \in Isles, c \in Cells :
           hash'[i][c] \notin {Vacant, hash[i][c]} => Better(hash'[i][c], hash[i][c])]_vars
  <2> SUFFICES ASSUME IndexInv, [Next]_vars, NEW i \in Isles, NEW c \in Cells,
                      hash'[i][c] \notin {Vacant, hash[i][c]}
               PROVE  Better(hash'[i][c], hash[i][c])
    OBVIOUS
  <2> USE DEF IndexInv
  <2>1. PICK a \in Actors : Commit(a) \/ \E k \in Isles : \E found : Delete(a, k, found)
    <3>1. Next /\ ~Restart
      BY DEF Restart, vars, archive
    <3>2. CASE Cut
      <4>1. PICK a \in Actors : CutOff(a)
        BY <3>2 DEF Cut
      <4>2. op[a].pc \in {"bulk", "rolledback"} => op[a].isle \in Isles
        BY DEF CallsSound, Sound, AfterPcs, EnforcePcs, LeavePcs
      <4>3. op[a].pc = "left" => op[a].source \in Isles
        BY DEF CallsSound, Sound, LeavePcs
      <4> QED
        BY <4>1, <4>2, <4>3 DEF CutOff
    <3>3. CASE ~Cut
      <4>1. PICK a \in Actors : Exec(a) \/ Bulk(a) \/ Left(a) \/ RolledBack(a)
        BY <3>1, <3>3, ArchiveSteps DEF Watch, Broken
      <4> QED
        BY <4>1, Removals DEF Exec, Unlink
    <3> QED
      BY <3>2, <3>3
  <2>2. CASE Commit(a)
    <3> DEFINE o == op[a]
    <3>1. /\ o.pc = "exec" /\ a \notin dirty
          /\ hash' = [hash EXCEPT ![o.isle][CellOf[o.isle][o.prog]] = o.prog]
      BY <2>2 DEF Commit
    <3>2. /\ i = o.isle /\ c = CellOf[o.isle][o.prog] /\ hash'[i][c] = o.prog
      BY <3>1 DEF TypeOK
    <3>3. Better(o.prog, o.redis) /\ o.redis = hash[i][c]
      BY <3>1, <3>2 DEF CallsSound, Sound, Fresh
    <3> QED
      BY <3>2, <3>3
  <2>3. ASSUME NEW k \in Isles, NEW found, Delete(a, k, found) PROVE FALSE
    <3>1. hash' = [hash EXCEPT ![k] =
            [d \in Cells |-> IF \E f \in found : f[2] = d THEN Vacant ELSE hash[k][d]]]
      BY <2>3 DEF Delete
    <3> QED
      BY <3>1 DEF TypeOK
  <2> QED
    BY <2>1, <2>2, <2>3
<1> QED
  BY <1>1, IndexInvariant, PTL DEF Spec, ReplacedByBetter

-----------------------------------------------------------------------------
(* Calls that do not overlap: cache and Redis agree, and so do the hash and *)
(* its index in both directions.                                           *)

\* The programs a call is about to remove, and where they are.
Chosen(o) == {m[1] : m \in o.doomed}
Homed(i, ps) == {<<p, CellOf[i][p]>> : p \in ps}

\* What a call relies on when nobody comes between its steps: the programs it is
\* about to remove are where it has found them, and the one it is about to add
\* is not there yet.
HeldBy(o) ==
  /\ o.pc \in {"lookup", "bulk"} => Chosen(o) \subseteq Members(o.isle)
  /\ o.pc = "bulk" => o.found = Homed(o.isle, Chosen(o))
  /\ o.pc = "left" => /\ o.found = Homed(o.source, {o.prog})
                      /\ o.prog \in Members(o.source)
  /\ o.pc = "rolledback" => /\ o.found = Homed(o.isle, {o.prog})
                            /\ o.prog \in Members(o.isle)
  /\ o.pc \in AddPcs => o.prog \notin Members(o.isle)

Sole == \A a, b \in Actors : op[a].pc # "idle" /\ op[b].pc # "idle" => a = b
Twins ==
  \A i \in Isles, p \in Programs : reverse[i][p] # Vacant => hash[i][CellOf[i][p]] = p
Held == \A a \in Actors : HeldBy(op[a])

SoloInv == alone => Sole /\ dirty = {} /\ cache = hash /\ Twins /\ Held

Calm == IndexInv /\ SoloInv /\ alone

\* A program of an island is in its cell.
LEMMA CellMembers ==
  ASSUME NEW h \in [Isles -> [Cells -> Programs \cup {Vacant}]], NEW i \in Isles,
         \A c \in Cells : h[i][c] # Vacant => CellOf[i][h[i][c]] = c
  PROVE  /\ {h[i][c] : c \in Cells} \ {Vacant} \subseteq Programs
         /\ \A p \in Programs :
              p \in {h[i][c] : c \in Cells} \ {Vacant} <=> h[i][CellOf[i][p]] = p
BY IslandsAssumption DEF IslandsAssumption

\* The same of the archive.
LEMMA MemberCell ==
  ASSUME IndexInv, NEW i \in Isles
  PROVE  /\ Members(i) \subseteq Programs
         /\ \A p \in Programs : p \in Members(i) <=> hash[i][CellOf[i][p]] = p
<1>1. hash \in [Isles -> [Cells -> Programs \cup {Vacant}]]
  BY DEF IndexInv, TypeOK
<1>2. \A c \in Cells : hash[i][c] # Vacant => CellOf[i][hash[i][c]] = c
  BY DEF IndexInv, Housed
<1>3. /\ {hash[i][c] : c \in Cells} \ {Vacant} \subseteq Programs
      /\ \A p \in Programs :
           p \in {hash[i][c] : c \in Cells} \ {Vacant} <=> hash[i][CellOf[i][p]] = p
  BY <1>1, <1>2, CellMembers
<1> QED
  BY <1>3 DEF Members

\* Members are indexed, when calls do not overlap exactly they are, and the elites
\* of the cache are the members.
LEMMA CalmMembers ==
  ASSUME Calm, NEW i \in Isles
  PROVE  /\ Elites(i) = Members(i)
         /\ \A p \in Programs : p \in Members(i) <=> reverse[i][p] # Vacant
         /\ \A p \in Members(i) : reverse[i][p] = CellOf[i][p]
<1>1. Elites(i) = Members(i)
  BY DEF Calm, SoloInv, Elites, Members
<1>2. ASSUME NEW p \in Programs, p \in Members(i)
      PROVE  reverse[i][p] # Vacant /\ reverse[i][p] = CellOf[i][p]
  <2>1. hash[i][CellOf[i][p]] = p /\ CellOf[i][p] \in Cells
    BY <1>2, MemberCell, IslandsAssumption DEF Calm, IslandsAssumption
  <2> QED
    BY <2>1, IslandsAssumption DEF Calm, IndexInv, ReverseIndexed, IslandsAssumption
<1>3. ASSUME NEW p \in Programs, reverse[i][p] # Vacant PROVE p \in Members(i)
  BY <1>3, MemberCell DEF Calm, SoloInv, Twins
<1>4. Members(i) \subseteq Programs
  BY MemberCell DEF Calm
<1> QED
  BY <1>1, <1>2, <1>3, <1>4

\* What the index tells of some programs: the cells of those that are members.
LEMMA CalmWhere ==
  ASSUME Calm, NEW i \in Isles, NEW ps \in SUBSET Programs
  PROVE  Where(i, ps) = Homed(i, ps \cap Members(i))
BY CalmMembers DEF Where, Homed

\* Nobody else is in a call, and nothing else moves.
LEMMA CalmTurn ==
  ASSUME Calm, Next
  PROVE  \E a \in Actors :
           /\ \A b \in Actors : b # a => op[b].pc = "idle" /\ op'[b] = op[b]
           /\ op'[a] \in OpType
           /\ alone'
           /\ \/ StartAdd(a) \/ Reject(a) \/ StartSelect(a) \/ Select(a)
              \/ Migrate(a) \/ Add(a) \/ Enforce(a)
<1> USE DEF Calm, IndexInv
<1>1. ~Broken
  BY DEF Broken, Cut, Restart, CutOff
<1>2. PICK a \in Actors : \/ StartAdd(a) \/ Reject(a) \/ StartSelect(a) \/ Select(a)
                          \/ Migrate(a) \/ Add(a) \/ Enforce(a)
  BY <1>1 DEF Next, Actors, Broken, Cut
<1>3. \E o : op' = [op EXCEPT ![a] = o]
  <2>1. CASE Watch(a)
    <3>1. \/ op' = [op EXCEPT ![a] = AddEnded(op[a], FALSE)]
          \/ op' = [op EXCEPT ![a].pc = "exec",
                             ![a].redis = hash[op[a].isle][CellOf[op[a].isle][op[a].prog]]]
      BY <2>1 DEF Watch
    <3> QED
      BY <3>1 DEF TypeOK
  <2>2. CASE ~Watch(a)
    BY <1>2, <2>2, OnlyWatchReads DEF Add
  <2> QED
    BY <2>1, <2>2
<1>4. op' \in [Actors -> OpType]
  BY <1>1, StepTurns, TurnSound
<1>5. ASSUME NEW b \in Actors, b # a PROVE op[b].pc = "idle"
  <2>1. CASE StartAdd(a) \/ StartSelect(a)
    BY <2>1 DEF StartAdd, StartSelect, MayBegin, AllIdle
  <2>2. CASE ~(StartAdd(a) \/ StartSelect(a))
    <3>1. op[a].pc # "idle"
      BY <1>2, <2>2 DEF Reject, Refuse, Select, Migrate, NextMigrant, Leave, Left, Rollback,
            RolledBack, MigrantsDone, Limits, Add, Watch, Exec, Commit, ExecAborted, Mark, Stamp,
            Enforce, Measure, Lookup, Bulk, Discard, Dispose
    <3> QED
      BY <1>5, <3>1 DEF SoloInv, Sole
  <2> QED
    BY <2>1, <2>2
<1>6. alone'
  BY <1>1, ProgramTypes
<1> QED
  BY <1>2, <1>3, <1>4, <1>5, <1>6 DEF TypeOK

\* A removal of members takes exactly these, in Redis and in the cache.
LEMMA CalmUnlink ==
  ASSUME Calm, NEW a \in Actors, \A b \in Actors : b # a => op[b].pc = "idle",
         NEW i \in Isles, NEW ps \in SUBSET Members(i),
         Unlink(a, i, Homed(i, ps), ps)
  PROVE  /\ Members(i)' = Members(i) \ ps
         /\ \A j \in Isles : j # i => Members(j)' = Members(j)
         /\ cache' = hash' /\ dirty' = {} /\ Twins'
<1> USE DEF Calm, IndexInv
<1> DEFINE found == Homed(i, ps)
<1>1. ps \subseteq Programs /\ \A p \in ps : hash[i][CellOf[i][p]] = p /\ CellOf[i][p] \in Cells
  BY MemberCell, IslandsAssumption DEF IslandsAssumption
<1>2. ASSUME NEW c \in Cells PROVE (\E f \in found : f[2] = c) <=> hash[i][c] \in ps
  <2>1. ASSUME NEW f \in found, f[2] = c PROVE hash[i][c] \in ps
    <3>1. PICK p \in ps : f = <<p, CellOf[i][p]>>
      BY <2>1 DEF Homed
    <3> QED
      BY <1>1, <2>1, <3>1
  <2>2. ASSUME hash[i][c] \in ps PROVE \E f \in found : f[2] = c
    <3>1. hash[i][c] # Vacant
      BY <1>1, <2>2, IslandsAssumption DEF IslandsAssumption
    <3>2. CellOf[i][hash[i][c]] = c
      BY <3>1 DEF Housed
    <3>3. <<hash[i][c], CellOf[i][hash[i][c]]>> \in found
      BY <2>2 DEF Homed
    <3> QED
      BY <3>2, <3>3
  <2> QED
    BY <2>1, <2>2
<1>3. ASSUME NEW p \in Programs PROVE (\E f \in found : f[1] = p) <=> p \in ps
  <2>1. ASSUME NEW f \in found, f[1] = p PROVE p \in ps
    <3>1. PICK q \in ps : f = <<q, CellOf[i][q]>>
      BY DEF Homed
    <3> QED
      BY <2>1, <3>1
  <2>2. ASSUME p \in ps PROVE \E f \in found : f[1] = p
    <3>1. <<p, CellOf[i][p]>> \in found
      BY <2>2 DEF Homed
    <3> QED
      BY <3>1
  <2> QED
    BY <2>1, <2>2
<1>4. found # {} <=> ps # {}
  BY DEF Homed
<1>5. /\ hash' = [hash EXCEPT ![i] =
           [c \in Cells |-> IF \E f \in found : f[2] = c THEN Vacant ELSE hash[i][c]]]
      /\ reverse' = [reverse EXCEPT ![i] =
           [p \in Programs |-> IF \E f \in found : f[1] = p THEN Vacant ELSE reverse[i][p]]]
      /\ cache' = [cache EXCEPT ![i] =
           [c \in Cells |-> IF found # {} /\ cache[i][c] \in ps THEN Vacant
                            ELSE cache[i][c]]]
      /\ dirty' = IF hash' # hash THEN dirty \cup Watchers(a, i) ELSE dirty
  BY DEF Unlink, Delete
<1> HIDE DEF found
<1>6. \A c \in Cells : hash'[i][c] = IF hash[i][c] \in ps THEN Vacant ELSE hash[i][c]
  BY <1>2, <1>5 DEF TypeOK
<1>7. \A j \in Isles : j # i => hash'[j] = hash[j]
  BY <1>5 DEF TypeOK
<1>8. Members(i)' = Members(i) \ ps
  BY <1>1, <1>6, IslandsAssumption DEF Members, IslandsAssumption
<1>9. cache' = hash'
  <2>1. [c \in Cells |-> IF \E f \in found : f[2] = c THEN Vacant ELSE hash[i][c]]
          = [c \in Cells |-> IF found # {} /\ cache[i][c] \in ps THEN Vacant ELSE cache[i][c]]
    BY <1>2, <1>4 DEF SoloInv
  <2> QED
    BY <1>5, <2>1 DEF SoloInv
<1>10. Watchers(a, i) = {}
  BY DEF Watchers
<1>11. Twins'
  <2> SUFFICES ASSUME NEW j \in Isles, NEW p \in Programs, reverse'[j][p] # Vacant
               PROVE  hash'[j][CellOf[j][p]] = p
    BY DEF Twins
  <2>1. CASE j # i
    BY <1>5, <1>7, <2>1 DEF TypeOK, SoloInv, Twins
  <2>2. CASE j = i
    <3>1. p \notin ps /\ reverse[i][p] # Vacant
      BY <1>3, <1>5, <2>2 DEF TypeOK
    <3>2. hash[i][CellOf[i][p]] = p /\ CellOf[i][p] \in Cells
      BY <3>1, IslandsAssumption DEF SoloInv, Twins, IslandsAssumption
    <3> QED
      BY <1>6, <2>2, <3>1, <3>2
  <2> QED
    BY <2>1, <2>2
<1>12. \A j \in Isles : j # i => Members(j)' = Members(j)
  BY <1>7 DEF Members
<1> QED
  BY <1>5, <1>8, <1>9, <1>10, <1>11, <1>12 DEF SoloInv

\* EXEC puts the program in the place of the one that was read.
LEMMA CalmExec ==
  ASSUME Calm, NEW a \in Actors, \A b \in Actors : b # a => op[b].pc = "idle", Exec(a),
         NEW i, NEW p, NEW r, i = op[a].isle, p = op[a].prog, r = op[a].redis
  PROVE  /\ Members(i)' = (Members(i) \ {r}) \cup {p}
         /\ \A j \in Isles : j # i => Members(j)' = Members(j)
         /\ cache' = hash' /\ dirty' = {} /\ Twins'
         /\ r # Vacant => r \in Members(i)
<1> USE DEF Calm, IndexInv
<1>1. /\ op[a].pc = "exec" /\ i \in Isles /\ p \in Programs /\ r = hash[i][CellOf[i][p]]
  BY DEF Exec, Commit, CallsSound, Sound, AddPcs, AfterPcs, Fresh
<1>2. PICK c \in Cells : c = CellOf[i][p]
  BY <1>1, IslandsAssumption DEF IslandsAssumption
<1>3. /\ hash' = [hash EXCEPT ![i][c] = p]
      /\ reverse' = [reverse EXCEPT ![i] =
           [q \in Programs |-> IF q = p THEN c ELSE IF q = r THEN Vacant ELSE reverse[i][q]]]
      /\ cache' = [cache EXCEPT ![i][c] = p]
      /\ dirty' = dirty \cup Watchers(a, i)
  BY <1>2 DEF Exec, Commit
<1>4. r = hash[i][c] /\ c = CellOf[i][p]
  BY <1>1, <1>2
<1>5. \A d \in Cells : hash'[i][d] = IF d = c THEN p ELSE hash[i][d]
  BY <1>1, <1>2, <1>3 DEF TypeOK
<1>6. \A j \in Isles : j # i => hash'[j] = hash[j]
  BY <1>1, <1>3 DEF TypeOK
<1>7. \A d \in Cells : d # c => hash[i][d] # r \/ hash[i][d] = Vacant
  BY <1>1, <1>2, <1>4 DEF Housed
<1>8. Members(i)' = (Members(i) \ {r}) \cup {p}
  <2>1. p # Vacant
    BY <1>1, IslandsAssumption DEF IslandsAssumption
  <2>2. \A q : q \in Members(i)' <=> q # Vacant /\ \E d \in Cells : q = hash'[i][d]
    BY DEF Members
  <2>3. \A q : q \in Members(i) <=> q # Vacant /\ \E d \in Cells : q = hash[i][d]
    BY DEF Members
  <2>4. ASSUME NEW q PROVE q \in Members(i)' <=> q \in (Members(i) \ {r}) \cup {p}
    BY <1>2, <1>4, <1>5, <1>7, <2>1, <2>2, <2>3
  <2> QED
    BY <2>4
<1>9. Watchers(a, i) = {}
  BY DEF Watchers
<1>10. Twins'
  <2> SUFFICES ASSUME NEW j \in Isles, NEW q \in Programs, reverse'[j][q] # Vacant
               PROVE  hash'[j][CellOf[j][q]] = q
    BY DEF Twins
  <2>1. CASE j # i
    BY <1>1, <1>3, <1>6, <2>1 DEF TypeOK, SoloInv, Twins
  <2>2. CASE j = i /\ q = p
    BY <1>2, <1>4, <1>5, <2>2
  <2>3. CASE j = i /\ q # p
    <3>1. q # r /\ reverse[i][q] # Vacant
      BY <1>1, <1>3, <2>3 DEF TypeOK
    <3>2. hash[i][CellOf[i][q]] = q /\ CellOf[i][q] \in Cells
      BY <2>3, <3>1, IslandsAssumption DEF SoloInv, Twins, IslandsAssumption
    <3> QED
      BY <1>4, <1>5, <2>3, <3>1, <3>2
  <2> QED
    BY <2>1, <2>2, <2>3
<1>11. \A j \in Isles : j # i => Members(j)' = Members(j)
  BY <1>6 DEF Members
<1>12. cache' = hash' /\ dirty' = {}
  BY <1>3, <1>9 DEF SoloInv
<1>13. r # Vacant => r \in Members(i)
  BY <1>2, <1>4 DEF Members
<1> QED
  BY <1>8, <1>10, <1>11, <1>12, <1>13

\* A program that an island is to take is not there.
LEMMA CalmCompatible ==
  ASSUME Calm, NEW isles \in SUBSET Isles, NEW p \in Programs, NEW i \in Compatible(p, isles)
  PROVE  i \in Isles /\ p \notin Members(i)
<1>1. i \in Isles /\ Better(p, cache[i][CellOf[i][p]])
  BY DEF Compatible
<1>2. Better(p, hash[i][CellOf[i][p]])
  BY <1>1 DEF Calm, SoloInv
<1>3. Fitness[p] \in Nat /\ p # Vacant
  BY IslandsAssumption DEF IslandsAssumption
<1>4. ~Better(p, p)
  BY <1>3 DEF Better
<1> QED
  BY <1>1, <1>2, <1>4, MemberCell DEF Calm

\* The steps between the end of island.add and the next one.
LEMMA EndsAdd ==
  ASSUME NEW o, NEW ok \in BOOLEAN, o.task \in {"ingest", "migrate"}
  PROVE  AddEnded(o, ok).pc \in {"idle", "reject", "leave", "next"}
BY DEF AddEnded, NextOf, Idle

LEMMA EndsEnforce ==
  ASSUME NEW o \in OpType, o.task # "none"
  PROVE  EnforceEnded(o).pc \in {"idle", "reject", "leave", "next", "limits"}
<1>1. CASE o.task = "limits"
  BY <1>1 DEF EnforceEnded, Idle
<1>2. CASE o.task # "limits"
  <2> DEFINE o1 == [o EXCEPT !.doomed = {}]
  <2>1. o1.task \in {"ingest", "migrate"}
    BY <1>2 DEF OpType
  <2>2. EnforceEnded(o) = AddEnded(o1, TRUE)
    BY <1>2 DEF EnforceEnded
  <2> HIDE DEF o1
  <2> QED
    BY <2>1, <2>2, EndsAdd
<1> QED
  BY <1>1, <1>2

\* A call that only reads knows what it has found.
LEMMA QuietHeld ==
  ASSUME Calm, NEW a \in Actors, NEW n, n = op'[a], UNCHANGED archive,
         \/ StartAdd(a) \/ Reject(a) \/ StartSelect(a) \/ Select(a)
         \/ Migrate(a) \/ Add(a) \/ Enforce(a)
  PROVE  HeldBy(n)'
<1> USE DEF Calm, IndexInv
<1> DEFINE o == op[a]
           Silent == {"idle", "reject", "leave", "next", "limits", "select", "measure",
                      "rollback", "mark", "discard"}
<1>1. \A i : Members(i)' = Members(i)
  BY DEF archive, Members
<1>2. o \in OpType /\ Sound(o) /\ HeldBy(o)
  BY DEF TypeOK, CallsSound, SoloInv, Held
<1>3. CASE n.pc \in Silent
  BY <1>3 DEF HeldBy, AddPcs
<1>4. CASE StartAdd(a)
  <2>1. PICK p \in Programs :
          \/ \E i \in Compatible(p, Isles) : n = AddTo([Idle EXCEPT !.task = "ingest"], p, i)
          \/ n = AddEnded([[Idle EXCEPT !.task = "ingest"] EXCEPT !.prog = p], FALSE)
    BY <1>4 DEF StartAdd, TypeOK
  <2>2. CASE n = AddEnded([[Idle EXCEPT !.task = "ingest"] EXCEPT !.prog = p], FALSE)
    <3>1. n.pc \in Silent
      BY <2>2, EndsAdd DEF Idle
    <3> QED
      BY <1>3, <3>1
  <2>3. CASE \E i \in Compatible(p, Isles) : n = AddTo([Idle EXCEPT !.task = "ingest"], p, i)
    <3>1. PICK i \in Compatible(p, Isles) : n = AddTo([Idle EXCEPT !.task = "ingest"], p, i)
      BY <2>3
    <3>2. n.pc = "watch" /\ n.prog = p /\ n.isle = i
      BY <3>1 DEF AddTo, Idle
    <3>3. p \notin Members(i)
      BY CalmCompatible
    <3> QED
      BY <1>1, <3>2, <3>3 DEF HeldBy, AddPcs
  <2> QED
    BY <2>1, <2>2, <2>3
<1>5. CASE Reject(a) \/ Select(a) \/ MigrantsDone(a)
  <2>1. n = Idle \/ n = [Idle EXCEPT !.pc = "limits", !.task = "limits", !.left = Isles]
    BY <1>5 DEF Reject, Select, MigrantsDone, TypeOK
  <2>2. CASE n = Idle
    BY <1>3, <2>2 DEF Idle
  <2>3. CASE n # Idle
    <3>1. n.pc = "limits"
      BY <2>1, <2>3, IdleSound DEF OpType
    <3> QED
      BY <1>3, <3>1
  <2> QED
    BY <2>2, <2>3
<1>6. CASE StartSelect(a) \/ Mark(a) \/ Limits(a)
  <2>1. CASE StartSelect(a)
    <3>1. \/ \E ms : n = [Idle EXCEPT !.pc = "next", !.task = "migrate", !.migrants = ms]
          \/ n = [o EXCEPT !.pc = "select"]
      BY <2>1 DEF StartSelect, Goto, TypeOK
    <3>2. n.pc \in Silent
      BY <1>2, <3>1 DEF Idle, OpType
    <3> QED
      BY <1>3, <3>2
  <2>2. CASE Mark(a)
    <3>1. n = [o EXCEPT !.pc = "measure"]
      BY <2>2 DEF Mark, Goto, TypeOK
    <3> QED
      BY <1>2, <1>3, <3>1 DEF OpType
  <2>3. CASE Limits(a)
    <3>1. \/ \E i \in o.left : n = [o EXCEPT !.pc = "measure", !.isle = i,
                                             !.left = @ \ {i}, !.doomed = {}]
          \/ n = [Idle EXCEPT !.pc = "select"]
      BY <2>3 DEF Limits, TypeOK
    <3>2. n.pc \in Silent
      BY <1>2, <3>1 DEF Idle, OpType
    <3> QED
      BY <1>3, <3>2
  <2> QED
    BY <1>6, <2>1, <2>2, <2>3
<1>7. CASE NextMigrant(a)
  <2>1. PICK m \in o.migrants :
          LET rest == [o EXCEPT !.migrants = @ \ {m}, !.source = m[2][2]]
          IN  \/ \E i \in Compatible(m[2][1], Isles \ {m[2][2]}) : n = AddTo(rest, m[2][1], i)
              \/ n = rest
    BY <1>7 DEF NextMigrant, TypeOK
  <2>2. o.pc = "next"
    BY <1>7 DEF NextMigrant
  <2> DEFINE rest == [o EXCEPT !.migrants = @ \ {m}, !.source = m[2][2]]
  <2>3. m[2][1] \in Programs
    BY <1>2 DEF OpType, Copies
  <2>4. CASE n = rest
    <3>1. n.pc \in Silent
      BY <1>2, <2>2, <2>4 DEF OpType
    <3> QED
      BY <1>3, <3>1
  <2>5. CASE n # rest
    <3>1. PICK i \in Compatible(m[2][1], Isles \ {m[2][2]}) : n = AddTo(rest, m[2][1], i)
      BY <2>1, <2>5
    <3>2. n.pc = "watch" /\ n.prog = m[2][1] /\ n.isle = i
      BY <1>2, <3>1 DEF AddTo, OpType
    <3>3. m[2][1] \notin Members(i)
      BY <2>3, CalmCompatible
    <3> QED
      BY <1>1, <3>2, <3>3 DEF HeldBy, AddPcs
  <2> QED
    BY <2>4, <2>5
<1>8. CASE Leave(a)
  <2>1. o.pc = "leave" /\ o.source \in Isles /\ o.prog \in Programs /\ o.task = "migrate"
    BY <1>2, <1>8 DEF Leave, Sound, LeavePcs, AfterPcs
  <2>2. Where(o.source, {o.prog}) = Homed(o.source, {o.prog} \cap Members(o.source))
    BY <2>1, CalmWhere
  <2>3. CASE Where(o.source, {o.prog}) = {}
    <3>1. n = [o EXCEPT !.pc = "rollback"]
      BY <1>8, <2>3 DEF Leave, TypeOK
    <3> QED
      BY <1>2, <1>3, <3>1 DEF OpType
  <2>4. CASE Where(o.source, {o.prog}) # {}
    <3>1. n = [o EXCEPT !.pc = "left", !.found = Where(o.source, {o.prog})]
      BY <1>8, <2>4 DEF Leave, TypeOK
    <3>2. {o.prog} \cap Members(o.source) = {o.prog}
      BY <2>2, <2>4 DEF Homed
    <3>3. n.pc = "left" /\ n.source = o.source /\ n.prog = o.prog
          /\ n.found = Homed(o.source, {o.prog})
      BY <1>2, <2>2, <3>1, <3>2 DEF OpType
    <3> QED
      BY <1>1, <3>2, <3>3 DEF HeldBy, AddPcs, Homed
  <2> QED
    BY <2>3, <2>4
<1>9. CASE Rollback(a)
  <2>1. o.pc = "rollback" /\ o.isle \in Isles /\ o.prog \in Programs /\ o.task = "migrate"
    BY <1>2, <1>9 DEF Rollback, Sound, LeavePcs, AfterPcs
  <2>2. Where(o.isle, {o.prog}) = Homed(o.isle, {o.prog} \cap Members(o.isle))
    BY <2>1, CalmWhere
  <2>3. CASE Where(o.isle, {o.prog}) = {}
    <3>1. n = NextOf(o)
      BY <1>9, <2>3 DEF Rollback, TypeOK
    <3> QED
      BY <1>2, <1>3, <3>1, NextSound
  <2>4. CASE Where(o.isle, {o.prog}) # {}
    <3>1. n = [o EXCEPT !.pc = "rolledback", !.found = Where(o.isle, {o.prog})]
      BY <1>9, <2>4 DEF Rollback, TypeOK
    <3>2. {o.prog} \cap Members(o.isle) = {o.prog}
      BY <2>2, <2>4 DEF Homed
    <3>3. n.pc = "rolledback" /\ n.isle = o.isle /\ n.prog = o.prog
          /\ n.found = Homed(o.isle, {o.prog})
      BY <1>2, <2>2, <3>1, <3>2 DEF OpType
    <3> QED
      BY <1>1, <3>2, <3>3 DEF HeldBy, AddPcs, Homed
  <2> QED
    BY <2>3, <2>4
<1>10. CASE Left(a) \/ RolledBack(a)
  <2>1. n = NextOf(o)
    BY <1>10 DEF Left, RolledBack, TypeOK
  <2> QED
    BY <1>2, <1>3, <2>1, NextSound
<1>11. CASE Watch(a)
  <2>1. o.pc = "watch" /\ o.task \in {"ingest", "migrate"}
    BY <1>2, <1>11 DEF Watch, Sound, AddPcs
  <2>2. \/ n = AddEnded(o, FALSE)
        \/ n = [o EXCEPT !.pc = "exec", !.redis = hash[o.isle][CellOf[o.isle][o.prog]]]
    BY <1>11 DEF Watch, TypeOK
  <2>3. CASE n = AddEnded(o, FALSE)
    BY <1>3, <2>1, <2>3, EndsAdd
  <2>4. CASE n = [o EXCEPT !.pc = "exec", !.redis = hash[o.isle][CellOf[o.isle][o.prog]]]
    <3>1. n.pc = "exec" /\ n.isle = o.isle /\ n.prog = o.prog
      BY <1>2, <2>4 DEF OpType
    <3> QED
      BY <1>1, <1>2, <2>1, <3>1 DEF HeldBy, AddPcs
  <2> QED
    BY <2>2, <2>3, <2>4
<1>12. CASE Exec(a) \/ Bulk(a)
  <2>1. n.pc \in Silent
    BY <1>2, <1>12 DEF Exec, Commit, Bulk, TypeOK, OpType
  <2> QED
    BY <1>3, <2>1
<1>13. CASE ExecAborted(a)
  BY <1>13 DEF ExecAborted, SoloInv
<1>14. CASE Measure(a)
  <2>1. o.pc = "measure" /\ o.task # "none" /\ o.isle \in Isles
    BY <1>2, <1>14 DEF Measure, Sound, EnforcePcs, AfterPcs
  <2>2. CASE n = EnforceEnded(o)
    BY <1>2, <1>3, <2>1, <2>2, EndsEnforce
  <2>3. CASE n # EnforceEnded(o)
    <3>1. PICK d \in Lowest(Elites(o.isle)) :
            n = [o EXCEPT !.pc = "lookup", !.doomed = {<<p, current[p]>> : p \in d}]
      BY <1>14, <2>3 DEF Measure, TypeOK
    <3> DEFINE doomed == {<<p, current[p]>> : p \in d}
    <3>2. d \subseteq Members(o.isle)
      BY <2>1, CalmMembers DEF Lowest
    <3>3. {m[1] : m \in doomed} = d
      <4>1. \A p \in d : <<p, current[p]>> \in doomed /\ <<p, current[p]>>[1] = p
        OBVIOUS
      <4>2. \A m \in doomed : m[1] \in d
        OBVIOUS
      <4> HIDE DEF doomed
      <4> QED
        BY <4>1, <4>2
    <3> HIDE DEF doomed
    <3>4. n.pc = "lookup" /\ n.isle = o.isle /\ Chosen(n) = d
      BY <1>2, <3>1, <3>3 DEF OpType, Chosen, doomed
    <3> QED
      BY <1>1, <3>2, <3>4 DEF HeldBy, AddPcs
  <2> QED
    BY <2>2, <2>3
<1>15. CASE Lookup(a)
  <2>1. o.pc = "lookup" /\ o.isle \in Isles
    BY <1>2, <1>15 DEF Lookup, Sound, EnforcePcs, AfterPcs
  <2>2. n = [o EXCEPT !.pc = "bulk", !.found = Where(o.isle, Chosen(o))]
    BY <1>15 DEF Lookup, TypeOK, Chosen
  <2>3. Chosen(o) \subseteq Members(o.isle) /\ Chosen(o) \subseteq Programs
    BY <1>2, <2>1, MemberCell DEF HeldBy
  <2>4. Where(o.isle, Chosen(o)) = Homed(o.isle, Chosen(o) \cap Members(o.isle))
    BY <2>1, <2>3, CalmWhere
  <2>5. Chosen(o) \cap Members(o.isle) = Chosen(o)
    BY <2>3
  <2>6. /\ n.pc = "bulk" /\ n.isle = o.isle /\ Chosen(n) = Chosen(o)
        /\ n.found = Homed(o.isle, Chosen(o))
    BY <1>2, <2>2, <2>4, <2>5 DEF OpType, Chosen
  <2> QED
    BY <1>1, <2>3, <2>6 DEF HeldBy, AddPcs, Homed
<1>16. CASE Discard(a)
  <2>1. n = EnforceEnded(o) /\ o.task # "none"
    BY <1>2, <1>16 DEF Discard, TypeOK, Sound, EnforcePcs
  <2> QED
    BY <1>2, <1>3, <2>1, EndsEnforce
<1> QED
  BY <1>4, <1>5, <1>6, <1>7, <1>8, <1>9, <1>10, <1>11, <1>12, <1>13, <1>14, <1>15, <1>16
     DEF Migrate, Add, Enforce

\* A removal ends a call's knowledge of the archive, and takes only members.
LEMMA CalmRemoval ==
  ASSUME Calm, NEW a \in Actors, Bulk(a) \/ Left(a) \/ RolledBack(a)
  PROVE  \E i \in Isles : \E ps \in SUBSET Members(i) :
           /\ Unlink(a, i, Homed(i, ps), ps)
           /\ \/ Bulk(a) /\ i = op[a].isle /\ ps = Chosen(op[a])
              \/ Left(a) /\ i = op[a].source /\ ps = {op[a].prog}
              \/ RolledBack(a) /\ i = op[a].isle /\ ps = {op[a].prog}
<1> USE DEF Calm, IndexInv
<1> DEFINE o == op[a]
<1>1. o \in OpType /\ Sound(o) /\ HeldBy(o)
  BY DEF TypeOK, CallsSound, SoloInv, Held
<1>2. CASE Bulk(a)
  <2>1. o.pc = "bulk" /\ Unlink(a, o.isle, o.found, Chosen(o))
    BY <1>2 DEF Bulk, Chosen
  <2>2. /\ o.isle \in Isles /\ o.found = Homed(o.isle, Chosen(o))
        /\ Chosen(o) \subseteq Members(o.isle)
    BY <1>1, <2>1 DEF Sound, HeldBy, EnforcePcs, AfterPcs
  <2> QED
    BY <1>2, <2>1, <2>2
<1>3. CASE Left(a)
  <2>1. o.pc = "left" /\ Unlink(a, o.source, o.found, {o.prog})
    BY <1>3 DEF Left
  <2>2. /\ o.source \in Isles /\ o.found = Homed(o.source, {o.prog})
        /\ o.prog \in Members(o.source)
    BY <1>1, <2>1 DEF Sound, HeldBy, LeavePcs
  <2> QED
    BY <1>3, <2>1, <2>2
<1>4. CASE RolledBack(a)
  <2>1. o.pc = "rolledback" /\ Unlink(a, o.isle, o.found, {o.prog})
    BY <1>4 DEF RolledBack
  <2>2. /\ o.isle \in Isles /\ o.found = Homed(o.isle, {o.prog})
        /\ o.prog \in Members(o.isle)
    BY <1>1, <2>1 DEF Sound, HeldBy, LeavePcs, AfterPcs
  <2> QED
    BY <1>4, <2>1, <2>2
<1> QED
  BY <1>2, <1>3, <1>4

\* What a calm step does to the archive: EXEC puts a program in a cell, a removal
\* takes some out, and every other step leaves all of it as it is.
LEMMA CalmArchive ==
  ASSUME Calm, NEW a \in Actors,
         \/ StartAdd(a) \/ Reject(a) \/ StartSelect(a) \/ Select(a)
         \/ Migrate(a) \/ Add(a) \/ Enforce(a)
  PROVE  Exec(a) \/ Bulk(a) \/ Left(a) \/ RolledBack(a) \/ UNCHANGED archive
<1> USE DEF Calm, IndexInv
<1>1. CASE Watch(a)
  <2> DEFINE o == op[a]
             now == hash[o.isle][CellOf[o.isle][o.prog]]
  <2>1. dirty' = dirty
    BY <1>1 DEF Watch, SoloInv
  <2>2. hash' = hash /\ reverse' = reverse
    BY <1>1 DEF Watch
  <2>3. cache' = cache
        \/ cache' = [cache EXCEPT ![o.isle][CellOf[o.isle][o.prog]] = now]
    BY <1>1 DEF Watch
  <2>4. o.pc = "watch" /\ o.isle \in Isles /\ o.prog \in Programs
    BY <1>1 DEF Watch, CallsSound, Sound, AddPcs
  <2>5. CellOf[o.isle][o.prog] \in Cells
    BY <2>4, IslandsAssumption DEF IslandsAssumption
  <2>6. cache' = cache
    BY <2>3, <2>4, <2>5 DEF SoloInv, TypeOK
  <2> QED
    BY <2>1, <2>2, <2>6 DEF archive
<1>2. CASE ExecAborted(a)
  BY <1>2 DEF ExecAborted, SoloInv
<1>3. CASE ~Watch(a) /\ ~ExecAborted(a)
  <2>1. CASE StartAdd(a) \/ Reject(a) \/ StartSelect(a) \/ Select(a)
    BY <2>1 DEF StartAdd, Reject, StartSelect, Select, archive
  <2>2. CASE Migrate(a)
    BY <2>2 DEF Migrate, NextMigrant, Leave, Rollback, MigrantsDone, Limits, archive
  <2>3. CASE Add(a) \/ Enforce(a)
    BY <1>3, <2>3 DEF Add, Enforce, Mark, Measure, Lookup, Discard, archive
  <2> QED
    BY <2>1, <2>2, <2>3
<1> QED
  BY <1>1, <1>2, <1>3

\* Calm is kept.
LEMMA CalmKept ==
  ASSUME Calm, Next
  PROVE  SoloInv'
<1> USE DEF Calm, IndexInv
<1>1. PICK a \in Actors :
           /\ \A b \in Actors : b # a => op[b].pc = "idle" /\ op'[b] = op[b]
           /\ op'[a] \in OpType
           /\ alone'
           /\ \/ StartAdd(a) \/ Reject(a) \/ StartSelect(a) \/ Select(a)
              \/ Migrate(a) \/ Add(a) \/ Enforce(a)
  BY CalmTurn
<1>2. PICK n : n = op'[a]
  OBVIOUS
<1>3. HeldBy(n)' => Held'
  <2> SUFFICES ASSUME HeldBy(n)', NEW b \in Actors PROVE HeldBy(op[b])'
    BY DEF Held
  <2>1. CASE b = a
    BY <1>2, <2>1
  <2>2. CASE b # a
    <3>1. op'[b].pc = "idle"
      BY <1>1, <2>2
    <3> QED
      BY <3>1 DEF HeldBy, AddPcs
  <2> QED
    BY <2>1, <2>2
<1>4. Sole'
  <2>1. \A b \in Actors : b # a => op'[b].pc = "idle"
    BY <1>1
  <2> QED
    BY <2>1 DEF Sole
<1>5. op[a] \in OpType /\ Sound(op[a])
  BY DEF TypeOK, CallsSound
<1>6. CASE Exec(a)
  <2>1. cache' = hash' /\ dirty' = {} /\ Twins'
    BY <1>1, <1>6, CalmExec
  <2>2. n = [op[a] EXCEPT !.pc = "mark", !.seen = Vacant, !.redis = Vacant]
    BY <1>2, <1>6 DEF Exec, Commit, TypeOK
  <2>3. n.pc = "mark"
    BY <1>5, <2>2 DEF OpType
  <2>4. HeldBy(n)'
    BY <2>3 DEF HeldBy, AddPcs
  <2> QED
    BY <1>3, <1>4, <2>1, <2>4 DEF SoloInv
<1>7. CASE Bulk(a) \/ Left(a) \/ RolledBack(a)
  <2>0. PICK i \in Isles : \E ps \in SUBSET Members(i) : Unlink(a, i, Homed(i, ps), ps)
    BY <1>7, CalmRemoval
  <2>1. PICK ps \in SUBSET Members(i) : Unlink(a, i, Homed(i, ps), ps)
    BY <2>0
  <2>2. cache' = hash' /\ dirty' = {} /\ Twins'
    BY <1>1, <2>1, CalmUnlink
  <2>3. n.pc \in {"discard", "next"}
    <3>1. n = [op[a] EXCEPT !.pc = "discard", !.found = {}] \/ n = NextOf(op[a])
      BY <1>2, <1>7 DEF Bulk, Left, RolledBack, TypeOK
    <3> QED
      BY <1>5, <3>1, NextSound DEF OpType
  <2>4. HeldBy(n)'
    BY <2>3 DEF HeldBy, AddPcs
  <2> QED
    BY <1>3, <1>4, <2>2, <2>4 DEF SoloInv
<1>8. CASE UNCHANGED archive
  <2>1. HeldBy(n)'
    BY <1>1, <1>2, <1>8, QuietHeld
  <2>2. cache' = hash' /\ dirty' = {} /\ Twins'
    BY <1>8 DEF archive, SoloInv, Twins
  <2> QED
    BY <1>3, <1>4, <2>1, <2>2 DEF SoloInv
<1> QED
  BY <1>1, <1>6, <1>7, <1>8, CalmArchive

LEMMA SoloInvariant == Spec => []SoloInv
<1>1. Init => SoloInv
  <2> SUFFICES ASSUME Init PROVE SoloInv
    OBVIOUS
  <2>1. \A a \in Actors : op[a].pc = "idle"
    BY DEF Init, Idle
  <2>2. Twins
    BY DEF Init, Twins
  <2>3. cache = hash /\ dirty = {}
    BY DEF Init
  <2> QED
    BY <2>1, <2>2, <2>3 DEF SoloInv, Sole, Held, HeldBy, AddPcs
<1>2. IndexInv /\ SoloInv /\ [Next]_vars => SoloInv'
  <2> SUFFICES ASSUME IndexInv, SoloInv, [Next]_vars, alone' PROVE SoloInv'
    BY DEF SoloInv
  <2>1. CASE Next
    <3>1. alone
      BY <2>1, ProgramTypes DEF IndexInv
    <3> QED
      BY <2>1, <3>1, CalmKept DEF Calm
  <2>2. CASE UNCHANGED vars
    BY <2>2 DEF SoloInv, Sole, Twins, Held, HeldBy, Members, vars, archive, programs, run
  <2> QED
    BY <2>1, <2>2
<1> QED
  BY <1>1, <1>2, IndexInvariant, PTL DEF Spec

\* Calls that do not overlap leave the cache equal to Redis: no step writes one
\* and not the other, and what the read of a cell adds to the cache was there.
THEOREM CacheTrue == Spec => []CacheMirrors
<1>1. SoloInv => CacheMirrors
  BY DEF SoloInv, CacheMirrors, AtRest
<1> QED
  BY <1>1, SoloInvariant, PTL

-----------------------------------------------------------------------------
(* Where a call goes, for the three theorems that follow.                  *)

CallPcs == AddPcs \cup AfterPcs

\* The same program on the same way.
SameWay(o, n) ==
  /\ n.task = o.task /\ n.prog = o.prog /\ n.isle = o.isle /\ n.source = o.source
  /\ n.migrants = o.migrants

\* The call ends, or it is about no program.
FlowEnds(o, n) ==
  /\ o.pc \in AfterPcs => o.task # "migrate"
  /\ \/ n.pc \in {"idle", "reject", "limits", "select"}
     \/ n.pc = "measure" /\ n.task = "limits"

\* It takes up the migrants, or an evaluated program, or the next migrant.
FlowSelects(a, n) ==
  /\ StartSelect(a) /\ n.pc = "next" /\ n.task = "migrate"
  /\ \A m \in n.migrants : \E i \in Isles : \E p \in Elites(i) : m = <<i, <<p, current[p]>>>>
FlowIngests(a, n) ==
  /\ StartAdd(a) /\ n.pc = "watch" /\ n.task = "ingest"
  /\ n.prog \in todo /\ todo' = todo \ {n.prog} /\ n.isle \in Compatible(n.prog, Isles)
FlowMoves(o, n) ==
  /\ o.pc = "next" /\ n.pc = "watch" /\ n.task = "migrate"
  /\ \E m \in o.migrants : n.prog = m[2][1] /\ n.source = m[2][2]
  /\ n.isle \in Compatible(n.prog, Isles \ {n.source})
  /\ n.migrants \subseteq o.migrants

\* It comes back to the loop over the migrants. If its program is in an island
\* by now, it has left its source or that island, or its source is not known.
FlowLoops(a, o, n) ==
  /\ n.pc = "next" /\ n.task = "migrate" /\ n.migrants \subseteq o.migrants
  /\ o.task = "migrate" /\ o.pc \in CallPcs \cup {"next"}
  /\ o.pc \in AfterPcs =>
       \/ Left(a) \/ RolledBack(a)
       \/ Where(o.isle, {o.prog}) = {} \/ o.source \notin Isles

\* It goes on; only EXEC makes it a call that has added its program.
FlowStays(a, o, n) ==
  /\ SameWay(o, n) /\ o.pc \in CallPcs /\ n.pc \in CallPcs
  /\ n.pc \in AfterPcs <=> o.pc \in AfterPcs \/ Exec(a)

Flow(a, n) ==
  \/ FlowEnds(op[a], n) \/ FlowSelects(a, n) \/ FlowIngests(a, n)
  \/ FlowMoves(op[a], n) \/ FlowLoops(a, op[a], n) \/ FlowStays(a, op[a], n)

\* How island.add ends, for its caller.
LEMMA FlowAddEnded ==
  ASSUME NEW a, NEW o \in OpType, NEW ok \in BOOLEAN, NEW n, n = AddEnded(o, ok),
         o.task \in {"ingest", "migrate"}, o.pc \in CallPcs,
         o.pc \in AfterPcs <=> ok
  PROVE  FlowEnds(o, n) \/ FlowLoops(a, o, n) \/ (n.pc = "leave" /\ SameWay(o, n))
<1>1. CASE o.task = "ingest" /\ ok
  <2>1. n = Idle
    BY <1>1 DEF AddEnded
  <2>2. n.pc = "idle"
    BY <2>1 DEF Idle
  <2> QED
    BY <1>1, <2>2 DEF FlowEnds
<1>2. CASE o.task = "ingest" /\ ~ok
  <2>1. n = [Idle EXCEPT !.pc = "reject", !.prog = o.prog]
    BY <1>2 DEF AddEnded
  <2>2. n.pc = "reject"
    BY <2>1 DEF Idle
  <2> QED
    BY <1>2, <2>2 DEF FlowEnds
<1>3. CASE o.task = "migrate" /\ ok /\ o.source \in Isles
  <2>1. n = [o EXCEPT !.pc = "leave"]
    BY <1>3 DEF AddEnded
  <2> QED
    BY <2>1 DEF SameWay, OpType
<1>4. CASE o.task = "migrate" /\ ~(ok /\ o.source \in Isles)
  <2>1. n = NextOf(o)
    BY <1>4 DEF AddEnded
  <2>2. n.pc = "next" /\ n.task = "migrate" /\ n.migrants = o.migrants
    BY <2>1, NextSound
  <2> QED
    BY <1>4, <2>2 DEF FlowLoops
<1> QED
  BY <1>1, <1>2, <1>3, <1>4

\* How the size limit ends.
LEMMA FlowEnforceEnded ==
  ASSUME NEW a, NEW o \in OpType, Sound(o), NEW n, n = EnforceEnded(o), o.pc \in EnforcePcs
  PROVE  FlowEnds(o, n) \/ FlowLoops(a, o, n) \/ (n.pc = "leave" /\ SameWay(o, n))
<1>1. CASE o.task = "limits"
  <2>1. n = [Idle EXCEPT !.pc = "limits", !.task = "limits", !.left = o.left]
    BY <1>1 DEF EnforceEnded
  <2>2. n.pc = "limits"
    BY <2>1 DEF Idle
  <2> QED
    BY <1>1, <2>2 DEF FlowEnds
<1>2. CASE o.task # "limits"
  <2> DEFINE o1 == [o EXCEPT !.doomed = {}]
  <2>1. /\ o1 \in OpType /\ o1.pc = o.pc /\ o1.task = o.task /\ o1.prog = o.prog
        /\ o1.isle = o.isle /\ o1.source = o.source /\ o1.migrants = o.migrants
    BY DEF OpType
  <2>2. n = AddEnded(o1, TRUE)
    BY <1>2 DEF EnforceEnded
  <2> HIDE DEF o1
  <2>3. o1.task \in {"ingest", "migrate"} /\ o1.pc \in CallPcs /\ o1.pc \in AfterPcs
    BY <1>2, <2>1 DEF Sound, OpType, CallPcs, AfterPcs
  <2>4. FlowEnds(o1, n) \/ FlowLoops(a, o1, n) \/ (n.pc = "leave" /\ SameWay(o1, n))
    BY <2>1, <2>2, <2>3, FlowAddEnded
  <2> QED
    BY <2>1, <2>4 DEF FlowEnds, FlowLoops, SameWay
<1> QED
  BY <1>1, <1>2

\* Every step of a call goes one of these ways: the steps of island.add ...
LEMMA AddFlows ==
  ASSUME TypeOK, CallsSound, NEW a \in Actors, NEW n, n = op'[a],
         Add(a) \/ Enforce(a)
  PROVE  Flow(a, n)
<1> DEFINE o == op[a]
<1>1. o \in OpType /\ Sound(o)
  BY DEF TypeOK, CallsSound
<1>2. CASE Watch(a)
  <2>1. /\ o.pc = "watch"
        /\ \/ n = AddEnded(o, FALSE)
           \/ n = [o EXCEPT !.pc = "exec", !.redis = hash[o.isle][CellOf[o.isle][o.prog]]]
    BY <1>2 DEF Watch, TypeOK
  <2>2. o.task \in {"ingest", "migrate"} /\ o.pc \in CallPcs /\ o.pc \notin AfterPcs
    BY <1>1, <2>1 DEF Sound, CallPcs, AddPcs, AfterPcs, EnforcePcs, LeavePcs
  <2>3. CASE n = AddEnded(o, FALSE)
    <3>1. FlowEnds(o, n) \/ FlowLoops(a, o, n) \/ (n.pc = "leave" /\ SameWay(o, n))
      BY <1>1, <2>2, <2>3, FlowAddEnded
    <3>2. n.pc # "leave"
      BY <2>2, <2>3 DEF AddEnded, NextOf, Idle
    <3> QED
      BY <3>1, <3>2 DEF Flow
  <2>4. CASE n = [o EXCEPT !.pc = "exec", !.redis = hash[o.isle][CellOf[o.isle][o.prog]]]
    <3>1. SameWay(o, n) /\ n.pc = "exec"
      BY <1>1, <2>4 DEF SameWay, OpType
    <3>2. ~Exec(a)
      BY <2>1 DEF Exec, Commit
    <3> QED
      BY <2>2, <3>1, <3>2 DEF Flow, FlowStays, CallPcs, AddPcs, AfterPcs, EnforcePcs, LeavePcs
  <2> QED
    BY <2>1, <2>3, <2>4
<1>3. CASE Exec(a) \/ ExecAborted(a) \/ Mark(a) \/ Lookup(a) \/ Bulk(a)
  <2>1. SameWay(o, n) /\ o.pc \in CallPcs /\ n.pc \in CallPcs
        /\ (n.pc \in AfterPcs <=> o.pc \in AfterPcs \/ Exec(a))
    <3>1. CASE Exec(a)
      <4>1. o.pc = "exec" /\ n = [o EXCEPT !.pc = "mark", !.seen = Vacant, !.redis = Vacant]
        BY <3>1 DEF Exec, Commit, TypeOK
      <4> QED
        BY <1>1, <3>1, <4>1 DEF SameWay, OpType, CallPcs, AddPcs, AfterPcs
    <3>2. CASE ExecAborted(a)
      <4>1. o.pc = "exec" /\ n = [o EXCEPT !.pc = "watch"] /\ ~Exec(a)
        BY <3>2 DEF ExecAborted, Exec, Commit, Goto, TypeOK
      <4> QED
        BY <1>1, <4>1 DEF SameWay, OpType, CallPcs, AddPcs, AfterPcs, EnforcePcs, LeavePcs
    <3>3. CASE Mark(a)
      <4>1. o.pc = "mark" /\ n = [o EXCEPT !.pc = "measure"]
        BY <3>3 DEF Mark, Stamp, Goto, TypeOK
      <4> QED
        BY <1>1, <4>1 DEF SameWay, OpType, CallPcs, AfterPcs, EnforcePcs
    <3>4. CASE Lookup(a)
      <4>1. o.pc = "lookup"
            /\ n = [o EXCEPT !.pc = "bulk", !.found = Where(o.isle, {m[1] : m \in o.doomed})]
        BY <3>4 DEF Lookup, TypeOK
      <4> QED
        BY <1>1, <4>1 DEF SameWay, OpType, CallPcs, AfterPcs, EnforcePcs
    <3>5. CASE Bulk(a)
      <4>1. o.pc = "bulk" /\ n = [o EXCEPT !.pc = "discard", !.found = {}]
        BY <3>5 DEF Bulk, TypeOK
      <4> QED
        BY <1>1, <4>1 DEF SameWay, OpType, CallPcs, AfterPcs, EnforcePcs
    <3> QED
      BY <1>3, <3>1, <3>2, <3>3, <3>4, <3>5
  <2> QED
    BY <2>1 DEF Flow, FlowStays
<1>4. CASE Measure(a) \/ Discard(a)
  <2>1. o.pc \in EnforcePcs
    BY <1>4 DEF Measure, Discard, EnforcePcs
  <2>2. CASE n = EnforceEnded(o)
    <3>1. FlowEnds(o, n) \/ FlowLoops(a, o, n) \/ (n.pc = "leave" /\ SameWay(o, n))
      BY <1>1, <2>1, <2>2, FlowEnforceEnded
    <3>2. n.pc = "leave" /\ SameWay(o, n) => FlowStays(a, o, n)
      BY <2>1 DEF FlowStays, CallPcs, AfterPcs, LeavePcs
    <3> QED
      BY <3>1, <3>2 DEF Flow
  <2>3. CASE n # EnforceEnded(o)
    <3>1. \E ms : n = [o EXCEPT !.pc = "lookup", !.doomed = ms]
      BY <1>4, <2>3 DEF Measure, Discard, TypeOK
    <3>2. SameWay(o, n) /\ n.pc = "lookup"
      BY <1>1, <3>1 DEF SameWay, OpType
    <3> QED
      BY <2>1, <3>2 DEF Flow, FlowStays, CallPcs, AfterPcs, EnforcePcs
  <2> QED
    BY <2>2, <2>3
<1> QED
  BY <1>2, <1>3, <1>4 DEF Add, Enforce

\* ... and those of select_elites and of the ingestor.
LEMMA SelectFlows ==
  ASSUME TypeOK, CallsSound, NEW a \in Actors, NEW n, n = op'[a],
         StartAdd(a) \/ Reject(a) \/ StartSelect(a) \/ Select(a) \/ Migrate(a)
  PROVE  Flow(a, n)
<1> DEFINE o == op[a]
<1>1. o \in OpType /\ Sound(o)
  BY DEF TypeOK, CallsSound
<1>2. CASE StartAdd(a)
  <2>1. PICK p \in todo :
          /\ todo' = todo \ {p}
          /\ \/ \E i \in Compatible(p, Isles) : n = AddTo([Idle EXCEPT !.task = "ingest"], p, i)
             \/ n = AddEnded([[Idle EXCEPT !.task = "ingest"] EXCEPT !.prog = p], FALSE)
    BY <1>2 DEF StartAdd, TypeOK
  <2>2. o.pc = "idle"
    BY <1>2 DEF StartAdd, MayBegin
  <2>3. CASE n = AddEnded([[Idle EXCEPT !.task = "ingest"] EXCEPT !.prog = p], FALSE)
    <3>1. n.pc = "reject"
      BY <2>3 DEF AddEnded, Idle
    <3> QED
      BY <2>2, <3>1 DEF Flow, FlowEnds, AfterPcs, EnforcePcs, LeavePcs
  <2>4. CASE \E i \in Compatible(p, Isles) : n = AddTo([Idle EXCEPT !.task = "ingest"], p, i)
    <3>1. PICK i \in Compatible(p, Isles) : n = AddTo([Idle EXCEPT !.task = "ingest"], p, i)
      BY <2>4
    <3>2. n.pc = "watch" /\ n.task = "ingest" /\ n.prog = p /\ n.isle = i
      BY <3>1 DEF AddTo, Idle
    <3> QED
      BY <1>2, <2>1, <3>2 DEF Flow, FlowIngests
  <2> QED
    BY <2>1, <2>3, <2>4
<1>3. CASE Reject(a) \/ Select(a)
  <2>1. n = Idle /\ o.pc \in {"reject", "select"}
    BY <1>3 DEF Reject, Refuse, Select, TypeOK
  <2> QED
    BY <2>1 DEF Flow, FlowEnds, Idle, AfterPcs, EnforcePcs, LeavePcs
<1>4. CASE StartSelect(a)
  <2>1. o.pc = "idle"
    BY <1>4 DEF StartSelect, MayBegin
  <2>2. CASE n = [o EXCEPT !.pc = "select"]
    <3>1. n.pc = "select"
      BY <1>1, <2>2 DEF OpType
    <3> QED
      BY <2>1, <3>1 DEF Flow, FlowEnds, AfterPcs, EnforcePcs, LeavePcs
  <2>3. CASE n # [o EXCEPT !.pc = "select"]
    <3>1. PICK chosen \in [Isles -> SUBSET Programs] :
            /\ \A i \in Isles : chosen[i] \in Emigrants(i)
            /\ n = [Idle EXCEPT !.pc = "next", !.task = "migrate",
                      !.migrants = UNION {{<<i, <<p, current[p]>>>> :
                                            p \in chosen[i]} : i \in Isles}]
      BY <1>4, <2>3 DEF StartSelect, Goto, TypeOK
    <3> DEFINE ms == UNION {{<<i, <<p, current[p]>>>> : p \in chosen[i]} : i \in Isles}
    <3>2. \A m \in ms : \E i \in Isles : \E p \in Elites(i) : m = <<i, <<p, current[p]>>>>
      BY <3>1 DEF Emigrants
    <3> HIDE DEF ms
    <3>3. n = [Idle EXCEPT !.pc = "next", !.task = "migrate", !.migrants = ms]
      BY <3>1 DEF ms
    <3>4. n.pc = "next" /\ n.task = "migrate" /\ n.migrants = ms
      BY <3>3 DEF Idle
    <3> QED
      BY <1>4, <3>2, <3>4 DEF Flow, FlowSelects
  <2> QED
    BY <2>2, <2>3
<1>5. CASE NextMigrant(a)
  <2>1. o.pc = "next" /\ o.task = "migrate"
    BY <1>1, <1>5 DEF NextMigrant, Sound
  <2>2. PICK m \in o.migrants :
          LET rest == [o EXCEPT !.migrants = @ \ {m}, !.source = m[2][2]]
          IN  \/ \E i \in Compatible(m[2][1], Isles \ {m[2][2]}) : n = AddTo(rest, m[2][1], i)
              \/ n = rest
    BY <1>5 DEF NextMigrant, TypeOK
  <2> DEFINE rest == [o EXCEPT !.migrants = @ \ {m}, !.source = m[2][2]]
  <2>3. rest \in OpType /\ rest.pc = "next" /\ rest.task = "migrate"
        /\ rest.source = m[2][2] /\ rest.migrants = o.migrants \ {m}
    BY <1>1, <2>1 DEF OpType, Copies
  <2>4. CASE n = rest
    BY <2>1, <2>3, <2>4 DEF Flow, FlowLoops, AfterPcs, EnforcePcs, LeavePcs
  <2>5. CASE n # rest
    <3>1. PICK i \in Compatible(m[2][1], Isles \ {m[2][2]}) : n = AddTo(rest, m[2][1], i)
      BY <2>2, <2>5
    <3> HIDE DEF rest
    <3>2. /\ n.pc = "watch" /\ n.task = "migrate" /\ n.prog = m[2][1] /\ n.isle = i
          /\ n.source = m[2][2] /\ n.migrants = o.migrants \ {m}
      BY <2>3, <3>1 DEF AddTo, OpType
    <3> QED
      BY <2>1, <3>2 DEF Flow, FlowMoves
  <2> QED
    BY <2>4, <2>5
<1>6. CASE Leave(a)
  <2>1. o.pc = "leave"
        /\ (n = [o EXCEPT !.pc = "rollback"]
            \/ n = [o EXCEPT !.pc = "left", !.found = Where(o.source, {o.prog})])
    BY <1>6 DEF Leave, TypeOK
  <2>2. SameWay(o, n) /\ n.pc \in {"rollback", "left"}
    BY <1>1, <2>1 DEF SameWay, OpType
  <2> QED
    BY <2>1, <2>2 DEF Flow, FlowStays, CallPcs, AfterPcs, LeavePcs
<1>7. CASE Left(a) \/ RolledBack(a)
  <2>1. o.pc \in LeavePcs /\ n = NextOf(o)
    BY <1>7 DEF Left, RolledBack, LeavePcs, TypeOK
  <2>2. n.pc = "next" /\ n.task = "migrate" /\ n.migrants = o.migrants /\ o.task = "migrate"
    BY <1>1, <2>1, NextSound DEF Sound
  <2> QED
    BY <1>7, <2>1, <2>2 DEF Flow, FlowLoops, CallPcs, AfterPcs
<1>8. CASE Rollback(a)
  <2>1. o.pc = "rollback" /\ o.task = "migrate"
    BY <1>1, <1>8 DEF Rollback, Sound, LeavePcs
  <2>2. CASE Where(o.isle, {o.prog}) = {}
    <3>1. n = NextOf(o)
      BY <1>8, <2>2 DEF Rollback, TypeOK
    <3>2. n.pc = "next" /\ n.task = "migrate" /\ n.migrants = o.migrants
      BY <1>1, <3>1, NextSound
    <3> QED
      BY <2>1, <2>2, <3>2 DEF Flow, FlowLoops, CallPcs, AfterPcs, LeavePcs
  <2>3. CASE Where(o.isle, {o.prog}) # {}
    <3>1. n = [o EXCEPT !.pc = "rolledback", !.found = Where(o.isle, {o.prog})]
      BY <1>8, <2>3 DEF Rollback, TypeOK
    <3>2. SameWay(o, n) /\ n.pc = "rolledback"
      BY <1>1, <3>1 DEF SameWay, OpType
    <3> QED
      BY <2>1, <3>2 DEF Flow, FlowStays, CallPcs, AfterPcs, LeavePcs
  <2> QED
    BY <2>2, <2>3
<1>9. CASE MigrantsDone(a)
  <2>1. o.pc = "next" /\ n = [Idle EXCEPT !.pc = "limits", !.task = "limits", !.left = Isles]
    BY <1>9 DEF MigrantsDone, TypeOK
  <2>2. n.pc = "limits"
    BY <2>1, IdleSound DEF OpType
  <2> QED
    BY <2>1, <2>2 DEF Flow, FlowEnds, AfterPcs, EnforcePcs, LeavePcs
<1>10. CASE Limits(a)
  <2>1. /\ o.pc = "limits" /\ o.task = "limits"
        /\ \/ \E i \in o.left : n = [o EXCEPT !.pc = "measure", !.isle = i,
                                             !.left = @ \ {i}, !.doomed = {}]
           \/ n = [Idle EXCEPT !.pc = "select"]
    BY <1>1, <1>10 DEF Limits, Sound, TypeOK
  <2>2. CASE n = [Idle EXCEPT !.pc = "select"]
    <3>1. n.pc = "select"
      BY <2>2, IdleSound DEF OpType
    <3> QED
      BY <2>1, <3>1 DEF Flow, FlowEnds
  <2>3. CASE n # [Idle EXCEPT !.pc = "select"]
    <3>1. n.pc = "measure" /\ n.task = "limits"
      BY <1>1, <2>1, <2>3 DEF OpType
    <3> QED
      BY <2>1, <3>1 DEF Flow, FlowEnds
  <2> QED
    BY <2>2, <2>3
<1> QED
  BY <1>2, <1>3, <1>4, <1>5, <1>6, <1>7, <1>8, <1>9, <1>10 DEF Migrate

\* Actor a takes a calm step, to n.
Acts(a, n) ==
  /\ n = op'[a] /\ n \in OpType
  /\ \A b \in Actors : b # a => op[b].pc = "idle" /\ op'[b] = op[b]
  /\ \/ StartAdd(a) \/ Reject(a) \/ StartSelect(a) \/ Select(a)
     \/ Migrate(a) \/ Add(a) \/ Enforce(a)

LEMMA CalmActs ==
  ASSUME Calm, Next
  PROVE  \E a \in Actors : \E n : Acts(a, n)
BY CalmTurn DEF Acts

LEMMA ActsFlow ==
  ASSUME Calm, NEW a \in Actors, NEW n, Acts(a, n)
  PROVE  Flow(a, n)
BY AddFlows, SelectFlows DEF Acts, Calm, IndexInv

\* The steps that end inside the size limit.
LEMMA EnforceWays ==
  ASSUME Calm, NEW a \in Actors, NEW n, Acts(a, n), n.pc \in {"lookup", "bulk", "discard"}
  PROVE  \/ /\ Measure(a) /\ n.pc = "lookup" /\ SameWay(op[a], n)
            /\ \E d \in Lowest(Elites(op[a].isle)) : n.doomed = {<<p, current[p]>> : p \in d}
         \/ Lookup(a) /\ n.pc = "bulk" /\ n.doomed = op[a].doomed /\ SameWay(op[a], n)
         \/ Bulk(a) /\ n.pc = "discard" /\ n.doomed = op[a].doomed /\ SameWay(op[a], n)
<1> USE DEF Calm, IndexInv
<1> DEFINE o == op[a]
<1>1. o \in OpType /\ Sound(o) /\ n = op'[a]
  BY DEF TypeOK, CallsSound, Acts
<1>2. FlowStays(a, o, n)
  <2>1. ~FlowEnds(o, n) /\ ~FlowSelects(a, n) /\ ~FlowIngests(a, n) /\ ~FlowMoves(o, n)
        /\ ~FlowLoops(a, o, n)
    BY DEF FlowEnds, FlowSelects, FlowIngests, FlowMoves, FlowLoops
  <2> QED
    BY <2>1, ActsFlow DEF Flow
<1>3. SameWay(o, n) /\ o.pc \in CallPcs
  BY <1>2 DEF FlowStays
<1>4. Migrate(a) \/ Add(a) \/ Enforce(a)
  BY <1>3 DEF Acts, StartAdd, Reject, Refuse, StartSelect, Select, MayBegin, CallPcs, AddPcs,
              AfterPcs, EnforcePcs, LeavePcs
<1>5. CASE Migrate(a)
  <2>1. Leave(a) \/ Left(a) \/ Rollback(a) \/ RolledBack(a)
    BY <1>3, <1>5 DEF Migrate, NextMigrant, MigrantsDone, Limits, CallPcs, AddPcs, AfterPcs,
              EnforcePcs, LeavePcs
  <2>2. \/ n = [o EXCEPT !.pc = "rollback"]
        \/ \E f : n = [o EXCEPT !.pc = "left", !.found = f]
        \/ \E f : n = [o EXCEPT !.pc = "rolledback", !.found = f]
        \/ n = NextOf(o)
    BY <1>1, <2>1 DEF Leave, Left, Rollback, RolledBack, TypeOK
  <2>3. n.pc \in {"rollback", "left", "rolledback", "next"}
    BY <1>1, <2>2, NextSound DEF OpType
  <2> QED
    BY <2>3
<1>6. CASE Add(a)
  <2>1. Watch(a) \/ Exec(a) \/ Mark(a)
    BY <1>6 DEF Add, ExecAborted, SoloInv
  <2>2. CASE Watch(a)
    <3>1. o.pc = "watch" /\ (n = AddEnded(o, FALSE) \/ \E r : n = [o EXCEPT !.pc = "exec", !.redis = r])
      BY <1>1, <2>2 DEF Watch, TypeOK
    <3>2. o.task \in {"ingest", "migrate"}
      BY <1>1, <3>1 DEF Sound, AddPcs
    <3>3. n.pc \in {"idle", "reject", "leave", "next", "exec"}
      BY <1>1, <3>1, <3>2, EndsAdd DEF OpType
    <3> QED
      BY <3>3
  <2>3. CASE Exec(a) \/ Mark(a)
    <3>1. \/ n = [o EXCEPT !.pc = "mark", !.seen = Vacant, !.redis = Vacant]
          \/ n = [o EXCEPT !.pc = "measure"]
      BY <1>1, <2>3 DEF Exec, Commit, Mark, Goto, TypeOK
    <3>2. n.pc \in {"mark", "measure"}
      BY <1>1, <3>1 DEF OpType
    <3> QED
      BY <3>2
  <2> QED
    BY <2>1, <2>2, <2>3
<1>7. CASE Enforce(a)
  <2>1. CASE Measure(a) \/ Discard(a)
    <3>1. o.task # "none"
      BY <1>1, <2>1 DEF Measure, Discard, Sound, EnforcePcs
    <3>2. n # EnforceEnded(o)
      BY <1>1, <3>1, EndsEnforce
    <3>3. Measure(a)
      BY <1>1, <2>1, <3>2 DEF Discard, TypeOK
    <3>4. PICK d \in Lowest(Elites(o.isle)) :
            n = [o EXCEPT !.pc = "lookup", !.doomed = {<<p, current[p]>> : p \in d}]
      BY <1>1, <3>2, <3>3 DEF Measure, TypeOK
    <3>5. n.pc = "lookup" /\ n.doomed = {<<p, current[p]>> : p \in d}
      BY <1>1, <3>4 DEF OpType
    <3> QED
      BY <1>3, <3>3, <3>5
  <2>2. CASE Lookup(a)
    <3>1. \E f : n = [o EXCEPT !.pc = "bulk", !.found = f]
      BY <1>1, <2>2 DEF Lookup, TypeOK
    <3>2. n.pc = "bulk" /\ n.doomed = o.doomed
      BY <1>1, <3>1 DEF OpType
    <3> QED
      BY <1>3, <2>2, <3>2
  <2>3. CASE Bulk(a)
    <3>1. n = [o EXCEPT !.pc = "discard", !.found = {}]
      BY <1>1, <2>3 DEF Bulk, TypeOK
    <3>2. n.pc = "discard" /\ n.doomed = o.doomed
      BY <1>1, <3>1 DEF OpType
    <3> QED
      BY <1>3, <2>3, <3>2
  <2> QED
    BY <1>7, <2>1, <2>2, <2>3 DEF Enforce
<1> QED
  BY <1>4, <1>5, <1>6, <1>7

\* Only EXEC adds a program to an island.
LEMMA NewMembers ==
  ASSUME Calm, NEW a \in Actors, NEW n, Acts(a, n), NEW i \in Isles, NEW p \in Members(i)'
  PROVE  p \in Members(i) \/ (Exec(a) /\ i = op[a].isle /\ p = op[a].prog)
<1>0. \A b \in Actors : b # a => op[b].pc = "idle"
  BY DEF Acts
<1>1. CASE Exec(a)
  <2>1. PICK j, q, r : j = op[a].isle /\ q = op[a].prog /\ r = op[a].redis
    OBVIOUS
  <2>2. /\ Members(j)' = (Members(j) \ {r}) \cup {q}
        /\ \A k \in Isles : k # j => Members(k)' = Members(k)
    BY <1>0, <1>1, <2>1, CalmExec
  <2> QED
    BY <1>1, <2>1, <2>2
<1>2. CASE Bulk(a) \/ Left(a) \/ RolledBack(a)
  <2>1. PICK j \in Isles : \E ps \in SUBSET Members(j) : Unlink(a, j, Homed(j, ps), ps)
    BY <1>2, CalmRemoval
  <2>2. PICK ps \in SUBSET Members(j) : Unlink(a, j, Homed(j, ps), ps)
    BY <2>1
  <2>3. /\ Members(j)' = Members(j) \ ps
        /\ \A k \in Isles : k # j => Members(k)' = Members(k)
    BY <1>0, <2>2, CalmUnlink
  <2> QED
    BY <2>3
<1>3. CASE UNCHANGED archive
  BY <1>3 DEF archive, Members
<1> QED
  BY <1>1, <1>2, <1>3, CalmArchive DEF Acts

-----------------------------------------------------------------------------
(* Calls that do not overlap: the program metadata.                        *)

Known(p) == current[p] # Unset

\* What a call knows of its programs: none of them is to be ingested any more,
\* all but an ingested one have their metadata, and a migrant whose source is
\* not known has been discarded.
KnownBy(o) ==
  /\ o.pc \in CallPcs \cup {"next"} /\ o.task = "migrate" =>
       \A m \in o.migrants : /\ m[2][1] \notin todo /\ Known(m[2][1])
                             /\ m[2][2] \in Isles \/ m[2][1] \in discarded
  /\ o.pc \in CallPcs /\ o.task # "limits" => o.prog \notin todo
  /\ o.pc \in AddPcs /\ o.task = "ingest" => \A i \in Isles : o.prog \notin Members(i)
  /\ o.pc \in CallPcs /\ o.task = "migrate" =>
       Known(o.prog) /\ (o.source \in Isles \/ o.prog \in discarded)
  /\ o.pc \in {"lookup", "bulk", "discard"} =>
       \A m \in o.doomed : m[2] # Unset /\ Known(m[1])

Unused == \A p \in todo, i \in Isles : p \notin Members(i)
MarkedNow(p) == \E a \in Actors : op[a].pc = "mark" /\ op[a].prog = p
Marked ==
  /\ \A p \in Programs : current[p] = Cleared => p \in discarded
  /\ \A i \in Isles : \A p \in Members(i) : Known(p) \/ MarkedNow(p)
KnownInv == alone => Unused /\ Marked /\ \A a \in Actors : KnownBy(op[a])

CalmKnown == Calm /\ KnownInv

\* Metadata is only ever added or cleared, a discarded program stays so, and
\* nothing comes back to be ingested.
LEMMA KnownGrows ==
  ASSUME CalmKnown, NEW a \in Actors, NEW n, Acts(a, n)
  PROVE  /\ todo' \subseteq todo /\ discarded \subseteq discarded'
         /\ \A p \in Programs : Known(p) => Known(p)'
         /\ \A p \in Programs : current'[p] = Cleared => p \in discarded'
         /\ \A p \in Programs : Known(p)' => Known(p) \/ MarkedNow(p)
<1> USE DEF CalmKnown, Calm, IndexInv
<1> DEFINE o == op[a]
<1>1. o \in OpType /\ Sound(o) /\ KnownBy(o) /\ Marked
  BY DEF TypeOK, CallsSound, KnownInv
<1>2. CASE Mark(a)
  <2>1. /\ o.pc = "mark" /\ todo' = todo /\ discarded' = discarded
        /\ current' = [current EXCEPT ![o.prog] =
                         IF current[o.prog] = Unset THEN o.isle ELSE current[o.prog]]
    BY <1>2 DEF Mark, Stamp
  <2>2. o.prog \in Programs /\ o.isle \in Isles /\ o.isle # Unset /\ o.isle # Cleared
    BY <1>1, <2>1, IslandsAssumption DEF Sound, AddPcs, AfterPcs, IslandsAssumption, OpType
  <2>3. MarkedNow(o.prog)
    BY <2>1 DEF MarkedNow
  <2> QED
    BY <1>1, <2>1, <2>2, <2>3 DEF TypeOK, Known, Marked
<1>3. CASE Discard(a)
  <2>1. /\ o.pc = "discard" /\ todo' = todo
        /\ discarded' = discarded \cup {m[1] : m \in o.doomed}
        /\ current' = [p \in Programs |->
                   IF <<p, Unset>> \in o.doomed THEN Unset
                   ELSE IF \E m \in o.doomed : m[1] = p THEN Cleared
                   ELSE current[p]]
    BY <1>3 DEF Discard, Dispose
  <2>2. \A m \in o.doomed : m[2] # Unset /\ Known(m[1])
    BY <1>1, <2>1 DEF KnownBy
  <2>3. \A p \in Programs : <<p, Unset>> \notin o.doomed
    BY <2>2
  <2>4. Cleared # Unset
    BY IslandsAssumption DEF IslandsAssumption
  <2>5. \A p \in Programs : current'[p] = IF \E m \in o.doomed : m[1] = p THEN Cleared
                                          ELSE current[p]
    BY <2>1, <2>3
  <2> QED
    BY <1>1, <2>1, <2>2, <2>4, <2>5 DEF Known, Marked
<1>4. CASE ~Mark(a) /\ ~Discard(a)
  <2>1. current' = current /\ todo' \subseteq todo /\ discarded \subseteq discarded'
    BY <1>4 DEF Acts, StartAdd, Reject, Refuse, StartSelect, Select, Migrate, NextMigrant,
                Leave, Left, Rollback, RolledBack, MigrantsDone, Limits, Add, Watch, Exec,
                Commit, ExecAborted, Enforce, Measure, Lookup, Bulk, programs
  <2> QED
    BY <1>1, <2>1 DEF Known, Marked
<1> QED
  BY <1>2, <1>3, <1>4

\* A program waits for its metadata after its EXEC.
LEMMA ExecMarks ==
  ASSUME CalmKnown, NEW a \in Actors, NEW n, Acts(a, n)
  PROVE  n.pc = "mark" <=> Exec(a)
<1> USE DEF CalmKnown, Calm, IndexInv
<1> DEFINE o == op[a]
<1>1. o \in OpType /\ Sound(o) /\ n \in OpType /\ n = op'[a]
  BY DEF TypeOK, CallsSound, Acts
<1>2. ASSUME Exec(a) PROVE n.pc = "mark"
  <2>1. n = [o EXCEPT !.pc = "mark", !.seen = Vacant, !.redis = Vacant]
    BY <1>1, <1>2 DEF Exec, Commit, TypeOK
  <2> QED
    BY <1>1, <2>1 DEF OpType
<1>3. ASSUME n.pc = "mark" PROVE Exec(a)
  <2>1. FlowStays(a, o, n)
    <3>1. ~FlowEnds(o, n) /\ ~FlowSelects(a, n) /\ ~FlowIngests(a, n) /\ ~FlowMoves(o, n)
          /\ ~FlowLoops(a, o, n)
      BY <1>3 DEF FlowEnds, FlowSelects, FlowIngests, FlowMoves, FlowLoops
    <3> QED
      BY <3>1, ActsFlow DEF Flow
  <2>2. o.pc \in AfterPcs \/ Exec(a)
    BY <1>3, <2>1 DEF FlowStays, AfterPcs
  <2>3. CASE o.pc \in AfterPcs
    <3>1. \/ Mark(a) \/ Leave(a) \/ Left(a) \/ Rollback(a) \/ RolledBack(a)
          \/ Measure(a) \/ Lookup(a) \/ Bulk(a) \/ Discard(a)
      BY <2>3 DEF Acts, StartAdd, Reject, Refuse, StartSelect, Select, MayBegin, Migrate,
                  NextMigrant, MigrantsDone, Limits, Add, Watch, Exec, Commit, ExecAborted,
                  Enforce, AfterPcs, EnforcePcs, LeavePcs
    <3>2. \/ \E pc \in {"measure", "rollback"} : n = [o EXCEPT !.pc = pc]
          \/ \E pc \in {"left", "rolledback", "bulk"} : \E f :
               n = [o EXCEPT !.pc = pc, !.found = f]
          \/ \E ms : n = [o EXCEPT !.pc = "lookup", !.doomed = ms]
          \/ n = [o EXCEPT !.pc = "discard", !.found = {}]
          \/ n = NextOf(o)
          \/ n = EnforceEnded(o) /\ o.pc \in EnforcePcs
      <4>1. CASE Mark(a)
        BY <1>1, <4>1 DEF Mark, Goto, TypeOK
      <4>2. CASE Leave(a) \/ Left(a) \/ Rollback(a) \/ RolledBack(a)
        BY <1>1, <4>2 DEF Leave, Left, Rollback, RolledBack, TypeOK
      <4>3. CASE Measure(a) \/ Discard(a)
        BY <1>1, <4>3 DEF Measure, Discard, EnforcePcs, TypeOK
      <4>4. CASE Lookup(a) \/ Bulk(a)
        BY <1>1, <4>4 DEF Lookup, Bulk, TypeOK
      <4> QED
        BY <3>1, <4>1, <4>2, <4>3, <4>4
    <3>3. n # NextOf(o)
      BY <1>1, <1>3, NextSound
    <3>4. n = EnforceEnded(o) => o.pc \notin EnforcePcs
      BY <1>1, <1>3, EndsEnforce DEF Sound
    <3> QED
      BY <1>1, <1>3, <3>2, <3>3, <3>4 DEF OpType
  <2> QED
    BY <2>2, <2>3
<1> QED
  BY <1>2, <1>3

\* Whoever is at "mark" is there after its EXEC, and for one program.
LEMMA MarkedMoves ==
  ASSUME CalmKnown, NEW a \in Actors, NEW n, Acts(a, n), NEW p \in Programs
  PROVE  /\ MarkedNow(p) => op[a].pc = "mark" /\ op[a].prog = p /\ Mark(a)
         /\ MarkedNow(p)' <=> n.pc = "mark" /\ n.prog = p
         /\ n.pc = "mark" <=> Exec(a)
<1> USE DEF CalmKnown, Calm, IndexInv
<1> DEFINE o == op[a]
<1>1. o \in OpType /\ Sound(o) /\ n \in OpType /\ n = op'[a]
  BY DEF TypeOK, CallsSound, Acts
<1>2. \A b \in Actors : b # a => op[b].pc = "idle" /\ op'[b].pc = "idle"
  BY DEF Acts
<1>3. o.pc = "mark" => Mark(a)
  BY DEF Acts, Mark, Stamp, StartAdd, Reject, Refuse, StartSelect, Select, MayBegin, Migrate,
         NextMigrant, Leave, Left, Rollback, RolledBack, MigrantsDone, Limits, Add, Watch,
         Exec, Commit, ExecAborted, Enforce, Measure, Lookup, Bulk, Discard, Dispose
<1>4. MarkedNow(p) => o.pc = "mark" /\ o.prog = p
  BY <1>2 DEF MarkedNow
<1>5. MarkedNow(p)' <=> n.pc = "mark" /\ n.prog = p
  BY <1>1, <1>2 DEF MarkedNow
<1> QED
  BY <1>3, <1>4, <1>5, ExecMarks

\* A call goes on to know its programs.
LEMMA KnownByKept ==
  ASSUME CalmKnown, NEW a \in Actors, NEW n, Acts(a, n)
  PROVE  KnownBy(n)'
<1> USE DEF CalmKnown, Calm, IndexInv
<1> DEFINE o == op[a]
<1>1. o \in OpType /\ Sound(o) /\ KnownBy(o) /\ n \in OpType
  BY DEF TypeOK, CallsSound, KnownInv, Acts
<1>2. /\ todo' \subseteq todo /\ discarded \subseteq discarded'
      /\ \A p \in Programs : Known(p) => Known(p)'
  BY KnownGrows
<1>3. n.pc \notin {"lookup", "bulk", "discard"} \/ \A m \in n.doomed : m[2] # Unset /\ Known(m[1])
  <2> SUFFICES ASSUME n.pc \in {"lookup", "bulk", "discard"}
               PROVE  \A m \in n.doomed : m[2] # Unset /\ Known(m[1])
    OBVIOUS
  <2>1. CASE (Lookup(a) \/ Bulk(a)) /\ n.doomed = o.doomed
    <3>1. o.pc \in {"lookup", "bulk"}
      BY <2>1 DEF Lookup, Bulk
    <3> QED
      BY <1>1, <2>1, <3>1 DEF KnownBy
  <2>2. CASE /\ Measure(a)
             /\ \E d \in Lowest(Elites(o.isle)) : n.doomed = {<<p, current[p]>> : p \in d}
    <3>1. PICK d \in Lowest(Elites(o.isle)) : n.doomed = {<<p, current[p]>> : p \in d}
      BY <2>2
    <3>2. o.pc = "measure"
      BY <2>2 DEF Measure
    <3>3. o.isle \in Isles
      BY <1>1, <3>2 DEF Sound, AfterPcs, EnforcePcs
    <3>4. d \subseteq Members(o.isle)
      BY <3>3, CalmMembers DEF Lowest
    <3>5. \A p \in Members(o.isle) : p \in Programs /\ Known(p)
      <4>1. \A p \in Members(o.isle) : p \in Programs
        BY <3>3, MemberCell
      <4>2. \A p \in Programs : ~MarkedNow(p)
        BY <3>2, MarkedMoves
      <4> QED
        BY <3>3, <4>1, <4>2 DEF KnownInv, Marked
    <3>6. \A p \in d : current[p] # Unset /\ Known(p)
      BY <3>4, <3>5 DEF Known
    <3>7. \A m \in n.doomed : \E p \in d : m = <<p, current[p]>>
      BY <3>1
    <3> QED
      BY <3>6, <3>7
  <2> QED
    BY <2>1, <2>2, EnforceWays
<1>4. \A m \in n.doomed : m[1] \in Programs
  BY <1>1 DEF OpType, Copies
<1>5. n.pc \in {"lookup", "bulk", "discard"} => \A m \in n.doomed : m[2] # Unset /\ Known(m[1])'
  BY <1>2, <1>3, <1>4
<1>6. CASE FlowEnds(o, n)
  BY <1>5, <1>6 DEF FlowEnds, KnownBy, CallPcs, AddPcs, AfterPcs, EnforcePcs, LeavePcs
<1>7. CASE FlowSelects(a, n)
  <2>1. n.pc = "next" /\ StartSelect(a) /\ AllIdle
    BY <1>7 DEF FlowSelects, StartSelect, MayBegin
  <2>2. ASSUME NEW m \in n.migrants
        PROVE  /\ m[2][1] \notin todo' /\ Known(m[2][1])'
               /\ m[2][2] \in Isles \/ m[2][1] \in discarded'
    <3>1. PICK i \in Isles : \E p \in Elites(i) : m = <<i, <<p, current[p]>>>>
      BY <1>7, <2>2 DEF FlowSelects
    <3>2. PICK p \in Elites(i) : m = <<i, <<p, current[p]>>>>
      BY <3>1
    <3>3. p \in Members(i) /\ p \in Programs
      BY CalmMembers, MemberCell
    <3>4. ~MarkedNow(p)
      BY <2>1 DEF AllIdle, MarkedNow
    <3>5. p \notin todo /\ Known(p)
      BY <3>3, <3>4 DEF KnownInv, Unused, Marked
    <3>6. current[p] \in Isles \/ p \in discarded
      BY <3>3, <3>5 DEF TypeOK, Homes, Known, KnownInv, Marked
    <3> QED
      BY <1>2, <3>2, <3>3, <3>5, <3>6
  <2> QED
    BY <2>1, <2>2 DEF KnownBy, CallPcs, AddPcs, AfterPcs, EnforcePcs, LeavePcs
<1>8. CASE FlowIngests(a, n)
  <2>1. /\ n.pc = "watch" /\ n.task = "ingest" /\ n.prog \in todo /\ todo' = todo \ {n.prog}
        /\ StartAdd(a)
    BY <1>8 DEF FlowIngests
  <2>2. ~Exec(a)
    BY <2>1 DEF StartAdd, MayBegin, Exec, Commit
  <2>3. \A i \in Isles : n.prog \notin Members(i)'
    BY <2>1, <2>2, NewMembers DEF KnownInv, Unused
  <2> QED
    BY <2>1, <2>3 DEF KnownBy, CallPcs, AddPcs, AfterPcs, EnforcePcs, LeavePcs
<1>9. CASE FlowMoves(o, n)
  <2>1. o.pc = "next" /\ n.pc = "watch" /\ n.task = "migrate" /\ n.migrants \subseteq o.migrants
    BY <1>9 DEF FlowMoves
  <2>2. PICK m \in o.migrants : n.prog = m[2][1] /\ n.source = m[2][2]
    BY <1>9 DEF FlowMoves
  <2>3. \A k \in o.migrants : /\ k[2][1] \notin todo /\ Known(k[2][1])
                              /\ k[2][2] \in Isles \/ k[2][1] \in discarded
                              /\ k[2][1] \in Programs
    BY <1>1, <2>1 DEF KnownBy, Sound, OpType, Copies
  <2> QED
    BY <1>2, <2>1, <2>2, <2>3 DEF KnownBy, CallPcs, AddPcs, AfterPcs, EnforcePcs, LeavePcs
<1>10. CASE FlowLoops(a, o, n)
  <2>1. /\ n.pc = "next" /\ n.migrants \subseteq o.migrants
        /\ o.task = "migrate" /\ o.pc \in CallPcs \cup {"next"}
    BY <1>10 DEF FlowLoops
  <2>2. \A k \in o.migrants : /\ k[2][1] \notin todo /\ Known(k[2][1])
                              /\ k[2][2] \in Isles \/ k[2][1] \in discarded
                              /\ k[2][1] \in Programs
    BY <1>1, <2>1 DEF KnownBy, OpType, Copies
  <2> QED
    BY <1>2, <2>1, <2>2 DEF KnownBy, CallPcs, AddPcs, AfterPcs, EnforcePcs, LeavePcs
<1>11. CASE FlowStays(a, o, n)
  <2>1. /\ n.task = o.task /\ n.prog = o.prog /\ n.source = o.source /\ n.migrants = o.migrants
        /\ o.pc \in CallPcs /\ n.pc \in CallPcs
    BY <1>11 DEF FlowStays, SameWay
  <2>2. n.pc \in CallPcs \cup {"next"} /\ n.task = "migrate" =>
          \A m \in n.migrants : /\ m[2][1] \notin todo' /\ Known(m[2][1])'
                                /\ m[2][2] \in Isles \/ m[2][1] \in discarded'
    <3>1. \A m \in o.migrants : m[2][1] \in Programs
      BY <1>1 DEF OpType, Copies
    <3> QED
      BY <1>1, <1>2, <2>1, <3>1 DEF KnownBy
  <2>3. n.task # "limits" => n.prog \notin todo'
    BY <1>1, <1>2, <2>1 DEF KnownBy
  <2>4. n.pc \in AddPcs /\ n.task = "ingest" => \A i \in Isles : n.prog \notin Members(i)'
    <3> SUFFICES ASSUME n.pc \in AddPcs, n.task = "ingest", NEW i \in Isles
                 PROVE  n.prog \notin Members(i)'
      OBVIOUS
    <3>1. n.pc \notin AfterPcs
      BY DEF AddPcs, AfterPcs, EnforcePcs, LeavePcs
    <3>2. o.pc \in AddPcs /\ ~Exec(a)
      BY <1>11, <2>1, <3>1 DEF FlowStays, CallPcs
    <3> QED
      BY <1>1, <2>1, <3>2, NewMembers DEF KnownBy
  <2>5. n.task = "migrate" => Known(n.prog)' /\ (n.source \in Isles \/ n.prog \in discarded')
    <3>1. n.task = "migrate" => n.prog \in Programs
      BY <1>1, <2>1 DEF Sound, CallPcs
    <3> QED
      BY <1>1, <1>2, <2>1, <3>1 DEF KnownBy
  <2> QED
    BY <1>5, <2>2, <2>3, <2>4, <2>5 DEF KnownBy
<1> QED
  BY <1>6, <1>7, <1>8, <1>9, <1>10, <1>11, ActsFlow DEF Flow

LEMMA KnownKept ==
  ASSUME CalmKnown, Next
  PROVE  KnownInv'
<1> USE DEF CalmKnown, Calm, IndexInv
<1>1. PICK a \in Actors : \E n : Acts(a, n)
  BY CalmActs
<1>2. PICK n : Acts(a, n)
  BY <1>1
<1>3. op[a] \in OpType /\ Sound(op[a]) /\ KnownBy(op[a]) /\ Unused /\ Marked
  BY DEF TypeOK, CallsSound, KnownInv
<1>4. /\ todo' \subseteq todo /\ discarded \subseteq discarded'
      /\ \A p \in Programs : Known(p) => Known(p)'
      /\ \A p \in Programs : current'[p] = Cleared => p \in discarded'
  BY <1>2, KnownGrows
<1>5. ASSUME Exec(a)
      PROVE  /\ op[a].prog \notin todo /\ op[a].prog \in Programs
             /\ n.pc = "mark" /\ n.prog = op[a].prog
  <2>1. op[a].pc = "exec"
    BY <1>5 DEF Exec, Commit
  <2>2. op[a].prog \notin todo /\ op[a].prog \in Programs
    BY <1>3, <2>1 DEF KnownBy, Sound, CallPcs, AddPcs
  <2>3. n = [op[a] EXCEPT !.pc = "mark", !.seen = Vacant, !.redis = Vacant]
    BY <1>2, <1>5 DEF Exec, Commit, TypeOK, Acts
  <2> QED
    BY <1>3, <2>2, <2>3 DEF OpType
<1>6. Unused'
  <2> SUFFICES ASSUME NEW p \in todo', NEW i \in Isles PROVE p \notin Members(i)'
    BY DEF Unused
  <2> QED
    BY <1>2, <1>3, <1>4, <1>5, NewMembers DEF Unused
<1>7. Marked'
  <2>1. ASSUME NEW i \in Isles, NEW p \in Members(i)'
        PROVE  Known(p)' \/ MarkedNow(p)'
    <3>1. CASE p \in Members(i)
      <4>1. p \in Programs
        BY <3>1, MemberCell
      <4>2. CASE Known(p)
        BY <1>4, <4>1, <4>2
      <4>3. CASE ~Known(p)
        <5>1. Mark(a) /\ op[a].prog = p
          BY <1>2, <1>3, <3>1, <4>1, <4>3, MarkedMoves DEF Marked
        <5>2. op[a].pc = "mark"
              /\ current' = [current EXCEPT ![p] = IF current[p] = Unset THEN op[a].isle
                                                   ELSE current[p]]
          BY <5>1 DEF Mark, Stamp
        <5>3. op[a].isle # Unset
          BY <1>3, <5>2, IslandsAssumption DEF Sound, AfterPcs, IslandsAssumption
        <5> QED
          BY <4>1, <4>3, <5>2, <5>3 DEF Known, TypeOK
      <4> QED
        BY <4>2, <4>3
    <3>2. CASE p \notin Members(i)
      <4>1. Exec(a) /\ p = op[a].prog
        BY <1>2, <3>2, NewMembers
      <4>2. n.pc = "mark" /\ n.prog = p /\ p \in Programs
        BY <1>5, <4>1
      <4> QED
        BY <1>2, <4>2, MarkedMoves
    <3> QED
      BY <3>1, <3>2
  <2> QED
    BY <1>4, <2>1 DEF Marked
<1>8. ASSUME NEW b \in Actors PROVE KnownBy(op[b])'
  <2>1. KnownBy(n)' /\ n = op'[a]
    BY <1>2, KnownByKept DEF Acts
  <2>2. CASE b = a
    BY <2>1, <2>2
  <2>3. CASE b # a
    <3>1. op'[b].pc = "idle"
      BY <1>2, <2>3 DEF Acts
    <3> QED
      BY <3>1 DEF KnownBy, CallPcs, AddPcs, AfterPcs, EnforcePcs, LeavePcs
  <2> QED
    BY <2>2, <2>3
<1> QED
  BY <1>6, <1>7, <1>8 DEF KnownInv

LEMMA KnownInvariant == Spec => []KnownInv
<1>1. Init => KnownInv
  <2> SUFFICES ASSUME Init PROVE KnownInv
    OBVIOUS
  <2>1. \A a \in Actors : op[a].pc = "idle"
    BY DEF Init, Idle
  <2>2. \A i \in Isles : Members(i) = {}
    BY DEF Init, Members
  <2>3. \A p \in Programs : current[p] # Cleared
    BY IslandsAssumption DEF Init, IslandsAssumption
  <2> QED
    BY <2>1, <2>2, <2>3 DEF KnownInv, Unused, Marked, KnownBy, CallPcs, AddPcs, AfterPcs,
                            EnforcePcs, LeavePcs
<1>2. IndexInv /\ SoloInv /\ KnownInv /\ [Next]_vars => KnownInv'
  <2> SUFFICES ASSUME IndexInv, SoloInv, KnownInv, [Next]_vars, alone' PROVE KnownInv'
    BY DEF KnownInv
  <2>1. CASE Next
    <3>1. alone
      BY <2>1, ProgramTypes DEF IndexInv
    <3> QED
      BY <2>1, <3>1, KnownKept DEF CalmKnown, Calm
  <2>2. CASE UNCHANGED vars
    <3>1. /\ op' = op /\ hash' = hash /\ current' = current /\ discarded' = discarded
          /\ todo' = todo /\ alone' = alone
      BY <2>2 DEF vars, archive, programs, run
    <3>2. \A i : Members(i)' = Members(i)
      BY <3>1 DEF Members
    <3>3. Unused' = Unused
      BY <3>1, <3>2 DEF Unused
    <3>4. Marked' = Marked
      BY <3>1, <3>2 DEF Marked, Known, MarkedNow
    <3>5. \A a \in Actors : KnownBy(op[a])' = KnownBy(op[a])
      BY <3>1, <3>2 DEF KnownBy, Known
    <3> QED
      BY <3>1, <3>3, <3>4, <3>5 DEF KnownInv
  <2> QED
    BY <2>1, <2>2
<1> QED
  BY <1>1, <1>2, IndexInvariant, SoloInvariant, PTL DEF Spec

-----------------------------------------------------------------------------
(* Calls that do not overlap: no program in two islands.                   *)

\* A migration that has added p to i or j still has to take it out of one.
Moving(p, i, j) ==
  \E a \in Actors :
    op[a].pc \in AfterPcs /\ op[a].task = "migrate" /\ op[a].prog = p /\ op[a].isle \in {i, j}
Apart ==
  \A i, j \in Isles : i # j =>
    \A p \in (Members(i) \cap Members(j)) \ discarded : Moving(p, i, j)
ApartInv == alone => Apart

LEMMA ApartKept ==
  ASSUME CalmKnown, Apart, Next
  PROVE  Apart'
<1> USE DEF CalmKnown, Calm, IndexInv
<1>1. PICK a \in Actors : \E n : Acts(a, n)
  BY CalmActs
<1>2. PICK n : Acts(a, n)
  BY <1>1
<1> DEFINE o == op[a]
<1>3. o \in OpType /\ Sound(o) /\ KnownBy(o) /\ HeldBy(o) /\ n = op'[a] /\ n \in OpType
  BY <1>2 DEF TypeOK, CallsSound, KnownInv, SoloInv, Held, Acts
<1>4. discarded \subseteq discarded'
  BY <1>2, KnownGrows
<1>5. \A b \in Actors : b # a => op[b].pc = "idle" /\ op'[b].pc = "idle"
  BY <1>2 DEF Acts
<1>6. "idle" \notin AfterPcs
  BY DEF AfterPcs, EnforcePcs, LeavePcs
<1> SUFFICES ASSUME NEW i \in Isles, NEW j \in Isles, i # j, NEW p \in Members(i)',
                    p \in Members(j)', p \notin discarded'
             PROVE  Moving(p, i, j)'
  BY DEF Apart
<1>7. p \notin discarded
  BY <1>4
<1>8. SUFFICES n.pc \in AfterPcs /\ n.task = "migrate" /\ n.prog = p /\ n.isle \in {i, j}
  BY <1>3 DEF Moving
<1>9. CASE p \in Members(i) /\ p \in Members(j)
  <2>1. Moving(p, i, j)
    BY <1>7, <1>9 DEF Apart
  <2>2. o.pc \in AfterPcs /\ o.task = "migrate" /\ o.prog = p /\ o.isle \in {i, j}
    BY <1>5, <1>6, <2>1 DEF Moving
  <2>3. CASE FlowStays(a, o, n)
    BY <2>2, <2>3 DEF FlowStays, SameWay
  <2>4. CASE FlowLoops(a, o, n)
    <3>1. PICK k \in Isles : k \in {i, j} /\ k = o.isle
      BY <2>2
    <3>2. p \in Members(k) /\ p \in Members(k)' /\ p \in Programs
      BY <1>9, <3>1, MemberCell
    <3>3. o.source \in Isles
      BY <1>3, <1>7, <2>2 DEF KnownBy, CallPcs
    <3>4. Where(o.isle, {o.prog}) # {}
      <4>1. Where(k, {p}) = Homed(k, {p} \cap Members(k))
        BY <3>2, CalmWhere
      <4>2. <<p, CellOf[k][p]>> \in Homed(k, {p} \cap Members(k))
        BY <3>2 DEF Homed
      <4> QED
        BY <2>2, <3>1, <4>1, <4>2
    <3>5. Left(a) \/ RolledBack(a)
      BY <2>2, <2>4, <3>3, <3>4 DEF FlowLoops
    <3>6. PICK l \in Isles : \E ps \in SUBSET Members(l) :
            /\ Unlink(a, l, Homed(l, ps), ps)
            /\ \/ Bulk(a) /\ l = op[a].isle /\ ps = Chosen(op[a])
               \/ Left(a) /\ l = op[a].source /\ ps = {op[a].prog}
               \/ RolledBack(a) /\ l = op[a].isle /\ ps = {op[a].prog}
      BY <3>5, CalmRemoval
    <3>7. /\ Unlink(a, l, Homed(l, {p}), {p}) /\ p \in Members(l)
          /\ \/ Left(a) /\ l = o.source
             \/ RolledBack(a) /\ l = o.isle
      BY <2>2, <3>5, <3>6 DEF Left, RolledBack, Bulk
    <3>8. p \notin Members(l)'
      <4>1. Members(l)' = Members(l) \ {p}
        BY <1>5, <3>7, CalmUnlink
      <4> QED
        BY <4>1
    <3>9. l \notin {i, j}
      BY <3>8
    <3>10. Left(a) /\ l = o.source
      BY <3>1, <3>7, <3>9
    <3>11. PICK q \in {i, j} : q # o.isle
      OBVIOUS
    <3>12. Moving(p, l, q)
      BY <1>7, <1>9, <3>7, <3>9, <3>11 DEF Apart
    <3>13. o.isle \in {l, q}
      BY <1>5, <1>6, <3>12 DEF Moving
    <3> QED
      BY <3>1, <3>9, <3>11, <3>13
  <2>5. CASE FlowEnds(o, n)
    BY <2>2, <2>5 DEF FlowEnds
  <2>6. ~FlowSelects(a, n) /\ ~FlowIngests(a, n) /\ ~FlowMoves(o, n)
    BY <2>2 DEF FlowSelects, FlowIngests, FlowMoves, StartSelect, StartAdd, MayBegin,
                AfterPcs, EnforcePcs, LeavePcs
  <2> QED
    BY <1>2, <2>3, <2>4, <2>5, <2>6, ActsFlow DEF Flow
<1>10. CASE ~(p \in Members(i) /\ p \in Members(j))
  <2>1. PICK k \in {i, j} : p \notin Members(k)
    BY <1>10
  <2>2. Exec(a) /\ k = o.isle /\ p = o.prog
    BY <1>2, <2>1, NewMembers
  <2>3. PICK l \in {i, j} : l # k
    OBVIOUS
  <2>4. p \in Members(l)
    BY <1>2, <2>2, <2>3, NewMembers
  <2>5. o.pc = "exec"
    BY <2>2 DEF Exec, Commit
  <2>6. o.task = "migrate"
    BY <1>3, <2>2, <2>4, <2>5 DEF KnownBy, Sound, AddPcs
  <2>7. n = [o EXCEPT !.pc = "mark", !.seen = Vacant, !.redis = Vacant]
    BY <1>3, <2>2 DEF Exec, Commit, TypeOK
  <2>8. n.pc = "mark" /\ n.task = o.task /\ n.prog = o.prog /\ n.isle = o.isle
    BY <1>3, <2>7 DEF OpType
  <2> QED
    BY <2>1, <2>2, <2>6, <2>8 DEF AfterPcs
<1> QED
  BY <1>9, <1>10

\* Calls that do not overlap leave no program in two islands, unless it has been
\* discarded: a migration that has added a program to an island ends when the
\* program has left its source or been taken back, and one whose source is not
\* known is of a program that a size limit has discarded.
THEOREM OneHome == Spec => []OneIsland
<1>1. Init => ApartInv
  BY DEF Init, ApartInv, Apart, Members
<1>2. IndexInv /\ SoloInv /\ KnownInv /\ ApartInv /\ [Next]_vars => ApartInv'
  <2> SUFFICES ASSUME IndexInv, SoloInv, KnownInv, ApartInv, [Next]_vars, alone' PROVE Apart'
    BY DEF ApartInv
  <2>1. CASE Next
    <3>1. alone
      BY <2>1, ProgramTypes DEF IndexInv
    <3> QED
      BY <2>1, <3>1, ApartKept DEF CalmKnown, Calm, ApartInv
  <2>2. CASE UNCHANGED vars
    <3>1. op' = op /\ hash' = hash /\ discarded' = discarded /\ alone' = alone
      BY <2>2 DEF vars, archive, programs, run
    <3>2. \A i : Members(i)' = Members(i)
      BY <3>1 DEF Members
    <3> QED
      BY <3>1, <3>2 DEF ApartInv, Apart, Moving
  <2> QED
    BY <2>1, <2>2
<1>3. IndexInv /\ ApartInv => OneIsland
  <2> SUFFICES ASSUME ApartInv, alone, AllIdle, NEW i \in Isles, NEW j \in Isles, i # j,
                      NEW p \in Members(i) \cap Members(j)
               PROVE  p \in discarded
    BY DEF OneIsland, AtRest
  <2>1. ~Moving(p, i, j)
    BY DEF AllIdle, Moving, AfterPcs, EnforcePcs, LeavePcs
  <2> QED
    BY <2>1 DEF ApartInv, Apart
<1> QED
  BY <1>1, <1>2, <1>3, IndexInvariant, SoloInvariant, KnownInvariant, PTL DEF Spec

-----------------------------------------------------------------------------
(* Calls that do not overlap: the size limit.                              *)

\* Somebody has yet to enforce the size limit of i.
Over(i) ==
  \E a \in Actors : op[a].pc \in {"mark", "measure", "lookup", "bulk"} /\ op[a].isle = i
SizedBy(o) ==
  o.pc \in {"lookup", "bulk"} => Cardinality(Members(o.isle) \ Chosen(o)) = MaxSize
Sized ==
  /\ \A i \in Isles : Cardinality(Members(i)) <= MaxSize \/ Over(i)
  /\ \A a \in Actors : SizedBy(op[a])
SizeInv == alone => Sized

\* An island has finitely many members, and no more of them than cells in use:
\* the length that Redis returns is not too small.
LEMMA CellCount ==
  ASSUME IndexInv, NEW i \in Isles
  PROVE  /\ IsFiniteSet(Members(i)) /\ Cardinality(Members(i)) \in Nat
         /\ Cardinality({c \in Cells : hash[i][c] # Vacant}) \in Nat
         /\ Cardinality(Members(i)) <= Cardinality({c \in Cells : hash[i][c] # Vacant})
<1> DEFINE used == {c \in Cells : hash[i][c] # Vacant}
           members == Members(i)
           f == [p \in members |-> CellOf[i][p]]
           g == [c \in used |-> hash[i][c]]
<1>1. members \subseteq Programs /\ \A p \in members : hash[i][CellOf[i][p]] = p
  BY MemberCell
<1>2. IsFiniteSet(members)
  BY <1>1, FS_Subset, IslandsAssumption DEF IslandsAssumption
<1>3. \A p \in members : CellOf[i][p] \in used
  BY <1>1, IslandsAssumption DEF IslandsAssumption
<1>4. \A c \in used : hash[i][c] \in members /\ CellOf[i][hash[i][c]] = c
  BY DEF Members, IndexInv, Housed
<1> HIDE DEF used, members
<1>5. f \in Surjection(members, used)
  BY <1>3, <1>4 DEF Surjection
<1>6. g \in Surjection(used, members)
  BY <1>1, <1>3, <1>4 DEF Surjection
<1>7. IsFiniteSet(used)
  BY <1>2, <1>5, FS_Surjection
<1>8. Cardinality(members) <= Cardinality(used)
  BY <1>6, <1>7, FS_Surjection
<1> QED
  BY <1>2, <1>7, <1>8, FS_CardinalityType DEF used, members

\* What a step of the size limit, or the lack of one, means for the members.
LEMMA SizeMeasured ==
  ASSUME Calm, NEW a \in Actors, Measure(a), NEW i \in Isles, i = op[a].isle
  PROVE  \/ op'[a] = EnforceEnded(op[a]) /\ Cardinality(Members(i)) <= MaxSize
         \/ \E d \in SUBSET Members(i) :
              /\ Cardinality(Members(i) \ d) = MaxSize
              /\ \A p \in d, q \in Members(i) \ d : Fitness[p] <= Fitness[q]
              /\ op'[a] = [op[a] EXCEPT !.pc = "lookup",
                                        !.doomed = {<<p, current[p]>> : p \in d}]
<1> USE DEF Calm, IndexInv
<1>1. Elites(i) = Members(i)
  BY CalmMembers
<1>2. /\ IsFiniteSet(Members(i)) /\ Cardinality(Members(i)) \in Nat
      /\ Cardinality({c \in Cells : hash[i][c] # Vacant}) \in Nat
      /\ Cardinality(Members(i)) <= Cardinality({c \in Cells : hash[i][c] # Vacant})
  BY CellCount
<1>3. MaxSize \in Nat
  BY IslandsAssumption DEF IslandsAssumption
<1>4. CASE /\ ~(Cardinality({c \in Cells : hash[i][c] # Vacant}) > MaxSize
                  /\ Cardinality(Elites(i)) > MaxSize)
           /\ op' = [op EXCEPT ![a] = EnforceEnded(op[a])]
  <2>1. op'[a] = EnforceEnded(op[a])
    BY <1>4 DEF TypeOK
  <2> DEFINE used == Cardinality({c \in Cells : hash[i][c] # Vacant})
             members == Cardinality(Members(i))
  <2>2. /\ used \in Nat /\ members \in Nat /\ members <= used
        /\ ~(used > MaxSize /\ members > MaxSize)
    BY <1>1, <1>2, <1>4
  <2> HIDE DEF used, members
  <2>3. members <= MaxSize
    BY <1>3, <2>2
  <2> QED
    BY <2>1, <2>3 DEF members
<1>5. CASE \E d \in Lowest(Elites(i)) :
             op' = [op EXCEPT ![a].pc = "lookup",
                              ![a].doomed = {<<p, current[p]>> : p \in d}]
  <2>1. PICK d \in Lowest(Members(i)) :
             op' = [op EXCEPT ![a].pc = "lookup",
                              ![a].doomed = {<<p, current[p]>> : p \in d}]
    BY <1>1, <1>5
  <2>2. /\ d \in SUBSET Members(i) /\ Cardinality(d) = Cardinality(Members(i)) - MaxSize
        /\ \A p \in d, q \in Members(i) \ d : Fitness[p] <= Fitness[q]
    BY DEF Lowest
  <2>3. Members(i) \cap d = d
    BY <2>2
  <2>4. Cardinality(Members(i) \ d) = Cardinality(Members(i)) - Cardinality(d)
    <3>1. Cardinality(Members(i) \ d) = Cardinality(Members(i)) - Cardinality(Members(i) \cap d)
      <4> DEFINE members == Members(i)
      <4>1. IsFiniteSet(members)
        BY <1>2
      <4> HIDE DEF members
      <4>2. Cardinality(members \ d) = Cardinality(members) - Cardinality(members \cap d)
        BY <4>1, FS_Difference
      <4> QED
        BY <4>2 DEF members
    <3> QED
      BY <2>3, <3>1
  <2>5. Cardinality(Members(i) \ d) = MaxSize
    BY <1>2, <1>3, <2>2, <2>4
  <2>6. op'[a] = [op[a] EXCEPT !.pc = "lookup", !.doomed = {<<p, current[p]>> : p \in d}]
    BY <2>1 DEF TypeOK
  <2> QED
    BY <2>2, <2>5, <2>6
<1>6. \/ /\ Cardinality({c \in Cells : hash[i][c] # Vacant}) > MaxSize
         /\ Cardinality(Elites(i)) > MaxSize
         /\ \E d \in Lowest(Elites(i)) :
              op' = [op EXCEPT ![a].pc = "lookup",
                               ![a].doomed = {<<p, current[p]>> : p \in d}]
      \/ /\ ~(Cardinality({c \in Cells : hash[i][c] # Vacant}) > MaxSize
                /\ Cardinality(Elites(i)) > MaxSize)
         /\ op' = [op EXCEPT ![a] = EnforceEnded(op[a])]
  BY DEF Measure
<1> QED
  BY <1>4, <1>5, <1>6

\* The programs of copies.
LEMMA Firsts ==
  ASSUME NEW d, NEW o, o.doomed = {<<p, current[p]>> : p \in d}
  PROVE  Chosen(o) = d
<1>1. \A p \in d : <<p, current[p]>> \in o.doomed /\ <<p, current[p]>>[1] = p
  OBVIOUS
<1>2. \A m \in o.doomed : m[1] \in d
  OBVIOUS
<1>3. Chosen(o) \subseteq d
  BY <1>2 DEF Chosen
<1>4. d \subseteq Chosen(o)
  BY <1>1 DEF Chosen
<1> QED
  BY <1>3, <1>4

LEMMA SizedKept ==
  ASSUME Calm, Sized, Next
  PROVE  Sized'
<1> USE DEF Calm, IndexInv
<1>1. PICK a \in Actors : \E n : Acts(a, n)
  BY CalmActs
<1>2. PICK n : Acts(a, n)
  BY <1>1
<1> DEFINE o == op[a]
           Pcs == {"mark", "measure", "lookup", "bulk"}
<1>3. o \in OpType /\ Sound(o) /\ HeldBy(o) /\ SizedBy(o) /\ n = op'[a] /\ n \in OpType
  BY <1>2 DEF TypeOK, CallsSound, SoloInv, Held, Acts, Sized
<1>4. \A b \in Actors : b # a => op[b].pc = "idle" /\ op'[b].pc = "idle"
  BY <1>2 DEF Acts
<1>5. \A i : Over(i) <=> o.pc \in Pcs /\ o.isle = i
  BY <1>4 DEF Over
<1>6. \A i : Over(i)' <=> n.pc \in Pcs /\ n.isle = i
  BY <1>3, <1>4 DEF Over
<1>7. \A i \in Isles : IsFiniteSet(Members(i)) /\ Cardinality(Members(i)) \in Nat
  BY CellCount
<1>8. MaxSize \in Nat
  BY IslandsAssumption DEF IslandsAssumption
<1>9. ASSUME NEW i \in Isles PROVE Cardinality(Members(i)') <= MaxSize \/ Over(i)'
  <2>1. CASE Exec(a)
    <3>1. n = [o EXCEPT !.pc = "mark", !.seen = Vacant, !.redis = Vacant] /\ o.pc = "exec"
      BY <1>3, <2>1 DEF Exec, Commit, TypeOK
    <3>2. n.pc = "mark" /\ n.isle = o.isle
      BY <1>3, <3>1 DEF OpType
    <3>3. CASE i = o.isle
      BY <1>6, <3>2, <3>3
    <3>4. CASE i # o.isle
      <4>1. Members(i)' = Members(i)
        BY <1>4, <2>1, <3>4, CalmExec
      <4> QED
        BY <1>5, <3>1, <4>1 DEF Sized
    <3> QED
      BY <3>3, <3>4
  <2>2. CASE Bulk(a) \/ Left(a) \/ RolledBack(a)
    <3>1. PICK j \in Isles : \E ps \in SUBSET Members(j) :
             /\ Unlink(a, j, Homed(j, ps), ps)
             /\ \/ Bulk(a) /\ j = op[a].isle /\ ps = Chosen(op[a])
                \/ Left(a) /\ j = op[a].source /\ ps = {op[a].prog}
                \/ RolledBack(a) /\ j = op[a].isle /\ ps = {op[a].prog}
      BY <2>2, CalmRemoval
    <3>2. PICK ps \in SUBSET Members(j) :
             /\ Unlink(a, j, Homed(j, ps), ps)
             /\ \/ Bulk(a) /\ j = op[a].isle /\ ps = Chosen(op[a])
                \/ Left(a) /\ j = op[a].source /\ ps = {op[a].prog}
                \/ RolledBack(a) /\ j = op[a].isle /\ ps = {op[a].prog}
      BY <3>1
    <3>3. /\ Members(j)' = Members(j) \ ps
          /\ \A k \in Isles : k # j => Members(k)' = Members(k)
      BY <1>4, <3>2, CalmUnlink
    <3>4. CASE Bulk(a) /\ i = o.isle
      <4>1. o.pc = "bulk" /\ i = j /\ ps = Chosen(o)
        BY <3>2, <3>4 DEF Bulk, Left, RolledBack
      <4>2. Cardinality(Members(i) \ Chosen(o)) = MaxSize
        BY <1>3, <3>4, <4>1 DEF SizedBy
      <4> QED
        BY <1>8, <3>3, <4>1, <4>2
    <3>5. CASE ~(Bulk(a) /\ i = o.isle)
      <4>1. ~Over(i)
        BY <1>5, <2>2, <3>5 DEF Bulk, Left, RolledBack
      <4>2. Cardinality(Members(i)) <= MaxSize
        BY <4>1 DEF Sized
      <4>3. Members(i)' \in SUBSET Members(i)
        BY <3>3
      <4>4. Cardinality(Members(i)') <= Cardinality(Members(i)) /\ IsFiniteSet(Members(i)')
        BY <1>7, <4>3, FS_Subset
      <4>5. Cardinality(Members(i)') \in Nat
        BY <4>4, FS_CardinalityType
      <4> QED
        BY <1>7, <1>8, <4>2, <4>4, <4>5
    <3> QED
      BY <3>4, <3>5
  <2>3. CASE UNCHANGED archive /\ ~(Exec(a) \/ Bulk(a))
    <3>1. Members(i)' = Members(i)
      BY <2>3 DEF archive, Members
    <3>2. CASE ~Over(i)
      BY <3>1, <3>2 DEF Sized
    <3>3. CASE Over(i)
      <4>1. o.pc \in Pcs /\ o.isle = i
        BY <1>5, <3>3
      <4>2. Mark(a) \/ Measure(a) \/ Lookup(a)
        BY <1>2, <2>3, <4>1 DEF Acts, StartAdd, Reject, Refuse, StartSelect, Select,
                                MayBegin, Migrate, NextMigrant, Leave, Left, Rollback,
                                RolledBack, MigrantsDone, Limits, Add, Watch, ExecAborted,
                                Enforce, Discard, Dispose
      <4>3. CASE Mark(a)
        <5>1. n = [o EXCEPT !.pc = "measure"]
          BY <1>3, <4>3 DEF Mark, Goto, TypeOK
        <5>2. n.pc = "measure" /\ n.isle = i
          BY <1>3, <4>1, <5>1 DEF OpType
        <5> QED
          BY <1>6, <5>2
      <4>4. CASE Measure(a)
        <5>1. CASE Cardinality(Members(i)) <= MaxSize
          BY <3>1, <5>1
        <5>2. CASE ~(Cardinality(Members(i)) <= MaxSize)
          <6>1. PICK d : n = [o EXCEPT !.pc = "lookup", !.doomed = {<<p, current[p]>> : p \in d}]
            BY <1>3, <4>1, <4>4, <5>2, SizeMeasured
          <6>2. n.pc = "lookup" /\ n.isle = i
            BY <1>3, <4>1, <6>1 DEF OpType
          <6> QED
            BY <1>6, <6>2
        <5> QED
          BY <5>1, <5>2
      <4>5. CASE Lookup(a)
        <5>1. \E f : n = [o EXCEPT !.pc = "bulk", !.found = f]
          BY <1>3, <4>5 DEF Lookup, TypeOK
        <5>2. n.pc = "bulk" /\ n.isle = i
          BY <1>3, <4>1, <5>1 DEF OpType
        <5> QED
          BY <1>6, <5>2
      <4> QED
        BY <4>2, <4>3, <4>4, <4>5
    <3> QED
      BY <3>2, <3>3
  <2> QED
    BY <1>2, <2>1, <2>2, <2>3, CalmArchive DEF Acts
<1>10. SizedBy(n)'
  <2> SUFFICES ASSUME n.pc \in {"lookup", "bulk"}
               PROVE  Cardinality(Members(n.isle)' \ Chosen(n)) = MaxSize
    BY DEF SizedBy, Chosen
  <2>1. CASE Measure(a) /\ n.pc = "lookup" /\ SameWay(o, n)
    <3>1. o.isle \in Isles
      BY <1>3, <2>1 DEF Measure, Sound, AfterPcs, EnforcePcs
    <3>2. n # EnforceEnded(o)
      BY <1>3, <2>1, EndsEnforce DEF Measure, Sound, EnforcePcs
    <3>3. PICK d \in SUBSET Members(o.isle) :
              /\ Cardinality(Members(o.isle) \ d) = MaxSize
              /\ n = [o EXCEPT !.pc = "lookup", !.doomed = {<<p, current[p]>> : p \in d}]
      BY <1>3, <2>1, <3>1, <3>2, SizeMeasured
    <3>4. n.doomed = {<<p, current[p]>> : p \in d}
      BY <1>3, <3>3 DEF OpType
    <3>5. Chosen(n) = d
      BY <3>4, Firsts
    <3>6. Members(n.isle)' = Members(o.isle)
      BY <2>1 DEF SameWay, Measure, archive, Members
    <3> QED
      BY <3>3, <3>5, <3>6
  <2>2. CASE Lookup(a) /\ n.pc = "bulk" /\ n.doomed = o.doomed /\ SameWay(o, n)
    <3>1. o.pc = "lookup" /\ Chosen(n) = Chosen(o) /\ Members(n.isle)' = Members(o.isle)
      BY <2>2 DEF SameWay, Lookup, archive, Members, Chosen
    <3> QED
      BY <1>3, <3>1 DEF SizedBy
  <2> QED
    BY <1>2, <2>1, <2>2, EnforceWays
<1>11. ASSUME NEW b \in Actors PROVE SizedBy(op[b])'
  <2>1. CASE b = a
    BY <1>3, <1>10, <2>1
  <2>2. CASE b # a
    BY <1>4, <2>2 DEF SizedBy
  <2> QED
    BY <2>1, <2>2
<1> QED
  BY <1>9, <1>11 DEF Sized

LEMMA SizeInvariant == Spec => []SizeInv
<1>1. Init => SizeInv
  <2> SUFFICES ASSUME Init PROVE SizeInv
    OBVIOUS
  <2>1. \A a \in Actors : op[a].pc = "idle"
    BY DEF Init, Idle
  <2>2. \A i \in Isles : Members(i) = {}
    BY DEF Init, Members
  <2>3. Cardinality({}) <= MaxSize
    BY FS_EmptySet, IslandsAssumption DEF IslandsAssumption
  <2> QED
    BY <2>1, <2>2, <2>3 DEF SizeInv, Sized, SizedBy
<1>2. IndexInv /\ SoloInv /\ SizeInv /\ [Next]_vars => SizeInv'
  <2> SUFFICES ASSUME IndexInv, SoloInv, SizeInv, [Next]_vars, alone' PROVE Sized'
    BY DEF SizeInv
  <2>1. CASE Next
    <3>1. alone
      BY <2>1, ProgramTypes DEF IndexInv
    <3> QED
      BY <2>1, <3>1, SizedKept DEF Calm, SizeInv
  <2>2. CASE UNCHANGED vars
    <3>1. op' = op /\ hash' = hash /\ alone' = alone
      BY <2>2 DEF vars, archive, programs, run
    <3>2. \A i : Members(i)' = Members(i)
      BY <3>1 DEF Members
    <3> QED
      BY <3>1, <3>2 DEF SizeInv, Sized, SizedBy, Over, Chosen
  <2> QED
    BY <2>1, <2>2
<1> QED
  BY <1>1, <1>2, IndexInvariant, SoloInvariant, PTL DEF Spec

\* Calls that do not overlap leave every island within its size limit: the
\* number of cells that Redis counts is the number of elites, and what is chosen
\* beyond the limit is what is removed.
THEOREM SizeTrue == Spec => []SizeKept
<1>1. SizeInv => SizeKept
  BY DEF SizeInv, Sized, SizeKept, AtRest, AllIdle, Over
<1> QED
  BY <1>1, SizeInvariant, PTL

-----------------------------------------------------------------------------
(* Calls that do not overlap: the best program.                            *)

\* The programs that an island has accepted once; those at the top of an island,
\* and those that a migration may still take back.
Accepted(p) == Known(p) \/ MarkedNow(p)
Tops(i, q) ==
  q \in Members(i) /\ \A p \in Programs : Accepted(p) => Fitness[q] >= Fitness[p]
Visits(i, q) ==
  \E a \in Actors :
    op[a].pc \in AfterPcs /\ op[a].task = "migrate" /\ op[a].isle = i /\ op[a].prog = q

\* What a call knows of the best: those that the size limit removes are no better
\* than those it leaves, and a migrant is in its new island, or one that is as
\* good, before it leaves its source.
BestBy(o) ==
  /\ o.pc \in {"lookup", "bulk"} =>
       \A p \in Chosen(o), q \in Members(o.isle) \ Chosen(o) : Fitness[p] <= Fitness[q]
  /\ o.pc \in {"mark", "measure", "lookup", "bulk"} /\ o.task = "migrate" =>
       o.prog \in Members(o.isle)
  /\ o.pc \in {"discard", "leave", "left"} /\ o.task = "migrate" =>
       \E q \in Members(o.isle) : Fitness[q] >= Fitness[o.prog]

Topped ==
  (\E p \in Programs : Accepted(p)) =>
    \E i \in Isles : \E q \in Programs : Tops(i, q) /\ ~Visits(i, q)
Best == Topped /\ \A a \in Actors : BestBy(op[a])
BestInv == alone => Best

CalmSized == CalmKnown /\ Sized

\* The steps of a migration between its EXEC and the end of its removal.
LEMMA AfterWays ==
  ASSUME Calm, NEW a \in Actors, NEW n, Acts(a, n), n.pc \in {"measure", "leave", "left"},
         n.task = "migrate"
  PROVE  /\ SameWay(op[a], n) /\ UNCHANGED archive
         /\ n.pc = "measure" => op[a].pc = "mark"
         /\ n.pc = "leave" => op[a].pc \in {"measure", "discard"}
         /\ n.pc = "left" => op[a].pc = "leave"
<1> USE DEF Calm, IndexInv
<1> DEFINE o == op[a]
<1>1. o \in OpType /\ Sound(o) /\ n = op'[a] /\ n \in OpType
  BY DEF TypeOK, CallsSound, Acts
<1>2. FlowStays(a, o, n)
  <2>1. ~FlowEnds(o, n) /\ ~FlowSelects(a, n) /\ ~FlowIngests(a, n) /\ ~FlowMoves(o, n)
        /\ ~FlowLoops(a, o, n)
    BY DEF FlowEnds, FlowSelects, FlowIngests, FlowMoves, FlowLoops
  <2> QED
    BY <2>1, ActsFlow DEF Flow
<1>3. SameWay(o, n) /\ o.pc \in CallPcs /\ (o.pc \in AfterPcs \/ Exec(a))
  BY <1>2 DEF FlowStays, AfterPcs, EnforcePcs, LeavePcs
<1>4. n.pc # "mark"
  OBVIOUS
<1>5. ~Exec(a)
  <2>1. Exec(a) => n = [o EXCEPT !.pc = "mark", !.seen = Vacant, !.redis = Vacant]
    BY <1>1 DEF Exec, Commit, TypeOK
  <2> QED
    BY <1>1, <1>4, <2>1 DEF OpType
<1>6. \/ Mark(a) \/ Leave(a) \/ Left(a) \/ Rollback(a) \/ RolledBack(a)
      \/ Measure(a) \/ Lookup(a) \/ Bulk(a) \/ Discard(a)
  BY <1>3, <1>5 DEF Acts, StartAdd, Reject, Refuse, StartSelect, Select, MayBegin, Migrate,
                    NextMigrant, MigrantsDone, Limits, Add, Watch, Exec, Commit, ExecAborted,
                    Enforce, AfterPcs, EnforcePcs, LeavePcs
<1>7. CASE Mark(a)
  <2>1. o.pc = "mark" /\ n = [o EXCEPT !.pc = "measure"] /\ UNCHANGED archive
    BY <1>1, <1>7 DEF Mark, Stamp, Goto, TypeOK
  <2>2. n.pc = "measure"
    BY <1>1, <2>1 DEF OpType
  <2> QED
    BY <1>3, <2>1, <2>2
<1>8. CASE Leave(a)
  <2>1. /\ o.pc = "leave" /\ UNCHANGED archive
        /\ n = [o EXCEPT !.pc = "rollback"] \/ \E f : n = [o EXCEPT !.pc = "left", !.found = f]
    BY <1>1, <1>8 DEF Leave, TypeOK
  <2>2. n.pc \in {"rollback", "left"}
    BY <1>1, <2>1 DEF OpType
  <2> QED
    BY <1>3, <2>1, <2>2
<1>9. CASE Left(a) \/ RolledBack(a) \/ Rollback(a)
  <2>1. n = NextOf(o) \/ \E f : n = [o EXCEPT !.pc = "rolledback", !.found = f]
    BY <1>1, <1>9 DEF Left, RolledBack, Rollback, TypeOK
  <2>2. n.pc \in {"next", "rolledback"}
    BY <1>1, <2>1, NextSound DEF OpType
  <2> QED
    BY <2>2
<1>10. CASE Lookup(a) \/ Bulk(a)
  <2>1. \/ \E f : n = [o EXCEPT !.pc = "bulk", !.found = f]
        \/ n = [o EXCEPT !.pc = "discard", !.found = {}]
    BY <1>1, <1>10 DEF Lookup, Bulk, TypeOK
  <2>2. n.pc \in {"bulk", "discard"}
    BY <1>1, <2>1 DEF OpType
  <2> QED
    BY <2>2
<1>11. CASE Measure(a) \/ Discard(a)
  <2>1. o.pc \in {"measure", "discard"} /\ UNCHANGED archive /\ o.task # "none"
    BY <1>1, <1>11 DEF Measure, Discard, Sound, EnforcePcs
  <2>2. n = EnforceEnded(o) \/ \E ms : n = [o EXCEPT !.pc = "lookup", !.doomed = ms]
    BY <1>1, <1>11 DEF Measure, Discard, TypeOK
  <2>3. n.pc \in {"idle", "reject", "leave", "next", "limits", "lookup"}
    BY <1>1, <2>1, <2>2, EndsEnforce DEF OpType
  <2> QED
    BY <1>3, <2>1, <2>3
<1> QED
  BY <1>6, <1>7, <1>8, <1>9, <1>10, <1>11

\* What a step accepts, and what it makes a visitor, is what EXEC has added.
LEMMA AcceptedMoves ==
  ASSUME CalmKnown, NEW a \in Actors, NEW n, Acts(a, n), NEW p \in Programs
  PROVE  Accepted(p)' => Accepted(p) \/ (Exec(a) /\ p = op[a].prog /\ op[a].task # "migrate")
<1> SUFFICES ASSUME Accepted(p)', ~Accepted(p)
             PROVE  Exec(a) /\ p = op[a].prog /\ op[a].task # "migrate"
  OBVIOUS
<1>1. ~Known(p)' /\ ~Known(p)
  BY KnownGrows DEF Accepted
<1>2. n.pc = "mark" /\ n.prog = p /\ Exec(a)
  BY <1>1, MarkedMoves DEF Accepted
<1>3. op[a] \in OpType /\ n = [op[a] EXCEPT !.pc = "mark", !.seen = Vacant, !.redis = Vacant]
      /\ op[a].pc = "exec" /\ KnownBy(op[a])
  BY <1>2 DEF Exec, Commit, CalmKnown, Calm, IndexInv, TypeOK, Acts, KnownInv
<1>4. op[a].prog = p
  BY <1>2, <1>3 DEF OpType
<1>5. op[a].task # "migrate"
  BY <1>1, <1>3, <1>4 DEF KnownBy, CallPcs, AddPcs
<1> QED
  BY <1>2, <1>4, <1>5

LEMMA VisitsMoves ==
  ASSUME Calm, NEW a \in Actors, NEW n, Acts(a, n), NEW i \in Isles, NEW q \in Programs,
         Visits(i, q)'
  PROVE  /\ n.pc \in AfterPcs
         /\ \/ Visits(i, q) /\ op[a].isle = i /\ op[a].prog = q
            \/ Exec(a) /\ i = op[a].isle /\ q = op[a].prog /\ op[a].task = "migrate"
<1> DEFINE o == op[a]
<1>1. n = op'[a] /\ \A b \in Actors : b # a => op'[b].pc = "idle"
  BY DEF Acts
<1>2. "idle" \notin AfterPcs
  BY DEF AfterPcs, EnforcePcs, LeavePcs
<1>3. n.pc \in AfterPcs /\ n.task = "migrate" /\ n.isle = i /\ n.prog = q
  BY <1>1, <1>2 DEF Visits
<1>4. FlowStays(a, o, n)
  <2>1. ~FlowEnds(o, n) /\ ~FlowSelects(a, n) /\ ~FlowIngests(a, n) /\ ~FlowMoves(o, n)
        /\ ~FlowLoops(a, o, n)
    BY <1>3 DEF FlowEnds, FlowSelects, FlowIngests, FlowMoves, FlowLoops, AfterPcs,
                EnforcePcs, LeavePcs
  <2> QED
    BY <2>1, ActsFlow DEF Flow
<1> QED
  BY <1>3, <1>4 DEF FlowStays, SameWay, Visits

\* A size limit leaves somebody, and more than one if it is above one.
LEMMA SomeLeft ==
  ASSUME CalmSized, NEW a \in Actors, op[a].pc \in {"lookup", "bulk"},
         NEW rest, rest = Members(op[a].isle) \ Chosen(op[a])
  PROVE  rest # {} /\ (MaxSize > 1 => \A p : \E q \in rest : q # p)
<1>1. Cardinality(rest) = MaxSize /\ MaxSize \in Nat \ {0}
  BY IslandsAssumption DEF CalmSized, Sized, SizedBy, IslandsAssumption
<1>2. rest # {}
  BY <1>1, FS_EmptySet
<1>3. ASSUME MaxSize > 1, NEW p, ~\E q \in rest : q # p PROVE FALSE
  <2>1. rest = {p}
    BY <1>2, <1>3
  <2>2. Cardinality({p}) = 1
    BY FS_Singleton
  <2> QED
    BY <1>1, <1>3, <2>1, <2>2
<1> QED
  BY <1>2, <1>3

\* A call goes on to know the best.
LEMMA BestByKept ==
  ASSUME CalmSized, NEW a \in Actors, NEW n, Acts(a, n), BestBy(op[a])
  PROVE  BestBy(n)'
<1> USE DEF CalmSized, CalmKnown, Calm, IndexInv
<1> DEFINE o == op[a]
<1>1. o \in OpType /\ Sound(o) /\ HeldBy(o) /\ n = op'[a] /\ n \in OpType
  BY DEF TypeOK, CallsSound, SoloInv, Held, Acts
<1>2. \A b \in Actors : b # a => op[b].pc = "idle"
  BY DEF Acts
<1>3. ASSUME UNCHANGED archive PROVE \A i : Members(i)' = Members(i)
  BY <1>3 DEF archive, Members
<1>4. ASSUME n.pc \in {"lookup", "bulk"}
      PROVE  \A p \in Chosen(n), q \in Members(n.isle)' \ Chosen(n) : Fitness[p] <= Fitness[q]
  <2>1. CASE Measure(a) /\ n.pc = "lookup" /\ SameWay(o, n)
    <3>1. o.isle \in Isles /\ n # EnforceEnded(o)
      BY <1>1, <2>1, EndsEnforce DEF Measure, Sound, AfterPcs, EnforcePcs
    <3>2. PICK d \in SUBSET Members(o.isle) :
              /\ \A p \in d, q \in Members(o.isle) \ d : Fitness[p] <= Fitness[q]
              /\ n = [o EXCEPT !.pc = "lookup", !.doomed = {<<p, current[p]>> : p \in d}]
      BY <1>1, <2>1, <3>1, SizeMeasured
    <3>3. n.doomed = {<<p, current[p]>> : p \in d}
      BY <1>1, <3>2 DEF OpType
    <3>4. Chosen(n) = d
      BY <3>3, Firsts
    <3>5. Members(n.isle)' = Members(o.isle)
      BY <1>3, <2>1 DEF SameWay, Measure
    <3> QED
      BY <3>2, <3>4, <3>5
  <2>2. CASE Lookup(a) /\ n.doomed = o.doomed /\ SameWay(o, n)
    <3>1. o.pc = "lookup" /\ Chosen(n) = Chosen(o) /\ Members(n.isle)' = Members(o.isle)
      BY <1>3, <2>2 DEF SameWay, Lookup, Chosen
    <3> QED
      BY <3>1 DEF BestBy
  <2> QED
    BY <1>4, <2>1, <2>2, EnforceWays
<1>5. ASSUME n.pc \in {"mark", "measure", "lookup", "bulk"}, n.task = "migrate"
      PROVE  n.prog \in Members(n.isle)'
  <2>1. CASE n.pc = "mark"
    <3>1. PICK p : p = o.prog
      OBVIOUS
    <3>2. Exec(a)
      BY <2>1, ExecMarks
    <3>3. n = [o EXCEPT !.pc = "mark", !.seen = Vacant, !.redis = Vacant]
      BY <1>1, <3>2 DEF Exec, Commit, TypeOK
    <3>4. n.prog = o.prog /\ n.isle = o.isle
      BY <1>1, <3>3 DEF OpType
    <3>5. PICK i, r : i = o.isle /\ r = o.redis
      OBVIOUS
    <3>6. Members(i)' = (Members(i) \ {r}) \cup {p}
      BY <1>2, <3>1, <3>2, <3>5, CalmExec
    <3> QED
      BY <3>1, <3>4, <3>5, <3>6
  <2>2. CASE n.pc = "measure"
    <3>1. SameWay(o, n) /\ UNCHANGED archive /\ o.pc = "mark"
      BY <1>5, <2>2, AfterWays
    <3> QED
      BY <1>3, <1>5, <3>1 DEF BestBy, SameWay
  <2>3. CASE n.pc \in {"lookup", "bulk"}
    <3>1. SameWay(o, n) /\ UNCHANGED archive /\ o.pc \in {"measure", "lookup"}
      BY <2>3, EnforceWays DEF Measure, Lookup
    <3> QED
      BY <1>3, <1>5, <3>1 DEF BestBy, SameWay
  <2> QED
    BY <1>5, <2>1, <2>2, <2>3
<1>6. ASSUME n.pc \in {"discard", "leave", "left"}, n.task = "migrate"
      PROVE  \E q \in Members(n.isle)' : Fitness[q] >= Fitness[n.prog]
  <2>1. CASE n.pc = "discard"
    <3>1. Bulk(a) /\ SameWay(o, n) /\ o.pc = "bulk"
      BY <2>1, EnforceWays DEF Bulk
    <3>2. o.prog \in Members(o.isle) /\ o.isle \in Isles
      BY <1>1, <1>6, <3>1 DEF BestBy, SameWay, Sound, AfterPcs, EnforcePcs
    <3>3. PICK i \in Isles : i = o.isle
      BY <3>2
    <3>4. Members(i)' = Members(i) \ Chosen(o)
      <4>1. PICK j \in Isles : \E ps \in SUBSET Members(j) :
               Unlink(a, j, Homed(j, ps), ps) /\ j = op[a].isle /\ ps = Chosen(op[a])
        BY <3>1, CalmRemoval DEF Bulk, Left, RolledBack
      <4>2. PICK ps \in SUBSET Members(j) :
               Unlink(a, j, Homed(j, ps), ps) /\ j = op[a].isle /\ ps = Chosen(op[a])
        BY <4>1
      <4>3. Members(j)' = Members(j) \ ps
        BY <1>2, <4>2, CalmUnlink
      <4> QED
        BY <3>3, <4>2, <4>3
    <3>5. \A p \in Members(i) : p \in Programs /\ Fitness[p] \in Nat
      BY MemberCell, IslandsAssumption DEF IslandsAssumption
    <3>6. PICK q \in Members(i) \ Chosen(o) : TRUE
      BY <3>1, <3>3, SomeLeft
    <3>7. CASE o.prog \in Chosen(o)
      <4>1. Fitness[o.prog] <= Fitness[q]
        BY <3>1, <3>3, <3>7 DEF BestBy
      <4> QED
        BY <3>1, <3>2, <3>3, <3>4, <3>5, <4>1 DEF SameWay
    <3>8. CASE o.prog \notin Chosen(o)
      BY <3>1, <3>2, <3>3, <3>4, <3>5, <3>8 DEF SameWay
    <3> QED
      BY <3>7, <3>8
  <2>2. CASE n.pc \in {"leave", "left"}
    <3>1. SameWay(o, n) /\ UNCHANGED archive /\ o.pc \in {"measure", "discard", "leave"}
      BY <1>6, <2>2, AfterWays
    <3>2. CASE o.pc = "measure"
      <4>1. o.prog \in Members(o.isle) /\ o.prog \in Programs
        BY <1>1, <1>6, <3>1, <3>2 DEF BestBy, SameWay, Sound, AfterPcs, EnforcePcs
      <4>2. Fitness[o.prog] \in Nat
        BY <4>1, IslandsAssumption DEF IslandsAssumption
      <4> QED
        BY <1>3, <3>1, <4>1, <4>2 DEF SameWay
    <3>3. CASE o.pc \in {"discard", "leave"}
      BY <1>3, <1>6, <3>1, <3>3 DEF BestBy, SameWay
    <3> QED
      BY <3>1, <3>2, <3>3
  <2> QED
    BY <1>6, <2>1, <2>2
<1>7. Chosen(n)' = Chosen(n)
  BY DEF Chosen
<1> QED
  BY <1>4, <1>5, <1>6, <1>7 DEF BestBy

\* Some island's top that no migration may take back stays, or another one takes
\* its place: only a better program replaces it, a size limit leaves one as good
\* that is not the migrant itself, and so does the migration that moves it.
LEMMA ToppedKept ==
  ASSUME CalmSized, Best, MaxSize > 1 \/ NoTies, NEW a \in Actors, NEW n, Acts(a, n)
  PROVE  Topped'
<1> USE DEF CalmSized, CalmKnown, Calm, IndexInv
<1> DEFINE o == op[a]
<1>1. /\ o \in OpType /\ Sound(o) /\ HeldBy(o) /\ KnownBy(o) /\ BestBy(o)
      /\ n = op'[a] /\ n \in OpType
  BY DEF TypeOK, CallsSound, SoloInv, Held, KnownInv, Best, Acts
<1>2. \A b \in Actors : b # a => op[b].pc = "idle" /\ op'[b] = op[b]
  BY DEF Acts
<1>3. \A p \in Programs : Fitness[p] \in Nat /\ p # Vacant
  BY IslandsAssumption DEF IslandsAssumption
<1>4. \A i \in Isles : \A q \in Members(i) : q \in Programs /\ Accepted(q)
  BY MemberCell DEF KnownInv, Marked, Accepted
<1> SUFFICES ASSUME \E p \in Programs : Accepted(p)'
             PROVE  \E i \in Isles : \E q \in Programs : Tops(i, q)' /\ ~Visits(i, q)'
  BY DEF Topped
<1>5. ASSUME Exec(a)
      PROVE  \E i \in Isles : \E q \in Programs : Tops(i, q)' /\ ~Visits(i, q)'
  <2>1. o.pc = "exec"
    BY <1>5 DEF Exec, Commit
  <2>2. PICK j \in Isles, p \in Programs : j = o.isle /\ p = o.prog
    BY <1>1, <2>1 DEF Sound, AddPcs
  <2>3. PICK r : r = o.redis
    OBVIOUS
  <2>4. /\ Members(j)' = (Members(j) \ {r}) \cup {p}
        /\ \A k \in Isles : k # j => Members(k)' = Members(k)
        /\ r # Vacant => r \in Members(j)
    BY <1>2, <1>5, <2>2, <2>3, CalmExec
  <2>5. p \notin Members(j) /\ Better(p, r)
    BY <1>1, <2>1, <2>2, <2>3 DEF HeldBy, AddPcs, Sound
  <2>6. o.task = "migrate" => Accepted(p)
    BY <1>1, <2>1, <2>2 DEF KnownBy, CallPcs, AddPcs, Accepted
  <2>7. \A q \in Programs : Accepted(q)' => Accepted(q) \/ q = p
    BY <2>2, AcceptedMoves
  <2>8. \A i \in Isles, q \in Programs : Visits(i, q)' => i = j /\ q = p /\ o.task = "migrate"
    <3> SUFFICES ASSUME NEW i \in Isles, NEW q \in Programs, Visits(i, q)'
                 PROVE  i = j /\ q = p /\ o.task = "migrate"
      OBVIOUS
    <3>1. ~Visits(i, q)
      BY <1>2, <2>1 DEF Visits, AfterPcs, EnforcePcs, LeavePcs
    <3> QED
      BY <2>2, <3>1, VisitsMoves
  <2>9. CASE \E i \in Isles : \E q \in Programs :
               Tops(i, q) /\ Fitness[q] >= Fitness[p]
    <3>1. PICK i \in Isles, q \in Programs : Tops(i, q) /\ Fitness[q] >= Fitness[p]
      BY <2>9
    <3>2. q \in Members(i) /\ \A x \in Programs : Accepted(x) => Fitness[q] >= Fitness[x]
      BY <3>1 DEF Tops
    <3>3. ~(i = j /\ q = p)
      BY <2>5, <3>2
    <3>4. ~(i = j /\ q = r)
      <4>1. SUFFICES ASSUME q = r PROVE FALSE
        OBVIOUS
      <4>2. Fitness[p] > Fitness[q]
        BY <1>3, <2>5, <4>1 DEF Better
      <4> QED
        BY <1>3, <3>1, <4>2
    <3>5. q \in Members(i)'
      BY <2>4, <3>2, <3>4
    <3>6. \A x \in Programs : Accepted(x)' => Fitness[q] >= Fitness[x]
      BY <2>7, <3>1, <3>2
    <3>7. Tops(i, q)'
      BY <3>5, <3>6 DEF Tops
    <3> QED
      BY <2>8, <3>3, <3>7
  <2>10. CASE ~\E i \in Isles : \E q \in Programs :
               Tops(i, q) /\ Fitness[q] >= Fitness[p]
    <3>1. \A x \in Programs : Accepted(x) => Fitness[p] > Fitness[x]
      <4> SUFFICES ASSUME NEW x \in Programs, Accepted(x) PROVE Fitness[p] > Fitness[x]
        OBVIOUS
      <4>1. PICK i \in Isles, q \in Programs : Tops(i, q)
        BY DEF Best, Topped
      <4>2. Fitness[q] >= Fitness[x]
        BY <4>1 DEF Tops
      <4>3. ~(Fitness[q] >= Fitness[p])
        BY <2>10, <4>1
      <4> QED
        BY <1>3, <4>2, <4>3
    <3>2. o.task # "migrate"
      BY <1>3, <2>6, <3>1
    <3>3. p \in Members(j)'
      BY <2>4
    <3>4. \A x \in Programs : Accepted(x)' => Fitness[p] >= Fitness[x]
      BY <1>3, <2>7, <3>1
    <3>5. Tops(j, p)'
      BY <3>3, <3>4 DEF Tops
    <3> QED
      BY <2>8, <3>2, <3>5
  <2> QED
    BY <2>9, <2>10
<1>6. CASE ~Exec(a)
  <2>1. \A p \in Programs : Accepted(p)' => Accepted(p)
    BY <1>6, AcceptedMoves
  <2>2. \A i \in Isles, q \in Programs : Visits(i, q)' => Visits(i, q) /\ n.pc \in AfterPcs
    BY <1>6, VisitsMoves
  <2>3. PICK i \in Isles, q \in Programs : Tops(i, q) /\ ~Visits(i, q)
    BY <2>1 DEF Best, Topped
  <2>4. q \in Members(i) /\ \A x \in Programs : Accepted(x) => Fitness[q] >= Fitness[x]
    BY <2>3 DEF Tops
  <2>5. ASSUME q \in Members(i)'
        PROVE  \E k \in Isles : \E x \in Programs : Tops(k, x)' /\ ~Visits(k, x)'
    <3>1. Tops(i, q)'
      BY <2>1, <2>4, <2>5 DEF Tops
    <3> QED
      BY <2>2, <2>3, <3>1
  <2>6. CASE UNCHANGED archive
    BY <2>4, <2>5, <2>6 DEF archive, Members
  <2>7. CASE Bulk(a) \/ Left(a) \/ RolledBack(a)
    <3>1. PICK j \in Isles : \E ps \in SUBSET Members(j) :
             /\ Unlink(a, j, Homed(j, ps), ps)
             /\ \/ Bulk(a) /\ j = op[a].isle /\ ps = Chosen(op[a])
                \/ Left(a) /\ j = op[a].source /\ ps = {op[a].prog}
                \/ RolledBack(a) /\ j = op[a].isle /\ ps = {op[a].prog}
      BY <2>7, CalmRemoval
    <3>2. PICK ps \in SUBSET Members(j) :
             /\ Unlink(a, j, Homed(j, ps), ps)
             /\ \/ Bulk(a) /\ j = op[a].isle /\ ps = Chosen(op[a])
                \/ Left(a) /\ j = op[a].source /\ ps = {op[a].prog}
                \/ RolledBack(a) /\ j = op[a].isle /\ ps = {op[a].prog}
      BY <3>1
    <3>3. /\ Members(j)' = Members(j) \ ps
          /\ \A k \in Isles : k # j => Members(k)' = Members(k)
      BY <1>2, <3>2, CalmUnlink
    <3>4. CASE ~(i = j /\ q \in ps)
      BY <2>4, <2>5, <3>3, <3>4
    <3>5. CASE i = j /\ q \in ps /\ Bulk(a) /\ j = o.isle /\ ps = Chosen(o)
      <4>1. o.pc = "bulk"
        BY <3>5 DEF Bulk
      <4>2. PICK rest : rest = Members(o.isle) \ Chosen(o)
        OBVIOUS
      <4>3. \A x \in rest : /\ x \in Members(j)' /\ x \in Programs /\ x # q
                            /\ Fitness[q] <= Fitness[x] /\ Fitness[q] >= Fitness[x]
        BY <1>1, <1>4, <2>4, <3>3, <3>5, <4>1, <4>2 DEF BestBy
      <4>4. ~NoTies
        <5>1. PICK x \in rest : TRUE
          BY <4>1, <4>2, SomeLeft
        <5>2. Fitness[q] = Fitness[x]
          BY <1>3, <4>3
        <5> QED
          BY <4>3, <5>2 DEF NoTies
      <4>5. PICK x \in rest : x # o.prog
        BY <4>1, <4>2, <4>4, SomeLeft
      <4>6. ~Visits(j, x)
        BY <1>2, <4>5 DEF Visits, AfterPcs, EnforcePcs, LeavePcs
      <4>7. Tops(j, x)'
        <5>1. x \in Members(j)' /\ Fitness[q] <= Fitness[x] /\ x \in Programs
          BY <4>3
        <5>2. \A y \in Programs : Accepted(y)' => Fitness[q] >= Fitness[y]
          BY <2>1, <2>4
        <5>3. \A y \in Programs : Accepted(y)' => Fitness[x] >= Fitness[y]
          BY <1>3, <5>1, <5>2
        <5> QED
          BY <5>1, <5>3 DEF Tops
      <4> QED
        BY <2>2, <4>3, <4>6, <4>7
    <3>6. CASE i = j /\ q \in ps /\ Left(a) /\ j = o.source /\ ps = {o.prog}
      <4>1. o.pc = "left" /\ q = o.prog
        BY <3>6 DEF Left
      <4>2. o.task = "migrate" /\ o.isle \in Isles /\ o.source # o.isle
        BY <1>1, <4>1 DEF Sound, AfterPcs, LeavePcs
      <4>3. PICK k \in Isles : k = o.isle
        BY <4>2
      <4>4. PICK x \in Members(k) : Fitness[x] >= Fitness[q]
        BY <1>1, <4>1, <4>2, <4>3 DEF BestBy
      <4>5. x \in Programs /\ x \in Members(k)'
        BY <1>4, <3>3, <3>6, <4>2, <4>3
      <4>6. \A y \in Programs : Accepted(y)' => Fitness[x] >= Fitness[y]
        BY <1>3, <2>1, <2>4, <4>4, <4>5
      <4>7. Tops(k, x)'
        BY <4>5, <4>6 DEF Tops
      <4>8. n.pc \notin AfterPcs
        <5>1. n = NextOf(o)
          BY <1>1, <3>6 DEF Left, TypeOK
        <5>2. n.pc = "next"
          BY <1>1, <5>1, NextSound
        <5> QED
          BY <5>2 DEF AfterPcs, EnforcePcs, LeavePcs
      <4> QED
        BY <2>2, <4>5, <4>7, <4>8
    <3>7. CASE i = j /\ q \in ps /\ RolledBack(a) /\ j = o.isle /\ ps = {o.prog}
      <4>1. o.pc = "rolledback" /\ o.task = "migrate"
        BY <1>1, <3>7 DEF RolledBack, Sound, LeavePcs
      <4>2. Visits(i, q)
        BY <3>7, <4>1 DEF Visits, AfterPcs, LeavePcs
      <4> QED
        BY <2>3, <4>2
    <3> QED
      BY <3>2, <3>4, <3>5, <3>6, <3>7
  <2> QED
    BY <1>6, <2>6, <2>7, CalmArchive DEF Acts
<1> QED
  BY <1>5, <1>6

\* Calls that do not overlap never lose the best program, if no two programs are
\* equals or an island has room for two.
THEOREM BestStays == (MaxSize > 1 \/ NoTies) => (Spec => []BestKept)
<1> SUFFICES ASSUME MaxSize > 1 \/ NoTies PROVE Spec => []BestKept
  OBVIOUS
<1>1. Init => BestInv
  <2> SUFFICES ASSUME Init PROVE BestInv
    OBVIOUS
  <2>1. \A a \in Actors : op[a].pc = "idle"
    BY DEF Init, Idle
  <2>2. \A p \in Programs : ~Accepted(p)
    BY <2>1 DEF Init, Accepted, Known, MarkedNow
  <2> QED
    BY <2>1, <2>2 DEF BestInv, Best, Topped, BestBy
<1>2. IndexInv /\ SoloInv /\ KnownInv /\ SizeInv /\ BestInv /\ [Next]_vars => BestInv'
  <2> SUFFICES ASSUME IndexInv, SoloInv, KnownInv, SizeInv, BestInv, [Next]_vars, alone'
               PROVE  Best'
    BY DEF BestInv
  <2>1. CASE Next
    <3>1. alone
      BY <2>1, ProgramTypes DEF IndexInv
    <3>2. CalmSized /\ Best
      BY <3>1 DEF CalmSized, CalmKnown, Calm, SizeInv, BestInv
    <3>3. PICK a \in Actors : \E n : Acts(a, n)
      BY <2>1, <3>2, CalmActs DEF CalmSized, CalmKnown
    <3>4. PICK n : Acts(a, n)
      BY <3>3
    <3>5. Topped'
      BY <3>2, <3>4, ToppedKept
    <3>6. ASSUME NEW b \in Actors PROVE BestBy(op[b])'
      <4>1. CASE b = a
        <5>1. BestBy(n)'
          BY <3>2, <3>4, BestByKept DEF Best
        <5> QED
          BY <3>4, <4>1, <5>1 DEF Acts
      <4>2. CASE b # a
        <5>1. op'[b].pc = "idle"
          BY <3>4, <4>2 DEF Acts
        <5> QED
          BY <5>1 DEF BestBy
      <4> QED
        BY <4>1, <4>2
    <3> QED
      BY <3>5, <3>6 DEF Best
  <2>2. CASE UNCHANGED vars
    <3>1. op' = op /\ hash' = hash /\ current' = current /\ alone' = alone
      BY <2>2 DEF vars, archive, programs, run
    <3>2. \A i : Members(i)' = Members(i)
      BY <3>1 DEF Members
    <3>3. \A p : Accepted(p)' = Accepted(p)
      BY <3>1 DEF Accepted, Known, MarkedNow
    <3>4. \A i, q : Tops(i, q)' = Tops(i, q) /\ Visits(i, q)' = Visits(i, q)
      BY <3>1, <3>2, <3>3 DEF Tops, Visits
    <3>5. Topped' = Topped
      BY <3>3, <3>4 DEF Topped
    <3>6. \A b \in Actors : BestBy(op[b])' = BestBy(op[b])
      BY <3>1, <3>2 DEF BestBy, Chosen
    <3> QED
      BY <3>1, <3>5, <3>6 DEF BestInv, Best
  <2> QED
    BY <2>1, <2>2
<1>3. IndexInv /\ BestInv => BestKept
  <2> SUFFICES ASSUME BestInv, alone, AllIdle, NEW p \in Programs, current[p] # Unset
               PROVE  \E i \in Isles : \E q \in Members(i) : Fitness[q] >= Fitness[p]
    BY DEF BestKept, AtRest
  <2>1. Accepted(p)
    BY DEF Accepted, Known
  <2>2. PICK i \in Isles, q \in Programs : Tops(i, q)
    BY <2>1 DEF BestInv, Best, Topped
  <2> QED
    BY <2>1, <2>2 DEF Tops
<1> QED
  BY <1>1, <1>2, <1>3, IndexInvariant, SoloInvariant, KnownInvariant, SizeInvariant, PTL DEF
                                                                                             Spec
==============================================================================
