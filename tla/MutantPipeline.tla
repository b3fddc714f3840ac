--------------------------- MODULE MutantPipeline ---------------------------
(***************************************************************************)
(* What the steady-state engine promises: a two-stage pipeline. At most    *)
(* Depth mutants are being produced and at most Depth are buffered; each   *)
(* is started, delivered to the buffer, finished with and taken out of the *)
(* buffer one by one (taken: in batches); and none is started once Cap     *)
(* have been delivered.                                                    *)
(***************************************************************************)
EXTENDS Naturals, FiniteSets

CONSTANTS Mutants, Depth, Cap

VARIABLES producing,  \* the mutants a producer is busy with
          buffered,   \* the mutants delivered and not yet taken
          delivered   \* how many have ever been delivered

Init == producing = {} /\ buffered = {} /\ delivered = 0

Start(m) ==
  /\ m \notin producing /\ Cardinality(producing) < Depth
  /\ delivered < Cap
  /\ producing' = producing \cup {m}
  /\ UNCHANGED <<buffered, delivered>>

Deliver(m) ==
  /\ m \in producing \ buffered /\ Cardinality(buffered) < Depth
  /\ buffered' = buffered \cup {m}
  /\ delivered' = delivered + 1
  /\ UNCHANGED producing

Finish(m) ==
  /\ m \in producing
  /\ producing' = producing \ {m}
  /\ UNCHANGED <<buffered, delivered>>

Take ==
  /\ \E S \in SUBSET buffered : buffered' = buffered \ S
  /\ UNCHANGED <<producing, delivered>>

Next == Take \/ \E m \in Mutants : Start(m) \/ Deliver(m) \/ Finish(m)

Spec == Init /\ [][Next]_<<producing, buffered, delivered>>
=============================================================================
