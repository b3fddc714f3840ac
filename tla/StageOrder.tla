----------------------------- MODULE StageOrder -----------------------------
(***************************************************************************)
(* What a run of a program's stage graph promises about order: a stage     *)
(* runs, or has its earlier result taken over, only when every stage it    *)
(* depends on is decided in this run and allows it; it is given up only    *)
(* when one of them forbids it; and a decided stage stays decided until    *)
(* the next run begins.                                                    *)
(***************************************************************************)
CONSTANT Stages

VARIABLES graph,  \* the dependencies: triples <<source, kind, target>>
          fate    \* fate[s]: "open", "running", "completed" or "unsuccessful"

Decided == {"completed", "unsuccessful"}

\* What a dependency of each kind asks of its source's fate.
Allows(kind) ==
  CASE kind \in {"required", "success"} -> {"completed"}
    [] kind = "failure" -> {"unsuccessful"}
    [] kind \in {"optional", "always"} -> Decided

Allowed(s) == \A e \in graph : e[3] = s => fate[e[1]] \in Allows(e[2])

Forbidden(s) ==
  \E e \in graph : e[3] = s /\ fate[e[1]] \in Decided \ Allows(e[2])

Init == fate = [s \in Stages |-> "open"]

Moves(s) ==
  \/ fate[s] = "open" /\ fate'[s] \in {"running"} \cup Decided /\ Allowed(s)'
  \/ fate[s] = "open" /\ fate'[s] = "unsuccessful" /\ Forbidden(s)'
  \/ fate[s] = "running" /\ fate'[s] \in Decided

\* Independent stages may move in the same step.
Advance == \A s \in Stages : fate'[s] = fate[s] \/ Moves(s)

Restart == fate' = [s \in Stages |-> "open"]

Next == graph' = graph /\ (Advance \/ Restart)

Spec == Init /\ [][Next]_<<graph, fate>>
=============================================================================
