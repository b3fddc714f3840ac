---------------------------- MODULE MCStageGraph ----------------------------
EXTENDS StageGraph

CONSTANTS Root, Middle, Leaf

Between(src, dst, kinds) ==
  {{}} \cup {{<<src, kind, dst>>} : kind \in kinds}

\* Every chain of three stages, with or without a dependency of the leaf on
\* the root; and each of them with one that would close a cycle.
AllBlueprints ==
  {g \cup h \cup k \cup back :
     g \in Between(Root, Middle, Kinds), h \in Between(Middle, Leaf, Kinds),
     k \in Between(Root, Leaf, {"optional"}),
     back \in {{}, {<<Leaf, "always", Root>>}}}

\* The root always runs again, the others when their inputs change.
MixedPolicy ==
  [s \in Stages |-> IF s = Root THEN "never" ELSE "inputs"]
=============================================================================
