----------------------------- MODULE MCIslands -----------------------------
EXTENDS Islands, TLC

CONSTANTS P1, P2, P3, Left1, Left2

Symmetric == Permutations(Isles)

\* Two programs compete for a cell; the third has one of its own.
Scores == (P1 :> 1) @@ (P2 :> 2) @@ (P3 :> 3)
SameBins == [i \in Isles |-> (P1 :> Left1) @@ (P2 :> Left1) @@ (P3 :> Left2)]

\* Enough for three migrations where calls do not overlap (the third is the
\* first that can copy a discarded program), for one where they do.
Generations == [calm \in BOOLEAN |-> IF calm THEN 4 ELSE 2]
=============================================================================
