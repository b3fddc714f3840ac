----------------------------- MODULE MCDagRunner -----------------------------
EXTENDS DagRunner, TLC

ProgramSymmetry == Permutations(Programs)
=============================================================================
