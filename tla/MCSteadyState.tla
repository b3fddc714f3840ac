---------------------------- MODULE MCSteadyState ----------------------------
EXTENDS SteadyState, TLC

MutantSymmetry == Permutations(Mutants)
=============================================================================
