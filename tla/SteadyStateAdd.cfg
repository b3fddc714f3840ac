SPECIFICATION Spec
CONSTANTS
  Mutants = {m1, m2, m3, m4}
  Parents = {1}
  NumParents = 1
  Nobody = Nobody
  MaxInFlight = 2
  MaxMutants = 2
  Coalesce = TRUE
  MayStop = FALSE
  AddsMayRaise = FALSE
  MaxFaults = 0
SYMMETRY MutantSymmetry
CHECK_DEADLOCK FALSE
INVARIANT ArchivedNotDiscarded
