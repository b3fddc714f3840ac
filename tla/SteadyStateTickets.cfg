SPECIFICATION Spec
CONSTANTS
  Mutants = {m1, m2, m3}
  Parents = {1, 2}
  NumParents = 2
  Nobody = Nobody
  MaxInFlight = 2
  MaxMutants = 2
  Coalesce = FALSE
  MayStop = TRUE
  AddsMayRaise = TRUE
  MaxFaults = 1
SYMMETRY MutantSymmetry
INVARIANT TicketsPaired
INVARIANT NoRefreshUnderChild
INVARIANT LockWaitsOrdered
CHECK_DEADLOCK FALSE
