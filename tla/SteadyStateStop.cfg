SPECIFICATION FairSpec
CONSTANTS
  Mutants = {m1, m2, m3}
  Parents = {1}
  NumParents = 1
  Nobody = Nobody
  MaxInFlight = 1
  MaxMutants = 2
  Coalesce = TRUE
  MayStop = TRUE
  AddsMayRaise = FALSE
  MaxFaults = 0
CHECK_DEADLOCK FALSE
PROPERTY StopReturns
