SPECIFICATION FairSpec
CONSTANTS
  Mutants = {m1, m2, m3}
  Parents = {1}
  NumParents = 1
  Nobody = Nobody
  MaxInFlight = 2
  MaxMutants = 2
  Coalesce = TRUE
  MayStop = FALSE
  AddsMayRaise = FALSE
  MaxFaults = 0
PROPERTY CapEndsRun
CHECK_DEADLOCK FALSE
PROPERTY FinishedAreReleased
