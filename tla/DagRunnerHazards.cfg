SPECIFICATION Spec
CONSTANTS
  Programs = {p1, p2}
  Nobody = Nobody
  RetryBudget = 0
  Cap = 2
  Prefetch = 1
  Timeouts = TRUE
  EarlyFinish = TRUE
  DagsFail = FALSE
  MarkRaises = TRUE
  MaxRefreshes = 1
  MaxFaults = 1
  MaxCrashes = 0
SYMMETRY ProgramSymmetry
INVARIANT TypeOK
INVARIANT NeverLost
PROPERTY RaceFree
