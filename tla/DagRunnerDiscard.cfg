SPECIFICATION Spec
CONSTANTS
  Programs = {p1, p2}
  Nobody = Nobody
  RetryBudget = 1
  Cap = 2
  Prefetch = 1
  Timeouts = TRUE
  EarlyFinish = FALSE
  DagsFail = FALSE
  MarkRaises = FALSE
  MaxRefreshes = 0
  MaxFaults = 0
  MaxCrashes = 0
PROPERTY DiscardedForever
