SPECIFICATION FairSpec
CONSTANTS
  Programs = {p1, p2}
  Nobody = Nobody
  RetryBudget = 1
  Cap = 1
  Prefetch = 2
  Timeouts = TRUE
  EarlyFinish = FALSE
  DagsFail = TRUE
  MarkRaises = FALSE
  MaxRefreshes = 2
  MaxFaults = 1
  MaxCrashes = 1
INVARIANT OneStatusSet
INVARIANT UnfinishedVisible
INVARIANT TasksTracked
PROPERTY LegalTransitions
PROPERTY DoneUndoneByEngine
PROPERTY QueuedSettles
PROPERTY OrphansResolved
