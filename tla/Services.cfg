SPECIFICATION FairSpec
CONSTANTS
  R1 = R1
  R2 = R2
  R3 = R3
  Nobody = Nobody
  PollCount = 2
  BufferSize = 1
  DrainCount = 1
  MaxPublished = 2
  MaxTroubles = 1
  Tasks = {t1, t2, t3}
  Seeds = 1
  None = None
  MaxSweeps = 1
  MaxLives = 2
  Endpoints = {E1, E2}
  LlmCalls = {l1, l2, l3}
  Nowhere = Nowhere
  Parents = {1, 2}
  Callers = {c1, c2}
  MaxCalls = 3
  Programs = {p1, p2}
  Readers = {r1, r2}
  Unlocked = Unlocked
  Instances = {i1, i2, i3, i4}
  Free = Free
  MaxLapses = 2
  Children = {t1, t2}
  Unheld = Unheld
INVARIANT TakenOnce
INVARIANT Covered
INVARIANT OrdinalsUnique
INVARIANT LoadExact
INVARIANT FlipsBounded
INVARIANT BumpHonoured
INVARIANT OneMorePerLapse
INVARIANT LineageKept
PROPERTY MigrantsLand
PROPERTY ConfirmedKept
CHECK_DEADLOCK FALSE
