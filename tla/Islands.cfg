SPECIFICATION Spec
CONSTANTS
  P1 = P1
  P2 = P2
  P3 = P3
  Left1 = Left1
  Left2 = Left2
  Programs = {P1, P2, P3}
  Fitness <- Scores
  Isles = {A, B, C}
  Cells = {Left1, Left2}
  CellOf <- SameBins
  MaxSize = 1
  Adders = {ingestor}
  Producers = {mutant}
  Interval = 1
  MaxMigrants = 1
  Vacant = Vacant
  Unset = Unset
  Cleared = Cleared
  MaxGeneration <- Generations
  MaxCrashes = 1
SYMMETRY Symmetric
INVARIANT ReverseIndexed
INVARIANT CacheMirrors
INVARIANT OneIsland
INVARIANT BestKept
INVARIANT SizeKept
PROPERTY ReplacedByBetter
CHECK_DEADLOCK FALSE
