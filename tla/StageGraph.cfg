SPECIFICATION FairSpec
CONSTANTS
  Root = Root
  Middle = Middle
  Leaf = Leaf
  Stages = {Root, Middle, Leaf}
  Outputs = {out1, out2}
  Void = Void
  Blueprints <- AllBlueprints
  Policy <- MixedPolicy
  MaxParallel = 1
  MaxRuns = 2
INVARIANT AllDecided
INVARIANT CacheCoherent
PROPERTY KeepsOrder
PROPERTY RunEnds
CHECK_DEADLOCK FALSE
