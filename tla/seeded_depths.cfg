\* Depths replayed on a seed of a later height.
SPECIFICATION Spec
CONSTANTS
  p1 = p1
  p2 = p2
  Pools <- MCPools
  Touched <- MCTouched
  FirstHeight = 2
  MaxTip = 3
  CommitBatch = 2
  InsertLimit = 5
  FetchBatch = 1
  BatchThreshold = 1
  MaxStops = 0
  MaxDbErrors = 0
INVARIANT
  SeededDepthsCorrect
