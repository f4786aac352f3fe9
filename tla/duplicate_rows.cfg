\* A failed flush and the retry of its block.
SPECIFICATION Spec
CONSTANTS
  p1 = p1
  p2 = p2
  Pools <- MCPools
  Touched <- MCTouched
  FirstHeight = 1
  MaxTip = 3
  CommitBatch = 2
  InsertLimit = 5
  FetchBatch = 1
  BatchThreshold = 1
  MaxStops = 0
  MaxDbErrors = 1
INVARIANT
  ExactlyOnce
