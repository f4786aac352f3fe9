\* A database that is away for two flushes, and a batch that grows with each retry.
SPECIFICATION Spec
CONSTANTS
  p1 = p1
  p2 = p2
  Pools <- MCPools
  Touched <- MCTouched
  FirstHeight = 1
  MaxTip = 3
  CommitBatch = 2
  InsertLimit = 3
  FetchBatch = 1
  BatchThreshold = 1
  MaxStops = 0
  MaxDbErrors = 2
INVARIANT
  RetryCanSucceed
