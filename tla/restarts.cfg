\* Crashes and shutdowns; every flush tells the truth.
SPECIFICATION Spec
CONSTANTS
  p1 = p1
  p2 = p2
  Pools <- MCPools
  Touched <- MCTouched
  FirstHeight = 1
  MaxTip = 5
  CommitBatch = 3
  InsertLimit = 5
  FetchBatch = 2
  BatchThreshold = 1
  MaxStops = 2
  MaxDbErrors = 0
INVARIANTS
  ExactlyOnce
  DepthsExact
  TrackerExact
  CleanStopKeepsBatch
PROPERTY
  RefinesProjection
