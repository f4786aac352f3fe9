\* A seeded database; crashes, signals and failed flushes, and a network that comes back.
SPECIFICATION FairSpec
CONSTANTS
  p1 = p1
  p2 = p2
  Pools <- MCPools
  Touched <- MCTouched
  FirstHeight = 2
  MaxTip = 5
  CommitBatch = 2
  InsertLimit = 5
  FetchBatch = 2
  BatchThreshold = 1
  MaxStops = 2
  MaxDbErrors = 1
INVARIANTS
  TypeOK
  Contiguous
  RowsWithTheirBlock
  NothingSkipped
  LossBounded
  OneOpeningBalance
PROPERTIES
  CatchesUp
  ShutdownCompletes
  RefinesIndexer
