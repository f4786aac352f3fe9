\* Requests to every reading endpoint while the indexer commits, and every kind
\* of bucket request around the edges of a leap year.
SPECIFICATION ReadingSpec
CONSTANTS
  None = None
  MaxIntervalCount = 3
  Asked = {"5min", "hour", "day", "week", "month", "quarter", "year"}
  Times <- MCTimes
  Counts = {0, 1, 2, 3, 4}
  Chains <- MCChains
  btc = btc
  usd = usd
  r1 = r1
  a1 = a1
  a2 = a2
  u1 = u1
  NanosPerSecond = 2
  Pools <- MCPools
  UsdPools <- MCUsdPools
  BlockTime <- MCBlockTime
  Rows <- MCRows
  Addresses <- MCAddresses
  MaxTip = 4
  FirstHeight = 1
  CommitBatch = 2
  Requests <- MCRequests
INVARIANTS
  ReadingTypeOK
  BoundariesAreDateTrunc
  PromisedBlocksCovered
  NothingFallsBetween
  ClosedIntervalsFinal
  MembersAreHolders
  EndpointsAgree
CHECK_DEADLOCK FALSE
