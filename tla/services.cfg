\* Deployments of three builds over one database, and concurrent requests over
\* a running indexer.
SPECIFICATION ServicesSpec
CONSTANTS
  b1 = b1
  b2 = b2
  b3 = b3
  Builds <- MCBuilds
  NoStamp = NoStamp
  NoSchema = NoSchema
  HalfBuilt = HalfBuilt
  MaxBlocks = 2
  c1 = c1
  c2 = c2
  Clients <- MCClients
  MaxTip = 3
  FirstHeight = 1
  CommitBatch = 2
INVARIANT SyncsOnItsOwnSchema
PROPERTIES
  CarefulKeepsBlocks
  HalfBuiltIsRepaired
  AnswerMissesLessThanABatch
  AnswersNeverGoBack
  RequestsEnd
