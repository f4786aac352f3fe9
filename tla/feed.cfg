\* One walk after another over every short chain.
SPECIFICATION FairSpec
CONSTANTS
  MaxTip = 3
  FirstHeight = 1
  CommitBatch = 1
  Slots = 1
  MaxLimit = 2
INVARIANTS
  PagesDescend
  NothingOldLost
PROPERTIES
  ShortPageIsTheEnd
  WalksEnd
