\* Blocks that fill the encoding to its last id; any three events, one
\* attribute of each unreadable or none; ranges of one to four blocks; any two
\* blocks with an event of any kind; up to two files, a variable or several.
SPECIFICATION RecorderSpec
CONSTANTS
  TxIndexScale = 4
  TxSlots = 1
  FirstHeight = 1
  MaxHeight = 2
  MaxFinalize = 3
  MaxTxs = 7
  MaxTxEvents = 3
  Symbols = {btc, eth}
  Garbled = Garbled
  MaxEvents = 3
  From = 5
  Counts = {1, 2, 3, 4}
  Parallelism = 2
  Pending = Pending
  Error = Error
  MaxBlocks = 2
  MaxFiles = 2
  KeyNames <- AnyString
  Fields <- SettingTypes
  ScalarMaps <- MapPaths
  Defaults <- DefaultTree
  Contents <- FilesTried
  Environments <- VariablesTried
INVARIANTS
  RecorderTypeOK
  IdsCarryTheirPlace
  DepthIsWhatWasAnnounced
  LatestRowsSuffice
  VolumeIsTheRuneMoved
  RangeAnswered
  TablesTellTheBlocks
  LayersOverride
PROPERTY IdsAscend
CHECK_DEADLOCK FALSE
