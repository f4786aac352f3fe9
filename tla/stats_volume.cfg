\* The volume of the statistics against the RUNE that moved.
SPECIFICATION RecorderSpec
CONSTANTS
  TxIndexScale = 4
  TxSlots = 1
  FirstHeight = 1
  MaxHeight = 1
  MaxFinalize = 0
  MaxTxs = 0
  MaxTxEvents = 0
  Symbols = {btc}
  Garbled = Garbled
  MaxEvents = 2
  From = 5
  Counts = {1}
  Parallelism = 1
  Pending = Pending
  Error = Error
  MaxBlocks = 0
  MaxFiles = 0
  KeyNames <- AnyString
  Fields <- SettingTypes
  ScalarMaps <- MapPaths
  Defaults <- DefaultTree
  Contents <- FilesTried
  Environments <- VariablesTried
INVARIANT StatsVolumeIsTheRuneMoved
CHECK_DEADLOCK FALSE
