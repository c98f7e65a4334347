SPECIFICATION Spec
CONSTANTS
  Configs      <- MCConfigs
  AppWrites    <- NoAppWrites
  ChipIds      <- MCChipIds
  Samples      <- MCSamples
  PastTheTable <- MCPastTheTable
PROPERTY RangeSetWhileOff
