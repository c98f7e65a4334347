SPECIFICATION Spec
CONSTANTS
  Configs      <- Reserved
  AppWrites    <- NoAppWrites
  ChipIds      <- MCChipIds
  Samples      <- MCSamples
  PastTheTable <- MCPastTheTable
INVARIANT CachedCodeIsNamed
