SPECIFICATION Spec
CONSTANTS
  Configs      <- MCConfigs
  AppWrites    <- MCAppWrites
  ChipIds      <- MCChipIds
  Samples      <- MCSamples
  PastTheTable <- MCPastTheTable
INVARIANTS TypeOK TrustedRange TrustedIsSettled CachedCodeIsNamed
PROPERTIES PoweredOnAfterRange ImplementsContract
