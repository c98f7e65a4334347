SPECIFICATION Spec
CONSTANTS
  Configs   <- MCConfigs
  AppWrites <- MCAppWrites
  ChipIds   <- MCChipIds
  Samples   <- MCSamples
INVARIANTS TypeOK TrustedRange
PROPERTY ImplementsContract
