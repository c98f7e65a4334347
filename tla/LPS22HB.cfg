SPECIFICATION Spec
CONSTANTS
  Configs   <- MCConfigs
  AppWrites <- MCAppWrites
  ChipIds   <- MCChipIds
  Samples   <- MCSamples
INVARIANT TypeOK
PROPERTIES HandleIsThisBurst ImplementsContract
