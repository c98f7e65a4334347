SPECIFICATION Spec
CONSTANTS
  Configs   <- MCConfigs
  AppWrites <- MCAppWrites
  ChipIds   <- MCChipIds
  Samples   <- MCSamples
  Port      = "SPI"
PROPERTY ImplementsContract
