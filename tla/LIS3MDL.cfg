SPECIFICATION Spec
CONSTANTS
  Configs   <- MCConfigs
  AppWrites <- MCAppWrites
  ChipIds   <- MCChipIds
  Samples   <- MCSamples
  Port      = "I2C"
INVARIANTS TypeOK InitIsWhole
PROPERTY ImplementsContract
