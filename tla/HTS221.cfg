SPECIFICATION Spec
CONSTANTS
  Configs   <- MCConfigs
  AppWrites <- MCAppWrites
  ChipIds   <- MCChipIds
  Parts     <- MCParts
  Samples   <- MCSamples
INVARIANTS TypeOK CalibrationIsOfOnePart
PROPERTY ImplementsContract
