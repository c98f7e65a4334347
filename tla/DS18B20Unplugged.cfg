SPECIFICATION Spec
CONSTANTS
  Temperatures <- MCTemperatures
  CallerWaits = TRUE
PROPERTY OKReadIsScratchpad
