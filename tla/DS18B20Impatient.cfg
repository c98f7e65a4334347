SPECIFICATION Spec
CONSTANTS
  Temperatures <- MCTemperatures
  CallerWaits = FALSE
INVARIANTS InPhase WaitedReadIsConverted
