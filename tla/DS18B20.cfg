SPECIFICATION Spec
CONSTANTS
  Temperatures <- MCTemperatures
  CallerWaits = TRUE
INVARIANTS TypeOK InPhase WaitedReadIsConverted
PROPERTIES ReadsTheScratchpad ImplementsContract
