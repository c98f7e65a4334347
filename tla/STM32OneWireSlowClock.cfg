SPECIFICATION FairSpec
CONSTANTS
  Request <- MCRequest
  Sent    <- MCSent
  CoreClockkHz = 800
  CounterModulus = 512
  Starts     <- MCStarts
  Poll = 2
  Interrupts <- MCInterrupts
  Holds      <- MCHolds
  Waits      <- MCWaits
  Pulses     <- MCPulses
  LineMayStick = FALSE
PROPERTY DelaysAreLongEnough
