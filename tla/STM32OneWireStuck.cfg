SPECIFICATION FairSpec
CONSTANTS
  Request <- MCRequest
  Sent    <- MCSent
  CoreClockkHz = 1000
  CounterModulus = 512
  Starts     <- MCStarts
  Poll = 2
  Interrupts <- MCInterrupts
  Holds      <- MCHolds
  Waits      <- MCWaits
  Pulses     <- MCPulses
  LineMayStick = TRUE
PROPERTY OKResetMeansPresence
