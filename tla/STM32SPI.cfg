SPECIFICATION FairSpec
CONSTANTS
  imu = imu
  mag = mag
  Device  <- MCDevice
  Register <- MCRegister
  Request <- MCRequest
  Power   <- MCPower
INVARIANTS TypeOK OneSelected
PROPERTIES ImplementsContract EveryCallReturns
