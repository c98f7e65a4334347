SPECIFICATION FairSpec
CONSTANTS
  imu = imu
  mag = mag
  Device      <- MCDevice
  device_addr <- MCAddress
  Register    <- MCRegister
  Request     <- MCRequest
  Power       <- MCPower
INVARIANT TypeOK
PROPERTIES ImplementsContract EveryCallReturns
