--------------------------- MODULE MCICM42688 ---------------------------
(***************************************************************************)
(* A small instance of ICM42688: configurations that differ in both        *)
(* ranges, one of them powering only the gyroscope; raw writes that change *)
(* a range and that power the part off; the right part and a wrong one;    *)
(* samples at both ends of int16_t.  Reserved adds the configuration with  *)
(* accelerometer code 4, which no enumerator names.                        *)
(***************************************************************************)
EXTENDS ICM42688

ConfigOf(pwr, gyro, accel) ==
  [r \in Ctrl |-> CASE r = PWR_MGMT0 -> pwr [] r = GYRO_CONFIG0 -> gyro
                    [] r = ACCEL_CONFIG0 -> accel]

MCConfigs == {ConfigOf(\h0F, \h06, \h66),     \* both on, 2000 dps, 2 g
              ConfigOf(\h0C, \hA6, \h26)}     \* gyroscope on, 62.5 dps, 8 g
Reserved  == {ConfigOf(\h0F, \h66, \h86)}     \* ACCEL_FS_SEL = 100

MCAppWrites    == {<<ACCEL_CONFIG0, \h46>>, <<PWR_MGMT0, \h00>>}
NoAppWrites    == {}
MCChipIds      == {WHO_AM_I_VALUE, \h6A}
MCSamples      ==
  {[Accel |-> <<1, -1, -32768>>,   Gyro |-> <<127, 300, -2>>,        Temp |-> -3312],
   [Accel |-> <<32767, 256, -300>>, Gyro |-> <<-32768, 32767, 0>>, Temp |-> 32767]}
MCPastTheTable == {164, 328}
=============================================================================
