--------------------------- MODULE MCLSM6DSL ---------------------------
(***************************************************************************)
(* A small instance of LSM6DSL: three configurations that differ in every  *)
(* range (one sets FS_125 together with an FS_G code, which FS_125 must    *)
(* override), raw writes that change a range and that clear IF_INC, the    *)
(* right part and a wrong one, samples at both ends of int16_t.            *)
(***************************************************************************)
EXTENDS LSM6DSL

ConfigOf(xl, g, c3) ==
  [r \in Ctrl |-> CASE r = CTRL1_XL -> xl [] r = CTRL2_G -> g [] r = CTRL3_C -> c3]

MCConfigs == {ConfigOf(\h60, \h50, \h44),      \*  2 g,  250 dps
              ConfigOf(\h64, \h56, \h44),      \* 16 g,  125 dps over FS_G = 01
              ConfigOf(\h6C, \h5C, \h04)}      \*  8 g, 2000 dps

MCAppWrites == {<<CTRL1_XL, \h68>>, <<CTRL3_C, \h40>>}
NoAppWrites == {}
MCChipIds   == {WHO_AM_I_VALUE, \hBC}
MCSamples   ==
  {[XL |-> <<1, -1, -32768>>,   Gyro |-> <<127, 300, -2>>],
   [XL |-> <<32767, 256, -300>>, Gyro |-> <<-32768, 32767, 0>>]}
=============================================================================
