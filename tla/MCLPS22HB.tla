--------------------------- MODULE MCLPS22HB ---------------------------
(***************************************************************************)
(* A small instance of LPS22HB: a configuration with BDU, which a raw      *)
(* write clears; two samples of both signs, close to both ends of the      *)
(* 24-bit range, that differ in the first and last byte of each value.     *)
(***************************************************************************)
EXTENDS LPS22HB

ConfigOf(c1, c2, c3) ==
  [r \in Ctrl |-> CASE r = CTRL_REG1 -> c1 [] r = CTRL_REG2 -> c2 [] r = CTRL_REG3 -> c3]

MCConfigs   == {ConfigOf(\h32, \h10, 0)}
MCAppWrites == {<<CTRL_REG1, \h30>>}
MCChipIds   == {WHO_AM_I_VALUE, \hBC}
MCSamples   == {[P |-> -8388607, T |-> 2350], [P |-> 8323072, T |-> -300]}
=============================================================================
