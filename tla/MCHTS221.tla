---------------------------- MODULE MCHTS221 ----------------------------
(***************************************************************************)
(* A small instance of HTS221: two parts whose eight points all differ,    *)
(* one with temperature points that need both of their high bits and       *)
(* falling counts; samples of both signs and at both ends of int16_t.      *)
(***************************************************************************)
EXTENDS HTS221

ConfigOf(c1, c2, c3) ==
  [r \in Ctrl |-> CASE r = CTRL_REG1 -> c1 [] r = CTRL_REG2 -> c2 [] r = CTRL_REG3 -> c3]

MCConfigs   == {ConfigOf(\h85, 0, 4)}
MCAppWrites == {<<CTRL_REG1, 0>>}
MCChipIds   == {WHO_AM_I_VALUE, \h3D}

PartOf(h0, h1, t0, t1, h0out, h1out, t0out, t1out) ==
  [H0_rH_x2 |-> h0, H1_rH_x2 |-> h1, T0_degC_x8 |-> t0, T1_degC_x8 |-> t1,
   H0_T0_OUT |-> h0out, H1_T0_OUT |-> h1out, T0_OUT |-> t0out, T1_OUT |-> t1out]

MCParts == {PartOf(40, 160, 240, 480, 0, 600, 0, 1000),
            PartOf(59, 255, 511, 1023, 8191, -8192, -300, 32767)}

MCSamples == {[H |-> -1, T |-> 500], [H |-> 32767, T |-> -32768]}
=============================================================================
