--------------------------- MODULE MCLIS3MDL ---------------------------
(***************************************************************************)
(* A small instance of LIS3MDL: one configuration that differs from the    *)
(* power-on values in every register, a raw write, the right part and a    *)
(* wrong one, samples with both ends of int16_t on the axes.               *)
(***************************************************************************)
EXTENDS LIS3MDL

MCConfigs   == {[r \in Ctrl |-> \h40 + r]}
MCAppWrites == {<<CTRL_REG3, \h84>>}
MCChipIds   == {WHO_AM_I_VALUE, \hBC}
MCSamples   == {[field |-> <<-32768, 255, -2>>, offset |-> <<1, -300, 32767>>],
                [field |-> <<128, -1, 4660>>,   offset |-> <<-32768, 0, 129>>]}
=============================================================================
