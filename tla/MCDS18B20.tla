--------------------------- MODULE MCDS18B20 ---------------------------
(***************************************************************************)
(* A small instance of DS18B20: conversions that measure -55 degC, whose   *)
(* low byte has its top bit set, and 25.0625 degC, both apart from the 85  *)
(* degC of a power-on.                                                     *)
(***************************************************************************)
EXTENDS DS18B20

MCTemperatures == {-880, 401}
=============================================================================
