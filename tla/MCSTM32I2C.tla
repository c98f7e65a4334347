--------------------------- MODULE MCSTM32I2C ---------------------------
(***************************************************************************)
(* A small instance of STM32I2C: two parts on one bus, a two-byte read and *)
(* writes to each.                                                         *)
(***************************************************************************)
EXTENDS STM32I2C, TLC

CONSTANTS imu, mag

MCDevice   == {imu, mag}
MCAddress  == (imu :> \hD6) @@ (mag :> \h3C)
MCRegister == {\h10, \h11}
MCRequest  ==
  [dev : {imu}, kind : {"read"}, reg : {\h10}, byte : {0}, len : {2}]
    \cup [dev : {mag}, kind : {"read"}, reg : {\h11}, byte : {0}, len : {1}]
    \cup [dev : {imu, mag}, kind : {"write"}, reg : {\h10, \h11}, byte : {\h60}, len : {1}]
MCPower == {[r \in Register |-> r]}
=============================================================================
