-------------------------- MODULE MCSTM32OneWire --------------------------
(***************************************************************************)
(* A small instance of STM32OneWire: a reset, the write of a byte that is  *)
(* no palindrome, a read of one that is none either and of zeroes.  The    *)
(* counter starts where no delay, some delays and every delay wraps.       *)
(***************************************************************************)
EXTENDS STM32OneWire

MCRequest ==
  {[kind |-> "reset", byte |-> 0], [kind |-> "write", byte |-> \hBE],
   [kind |-> "read", byte |-> 0]}
MCSent       == {0, \hC9}
MCStarts     == {0, 500, CounterModulus - 1}
MCInterrupts == {40}
MCHolds      == {20, 60}
MCWaits      == {15, 60}
MCPulses     == {60, 240}
=============================================================================
