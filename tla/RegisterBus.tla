-------------------------- MODULE RegisterBus --------------------------
(***************************************************************************)
(* The register-bus transport contract of include/libdrivers/bus.h, as     *)
(* the register-bus drivers see it.  A driver reaches its part only        *)
(* through the hooks `read', `write' and `delay' of a Libdrivers_Bus_t;    *)
(* each hook call is one transaction and returns a Libdrivers_Status_t.    *)
(*                                                                         *)
(* The part behind the bus is a register file, a function from register    *)
(* addresses to bytes.  It is external to the repository and modelled from *)
(* how the drivers use it.                                                 *)
(***************************************************************************)
EXTENDS Integers

Byte == {b \in Nat : b <= 255}

(* Libdrivers_Status_t, shared by every transport and every driver.        *)
Status == {"OK", "ERR_BUS", "ERR_ARG", "ERR_ID", "ERR_TIMEOUT"}

(* What a read or a write hook may return when it fails.                   *)
TransportError == {"ERR_BUS", "ERR_TIMEOUT"}

(* The `len' bytes a part holding `regs' serves for a read that starts at  *)
(* `reg': consecutive registers when the part auto-increments its address, *)
(* the same register over and over when it does not.                       *)
Burst(regs, reg, len, increments) ==
  [i \in 1..len |-> regs[IF increments THEN reg + i - 1 ELSE reg]]

(* Libdrivers_Bus_CheckWhoAmI after its one-byte read succeeded.           *)
WhoAmIStatus(WhoAmIByte, expected) ==
  IF WhoAmIByte # expected THEN "ERR_ID" ELSE "OK"
=============================================================================
