---------------------------- MODULE STM32SPI ----------------------------
(***************************************************************************)
(* The STM32 SPI port (port/stm32/libdrivers_stm32_spi.c) with the parts   *)
(* on its bus, each behind a chip-select pin of its own.                   *)
(*                                                                         *)
(* A hook call is four steps: chip select goes low, the address byte goes  *)
(* out, the data follows if the HAL reported the address sent, chip select *)
(* goes high.  A part hears the bus while its chip select is low; the      *)
(* first byte it hears is the address.  The parts walk their registers by  *)
(* themselves, as the LSM6DSL and the ICM42688 do; one that wants bit 7    *)
(* for it is the LIS3MDL of module LIS3MDL.                                *)
(***************************************************************************)
EXTENDS STM32Port

CONSTANTS
  Device,     \* the parts on the bus, a port context each
  Register,   \* the registers in use
  Request,    \* what the drivers ask of the hooks
  Power       \* the register files the parts may power on with

NoCall == [kind |-> "none"]   \* no hook call in progress
Silent == 256                 \* no address byte heard since selection

ASSUME RegisterAssumption == Register \subseteq 0..127
ASSUME RequestAssumption ==
  \A r \in Request :
    /\ r.dev \in Device /\ r.kind \in {"read", "write"}
    /\ r.reg \in Register /\ r.byte \in Byte /\ r.len \in Nat
    /\ \A i \in 1..r.len : r.reg + i - 1 \in Register
ASSUME PowerAssumption == Power \subseteq [Register -> Byte]

VARIABLES
  regs,     \* [Device -> register file]
  low,      \* the parts whose chip select is low
  heard,    \* [Device -> the address byte each has heard, or Silent]
  call,     \* the hook call in progress, or NoCall
  at,       \* its next step
  hal,      \* the local HalStatus
  buf,      \* the caller's buffer
  status,   \* what the last hook call returned
  before    \* [regs, buf] when it returned: a history variable

vars == <<regs, low, heard, call, at, hal, buf, status, before>>

Init ==
  /\ regs \in [Device -> Power]
  /\ low = {}
  /\ heard = [d \in Device |-> Silent]
  /\ call = NoCall /\ at = "idle"
  /\ hal = "HAL_OK" /\ buf = <<>> /\ status = "OK"
  /\ before = [regs |-> regs, buf |-> buf]

Address ==
  IF call.kind = "read" THEN SpiReadAddress(call.reg) ELSE SpiWriteAddress(call.reg)

(* STM32_SPI_Read or STM32_SPI_Write is entered: chip select goes low.     *)
Select(req) ==
  /\ at = "idle"
  /\ call' = req /\ at' = "address"
  /\ low' = low \cup {req.dev}
  /\ UNCHANGED <<regs, heard, hal, buf, status, before>>

(* A byte on the wire is heard by every part that is selected.  HAL_BUSY   *)
(* means that nothing was sent, the other errors leave that open.          *)
Heard == [d \in Device |-> IF d \in low THEN Address ELSE heard[d]]

(* Seeded fault: an address that fails is sent again, for ever.            *)
SendAddressRetrying(h) ==
  /\ at = "address"
  /\ heard' \in CASE h = "HAL_OK"   -> {Heard}
                  [] h = "HAL_BUSY" -> {heard}
                  [] OTHER          -> {heard, Heard}
  /\ hal' = h
  /\ at' = IF h = "HAL_OK" THEN "data" ELSE "address"
  /\ UNCHANGED <<regs, low, call, buf, status, before>>

(* Seeded fault: the data phase does not wait for the address to go out.   *)
SendAddressUnchecked(h) ==
  /\ at = "address"
  /\ heard' \in CASE h = "HAL_OK"   -> {Heard}
                  [] h = "HAL_BUSY" -> {heard}
                  [] OTHER          -> {heard, Heard}
  /\ hal' = h
  /\ at' = "data"
  /\ UNCHANGED <<regs, low, call, buf, status, before>>

SendAddress(h) ==
  /\ at = "address"
  /\ heard' \in CASE h = "HAL_OK"   -> {Heard}
                  [] h = "HAL_BUSY" -> {heard}
                  [] OTHER          -> {heard, Heard}
  /\ hal' = h
  /\ at' = IF h = "HAL_OK" THEN "data" ELSE "release"
  /\ UNCHANGED <<regs, low, call, buf, status, before>>

(* The data phase as the parts see it: a part that heard a write address   *)
(* stores the byte (one that heard no address takes it for the address),   *)
(* a part that heard a read address serves its registers.                  *)
Stored ==
  [d \in Device |->
     IF d \in low /\ heard[d] \in Register
     THEN [regs[d] EXCEPT ![heard[d]] = call.byte] ELSE regs[d]]

Served ==
  {Burst(regs[d], heard[d] - 128, call.len, TRUE) :
     d \in {e \in low : heard[e] - 128 \in Register}}

Transfer(h) ==
  /\ at = "data"
  /\ hal' = h /\ at' = "release"
  /\ IF call.kind = "write"
     THEN /\ regs' \in IF h = "HAL_OK" THEN {Stored} ELSE {regs, Stored}
          /\ buf' = buf
     ELSE /\ regs' = regs
          /\ buf' \in IF h = "HAL_OK" THEN Served ELSE {buf} \cup Served
  /\ UNCHANGED <<low, heard, call, status, before>>

(* Seeded fault: the error path returns without touching chip select.      *)
ReleaseOnSuccess ==
  /\ at = "release"
  /\ low' = IF hal = "HAL_OK" THEN low \ {call.dev} ELSE low
  /\ heard' = [d \in Device |-> IF d \in low' THEN heard[d] ELSE Silent]
  /\ status' = CollapseStatus(hal)
  /\ call' = NoCall /\ at' = "idle" /\ hal' = "HAL_OK"
  /\ before' = [regs |-> regs, buf |-> buf]
  /\ UNCHANGED <<regs, buf>>

(* Chip select goes high on every path, then the hook returns.             *)
Release ==
  /\ at = "release"
  /\ low' = low \ {call.dev}
  /\ heard' = [d \in Device |-> IF d \in low' THEN heard[d] ELSE Silent]
  /\ status' = CollapseStatus(hal)
  /\ call' = NoCall /\ at' = "idle" /\ hal' = "HAL_OK"
  /\ before' = [regs |-> regs, buf |-> buf]
  /\ UNCHANGED <<regs, buf>>

PortStep ==
  \/ \E h \in HalStatus : SendAddress(h) \/ Transfer(h)
  \/ Release

Next == PortStep \/ \E req \in Request : Select(req)

Spec == Init /\ [][Next]_vars

(* The SPI master drives the clock itself: no part can hold up a HAL call, *)
(* and HAL_MAX_DELAY is never waited out.                                  *)
FairSpec == Spec /\ WF_vars(PortStep)

-----------------------------------------------------------------------------
(* Properties.                                                             *)

(* The control state agrees with the call, and registers hold bytes.       *)
TypeOK ==
  /\ {regs, before.regs} \subseteq [Device -> [Register -> Byte]]
  /\ low \subseteq Device
  /\ heard \in [Device -> 0..Silent]
  /\ call \in Request \cup {NoCall}
  /\ at \in {"idle", "address", "data", "release"}
  /\ at = "idle" <=> call = NoCall
  /\ hal \in HalStatus
  /\ status \in {"OK"} \cup TransportError

(* "so the bus is never left stuck": chip select is low at the part that   *)
(* is called and nowhere else, and no part is left in the middle of a      *)
(* transaction, whichever phase of an earlier one failed.                  *)
OneSelected ==
  /\ low = IF call = NoCall THEN {} ELSE {call.dev}
  /\ \A d \in Device \ low : heard[d] = Silent

Contract == INSTANCE BusContract WITH regs <- before.regs, buf <- before.buf

(* The port keeps the transport contract: an OK call has read or written   *)
(* the register asked for in the part asked for, a failed one has changed  *)
(* that register at most, and no other part on the bus notices.            *)
ImplementsContract == Contract!Spec

(* Every hook call returns.                                                *)
EveryCallReturns == [](call # NoCall => <>(call = NoCall))
=============================================================================
