--------------------------- MODULE BusContract ---------------------------
(***************************************************************************)
(* What a register bus promises the drivers (include/libdrivers/bus.h),    *)
(* with no chip select, no address byte and no HAL in sight.               *)
(*                                                                         *)
(* A hook call does what it does in one step, as the driver models take    *)
(* it: OK means that the access was made, an error that it may have been.  *)
(* Nothing but the register written in the part addressed ever changes.    *)
(* What a failed read leaves in the buffer is not promised.                *)
(***************************************************************************)
EXTENDS RegisterBus

CONSTANTS
  Device,   \* the parts on the bus
  Request   \* the calls the drivers make: [dev, kind, reg, byte, len]

NoCall == [kind |-> "none"]   \* no hook call in progress

VARIABLES
  regs,     \* [Device -> register file]
  call,     \* the request in progress, or NoCall
  buf,      \* the caller's buffer
  status    \* the status the last call returned

vars == <<regs, call, buf, status>>

Init == call = NoCall

Call(req) ==
  /\ call = NoCall
  /\ call' = req
  /\ UNCHANGED <<regs, buf, status>>

Return(s) ==
  /\ call # NoCall /\ call' = NoCall
  /\ status' = s

ReadReturns(s) ==
  /\ call.kind = "read" /\ Return(s)
  /\ s = "OK" => buf' = Burst(regs[call.dev], call.reg, call.len, TRUE)
  /\ regs' = regs

WriteReturns(s) ==
  /\ call.kind = "write" /\ Return(s)
  /\ \/ regs' = [regs EXCEPT ![call.dev][call.reg] = call.byte]
     \/ s # "OK" /\ regs' = regs
  /\ buf' = buf

Next ==
  \/ \E req \in Request : Call(req)
  \/ \E s \in {"OK"} \cup TransportError : ReadReturns(s) \/ WriteReturns(s)

Spec == Init /\ [][Next]_vars
=============================================================================
