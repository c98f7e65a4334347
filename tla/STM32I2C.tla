---------------------------- MODULE STM32I2C ----------------------------
(***************************************************************************)
(* The STM32 I2C port (port/stm32/libdrivers_stm32_i2c.c) with the parts   *)
(* on its bus, each at an address of its own.                              *)
(*                                                                         *)
(* A hook is one HAL call, made with HAL_MAX_DELAY.  The bus is open-drain *)
(* and a part may hold the clock low: the HAL call then waits for it, for  *)
(* ever if need be.                                                        *)
(***************************************************************************)
EXTENDS STM32Port

CONSTANTS
  Device,        \* the parts on the bus, a port context each
  device_addr,   \* [Device -> address]
  Register,      \* the registers in use
  Request,       \* what the drivers ask of the hooks
  Power          \* the register files the parts may power on with

NoCall == [kind |-> "none"]   \* no hook call in progress

ASSUME AddressAssumption ==
  \A d, e \in Device : device_addr[d] = device_addr[e] => d = e
ASSUME RequestAssumption ==
  \A r \in Request :
    /\ r.dev \in Device /\ r.kind \in {"read", "write"}
    /\ r.reg \in Register /\ r.byte \in Byte /\ r.len \in Nat
    /\ \A i \in 1..r.len : r.reg + i - 1 \in Register
ASSUME PowerAssumption == Power \subseteq [Register -> Byte]

VARIABLES
  regs,      \* [Device -> register file]
  holding,   \* the parts that hold the clock low
  call,      \* the hook call in progress, or NoCall
  done,      \* the part has acknowledged all of it
  buf,       \* the caller's buffer
  status,    \* what the last hook call returned
  before     \* [regs, buf] when it returned: a history variable

vars == <<regs, holding, call, done, buf, status, before>>

Init ==
  /\ regs \in [Device -> Power]
  /\ holding = {}
  /\ call = NoCall /\ done = FALSE
  /\ buf = <<>> /\ status = "OK"
  /\ before = [regs |-> regs, buf |-> buf]

(* STM32_I2C_Read or STM32_I2C_Write enters the HAL.                       *)
Enter(req) ==
  /\ call = NoCall
  /\ call' = req
  /\ UNCHANGED <<regs, holding, done, buf, status, before>>

(* Seeded fault: every part on the bus is taken for the one addressed.     *)
AnsweringAll == Device

(* The parts that answer to the address the port passes to the HAL.        *)
Answering == {d \in Device : device_addr[d] = device_addr[call.dev]}

(* The bytes of the transfer reach the part, or the caller; without `ok'   *)
(* the transfer breaks off after that.                                     *)
Transfer(ok) ==
  /\ call # NoCall /\ ~done /\ holding = {}
  /\ done' = ok
  /\ IF call.kind = "write"
     THEN /\ regs' = [d \in Device |-> IF d \in Answering
                                       THEN [regs[d] EXCEPT ![call.reg] = call.byte]
                                       ELSE regs[d]]
          /\ buf' = buf
     ELSE /\ regs' = regs
          /\ \E d \in Answering : buf' = Burst(regs[d], call.reg, call.len, TRUE)
  /\ UNCHANGED <<holding, call, status, before>>

(* Seeded fault: a call that fails is made again, for ever.                *)
HalReturnsRetrying(h) ==
  /\ call # NoCall /\ holding = {}
  /\ h = "HAL_OK" => done
  /\ done' = FALSE
  /\ IF h = "HAL_OK" THEN status' = "OK" /\ call' = NoCall
                     ELSE UNCHANGED <<status, call>>
  /\ before' = IF h = "HAL_OK" THEN [regs |-> regs, buf |-> buf] ELSE before
  /\ UNCHANGED <<regs, holding, buf>>

(* The HAL call ends and the hook returns its result translated; HAL_OK    *)
(* needs every byte acknowledged.                                          *)
HalReturns(h) ==
  /\ call # NoCall /\ holding = {}
  /\ h = "HAL_OK" => done
  /\ status' = CollapseStatus(h)
  /\ call' = NoCall /\ done' = FALSE
  /\ before' = [regs |-> regs, buf |-> buf]
  /\ UNCHANGED <<regs, holding, buf>>

(* A part stretches the clock while it is addressed, and lets go of it.    *)
Holds(d) ==
  /\ call # NoCall /\ ~done /\ d \in Answering \ holding
  /\ holding' = holding \cup {d}
  /\ UNCHANGED <<regs, call, done, buf, status, before>>

LetsGo(d) ==
  /\ d \in holding
  /\ holding' = holding \ {d}
  /\ UNCHANGED <<regs, call, done, buf, status, before>>

HalEnds == \E h \in HalStatus : HalReturns(h)

Next ==
  \/ \E req \in Request : Enter(req)
  \/ \E ok \in BOOLEAN : Transfer(ok)
  \/ HalEnds
  \/ \E d \in Device : Holds(d) \/ LetsGo(d)

Spec == Init /\ [][Next]_vars

(* Strong fairness of the HAL: each time the clock is let go of a transfer *)
(* gets further, and it has an end.  Nothing is assumed of the parts.      *)
FairHal == Spec /\ SF_vars(HalEnds)

(* Parts that let go of the clock some time, as clock stretching means to. *)
FairSpec == FairHal /\ \A d \in Device : WF_vars(LetsGo(d))

-----------------------------------------------------------------------------
(* Properties.                                                             *)

(* Only a call in progress has bytes acknowledged; a hook returns what the *)
(* transport contract names.                                               *)
TypeOK ==
  /\ {regs, before.regs} \subseteq [Device -> [Register -> Byte]]
  /\ holding \subseteq Device
  /\ call \in Request \cup {NoCall}
  /\ done \in BOOLEAN
  /\ done => call # NoCall
  /\ status \in {"OK"} \cup TransportError

Contract == INSTANCE BusContract WITH regs <- before.regs, buf <- before.buf

(* The port keeps the transport contract: an OK call has read or written   *)
(* the register asked for in the part asked for, a failed one has changed  *)
(* that register at most, and no other part on the bus notices, however    *)
(* the parts stretch the clock.                                            *)
ImplementsContract == Contract!Spec

(* bus.h promises a status from every hook: "LIBDRIVERS_OK on success,     *)
(* LIBDRIVERS_ERR_BUS or LIBDRIVERS_ERR_TIMEOUT on failure".  Every call   *)
(* returns when the parts let go of the clock; with a part that does not,  *)
(* HAL_MAX_DELAY is waited for ever, where ERR_TIMEOUT was promised.       *)
EveryCallReturns == [](call # NoCall => <>(call = NoCall))
=============================================================================
