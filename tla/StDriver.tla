---------------------------- MODULE StDriver ----------------------------
(***************************************************************************)
(* What the HTS221, LPS22HB and LIS3MDL drivers have in common: Init       *)
(* writes the control registers one by one, stops at the first write that  *)
(* fails and keeps nothing in the handle; XXX_ReadReg sets the             *)
(* auto-increment bit, XXX_WriteReg and XXX_CheckWhoAmI do not.  Each      *)
(* driver instantiates this module with its registers.                     *)
(*                                                                         *)
(* `intact' and `configured' are history variables.                        *)
(***************************************************************************)
EXTENDS RegisterBus, Sequences

CONSTANTS
  WriteOrder,   \* the registers Init writes, in program order
  PowerOnCtrl,  \* what they hold after power-on
  Identity,     \* XXX_WHO_AM_I_VALUE
  Configs,      \* the XXX_Config_t values the application passes to Init
  AppWrites,    \* the <<register, byte>> pairs it writes with XXX_WriteReg
  ChipIds       \* what may answer at the bus address

VARIABLES
  ctrl,        \* the part's control registers
  pc,          \* 0: no Init in progress; n: its next write
  cfg,         \* *pConfig of the Init in progress
  intact,      \* no power loss during the Init in progress
  configured,  \* the configuration of the last OK Init, untouched since
  out,         \* [reader, data]: the output variable filled last
  status       \* what the last call returned

setup == <<ctrl, pc, cfg, intact, configured>>
vars == <<setup, out, status>>

Ctrl == {WriteOrder[i] : i \in DOMAIN WriteOrder}
NoConfig == [r \in Ctrl |-> 0]   \* when there is none

(* Seeded fault: the bit is forgotten.                                     *)
PlainAddress(RegAddress) == RegAddress

(* RegAddress | XXX_AUTO_INCREMENT_BIT, and what a part makes of it on a   *)
(* bus that hands the byte over as it is.                                  *)
ActualAddress(RegAddress) == 128 + (RegAddress % 128)
Increments(address) == address >= 128
Register(address)   == address % 128

(* A write transaction; one that fails may have reached the part.          *)
Transaction(reg, byte, s) ==
  \/ s \in {"OK"} \cup TransportError /\ ctrl' = [ctrl EXCEPT ![reg] = byte]
  \/ s \in TransportError /\ UNCHANGED ctrl

-----------------------------------------------------------------------------
Idle == pc = 0

Init ==
  /\ ctrl = PowerOnCtrl
  /\ pc = 0 /\ cfg = NoConfig /\ intact = TRUE /\ configured = NoConfig
  /\ out = [reader |-> "none", data |-> 0]
  /\ status = "OK"

CallInit(c) ==
  /\ Idle
  /\ pc' = 1 /\ cfg' = c
  /\ UNCHANGED <<ctrl, intact, configured, out, status>>

InitWrite(s) ==
  /\ pc \in DOMAIN WriteOrder
  /\ Transaction(WriteOrder[pc], cfg[WriteOrder[pc]], s)
  /\ UNCHANGED out

Return(s) ==
  /\ status' = s
  /\ pc' = 0 /\ cfg' = NoConfig /\ intact' = TRUE

InitGoesOn ==
  /\ InitWrite("OK") /\ pc < Len(WriteOrder)
  /\ pc' = pc + 1 /\ configured' = NoConfig
  /\ UNCHANGED <<cfg, intact, status>>

InitReturns ==
  /\ InitWrite("OK") /\ pc = Len(WriteOrder)
  /\ Return("OK")
  /\ configured' = IF intact THEN cfg ELSE NoConfig

(* Seeded fault: a failing write does not end the call.                    *)
InitIgnores(e) ==
  /\ InitWrite(e) /\ pc < Len(WriteOrder)
  /\ pc' = pc + 1 /\ configured' = NoConfig
  /\ UNCHANGED <<cfg, intact, status>>

InitStops(e) ==
  /\ InitWrite(e)
  /\ Return(e) /\ configured' = NoConfig

WriteReg(reg, byte, s) ==
  /\ Idle
  /\ Transaction(reg, byte, s)
  /\ status' = s /\ configured' = NoConfig
  /\ UNCHANGED <<pc, cfg, intact, out>>

(* One byte: incrementing or not makes no difference.                      *)
ReadReg(reg) ==
  /\ Idle
  /\ \/ status' = "OK" /\ out' = [reader |-> "Reg", data |-> ctrl[reg]]
     \/ status' \in TransportError /\ out' = out
  /\ UNCHANGED setup

CheckWhoAmI(id) ==
  /\ Idle
  /\ status' \in {WhoAmIStatus(id, Identity)} \cup TransportError
  /\ UNCHANGED <<setup, out>>

(* The part (not the microcontroller) loses its power and comes back.      *)
PowerCycle ==
  /\ ctrl' = PowerOnCtrl
  /\ configured' = NoConfig /\ intact' = (pc = 0)
  /\ UNCHANGED <<pc, cfg, out, status>>

Call ==
  \/ \E c \in Configs : CallInit(c)
  \/ \E reg \in Ctrl : ReadReg(reg)
  \/ \E w \in AppWrites, s \in {"OK"} \cup TransportError : WriteReg(w[1], w[2], s)
  \/ \E id \in ChipIds : CheckWhoAmI(id)

InitStep == InitGoesOn \/ InitReturns \/ \E e \in TransportError : InitStops(e)

-----------------------------------------------------------------------------
(* The types of these variables, given what the readers may deliver.       *)
Types(outputs) ==
  /\ ctrl \in [Ctrl -> Byte]
  /\ pc \in 0..Len(WriteOrder)
  /\ cfg \in IF pc = 0 THEN {NoConfig} ELSE Configs
  /\ intact \in BOOLEAN
  /\ configured \in Configs \cup {NoConfig}
  /\ out \in [reader : {"none", "Reg"}, data : Byte] \cup outputs
  /\ status \in Status

(* An Init that returned OK left the whole of its configuration in a part  *)
(* that kept its power: no write of it was skipped, dropped or overtaken,  *)
(* whatever failed and was repeated before.                                *)
InitIsWhole == configured = NoConfig \/ ctrl = configured
=============================================================================
