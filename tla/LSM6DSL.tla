---------------------------- MODULE LSM6DSL ----------------------------
(***************************************************************************)
(* The LSM6DSL driver (src/lsm6dsl.c) with the part it drives.             *)
(*                                                                         *)
(* LSM6DSL_Init is a sequence of three register writes followed by the     *)
(* caching of the two full-scale codes in the handle; the program counter  *)
(* `pc' is the next write, and between two writes the part may sample,     *)
(* lose its power or fail the transaction.  Every other operation is one   *)
(* bus transaction and so one action.                                      *)
(*                                                                         *)
(* `trust' and `intact' are history variables: nothing reads them but      *)
(* properties and one another.                                             *)
(***************************************************************************)
EXTENDS RegisterBus, Decode

CONSTANTS
  Configs,     \* the LSM6DSL_Config_t values the application passes to Init
  AppWrites,   \* the <<register, byte>> pairs it writes with LSM6DSL_WriteReg
  ChipIds,     \* what may answer at the bus address
  Samples      \* what the sub-sensors may measure: signed counts

CTRL1_XL  == \h10
CTRL2_G   == \h11
CTRL3_C   == \h12
WHO_AM_I  == \h0F
OUTX_L_G  == \h22
OUTX_L_XL == \h28
WHO_AM_I_VALUE == \h6A

Ctrl == {CTRL1_XL, CTRL2_G, CTRL3_C}
Sub  == {"XL", "Gyro"}

(* CTRL3_C bit IF_INC: a burst walks consecutive registers.                *)
AutoIncrements(ctrl3) == Field(ctrl3, 4, 2) = 1

(* LSM6DSL_Config_t, by register.  "Keep IF_INC set" is the one condition  *)
(* the header puts on it.                                                  *)
Config == {c \in [Ctrl -> Byte] : AutoIncrements(c[CTRL3_C])}

ASSUME ConfigsAssumption   == Configs \subseteq Config
ASSUME AppWritesAssumption == AppWrites \subseteq Ctrl \X Byte
ASSUME ChipIdsAssumption   == ChipIds \subseteq Byte
ASSUME SamplesAssumption   == Samples \subseteq [XL : Axes16, Gyro : Axes16]

-----------------------------------------------------------------------------
(* Scaling: LSM6DSL_XLFullScale_t and LSM6DSL_GyroFullScale_t codes, and   *)
(* the sensitivity tables they index.                                      *)

XLFullScale(CtrlReg1_XL) == Field(CtrlReg1_XL, 4, 4)

(* Seeded fault: FS_125 is ignored.                                        *)
GyroFullScaleNo125(CtrlReg2_G) == Field(CtrlReg2_G, 4, 4)

GyroFullScale(CtrlReg2_G) ==
  IF Field(CtrlReg2_G, 2, 2) = 1 THEN 4 ELSE Field(CtrlReg2_G, 4, 4)

XLSensitivity   == [fs \in 0..3 |-> <<61, 488, 122, 244>>[fs + 1]]
GyroSensitivity == [fs \in 0..4 |-> <<70, 140, 280, 560, 35>>[fs + 1]]

-----------------------------------------------------------------------------
VARIABLES
  ctrl,     \* [Ctrl -> Byte]: the part's control registers
  sample,   \* [Sub -> sample]: what its output registers hold
  handle,   \* [XL, Gyro]: the cached XLFullScale and GyroFullScale codes
  pc,       \* 0: no call in progress; n: Init's next step
  cfg,      \* *pConfig of the Init in progress
  out,      \* [reader, data]: the output variable filled last
  status,   \* what the last call returned
  trust,    \* sub-sensors configured by the last OK Init and untouched since
  intact    \* no power loss during the Init in progress

device == <<ctrl, sample>>
vars == <<ctrl, sample, handle, pc, cfg, out, status, trust, intact>>

(* Init's writes in program order.                                         *)
WriteOrder == <<CTRL1_XL, CTRL2_G, CTRL3_C>>
Cache == 4
NoConfig == [r \in Ctrl |-> 0]   \* cfg when no Init is in progress

-----------------------------------------------------------------------------
(* The part: control registers, sample registers, identity.                *)

PowerOnCtrl == [r \in Ctrl |-> IF r = CTRL3_C THEN \h04 ELSE 0]

OutputByte(axes, i) ==
  LET v == axes[(i \div 2) + 1]
  IN  IF i % 2 = 0 THEN LowByte(v) ELSE HighByte(v)

RegisterFile(id) ==
  [r \in Ctrl \cup {WHO_AM_I} \cup OUTX_L_G..OUTX_L_XL + 5 |->
     IF r \in Ctrl THEN ctrl[r]
     ELSE IF r = WHO_AM_I THEN id
     ELSE IF r < OUTX_L_XL THEN OutputByte(sample.Gyro, r - OUTX_L_G)
     ELSE OutputByte(sample.XL, r - OUTX_L_XL)]

(* The sub-sensors whose configuration a control register is part of.      *)
Governs(reg) ==
  CASE reg = CTRL1_XL -> {"XL"} [] reg = CTRL2_G -> {"Gyro"} [] OTHER -> Sub

Lands(reg, byte) ==
  /\ ctrl' = [ctrl EXCEPT ![reg] = byte]
  /\ trust' = trust \ Governs(reg)

(* A write transaction.  One that fails may have reached the part all the  *)
(* same: the transport promises nothing else.                              *)
Transaction(reg, byte, s) ==
  \/ s \in {"OK"} \cup TransportError /\ Lands(reg, byte)
  \/ s \in TransportError /\ UNCHANGED <<ctrl, trust>>

-----------------------------------------------------------------------------
Idle == pc = 0

Init ==
  /\ ctrl = PowerOnCtrl
  /\ sample \in Samples
  /\ handle = [XL |-> 0, Gyro |-> 0]
  /\ pc = 0
  /\ cfg = NoConfig
  /\ out = [reader |-> "none", data |-> 0]
  /\ status = "OK"
  /\ trust = {}
  /\ intact = TRUE

(* LSM6DSL_Init: the call, each write, and the caching.                    *)
CallInit(c) ==
  /\ Idle
  /\ pc' = 1
  /\ cfg' = c
  /\ UNCHANGED <<device, handle, out, status, trust, intact>>

InitWriteOK ==
  /\ pc \in DOMAIN WriteOrder
  /\ Transaction(WriteOrder[pc], cfg[WriteOrder[pc]], "OK")
  /\ pc' = pc + 1
  /\ UNCHANGED <<sample, handle, cfg, out, status, intact>>

(* The call ends and pConfig is out of scope.                              *)
Return(s) ==
  /\ status' = s
  /\ pc' = 0
  /\ cfg' = NoConfig
  /\ intact' = TRUE

InitWriteFails(e) ==
  /\ pc \in DOMAIN WriteOrder
  /\ Transaction(WriteOrder[pc], cfg[WriteOrder[pc]], e)
  /\ Return(e)
  /\ UNCHANGED <<sample, handle, out>>

InitReturns ==
  /\ pc = Cache
  /\ handle' = [XL   |-> XLFullScale(cfg[CTRL1_XL]),
                Gyro |-> GyroFullScale(cfg[CTRL2_G])]
  /\ Return("OK")
  /\ trust' = IF intact THEN Sub ELSE trust
  /\ UNCHANGED <<device, out>>

-----------------------------------------------------------------------------
(* Seeded fault: the output variable is filled before the status is        *)
(* looked at.                                                              *)
ReadsFillingFirst(reader, data) ==
  /\ Idle
  /\ status' \in {"OK"} \cup TransportError
  /\ out' = [reader |-> reader, data |-> data]
  /\ UNCHANGED <<device, handle, pc, cfg, trust, intact>>

(* One read transaction: on success the output variable is filled, on a    *)
(* transport error it is left alone.                                       *)
Reads(reader, data) ==
  /\ Idle
  /\ \/ status' = "OK" /\ out' = [reader |-> reader, data |-> data]
     \/ status' \in TransportError /\ out' = out
  /\ UNCHANGED <<device, handle, pc, cfg, trust, intact>>

RawAxes(base) ==
  LET buffer == Burst(RegisterFile(WHO_AM_I_VALUE), base, 6, AutoIncrements(ctrl[CTRL3_C]))
  IN  <<LittleEndian16(buffer[1], buffer[2]),
        LittleEndian16(buffer[3], buffer[4]),
        LittleEndian16(buffer[5], buffer[6])>>

ScaleXL(raw)   == TruncDiv(raw * XLSensitivity[handle.XL], 1000)
ScaleGyro(raw) == TruncDiv(raw * GyroSensitivity[handle.Gyro], 8)

ReadRawXL     == Reads("RawXL", RawAxes(OUTX_L_XL))
ReadRawGyro   == Reads("RawGyro", RawAxes(OUTX_L_G))
ReadXL_mg     == Reads("XL_mg", OnAxes(RawAxes(OUTX_L_XL), ScaleXL))
ReadGyro_mdps == Reads("Gyro_mdps", OnAxes(RawAxes(OUTX_L_G), ScaleGyro))

ReadReg(reg) == Reads("Reg", RegisterFile(WHO_AM_I_VALUE)[reg])

CheckWhoAmI(id) ==
  /\ Idle
  /\ status' \in {WhoAmIStatus(RegisterFile(id)[WHO_AM_I], WHO_AM_I_VALUE)}
                   \cup TransportError
  /\ UNCHANGED <<device, handle, pc, cfg, out, trust, intact>>

WriteReg(reg, byte, s) ==
  /\ Idle
  /\ Transaction(reg, byte, s)
  /\ status' = s
  /\ UNCHANGED <<sample, handle, pc, cfg, out, intact>>

-----------------------------------------------------------------------------
(* The part on its own, between any two transactions.                      *)
NewSample(measured) ==
  /\ sample' = measured
  /\ UNCHANGED <<ctrl, handle, pc, cfg, out, status, trust, intact>>

(* The part (not the microcontroller) loses its power and comes back.      *)
PowerCycle ==
  /\ ctrl' = PowerOnCtrl
  /\ trust' = {}
  /\ intact' = (pc = 0)
  /\ UNCHANGED <<sample, handle, pc, cfg, out, status>>

InitStep ==
  \/ InitWriteOK
  \/ \E e \in TransportError : InitWriteFails(e)
  \/ InitReturns

Next ==
  \/ \E c \in Configs : CallInit(c)
  \/ InitStep
  \/ ReadRawXL \/ ReadRawGyro \/ ReadXL_mg \/ ReadGyro_mdps
  \/ \E reg \in Ctrl : ReadReg(reg)
  \/ \E id \in ChipIds : CheckWhoAmI(id)
  \/ \E w \in AppWrites, s \in {"OK"} \cup TransportError : WriteReg(w[1], w[2], s)
  \/ \E measured \in Samples : NewSample(measured)
  \/ PowerCycle

Spec == Init /\ [][Next]_vars

-----------------------------------------------------------------------------
(* Properties.                                                             *)

(* What the output variables may hold.                                     *)
Outputs ==
  [reader : {"none", "Reg"}, data : Byte]
    \cup [reader : {"RawXL", "RawGyro"}, data : Axes16]
    \cup [reader : {"XL_mg", "Gyro_mdps"}, data : Axes32]

(* Every reader delivers int16_t or int32_t values, the cached codes stay  *)
(* inside the sensitivity tables they index, the registers hold bytes.     *)
TypeOK ==
  /\ ctrl \in [Ctrl -> Byte]
  /\ sample \in Samples
  /\ handle \in [XL : DOMAIN XLSensitivity, Gyro : DOMAIN GyroSensitivity]
  /\ pc \in 0..Cache
  /\ cfg \in IF pc = 0 THEN {NoConfig} ELSE Configs
  /\ out \in Outputs
  /\ status \in Status
  /\ trust \subseteq Sub
  /\ intact \in BOOLEAN

(* The range the part runs at, in g and in dps, and the datasheet's        *)
(* sensitivities: 0.061 mg per LSB at 2 g, 4.375 mdps per LSB at 125 dps,  *)
(* proportional to the range.                                              *)
RangeXL(ctrl1) == <<2, 16, 4, 8>>[((ctrl1 \div 4) % 4) + 1]
RangeGyro(ctrl2) ==
  IF (ctrl2 \div 2) % 2 = 1 THEN 125 ELSE 250 * 2^((ctrl2 \div 4) % 4)

(* Between the calls and inside them, a trusted sub-sensor runs at the     *)
(* range whose sensitivity the cached code selects, and bursts walk the    *)
(* output registers: a failed, repeated or interrupted Init, a raw write   *)
(* or a power loss never leaves a reader scaling a trusted sub-sensor with *)
(* another range's factor.                                                 *)
TrustedRange ==
  /\ "XL" \in trust =>
       XLSensitivity[handle.XL] = 61 * (RangeXL(ctrl[CTRL1_XL]) \div 2)
  /\ "Gyro" \in trust =>
       GyroSensitivity[handle.Gyro] = 35 * (RangeGyro(ctrl[CTRL2_G]) \div 125)
  /\ trust # {} => AutoIncrements(ctrl[CTRL3_C])

(* README.md, "What the suites pin down": a failing write stops Init       *)
(* "instead of half-configuring a part".  Stated of a part nobody writes   *)
(* but Init: when a write of Init fails without reaching a part that kept  *)
(* its power, the control registers are all of one configuration or all at *)
(* power-on.  They are not: the earlier writes of the sequence stay.       *)
FailedInitLeavesNoMix ==
  [][\A e \in TransportError :
       InitWriteFails(e) /\ intact /\ UNCHANGED ctrl
         => ctrl \in Configs \cup {PowerOnCtrl}]_vars

-----------------------------------------------------------------------------
(* What the caller is promised, with no register and no cache.             *)

SubOf(reader) == IF reader \in {"RawXL", "XL_mg"} THEN "XL" ELSE "Gyro"

Output(reader, axes, range) ==
  CASE reader = "XL_mg"     -> LET mg(v) == TruncDiv(v * 61 * (range \div 2), 1000)
                               IN  OnAxes(axes, mg)
    [] reader = "Gyro_mdps" -> LET mdps(v) == TruncDiv(v * 35 * (range \div 125), 8)
                               IN  OnAxes(axes, mdps)
    [] OTHER                -> axes

Reader == {"RawXL", "RawGyro", "XL_mg", "Gyro_mdps"}

PartRange == [s \in Sub |-> IF s = "XL" THEN RangeXL(ctrl[CTRL1_XL])
                                        ELSE RangeGyro(ctrl[CTRL2_G])]

Contract == INSTANCE ImuContract WITH range <- PartRange

(* The driver with its part implements the contract: every OK sample read  *)
(* of a trusted sub-sensor delivers that sub-sensor's sample at the range  *)
(* it runs at, and no failed call touches what was delivered before.       *)
ImplementsContract == Contract!Spec
=============================================================================
