---------------------------- MODULE ICM42688 ----------------------------
(***************************************************************************)
(* The ICM42688 driver (src/icm42688.c) with the part it drives.           *)
(*                                                                         *)
(* ICM42688_Init writes the two range registers, powers the sub-sensors    *)
(* on, waits out their settling time and only then caches the ranges; a    *)
(* bus without a delay hook ends it with ERR_ARG after the power write.    *)
(* Between two of its steps the part may sample, lose its power or fail    *)
(* the transaction.  Every other operation is one bus transaction and so   *)
(* one action.                                                             *)
(*                                                                         *)
(* `trust' and `intact' are history variables: nothing reads them but      *)
(* properties and one another.                                             *)
(***************************************************************************)
EXTENDS RegisterBus, Decode

CONSTANTS
  Configs,       \* the ICM42688_Config_t values the application passes to Init
  AppWrites,     \* the <<register, byte>> pairs it writes with ICM42688_WriteReg
  ChipIds,       \* what may answer at the bus address
  Samples,       \* what the sub-sensors may measure: signed counts
  PastTheTable   \* the words that may lie beyond the accelerometer's table

PWR_MGMT0     == \h4E
GYRO_CONFIG0  == \h4F
ACCEL_CONFIG0 == \h50
WHO_AM_I      == \h75
TEMP_DATA1    == \h1D
ACCEL_DATA_X1 == \h1F
GYRO_DATA_X1  == \h25
WHO_AM_I_VALUE == \h47

Ctrl == {PWR_MGMT0, GYRO_CONFIG0, ACCEL_CONFIG0}
Sub  == {"Accel", "Gyro", "Temp"}

-----------------------------------------------------------------------------
(* Scaling: ICM42688_AccelFullScale_t and ICM42688_GyroFullScale_t codes,  *)
(* and the sensitivity tables they index (LSB/g, and LSB/dps x10).         *)

(* Seeded fault: the field shifted one place short.                        *)
AccelFullScaleShifted(AccelConfig0) == Field(AccelConfig0, 16, 8)

AccelFullScale(AccelConfig0) == Field(AccelConfig0, 32, 8)
GyroFullScale(GyroConfig0) == Field(GyroConfig0, 32, 8)

AccelSensitivity == [fs \in 0..3 |-> <<2048, 4096, 8192, 16384>>[fs + 1]]
GyroSensitivity  == [fs \in 0..7 |->
  <<164, 328, 655, 1310, 2620, 5243, 10486, 20972>>[fs + 1]]

(* ICM42688_Config_t, by register.                                         *)
ASSUME ConfigsAssumption      == Configs \subseteq [Ctrl -> Byte]
ASSUME AppWritesAssumption    == AppWrites \subseteq Ctrl \X Byte
ASSUME ChipIdsAssumption      == ChipIds \subseteq Byte
ASSUME SamplesAssumption      == Samples \subseteq [Accel : Axes16, Gyro : Axes16, Temp : Int16]
ASSUME PastTheTableAssumption == PastTheTable \subseteq 1..2147483647

-----------------------------------------------------------------------------
VARIABLES
  ctrl,      \* [Ctrl -> Byte]: the part's control registers
  sample,    \* [Sub -> sample]: what its sub-sensors measured last
  settling,  \* a sub-sensor was powered on and has not settled yet
  delayHook, \* the port provides bus.delay
  handle,    \* [Accel, Gyro]: the cached AccelFullScale and GyroFullScale codes
  pc,        \* 0: no call in progress; n: Init's next step
  cfg,       \* *pConfig of the Init in progress
  out,       \* [reader, data]: the output variable filled last
  status,    \* what the last call returned
  trust,     \* sub-sensors configured by the last OK Init and untouched since
  intact     \* no power loss during the Init in progress

device == <<ctrl, sample, settling>>
vars == <<ctrl, sample, settling, delayHook, handle, pc, cfg, out, status, trust, intact>>

(* Seeded fault: power first, as the registers are numbered and as the     *)
(* header's comment on ICM42688_Init lists them.                           *)
WriteOrderPowerFirst == <<PWR_MGMT0, GYRO_CONFIG0, ACCEL_CONFIG0>>

(* Init's writes in program order, and the steps that follow them.         *)
WriteOrder == <<GYRO_CONFIG0, ACCEL_CONFIG0, PWR_MGMT0>>
Wait  == 4
Cache == 5
NoConfig == [r \in Ctrl |-> 0]   \* cfg when no Init is in progress

-----------------------------------------------------------------------------
(* The part: control registers, output registers, identity.                *)

PowerOnCtrl == [r \in Ctrl |-> IF r = PWR_MGMT0 THEN 0 ELSE \h06]

(* The sub-sensors PWR_MGMT0 runs: GYRO_MODE, and ACCEL_MODE (00 and 01    *)
(* are both off).                                                          *)
Running(pwr) == {s \in {"Accel", "Gyro"} :
                   IF s = "Gyro" THEN Field(pwr, 4, 4) # 0 ELSE Field(pwr, 1, 4) >= 2}

(* What the part serves: the last sample, or anything while it settles.    *)
Served == IF settling THEN Samples ELSE {sample}

(* A signed count per axis in consecutive registers, high byte first.      *)
OutputByte(axes, i) ==
  LET v == axes[(i \div 2) + 1]
  IN  IF i % 2 = 0 THEN HighByte(v) ELSE LowByte(v)

OutputRegisters(view) ==
  [r \in TEMP_DATA1..GYRO_DATA_X1 + 5 |->
     IF r < ACCEL_DATA_X1 THEN OutputByte(<<view.Temp>>, r - TEMP_DATA1)
     ELSE IF r < GYRO_DATA_X1 THEN OutputByte(view.Accel, r - ACCEL_DATA_X1)
     ELSE OutputByte(view.Gyro, r - GYRO_DATA_X1)]

(* The sub-sensors whose configuration a control register is part of.      *)
Governs(reg) ==
  CASE reg = ACCEL_CONFIG0 -> {"Accel"} [] reg = GYRO_CONFIG0 -> {"Gyro"} [] OTHER -> Sub

Lands(reg, byte) ==
  /\ ctrl' = [ctrl EXCEPT ![reg] = byte]
  /\ trust' = trust \ Governs(reg)
  /\ settling' = (settling \/ (reg = PWR_MGMT0 /\ Running(byte) \ Running(ctrl[reg]) # {}))

(* A write transaction.  One that fails may have reached the part all the  *)
(* same: the transport promises nothing else.                              *)
Transaction(reg, byte, s) ==
  \/ s \in {"OK"} \cup TransportError /\ Lands(reg, byte)
  \/ s \in TransportError /\ UNCHANGED <<ctrl, trust, settling>>

-----------------------------------------------------------------------------
Idle == pc = 0

Init ==
  /\ ctrl = PowerOnCtrl
  /\ sample \in Samples
  /\ settling = FALSE
  /\ delayHook \in BOOLEAN
  /\ handle = [Accel |-> 0, Gyro |-> 0]
  /\ pc = 0
  /\ cfg = NoConfig
  /\ out = [reader |-> "none", data |-> 0]
  /\ status = "OK"
  /\ trust = {}
  /\ intact = TRUE

(* Seeded fault: the ranges are cached before they are written.            *)
CallInitCachingFirst(c) ==
  /\ Idle
  /\ pc' = 1
  /\ cfg' = c
  /\ handle' = [Accel |-> AccelFullScale(c[ACCEL_CONFIG0]),
                Gyro  |-> GyroFullScale(c[GYRO_CONFIG0])]
  /\ UNCHANGED <<device, delayHook, out, status, trust, intact>>

(* ICM42688_Init: the call, each write, the wait and the caching.          *)
CallInit(c) ==
  /\ Idle
  /\ pc' = 1
  /\ cfg' = c
  /\ UNCHANGED <<device, delayHook, handle, out, status, trust, intact>>

InitWriteOK ==
  /\ pc \in DOMAIN WriteOrder
  /\ Transaction(WriteOrder[pc], cfg[WriteOrder[pc]], "OK")
  /\ pc' = pc + 1
  /\ UNCHANGED <<sample, delayHook, handle, cfg, out, status, intact>>

(* The call ends and pConfig is out of scope.                              *)
Return(s) ==
  /\ status' = s
  /\ pc' = 0
  /\ cfg' = NoConfig
  /\ intact' = TRUE

InitWriteFails(e) ==
  /\ pc \in DOMAIN WriteOrder
  /\ Transaction(WriteOrder[pc], cfg[WriteOrder[pc]], e)
  /\ Return(e)
  /\ UNCHANGED <<sample, delayHook, handle, out>>

(* Seeded fault: a missing hook is skipped in silence.                     *)
InitSkipsMissingHook ==
  /\ pc = Wait /\ ~delayHook
  /\ pc' = Cache
  /\ UNCHANGED <<device, delayHook, handle, cfg, out, status, trust, intact>>

InitCannotWait ==
  /\ pc = Wait /\ ~delayHook
  /\ Return("ERR_ARG")
  /\ UNCHANGED <<device, delayHook, handle, out, trust>>

(* Seeded fault: the delay is left out.                                    *)
InitSkipsDelay ==
  /\ pc = Wait /\ delayHook
  /\ pc' = Cache
  /\ UNCHANGED <<device, delayHook, handle, cfg, out, status, trust, intact>>

InitWaits ==
  /\ pc = Wait /\ delayHook
  /\ settling' = FALSE    \* 1 ms is longer than the 200 us the part needs
  /\ pc' = Cache
  /\ UNCHANGED <<ctrl, sample, delayHook, handle, cfg, out, status, trust, intact>>

InitReturns ==
  /\ pc = Cache
  /\ handle' = [Accel |-> AccelFullScale(cfg[ACCEL_CONFIG0]),
                Gyro  |-> GyroFullScale(cfg[GYRO_CONFIG0])]
  /\ Return("OK")
  /\ trust' = IF intact THEN Sub ELSE trust
  /\ UNCHANGED <<device, delayHook, out>>

-----------------------------------------------------------------------------
(* One read transaction: on success the output variable is filled, on a    *)
(* transport error it is left alone.                                       *)
Reads(reader, data) ==
  /\ Idle
  /\ \/ status' = "OK" /\ out' = [reader |-> reader, data |-> data]
     \/ status' \in TransportError /\ out' = out
  /\ UNCHANGED <<device, delayHook, handle, pc, cfg, trust, intact>>

(* ICM42688_ReadRawAccel and ICM42688_ReadRawGyro: six bytes from `base'.   *)
RawAxes(base, view) ==
  LET buffer == Burst(OutputRegisters(view), base, 6, TRUE)
  IN  <<BigEndian16(buffer[1], buffer[2]),
        BigEndian16(buffer[3], buffer[4]),
        BigEndian16(buffer[5], buffer[6])>>

RawTemperature(view) ==
  LET buffer == Burst(OutputRegisters(view), TEMP_DATA1, 2, TRUE)
  IN  BigEndian16(buffer[1], buffer[2])

(* The table entry a cached accelerometer code selects; beyond the table   *)
(* the read is undefined and finds whatever word lies there.               *)
AccelEntry(fs) ==
  IF fs \in DOMAIN AccelSensitivity THEN {AccelSensitivity[fs]} ELSE PastTheTable

ReadRawAccel == \E view \in Served : Reads("RawAccel", RawAxes(ACCEL_DATA_X1, view))
ReadRawGyro  == \E view \in Served : Reads("RawGyro", RawAxes(GYRO_DATA_X1, view))

ReadAccel_mg ==
  \E view \in Served, sensitivity \in AccelEntry(handle.Accel) :
    LET mg(v) == TruncDiv(v * 1000, sensitivity)
    IN  Reads("Accel_mg", OnAxes(RawAxes(ACCEL_DATA_X1, view), mg))

ReadGyro_mdps ==
  \E view \in Served :
    LET mdps(v) == TruncDiv(v * 10000, GyroSensitivity[handle.Gyro])
    IN  Reads("Gyro_mdps", OnAxes(RawAxes(GYRO_DATA_X1, view), mdps))

(* raw / 132.48 + 25, in units of 1/13248 degC.                            *)
ReadTemperature ==
  \E view \in Served : Reads("Temperature", 100 * RawTemperature(view) + 25 * 13248)

ReadReg(reg) == Reads("Reg", ctrl[reg])

CheckWhoAmI(id) ==
  /\ Idle
  /\ status' \in {WhoAmIStatus(id, WHO_AM_I_VALUE)} \cup TransportError
  /\ UNCHANGED <<device, delayHook, handle, pc, cfg, out, trust, intact>>

WriteReg(reg, byte, s) ==
  /\ Idle
  /\ Transaction(reg, byte, s)
  /\ status' = s
  /\ UNCHANGED <<sample, delayHook, handle, pc, cfg, out, intact>>

-----------------------------------------------------------------------------
(* The part on its own, between any two transactions.                      *)
NewSample(measured) ==
  /\ sample' = measured
  /\ UNCHANGED <<ctrl, settling, delayHook, handle, pc, cfg, out, status, trust, intact>>

Settles ==
  /\ settling /\ settling' = FALSE
  /\ UNCHANGED <<ctrl, sample, delayHook, handle, pc, cfg, out, status, trust, intact>>

(* The part (not the microcontroller) loses its power and comes back.      *)
PowerCycle ==
  /\ ctrl' = PowerOnCtrl
  /\ settling' = FALSE
  /\ trust' = {}
  /\ intact' = (pc = 0)
  /\ UNCHANGED <<sample, delayHook, handle, pc, cfg, out, status>>

InitStep ==
  \/ InitWriteOK
  \/ \E e \in TransportError : InitWriteFails(e)
  \/ InitCannotWait
  \/ InitWaits
  \/ InitReturns

Next ==
  \/ \E c \in Configs : CallInit(c)
  \/ InitStep
  \/ ReadRawAccel \/ ReadRawGyro \/ ReadAccel_mg \/ ReadGyro_mdps \/ ReadTemperature
  \/ \E reg \in Ctrl : ReadReg(reg)
  \/ \E id \in ChipIds : CheckWhoAmI(id)
  \/ \E w \in AppWrites, s \in {"OK"} \cup TransportError : WriteReg(w[1], w[2], s)
  \/ \E measured \in Samples : NewSample(measured)
  \/ Settles
  \/ PowerCycle

Spec == Init /\ [][Next]_vars
-----------------------------------------------------------------------------
(* Properties.                                                             *)

(* What the output variables may hold.                                     *)
Outputs ==
  [reader : {"none", "Reg"}, data : Byte]
    \cup [reader : {"RawAccel", "RawGyro"}, data : Axes16]
    \cup [reader : {"Accel_mg", "Gyro_mdps"}, data : Axes32]
    \cup [reader : {"Temperature"}, data : Int32]

(* Every reader delivers int16_t or int32_t values, the registers hold     *)
(* bytes and the cached codes are three bits.                              *)
TypeOK ==
  /\ ctrl \in [Ctrl -> Byte]
  /\ sample \in Samples
  /\ settling \in BOOLEAN
  /\ delayHook \in BOOLEAN
  /\ handle \in [Accel : 0..7, Gyro : 0..7]
  /\ pc \in 0..Cache
  /\ cfg \in IF pc = 0 THEN {NoConfig} ELSE Configs
  /\ out \in Outputs
  /\ status \in Status
  /\ trust \subseteq Sub
  /\ intact \in BOOLEAN

(* The range the part runs at, in g and in thousandths of a dps.           *)
RangeAccel(config) == <<16, 8, 4, 2, 0, 0, 0, 0>>[(config \div 32) + 1]
RangeGyro(config)  ==
  <<2000000, 1000000, 500000, 250000, 125000, 62500, 31250, 15625>>[(config \div 32) + 1]

(* Between the calls and inside them, a trusted sub-sensor runs at the     *)
(* range whose sensitivity the cached code selects: sensitivity times      *)
(* range is the 2^15 counts of half the scale, exactly for the             *)
(* accelerometer and within 0.1 % for the gyroscope, whose datasheet       *)
(* sensitivities are rounded.  A failed, repeated or interrupted Init, a   *)
(* raw write or a power loss never leaves a reader scaling a trusted       *)
(* sub-sensor with another range's factor.                                 *)
TrustedRange ==
  /\ "Accel" \in trust =>
       AccelSensitivity[handle.Accel] * RangeAccel(ctrl[ACCEL_CONFIG0]) = 32768
  /\ "Gyro" \in trust =>
       LET counts == GyroSensitivity[handle.Gyro] * RangeGyro(ctrl[GYRO_CONFIG0])
       IN  327680000 - 327680 <= counts /\ counts <= 327680000 + 327680

(* Init never returns OK before the sub-sensors it powered have settled:   *)
(* a trusted sub-sensor is never one that serves unfinished registers.     *)
(* This is what the mandatory delay, and ERR_ARG without a delay hook, are *)
(* for.                                                                    *)
TrustedIsSettled == trust # {} => ~settling

(* Init powers a sub-sensor on only when its range register already holds  *)
(* what the caller asked for, unless the part lost its power on the way    *)
(* (README: "must configure full-scale before PWR_MGMT0 powers the sensors *)
(* on").                                                                   *)
RangeOf(s) == IF s = "Gyro" THEN GYRO_CONFIG0 ELSE ACCEL_CONFIG0

PoweredOnAfterRange ==
  [][InitStep /\ intact =>
       \A s \in Running(ctrl'[PWR_MGMT0]) \ Running(ctrl[PWR_MGMT0]) :
         ctrl[RangeOf(s)] = cfg[RangeOf(s)]]_vars

(* test_icm42688.c: "full-scale and ODR must be set while the sub-sensors  *)
(* are still off".  Init never powers them off first, so an Init on a part *)
(* that already runs breaks it.                                            *)
RangeSetWhileOff ==
  [][InitStep =>
       \A s \in Running(ctrl[PWR_MGMT0]) : ctrl'[RangeOf(s)] = ctrl[RangeOf(s)]]_vars

(* ICM42688_ReadAccel_mg indexes a table of four with the cached 3-bit     *)
(* code: with configurations that have a name in ICM42688_AccelFullScale_t *)
(* ("enumerator values equal the raw 3-bit ACCEL_FS_SEL code") the code    *)
(* always has an entry, whatever failed in between.  A caller's reserved   *)
(* code would index past the table.                                        *)
CachedCodeIsNamed == handle.Accel \in DOMAIN AccelSensitivity

-----------------------------------------------------------------------------
(* What the caller is promised, with no register and no cache.             *)

SubOf(reader) ==
  CASE reader \in {"RawAccel", "Accel_mg"} -> "Accel"
    [] reader \in {"RawGyro", "Gyro_mdps"} -> "Gyro"
    [] OTHER                               -> "Temp"

(* The datasheet's LSB/dps x10, by range in dps for the whole ranges.      *)
GyroLSB(range) ==
  CASE range = 2000000 -> 164  [] range = 1000000 -> 328
    [] range = 500000  -> 655  [] range = 250000  -> 1310
    [] range = 125000  -> 2620 [] range = 62500   -> 5243
    [] range = 31250   -> 10486 [] range = 15625  -> 20972

Output(reader, measured, range) ==
  CASE reader = "Accel_mg"    -> LET mg(v) == TruncDiv(v * 1000 * range, 32768)
                                 IN  OnAxes(measured, mg)
    [] reader = "Gyro_mdps"   -> LET mdps(v) == TruncDiv(v * 10000, GyroLSB(range))
                                 IN  OnAxes(measured, mdps)
    [] reader = "Temperature" -> 100 * measured + 331200
    [] OTHER                  -> measured

Reader == {"RawAccel", "RawGyro", "Accel_mg", "Gyro_mdps", "Temperature"}

PartRange == [s \in Sub |-> CASE s = "Accel" -> RangeAccel(ctrl[ACCEL_CONFIG0])
                              [] s = "Gyro"  -> RangeGyro(ctrl[GYRO_CONFIG0])
                              [] OTHER       -> 0]

Contract == INSTANCE ImuContract WITH range <- PartRange

(* The driver with its part implements the contract: every OK sample read  *)
(* of a trusted sub-sensor delivers that sub-sensor's sample at the range  *)
(* it runs at, and no failed call touches what was delivered before.       *)
ImplementsContract == Contract!Spec
=============================================================================
