------------------------- MODULE ICM42688Proofs -------------------------
(***************************************************************************)
(* Theorems about the ICM42688 driver: for every set of configurations,    *)
(* every set of raw writes and every set of samples, what the runs of      *)
(* MCICM42688 check on a small instance.  The inductive invariant makes no *)
(* difference between accelerometer ranges; the theorems that only hold    *)
(* for ranges the part has say so.                                         *)
(***************************************************************************)
EXTENDS ICM42688, TLAPS

USE DEF PWR_MGMT0, GYRO_CONFIG0, ACCEL_CONFIG0, Wait, Cache

(* The application asks Init for accelerometer ranges the part has.  This  *)
(* is said of the register byte and the part, not of the driver's code.    *)
Documented == \A c \in Configs : RangeAccel(c[ACCEL_CONFIG0]) # 0

-----------------------------------------------------------------------------
(* Two bytes of a count.                                                   *)

(* The two bytes the part holds for a signed count, high byte first,       *)
(* decode to that count.                                                   *)
LEMMA RoundTrip ==
  ASSUME NEW v \in Int16
  PROVE  BigEndian16(HighByte(v), LowByte(v)) = v
BY DEF Int16, BigEndian16, ToInt16, LowByte, HighByte

-----------------------------------------------------------------------------
(* Reading the output registers.                                           *)

LEMMA ReadsBack ==
  ASSUME NEW view \in Samples
  PROVE  /\ RawAxes(ACCEL_DATA_X1, view) = view.Accel
         /\ RawAxes(GYRO_DATA_X1, view) = view.Gyro
         /\ RawTemperature(view) = view.Temp
<1> USE DEF Burst, OutputRegisters, OutputByte, ACCEL_DATA_X1, TEMP_DATA1, GYRO_DATA_X1
<1>1. /\ view.Accel \in Axes16 /\ view.Gyro \in Axes16 /\ view.Temp \in Int16
  BY SamplesAssumption
<1>2. RawAxes(ACCEL_DATA_X1, view) = view.Accel
  <2>1. PICK x \in Int16, y \in Int16, z \in Int16 : view.Accel = <<x, y, z>>
    BY <1>1 DEF Axes16
  <2> DEFINE buffer == Burst(OutputRegisters(view), ACCEL_DATA_X1, 6, TRUE)
  <2>2. /\ buffer[1] = HighByte(x) /\ buffer[2] = LowByte(x)
        /\ buffer[3] = HighByte(y) /\ buffer[4] = LowByte(y)
        /\ buffer[5] = HighByte(z) /\ buffer[6] = LowByte(z)
    BY <2>1
  <2>3. RawAxes(ACCEL_DATA_X1, view) =
          <<BigEndian16(buffer[1], buffer[2]), BigEndian16(buffer[3], buffer[4]),
            BigEndian16(buffer[5], buffer[6])>>
    BY Zenon DEF RawAxes
  <2> HIDE DEF buffer
  <2> QED
    BY <2>1, <2>2, <2>3, RoundTrip
<1>3. RawAxes(GYRO_DATA_X1, view) = view.Gyro
  <2>1. PICK x \in Int16, y \in Int16, z \in Int16 : view.Gyro = <<x, y, z>>
    BY <1>1 DEF Axes16
  <2> DEFINE buffer == Burst(OutputRegisters(view), GYRO_DATA_X1, 6, TRUE)
  <2>2. /\ buffer[1] = HighByte(x) /\ buffer[2] = LowByte(x)
        /\ buffer[3] = HighByte(y) /\ buffer[4] = LowByte(y)
        /\ buffer[5] = HighByte(z) /\ buffer[6] = LowByte(z)
    BY <2>1
  <2>3. RawAxes(GYRO_DATA_X1, view) =
          <<BigEndian16(buffer[1], buffer[2]), BigEndian16(buffer[3], buffer[4]),
            BigEndian16(buffer[5], buffer[6])>>
    BY Zenon DEF RawAxes
  <2> HIDE DEF buffer
  <2> QED
    BY <2>1, <2>2, <2>3, RoundTrip
<1>4. RawTemperature(view) = view.Temp
  <2> DEFINE buffer == Burst(OutputRegisters(view), TEMP_DATA1, 2, TRUE)
  <2>1. buffer[1] = HighByte(view.Temp) /\ buffer[2] = LowByte(view.Temp)
    BY <1>1
  <2>2. RawTemperature(view) = BigEndian16(buffer[1], buffer[2])
    BY Zenon DEF RawTemperature
  <2> HIDE DEF buffer
  <2> QED
    BY <1>1, <2>1, <2>2, RoundTrip
<1> QED
  BY <1>2, <1>3, <1>4

-----------------------------------------------------------------------------
(* Scaling: with every entry of the tables the product and the quotient of *)
(* a count stay inside int32_t.                                            *)

LEMMA AccelScales ==
  ASSUME NEW v \in Int16, NEW fs \in 0..3
  PROVE  TruncDiv(v * 1000, AccelSensitivity[fs]) \in Int32
BY DEF TruncDiv, AccelSensitivity, Int16, Int32

LEMMA GyroScales ==
  ASSUME NEW v \in Int16, NEW fs \in 0..7
  PROVE  TruncDiv(v * 10000, GyroSensitivity[fs]) \in Int32
BY DEF TruncDiv, GyroSensitivity, Int16, Int32

LEMMA TemperatureScales ==
  ASSUME NEW v \in Int16
  PROVE  100 * v + 25 * 13248 \in Int32
BY DEF Int16, Int32

LEMMA CodesOfByte ==
  ASSUME NEW b \in Byte
  PROVE  AccelFullScale(b) \in 0..7 /\ GyroFullScale(b) \in 0..7
BY DEF Byte, AccelFullScale, GyroFullScale, Field

-----------------------------------------------------------------------------
(* The inductive invariant.  What Init's progress has already written is   *)
(* still in the registers unless the part lost its power on the way; the   *)
(* cached codes agree with the registers of every trusted sub-sensor; the  *)
(* wait before the caching has settled the part.                           *)

(* TypeOK of all but the caller's output, which a reserved accelerometer   *)
(* code may fill with anything.                                            *)
Types ==
  /\ ctrl \in [Ctrl -> Byte]
  /\ sample \in Samples
  /\ settling \in BOOLEAN
  /\ delayHook \in BOOLEAN
  /\ handle \in [Accel : 0..7, Gyro : 0..7]
  /\ pc \in 0..Cache
  /\ cfg \in IF pc = 0 THEN {NoConfig} ELSE Configs
  /\ status \in Status
  /\ trust \subseteq Sub
  /\ intact \in BOOLEAN

CacheAgrees ==
  /\ "Accel" \in trust => handle.Accel = AccelFullScale(ctrl[ACCEL_CONFIG0])
  /\ "Gyro" \in trust => handle.Gyro = GyroFullScale(ctrl[GYRO_CONFIG0])

InitProgress ==
  /\ ~intact => trust = {}
  /\ pc = Cache => ~settling
  /\ intact /\ pc > 1 => ctrl[GYRO_CONFIG0] = cfg[GYRO_CONFIG0]
  /\ intact /\ pc > 2 => ctrl[ACCEL_CONFIG0] = cfg[ACCEL_CONFIG0]

IInv == Types /\ TrustedIsSettled /\ CacheAgrees /\ InitProgress

LEMMA InitEstablishes == Init => IInv
<1> SUFFICES ASSUME Init PROVE IInv
  OBVIOUS
<1>1. Types
  <2>1. ctrl \in [Ctrl -> Byte]
    BY DEF Init, PowerOnCtrl, Byte
  <2>3. cfg \in IF pc = 0 THEN {NoConfig} ELSE Configs
    BY DEF Init
  <2>4. handle \in [Accel : 0..7, Gyro : 0..7] /\ pc \in 0..Cache
    BY DEF Init
  <2>5. sample \in Samples /\ settling \in BOOLEAN /\ delayHook \in BOOLEAN /\ intact \in BOOLEAN
    BY DEF Init
  <2>6. status \in Status /\ trust \subseteq Sub
    BY DEF Init, Status
  <2> QED
    BY <2>1, <2>3, <2>4, <2>5, <2>6 DEF Types
<1>2. TrustedIsSettled /\ CacheAgrees /\ InitProgress
  BY DEF Init, TrustedIsSettled, CacheAgrees, InitProgress
<1> QED
  BY <1>1, <1>2 DEF IInv

(* A read fills the output variable or leaves it alone, and nothing else.  *)
LEMMA ReadsPreserve ==
  ASSUME IInv, NEW reader, NEW data, Reads(reader, data)
  PROVE  IInv'
<1>1. Types'
  BY DEF IInv, Types, Reads, device, Status, TransportError
<1>2. TrustedIsSettled' /\ CacheAgrees' /\ InitProgress'
  BY DEF IInv, TrustedIsSettled, CacheAgrees, InitProgress, Reads, device
<1> QED
  BY <1>1, <1>2 DEF IInv

(* A write transaction, by Init or by the application.                     *)
LEMMA TransactionLands ==
  ASSUME IInv, NEW reg \in Ctrl, NEW byte \in Byte,
         NEW s \in {"OK"} \cup TransportError, Transaction(reg, byte, s)
  PROVE  /\ ctrl' \in [Ctrl -> Byte]
         /\ trust' \subseteq trust
         /\ settling' \in BOOLEAN
         /\ trust' # {} => ~settling'
         /\ "Accel" \in trust' => ctrl'[ACCEL_CONFIG0] = ctrl[ACCEL_CONFIG0]
         /\ "Gyro" \in trust' => ctrl'[GYRO_CONFIG0] = ctrl[GYRO_CONFIG0]
         /\ \A r \in Ctrl \ {reg} : ctrl'[r] = ctrl[r]
         /\ s = "OK" => ctrl'[reg] = byte
<1>1. CASE Lands(reg, byte)
  <2>1. trust' \subseteq trust /\ ctrl' \in [Ctrl -> Byte] /\ settling' \in BOOLEAN
    BY <1>1 DEF Lands, IInv, Types
  <2>2. trust' # {} => ~settling'
    <3>1. CASE reg = PWR_MGMT0
      BY <1>1, <3>1 DEF Lands, Governs, IInv, Types
    <3>2. CASE reg # PWR_MGMT0
      BY <1>1, <3>2 DEF Lands, IInv, Types, TrustedIsSettled
    <3> QED
      BY <3>1, <3>2
  <2>3. /\ "Accel" \in trust' => ctrl'[ACCEL_CONFIG0] = ctrl[ACCEL_CONFIG0]
        /\ "Gyro" \in trust' => ctrl'[GYRO_CONFIG0] = ctrl[GYRO_CONFIG0]
    BY <1>1 DEF Lands, Governs, IInv, Types, Ctrl
  <2>4. ctrl'[reg] = byte /\ \A r \in Ctrl \ {reg} : ctrl'[r] = ctrl[r]
    BY <1>1 DEF Lands, IInv, Types
  <2> QED
    BY <2>1, <2>2, <2>3, <2>4
<1>2. CASE s # "OK" /\ UNCHANGED <<ctrl, trust, settling>>
  BY <1>2 DEF IInv, Types, TrustedIsSettled
<1> QED
  BY <1>1, <1>2 DEF Transaction, TransportError

(* The byte Init writes next is a byte of the configuration it was called  *)
(* with.                                                                   *)
LEMMA NextWrite ==
  ASSUME IInv, pc \in DOMAIN WriteOrder
  PROVE  /\ pc \in 1..3
         /\ cfg \in Configs
         /\ WriteOrder[pc] \in Ctrl
         /\ cfg[WriteOrder[pc]] \in Byte
         /\ WriteOrder[pc] = IF pc = 1 THEN GYRO_CONFIG0
                              ELSE IF pc = 2 THEN ACCEL_CONFIG0 ELSE PWR_MGMT0
<1>1. pc \in 1..3
  BY DEF WriteOrder
<1>2. cfg \in Configs
  BY <1>1 DEF IInv, Types
<1>3. WriteOrder[pc] \in Ctrl
  BY <1>1 DEF WriteOrder, Ctrl
<1>4. cfg[WriteOrder[pc]] \in Byte
  BY <1>2, <1>3, ConfigsAssumption
<1>5. WriteOrder[pc] = IF pc = 1 THEN GYRO_CONFIG0
                       ELSE IF pc = 2 THEN ACCEL_CONFIG0 ELSE PWR_MGMT0
  BY <1>1 DEF WriteOrder
<1> QED
  BY <1>1, <1>2, <1>3, <1>4, <1>5

LEMMA InitWriteOKPreserves ==
  ASSUME IInv, InitWriteOK
  PROVE  IInv'
<1>1. /\ pc \in 1..3 /\ WriteOrder[pc] \in Ctrl /\ cfg[WriteOrder[pc]] \in Byte
      /\ WriteOrder[pc] = IF pc = 1 THEN GYRO_CONFIG0
                           ELSE IF pc = 2 THEN ACCEL_CONFIG0 ELSE PWR_MGMT0
  BY NextWrite DEF InitWriteOK
<1>2. /\ ctrl' \in [Ctrl -> Byte]
      /\ trust' \subseteq trust
      /\ settling' \in BOOLEAN
      /\ trust' # {} => ~settling'
      /\ "Accel" \in trust' => ctrl'[ACCEL_CONFIG0] = ctrl[ACCEL_CONFIG0]
      /\ "Gyro" \in trust' => ctrl'[GYRO_CONFIG0] = ctrl[GYRO_CONFIG0]
      /\ \A r \in Ctrl \ {WriteOrder[pc]} : ctrl'[r] = ctrl[r]
      /\ ctrl'[WriteOrder[pc]] = cfg[WriteOrder[pc]]
  BY <1>1, TransactionLands DEF InitWriteOK
<1>3. Types'
  BY <1>1, <1>2 DEF InitWriteOK, IInv, Types
<1>4. TrustedIsSettled' /\ CacheAgrees'
  BY <1>2 DEF InitWriteOK, IInv, TrustedIsSettled, CacheAgrees
<1>5. InitProgress'
  BY <1>1, <1>2 DEF InitWriteOK, IInv, InitProgress, Types, Ctrl
<1> QED
  BY <1>3, <1>4, <1>5 DEF IInv

LEMMA InitWriteFailsPreserves ==
  ASSUME IInv, NEW e \in TransportError, InitWriteFails(e)
  PROVE  IInv'
<1>1. WriteOrder[pc] \in Ctrl /\ cfg[WriteOrder[pc]] \in Byte
  BY NextWrite DEF InitWriteFails
<1>2. /\ ctrl' \in [Ctrl -> Byte]
      /\ trust' \subseteq trust
      /\ settling' \in BOOLEAN
      /\ trust' # {} => ~settling'
      /\ "Accel" \in trust' => ctrl'[ACCEL_CONFIG0] = ctrl[ACCEL_CONFIG0]
      /\ "Gyro" \in trust' => ctrl'[GYRO_CONFIG0] = ctrl[GYRO_CONFIG0]
  BY <1>1, TransactionLands DEF InitWriteFails
<1>3. Types'
  BY <1>2 DEF InitWriteFails, Return, IInv, Types, Status, TransportError
<1>4. TrustedIsSettled' /\ CacheAgrees' /\ InitProgress'
  BY <1>2 DEF InitWriteFails, Return, IInv, TrustedIsSettled, CacheAgrees, InitProgress
<1> QED
  BY <1>3, <1>4 DEF IInv

(* The caching: everything Init wrote is still there, or nothing is        *)
(* trusted.                                                                *)
LEMMA InitReturnsPreserves ==
  ASSUME IInv, InitReturns
  PROVE  IInv'
<1>1. cfg \in Configs
  BY DEF InitReturns, IInv, Types
<1>2. handle' \in [Accel : 0..7, Gyro : 0..7]
  <2>1. cfg[ACCEL_CONFIG0] \in Byte /\ cfg[GYRO_CONFIG0] \in Byte
    BY <1>1, ConfigsAssumption DEF Ctrl
  <2>2. AccelFullScale(cfg[ACCEL_CONFIG0]) \in 0..7 /\ GyroFullScale(cfg[GYRO_CONFIG0]) \in 0..7
    BY <2>1, CodesOfByte
  <2> QED
    BY <2>2 DEF InitReturns
<1>3. Types'
  BY <1>2 DEF InitReturns, Return, IInv, Types, device, Status
<1>4. CacheAgrees'
  BY <1>2 DEF InitReturns, Return, IInv, CacheAgrees, InitProgress, device
<1>5. TrustedIsSettled' /\ InitProgress'
  BY DEF InitReturns, Return, IInv, TrustedIsSettled, InitProgress, device
<1> QED
  BY <1>3, <1>4, <1>5 DEF IInv

LEMMA SomeRead ==
  ASSUME \/ ReadRawAccel \/ ReadRawGyro \/ ReadAccel_mg \/ ReadGyro_mdps
         \/ ReadTemperature \/ \E reg \in Ctrl : ReadReg(reg)
  PROVE  \E reader, data : Reads(reader, data)
<1>1. CASE ReadAccel_mg
  BY <1>1 DEF ReadAccel_mg, OnAxes
<1>2. CASE ReadGyro_mdps
  BY <1>2 DEF ReadGyro_mdps, OnAxes
<1>3. CASE \/ ReadRawAccel \/ ReadRawGyro \/ ReadTemperature
           \/ \E reg \in Ctrl : ReadReg(reg)
  BY <1>3 DEF ReadRawAccel, ReadRawGyro, ReadTemperature, ReadReg
<1> QED
  BY <1>1, <1>2, <1>3

LEMMA StepPreserves ==
  ASSUME IInv, [Next]_vars
  PROVE  IInv'
<1>1. ASSUME NEW c \in Configs, CallInit(c)
      PROVE  IInv'
  <2>1. Types'
    BY <1>1 DEF CallInit, Idle, IInv, Types, device
  <2>2. TrustedIsSettled' /\ CacheAgrees' /\ InitProgress'
    BY <1>1 DEF CallInit, IInv, TrustedIsSettled, CacheAgrees, InitProgress, device
  <2> QED
    BY <2>1, <2>2 DEF IInv
<1>2. CASE InitStep
  <2>1. CASE InitWriteOK
    BY <2>1, InitWriteOKPreserves
  <2>2. CASE \E e \in TransportError : InitWriteFails(e)
    BY <2>2, InitWriteFailsPreserves
  <2>3. CASE InitCannotWait
    <3>1. Types'
      BY <2>3 DEF InitCannotWait, Return, IInv, Types, device, Status
    <3>2. TrustedIsSettled' /\ CacheAgrees' /\ InitProgress'
      BY <2>3 DEF InitCannotWait, Return, IInv, TrustedIsSettled, CacheAgrees, InitProgress, device
    <3> QED
      BY <3>1, <3>2 DEF IInv
  <2>4. CASE InitWaits
    <3>1. Types'
      <4>1. settling' \in BOOLEAN
        BY Zenon, <2>4 DEF InitWaits
      <4>2. /\ pc' \in 0..Cache /\ pc' # 0 /\ pc # 0
            /\ UNCHANGED <<ctrl, sample, delayHook, handle, cfg, out, status, trust, intact>>
        BY <2>4 DEF InitWaits
      <4> QED
        BY <4>1, <4>2 DEF IInv, Types
    <3>2. TrustedIsSettled' /\ CacheAgrees' /\ InitProgress'
      BY <2>4 DEF InitWaits, IInv, TrustedIsSettled, CacheAgrees, InitProgress
    <3> QED
      BY <3>1, <3>2 DEF IInv
  <2>5. CASE InitReturns
    BY <2>5, InitReturnsPreserves
  <2> QED
    BY <1>2, <2>1, <2>2, <2>3, <2>4, <2>5 DEF InitStep
<1>3. CASE \/ ReadRawAccel \/ ReadRawGyro \/ ReadAccel_mg \/ ReadGyro_mdps
           \/ ReadTemperature \/ \E reg \in Ctrl : ReadReg(reg)
  BY <1>3, SomeRead, ReadsPreserve
<1>4. ASSUME NEW id \in ChipIds, CheckWhoAmI(id)
      PROVE  IInv'
  <2>1. status' \in Status
    BY <1>4 DEF CheckWhoAmI, WhoAmIStatus, Status, TransportError
  <2>2. Types'
    BY <1>4, <2>1 DEF CheckWhoAmI, IInv, Types, device
  <2>3. TrustedIsSettled' /\ CacheAgrees' /\ InitProgress'
    BY <1>4 DEF CheckWhoAmI, IInv, TrustedIsSettled, CacheAgrees, InitProgress, device
  <2> QED
    BY <2>2, <2>3 DEF IInv
<1>5. ASSUME NEW w \in AppWrites, NEW s \in {"OK"} \cup TransportError, WriteReg(w[1], w[2], s)
      PROVE  IInv'
  <2>1. w[1] \in Ctrl /\ w[2] \in Byte
    BY AppWritesAssumption
  <2>2. /\ ctrl' \in [Ctrl -> Byte]
        /\ trust' \subseteq trust
        /\ settling' \in BOOLEAN
        /\ trust' # {} => ~settling'
        /\ "Accel" \in trust' => ctrl'[ACCEL_CONFIG0] = ctrl[ACCEL_CONFIG0]
        /\ "Gyro" \in trust' => ctrl'[GYRO_CONFIG0] = ctrl[GYRO_CONFIG0]
    BY <1>5, <2>1, TransactionLands DEF WriteReg
  <2>3. Types'
    BY <1>5, <2>2 DEF WriteReg, IInv, Types, Status, TransportError
  <2>4. TrustedIsSettled' /\ CacheAgrees' /\ InitProgress'
    BY <1>5, <2>2 DEF WriteReg, Idle, IInv, TrustedIsSettled, CacheAgrees, InitProgress
  <2> QED
    BY <2>3, <2>4 DEF IInv
<1>6. ASSUME NEW measured \in Samples, NewSample(measured)
      PROVE  IInv'
  <2>1. Types'
    BY <1>6 DEF NewSample, IInv, Types
  <2>2. TrustedIsSettled' /\ CacheAgrees' /\ InitProgress'
    BY <1>6 DEF NewSample, IInv, TrustedIsSettled, CacheAgrees, InitProgress
  <2> QED
    BY <2>1, <2>2 DEF IInv
<1>7. CASE Settles
  <2>1. Types'
    BY <1>7 DEF Settles, IInv, Types
  <2>2. TrustedIsSettled' /\ CacheAgrees' /\ InitProgress'
    BY <1>7 DEF Settles, IInv, TrustedIsSettled, CacheAgrees, InitProgress
  <2> QED
    BY <2>1, <2>2 DEF IInv
<1>8. CASE PowerCycle
  <2>1. PowerOnCtrl \in [Ctrl -> Byte]
    BY DEF PowerOnCtrl, Byte
  <2>2. Types'
    <3>1. /\ ctrl' \in [Ctrl -> Byte] /\ settling' \in BOOLEAN
          /\ trust' \subseteq Sub /\ intact' \in BOOLEAN
      BY <1>8, <2>1 DEF PowerCycle
    <3>2. UNCHANGED <<sample, delayHook, handle, pc, cfg, out, status>>
      BY <1>8 DEF PowerCycle
    <3> QED
      BY <3>1, <3>2 DEF IInv, Types
  <2>3. TrustedIsSettled' /\ CacheAgrees' /\ InitProgress'
    <3>1. intact' => pc = 0
      BY Zenon, <1>8 DEF PowerCycle
    <3>2. trust' = {} /\ ~settling' /\ UNCHANGED <<handle, pc, cfg>>
      BY <1>8 DEF PowerCycle
    <3> QED
      BY <3>1, <3>2 DEF IInv, TrustedIsSettled, CacheAgrees, InitProgress
  <2> QED
    BY <2>2, <2>3 DEF IInv
<1>9. CASE UNCHANGED vars
  <2>1. Types'
    BY <1>9 DEF vars, IInv, Types
  <2>2. TrustedIsSettled' /\ CacheAgrees' /\ InitProgress'
    BY <1>9 DEF vars, IInv, TrustedIsSettled, CacheAgrees, InitProgress
  <2> QED
    BY <2>1, <2>2 DEF IInv
<1> QED
  BY <1>1, <1>2, <1>3, <1>4, <1>5, <1>6, <1>7, <1>8, <1>9 DEF Next

-----------------------------------------------------------------------------
(* The theorems.                                                           *)

LEMMA Invariance == Spec => []IInv
<1>1. Init => IInv
  BY InitEstablishes
<1>2. IInv /\ [Next]_vars => IInv'
  BY StepPreserves
<1> QED
  BY <1>1, <1>2, PTL DEF Spec

(* Init never returns OK before the sub-sensors it powered have settled.   *)
THEOREM SettledBeforeTrusted == Spec => []TrustedIsSettled
<1>1. IInv => TrustedIsSettled
  BY DEF IInv
<1> QED
  BY <1>1, Invariance, PTL

-----------------------------------------------------------------------------
(* The accelerometer's code: three bits, and a table of four entries.      *)

(* The table has an entry for the code of a byte exactly when the byte     *)
(* selects a range of the part.                                            *)
LEMMA EntryIffRange ==
  ASSUME NEW b \in Byte
  PROVE  AccelFullScale(b) \in DOMAIN AccelSensitivity <=> RangeAccel(b) # 0
<1>1. AccelFullScale(b) = b \div 32 /\ b \div 32 \in 0..7
  BY DEF AccelFullScale, Field, Byte
<1>2. AccelFullScale(b) \in DOMAIN AccelSensitivity <=> b \div 32 \in 0..3
  BY <1>1 DEF AccelSensitivity
<1>3. RangeAccel(b) # 0 <=> b \div 32 \in 0..3
  BY <1>1 DEF RangeAccel
<1> QED
  BY <1>2, <1>3

(* Init decides, and only Init: when it returns OK the cached code has an  *)
(* entry if the part has the range that was asked for, and has none if it  *)
(* has not.                                                                *)
EntryAsAsked ==
  [][/\ InitReturns => (CachedCodeIsNamed' <=> RangeAccel(cfg[ACCEL_CONFIG0]) # 0)
     /\ InitReturns \/ handle' = handle]_vars

LEMMA StepAsAsked ==
  ASSUME IInv, [Next]_vars
  PROVE  /\ InitReturns => (CachedCodeIsNamed' <=> RangeAccel(cfg[ACCEL_CONFIG0]) # 0)
         /\ InitReturns \/ handle' = handle
<1>1. ASSUME InitReturns
      PROVE  CachedCodeIsNamed' <=> RangeAccel(cfg[ACCEL_CONFIG0]) # 0
  <2>1. cfg[ACCEL_CONFIG0] \in Byte
    BY <1>1, ConfigsAssumption DEF InitReturns, IInv, Types, Ctrl
  <2>2. handle'.Accel = AccelFullScale(cfg[ACCEL_CONFIG0])
    BY <1>1 DEF InitReturns
  <2>3. CachedCodeIsNamed' <=> AccelFullScale(cfg[ACCEL_CONFIG0]) \in DOMAIN AccelSensitivity
    BY <2>2 DEF CachedCodeIsNamed
  <2> QED
    BY <2>1, <2>3, EntryIffRange
<1>2. ASSUME \/ ReadRawAccel \/ ReadRawGyro \/ ReadAccel_mg \/ ReadGyro_mdps
             \/ ReadTemperature \/ \E reg \in Ctrl : ReadReg(reg)
      PROVE  handle' = handle
  BY <1>2, SomeRead DEF Reads
<1> QED
  BY <1>1, <1>2 DEF Next, CallInit, InitStep, InitWriteOK, InitWriteFails, InitCannotWait,
     InitWaits, CheckWhoAmI, WriteReg, NewSample, Settles, PowerCycle, vars

LEMMA NamedStays ==
  ASSUME Documented, IInv, CachedCodeIsNamed, [Next]_vars
  PROVE  CachedCodeIsNamed'
<1>1. CASE InitReturns
  <2>1. RangeAccel(cfg[ACCEL_CONFIG0]) # 0
    BY <1>1 DEF InitReturns, IInv, Types, Documented
  <2> QED
    BY <1>1, <2>1, StepAsAsked
<1>2. CASE handle' = handle
  BY <1>2 DEF CachedCodeIsNamed
<1> QED
  BY <1>1, <1>2, StepAsAsked

(* ICM42688_ReadAccel_mg and its table of four.  Nothing validates the     *)
(* code: an Init that is asked for a reserved range returns OK and leaves  *)
(* a code without an entry, every time, until another Init returns OK; and *)
(* that is the only way to one, through every failure in between: while    *)
(* the part has the ranges it is asked for, the code has an entry.         *)
THEOREM CodeHasEntry ==
  /\ Spec => EntryAsAsked
  /\ Documented => (Spec => []CachedCodeIsNamed)
<1>1. Spec => EntryAsAsked
  <2>1. IInv /\ [Next]_vars =>
          [/\ InitReturns => (CachedCodeIsNamed' <=> RangeAccel(cfg[ACCEL_CONFIG0]) # 0)
           /\ InitReturns \/ handle' = handle]_vars
    BY StepAsAsked
  <2> QED
    BY <2>1, Invariance, PTL DEF Spec, EntryAsAsked
<1>2. ASSUME Documented
      PROVE  Spec => []CachedCodeIsNamed
  <2>1. Init => CachedCodeIsNamed
    BY DEF Init, CachedCodeIsNamed, AccelSensitivity
  <2>2. IInv /\ CachedCodeIsNamed /\ [Next]_vars => CachedCodeIsNamed'
    BY <1>2, NamedStays
  <2> QED
    BY <2>1, <2>2, Invariance, PTL DEF Spec
<1> QED
  BY <1>1, <1>2

LEMMA NamedInvariance == ASSUME Documented PROVE Spec => [](IInv /\ CachedCodeIsNamed)
BY CodeHasEntry, Invariance, PTL

(* Every reader delivers a value of its output type.                       *)
LEMMA ReadersDeliver ==
  ASSUME IInv, CachedCodeIsNamed, out \in Outputs,
         \/ ReadRawAccel \/ ReadRawGyro \/ ReadAccel_mg \/ ReadGyro_mdps
         \/ ReadTemperature \/ \E reg \in Ctrl : ReadReg(reg)
  PROVE  out' \in Outputs
<1>1. ASSUME NEW view \in Served
      PROVE  /\ view \in Samples
             /\ view.Accel \in Axes16 /\ view.Gyro \in Axes16 /\ view.Temp \in Int16
             /\ RawAxes(ACCEL_DATA_X1, view) = view.Accel
             /\ RawAxes(GYRO_DATA_X1, view) = view.Gyro
             /\ RawTemperature(view) = view.Temp
  <2>1. view \in Samples
    BY <1>1 DEF Served, IInv, Types
  <2> QED
    BY <2>1, ReadsBack, SamplesAssumption
<1>2. CASE ReadRawAccel
  <2>1. PICK view \in Served : Reads("RawAccel", RawAxes(ACCEL_DATA_X1, view))
    BY <1>2 DEF ReadRawAccel
  <2>2. [reader |-> "RawAccel", data |-> RawAxes(ACCEL_DATA_X1, view)] \in Outputs
    BY <1>1 DEF Outputs
  <2> QED
    BY <2>1, <2>2 DEF Reads
<1>3. CASE ReadRawGyro
  <2>1. PICK view \in Served : Reads("RawGyro", RawAxes(GYRO_DATA_X1, view))
    BY <1>3 DEF ReadRawGyro
  <2>2. [reader |-> "RawGyro", data |-> RawAxes(GYRO_DATA_X1, view)] \in Outputs
    BY <1>1 DEF Outputs
  <2> QED
    BY <2>1, <2>2 DEF Reads
<1>4. CASE ReadAccel_mg
  <2> DEFINE s == AccelSensitivity[handle.Accel]
  <2>1. AccelEntry(handle.Accel) = {s}
    BY DEF AccelEntry, CachedCodeIsNamed
  <2> DEFINE scaled(view) ==
        <<TruncDiv(RawAxes(ACCEL_DATA_X1, view)[1] * 1000, s),
          TruncDiv(RawAxes(ACCEL_DATA_X1, view)[2] * 1000, s),
          TruncDiv(RawAxes(ACCEL_DATA_X1, view)[3] * 1000, s)>>
  <2>2. PICK view \in Served : Reads("Accel_mg", scaled(view))
    BY <1>4, <2>1 DEF ReadAccel_mg, OnAxes
  <2>3. PICK x \in Int16, y \in Int16, z \in Int16 : view.Accel = <<x, y, z>>
    BY <1>1 DEF Axes16
  <2>4. handle.Accel \in 0..3
    BY DEF CachedCodeIsNamed, AccelSensitivity
  <2>5. /\ TruncDiv(x * 1000, s) \in Int32 /\ TruncDiv(y * 1000, s) \in Int32
        /\ TruncDiv(z * 1000, s) \in Int32
    BY <2>4, AccelScales
  <2> HIDE DEF s
  <2>6. scaled(view) \in Axes32
    BY <1>1, <2>3, <2>5 DEF Axes32
  <2> HIDE DEF scaled
  <2>7. [reader |-> "Accel_mg", data |-> scaled(view)] \in Outputs
    BY <2>6 DEF Outputs
  <2> QED
    BY <2>2, <2>7 DEF Reads
<1>5. CASE ReadGyro_mdps
  <2> DEFINE s == GyroSensitivity[handle.Gyro]
  <2> DEFINE scaled(view) ==
        <<TruncDiv(RawAxes(GYRO_DATA_X1, view)[1] * 10000, s),
          TruncDiv(RawAxes(GYRO_DATA_X1, view)[2] * 10000, s),
          TruncDiv(RawAxes(GYRO_DATA_X1, view)[3] * 10000, s)>>
  <2>2. PICK view \in Served : Reads("Gyro_mdps", scaled(view))
    BY <1>5 DEF ReadGyro_mdps, OnAxes
  <2>3. PICK x \in Int16, y \in Int16, z \in Int16 : view.Gyro = <<x, y, z>>
    BY <1>1 DEF Axes16
  <2>4. handle.Gyro \in 0..7
    BY DEF IInv, Types
  <2>5. /\ TruncDiv(x * 10000, s) \in Int32 /\ TruncDiv(y * 10000, s) \in Int32
        /\ TruncDiv(z * 10000, s) \in Int32
    BY <2>4, GyroScales
  <2> HIDE DEF s
  <2>6. scaled(view) \in Axes32
    BY <1>1, <2>3, <2>5 DEF Axes32
  <2> HIDE DEF scaled
  <2>7. [reader |-> "Gyro_mdps", data |-> scaled(view)] \in Outputs
    BY <2>6 DEF Outputs
  <2> QED
    BY <2>2, <2>7 DEF Reads
<1>6. CASE ReadTemperature
  <2>1. PICK view \in Served : Reads("Temperature", 100 * RawTemperature(view) + 25 * 13248)
    BY <1>6 DEF ReadTemperature
  <2>2. 100 * RawTemperature(view) + 25 * 13248 \in Int32
    BY <1>1, TemperatureScales
  <2>3. [reader |-> "Temperature", data |-> 100 * RawTemperature(view) + 25 * 13248] \in Outputs
    BY <2>2 DEF Outputs
  <2> QED
    BY <2>1, <2>3 DEF Reads
<1>7. CASE \E reg \in Ctrl : ReadReg(reg)
  <2>1. PICK reg \in Ctrl : Reads("Reg", ctrl[reg])
    BY <1>7 DEF ReadReg
  <2>2. [reader |-> "Reg", data |-> ctrl[reg]] \in Outputs
    BY DEF Outputs, IInv, Types
  <2> QED
    BY <2>1, <2>2 DEF Reads
<1> QED
  BY <1>2, <1>3, <1>4, <1>5, <1>6, <1>7

LEMMA OutputsStay ==
  ASSUME IInv, CachedCodeIsNamed, out \in Outputs, [Next]_vars
  PROVE  out' \in Outputs
<1>1. CASE out' = out
  BY <1>1
<1>2. CASE \/ ReadRawAccel \/ ReadRawGyro \/ ReadAccel_mg \/ ReadGyro_mdps
           \/ ReadTemperature \/ \E reg \in Ctrl : ReadReg(reg)
  BY <1>2, ReadersDeliver
<1> QED
  BY <1>1, <1>2 DEF Next, CallInit, InitStep, InitWriteOK, InitWriteFails, InitCannotWait,
     InitWaits, InitReturns, CheckWhoAmI, WriteReg, NewSample, Settles, PowerCycle, vars

(* Every value the driver delivers has its type, int32_t products and      *)
(* quotients included, and the cached codes stay three bits wide.          *)
THEOREM TypeCorrect == ASSUME Documented PROVE Spec => []TypeOK
<1>1. Init => out \in Outputs
  BY DEF Init, Outputs, Byte
<1>2. IInv /\ CachedCodeIsNamed /\ out \in Outputs /\ [Next]_vars => (out \in Outputs)'
  BY OutputsStay
<1>3. IInv /\ out \in Outputs => TypeOK
  BY DEF IInv, Types, TypeOK
<1> QED
  BY <1>1, <1>2, <1>3, NamedInvariance, PTL DEF Spec

-----------------------------------------------------------------------------
(* The ranges.                                                             *)

LEMMA RangeMatches ==
  ASSUME IInv, CachedCodeIsNamed
  PROVE  TrustedRange
<1>1. ctrl[ACCEL_CONFIG0] \in Byte /\ ctrl[GYRO_CONFIG0] \in Byte
  BY DEF IInv, Types, Ctrl
<1>2. ASSUME "Accel" \in trust
      PROVE  AccelSensitivity[handle.Accel] * RangeAccel(ctrl[ACCEL_CONFIG0]) = 32768
  <2>1. /\ handle.Accel \in 0..3
        /\ ctrl[ACCEL_CONFIG0] \div 32 = handle.Accel
    BY <1>1, <1>2 DEF IInv, CacheAgrees, CachedCodeIsNamed, AccelSensitivity, AccelFullScale,
                      Field, Byte
  <2> QED
    BY <2>1 DEF AccelSensitivity, RangeAccel
<1>3. ASSUME "Gyro" \in trust
      PROVE  LET counts == GyroSensitivity[handle.Gyro] * RangeGyro(ctrl[GYRO_CONFIG0])
             IN  327680000 - 327680 <= counts /\ counts <= 327680000 + 327680
  <2>1. /\ handle.Gyro \in 0..7
        /\ ctrl[GYRO_CONFIG0] \div 32 = handle.Gyro
    BY <1>1, <1>3 DEF IInv, Types, CacheAgrees, GyroFullScale, Field, Byte
  <2> QED
    BY <2>1 DEF GyroSensitivity, RangeGyro
<1> QED
  BY <1>2, <1>3 DEF TrustedRange

(* A trusted sub-sensor is always scaled with its own range's factor.      *)
THEOREM RangeTrusted == ASSUME Documented PROVE Spec => []TrustedRange
<1>1. IInv /\ CachedCodeIsNamed => TrustedRange
  BY RangeMatches
<1> QED
  BY <1>1, NamedInvariance, PTL

-----------------------------------------------------------------------------
(* The order of Init's writes.                                             *)

(* A step of Init that changes PWR_MGMT0 finds both ranges configured.     *)
LEMMA PowerStep ==
  ASSUME IInv, InitStep, intact,
         NEW s \in Running(ctrl'[PWR_MGMT0]) \ Running(ctrl[PWR_MGMT0])
  PROVE  ctrl[RangeOf(s)] = cfg[RangeOf(s)]
<1>1. ctrl'[PWR_MGMT0] # ctrl[PWR_MGMT0]
  OBVIOUS
<1>2. ASSUME NEW t \in {"OK"} \cup TransportError, pc \in DOMAIN WriteOrder,
             Transaction(WriteOrder[pc], cfg[WriteOrder[pc]], t)
      PROVE  pc = 3
  <2>1. /\ pc \in 1..3 /\ WriteOrder[pc] \in Ctrl /\ cfg[WriteOrder[pc]] \in Byte
        /\ WriteOrder[pc] = IF pc = 1 THEN GYRO_CONFIG0
                             ELSE IF pc = 2 THEN ACCEL_CONFIG0 ELSE PWR_MGMT0
    BY <1>2, NextWrite
  <2>2. \A r \in Ctrl \ {WriteOrder[pc]} : ctrl'[r] = ctrl[r]
    BY <1>2, <2>1, TransactionLands
  <2> QED
    BY <1>1, <2>1, <2>2 DEF Ctrl
<1>3. pc = 3
  BY <1>1, <1>2 DEF InitStep, InitWriteOK, InitWriteFails, InitCannotWait, InitWaits,
                    InitReturns, device
<1> QED
  BY <1>3 DEF IInv, InitProgress, RangeOf

(* Init powers a sub-sensor on only when its range is already configured.  *)
THEOREM RangeBeforePower == Spec => PoweredOnAfterRange
<1>1. IInv /\ [Next]_vars =>
        [InitStep /\ intact =>
           \A s \in Running(ctrl'[PWR_MGMT0]) \ Running(ctrl[PWR_MGMT0]) :
             ctrl[RangeOf(s)] = cfg[RangeOf(s)]]_vars
  BY PowerStep
<1> QED
  BY <1>1, Invariance, PTL DEF Spec, PoweredOnAfterRange

-----------------------------------------------------------------------------
(* The refinement: the driver and its part implement the contract.         *)

(* A step that fills no output and after which a trusted sub-sensor's      *)
(* range register holds what it held is one of the contract's background.  *)
LEMMA IsBackground ==
  ASSUME IInv, trust' \subseteq trust, out' = out,
         "Accel" \in trust' => ctrl'[ACCEL_CONFIG0] = ctrl[ACCEL_CONFIG0],
         "Gyro" \in trust' => ctrl'[GYRO_CONFIG0] = ctrl[GYRO_CONFIG0]
  PROVE  Contract!Background
<1> SUFFICES ASSUME NEW s \in trust' PROVE PartRange'[s] = PartRange[s]
  BY DEF Contract!Background
<1>1. s \in Sub
  BY DEF IInv, Types
<1> QED
  BY <1>1 DEF PartRange

(* An OK read of a trusted sub-sensor delivers its sample at its range.    *)
LEMMA SampleReadImplements ==
  ASSUME IInv, NEW reader \in Reader, NEW data, Reads(reader, data),
         SubOf(reader) \in trust =>
           data = Output(reader, sample[SubOf(reader)], PartRange[SubOf(reader)])
  PROVE  [Contract!Next]_(Contract!vars)
<1>1. UNCHANGED <<ctrl, sample, trust>>
  BY DEF Reads, device
<1>2. PartRange' = PartRange
  BY <1>1 DEF PartRange
<1>3. CASE status' = "OK" /\ out' = [reader |-> reader, data |-> data]
  <2>1. Contract!Read(reader)
    BY <1>1, <1>2, <1>3 DEF Contract!Read
  <2> QED
    BY <2>1 DEF Contract!Next
<1>4. CASE out' = out
  <2>1. Contract!Background
    BY <1>1, <1>4, IsBackground
  <2> QED
    BY <2>1 DEF Contract!Next
<1> QED
  BY <1>3, <1>4 DEF Reads

(* Scaling with the cached code is scaling with the part's own range.      *)
LEMMA AccelScaledRight ==
  ASSUME NEW v \in Int16, NEW fs \in 0..3
  PROVE  TruncDiv(v * 1000, AccelSensitivity[fs])
           = TruncDiv(v * 1000 * <<16, 8, 4, 2, 0, 0, 0, 0>>[fs + 1], 32768)
BY DEF TruncDiv, AccelSensitivity, Int16

LEMMA GyroScaledRight ==
  ASSUME NEW fs \in 0..7
  PROVE  GyroSensitivity[fs] = GyroLSB(
           <<2000000, 1000000, 500000, 250000, 125000, 62500, 31250, 15625>>[fs + 1])
BY DEF GyroSensitivity, GyroLSB

LEMMA ReadersImplement ==
  ASSUME IInv, CachedCodeIsNamed,
         \/ ReadRawAccel \/ ReadRawGyro \/ ReadAccel_mg \/ ReadGyro_mdps
         \/ ReadTemperature
  PROVE  [Contract!Next]_(Contract!vars)
<1> USE DEF SubOf, Reader
<1>1. sample \in Samples
  BY DEF IInv, Types
<1>2. /\ sample.Accel \in Axes16 /\ sample.Gyro \in Axes16 /\ sample.Temp \in Int16
      /\ RawAxes(ACCEL_DATA_X1, sample) = sample.Accel
      /\ RawAxes(GYRO_DATA_X1, sample) = sample.Gyro
      /\ RawTemperature(sample) = sample.Temp
  BY <1>1, ReadsBack, SamplesAssumption
<1>3. ASSUME trust # {}, NEW view \in Served
      PROVE  view = sample
  BY <1>3 DEF Served, IInv, TrustedIsSettled
<1>4. CASE ReadRawAccel
  <2>1. PICK view \in Served : Reads("RawAccel", RawAxes(ACCEL_DATA_X1, view))
    BY <1>4 DEF ReadRawAccel
  <2>2. "Accel" \in trust =>
          RawAxes(ACCEL_DATA_X1, view) = Output("RawAccel", sample["Accel"], PartRange["Accel"])
    BY <1>2, <1>3 DEF Output
  <2> QED
    BY <2>1, <2>2, SampleReadImplements
<1>5. CASE ReadRawGyro
  <2>1. PICK view \in Served : Reads("RawGyro", RawAxes(GYRO_DATA_X1, view))
    BY <1>5 DEF ReadRawGyro
  <2>2. "Gyro" \in trust =>
          RawAxes(GYRO_DATA_X1, view) = Output("RawGyro", sample["Gyro"], PartRange["Gyro"])
    BY <1>2, <1>3 DEF Output
  <2> QED
    BY <2>1, <2>2, SampleReadImplements
<1>6. CASE ReadTemperature
  <2>1. PICK view \in Served : Reads("Temperature", 100 * RawTemperature(view) + 25 * 13248)
    BY <1>6 DEF ReadTemperature
  <2>2. "Temp" \in trust =>
          100 * RawTemperature(view) + 25 * 13248
            = Output("Temperature", sample["Temp"], PartRange["Temp"])
    <3>1. 25 * 13248 = 331200
      OBVIOUS
    <3> QED
      BY <3>1, <1>2, <1>3 DEF Output
  <2> QED
    BY <2>1, <2>2, SampleReadImplements
<1>7. CASE ReadAccel_mg
  <2>1. handle.Accel \in 0..3
    BY DEF CachedCodeIsNamed, AccelSensitivity
  <2>2. AccelEntry(handle.Accel) = {AccelSensitivity[handle.Accel]}
    BY <2>1 DEF AccelEntry, AccelSensitivity
  <2> DEFINE s == AccelSensitivity[handle.Accel]
             scaled(view) ==
               <<TruncDiv(RawAxes(ACCEL_DATA_X1, view)[1] * 1000, s),
                 TruncDiv(RawAxes(ACCEL_DATA_X1, view)[2] * 1000, s),
                 TruncDiv(RawAxes(ACCEL_DATA_X1, view)[3] * 1000, s)>>
  <2>3. PICK view \in Served : Reads("Accel_mg", scaled(view))
    BY <1>7, <2>2 DEF ReadAccel_mg, OnAxes
  <2>4. ASSUME "Accel" \in trust
        PROVE  scaled(view) = Output("Accel_mg", sample["Accel"], PartRange["Accel"])
    <3>1. PICK x \in Int16, y \in Int16, z \in Int16 : sample.Accel = <<x, y, z>>
      BY <1>2 DEF Axes16
    <3> DEFINE range == <<16, 8, 4, 2, 0, 0, 0, 0>>[handle.Accel + 1]
    <3>2. PartRange["Accel"] = range
      <4>1. ctrl[ACCEL_CONFIG0] \in Byte
        BY DEF IInv, Types, Ctrl
      <4>2. ctrl[ACCEL_CONFIG0] \div 32 = handle.Accel
        BY <4>1, <2>1, <2>4 DEF IInv, CacheAgrees, AccelFullScale, Field, Byte
      <4> QED
        BY <4>2 DEF PartRange, RangeAccel, Sub
    <3>3. /\ TruncDiv(x * 1000, s) = TruncDiv(x * 1000 * range, 32768)
          /\ TruncDiv(y * 1000, s) = TruncDiv(y * 1000 * range, 32768)
          /\ TruncDiv(z * 1000, s) = TruncDiv(z * 1000 * range, 32768)
      BY <2>1, AccelScaledRight
    <3> HIDE DEF s, range
    <3>4. scaled(view) = <<TruncDiv(x * 1000, s), TruncDiv(y * 1000, s), TruncDiv(z * 1000, s)>>
      BY <1>2, <1>3, <2>4, <3>1
    <3>5. Output("Accel_mg", sample["Accel"], range)
            = <<TruncDiv(x * 1000 * range, 32768), TruncDiv(y * 1000 * range, 32768),
                TruncDiv(z * 1000 * range, 32768)>>
      BY <3>1 DEF Output, OnAxes
    <3> QED
      BY <3>2, <3>3, <3>4, <3>5
  <2> HIDE DEF scaled
  <2> QED
    BY <2>3, <2>4, SampleReadImplements
<1>8. CASE ReadGyro_mdps
  <2>1. handle.Gyro \in 0..7
    BY DEF IInv, Types
  <2> DEFINE s == GyroSensitivity[handle.Gyro]
             scaled(view) ==
               <<TruncDiv(RawAxes(GYRO_DATA_X1, view)[1] * 10000, s),
                 TruncDiv(RawAxes(GYRO_DATA_X1, view)[2] * 10000, s),
                 TruncDiv(RawAxes(GYRO_DATA_X1, view)[3] * 10000, s)>>
  <2>2. PICK view \in Served : Reads("Gyro_mdps", scaled(view))
    BY <1>8 DEF ReadGyro_mdps, OnAxes
  <2>3. ASSUME "Gyro" \in trust
        PROVE  scaled(view) = Output("Gyro_mdps", sample["Gyro"], PartRange["Gyro"])
    <3>1. PICK x \in Int16, y \in Int16, z \in Int16 : sample.Gyro = <<x, y, z>>
      BY <1>2 DEF Axes16
    <3>2. s = GyroLSB(PartRange["Gyro"])
      <4>1. ctrl[GYRO_CONFIG0] \in Byte
        BY DEF IInv, Types, Ctrl
      <4>2. ctrl[GYRO_CONFIG0] \div 32 = handle.Gyro
        BY <4>1, <2>3 DEF IInv, CacheAgrees, GyroFullScale, Field, Byte
      <4> QED
        BY <2>1, <4>2, GyroScaledRight DEF PartRange, RangeGyro, Sub
    <3> HIDE DEF s
    <3>3. scaled(view) =
            <<TruncDiv(x * 10000, s), TruncDiv(y * 10000, s), TruncDiv(z * 10000, s)>>
      BY <1>2, <1>3, <2>3, <3>1
    <3>4. Output("Gyro_mdps", sample["Gyro"], PartRange["Gyro"])
            = <<TruncDiv(x * 10000, s), TruncDiv(y * 10000, s), TruncDiv(z * 10000, s)>>
      BY <3>1, <3>2 DEF Output, OnAxes
    <3> QED
      BY <3>3, <3>4
  <2> HIDE DEF scaled
  <2> QED
    BY <2>2, <2>3, SampleReadImplements
<1> QED
  BY <1>4, <1>5, <1>6, <1>7, <1>8

LEMMA StepImplements ==
  ASSUME IInv, CachedCodeIsNamed, [Next]_vars
  PROVE  [Contract!Next]_(Contract!vars)
<1>1. ASSUME Contract!Background
      PROVE  Contract!Next
  BY <1>1 DEF Contract!Next
<1>2. ASSUME NEW c \in Configs, CallInit(c)
      PROVE  Contract!Background
  BY <1>2, IsBackground DEF CallInit, device
<1>3. ASSUME NEW reg \in Ctrl, NEW byte \in Byte, NEW s \in {"OK"} \cup TransportError,
             Transaction(reg, byte, s), out' = out
      PROVE  Contract!Background
  BY <1>3, TransactionLands, IsBackground
<1>4. CASE InitWriteOK
  <2>1. WriteOrder[pc] \in Ctrl /\ cfg[WriteOrder[pc]] \in Byte
    BY <1>4, NextWrite DEF InitWriteOK
  <2> QED
    BY <1>1, <1>3, <1>4, <2>1 DEF InitWriteOK
<1>5. ASSUME NEW e \in TransportError, InitWriteFails(e)
      PROVE  Contract!Background
  <2>1. WriteOrder[pc] \in Ctrl /\ cfg[WriteOrder[pc]] \in Byte
    BY <1>5, NextWrite DEF InitWriteFails
  <2> QED
    BY <1>3, <1>5, <2>1 DEF InitWriteFails
<1>6. CASE InitCannotWait
  BY <1>1, <1>6, IsBackground DEF InitCannotWait, device
<1>7. CASE InitWaits
  BY <1>1, <1>7, IsBackground DEF InitWaits
<1>8. CASE InitReturns
  <2>1. CASE intact
    <3>1. PartRange' = PartRange
      BY <1>8 DEF InitReturns, device, PartRange
    <3>2. Contract!Configured
      BY <1>8, <2>1, <3>1 DEF InitReturns, Return, device, Contract!Configured
    <3> QED
      BY <3>2 DEF Contract!Next
  <2>2. CASE ~intact
    BY <1>1, <1>8, <2>2, IsBackground DEF InitReturns, device
  <2> QED
    BY <2>1, <2>2
<1>9. CASE \/ ReadRawAccel \/ ReadRawGyro \/ ReadAccel_mg \/ ReadGyro_mdps
           \/ ReadTemperature
  BY <1>9, ReadersImplement
<1>10. ASSUME NEW reg \in Ctrl, ReadReg(reg)
       PROVE  Contract!Next
  <2>1. UNCHANGED <<ctrl, sample, trust>>
    BY <1>10 DEF ReadReg, Reads, device
  <2>2. PartRange' = PartRange
    BY <2>1 DEF PartRange
  <2>3. CASE status' = "OK" /\ out' = [reader |-> "Reg", data |-> ctrl[reg]]
    <3>1. Contract!OtherRead
      BY <2>1, <2>2, <2>3 DEF Contract!OtherRead, Reader
    <3> QED
      BY <3>1 DEF Contract!Next
  <2>4. CASE out' = out
    BY <1>1, <2>1, <2>4, IsBackground
  <2> QED
    BY <1>10, <2>3, <2>4 DEF ReadReg, Reads
<1>11. ASSUME NEW id \in ChipIds, CheckWhoAmI(id)
       PROVE  Contract!Background
  BY <1>11, IsBackground DEF CheckWhoAmI, device
<1>12. ASSUME NEW w \in AppWrites, NEW s \in {"OK"} \cup TransportError, WriteReg(w[1], w[2], s)
       PROVE  Contract!Background
  <2>1. w[1] \in Ctrl /\ w[2] \in Byte
    BY AppWritesAssumption
  <2> QED
    BY <1>3, <1>12, <2>1 DEF WriteReg
<1>13. ASSUME NEW measured \in Samples, NewSample(measured)
       PROVE  Contract!Background
  BY <1>13, IsBackground DEF NewSample
<1>14. CASE Settles
  BY <1>1, <1>14, IsBackground DEF Settles
<1>15. CASE PowerCycle
  BY <1>1, <1>15, IsBackground DEF PowerCycle
<1>16. CASE UNCHANGED vars
  <2>1. PartRange' = PartRange
    BY <1>16 DEF vars, PartRange
  <2> QED
    BY <1>16, <2>1 DEF vars, Contract!vars
<1> QED
  BY <1>1, <1>2, <1>4, <1>5, <1>6, <1>7, <1>8, <1>9, <1>10, <1>11, <1>12, <1>13, <1>14,
     <1>15, <1>16 DEF Next, InitStep

(* The driver with its part implements the contract: whatever fails,       *)
(* restarts or is written behind its back, an OK read of a trusted         *)
(* sub-sensor delivers that sub-sensor's sample at the range it runs at.   *)
THEOREM Implements == ASSUME Documented PROVE Spec => ImplementsContract
<1>1. Init => Contract!Init
  BY DEF Init, Contract!Init
<1>2. IInv /\ CachedCodeIsNamed /\ [Next]_vars => [Contract!Next]_(Contract!vars)
  BY StepImplements
<1> QED
  BY <1>1, <1>2, NamedInvariance, PTL DEF Spec, ImplementsContract, Contract!Spec
=============================================================================
