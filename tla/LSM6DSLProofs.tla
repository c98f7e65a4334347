------------------------- MODULE LSM6DSLProofs -------------------------
(***************************************************************************)
(* Theorems about the LSM6DSL driver: for every set of configurations that *)
(* keep IF_INC set, every set of raw writes and every set of samples, what *)
(* the runs of MCLSM6DSL check on a small instance.                        *)
(***************************************************************************)
EXTENDS LSM6DSL, TLAPS

USE DEF CTRL1_XL, CTRL2_G, CTRL3_C, Cache

-----------------------------------------------------------------------------
(* Two bytes of a count.                                                   *)

(* Decoding the two bytes a part holds for a signed count gives the count  *)
(* back, in either byte order: the assembly of LSM6DSL_ReadRawXL and       *)
(* ICM42688_ReadRawAccel loses no bit and extends the sign.                *)
THEOREM RoundTrip ==
  ASSUME NEW v \in Int16
  PROVE  /\ LittleEndian16(LowByte(v), HighByte(v)) = v
         /\ BigEndian16(HighByte(v), LowByte(v)) = v
BY DEF Int16, LittleEndian16, BigEndian16, ToInt16, LowByte, HighByte

(* The bytes of a count are bytes.                                         *)
LEMMA BytesOfCount ==
  ASSUME NEW v \in Int16
  PROVE  LowByte(v) \in Byte /\ HighByte(v) \in Byte
BY DEF Int16, LowByte, HighByte, Byte

(* Two bytes the bus delivers decode to an int16_t, whatever they are.     *)
LEMMA DecodesToCount ==
  ASSUME NEW b0 \in Byte, NEW b1 \in Byte
  PROVE  LittleEndian16(b0, b1) \in Int16
BY DEF LittleEndian16, ToInt16, Byte, Int16

-----------------------------------------------------------------------------
(* Reading the output registers.                                           *)

RawAxesOf(buffer) == <<LittleEndian16(buffer[1], buffer[2]),
                       LittleEndian16(buffer[3], buffer[4]),
                       LittleEndian16(buffer[5], buffer[6])>>

Buffer(base) == Burst(RegisterFile(WHO_AM_I_VALUE), base, 6, AutoIncrements(ctrl[CTRL3_C]))

LEMMA RawAxesIsOf == ASSUME NEW base PROVE RawAxes(base) = RawAxesOf(Buffer(base))
BY Zenon DEF RawAxes, RawAxesOf, Buffer

(* Where the registers of the part are, and what the output ones hold.     *)
LEMMA FileHolds ==
  ASSUME sample \in Samples
  PROVE  LET file == RegisterFile(WHO_AM_I_VALUE)
         IN  /\ \A i \in 0..5 : file[OUTX_L_G + i] = OutputByte(sample.Gyro, i)
             /\ \A i \in 0..5 : file[OUTX_L_XL + i] = OutputByte(sample.XL, i)
BY DEF RegisterFile, Ctrl, WHO_AM_I, OUTX_L_G, OUTX_L_XL

LEMMA OutputBytes ==
  ASSUME NEW x \in Int16, NEW y \in Int16, NEW z \in Int16
  PROVE  /\ OutputByte(<<x, y, z>>, 0) = LowByte(x) /\ OutputByte(<<x, y, z>>, 1) = HighByte(x)
         /\ OutputByte(<<x, y, z>>, 2) = LowByte(y) /\ OutputByte(<<x, y, z>>, 3) = HighByte(y)
         /\ OutputByte(<<x, y, z>>, 4) = LowByte(z) /\ OutputByte(<<x, y, z>>, 5) = HighByte(z)
BY DEF OutputByte

(* With IF_INC set a burst delivers the sample of the sub-sensor.          *)
LEMMA ReadsBack ==
  ASSUME sample \in Samples, AutoIncrements(ctrl[CTRL3_C])
  PROVE  RawAxes(OUTX_L_XL) = sample.XL /\ RawAxes(OUTX_L_G) = sample.Gyro
<1>1. ASSUME NEW base \in {OUTX_L_XL, OUTX_L_G}, NEW axes \in Axes16,
             \A i \in 0..5 : RegisterFile(WHO_AM_I_VALUE)[base + i] = OutputByte(axes, i)
      PROVE  RawAxes(base) = axes
  <2>1. PICK x \in Int16, y \in Int16, z \in Int16 : axes = <<x, y, z>>
    BY DEF Axes16
  <2>2. \A i \in 1..6 : Buffer(base)[i] = OutputByte(axes, i - 1)
    <3>1. \A i \in 1..6 : Buffer(base)[i] = RegisterFile(WHO_AM_I_VALUE)[base + i - 1]
      BY AutoIncrements(ctrl[CTRL3_C]) DEF Buffer, Burst
    <3>2. \A i \in 1..6 : base + i - 1 = base + (i - 1) /\ i - 1 \in 0..5
      BY DEF OUTX_L_XL, OUTX_L_G
    <3> QED
      BY <1>1, <3>1, <3>2
  <2>3. /\ Buffer(base)[1] = LowByte(x) /\ Buffer(base)[2] = HighByte(x)
        /\ Buffer(base)[3] = LowByte(y) /\ Buffer(base)[4] = HighByte(y)
        /\ Buffer(base)[5] = LowByte(z) /\ Buffer(base)[6] = HighByte(z)
    BY <2>1, <2>2, OutputBytes
  <2> QED
    BY <2>1, <2>3, RoundTrip, RawAxesIsOf DEF RawAxesOf
<1>2. sample.XL \in Axes16 /\ sample.Gyro \in Axes16
  BY SamplesAssumption
<1> QED
  BY <1>1, <1>2, FileHolds

(* With IF_INC cleared it delivers one register six times: int16_t values  *)
(* all the same.                                                           *)
LEMMA ReadsCounts ==
  ASSUME sample \in Samples, NEW base \in {OUTX_L_XL, OUTX_L_G}
  PROVE  RawAxes(base) \in Axes16
<1>1. sample.XL \in Axes16 /\ sample.Gyro \in Axes16
  BY SamplesAssumption
<1>2. ASSUME NEW axes \in Axes16
      PROVE  \A i \in 0..5 : OutputByte(axes, i) \in Byte
  <2>1. PICK x \in Int16, y \in Int16, z \in Int16 : axes = <<x, y, z>>
    BY DEF Axes16
  <2> QED
    BY <2>1, OutputBytes, BytesOfCount
<1>3. \A i \in 0..5 : RegisterFile(WHO_AM_I_VALUE)[base + i] \in Byte
  BY <1>1, <1>2, FileHolds
<1>4. \A i \in 1..6 : Buffer(base)[i] \in Byte
  <2>1. ASSUME NEW i \in 1..6
        PROVE  Buffer(base)[i] = RegisterFile(WHO_AM_I_VALUE)[
                 base + (IF AutoIncrements(ctrl[CTRL3_C]) THEN i - 1 ELSE 0)]
    <3>1. base + i - 1 = base + (i - 1) /\ base = base + 0
      BY DEF OUTX_L_XL, OUTX_L_G
    <3> QED
      BY <3>1 DEF Buffer, Burst
  <2> QED
    BY <1>3, <2>1
<1> QED
  BY <1>4, DecodesToCount, RawAxesIsOf DEF RawAxesOf, Axes16

-----------------------------------------------------------------------------
(* Scaling: with every entry of the tables the product and the quotient of *)
(* a count stay inside int32_t.                                            *)

LEMMA XLScales ==
  ASSUME NEW v \in Int16, NEW fs \in 0..3
  PROVE  TruncDiv(v * XLSensitivity[fs], 1000) \in Int32
BY DEF TruncDiv, XLSensitivity, Int16, Int32

LEMMA GyroScales ==
  ASSUME NEW v \in Int16, NEW fs \in 0..4
  PROVE  TruncDiv(v * GyroSensitivity[fs], 8) \in Int32
BY DEF TruncDiv, GyroSensitivity, Int16, Int32

LEMMA CodesOfByte ==
  ASSUME NEW b \in Byte
  PROVE  XLFullScale(b) \in 0..3 /\ GyroFullScale(b) \in 0..4
BY DEF Byte, XLFullScale, GyroFullScale, Field

(* The code the driver decodes from CTRL2_G selects the sensitivity of the *)
(* range the bits of CTRL2_G stand for, FS_125 included.                   *)
LEMMA GyroRange ==
  ASSUME NEW b \in Byte
  PROVE  /\ GyroSensitivity[GyroFullScale(b)] = 35 * (RangeGyro(b) \div 125)
         /\ RangeGyro(b) \in Int
<1> DEFINE fs == (b \div 4) % 4
           fs125 == (b \div 2) % 2
<1>1. fs \in 0..3 /\ fs125 \in 0..1
  BY DEF Byte
<1>2. 2^0 = 1 /\ 2^1 = 2 /\ 2^2 = 4 /\ 2^3 = 8
  OBVIOUS
<1>3. RangeGyro(b) = IF fs125 = 1 THEN 125 ELSE 250 * 2^fs
  BY DEF RangeGyro
<1>4. GyroFullScale(b) = IF fs125 = 1 THEN 4 ELSE fs
  BY DEF GyroFullScale, Field
<1> HIDE DEF fs, fs125
<1>5. CASE fs125 = 1
  BY <1>3, <1>4, <1>5 DEF GyroSensitivity
<1>6. ASSUME fs125 # 1
      PROVE  /\ GyroSensitivity[fs] = 35 * ((250 * 2^fs) \div 125)
             /\ 250 * 2^fs \in Int
  <2>1. 2^fs = <<1, 2, 4, 8>>[fs + 1]
    <3>1. /\ fs = 0 => 2^fs = 2^0
          /\ fs = 1 => 2^fs = 2^1
          /\ fs = 2 => 2^fs = 2^2
          /\ fs = 3 => 2^fs = 2^3
      BY Zenon
    <3> QED
      BY <1>1, <1>2, <3>1
  <2>2. (250 * 2^fs) \div 125 = <<2, 4, 8, 16>>[fs + 1]
    BY <1>1, <2>1
  <2> QED
    BY <1>1, <2>1, <2>2 DEF GyroSensitivity
<1> QED
  BY <1>3, <1>4, <1>5, <1>6

-----------------------------------------------------------------------------
(* The inductive invariant.  What Init's progress has already written is   *)
(* still in the registers unless the part lost its power on the way; the   *)
(* cached codes agree with the registers of every trusted sub-sensor, and  *)
(* IF_INC is set while there is one.                                       *)

CacheAgrees ==
  /\ "XL" \in trust => handle.XL = XLFullScale(ctrl[CTRL1_XL])
  /\ "Gyro" \in trust => handle.Gyro = GyroFullScale(ctrl[CTRL2_G])
  /\ trust # {} => AutoIncrements(ctrl[CTRL3_C])

InitProgress ==
  /\ ~intact => trust = {}
  /\ intact /\ pc > 1 => ctrl[CTRL1_XL] = cfg[CTRL1_XL]
  /\ intact /\ pc > 2 => ctrl[CTRL2_G] = cfg[CTRL2_G]
  /\ intact /\ pc > 3 => ctrl[CTRL3_C] = cfg[CTRL3_C]

IInv == TypeOK /\ CacheAgrees /\ InitProgress

LEMMA InitEstablishes == Init => IInv
<1> SUFFICES ASSUME Init PROVE IInv
  OBVIOUS
<1>1. TypeOK
  <2>1. ctrl \in [Ctrl -> Byte]
    BY DEF Init, PowerOnCtrl, Byte
  <2>2. out \in Outputs
    BY DEF Init, Outputs, Byte
  <2>3. handle \in [XL : DOMAIN XLSensitivity, Gyro : DOMAIN GyroSensitivity]
    BY DEF Init, XLSensitivity, GyroSensitivity
  <2>4. pc \in 0..Cache /\ cfg \in IF pc = 0 THEN {NoConfig} ELSE Configs
    BY DEF Init
  <2>5. sample \in Samples /\ status \in Status /\ trust \subseteq Sub /\ intact \in BOOLEAN
    BY DEF Init, Status
  <2> QED
    BY <2>1, <2>2, <2>3, <2>4, <2>5 DEF TypeOK
<1>2. CacheAgrees /\ InitProgress
  BY DEF Init, CacheAgrees, InitProgress
<1> QED
  BY <1>1, <1>2 DEF IInv

(* A read fills the output variable or leaves it alone, and nothing else.  *)
LEMMA ReadsPreserve ==
  ASSUME IInv, NEW reader, NEW data, [reader |-> reader, data |-> data] \in Outputs,
         Reads(reader, data)
  PROVE  IInv'
<1>1. TypeOK'
  BY DEF IInv, TypeOK, Reads, device, Status, TransportError
<1>2. CacheAgrees' /\ InitProgress'
  BY DEF IInv, CacheAgrees, InitProgress, Reads, device
<1> QED
  BY <1>1, <1>2 DEF IInv

(* A write transaction, by Init or by the application, takes the trust     *)
(* from every sub-sensor whose registers it may have changed.              *)
LEMMA TransactionLands ==
  ASSUME IInv, NEW reg \in Ctrl, NEW byte \in Byte,
         NEW s \in {"OK"} \cup TransportError, Transaction(reg, byte, s)
  PROVE  /\ ctrl' \in [Ctrl -> Byte]
         /\ trust' \subseteq trust
         /\ "XL" \in trust' => ctrl'[CTRL1_XL] = ctrl[CTRL1_XL]
         /\ "Gyro" \in trust' => ctrl'[CTRL2_G] = ctrl[CTRL2_G]
         /\ trust' # {} => ctrl'[CTRL3_C] = ctrl[CTRL3_C]
         /\ \A r \in Ctrl \ {reg} : ctrl'[r] = ctrl[r]
         /\ s = "OK" => ctrl'[reg] = byte
<1>1. CASE Lands(reg, byte)
  <2>1. /\ trust' \subseteq trust
        /\ ctrl' \in [Ctrl -> Byte]
        /\ ctrl'[reg] = byte
        /\ \A r \in Ctrl \ {reg} : ctrl'[r] = ctrl[r]
    BY <1>1 DEF Lands, IInv, TypeOK
  <2>2. CASE reg = CTRL1_XL
    BY <1>1, <2>1, <2>2 DEF Lands, Governs, Ctrl
  <2>3. CASE reg = CTRL2_G
    BY <1>1, <2>1, <2>3 DEF Lands, Governs, Ctrl
  <2>4. CASE reg = CTRL3_C
    <3>1. trust' = {}
      BY <1>1, <2>4 DEF Lands, Governs, IInv, TypeOK
    <3> QED
      BY <2>1, <3>1
  <2> QED
    BY <2>2, <2>3, <2>4 DEF Ctrl
<1>2. CASE s # "OK" /\ UNCHANGED <<ctrl, trust>>
  BY <1>2 DEF IInv, TypeOK
<1> QED
  BY <1>1, <1>2 DEF Transaction, TransportError

(* The byte Init writes next is a byte of its configuration.               *)
LEMMA NextWrite ==
  ASSUME IInv, pc \in DOMAIN WriteOrder
  PROVE  /\ pc \in 1..3
         /\ cfg \in Config
         /\ WriteOrder[pc] \in Ctrl
         /\ cfg[WriteOrder[pc]] \in Byte
         /\ WriteOrder[pc] = IF pc = 1 THEN CTRL1_XL
                              ELSE IF pc = 2 THEN CTRL2_G ELSE CTRL3_C
<1>1. pc \in 1..3
  BY DEF WriteOrder
<1>2. cfg \in Config
  BY <1>1, ConfigsAssumption DEF IInv, TypeOK
<1>3. WriteOrder[pc] \in Ctrl
  BY <1>1 DEF WriteOrder, Ctrl
<1>4. cfg[WriteOrder[pc]] \in Byte
  BY <1>2, <1>3 DEF Config
<1>5. WriteOrder[pc] = IF pc = 1 THEN CTRL1_XL
                       ELSE IF pc = 2 THEN CTRL2_G ELSE CTRL3_C
  BY <1>1 DEF WriteOrder
<1> QED
  BY <1>1, <1>2, <1>3, <1>4, <1>5

LEMMA InitWriteOKPreserves ==
  ASSUME IInv, InitWriteOK
  PROVE  IInv'
<1>1. /\ pc \in 1..3 /\ WriteOrder[pc] \in Ctrl /\ cfg[WriteOrder[pc]] \in Byte
      /\ WriteOrder[pc] = IF pc = 1 THEN CTRL1_XL
                           ELSE IF pc = 2 THEN CTRL2_G ELSE CTRL3_C
  BY NextWrite DEF InitWriteOK
<1>2. /\ ctrl' \in [Ctrl -> Byte]
      /\ trust' \subseteq trust
      /\ "XL" \in trust' => ctrl'[CTRL1_XL] = ctrl[CTRL1_XL]
      /\ "Gyro" \in trust' => ctrl'[CTRL2_G] = ctrl[CTRL2_G]
      /\ trust' # {} => ctrl'[CTRL3_C] = ctrl[CTRL3_C]
      /\ \A r \in Ctrl \ {WriteOrder[pc]} : ctrl'[r] = ctrl[r]
      /\ ctrl'[WriteOrder[pc]] = cfg[WriteOrder[pc]]
  BY <1>1, TransactionLands DEF InitWriteOK
<1>3. TypeOK'
  BY <1>1, <1>2 DEF InitWriteOK, IInv, TypeOK
<1>4. CacheAgrees'
  BY <1>2 DEF InitWriteOK, IInv, CacheAgrees
<1>5. InitProgress'
  BY <1>1, <1>2 DEF InitWriteOK, IInv, InitProgress, TypeOK, Ctrl
<1> QED
  BY <1>3, <1>4, <1>5 DEF IInv

LEMMA InitWriteFailsPreserves ==
  ASSUME IInv, NEW e \in TransportError, InitWriteFails(e)
  PROVE  IInv'
<1>1. WriteOrder[pc] \in Ctrl /\ cfg[WriteOrder[pc]] \in Byte
  BY NextWrite DEF InitWriteFails
<1>2. /\ ctrl' \in [Ctrl -> Byte]
      /\ trust' \subseteq trust
      /\ "XL" \in trust' => ctrl'[CTRL1_XL] = ctrl[CTRL1_XL]
      /\ "Gyro" \in trust' => ctrl'[CTRL2_G] = ctrl[CTRL2_G]
      /\ trust' # {} => ctrl'[CTRL3_C] = ctrl[CTRL3_C]
  BY <1>1, TransactionLands DEF InitWriteFails
<1>3. TypeOK'
  BY <1>2 DEF InitWriteFails, Return, IInv, TypeOK, Status, TransportError
<1>4. CacheAgrees' /\ InitProgress'
  BY <1>2 DEF InitWriteFails, Return, IInv, CacheAgrees, InitProgress
<1> QED
  BY <1>3, <1>4 DEF IInv

(* The caching: everything Init wrote is still there, IF_INC included, or  *)
(* nothing is trusted.                                                     *)
LEMMA InitReturnsPreserves ==
  ASSUME IInv, InitReturns
  PROVE  IInv'
<1>1. cfg \in Config
  BY ConfigsAssumption DEF InitReturns, IInv, TypeOK
<1>2. handle' \in [XL : DOMAIN XLSensitivity, Gyro : DOMAIN GyroSensitivity]
  <2>1. cfg[CTRL1_XL] \in Byte /\ cfg[CTRL2_G] \in Byte
    BY <1>1 DEF Config, Ctrl
  <2> QED
    BY <2>1, CodesOfByte DEF InitReturns, XLSensitivity, GyroSensitivity
<1>3. TypeOK'
  BY <1>2 DEF InitReturns, Return, IInv, TypeOK, device, Status
<1>4. CacheAgrees'
  BY <1>1 DEF InitReturns, Return, IInv, CacheAgrees, InitProgress, device, Config
<1>5. InitProgress'
  BY DEF InitReturns, Return, IInv, InitProgress, device
<1> QED
  BY <1>3, <1>4, <1>5 DEF IInv

(* Every reader delivers a value of its output type.                       *)
LEMMA ReadersPreserve ==
  ASSUME IInv,
         \/ ReadRawXL \/ ReadRawGyro \/ ReadXL_mg \/ ReadGyro_mdps
         \/ \E reg \in Ctrl : ReadReg(reg)
  PROVE  IInv'
<1>1. RawAxes(OUTX_L_XL) \in Axes16 /\ RawAxes(OUTX_L_G) \in Axes16
  BY ReadsCounts DEF IInv, TypeOK
<1>2. CASE ReadRawXL
  <2>1. [reader |-> "RawXL", data |-> RawAxes(OUTX_L_XL)] \in Outputs
    BY <1>1 DEF Outputs
  <2> QED
    BY <1>2, <2>1, ReadsPreserve DEF ReadRawXL
<1>3. CASE ReadRawGyro
  <2>1. [reader |-> "RawGyro", data |-> RawAxes(OUTX_L_G)] \in Outputs
    BY <1>1 DEF Outputs
  <2> QED
    BY <1>3, <2>1, ReadsPreserve DEF ReadRawGyro
<1>4. CASE ReadXL_mg
  <2>1. handle.XL \in 0..3
    BY DEF IInv, TypeOK, XLSensitivity
  <2>2. PICK x \in Int16, y \in Int16, z \in Int16 : RawAxes(OUTX_L_XL) = <<x, y, z>>
    BY <1>1 DEF Axes16
  <2>3. /\ TruncDiv(x * XLSensitivity[handle.XL], 1000) \in Int32
        /\ TruncDiv(y * XLSensitivity[handle.XL], 1000) \in Int32
        /\ TruncDiv(z * XLSensitivity[handle.XL], 1000) \in Int32
    BY <2>1, XLScales
  <2> DEFINE scaled == <<TruncDiv(x * XLSensitivity[handle.XL], 1000),
                         TruncDiv(y * XLSensitivity[handle.XL], 1000),
                         TruncDiv(z * XLSensitivity[handle.XL], 1000)>>
  <2>4. Reads("XL_mg", scaled)
    BY <1>4, <2>2 DEF ReadXL_mg, OnAxes, ScaleXL
  <2>5. [reader |-> "XL_mg", data |-> scaled] \in Outputs
    BY <2>3 DEF Outputs, Axes32
  <2> QED
    BY <2>4, <2>5, ReadsPreserve
<1>5. CASE ReadGyro_mdps
  <2>1. handle.Gyro \in 0..4
    BY DEF IInv, TypeOK, GyroSensitivity
  <2>2. PICK x \in Int16, y \in Int16, z \in Int16 : RawAxes(OUTX_L_G) = <<x, y, z>>
    BY <1>1 DEF Axes16
  <2>3. /\ TruncDiv(x * GyroSensitivity[handle.Gyro], 8) \in Int32
        /\ TruncDiv(y * GyroSensitivity[handle.Gyro], 8) \in Int32
        /\ TruncDiv(z * GyroSensitivity[handle.Gyro], 8) \in Int32
    BY <2>1, GyroScales
  <2> DEFINE scaled == <<TruncDiv(x * GyroSensitivity[handle.Gyro], 8),
                         TruncDiv(y * GyroSensitivity[handle.Gyro], 8),
                         TruncDiv(z * GyroSensitivity[handle.Gyro], 8)>>
  <2>4. Reads("Gyro_mdps", scaled)
    BY <1>5, <2>2 DEF ReadGyro_mdps, OnAxes, ScaleGyro
  <2>5. [reader |-> "Gyro_mdps", data |-> scaled] \in Outputs
    BY <2>3 DEF Outputs, Axes32
  <2> QED
    BY <2>4, <2>5, ReadsPreserve
<1>6. CASE \E reg \in Ctrl : ReadReg(reg)
  <2>1. PICK reg \in Ctrl : Reads("Reg", ctrl[reg])
    BY <1>6 DEF ReadReg, RegisterFile
  <2>2. [reader |-> "Reg", data |-> ctrl[reg]] \in Outputs
    BY DEF Outputs, IInv, TypeOK
  <2> QED
    BY <2>1, <2>2, ReadsPreserve
<1> QED
  BY <1>2, <1>3, <1>4, <1>5, <1>6

LEMMA StepPreserves ==
  ASSUME IInv, [Next]_vars
  PROVE  IInv'
<1>1. ASSUME NEW c \in Configs, CallInit(c)
      PROVE  IInv'
  <2>1. TypeOK'
    BY <1>1 DEF CallInit, Idle, IInv, TypeOK, device
  <2>2. CacheAgrees' /\ InitProgress'
    BY <1>1 DEF CallInit, IInv, CacheAgrees, InitProgress, device
  <2> QED
    BY <2>1, <2>2 DEF IInv
<1>2. CASE InitStep
  BY <1>2, InitWriteOKPreserves, InitWriteFailsPreserves, InitReturnsPreserves DEF InitStep
<1>3. CASE \/ ReadRawXL \/ ReadRawGyro \/ ReadXL_mg \/ ReadGyro_mdps
           \/ \E reg \in Ctrl : ReadReg(reg)
  BY <1>3, ReadersPreserve
<1>4. ASSUME NEW id \in ChipIds, CheckWhoAmI(id)
      PROVE  IInv'
  <2>1. status' \in Status
    BY <1>4 DEF CheckWhoAmI, WhoAmIStatus, Status, TransportError
  <2>2. TypeOK'
    BY <1>4, <2>1 DEF CheckWhoAmI, IInv, TypeOK, device
  <2>3. CacheAgrees' /\ InitProgress'
    BY <1>4 DEF CheckWhoAmI, IInv, CacheAgrees, InitProgress, device
  <2> QED
    BY <2>2, <2>3 DEF IInv
<1>5. ASSUME NEW w \in AppWrites, NEW s \in {"OK"} \cup TransportError, WriteReg(w[1], w[2], s)
      PROVE  IInv'
  <2>1. w[1] \in Ctrl /\ w[2] \in Byte
    BY AppWritesAssumption
  <2>2. /\ ctrl' \in [Ctrl -> Byte]
        /\ trust' \subseteq trust
        /\ "XL" \in trust' => ctrl'[CTRL1_XL] = ctrl[CTRL1_XL]
        /\ "Gyro" \in trust' => ctrl'[CTRL2_G] = ctrl[CTRL2_G]
        /\ trust' # {} => ctrl'[CTRL3_C] = ctrl[CTRL3_C]
    BY <1>5, <2>1, TransactionLands DEF WriteReg
  <2>3. TypeOK'
    BY <1>5, <2>2 DEF WriteReg, IInv, TypeOK, Status, TransportError
  <2>4. CacheAgrees' /\ InitProgress'
    BY <1>5, <2>2 DEF WriteReg, Idle, IInv, CacheAgrees, InitProgress
  <2> QED
    BY <2>3, <2>4 DEF IInv
<1>6. ASSUME NEW measured \in Samples, NewSample(measured)
      PROVE  IInv'
  <2>1. TypeOK'
    BY <1>6 DEF NewSample, IInv, TypeOK
  <2>2. CacheAgrees' /\ InitProgress'
    BY <1>6 DEF NewSample, IInv, CacheAgrees, InitProgress
  <2> QED
    BY <2>1, <2>2 DEF IInv
<1>7. CASE PowerCycle
  <2>1. PowerOnCtrl \in [Ctrl -> Byte]
    BY DEF PowerOnCtrl, Byte
  <2>2. TypeOK'
    <3>1. ctrl' \in [Ctrl -> Byte] /\ trust' \subseteq Sub
      BY <1>7, <2>1 DEF PowerCycle
    <3>2. intact' \in BOOLEAN
      BY Zenon, <1>7 DEF PowerCycle
    <3>3. UNCHANGED <<sample, handle, pc, cfg, out, status>>
      BY <1>7 DEF PowerCycle
    <3> QED
      BY <3>1, <3>2, <3>3 DEF IInv, TypeOK
  <2>3. CacheAgrees' /\ InitProgress'
    <3>1. intact' => pc = 0
      BY Zenon, <1>7 DEF PowerCycle
    <3>2. trust' = {} /\ UNCHANGED <<handle, pc, cfg>>
      BY <1>7 DEF PowerCycle
    <3> QED
      BY <3>1, <3>2 DEF IInv, CacheAgrees, InitProgress
  <2> QED
    BY <2>2, <2>3 DEF IInv
<1>8. CASE UNCHANGED vars
  <2>1. TypeOK'
    BY <1>8 DEF vars, IInv, TypeOK
  <2>2. CacheAgrees' /\ InitProgress'
    BY <1>8 DEF vars, IInv, CacheAgrees, InitProgress
  <2> QED
    BY <2>1, <2>2 DEF IInv
<1> QED
  BY <1>1, <1>2, <1>3, <1>4, <1>5, <1>6, <1>7, <1>8 DEF Next

-----------------------------------------------------------------------------
(* The theorems.                                                           *)

LEMMA Invariance == Spec => []IInv
<1>1. Init => IInv
  BY InitEstablishes
<1>2. IInv /\ [Next]_vars => IInv'
  BY StepPreserves
<1> QED
  BY <1>1, <1>2, PTL DEF Spec

(* Every value the driver delivers has its type, int32_t products and      *)
(* quotients included, and the cached codes stay inside the tables.        *)
THEOREM TypeCorrect == Spec => []TypeOK
<1>1. IInv => TypeOK
  BY DEF IInv
<1> QED
  BY <1>1, Invariance, PTL

LEMMA RangeMatches ==
  ASSUME IInv
  PROVE  TrustedRange
<1>1. ctrl[CTRL1_XL] \in Byte /\ ctrl[CTRL2_G] \in Byte
  BY DEF IInv, TypeOK, Ctrl
<1>2. ASSUME "XL" \in trust
      PROVE  XLSensitivity[handle.XL] = 61 * (RangeXL(ctrl[CTRL1_XL]) \div 2)
  <2>1. /\ handle.XL \in 0..3
        /\ (ctrl[CTRL1_XL] \div 4) % 4 = handle.XL
    BY <1>1, <1>2 DEF IInv, TypeOK, CacheAgrees, XLFullScale, Field, XLSensitivity
  <2> QED
    BY <2>1 DEF XLSensitivity, RangeXL
<1>3. ASSUME "Gyro" \in trust
      PROVE  GyroSensitivity[handle.Gyro] = 35 * (RangeGyro(ctrl[CTRL2_G]) \div 125)
  <2>1. handle.Gyro = GyroFullScale(ctrl[CTRL2_G])
    BY <1>3 DEF IInv, CacheAgrees
  <2> QED
    BY <1>1, <2>1, GyroRange
<1>4. trust # {} => AutoIncrements(ctrl[CTRL3_C])
  BY DEF IInv, CacheAgrees
<1> QED
  BY <1>2, <1>3, <1>4 DEF TrustedRange

(* A trusted sub-sensor is always scaled with its own range's factor, and  *)
(* its bursts walk the output registers.                                   *)
THEOREM RangeTrusted == Spec => []TrustedRange
<1>1. IInv => TrustedRange
  BY RangeMatches
<1> QED
  BY <1>1, Invariance, PTL

-----------------------------------------------------------------------------
(* The refinement: the driver and its part implement the contract.         *)

(* A step that fills no output and after which a trusted sub-sensor's      *)
(* range register holds what it held is one of the contract's background.  *)
LEMMA IsBackground ==
  ASSUME IInv, trust' \subseteq trust, out' = out,
         "XL" \in trust' => ctrl'[CTRL1_XL] = ctrl[CTRL1_XL],
         "Gyro" \in trust' => ctrl'[CTRL2_G] = ctrl[CTRL2_G]
  PROVE  Contract!Background
<1> SUFFICES ASSUME NEW s \in trust' PROVE PartRange'[s] = PartRange[s]
  BY DEF Contract!Background
<1>1. s \in Sub
  BY DEF IInv, TypeOK
<1> QED
  BY <1>1 DEF PartRange, Sub

(* An OK read of a trusted sub-sensor delivers its sample at its range.    *)
LEMMA SampleReadImplements ==
  ASSUME IInv, NEW reader \in Reader, NEW data, Reads(reader, data),
         SubOf(reader) \in trust =>
           data = Output(reader, sample[SubOf(reader)], PartRange[SubOf(reader)])
  PROVE  [Contract!Next]_(Contract!vars)
<1>1. UNCHANGED <<ctrl, sample, trust>>
  BY DEF Reads, device
<1>2. PartRange' = PartRange
  BY <1>1 DEF PartRange
<1>3. CASE status' = "OK" /\ out' = [reader |-> reader, data |-> data]
  <2>1. Contract!Read(reader)
    BY <1>1, <1>2, <1>3 DEF Contract!Read
  <2> QED
    BY <2>1 DEF Contract!Next
<1>4. CASE out' = out
  <2>1. Contract!Background
    BY <1>1, <1>4, IsBackground
  <2> QED
    BY <2>1 DEF Contract!Next
<1> QED
  BY <1>3, <1>4 DEF Reads

LEMMA ReadersImplement ==
  ASSUME IInv, ReadRawXL \/ ReadRawGyro \/ ReadXL_mg \/ ReadGyro_mdps
  PROVE  [Contract!Next]_(Contract!vars)
<1> USE DEF SubOf, Reader
<1>1. sample.XL \in Axes16 /\ sample.Gyro \in Axes16
  BY SamplesAssumption DEF IInv, TypeOK
<1>2. ASSUME trust # {}
      PROVE  RawAxes(OUTX_L_XL) = sample.XL /\ RawAxes(OUTX_L_G) = sample.Gyro
  BY <1>2, ReadsBack DEF IInv, CacheAgrees, TypeOK
<1>3. TrustedRange
  BY RangeMatches
<1>4. CASE ReadRawXL
  <2>1. "XL" \in trust =>
          RawAxes(OUTX_L_XL) = Output("RawXL", sample["XL"], PartRange["XL"])
    BY <1>2 DEF Output
  <2> QED
    BY <1>4, <2>1, SampleReadImplements DEF ReadRawXL
<1>5. CASE ReadRawGyro
  <2>1. "Gyro" \in trust =>
          RawAxes(OUTX_L_G) = Output("RawGyro", sample["Gyro"], PartRange["Gyro"])
    BY <1>2 DEF Output
  <2> QED
    BY <1>5, <2>1, SampleReadImplements DEF ReadRawGyro
<1>6. CASE ReadXL_mg
  <2>1. PICK x \in Int16, y \in Int16, z \in Int16 : sample.XL = <<x, y, z>>
    BY <1>1 DEF Axes16
  <2> DEFINE s == XLSensitivity[handle.XL]
             range == RangeXL(ctrl[CTRL1_XL])
             scaled == OnAxes(RawAxes(OUTX_L_XL), ScaleXL)
  <2>2. ASSUME "XL" \in trust
        PROVE  scaled = Output("XL_mg", sample["XL"], PartRange["XL"])
    <3>1. s = 61 * (range \div 2)
      BY <1>3, <2>2 DEF TrustedRange
    <3>2. PartRange["XL"] = range
      BY DEF PartRange, Sub
    <3>3. scaled = <<TruncDiv(x * s, 1000), TruncDiv(y * s, 1000), TruncDiv(z * s, 1000)>>
      BY <1>2, <2>1, <2>2 DEF OnAxes, ScaleXL
    <3>4. range \in Int
      <4>1. ctrl[CTRL1_XL] \in Byte
        BY DEF IInv, TypeOK, Ctrl
      <4>2. (ctrl[CTRL1_XL] \div 4) % 4 \in 0..3
        BY <4>1 DEF Byte
      <4> QED
        BY <4>2 DEF RangeXL
    <3> HIDE DEF s, range, scaled
    <3>5. /\ x * s = x * 61 * (range \div 2)
          /\ y * s = y * 61 * (range \div 2)
          /\ z * s = z * 61 * (range \div 2)
      BY <3>1, <3>4 DEF Int16
    <3>6. Output("XL_mg", sample["XL"], range)
            = <<TruncDiv(x * 61 * (range \div 2), 1000), TruncDiv(y * 61 * (range \div 2), 1000),
                TruncDiv(z * 61 * (range \div 2), 1000)>>
      BY <2>1 DEF Output, OnAxes
    <3> QED
      BY <3>2, <3>3, <3>5, <3>6
  <2> QED
    BY <1>6, <2>2, SampleReadImplements DEF ReadXL_mg
<1>7. CASE ReadGyro_mdps
  <2>1. PICK x \in Int16, y \in Int16, z \in Int16 : sample.Gyro = <<x, y, z>>
    BY <1>1 DEF Axes16
  <2> DEFINE s == GyroSensitivity[handle.Gyro]
             range == RangeGyro(ctrl[CTRL2_G])
             scaled == OnAxes(RawAxes(OUTX_L_G), ScaleGyro)
  <2>2. ASSUME "Gyro" \in trust
        PROVE  scaled = Output("Gyro_mdps", sample["Gyro"], PartRange["Gyro"])
    <3>1. s = 35 * (range \div 125)
      BY <1>3, <2>2 DEF TrustedRange
    <3>2. PartRange["Gyro"] = range
      BY DEF PartRange, Sub
    <3>3. scaled = <<TruncDiv(x * s, 8), TruncDiv(y * s, 8), TruncDiv(z * s, 8)>>
      BY <1>2, <2>1, <2>2 DEF OnAxes, ScaleGyro
    <3>4. range \in Int
      BY GyroRange DEF IInv, TypeOK, Ctrl
    <3> HIDE DEF s, range, scaled
    <3>5. /\ x * s = x * 35 * (range \div 125)
          /\ y * s = y * 35 * (range \div 125)
          /\ z * s = z * 35 * (range \div 125)
      BY <3>1, <3>4 DEF Int16
    <3>6. Output("Gyro_mdps", sample["Gyro"], range)
            = <<TruncDiv(x * 35 * (range \div 125), 8), TruncDiv(y * 35 * (range \div 125), 8),
                TruncDiv(z * 35 * (range \div 125), 8)>>
      BY <2>1 DEF Output, OnAxes
    <3> QED
      BY <3>2, <3>3, <3>5, <3>6
  <2> QED
    BY <1>7, <2>2, SampleReadImplements DEF ReadGyro_mdps
<1> QED
  BY <1>4, <1>5, <1>6, <1>7

LEMMA StepImplements ==
  ASSUME IInv, [Next]_vars
  PROVE  [Contract!Next]_(Contract!vars)
<1>1. ASSUME Contract!Background
      PROVE  Contract!Next
  BY <1>1 DEF Contract!Next
<1>2. ASSUME NEW c \in Configs, CallInit(c)
      PROVE  Contract!Background
  BY <1>2, IsBackground DEF CallInit, device
<1>3. ASSUME NEW reg \in Ctrl, NEW byte \in Byte, NEW s \in {"OK"} \cup TransportError,
             Transaction(reg, byte, s), out' = out
      PROVE  Contract!Background
  BY <1>3, TransactionLands, IsBackground
<1>4. CASE InitWriteOK
  <2>1. WriteOrder[pc] \in Ctrl /\ cfg[WriteOrder[pc]] \in Byte
    BY <1>4, NextWrite DEF InitWriteOK
  <2> QED
    BY <1>1, <1>3, <1>4, <2>1 DEF InitWriteOK
<1>5. ASSUME NEW e \in TransportError, InitWriteFails(e)
      PROVE  Contract!Background
  <2>1. WriteOrder[pc] \in Ctrl /\ cfg[WriteOrder[pc]] \in Byte
    BY <1>5, NextWrite DEF InitWriteFails
  <2> QED
    BY <1>3, <1>5, <2>1 DEF InitWriteFails
<1>6. CASE InitReturns
  <2>1. CASE intact
    <3>1. PartRange' = PartRange
      BY <1>6 DEF InitReturns, device, PartRange
    <3>2. Contract!Configured
      BY <1>6, <2>1, <3>1 DEF InitReturns, Return, device, Contract!Configured
    <3> QED
      BY <3>2 DEF Contract!Next
  <2>2. CASE ~intact
    BY <1>1, <1>6, <2>2, IsBackground DEF InitReturns, device
  <2> QED
    BY <2>1, <2>2
<1>7. CASE ReadRawXL \/ ReadRawGyro \/ ReadXL_mg \/ ReadGyro_mdps
  BY <1>7, ReadersImplement
<1>8. ASSUME NEW reg \in Ctrl, ReadReg(reg)
      PROVE  Contract!Next
  <2>1. PICK byte : Reads("Reg", byte)
    BY <1>8 DEF ReadReg
  <2>2. UNCHANGED <<ctrl, sample, trust>>
    BY <2>1 DEF Reads, device
  <2>3. PartRange' = PartRange
    BY <2>2 DEF PartRange
  <2>4. CASE status' = "OK" /\ out' = [reader |-> "Reg", data |-> byte]
    <3>1. Contract!OtherRead
      BY <2>2, <2>3, <2>4 DEF Contract!OtherRead, Reader
    <3> QED
      BY <3>1 DEF Contract!Next
  <2>5. CASE out' = out
    BY <1>1, <2>2, <2>5, IsBackground
  <2> QED
    BY <2>1, <2>4, <2>5 DEF Reads
<1>9. ASSUME NEW id \in ChipIds, CheckWhoAmI(id)
      PROVE  Contract!Background
  BY <1>9, IsBackground DEF CheckWhoAmI, device
<1>10. ASSUME NEW w \in AppWrites, NEW s \in {"OK"} \cup TransportError, WriteReg(w[1], w[2], s)
       PROVE  Contract!Background
  <2>1. w[1] \in Ctrl /\ w[2] \in Byte
    BY AppWritesAssumption
  <2> QED
    BY <1>3, <1>10, <2>1 DEF WriteReg
<1>11. ASSUME NEW measured \in Samples, NewSample(measured)
       PROVE  Contract!Background
  BY <1>11, IsBackground DEF NewSample
<1>12. CASE PowerCycle
  BY <1>1, <1>12, IsBackground DEF PowerCycle
<1>13. CASE UNCHANGED vars
  <2>1. PartRange' = PartRange
    BY <1>13 DEF vars, PartRange
  <2> QED
    BY <1>13, <2>1 DEF vars, Contract!vars
<1> QED
  BY <1>1, <1>2, <1>4, <1>5, <1>6, <1>7, <1>8, <1>9, <1>10, <1>11, <1>12, <1>13
     DEF Next, InitStep

(* The driver with its part implements the contract: whatever fails,       *)
(* restarts or is written behind its back, an OK read of a trusted         *)
(* sub-sensor delivers that sub-sensor's sample at the range it runs at.   *)
THEOREM Implements == Spec => ImplementsContract
<1>1. Init => Contract!Init
  BY DEF Init, Contract!Init
<1>2. IInv /\ [Next]_vars => [Contract!Next]_(Contract!vars)
  BY StepImplements
<1> QED
  BY <1>1, <1>2, Invariance, PTL DEF Spec, ImplementsContract, Contract!Spec
=============================================================================
