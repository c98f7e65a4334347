------------------------- MODULE LIS3MDLProofs -------------------------
(***************************************************************************)
(* Theorems about the LIS3MDL driver, and through it about the bring-up    *)
(* the three ST drivers share: for every set of configurations, raw        *)
(* writes, identities and samples, what the runs of MCLIS3MDL check on a   *)
(* small instance.                                                         *)
(***************************************************************************)
EXTENDS LIS3MDL, TLAPS

USE DEF CTRL_REG1, CTRL_REG2, CTRL_REG3, CTRL_REG4, CTRL_REG5

-----------------------------------------------------------------------------
(* Two bytes of a count.                                                   *)

(* The two bytes a part holds for a signed count, low byte first, decode   *)
(* to that count.                                                          *)
LEMMA RoundTrip ==
  ASSUME NEW v \in Int16
  PROVE  LittleEndian16(LowByte(v), HighByte(v)) = v
BY DEF Int16, LittleEndian16, ToInt16, LowByte, HighByte

(* The bytes of a count are bytes.                                         *)
LEMMA BytesOfCount ==
  ASSUME NEW v \in Int16
  PROVE  LowByte(v) \in Byte /\ HighByte(v) \in Byte
BY DEF Int16, LowByte, HighByte, Byte

(* Two bytes the bus delivers decode to an int16_t, whatever they are.     *)
LEMMA DecodesToCount ==
  ASSUME NEW b0 \in Byte, NEW b1 \in Byte
  PROVE  LittleEndian16(b0, b1) \in Int16
BY DEF LittleEndian16, ToInt16, Byte, Int16

-----------------------------------------------------------------------------
(* What the driver makes of the part's registers.                          *)

(* The part's address is the one the driver asked for over either port;    *)
(* over I2C the part walks from there.                                     *)
LEMMA AddressArrives ==
  ASSUME NEW base \in {OFFSET_X_L_M, OUT_X_L}
  PROVE  LET byte == OnTheWire(Driver!ActualAddress(base))
         IN  Addressed(byte) = base /\ (Port = "I2C" => Walks(byte) = TRUE)
<1>1. base \in {5, 40}
  BY DEF OFFSET_X_L_M, OUT_X_L
<1>2. CASE Port = "I2C"
  BY <1>1, <1>2 DEF OnTheWire, Addressed, Walks, Field, Driver!ActualAddress
<1>3. CASE Port = "SPI"
  BY <1>1, <1>3 DEF OnTheWire, Addressed, SpiReadAddress, Driver!ActualAddress
<1> QED
  BY <1>2, <1>3, PortAssumption

AxisRegister(base) == {r \in Int : base <= r /\ r <= base + 5}

LEMMA RegisterBytes ==
  ASSUME sample \in Samples, NEW base \in {OFFSET_X_L_M, OUT_X_L}, NEW r \in AxisRegister(base)
  PROVE  Registers[r] \in Byte
<1> USE DEF OFFSET_X_L_M, OUT_X_L
<1>1. sample.field \in Axes16 /\ sample.offset \in Axes16
  BY SamplesAssumption
<1>2. ASSUME NEW axes \in Axes16, NEW i \in Int, 0 <= i, i <= 5
      PROVE  AxisByte(axes, i) \in Byte
  <2>1. (i \div 2) + 1 \in {1, 2, 3}
    BY <1>2
  <2>2. axes[(i \div 2) + 1] \in Int16
    BY <2>1 DEF Axes16
  <2> QED
    BY <2>2, BytesOfCount DEF AxisByte
<1>3. r \in (OFFSET_X_L_M..OFFSET_X_L_M + 5) \cup (OUT_X_L..OUT_X_L + 5)
  BY DEF AxisRegister
<1>4. Registers[r] = IF r < OUT_X_L THEN AxisByte(sample.offset, r - OFFSET_X_L_M)
                     ELSE AxisByte(sample.field, r - OUT_X_L)
  BY <1>3, Zenon DEF Registers
<1>5. CASE base = OFFSET_X_L_M
  BY <1>1, <1>2, <1>4, <1>5 DEF AxisRegister
<1>6. CASE base = OUT_X_L
  BY <1>1, <1>2, <1>4, <1>6 DEF AxisRegister
<1> QED
  BY <1>5, <1>6

(* Over either port the axes are counts, if not the part's own.            *)
LEMMA AxesAreCounts ==
  ASSUME sample \in Samples, NEW base \in {OFFSET_X_L_M, OUT_X_L}
  PROVE  RawAxes(base) \in Axes16
<1> DEFINE byte   == OnTheWire(Driver!ActualAddress(base))
           buffer == Burst(Registers, Addressed(byte), 6, Walks(byte))
<1>1. base \in Int
  BY DEF OFFSET_X_L_M, OUT_X_L
<1>2. Addressed(byte) = base
  BY AddressArrives
<1>3. ASSUME NEW i \in 1..6
      PROVE  buffer[i] \in Byte
  <2>1. buffer[i] = Registers[IF Walks(byte) THEN base + i - 1 ELSE base]
    BY <1>2, Zenon DEF Burst
  <2>2. base + i - 1 \in AxisRegister(base) /\ base \in AxisRegister(base)
    BY <1>1 DEF AxisRegister
  <2> QED
    BY <2>1, <2>2, RegisterBytes, Zenon
<1> HIDE DEF buffer
<1>4. /\ LittleEndian16(buffer[1], buffer[2]) \in Int16
      /\ LittleEndian16(buffer[3], buffer[4]) \in Int16
      /\ LittleEndian16(buffer[5], buffer[6]) \in Int16
  BY <1>3, DecodesToCount
<1> QED
  BY <1>4 DEF RawAxes, buffer, Axes16

LEMMA ReadsBack ==
  ASSUME Port = "I2C", sample \in Samples
  PROVE  RawAxes(OUT_X_L) = sample.field /\ RawAxes(OFFSET_X_L_M) = sample.offset
<1> USE DEF OFFSET_X_L_M, OUT_X_L
<1>1. ASSUME NEW axes \in Axes16, NEW base \in {OFFSET_X_L_M, OUT_X_L},
             \A i \in {0, 1, 2, 3, 4, 5} : Registers[base + i] = AxisByte(axes, i)
      PROVE  RawAxes(base) = axes
  <2> DEFINE byte   == OnTheWire(Driver!ActualAddress(base))
             buffer == Burst(Registers, Addressed(byte), 6, Walks(byte))
  <2>1. Addressed(byte) = base /\ Walks(byte) = TRUE
    BY AddressArrives
  <2>2. buffer = [i \in 1..6 |-> Registers[base + i - 1]]
    BY <2>1 DEF Burst
  <2> HIDE DEF buffer
  <2>3. /\ buffer[1] = LowByte(axes[1]) /\ buffer[2] = HighByte(axes[1])
        /\ buffer[3] = LowByte(axes[2]) /\ buffer[4] = HighByte(axes[2])
        /\ buffer[5] = LowByte(axes[3]) /\ buffer[6] = HighByte(axes[3])
    BY <1>1, <2>2 DEF AxisByte
  <2>4. axes[1] \in Int16 /\ axes[2] \in Int16 /\ axes[3] \in Int16
    BY DEF Axes16
  <2>5. RawAxes(base) = <<axes[1], axes[2], axes[3]>>
    BY <2>3, <2>4, RoundTrip DEF RawAxes, buffer
  <2> QED
    BY <2>5 DEF Axes16
<1>2. sample.field \in Axes16 /\ sample.offset \in Axes16
  BY SamplesAssumption
<1>3. \A i \in {0, 1, 2, 3, 4, 5} : Registers[OUT_X_L + i] = AxisByte(sample.field, i)
  BY DEF Registers
<1>4. \A i \in {0, 1, 2, 3, 4, 5} : Registers[OFFSET_X_L_M + i] = AxisByte(sample.offset, i)
  BY DEF Registers
<1> QED
  BY <1>1, <1>2, <1>3, <1>4

-----------------------------------------------------------------------------
(* The inductive invariant.  InitIsWhole alone is not inductive: when Init *)
(* returns, the registers written earlier must hold what it was given.     *)

WrittenSoFar ==
  intact => \A j \in DOMAIN WriteOrder : j < pc => ctrl[WriteOrder[j]] = cfg[WriteOrder[j]]

IInv == TypeOK /\ InitIsWhole /\ WrittenSoFar

LEMMA DriverSets ==
  /\ Driver!Ctrl = Ctrl /\ Driver!Byte = Byte
  /\ Driver!Status = Status /\ Driver!TransportError = TransportError
<1>1. Driver!Ctrl = Ctrl
  BY DEF Driver!Ctrl, Ctrl, WriteOrder
<1> QED
  BY <1>1 DEF Driver!Byte, Byte, Driver!Status, Status, Driver!TransportError, TransportError

Outputs == [reader : Reader, data : Axes16]

(* What TypeOK says, unfolded.                                             *)
LEMMA Typed ==
  ASSUME TypeOK
  PROVE  /\ ctrl \in [Ctrl -> Byte] /\ pc \in 0..5 /\ intact \in BOOLEAN
         /\ cfg \in IF pc = 0 THEN {Driver!NoConfig} ELSE Configs
         /\ configured \in Configs \cup {Driver!NoConfig}
         /\ out \in [reader : {"none", "Reg"}, data : Byte] \cup Outputs
         /\ status \in Status /\ sample \in Samples
BY DriverSets DEF TypeOK, Driver!Types, WriteOrder, Outputs

LEMMA FiveWrites ==
  /\ DOMAIN WriteOrder = 1..5 /\ Len(WriteOrder) = 5
  /\ \A j \in 1..5 : WriteOrder[j] \in Ctrl
  /\ \A r \in Ctrl : \E j \in 1..5 : r = WriteOrder[j]
  /\ \A j, k \in 1..5 : WriteOrder[j] = WriteOrder[k] => j = k
BY DEF WriteOrder, Ctrl

LEMMA PowerOnTyped == PowerOnCtrl \in [Ctrl -> Byte] /\ Driver!NoConfig \in [Ctrl -> Byte]
<1>1. PowerOnCtrl \in [Ctrl -> Byte]
  BY DEF PowerOnCtrl, Byte
<1> QED
  BY <1>1, DriverSets DEF Driver!NoConfig, Byte

LEMMA InitEstablishes == Init => IInv
<1> SUFFICES ASSUME Init PROVE IInv
  OBVIOUS
<1>1. TypeOK
  <2>1. ctrl \in [Driver!Ctrl -> Byte]
    BY PowerOnTyped, DriverSets DEF Init, Driver!Init
  <2>2. out \in [reader : {"none", "Reg"}, data : Byte]
    BY DEF Init, Driver!Init, Byte
  <2> QED
    BY <2>1, <2>2, FiveWrites, DriverSets DEF Init, Driver!Init, TypeOK, Driver!Types, Status
<1>2. InitIsWhole /\ WrittenSoFar
  BY FiveWrites DEF Init, Driver!Init, InitIsWhole, Driver!InitIsWhole, WrittenSoFar
<1> QED
  BY <1>1, <1>2 DEF IInv

-----------------------------------------------------------------------------
(* The steps.                                                              *)

LEMMA Transacts ==
  ASSUME ctrl \in [Ctrl -> Byte], NEW reg \in Ctrl, NEW byte \in Byte, NEW s,
         Driver!Transaction(reg, byte, s)
  PROVE  /\ ctrl' \in [Ctrl -> Byte]
         /\ \A r \in Ctrl : r # reg => ctrl'[r] = ctrl[r]
         /\ s = "OK" => ctrl'[reg] = byte
BY DriverSets DEF Driver!Transaction, Driver!TransportError, TransportError

(* A write of Init reaches the next register or fails.                     *)
LEMMA InitWrites ==
  ASSUME IInv, NEW s, Driver!InitWrite(s)
  PROVE  /\ pc \in 1..5 /\ cfg \in Configs
         /\ ctrl' \in [Ctrl -> Byte]
         /\ out' = out
         /\ s = "OK" /\ intact =>
              \A j \in 1..5 : j <= pc => ctrl'[WriteOrder[j]] = cfg[WriteOrder[j]]
<1>1. pc \in 1..5 /\ ctrl \in [Ctrl -> Byte]
  BY FiveWrites, Typed DEF Driver!InitWrite, IInv
<1>2. cfg \in Configs
  BY <1>1, Typed DEF IInv
<1>3. WriteOrder[pc] \in Ctrl /\ cfg[WriteOrder[pc]] \in Byte
  BY <1>1, <1>2, FiveWrites, ConfigsAssumption
<1>4. Driver!Transaction(WriteOrder[pc], cfg[WriteOrder[pc]], s)
  BY DEF Driver!InitWrite
<1>5. /\ ctrl' \in [Ctrl -> Byte]
      /\ \A r \in Ctrl : r # WriteOrder[pc] => ctrl'[r] = ctrl[r]
      /\ s = "OK" => ctrl'[WriteOrder[pc]] = cfg[WriteOrder[pc]]
  BY <1>1, <1>3, <1>4, Transacts
<1>6. ASSUME s = "OK", intact, NEW j \in 1..5, j <= pc
      PROVE  ctrl'[WriteOrder[j]] = cfg[WriteOrder[j]]
  <2>1. CASE j = pc
    BY <1>5, <1>6, <2>1
  <2>2. CASE j < pc
    <3>1. WriteOrder[j] \in Ctrl /\ WriteOrder[j] # WriteOrder[pc]
      BY <1>1, <2>2, FiveWrites
    <3>2. ctrl[WriteOrder[j]] = cfg[WriteOrder[j]]
      BY <1>6, <2>2, FiveWrites DEF IInv, WrittenSoFar
    <3> QED
      BY <1>5, <3>1, <3>2
  <2> QED
    BY <1>1, <1>6, <2>1, <2>2
<1> QED
  BY <1>1, <1>2, <1>5, <1>6 DEF Driver!InitWrite

(* The invariant where no configuration is promised.                       *)
LEMMA NothingPromised ==
  ASSUME TypeOK', configured' = Driver!NoConfig, WrittenSoFar'
  PROVE  IInv'
BY DEF IInv, InitIsWhole, Driver!InitIsWhole, Driver!NoConfig, Driver!Ctrl

(* The types of the next state, from the new values.                       *)
LEMMA TypedNext ==
  ASSUME ctrl' \in [Ctrl -> Byte], pc' \in 0..5, intact' \in BOOLEAN,
         cfg' \in IF pc' = 0 THEN {Driver!NoConfig} ELSE Configs,
         configured' \in Configs \cup {Driver!NoConfig},
         out' \in [reader : {"none", "Reg"}, data : Byte] \cup Outputs,
         status' \in Status, sample' \in Samples
  PROVE  TypeOK'
BY DriverSets, FiveWrites DEF TypeOK, Driver!Types, Outputs, Driver!NoConfig, Driver!Ctrl

LEMMA InitStepPreserves ==
  ASSUME IInv, Driver!InitStep, UNCHANGED sample
  PROVE  IInv'
<1> USE Typed DEF IInv, Status, TransportError
<1>1. CASE Driver!InitGoesOn
  <2>1. /\ Driver!InitWrite("OK") /\ pc < 5 /\ pc' = pc + 1
        /\ configured' = Driver!NoConfig /\ UNCHANGED <<cfg, intact, status>>
    BY <1>1, FiveWrites DEF Driver!InitGoesOn
  <2>2. /\ pc \in 1..5 /\ cfg \in Configs /\ ctrl' \in [Ctrl -> Byte] /\ out' = out
        /\ intact => \A j \in 1..5 : j <= pc => ctrl'[WriteOrder[j]] = cfg[WriteOrder[j]]
    BY <2>1, InitWrites
  <2>3. TypeOK'
    BY <2>1, <2>2, TypedNext
  <2>4. WrittenSoFar'
    BY <2>1, <2>2, FiveWrites DEF WrittenSoFar, WriteOrder
  <2> QED
    BY <2>1, <2>3, <2>4, NothingPromised
<1>2. CASE Driver!InitReturns
  <2>1. /\ Driver!InitWrite("OK") /\ pc = 5 /\ pc' = 0
        /\ cfg' = Driver!NoConfig /\ intact' = TRUE /\ status' = "OK"
        /\ configured' = IF intact THEN cfg ELSE Driver!NoConfig
    BY <1>2, FiveWrites DEF Driver!InitReturns, Driver!Return
  <2>2. /\ cfg \in Configs /\ ctrl' \in [Ctrl -> Byte] /\ out' = out
        /\ intact => \A j \in 1..5 : j <= pc => ctrl'[WriteOrder[j]] = cfg[WriteOrder[j]]
    BY <2>1, InitWrites
  <2>3. TypeOK'
    <3>1. configured' \in Configs \cup {Driver!NoConfig}
      BY <2>1, <2>2
    <3> QED
      BY <2>1, <2>2, <3>1, TypedNext
  <2>4. WrittenSoFar'
    BY <2>1, FiveWrites DEF WrittenSoFar, WriteOrder
  <2>5. CASE intact
    <3>1. \A j \in 1..5 : ctrl'[WriteOrder[j]] = cfg[WriteOrder[j]]
      BY <2>1, <2>2, <2>5
    <3>2. \A r \in Ctrl : ctrl'[r] = cfg[r]
      BY <3>1, FiveWrites
    <3>3. cfg \in [Ctrl -> Byte]
      BY <2>2, ConfigsAssumption
    <3>4. ctrl' = cfg
      BY <2>2, <3>2, <3>3
    <3>5. InitIsWhole'
      BY <2>1, <2>5, <3>4 DEF InitIsWhole, Driver!InitIsWhole
    <3> QED
      BY <2>3, <2>4, <3>5
  <2>6. CASE ~intact
    BY <2>1, <2>3, <2>4, <2>6, NothingPromised
  <2> QED
    BY <2>5, <2>6
<1>3. ASSUME NEW e \in TransportError, Driver!InitStops(e)
      PROVE  IInv'
  <2>1. /\ Driver!InitWrite(e) /\ pc' = 0 /\ cfg' = Driver!NoConfig /\ intact' = TRUE
        /\ status' = e /\ configured' = Driver!NoConfig
    BY <1>3 DEF Driver!InitStops, Driver!Return
  <2>2. ctrl' \in [Ctrl -> Byte] /\ out' = out
    BY <2>1, InitWrites
  <2>3. TypeOK'
    BY <2>1, <2>2, TypedNext
  <2>4. WrittenSoFar'
    BY <2>1, FiveWrites DEF WrittenSoFar, WriteOrder
  <2> QED
    BY <2>1, <2>3, <2>4, NothingPromised
<1> QED
  BY <1>1, <1>2, <1>3, DriverSets DEF Driver!InitStep

(* A call leaves part and bring-up alone, or promises nothing.             *)
LEMMA StaysWhole ==
  ASSUME IInv, UNCHANGED setup,
         out' \in [reader : {"none", "Reg"}, data : Byte] \cup Outputs,
         status' \in Status, sample' \in Samples
  PROVE  IInv'
<1>1. TypeOK'
  <2> USE Typed DEF IInv, setup
  <2> QED
    BY TypedNext
<1> QED
  BY <1>1 DEF IInv, setup, InitIsWhole, Driver!InitIsWhole, WrittenSoFar, WriteOrder,
              Driver!NoConfig, Driver!Ctrl

LEMMA CallPreserves ==
  ASSUME IInv, Driver!Call, UNCHANGED sample
  PROVE  IInv'
<1> USE Typed DEF IInv, Status, TransportError
<1>1. ASSUME NEW c \in Configs, Driver!CallInit(c)
      PROVE  IInv'
  <2>1. pc = 0 /\ pc' = 1 /\ cfg' = c /\ UNCHANGED <<ctrl, intact, configured, out, status>>
    BY <1>1 DEF Driver!CallInit, Driver!Idle
  <2>2. TypeOK'
    BY <2>1, TypedNext
  <2>3. WrittenSoFar'
    BY <2>1, FiveWrites DEF WrittenSoFar, WriteOrder
  <2>4. InitIsWhole'
    BY <2>1 DEF InitIsWhole, Driver!InitIsWhole, Driver!NoConfig, Driver!Ctrl
  <2> QED
    BY <2>2, <2>3, <2>4
<1>2. ASSUME NEW reg \in Ctrl, Driver!ReadReg(reg)
      PROVE  IInv'
  <2>1. ctrl[reg] \in Byte
    OBVIOUS
  <2>2. out' \in [reader : {"none", "Reg"}, data : Byte] \cup Outputs
    BY <1>2, <2>1 DEF Driver!ReadReg
  <2>3. status' \in Status
    BY <1>2, DriverSets DEF Driver!ReadReg
  <2> QED
    BY <1>2, <2>2, <2>3, StaysWhole DEF Driver!ReadReg, Driver!setup, setup
<1>3. ASSUME NEW w \in AppWrites, NEW s \in {"OK"} \cup TransportError,
             Driver!WriteReg(w[1], w[2], s)
      PROVE  IInv'
  <2>1. w[1] \in Ctrl /\ w[2] \in Byte
    BY AppWritesAssumption
  <2>2. /\ pc = 0 /\ Driver!Transaction(w[1], w[2], s)
        /\ status' = s /\ configured' = Driver!NoConfig
        /\ UNCHANGED <<pc, cfg, intact, out>>
    BY <1>3 DEF Driver!WriteReg, Driver!Idle
  <2>3. ctrl' \in [Ctrl -> Byte]
    BY <2>1, <2>2, Transacts
  <2>4. TypeOK'
    BY <2>2, <2>3, TypedNext
  <2>5. WrittenSoFar'
    BY <2>2, FiveWrites DEF WrittenSoFar, WriteOrder
  <2> QED
    BY <2>2, <2>4, <2>5, NothingPromised
<1>4. ASSUME NEW id \in ChipIds, Driver!CheckWhoAmI(id)
      PROVE  IInv'
  <2>1. status' \in Status
    BY <1>4, DriverSets DEF Driver!CheckWhoAmI, Driver!WhoAmIStatus
  <2> QED
    BY <1>4, <2>1, StaysWhole DEF Driver!CheckWhoAmI, Driver!setup, setup
<1> QED
  BY <1>1, <1>2, <1>3, <1>4, DriverSets DEF Driver!Call

LEMMA PowerCyclePreserves ==
  ASSUME IInv, Driver!PowerCycle, UNCHANGED sample
  PROVE  IInv'
<1>1. /\ ctrl' = PowerOnCtrl /\ configured' = Driver!NoConfig /\ intact' = (pc = 0)
      /\ UNCHANGED <<pc, cfg, out, status>>
  BY DEF Driver!PowerCycle
<1>2. (pc = 0) \in BOOLEAN
  OBVIOUS
<1>3. intact' \in BOOLEAN
  BY <1>1, <1>2, Zenon
<1>4. TypeOK'
  BY <1>1, <1>3, PowerOnTyped, Typed, TypedNext DEF IInv
<1>5. WrittenSoFar'
  <2>1. CASE pc = 0
    BY <1>1, <2>1, FiveWrites DEF WrittenSoFar, WriteOrder
  <2>2. CASE pc # 0
    <3>1. intact' = FALSE
      BY <1>1, <2>2, Zenon
    <3> QED
      BY <3>1, Zenon DEF WrittenSoFar
  <2> QED
    BY <2>1, <2>2
<1> QED
  BY <1>1, <1>4, <1>5, NothingPromised

LEMMA StepPreserves ==
  ASSUME IInv, [Next]_vars
  PROVE  IInv'
<1> USE Typed DEF IInv
<1>1. ASSUME Driver!Call \/ Driver!InitStep \/ Driver!PowerCycle, UNCHANGED sample
      PROVE  IInv'
  BY <1>1, CallPreserves, InitStepPreserves, PowerCyclePreserves
<1>2. ASSUME NEW reader \in Reader, NEW base \in {OFFSET_X_L_M, OUT_X_L},
             Reads(reader, RawAxes(base))
      PROVE  IInv'
  <2>1. RawAxes(base) \in Axes16
    BY AxesAreCounts
  <2>2. out' \in [reader : {"none", "Reg"}, data : Byte] \cup Outputs
    BY <1>2, <2>1 DEF Reads, Outputs
  <2>3. status' \in Status /\ UNCHANGED <<setup, sample>>
    BY <1>2 DEF Reads, Status, TransportError
  <2> QED
    BY <2>2, <2>3, StaysWhole
<1>3. CASE ReadRaw \/ ReadHardIronOffset
  BY <1>2, <1>3 DEF ReadRaw, ReadHardIronOffset, Reader
<1>4. ASSUME NEW measured \in Samples, NewSample(measured)
      PROVE  IInv'
  BY <1>4, StaysWhole DEF NewSample
<1>5. CASE UNCHANGED vars
  BY <1>5, StaysWhole DEF vars
<1> QED
  BY <1>1, <1>3, <1>4, <1>5 DEF Next

LEMMA Invariance == Spec => []IInv
BY InitEstablishes, StepPreserves, PTL DEF Spec

(* Every axis the driver delivers is an int16_t and pc stays inside the    *)
(* five writes of Init, over either port.                                  *)
THEOREM TypeCorrect == Spec => []TypeOK
BY Invariance, PTL DEF IInv

(* An OK LIS3MDL_Init left all five registers of its configuration in a    *)
(* part that kept its power, over either port.                             *)
THEOREM WholeInit == Spec => []InitIsWhole
BY Invariance, PTL DEF IInv

-----------------------------------------------------------------------------
(* The refinement, over I2C.                                               *)

LEMMA StepImplements ==
  ASSUME Port = "I2C", IInv, [Next]_vars
  PROVE  [Contract!Next]_(Contract!vars)
<1>1. ASSUME out' = out
      PROVE  Contract!Next
  BY <1>1 DEF Contract!Next, Contract!Background
<1>2. ASSUME Driver!Call \/ Driver!InitStep \/ Driver!PowerCycle
      PROVE  Contract!Next
  <2>1. CASE status' = "OK" /\ out'.reader = "Reg"
    BY <2>1 DEF Contract!Next, Contract!OtherRead, Reader
  <2>2. out' = out \/ (status' = "OK" /\ out'.reader = "Reg")
    BY <1>2 DEF Driver!Call, Driver!InitStep, Driver!PowerCycle, Driver!CallInit,
         Driver!ReadReg, Driver!WriteReg, Driver!CheckWhoAmI, Driver!InitGoesOn,
         Driver!InitReturns, Driver!InitStops, Driver!InitWrite
  <2> QED
    BY <1>1, <2>1, <2>2
<1>3. ASSUME NEW reader \in Reader, NEW axes, Reads(reader, axes),
             axes = Output(reader, sample)
      PROVE  Contract!Next
  <2>1. CASE status' = "OK" /\ out' = [reader |-> reader, data |-> axes]
    BY <1>3, <2>1 DEF Contract!Next, Contract!Read
  <2> QED
    BY <1>1, <1>3, <2>1 DEF Reads
<1>4. RawAxes(OUT_X_L) = sample.field /\ RawAxes(OFFSET_X_L_M) = sample.offset
  BY Typed, ReadsBack DEF IInv
<1>5. CASE ReadRaw
  BY <1>3, <1>4, <1>5 DEF ReadRaw, Output, Reader
<1>6. CASE ReadHardIronOffset
  BY <1>3, <1>4, <1>6 DEF ReadHardIronOffset, Output, Reader
<1>7. CASE UNCHANGED vars
  BY <1>1, <1>7 DEF vars
<1> QED
  BY <1>1, <1>2, <1>5, <1>6, <1>7 DEF Next, NewSample

(* Over I2C an OK read delivers the part's three axes and no other call    *)
(* touches what was delivered before; the run lis3mdl_spi shows what       *)
(* happens over SPI.                                                       *)
THEOREM Implements == ASSUME Port = "I2C" PROVE Spec => ImplementsContract
<1>1. Init => Contract!Init
  BY DEF Init, Driver!Init, Contract!Init, Reader
<1>2. IInv /\ [Next]_vars => [Contract!Next]_(Contract!vars)
  BY StepImplements
<1> QED
  BY <1>1, <1>2, Invariance, PTL DEF Spec, ImplementsContract, Contract!Spec

-----------------------------------------------------------------------------
(* Over SPI: the byte that starts a burst says "read" to the part and      *)
(* nothing more.                                                           *)

Smeared(b) == LET axis == LittleEndian16(b, b) IN <<axis, axis, axis>>

LEMMA NeverWalks ==
  ASSUME Port = "SPI", NEW base \in {OFFSET_X_L_M, OUT_X_L}
  PROVE  Walks(OnTheWire(Driver!ActualAddress(base))) = FALSE
<1>1. base \in {5, 40}
  BY DEF OFFSET_X_L_M, OUT_X_L
<1> QED
  BY <1>1 DEF OnTheWire, Walks, Field, SpiReadAddress, Driver!ActualAddress

LEMMA FirstByteSixTimes ==
  ASSUME Port = "SPI", NEW base \in {OFFSET_X_L_M, OUT_X_L}
  PROVE  RawAxes(base) = Smeared(Registers[base])
<1> DEFINE byte   == OnTheWire(Driver!ActualAddress(base))
           buffer == Burst(Registers, Addressed(byte), 6, Walks(byte))
<1>1. Addressed(byte) = base /\ Walks(byte) = FALSE
  BY AddressArrives, NeverWalks
<1>2. ASSUME NEW i \in 1..6
      PROVE  buffer[i] = Registers[base]
  BY <1>1, Zenon DEF Burst
<1> HIDE DEF buffer
<1>3. /\ buffer[1] = Registers[base] /\ buffer[2] = Registers[base]
      /\ buffer[3] = Registers[base] /\ buffer[4] = Registers[base]
      /\ buffer[5] = Registers[base] /\ buffer[6] = Registers[base]
  BY <1>2
<1> QED
  BY <1>3, Zenon DEF RawAxes, buffer, Smeared

(* The register at which each burst starts: the low byte of the first axis.*)
LEMMA FirstRegister ==
  /\ Registers[OUT_X_L] = LowByte(sample.field[1])
  /\ Registers[OFFSET_X_L_M] = LowByte(sample.offset[1])
<1> USE DEF OFFSET_X_L_M, OUT_X_L
<1>1. ASSUME NEW axes PROVE AxisByte(axes, 0) = LowByte(axes[1])
  BY DEF AxisByte
<1>2. /\ OUT_X_L \in (OFFSET_X_L_M..OFFSET_X_L_M + 5) \cup (OUT_X_L..OUT_X_L + 5)
      /\ OFFSET_X_L_M \in (OFFSET_X_L_M..OFFSET_X_L_M + 5) \cup (OUT_X_L..OUT_X_L + 5)
  OBVIOUS
<1>3. /\ Registers[OUT_X_L] = AxisByte(sample.field, 0)
      /\ Registers[OFFSET_X_L_M] = AxisByte(sample.offset, 0)
  BY <1>2 DEF Registers
<1> QED
  BY <1>1, <1>3

(* An OK read delivers the first byte that was asked for, and no other.    *)
OneByteOfThePart ==
  [][/\ ReadRaw /\ status' = "OK" =>
           out'.data = Smeared(LowByte(sample.field[1]))
     /\ ReadHardIronOffset /\ status' = "OK" =>
           out'.data = Smeared(LowByte(sample.offset[1]))]_vars

(* Over SPI both readers deliver, with LIBDRIVERS_OK, three equal axes     *)
(* made of one byte of the part, whatever it measures and however it was   *)
(* configured: no setting of the driver avoids what the run lis3mdl_spi    *)
(* finds on one sample.                                                    *)
THEOREM SpiDeliversOneByte == ASSUME Port = "SPI" PROVE Spec => OneByteOfThePart
<1>1. ASSUME ReadRaw, status' = "OK"
      PROVE  out'.data = Smeared(LowByte(sample.field[1]))
  <2>1. out'.data = RawAxes(OUT_X_L)
    BY <1>1 DEF ReadRaw, Reads, TransportError
  <2> QED
    BY <2>1, FirstByteSixTimes, FirstRegister
<1>2. ASSUME ReadHardIronOffset, status' = "OK"
      PROVE  out'.data = Smeared(LowByte(sample.offset[1]))
  <2>1. out'.data = RawAxes(OFFSET_X_L_M)
    BY <1>2 DEF ReadHardIronOffset, Reads, TransportError
  <2> QED
    BY <2>1, FirstByteSixTimes, FirstRegister
<1>3. [Next]_vars =>
        [/\ ReadRaw /\ status' = "OK" =>
               out'.data = Smeared(LowByte(sample.field[1]))
         /\ ReadHardIronOffset /\ status' = "OK" =>
               out'.data = Smeared(LowByte(sample.offset[1]))]_vars
  BY <1>1, <1>2
<1> QED
  BY <1>3, PTL DEF Spec, OneByteOfThePart
=============================================================================
