-------------------------- MODULE HTS221Proofs --------------------------
(***************************************************************************)
(* Theorems about the HTS221 driver: for every set of parts whose points   *)
(* are two, every set of samples, configurations and raw writes, what the  *)
(* run of MCHTS221 checks on a small instance.                             *)
(***************************************************************************)
EXTENDS HTS221, TLAPS

USE DEF CTRL_REG1, CTRL_REG2, CTRL_REG3

-----------------------------------------------------------------------------
(* Two bytes of a count.                                                   *)

(* The two bytes a part holds for a signed count, low byte first, decode   *)
(* to that count.                                                          *)
LEMMA RoundTrip ==
  ASSUME NEW v \in Int16
  PROVE  LittleEndian16(LowByte(v), HighByte(v)) = v
BY DEF Int16, LittleEndian16, ToInt16, LowByte, HighByte

-----------------------------------------------------------------------------
(* What the driver makes of the part's registers.                          *)

(* XXX_ReadReg sets the bit the part wants for a burst.                    *)
LEMMA ReadIncrements ==
  ASSUME NEW registers, NEW reg \in {HUMIDITY_OUT_L, H0_RH_X2}, NEW len \in Nat
  PROVE  Read(registers, reg, len) = [i \in 1..len |-> registers[reg + i - 1]]
<1>1. /\ Driver!Register(Driver!ActualAddress(reg)) = reg
      /\ Driver!Increments(Driver!ActualAddress(reg)) = TRUE
  BY DEF Driver!Register, Driver!ActualAddress, Driver!Increments, HUMIDITY_OUT_L, H0_RH_X2
<1> QED
  BY <1>1 DEF Read, Burst

(* The twelve bits 9:8 of the two temperature points share one register.   *)
LEMMA SharedMsb ==
  ASSUME NEW t0 \in TenBits, NEW t1 \in TenBits
  PROVE  LET msb == Reserved + 4 * (t1 \div 256) + (t0 \div 256)
         IN  /\ 256 * Field(msb, 1, 4) + (t0 % 256) = t0
             /\ 256 * Field(msb, 4, 4) + (t1 % 256) = t1
BY DEF TenBits, Field, Reserved

CalibrationBuffer == Read(CalibrationRegisters, H0_RH_X2, 16)

LEMMA CalibrationBytes ==
  /\ CalibrationBuffer[1] = part.H0_rH_x2 /\ CalibrationBuffer[2] = part.H1_rH_x2
  /\ CalibrationBuffer[3] = part.T0_degC_x8 % 256
  /\ CalibrationBuffer[4] = part.T1_degC_x8 % 256
  /\ CalibrationBuffer[6] = Reserved + 4 * (part.T1_degC_x8 \div 256) + (part.T0_degC_x8 \div 256)
  /\ CalibrationBuffer[7] = LowByte(part.H0_T0_OUT) /\ CalibrationBuffer[8] = HighByte(part.H0_T0_OUT)
  /\ CalibrationBuffer[11] = LowByte(part.H1_T0_OUT) /\ CalibrationBuffer[12] = HighByte(part.H1_T0_OUT)
  /\ CalibrationBuffer[13] = LowByte(part.T0_OUT) /\ CalibrationBuffer[14] = HighByte(part.T0_OUT)
  /\ CalibrationBuffer[15] = LowByte(part.T1_OUT) /\ CalibrationBuffer[16] = HighByte(part.T1_OUT)
<1>1. \A i \in 1..16 : CalibrationBuffer[i] = CalibrationRegisters[H0_RH_X2 + i - 1]
  <2>1. CalibrationBuffer = [i \in 1..16 |-> CalibrationRegisters[H0_RH_X2 + i - 1]]
    BY ReadIncrements, 16 \in Nat, Zenon DEF CalibrationBuffer
  <2> QED
    BY <2>1, Zenon
<1> QED
  BY <1>1 DEF CalibrationRegisters, H0_RH_X2

(* ReadCalibration's unpacking gives the part's eight points back, the     *)
(* reserved bits whatever they are.                                        *)
LEMMA CalibrationReadsBack ==
  ASSUME part \in Parts
  PROVE  Unpacked(CalibrationBuffer) = part
<1>1. part \in Calibration
  BY PartsAssumption
<1>2. /\ LittleEndian16(CalibrationBuffer[7], CalibrationBuffer[8]) = part.H0_T0_OUT
      /\ LittleEndian16(CalibrationBuffer[11], CalibrationBuffer[12]) = part.H1_T0_OUT
      /\ LittleEndian16(CalibrationBuffer[13], CalibrationBuffer[14]) = part.T0_OUT
      /\ LittleEndian16(CalibrationBuffer[15], CalibrationBuffer[16]) = part.T1_OUT
  BY <1>1, CalibrationBytes, RoundTrip DEF Calibration
<1>3. /\ 256 * Field(CalibrationBuffer[6], 1, 4) + CalibrationBuffer[3] = part.T0_degC_x8
      /\ 256 * Field(CalibrationBuffer[6], 4, 4) + CalibrationBuffer[4] = part.T1_degC_x8
  BY <1>1, CalibrationBytes, SharedMsb DEF Calibration
<1>4. Unpacked(CalibrationBuffer) =
        [H0_rH_x2 |-> part.H0_rH_x2, H1_rH_x2 |-> part.H1_rH_x2,
         T0_degC_x8 |-> part.T0_degC_x8, T1_degC_x8 |-> part.T1_degC_x8,
         H0_T0_OUT |-> part.H0_T0_OUT, H1_T0_OUT |-> part.H1_T0_OUT,
         T0_OUT |-> part.T0_OUT, T1_OUT |-> part.T1_OUT]
  BY <1>2, <1>3, CalibrationBytes
     DEF Unpacked, H0_RH_X2, H1_RH_X2, T0_DEGC_X8, T1_DEGC_X8, T0_T1_MSB,
         H0_T0_OUT_L, H1_T0_OUT_L, T0_OUT_L, T1_OUT_L
<1> QED
  BY <1>1, <1>4 DEF Calibration

OutputBuffer == Read(Registers, HUMIDITY_OUT_L, 4)

LEMMA SampleReadsBack ==
  ASSUME sample \in Samples
  PROVE  /\ LittleEndian16(OutputBuffer[1], OutputBuffer[2]) = sample.H
         /\ LittleEndian16(OutputBuffer[3], OutputBuffer[4]) = sample.T
<1>1. \A i \in 1..4 : OutputBuffer[i] = Registers[HUMIDITY_OUT_L + i - 1]
  <2>1. OutputBuffer = [i \in 1..4 |-> Registers[HUMIDITY_OUT_L + i - 1]]
    BY ReadIncrements, 4 \in Nat, Zenon DEF OutputBuffer
  <2> QED
    BY <2>1, Zenon
<1>2. /\ OutputBuffer[1] = LowByte(sample.H) /\ OutputBuffer[2] = HighByte(sample.H)
      /\ OutputBuffer[3] = LowByte(sample.T) /\ OutputBuffer[4] = HighByte(sample.T)
  BY <1>1 DEF Registers, HUMIDITY_OUT_L
<1> QED
  BY <1>2, SamplesAssumption, RoundTrip

-----------------------------------------------------------------------------
(* The steps of StDriver: writes of configured bytes to control registers. *)

LEMMA DriverSets ==
  /\ Driver!Ctrl = Ctrl /\ Driver!Byte = Byte
  /\ Driver!Status = Status /\ Driver!TransportError = TransportError
<1>1. Driver!Ctrl = Ctrl
  BY DEF Driver!Ctrl, Ctrl
<1> QED
  BY <1>1 DEF Driver!Byte, Byte, Driver!Status, Status, Driver!TransportError, TransportError

LEMMA Transacts ==
  ASSUME ctrl \in [Ctrl -> Byte], NEW reg \in Ctrl, NEW byte \in Byte, NEW s,
         Driver!Transaction(reg, byte, s)
  PROVE  ctrl' \in [Ctrl -> Byte]
BY DriverSets DEF Driver!Transaction

LEMMA InitWrites ==
  ASSUME Driver!Types(Outputs), NEW s, Driver!InitWrite(s)
  PROVE  /\ pc \in 1..3 /\ cfg \in Configs
         /\ ctrl' \in [Ctrl -> Byte]
         /\ out' = out
<1>1. pc \in 1..3
  BY DEF Driver!InitWrite
<1>2. cfg \in Configs
  BY <1>1 DEF Driver!Types
<1>3. <<CTRL_REG1, CTRL_REG2, CTRL_REG3>>[pc] \in Ctrl
  BY <1>1 DEF Ctrl
<1>4. cfg[<<CTRL_REG1, CTRL_REG2, CTRL_REG3>>[pc]] \in Byte
  BY <1>2, <1>3, ConfigsAssumption
<1>5. ctrl' \in [Ctrl -> Byte]
  <2>1. ctrl \in [Ctrl -> Byte]
    BY DriverSets DEF Driver!Types
  <2> QED
    BY <1>3, <1>4, <2>1, Transacts DEF Driver!InitWrite
<1> QED
  BY <1>1, <1>2, <1>5 DEF Driver!InitWrite

LEMMA DriverPreserves ==
  ASSUME Driver!Types(Outputs), Driver!Call \/ Driver!InitStep \/ Driver!PowerCycle
  PROVE  Driver!Types(Outputs)'
<1> USE DriverSets DEF Driver!Types, Status, TransportError
<1>1. ctrl \in [Ctrl -> Byte] /\ Driver!NoConfig \in {Driver!NoConfig}
  BY DriverSets
<1>2. ASSUME NEW c \in Configs, Driver!CallInit(c)
      PROVE  Driver!Types(Outputs)'
  BY <1>2 DEF Driver!CallInit
<1>3. ASSUME NEW reg \in Ctrl, Driver!ReadReg(reg)
      PROVE  Driver!Types(Outputs)'
  <2>1. ctrl[reg] \in Byte
    BY <1>1
  <2>2. out' \in [reader : {"none", "Reg"}, data : Byte] \cup Outputs
    BY <1>3, <2>1 DEF Driver!ReadReg
  <2>3. status' \in Status
    BY <1>3 DEF Driver!ReadReg
  <2> QED
    BY <1>3, <2>2, <2>3 DEF Driver!ReadReg, Driver!setup
<1>4. ASSUME NEW w \in AppWrites, NEW s \in {"OK"} \cup TransportError,
             Driver!WriteReg(w[1], w[2], s)
      PROVE  Driver!Types(Outputs)'
  <2>1. w[1] \in Ctrl /\ w[2] \in Byte
    BY AppWritesAssumption
  <2>2. ctrl' \in [Driver!Ctrl -> Byte]
    BY <1>1, <1>4, <2>1, Transacts, DriverSets DEF Driver!WriteReg
  <2> QED
    BY <1>4, <2>2 DEF Driver!WriteReg
<1>5. ASSUME NEW id \in ChipIds, Driver!CheckWhoAmI(id)
      PROVE  Driver!Types(Outputs)'
  BY <1>5 DEF Driver!CheckWhoAmI, Driver!setup, Driver!WhoAmIStatus
<1>6. ASSUME NEW s \in {"OK"} \cup TransportError, Driver!InitWrite(s)
      PROVE  /\ pc \in 1..3 /\ cfg \in Configs
             /\ ctrl' \in [Driver!Ctrl -> Byte]
             /\ out' = out
  BY <1>6, InitWrites, DriverSets
<1>7. CASE Driver!InitGoesOn
  BY <1>6, <1>7 DEF Driver!InitGoesOn
<1>8. CASE Driver!InitReturns
  BY <1>6, <1>8 DEF Driver!InitReturns, Driver!Return
<1>9. ASSUME NEW e \in TransportError, Driver!InitStops(e)
      PROVE  Driver!Types(Outputs)'
  BY <1>6, <1>9 DEF Driver!InitStops, Driver!Return
<1>10. CASE Driver!PowerCycle
  <2>1. [r \in Ctrl |-> 0] \in [Driver!Ctrl -> Byte]
    BY DriverSets DEF Byte
  <2>2. (pc = 0) \in BOOLEAN
    OBVIOUS
  <2> QED
    BY <1>10, <2>1, <2>2 DEF Driver!PowerCycle
<1> QED
  BY <1>2, <1>3, <1>4, <1>5, <1>7, <1>8, <1>9, <1>10, DriverSets
     DEF Driver!Call, Driver!InitStep

(* None of them but ReadReg touches the caller's output.                   *)
LEMMA DriverDelivers ==
  ASSUME Driver!Types(Outputs), Driver!Call \/ Driver!InitStep \/ Driver!PowerCycle
  PROVE  out' = out \/ (status' = "OK" /\ out'.reader = "Reg")
BY DEF Driver!Call, Driver!InitStep, Driver!PowerCycle, Driver!CallInit, Driver!ReadReg,
       Driver!WriteReg, Driver!CheckWhoAmI, Driver!InitGoesOn, Driver!InitReturns,
       Driver!InitStops, Driver!InitWrite

-----------------------------------------------------------------------------
(* The inductive invariant: the calibration in the handle is nothing or    *)
(* one part's, and while `calibrated' holds it is that of the part on the  *)
(* bus.                                                                    *)

IInv ==
  /\ TypeOK
  /\ CalibrationIsOfOnePart
  /\ calibrated => cal = part

LEMMA InitEstablishes == Init => IInv
<1> SUFFICES ASSUME Init PROVE IInv
  OBVIOUS
<1>1. Driver!Types(Outputs)
  <2>1. [r \in Ctrl |-> 0] \in [Driver!Ctrl -> Byte]
    BY DriverSets DEF Byte
  <2>2. [reader |-> "none", data |-> 0] \in [reader : {"none", "Reg"}, data : Byte]
    BY DEF Byte
  <2> QED
    BY <2>1, <2>2, DriverSets DEF Init, Driver!Init, Driver!Types, Status
<1>2. Uncalibrated \in Calibration
  BY DEF Uncalibrated, Calibration, Byte, TenBits, Int16
<1>3. raw \in [H : Int16, T : Int16]
  BY DEF Init, Int16
<1>4. TypeOK
  BY <1>1, <1>2, <1>3 DEF Init, TypeOK
<1> QED
  BY <1>4 DEF Init, IInv, CalibrationIsOfOnePart

LEMMA ReadCalibrationPreserves ==
  ASSUME IInv, ReadCalibration
  PROVE  IInv'
<1>1. Driver!Types(Outputs)'
  BY DriverSets DEF IInv, TypeOK, ReadCalibration, Driver!Types, setup, Status, TransportError
<1>2. CASE cal' = Unpacked(CalibrationBuffer)
  <2>1. cal' = part /\ part \in Parts
    BY <1>2, CalibrationReadsBack DEF IInv, TypeOK
  <2>2. TypeOK'
    BY <1>1, <2>1, PartsAssumption DEF IInv, TypeOK, ReadCalibration
  <2> QED
    BY <2>1, <2>2 DEF IInv, CalibrationIsOfOnePart, ReadCalibration
<1>3. CASE UNCHANGED <<cal, calibrated>>
  BY <1>1, <1>3 DEF IInv, TypeOK, CalibrationIsOfOnePart, ReadCalibration
<1> QED
  BY <1>2, <1>3 DEF ReadCalibration, CalibrationBuffer

(* A reader leaves the output alone or delivers the part's own sample,     *)
(* converted along the line in the handle.                                 *)
Delivers(reader, data) ==
  /\ UNCHANGED <<setup, part, sample, cal, calibrated>>
  /\ \/ status' = "OK" /\ raw' = sample /\ out' = [reader |-> reader, data |-> data]
     \/ status' \in TransportError /\ UNCHANGED <<raw, out>>

LEMMA Readings ==
  ASSUME IInv
  PROVE  /\ ReadRawOutput   => Delivers("Raw", <<sample.H, sample.T>>)
         /\ ReadTemperature => Delivers("Temperature",
              Interpolated(sample.T, cal.T0_OUT, cal.T1_OUT, cal.T0_degC_x8, cal.T1_degC_x8))
         /\ ReadHumidity    => Delivers("Humidity",
              Interpolated(sample.H, cal.H0_T0_OUT, cal.H1_T0_OUT, cal.H0_rH_x2, cal.H1_rH_x2))
<1>1. sample \in Samples /\ sample \in [H : Int16, T : Int16]
  BY SamplesAssumption DEF IInv, TypeOK
<1> DEFINE assembled == [H |-> LittleEndian16(OutputBuffer[1], OutputBuffer[2]),
                         T |-> LittleEndian16(OutputBuffer[3], OutputBuffer[4])]
<1>2. assembled = sample
  <2>1. assembled = [H |-> sample.H, T |-> sample.T]
    BY <1>1, SampleReadsBack
  <2> QED
    BY <1>1, <2>1
<1> HIDE DEF assembled
<1>3. ReadRawOutput => Delivers("Raw", <<sample.H, sample.T>>)
  BY <1>2 DEF ReadRawOutput, Reads, Counts, Delivers, OutputBuffer, assembled
<1>4. ReadTemperature => Delivers("Temperature",
        Interpolated(sample.T, cal.T0_OUT, cal.T1_OUT, cal.T0_degC_x8, cal.T1_degC_x8))
  BY <1>2 DEF ReadTemperature, Reads, Temperature, Delivers, OutputBuffer, assembled
<1>5. ReadHumidity => Delivers("Humidity",
        Interpolated(sample.H, cal.H0_T0_OUT, cal.H1_T0_OUT, cal.H0_rH_x2, cal.H1_rH_x2))
  BY <1>2 DEF ReadHumidity, Reads, Humidity, Delivers, OutputBuffer, assembled
<1> QED
  BY <1>3, <1>4, <1>5

(* Starting from the first point or from the second is the same.           *)
LEMMA SameLine ==
  ASSUME NEW x \in Int16, NEW x0 \in Int16, NEW x1 \in Int16, NEW y0 \in Nat, NEW y1 \in Nat
  PROVE  Interpolated(x, x0, x1, y0, y1) = OnTheLine(x, x0, x1, y0, y1)
<1>1. x \in Int /\ x0 \in Int /\ x1 \in Int /\ y0 \in Int /\ y1 \in Int
  BY DEF Int16
<1>2. y0 * (x1 - x0) + (x - x0) * (y1 - y0) = y1 * (x1 - x0) - (x1 - x) * (y1 - y0)
  BY <1>1
<1> QED
  BY <1>2, Zenon DEF Interpolated, OnTheLine

LEMMA Interpolates ==
  ASSUME NEW x \in Int16, NEW x0 \in Int16, NEW x1 \in Int16, NEW y0 \in Nat, NEW y1 \in Nat
  PROVE  Interpolated(x, x0, x1, y0, y1) \in [num : Int, den : Int]
<1>1. x \in Int /\ x0 \in Int /\ x1 \in Int /\ y0 \in Int /\ y1 \in Int
  BY DEF Int16
<1>2. y0 * (x1 - x0) + (x - x0) * (y1 - y0) \in Int /\ x1 - x0 \in Int
  BY <1>1
<1> QED
  BY <1>2 DEF Interpolated

LEMMA DeliversPreserves ==
  ASSUME IInv, NEW reader, NEW data, [reader |-> reader, data |-> data] \in Outputs,
         Delivers(reader, data)
  PROVE  IInv'
<1>1. Driver!Types(Outputs)'
  BY DriverSets DEF IInv, TypeOK, Delivers, Driver!Types, setup, Status, TransportError
<1>2. TypeOK'
  BY <1>1, SamplesAssumption DEF IInv, TypeOK, Delivers
<1> QED
  BY <1>2 DEF IInv, CalibrationIsOfOnePart, Delivers

LEMMA ReadersPreserve ==
  ASSUME IInv, ReadRawOutput \/ ReadTemperature \/ ReadHumidity
  PROVE  IInv'
<1>1. sample \in [H : Int16, T : Int16] /\ cal \in Calibration
  BY SamplesAssumption DEF IInv, TypeOK
<1>2. sample.H \in Int16 /\ sample.T \in Int16
  BY <1>1
<1>3. /\ cal.T0_OUT \in Int16 /\ cal.T1_OUT \in Int16
      /\ cal.H0_T0_OUT \in Int16 /\ cal.H1_T0_OUT \in Int16
      /\ cal.T0_degC_x8 \in Nat /\ cal.T1_degC_x8 \in Nat
      /\ cal.H0_rH_x2 \in Nat /\ cal.H1_rH_x2 \in Nat
  BY <1>1 DEF Calibration, TenBits, Byte
<1>4. CASE ReadRawOutput
  <2>1. [reader |-> "Raw", data |-> <<sample.H, sample.T>>] \in Outputs
    BY <1>2 DEF Outputs
  <2> QED
    BY <1>4, <2>1, Readings, DeliversPreserves
<1>5. CASE ReadTemperature
  <2> DEFINE reading ==
        Interpolated(sample.T, cal.T0_OUT, cal.T1_OUT, cal.T0_degC_x8, cal.T1_degC_x8)
  <2>1. reading \in [num : Int, den : Int]
    BY <1>2, <1>3, Interpolates
  <2>2. Delivers("Temperature", reading)
    BY <1>5, Readings
  <2> HIDE DEF reading
  <2>3. [reader |-> "Temperature", data |-> reading] \in Outputs
    BY <2>1 DEF Outputs
  <2> QED
    BY <2>2, <2>3, DeliversPreserves
<1>6. CASE ReadHumidity
  <2> DEFINE reading ==
        Interpolated(sample.H, cal.H0_T0_OUT, cal.H1_T0_OUT, cal.H0_rH_x2, cal.H1_rH_x2)
  <2>1. reading \in [num : Int, den : Int]
    BY <1>2, <1>3, Interpolates
  <2>2. Delivers("Humidity", reading)
    BY <1>6, Readings
  <2> HIDE DEF reading
  <2>3. [reader |-> "Humidity", data |-> reading] \in Outputs
    BY <2>1 DEF Outputs
  <2> QED
    BY <2>2, <2>3, DeliversPreserves
<1> QED
  BY <1>4, <1>5, <1>6

LEMMA StepPreserves ==
  ASSUME IInv, [Next]_vars
  PROVE  IInv'
<1> USE DEF IInv, CalibrationIsOfOnePart
<1>1. ASSUME Driver!Call \/ Driver!InitStep, UNCHANGED own
      PROVE  IInv'
  BY <1>1, DriverPreserves DEF TypeOK, own
<1>2. CASE ReadCalibration
  BY <1>2, ReadCalibrationPreserves
<1>3. CASE ReadRawOutput \/ ReadTemperature \/ ReadHumidity
  BY <1>3, ReadersPreserve
<1>4. ASSUME NEW measured \in Samples, NewSample(measured)
      PROVE  IInv'
  <2>1. Driver!Types(Outputs)'
    BY <1>4 DEF NewSample, TypeOK, Driver!Types, setup
  <2> QED
    BY <1>4, <2>1 DEF NewSample, TypeOK
<1>5. ASSUME NEW p \in Parts, PowerCycle(p)
      PROVE  IInv'
  <2>1. Driver!Types(Outputs)'
    BY <1>5, DriverPreserves DEF PowerCycle, TypeOK
  <2>2. (calibrated /\ p = part) \in BOOLEAN
    OBVIOUS
  <2>3. calibrated' \in BOOLEAN
    BY <1>5, <2>2, Zenon DEF PowerCycle
  <2>4. TypeOK'
    BY <1>5, <2>1, <2>3 DEF PowerCycle, TypeOK
  <2> QED
    BY <1>5, <2>4 DEF PowerCycle
<1>6. CASE UNCHANGED vars
  <2>1. Driver!Types(Outputs)'
    BY <1>6 DEF vars, setup, TypeOK, Driver!Types
  <2> QED
    BY <1>6, <2>1 DEF vars, own, TypeOK
<1> QED
  BY <1>1, <1>2, <1>3, <1>4, <1>5, <1>6 DEF Next

LEMMA Invariance == Spec => []IInv
BY InitEstablishes, StepPreserves, PTL DEF Spec

(* The calibration fields stay inside their C types, the temperature       *)
(* points in ten bits, and the pc of Init inside its three writes.         *)
THEOREM TypeCorrect == Spec => []TypeOK
BY Invariance, PTL DEF IInv

(* The handle never holds the points of two parts, nor half a calibration. *)
THEOREM OnePart == Spec => []CalibrationIsOfOnePart
BY Invariance, PTL DEF IInv

(* No reading divides by zero once a calibration was read: the divisors of *)
(* both conversions are those of a part's two points, even when another    *)
(* part answers by now.                                                    *)
Divides == cal # Uncalibrated => cal.T1_OUT - cal.T0_OUT # 0 /\ cal.H1_T0_OUT - cal.H0_T0_OUT # 0

THEOREM NeverDividesByZero == Spec => []Divides
<1>1. IInv => Divides
  <2> SUFFICES ASSUME IInv, cal # Uncalibrated PROVE Divides
    BY DEF Divides
  <2>1. cal \in Parts
    BY DEF IInv, CalibrationIsOfOnePart
  <2>2. cal \in Calibration /\ TwoPoints(cal)
    BY <2>1, PartsAssumption
  <2>3. /\ cal.T0_OUT \in Int /\ cal.T1_OUT \in Int
        /\ cal.H0_T0_OUT \in Int /\ cal.H1_T0_OUT \in Int
    BY <2>2 DEF Calibration, Int16
  <2> QED
    BY <2>2, <2>3 DEF TwoPoints, Divides
<1> QED
  BY <1>1, Invariance, PTL

-----------------------------------------------------------------------------
(* The refinement.                                                         *)

LEMMA DeliversImplements ==
  ASSUME NEW reader \in Reader, NEW data, Delivers(reader, data),
         reader = "Raw" \/ calibrated =>
           data = Output(reader, [part |-> part, sample |-> sample])
  PROVE  Contract!Next
<1>1. CASE out' = out
  BY <1>1 DEF Contract!Next, Contract!Background
<1>2. CASE status' = "OK" /\ out' = [reader |-> reader, data |-> data]
  BY <1>2 DEF Contract!Next, Contract!Read, Reader
<1> QED
  BY <1>1, <1>2 DEF Delivers

LEMMA ReadersImplement ==
  ASSUME IInv, ReadRawOutput \/ ReadTemperature \/ ReadHumidity
  PROVE  Contract!Next
<1> DEFINE h == [part |-> part, sample |-> sample]
<1>1. sample \in [H : Int16, T : Int16] /\ cal \in Calibration
  BY SamplesAssumption DEF IInv, TypeOK
<1>2. sample.H \in Int16 /\ sample.T \in Int16
  BY <1>1
<1>3. /\ cal.T0_OUT \in Int16 /\ cal.T1_OUT \in Int16
      /\ cal.H0_T0_OUT \in Int16 /\ cal.H1_T0_OUT \in Int16
      /\ cal.T0_degC_x8 \in Nat /\ cal.T1_degC_x8 \in Nat
      /\ cal.H0_rH_x2 \in Nat /\ cal.H1_rH_x2 \in Nat
  BY <1>1 DEF Calibration, TenBits, Byte
<1>4. CASE ReadRawOutput
  <2>1. <<sample.H, sample.T>> = Output("Raw", h)
    BY DEF Output
  <2> QED
    BY <1>4, <2>1, Readings, DeliversImplements DEF Reader
<1>5. CASE ReadTemperature
  <2> DEFINE reading ==
        Interpolated(sample.T, cal.T0_OUT, cal.T1_OUT, cal.T0_degC_x8, cal.T1_degC_x8)
  <2>1. calibrated => reading = Output("Temperature", h)
    <3>1. reading = OnTheLine(sample.T, cal.T0_OUT, cal.T1_OUT, cal.T0_degC_x8, cal.T1_degC_x8)
      BY <1>2, <1>3, SameLine, SMTT(30)
    <3> QED
      BY <3>1 DEF IInv, Output
  <2>2. Delivers("Temperature", reading)
    BY <1>5, Readings
  <2> HIDE DEF reading
  <2> QED
    BY <2>1, <2>2, DeliversImplements DEF Reader
<1>6. CASE ReadHumidity
  <2> DEFINE reading ==
        Interpolated(sample.H, cal.H0_T0_OUT, cal.H1_T0_OUT, cal.H0_rH_x2, cal.H1_rH_x2)
  <2>1. calibrated => reading = Output("Humidity", h)
    <3>1. reading = OnTheLine(sample.H, cal.H0_T0_OUT, cal.H1_T0_OUT, cal.H0_rH_x2, cal.H1_rH_x2)
      BY <1>2, <1>3, SameLine, SMTT(30)
    <3> QED
      BY <3>1 DEF IInv, Output
  <2>2. Delivers("Humidity", reading)
    BY <1>6, Readings
  <2> HIDE DEF reading
  <2> QED
    BY <2>1, <2>2, DeliversImplements DEF Reader
<1> QED
  BY <1>4, <1>5, <1>6

LEMMA StepImplements ==
  ASSUME IInv, [Next]_vars
  PROVE  [Contract!Next]_(Contract!vars)
<1>1. ASSUME out' = out
      PROVE  Contract!Next
  BY <1>1 DEF Contract!Next, Contract!Background
<1>2. ASSUME Driver!Call \/ Driver!InitStep \/ Driver!PowerCycle
      PROVE  Contract!Next
  <2>1. CASE status' = "OK" /\ out'.reader = "Reg"
    BY <2>1 DEF Contract!Next, Contract!OtherRead, Reader
  <2> QED
    BY <1>1, <1>2, <2>1, DriverDelivers DEF IInv, TypeOK
<1>3. CASE ReadRawOutput \/ ReadTemperature \/ ReadHumidity
  BY <1>3, ReadersImplement
<1>4. CASE UNCHANGED vars
  BY <1>1, <1>4 DEF vars
<1> QED
  BY <1>1, <1>2, <1>3, <1>4 DEF Next, ReadCalibration, NewSample, PowerCycle

(* The driver with its part implements the contract: an OK read delivers   *)
(* the part's own sample, and once that part's calibration was read, on    *)
(* the line through its own two points.                                    *)
THEOREM Implements == Spec => ImplementsContract
<1>1. Init => Contract!Init
  BY DEF Init, Driver!Init, Contract!Init, Reader
<1>2. IInv /\ [Next]_vars => [Contract!Next]_(Contract!vars)
  BY StepImplements
<1> QED
  BY <1>1, <1>2, Invariance, PTL DEF Spec, ImplementsContract, Contract!Spec
=============================================================================
