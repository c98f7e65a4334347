----------------------------- MODULE HTS221 -----------------------------
(***************************************************************************)
(* The HTS221 driver (src/hts221.c) with the part it drives.               *)
(*                                                                         *)
(* The part's counts mean nothing without its factory calibration, which   *)
(* the driver copies into the handle once and uses ever after; the part    *)
(* may be exchanged for another with a calibration of its own.  Every call *)
(* but Init is one bus transaction and so one action.                      *)
(*                                                                         *)
(* A float reading is the exact rational [num, den], in 1/8 degC and in    *)
(* 1/2 %RH.  `calibrated' is a history variable.                           *)
(***************************************************************************)
EXTENDS RegisterBus, Decode, Sequences

CONSTANTS
  Configs, AppWrites, ChipIds,   \* see StDriver
  Parts,                         \* the factory calibrations of the parts at hand
  Samples                        \* what they may measure: counts [H, T]

CTRL_REG1 == \h20
CTRL_REG2 == \h21
CTRL_REG3 == \h22
HUMIDITY_OUT_L == \h28
H0_RH_X2     == \h30
H1_RH_X2     == \h31
T0_DEGC_X8   == \h32
T1_DEGC_X8   == \h33
T0_T1_MSB    == \h35
H0_T0_OUT_L  == \h36
H1_T0_OUT_L  == \h3A
T0_OUT_L     == \h3C
T1_OUT_L     == \h3E
WHO_AM_I_VALUE == \hBC

TenBits == {v \in Nat : v <= 1023}

(* The calibration as HTS221_Handle_t holds it.                            *)
Calibration ==
  [H0_rH_x2 : Byte, H1_rH_x2 : Byte, T0_degC_x8 : TenBits, T1_degC_x8 : TenBits,
   H0_T0_OUT : Int16, H1_T0_OUT : Int16, T0_OUT : Int16, T1_OUT : Int16]

(* A factory calibration has two points for each quantity.                 *)
TwoPoints(c) == c.H0_T0_OUT # c.H1_T0_OUT /\ c.T0_OUT # c.T1_OUT

Ctrl == {CTRL_REG1, CTRL_REG2, CTRL_REG3}

ASSUME ConfigsAssumption   == Configs \subseteq [Ctrl -> Byte]
ASSUME AppWritesAssumption == AppWrites \subseteq Ctrl \X Byte
ASSUME ChipIdsAssumption   == ChipIds \subseteq Byte
ASSUME PartsAssumption     == \A p \in Parts : p \in Calibration /\ TwoPoints(p)
ASSUME SamplesAssumption   == Samples \subseteq [H : Int16, T : Int16]

VARIABLES
  ctrl, pc, cfg, intact, configured, out, status,   \* see StDriver
  part,       \* the calibration of the part on the bus
  sample,     \* [H, T]: the counts in its output registers
  cal,        \* the calibration in the handle
  raw,        \* [H, T]: H_OUT and T_OUT in the handle
  calibrated  \* cal was read from the part on the bus

Driver == INSTANCE StDriver WITH
  WriteOrder  <- <<CTRL_REG1, CTRL_REG2, CTRL_REG3>>,
  PowerOnCtrl <- [r \in Ctrl |-> 0],
  Identity    <- WHO_AM_I_VALUE

setup == <<ctrl, pc, cfg, intact, configured>>
own == <<part, sample, cal, raw, calibrated>>
vars == <<setup, out, status, own>>

-----------------------------------------------------------------------------
(* The part's registers.  Its calibration is sixteen bytes from H0_RH_X2   *)
(* on; bits 7:4 of T0_T1_MSB and three registers are not the driver's.     *)
Reserved == 240

Registers ==
  [r \in HUMIDITY_OUT_L..HUMIDITY_OUT_L + 3 |->
     <<LowByte(sample.H), HighByte(sample.H),
       LowByte(sample.T), HighByte(sample.T)>>[r - HUMIDITY_OUT_L + 1]]

CalibrationRegisters ==
  [r \in H0_RH_X2..H0_RH_X2 + 15 |->
     <<part.H0_rH_x2, part.H1_rH_x2, part.T0_degC_x8 % 256, part.T1_degC_x8 % 256,
       0, Reserved + 4 * (part.T1_degC_x8 \div 256) + (part.T0_degC_x8 \div 256),
       LowByte(part.H0_T0_OUT), HighByte(part.H0_T0_OUT), 0, 0,
       LowByte(part.H1_T0_OUT), HighByte(part.H1_T0_OUT),
       LowByte(part.T0_OUT), HighByte(part.T0_OUT),
       LowByte(part.T1_OUT), HighByte(part.T1_OUT)>>[r - H0_RH_X2 + 1]]

(* HTS221_ReadReg.                                                         *)
Read(registers, RegAddress, Length) ==
  LET address == Driver!ActualAddress(RegAddress)
  IN  Burst(registers, Driver!Register(address), Length, Driver!Increments(address))

-----------------------------------------------------------------------------
(* A handle nobody read a calibration into: all zero.                      *)
Uncalibrated ==
  [H0_rH_x2 |-> 0, H1_rH_x2 |-> 0, T0_degC_x8 |-> 0, T1_degC_x8 |-> 0,
   H0_T0_OUT |-> 0, H1_T0_OUT |-> 0, T0_OUT |-> 0, T1_OUT |-> 0]

Init ==
  /\ Driver!Init
  /\ part \in Parts /\ sample \in Samples
  /\ cal = Uncalibrated /\ raw = [H |-> 0, T |-> 0]
  /\ calibrated = FALSE

(* Seeded fault: HTS221_T1_MSB_MASK takes the reserved bits in.            *)
WideMask(buffer) ==
  LET at(reg) == buffer[reg - H0_RH_X2 + 1]
      pair(reg) == LittleEndian16(at(reg), at(reg + 1))
  IN  [H0_rH_x2   |-> at(H0_RH_X2),
       H1_rH_x2   |-> at(H1_RH_X2),
       T0_degC_x8 |-> 256 * Field(at(T0_T1_MSB), 1, 4) + at(T0_DEGC_X8),
       T1_degC_x8 |-> 256 * Field(at(T0_T1_MSB), 4, 8) + at(T1_DEGC_X8),
       H0_T0_OUT  |-> pair(H0_T0_OUT_L), H1_T0_OUT |-> pair(H1_T0_OUT_L),
       T0_OUT     |-> pair(T0_OUT_L),    T1_OUT    |-> pair(T1_OUT_L)]

(* What ReadCalibration makes of its sixteen bytes.                        *)
Unpacked(buffer) ==
  LET at(reg) == buffer[reg - H0_RH_X2 + 1]
      pair(reg) == LittleEndian16(at(reg), at(reg + 1))
  IN  [H0_rH_x2   |-> at(H0_RH_X2),
       H1_rH_x2   |-> at(H1_RH_X2),
       T0_degC_x8 |-> 256 * Field(at(T0_T1_MSB), 1, 4) + at(T0_DEGC_X8),
       T1_degC_x8 |-> 256 * Field(at(T0_T1_MSB), 4, 4) + at(T1_DEGC_X8),
       H0_T0_OUT  |-> pair(H0_T0_OUT_L), H1_T0_OUT |-> pair(H1_T0_OUT_L),
       T0_OUT     |-> pair(T0_OUT_L),    T1_OUT    |-> pair(T1_OUT_L)]

ReadCalibration ==
  /\ Driver!Idle
  /\ \/ /\ status' = "OK"
        /\ cal' = Unpacked(Read(CalibrationRegisters, H0_RH_X2, 16))
        /\ calibrated' = TRUE
     \/ status' \in TransportError /\ UNCHANGED <<cal, calibrated>>
  /\ UNCHANGED <<setup, out, part, sample, raw>>

(* HTS221_ReadRawOutput, and a reader that returns its status or converts. *)
Reads(reader, Converted(_)) ==
  /\ Driver!Idle
  /\ \/ LET buffer == Read(Registers, HUMIDITY_OUT_L, 4)
        IN  /\ status' = "OK"
            /\ raw' = [H |-> LittleEndian16(buffer[1], buffer[2]),
                       T |-> LittleEndian16(buffer[3], buffer[4])]
            /\ out' = [reader |-> reader, data |-> Converted(raw')]
     \/ status' \in TransportError /\ UNCHANGED <<raw, out>>
  /\ UNCHANGED <<setup, part, sample, cal, calibrated>>

(* y0 + (x - x0) * (y1 - y0) / (x1 - x0).                                  *)
Interpolated(x, x0, x1, y0, y1) ==
  [num |-> y0 * (x1 - x0) + (x - x0) * (y1 - y0), den |-> x1 - x0]

Counts(r)      == <<r.H, r.T>>
Temperature(r) == Interpolated(r.T, cal.T0_OUT, cal.T1_OUT, cal.T0_degC_x8, cal.T1_degC_x8)
Humidity(r)    == Interpolated(r.H, cal.H0_T0_OUT, cal.H1_T0_OUT, cal.H0_rH_x2, cal.H1_rH_x2)

ReadRawOutput   == Reads("Raw", Counts)
ReadTemperature == Reads("Temperature", Temperature)
ReadHumidity    == Reads("Humidity", Humidity)

-----------------------------------------------------------------------------
(* The part on its own, between any two transactions.                      *)
NewSample(measured) ==
  /\ sample' = measured
  /\ UNCHANGED <<setup, out, status, part, cal, raw, calibrated>>

(* It loses its power; another one may come back in its place.             *)
PowerCycle(p) ==
  /\ Driver!PowerCycle
  /\ part' = p /\ calibrated' = (calibrated /\ p = part)
  /\ UNCHANGED <<sample, cal, raw>>

Next ==
  \/ (Driver!Call \/ Driver!InitStep) /\ UNCHANGED own
  \/ ReadCalibration
  \/ ReadRawOutput \/ ReadTemperature \/ ReadHumidity
  \/ \E measured \in Samples : NewSample(measured)
  \/ \E p \in Parts : PowerCycle(p)

Spec == Init /\ [][Next]_vars

-----------------------------------------------------------------------------
(* Properties.                                                             *)

Outputs ==
  [reader : {"Raw"}, data : Int16 \X Int16]
    \cup [reader : {"Temperature", "Humidity"}, data : [num : Int, den : Int]]

(* The handle's fields hold values of their C types, the temperature       *)
(* points ten bits.                                                        *)
TypeOK ==
  /\ Driver!Types(Outputs)
  /\ part \in Parts /\ sample \in Samples
  /\ cal \in Calibration
  /\ raw \in [H : Int16, T : Int16]
  /\ calibrated \in BOOLEAN

(* The points in the handle are none, or all eight of one part: a failed,  *)
(* repeated or late ReadCalibration never mixes the points of two parts.   *)
(* So a reading after an OK ReadCalibration never divides by zero, even    *)
(* when another part answers by now.                                       *)
CalibrationIsOfOnePart == cal = Uncalibrated \/ cal \in Parts

(* The line through the part's own two points, written from the second     *)
(* one, where the driver starts from the first.                            *)
OnTheLine(x, x0, x1, y0, y1) ==
  [num |-> y1 * (x1 - x0) - (x1 - x) * (y1 - y0), den |-> x1 - x0]

Reader == {"Raw", "Temperature", "Humidity"}

Output(reader, h) ==
  CASE reader = "Raw" -> <<h.sample.H, h.sample.T>>
    [] reader = "Temperature" ->
         OnTheLine(h.sample.T, h.part.T0_OUT, h.part.T1_OUT, h.part.T0_degC_x8, h.part.T1_degC_x8)
    [] reader = "Humidity" ->
         OnTheLine(h.sample.H, h.part.H0_T0_OUT, h.part.H1_T0_OUT, h.part.H0_rH_x2, h.part.H1_rH_x2)

Contract == INSTANCE ReadingContract WITH
  held <- {[part |-> part, sample |-> sample]},
  sure <- IF calibrated THEN Reader ELSE {"Raw"}

(* An OK read delivers the part's own sample; after a ReadCalibration of   *)
(* the part that still answers, converted along the line through that      *)
(* part's own points.  No failed call touches what was delivered before.   *)
ImplementsContract == Contract!Spec
=============================================================================
