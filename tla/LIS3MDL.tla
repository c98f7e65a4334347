---------------------------- MODULE LIS3MDL ----------------------------
(***************************************************************************)
(* The LIS3MDL driver (src/lis3mdl.c) with the part it drives, over either *)
(* of the STM32 register-bus ports.                                        *)
(*                                                                         *)
(* The driver asks for a burst by setting bit 7 of the address.  The I2C   *)
(* port hands the byte over as it is, and the part reads bit 7 as "walk    *)
(* the registers".  Over SPI bit 7 is the direction, which the port sets   *)
(* in every read, and the part takes bit 6 for the walk.                   *)
(***************************************************************************)
EXTENDS RegisterBus, Decode, Sequences, STM32Port

CONSTANTS
  Configs, AppWrites, ChipIds,   \* see StDriver
  Samples,                       \* what the part may hold: [field, offset]
  Port                           \* "I2C" or "SPI"

OFFSET_X_L_M == \h05
CTRL_REG1 == \h20
CTRL_REG2 == \h21
CTRL_REG3 == \h22
CTRL_REG4 == \h23
CTRL_REG5 == \h24
OUT_X_L   == \h28
WHO_AM_I_VALUE == \h3D

Ctrl == {CTRL_REG1, CTRL_REG2, CTRL_REG3, CTRL_REG4, CTRL_REG5}

ASSUME ConfigsAssumption   == Configs \subseteq [Ctrl -> Byte]
ASSUME AppWritesAssumption == AppWrites \subseteq Ctrl \X Byte
ASSUME ChipIdsAssumption   == ChipIds \subseteq Byte
ASSUME SamplesAssumption   == Samples \subseteq [field : Axes16, offset : Axes16]
ASSUME PortAssumption      == Port \in {"I2C", "SPI"}

VARIABLES
  ctrl, pc, cfg, intact, configured, out, status,   \* see StDriver
  sample    \* [field, offset]: the part's OUT_* and OFFSET_* registers

PowerOnCtrl == [r \in Ctrl |-> CASE r = CTRL_REG1 -> \h10
                                 [] r = CTRL_REG3 -> 3
                                 [] OTHER         -> 0]

WriteOrder == <<CTRL_REG1, CTRL_REG2, CTRL_REG3, CTRL_REG4, CTRL_REG5>>

Driver == INSTANCE StDriver WITH Identity <- WHO_AM_I_VALUE

setup == <<ctrl, pc, cfg, intact, configured>>
vars  == <<setup, out, status, sample>>

-----------------------------------------------------------------------------
(* The part's registers, and how it understands an address byte.           *)
AxisByte(axes, i) ==
  IF i % 2 = 0 THEN LowByte(axes[(i \div 2) + 1]) ELSE HighByte(axes[(i \div 2) + 1])

Registers ==
  [r \in (OFFSET_X_L_M..OFFSET_X_L_M + 5) \cup (OUT_X_L..OUT_X_L + 5) |->
     IF r < OUT_X_L THEN AxisByte(sample.offset, r - OFFSET_X_L_M)
     ELSE AxisByte(sample.field, r - OUT_X_L)]

Walks(byte)     == Field(byte, IF Port = "I2C" THEN 128 ELSE 64, 2) = 1
Addressed(byte) == byte % (IF Port = "I2C" THEN 128 ELSE 64)

(* The byte the port sends for the address the driver passes.              *)
OnTheWire(address) == IF Port = "I2C" THEN address ELSE SpiReadAddress(address)

-----------------------------------------------------------------------------
Init == Driver!Init /\ sample \in Samples

(* Six bytes from `base' through LIS3MDL_ReadReg, assembled.               *)
RawAxes(base) ==
  LET byte   == OnTheWire(Driver!ActualAddress(base))
      buffer == Burst(Registers, Addressed(byte), 6, Walks(byte))
  IN  <<LittleEndian16(buffer[1], buffer[2]),
        LittleEndian16(buffer[3], buffer[4]),
        LittleEndian16(buffer[5], buffer[6])>>

Reads(reader, axes) ==
  /\ Driver!Idle
  /\ \/ status' = "OK" /\ out' = [reader |-> reader, data |-> axes]
     \/ status' \in TransportError /\ out' = out
  /\ UNCHANGED <<setup, sample>>

ReadRaw            == Reads("Raw", RawAxes(OUT_X_L))
ReadHardIronOffset == Reads("HardIronOffset", RawAxes(OFFSET_X_L_M))

NewSample(measured) ==
  /\ sample' = measured
  /\ UNCHANGED <<setup, out, status>>

Next ==
  \/ (Driver!Call \/ Driver!InitStep \/ Driver!PowerCycle) /\ UNCHANGED sample
  \/ ReadRaw
  \/ ReadHardIronOffset
  \/ \E measured \in Samples : NewSample(measured)

Spec == Init /\ [][Next]_vars

-----------------------------------------------------------------------------
(* Properties.                                                             *)

Reader == {"Raw", "HardIronOffset"}

(* Every axis is an int16_t; the other variables have the types StDriver   *)
(* gives them.                                                             *)
TypeOK ==
  /\ Driver!Types([reader : Reader, data : Axes16])
  /\ sample \in Samples

(* A part that kept its power since an OK Init holds all five registers of *)
(* that Init's configuration, whatever failed and was repeated before.     *)
InitIsWhole == Driver!InitIsWhole

Output(reader, h) == IF reader = "Raw" THEN h.field ELSE h.offset

Contract == INSTANCE ReadingContract WITH
  held <- {sample},
  sure <- Reader

(* lis3mdl.h: "a port supplies the actual I2C/SPI access"; the SPI port's  *)
(* header: "any register-bus driver runs on STM32 SPI hardware".  An OK    *)
(* read delivers the three axes the part holds, and no other call touches  *)
(* what was delivered before.  Kept over I2C; over SPI the driver's bit 7  *)
(* is lost in the port's, the part does not walk, and every axis is made   *)
(* of its first register.                                                  *)
ImplementsContract == Contract!Spec
=============================================================================
