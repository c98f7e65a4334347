---------------------------- MODULE LPS22HB ----------------------------
(***************************************************************************)
(* The LPS22HB driver (src/lps22hb.c) with the part it drives.             *)
(*                                                                         *)
(* A reading is one burst of five bytes, and the part samples on its own   *)
(* clock: here every byte of the burst is a step, and the output registers *)
(* may change between two of them.  Bit BDU of CTRL_REG1, which belongs to *)
(* the caller's configuration, makes the part hold a value back while it   *)
(* is half read.                                                           *)
(*                                                                         *)
(* Float readings are in counts: 1/4096 hPa and 1/100 degC.                *)
(* `seen' and `steady' are history variables.                              *)
(***************************************************************************)
EXTENDS RegisterBus, Decode, Sequences

CONSTANTS
  Configs, AppWrites, ChipIds,   \* see StDriver
  Samples                        \* what the part may measure: counts [P, T]

CTRL_REG1    == \h10
CTRL_REG2    == \h11
CTRL_REG3    == \h12
PRESS_OUT_XL == \h28
WHO_AM_I_VALUE == \hB1
PRESSURE_SIGN_BIT == \h800000

Ctrl  == {CTRL_REG1, CTRL_REG2, CTRL_REG3}
Int24 == {v \in Int : (-8388608) <= v /\ v <= 8388607}

ASSUME ConfigsAssumption   == Configs \subseteq [Ctrl -> Byte]
ASSUME AppWritesAssumption == AppWrites \subseteq Ctrl \X Byte
ASSUME ChipIdsAssumption   == ChipIds \subseteq Byte
ASSUME SamplesAssumption   == Samples \subseteq [P : Int24, T : Int16]

VARIABLES
  ctrl, pc, cfg, intact, configured, out, status,   \* see StDriver
  sample,   \* [P, T]: the counts in the part's output registers
  handle,   \* [P, T]: P_OUT and T_OUT in the handle
  reading,  \* the reader whose burst is on the bus, "none" between calls
  buffer,   \* its local `out': the bytes so far
  seen,     \* what the output registers have held since the burst began
  steady    \* BDU has been set since the burst began

Driver == INSTANCE StDriver WITH
  WriteOrder  <- <<CTRL_REG1, CTRL_REG2, CTRL_REG3>>,
  PowerOnCtrl <- [r \in Ctrl |-> IF r = CTRL_REG2 THEN \h10 ELSE 0],
  Identity    <- WHO_AM_I_VALUE

setup == <<ctrl, pc, cfg, intact, configured>>
own   == <<sample, handle, reading, buffer, seen, steady>>
vars  == <<setup, out, status, own>>

-----------------------------------------------------------------------------
(* The part: two values of three and two bytes, low byte first.            *)
OutputByte(i) ==
  CASE i = 0 -> LowByte(sample.P)
    [] i = 1 -> HighByte(sample.P)
    [] i = 2 -> (sample.P \div 65536) % 256
    [] i = 3 -> LowByte(sample.T)
    [] i = 4 -> HighByte(sample.T)

BDU == Field(ctrl[CTRL_REG1], 2, 2) = 1

(* The values that are half read.                                          *)
HalfRead ==
  IF reading = "none" THEN {}
  ELSE CASE Len(buffer) \in {1, 2} -> {"P"}
         [] Len(buffer) = 4        -> {"T"}
         [] OTHER                  -> {}

-----------------------------------------------------------------------------
Init ==
  /\ Driver!Init
  /\ sample \in Samples
  /\ handle = [P |-> 0, T |-> 0]
  /\ reading = "none" /\ buffer = <<>>
  /\ seen = {} /\ steady = FALSE

Idle == Driver!Idle /\ reading = "none"

Reader == {"Raw", "Pressure", "Temperature"}

(* Each reader begins with the burst of LPS22HB_ReadRawOutput.             *)
CallReader(r) ==
  /\ Idle
  /\ reading' = r
  /\ seen' = {sample} /\ steady' = BDU
  /\ UNCHANGED <<setup, out, status, sample, handle, buffer>>

(* The next byte of the burst, at the address LPS22HB_ReadReg put on it.   *)
NextByte ==
  LET address == Driver!ActualAddress(PRESS_OUT_XL)
  IN  OutputByte(IF Driver!Increments(address) THEN Len(buffer) ELSE 0)

ReadByte ==
  /\ reading # "none" /\ Len(buffer) < 5
  /\ buffer' = Append(buffer, NextByte)
  /\ UNCHANGED <<setup, out, status, sample, handle, reading, seen, steady>>

Return(s) ==
  /\ status' = s
  /\ reading' = "none" /\ buffer' = <<>>
  /\ seen' = {} /\ steady' = FALSE

(* Seeded fault: the 24-bit value kept as it is, unsigned.                 *)
Unsigned24(pressure) == pressure

(* (pressure ^ SIGN_BIT) - SIGN_BIT.                                       *)
SignExtended24(pressure) ==
  LET flipped == IF pressure >= PRESSURE_SIGN_BIT
                 THEN pressure - PRESSURE_SIGN_BIT ELSE pressure + PRESSURE_SIGN_BIT
  IN  flipped - PRESSURE_SIGN_BIT

P_OUT == SignExtended24(65536 * buffer[3] + 256 * buffer[2] + buffer[1])
T_OUT == LittleEndian16(buffer[4], buffer[5])

(* Seeded fault: a reader keeps only the value it was asked for.           *)
ReaderKeepsOne ==
  /\ reading # "none" /\ Len(buffer) = 5
  /\ handle' = CASE reading = "Pressure"    -> [handle EXCEPT !.P = P_OUT]
                 [] reading = "Temperature" -> [handle EXCEPT !.T = T_OUT]
                 [] OTHER                   -> [P |-> P_OUT, T |-> T_OUT]
  /\ out' = [reader |-> reading,
             data   |-> CASE reading = "Pressure"    -> handle'.P
                          [] reading = "Temperature" -> handle'.T
                          [] OTHER                   -> <<handle'.P, handle'.T>>]
  /\ Return("OK")
  /\ UNCHANGED <<setup, sample>>

(* The burst went through: both fields of the handle are filled, whoever   *)
(* asked, and the reader converts the one it is after.                     *)
ReaderReturns ==
  /\ reading # "none" /\ Len(buffer) = 5
  /\ handle' = [P |-> P_OUT, T |-> T_OUT]
  /\ out' = [reader |-> reading,
             data   |-> CASE reading = "Pressure"    -> handle'.P
                          [] reading = "Temperature" -> handle'.T
                          [] OTHER                   -> <<handle'.P, handle'.T>>]
  /\ Return("OK")
  /\ UNCHANGED <<setup, sample>>

ReaderFails(e) ==
  /\ reading # "none"
  /\ Return(e)
  /\ UNCHANGED <<setup, out, sample, handle>>

-----------------------------------------------------------------------------
(* The part on its own, inside a burst too.  A half-read value stays while *)
(* BDU is set; the other one moves.                                        *)
NewSample(measured) ==
  /\ sample' = [v \in {"P", "T"} |->
                  IF BDU /\ v \in HalfRead THEN sample[v] ELSE measured[v]]
  /\ seen' = IF reading = "none" THEN {} ELSE seen \cup {sample'}
  /\ UNCHANGED <<setup, out, status, handle, reading, buffer, steady>>

PowerCycle ==
  /\ Driver!PowerCycle
  /\ steady' = FALSE
  /\ UNCHANGED <<sample, handle, reading, buffer, seen>>

Next ==
  \/ reading = "none" /\ (Driver!Call \/ Driver!InitStep) /\ UNCHANGED own
  \/ \E r \in Reader : CallReader(r)
  \/ ReadByte
  \/ ReaderReturns
  \/ \E e \in TransportError : ReaderFails(e)
  \/ \E measured \in Samples : NewSample(measured)
  \/ PowerCycle

Spec == Init /\ [][Next]_vars

-----------------------------------------------------------------------------
(* Properties.                                                             *)

Outputs ==
  [reader : {"Raw"}, data : Int24 \X Int16]
    \cup [reader : {"Pressure"}, data : Int24]
    \cup [reader : {"Temperature"}, data : Int16]

(* P_OUT is a 24-bit and T_OUT a 16-bit signed count; no burst is under    *)
(* way during Init.                                                        *)
TypeOK ==
  /\ Driver!Types(Outputs)
  /\ sample \in [P : Int24, T : Int16]
  /\ handle \in [P : Int24, T : Int16]
  /\ reading \in Reader \cup {"none"}
  /\ pc # 0 => reading = "none"
  /\ buffer \in Seq(Byte) /\ Len(buffer) <= 5
  /\ reading = "none" => buffer = <<>>
  /\ seen \subseteq [P : Int24, T : Int16]
  /\ steady \in BOOLEAN

(* Every value the part showed during the burst, each paired with each.    *)
Held == [P : {a.P : a \in seen}, T : {b.T : b \in seen}]

(* Whichever reader ran, P_OUT and T_OUT in the handle are both from its   *)
(* own burst, and each is a value the part held during that burst: never   *)
(* bytes of two values, never what an earlier call left.  This is for a    *)
(* part whose BDU bit was set all along.                                   *)
HandleIsThisBurst == [][ReaderReturns /\ steady => handle' \in Held]_vars

Output(reader, h) ==
  CASE reader = "Raw"         -> <<h.P, h.T>>
    [] reader = "Pressure"    -> h.P
    [] reader = "Temperature" -> h.T

Contract == INSTANCE ReadingContract WITH
  held <- Held,
  sure <- IF steady THEN Reader ELSE {}

(* With BDU set an OK reader delivers what the part held during the call,  *)
(* whole and signed, however the part samples meanwhile; no other call     *)
(* touches what was delivered before.                                      *)
ImplementsContract == Contract!Spec
=============================================================================
