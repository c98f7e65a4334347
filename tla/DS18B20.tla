---------------------------- MODULE DS18B20 ----------------------------
(***************************************************************************)
(* The DS18B20 driver (src/ds18b20.c) over the 1-Wire transport contract   *)
(* (include/libdrivers/onewire.h), with the thermometer on the line.       *)
(*                                                                         *)
(* Each operation is a short program of hook calls that stops at the first *)
(* failing one.  One hook call is one step; between two of them the        *)
(* thermometer may finish a conversion, be unplugged or be plugged in.     *)
(* The thermometer is a state machine of its own, which an abandoned       *)
(* operation leaves anywhere: only a reset brings it back.                 *)
(*                                                                         *)
(* `steady', `requested' and `converted' are history variables: nothing    *)
(* reads them but properties and one another.                              *)
(***************************************************************************)
EXTENDS RegisterBus, Decode, Sequences

CONSTANTS
  Temperatures,  \* what a conversion may measure, in 1/16 degC
  CallerWaits    \* the caller lets a conversion finish before it reads

ASSUME TemperaturesAssumption == Temperatures \subseteq Int16
ASSUME CallerWaitsAssumption  == CallerWaits \in BOOLEAN

Op == {"Init", "StartConversion", "ReadTemperature"}

(* Seeded faults: no reset before a read, no Skip ROM before Convert T.    *)
ProgramUnreset(op) ==
  CASE op = "Init"            -> <<"reset">>
    [] op = "StartConversion" -> <<"reset", "SkipRom", "ConvertT">>
    [] op = "ReadTemperature" -> <<"SkipRom", "ReadScratchpad", "read", "read">>
ProgramUnaddressed(op) ==
  CASE op = "Init"            -> <<"reset">>
    [] op = "StartConversion" -> <<"reset", "ConvertT">>
    [] op = "ReadTemperature" -> <<"reset", "SkipRom", "ReadScratchpad", "read", "read">>

(* The hook calls of each operation, in order; a command byte stands for   *)
(* the write of it.                                                        *)
Program(op) ==
  CASE op = "Init"            -> <<"reset">>
    [] op = "StartConversion" -> <<"reset", "SkipRom", "ConvertT">>
    [] op = "ReadTemperature" -> <<"reset", "SkipRom", "ReadScratchpad", "read", "read">>

Unread == 32768   \* what *pTemperature holds before the first OK read: no count

Command == {"SkipRom", "ConvertT", "ReadScratchpad"}

VARIABLES
  present,     \* a thermometer is on the line
  phase,       \* what it listens for or sends next
  converting,  \* a conversion is running on it
  scratch,     \* the count in its scratchpad
  op,          \* the operation in progress, "none" between calls
  step,        \* its next hook call
  lsb,         \* ReadTemperature's local `lsb'
  out,         \* *pTemperature, in 1/16 degC, or Unread
  status,      \* what the last call returned
  steady,      \* the thermometer has been present since the call began
  requested,   \* StartConversion returned OK, the thermometer powered since
  converted    \* the scratchpad holds a conversion, not the power-on value

part   == <<present, phase, converting, scratch>>
driver == <<op, step, lsb, out, status>>
ghosts == <<steady, requested, converted>>
vars   == <<part, driver, ghosts>>

-----------------------------------------------------------------------------
(* The thermometer.  "deaf" is every state in which only a reset is heard. *)

Phase == {"deaf", "rom", "function", "lsb", "msb", "rest"}
PowerOnTemperature == 85 * 16

Heard(command) ==
  CASE phase = "rom" /\ command = "SkipRom"             -> "function"
    [] phase = "function" /\ command = "ReadScratchpad" -> "lsb"
    [] OTHER                                            -> "deaf"

StartsConverting(command) == present /\ phase = "function" /\ command = "ConvertT"

(* The byte of eight read slots: nobody pulls an idle or empty line low,   *)
(* and a thermometer that converts holds it low.                           *)
Served ==
  CASE phase = "lsb"                -> LowByte(scratch)
    [] phase = "msb"                -> HighByte(scratch)
    [] phase = "deaf" /\ converting -> 0
    [] OTHER                        -> 255

AfterRead ==
  CASE phase = "lsb" -> "msb" [] phase = "msb" -> "rest" [] OTHER -> phase

-----------------------------------------------------------------------------
Init ==
  /\ present \in BOOLEAN
  /\ phase = "deaf"
  /\ converting = FALSE
  /\ scratch = PowerOnTemperature
  /\ op = "none" /\ step = 0
  /\ lsb = 0 /\ out = Unread
  /\ status = "OK"
  /\ steady = FALSE /\ requested = FALSE /\ converted = FALSE

Call(o) ==
  /\ op = "none"
  /\ o = "ReadTemperature" /\ CallerWaits => ~converting
  /\ op' = o /\ step' = 1
  /\ steady' = present
  /\ UNCHANGED <<part, lsb, out, status, requested, converted>>

InProgress(hook) == op # "none" /\ Program(op)[step] = hook
Last == step = Len(Program(op))

Return(s) ==
  /\ op' = "none" /\ step' = 0
  /\ lsb' = 0
  /\ status' = s

(* The next hook call, or OK after the last one.                           *)
Proceed ==
  IF Last THEN Return("OK")
  ELSE step' = step + 1 /\ UNCHANGED <<op, lsb, status>>

ResetOK ==
  /\ InProgress("reset") /\ present
  /\ phase' = "rom"
  /\ Proceed
  /\ UNCHANGED <<present, converting, scratch, out, ghosts>>

(* No presence pulse, or a transport fault with or without the reset       *)
(* having reached the thermometer.                                         *)
ResetFails(e) ==
  /\ InProgress("reset")
  /\ phase' \in IF present THEN {phase, "rom"} ELSE {phase}
  /\ Return(e)
  /\ UNCHANGED <<present, converting, scratch, out, ghosts>>

WriteOK(command) ==
  /\ InProgress(command)
  /\ phase' = IF present THEN Heard(command) ELSE phase
  /\ converting' = (converting \/ StartsConverting(command))
  /\ Proceed
  /\ requested' = (requested \/ (op = "StartConversion" /\ Last /\ steady))
  /\ UNCHANGED <<present, scratch, out, steady, converted>>

(* A failed write was heard, garbled or lost.                              *)
WriteFails(command, e) ==
  /\ InProgress(command)
  /\ \/ /\ phase' = IF present THEN Heard(command) ELSE phase
        /\ converting' = (converting \/ StartsConverting(command))
     \/ phase' \in {phase, "deaf"} /\ UNCHANGED converting
  /\ Return(e)
  /\ UNCHANGED <<present, scratch, out, ghosts>>

ReadLsbOK ==
  /\ InProgress("read") /\ ~Last
  /\ lsb' = Served
  /\ phase' = AfterRead
  /\ step' = step + 1
  /\ UNCHANGED <<present, converting, scratch, op, out, status, ghosts>>

ReadMsbOK ==
  /\ InProgress("read") /\ Last
  /\ out' = LittleEndian16(lsb, Served)
  /\ phase' = AfterRead
  /\ Return("OK")
  /\ UNCHANGED <<present, converting, scratch, ghosts>>

(* Seeded fault: *pTemperature is filled before the status is looked at.   *)
ReadFailsFilled(e) ==
  /\ InProgress("read")
  /\ phase' \in {phase, AfterRead}
  /\ out' = IF Last THEN LittleEndian16(lsb, 0) ELSE out
  /\ Return(e)
  /\ UNCHANGED <<present, converting, scratch, ghosts>>

ReadFails(e) ==
  /\ InProgress("read")
  /\ phase' \in {phase, AfterRead}
  /\ Return(e)
  /\ UNCHANGED <<present, converting, scratch, out, ghosts>>

-----------------------------------------------------------------------------
(* The line on its own, between any two hook calls.                        *)
ConversionDone(t) ==
  /\ converting
  /\ converting' = FALSE /\ scratch' = t /\ converted' = TRUE
  /\ UNCHANGED <<present, phase, driver, steady, requested>>

Unplug ==
  /\ present /\ present' = FALSE
  /\ converting' = FALSE /\ phase' = "deaf"
  /\ steady' = FALSE /\ requested' = FALSE
  /\ UNCHANGED <<scratch, driver, converted>>

Plug ==
  /\ ~present /\ present' = TRUE
  /\ scratch' = PowerOnTemperature /\ converted' = FALSE
  /\ UNCHANGED <<phase, converting, driver, steady, requested>>

DriverStep ==
  \/ ResetOK
  \/ \E c \in Command : WriteOK(c)
  \/ ReadLsbOK
  \/ ReadMsbOK
  \/ \E e \in TransportError :
       ResetFails(e) \/ ReadFails(e) \/ \E c \in Command : WriteFails(c, e)

Next ==
  \/ \E o \in Op : Call(o)
  \/ DriverStep
  \/ \E t \in Temperatures : ConversionDone(t)
  \/ Unplug
  \/ Plug

Spec == Init /\ [][Next]_vars

-----------------------------------------------------------------------------
(* Properties.                                                             *)

(* The delivered temperature is an int16_t count, the cursor stays inside  *)
(* the operation's program.                                                *)
TypeOK ==
  /\ present \in BOOLEAN
  /\ phase \in Phase
  /\ converting \in BOOLEAN
  /\ scratch \in Temperatures \cup {PowerOnTemperature}
  /\ op \in Op \cup {"none"}
  /\ IF op = "none" THEN step = 0 ELSE step \in DOMAIN Program(op)
  /\ lsb \in Byte
  /\ out \in Int16 \cup {Unread}
  /\ status \in Status
  /\ steady \in BOOLEAN /\ requested \in BOOLEAN /\ converted \in BOOLEAN

(* Whatever state an earlier, abandoned operation left the thermometer in, *)
(* a later one is in phase with it: a command goes out only when the       *)
(* thermometer listens for that command, a byte is read only when it sends *)
(* that byte.                                                              *)
InPhase ==
  steady /\ op # "none" =>
    CASE Program(op)[step] = "SkipRom"                    -> phase = "rom"
      [] Program(op)[step] \in {"ConvertT", "ReadScratchpad"} -> phase = "function"
      [] Program(op)[step] = "read"                       -> phase = IF Last THEN "msb" ELSE "lsb"
      [] OTHER                                            -> TRUE

(* An OK read from a thermometer that stayed on the line delivers its      *)
(* scratchpad: both bytes of one conversion, low byte first, the sign      *)
(* extended.                                                               *)
ReadsTheScratchpad == [][ReadMsbOK /\ steady => out' = scratch]_vars

(* What ReadTemperature delivers of a scratchpad.                          *)
Count(reader, scratchpad) == scratchpad

Contract == INSTANCE ReadingContract WITH
  Reader <- {"ReadTemperature"},
  Output <- Count,
  held   <- {scratch},
  sure   <- IF steady /\ CallerWaits THEN {"ReadTemperature"} ELSE {},
  out    <- [reader |-> IF out = Unread THEN "none" ELSE "ReadTemperature", data |-> out]

(* ds18b20.h on *pTemperature: "left unchanged on failure".  Whichever     *)
(* hook call fails, only a ReadTemperature that returns OK touches it, and *)
(* what it leaves there is the scratchpad of a thermometer that stayed on  *)
(* the line, when the caller waits.                                        *)
ImplementsContract == Contract!Spec

(* StartConversion returning OK means that the conversion was started: a   *)
(* caller that waited it out, the thermometer powered all along, reads a   *)
(* conversion and never the 85 degC of a power-on.                         *)
WaitedReadIsConverted == requested /\ ~converting => converted

(* ds18b20.h on ReadTemperature: it "returns whatever the scratchpad       *)
(* holds", "LIBDRIVERS_OK on success, or a transport error", with no       *)
(* condition on the line.  A thermometer unplugged after its presence      *)
(* pulse reads as ones, and the call still returns OK.                     *)
OKReadIsScratchpad == [][ReadMsbOK => present /\ out' = scratch]_vars
=============================================================================
