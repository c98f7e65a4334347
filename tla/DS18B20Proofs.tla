------------------------- MODULE DS18B20Proofs -------------------------
(***************************************************************************)
(* Theorems about the DS18B20 driver: for every set of temperatures, what  *)
(* the runs of MCDS18B20 check on two of them.                             *)
(***************************************************************************)
EXTENDS DS18B20, TLAPS

-----------------------------------------------------------------------------
(* Two bytes of a count.                                                   *)

(* The two bytes a part holds for a signed count, low byte first, decode   *)
(* to that count.                                                          *)
LEMMA RoundTrip ==
  ASSUME NEW v \in Int16
  PROVE  LittleEndian16(LowByte(v), HighByte(v)) = v
BY DEF Int16, LittleEndian16, ToInt16, LowByte, HighByte

(* The bytes of a count are bytes.                                         *)
LEMMA BytesOfCount ==
  ASSUME NEW v \in Int16
  PROVE  LowByte(v) \in Byte /\ HighByte(v) \in Byte
BY DEF Int16, LowByte, HighByte, Byte

(* Two bytes the bus delivers decode to an int16_t, whatever they are.     *)
LEMMA DecodesToCount ==
  ASSUME NEW b0 \in Byte, NEW b1 \in Byte
  PROVE  LittleEndian16(b0, b1) \in Int16
BY DEF LittleEndian16, ToInt16, Byte, Int16

-----------------------------------------------------------------------------
(* The three programs, hook by hook.                                       *)

(* What the driver is about to do, by operation and cursor.                *)
LEMMA HookAt ==
  ASSUME op \in Op, step \in DOMAIN Program(op)
  PROVE  /\ op = "Init" => step = 1
         /\ op = "StartConversion" => step \in 1..3
         /\ op = "ReadTemperature" => step \in 1..5
         /\ Last <=> \/ op = "Init"
                     \/ op = "StartConversion" /\ step = 3
                     \/ op = "ReadTemperature" /\ step = 5
         /\ InProgress("reset") <=> step = 1
         /\ InProgress("SkipRom") <=> step = 2
         /\ InProgress("ConvertT") <=> op = "StartConversion" /\ step = 3
         /\ InProgress("ReadScratchpad") <=> op = "ReadTemperature" /\ step = 3
         /\ InProgress("read") <=> op = "ReadTemperature" /\ step \in {4, 5}
<1>1. CASE op = "Init"
  <2>1. Program(op) = <<"reset">>
    BY <1>1 DEF Program
  <2>2. step = 1 /\ Last
    BY <2>1 DEF Last
  <2> QED
    BY <1>1, <2>1, <2>2 DEF InProgress
<1>2. CASE op = "StartConversion"
  <2>1. Program(op) = <<"reset", "SkipRom", "ConvertT">>
    BY <1>2 DEF Program
  <2>2. step \in 1..3 /\ (Last <=> step = 3)
    BY <2>1 DEF Last
  <2> QED
    BY <1>2, <2>1, <2>2 DEF InProgress
<1>3. CASE op = "ReadTemperature"
  <2>1. Program(op) = <<"reset", "SkipRom", "ReadScratchpad", "read", "read">>
    BY <1>3 DEF Program
  <2>2. step \in 1..5 /\ (Last <=> step = 5)
    BY <2>1 DEF Last
  <2> QED
    BY <1>3, <2>1, <2>2 DEF InProgress
<1> QED
  BY <1>1, <1>2, <1>3 DEF Op

(* The cursor starts and stays inside the program.                         *)
LEMMA CursorStarts == \A o \in Op : 1 \in DOMAIN Program(o)
<1> SUFFICES ASSUME NEW o \in Op PROVE 1 \in DOMAIN Program(o)
  OBVIOUS
<1> QED
  BY DEF Program, Op

LEMMA CursorMoves ==
  ASSUME op \in Op, step \in DOMAIN Program(op), ~Last
  PROVE  step + 1 \in DOMAIN Program(op)
<1>1. CASE op = "Init"
  BY <1>1, HookAt
<1>2. CASE op = "StartConversion"
  <2>1. Program(op) = <<"reset", "SkipRom", "ConvertT">>
    BY <1>2 DEF Program
  <2> QED
    BY <1>2, <2>1, HookAt
<1>3. CASE op = "ReadTemperature"
  <2>1. Program(op) = <<"reset", "SkipRom", "ReadScratchpad", "read", "read">>
    BY <1>3 DEF Program
  <2> QED
    BY <1>3, <2>1, HookAt
<1> QED
  BY <1>1, <1>2, <1>3 DEF Op

-----------------------------------------------------------------------------
(* The inductive invariant.  InPhase in terms of the cursor, what an empty *)
(* line implies, and what the byte read so far is.                         *)

InStep ==
  steady /\ op # "none" =>
    /\ step = 2 => phase = "rom"
    /\ step = 3 => phase = "function"
    /\ step = 4 => phase = "lsb"
    /\ step = 5 => phase = "msb"

Line ==
  /\ ~present => ~converting /\ phase = "deaf"
  /\ steady => present
  /\ requested => present /\ (converting \/ converted)

HalfRead ==
  CallerWaits /\ op = "ReadTemperature" =>
    /\ ~converting
    /\ steady /\ step = 5 => lsb = LowByte(scratch)

IInv == TypeOK /\ InStep /\ Line /\ HalfRead

LEMMA InitEstablishes == Init => IInv
<1> SUFFICES ASSUME Init PROVE IInv
  OBVIOUS
<1>1. TypeOK
  <2>1. /\ converting \in BOOLEAN /\ steady \in BOOLEAN
        /\ requested \in BOOLEAN /\ converted \in BOOLEAN
    BY Zenon DEF Init
  <2>2. scratch \in Temperatures \cup {PowerOnTemperature}
    BY DEF Init
  <2>3. lsb \in Byte /\ out \in Int16 \cup {Unread} /\ status \in Status /\ phase \in Phase
    BY DEF Init, Phase, Byte, Int16, Status
  <2>4. present \in BOOLEAN /\ op = "none" /\ step = 0
    BY DEF Init
  <2> QED
    BY <2>1, <2>2, <2>3, <2>4 DEF TypeOK
<1>2. InStep /\ Line /\ HalfRead
  BY DEF Init, InStep, Line, HalfRead
<1> QED
  BY <1>1, <1>2 DEF IInv

LEMMA ScratchIsCount == TypeOK => scratch \in Int16
BY TemperaturesAssumption DEF TypeOK, PowerOnTemperature, Int16

LEMMA ServedIsByte == TypeOK => Served \in Byte
BY ScratchIsCount, BytesOfCount DEF TypeOK, Served, Byte

LEMMA PhasesStay ==
  TypeOK => /\ AfterRead \in Phase
            /\ \A c \in Command : Heard(c) \in Phase
BY DEF TypeOK, AfterRead, Heard, Phase, Command
-----------------------------------------------------------------------------
(* One lemma per action.                                                   *)

LEMMA CallPreserves ==
  ASSUME IInv, NEW o \in Op, Call(o)
  PROVE  IInv'
<1>1. TypeOK'
  <2>1. /\ op' \in Op /\ step' = 1 /\ step' \in DOMAIN Program(op')
        /\ op' # "none"
    BY CursorStarts DEF Call, Op
  <2>2. UNCHANGED <<present, phase, converting, scratch, lsb, out, status, requested, converted>>
    BY DEF Call, part
  <2>3. steady' \in BOOLEAN
    BY DEF IInv, TypeOK, Call
  <2> QED
    BY <2>1, <2>2, <2>3 DEF IInv, TypeOK
<1>2. InStep' /\ Line'
  BY DEF IInv, InStep, Line, Call, part
<1>3. HalfRead'
  BY DEF IInv, HalfRead, Call, part
<1> QED
  BY <1>1, <1>2, <1>3 DEF IInv

(* A call that goes on after an OK hook, or ends.                          *)
LEMMA ProceedMoves ==
  ASSUME TypeOK, op \in Op, Proceed
  PROVE  /\ op' \in Op \cup {"none"}
         /\ IF op' = "none" THEN step' = 0 ELSE step' \in DOMAIN Program(op')
         /\ lsb' \in Byte /\ status' \in Status
         /\ op' = "none" <=> Last
         /\ op' # "none" => op' = op /\ step' = step + 1 /\ UNCHANGED lsb
<1>1. step \in DOMAIN Program(op) /\ op # "none"
  BY DEF TypeOK, Op
<1>2. CASE Last
  BY <1>2 DEF Proceed, Return, Byte, Status
<1>3. CASE ~Last
  BY <1>1, <1>3, CursorMoves DEF Proceed, TypeOK
<1> QED
  BY <1>2, <1>3

LEMMA ReturnEnds ==
  ASSUME NEW s \in Status, Return(s)
  PROVE  op' = "none" /\ step' = 0 /\ lsb' \in Byte /\ status' \in Status
BY DEF Return, Byte

(* An operation in progress is one of Op, and its hook is where HookAt     *)
(* says.                                                                   *)
LEMMA Running ==
  ASSUME TypeOK, NEW hook, InProgress(hook)
  PROVE  op \in Op /\ step \in DOMAIN Program(op)
BY DEF TypeOK, InProgress

LEMMA ResetOKPreserves ==
  ASSUME IInv, ResetOK
  PROVE  IInv'
<1> USE DEF IInv
<1>1. op \in Op /\ step \in DOMAIN Program(op)
  BY Running DEF ResetOK
<1>2. step = 1
  BY <1>1, HookAt DEF ResetOK
<1>3. TypeOK'
  <2>1. UNCHANGED <<present, converting, scratch, out, steady, requested, converted>>
    BY DEF ResetOK, ghosts
  <2>2. phase' \in Phase
    BY DEF ResetOK, Phase
  <2> QED
    BY <1>1, <2>1, <2>2, ProceedMoves DEF TypeOK, ResetOK
<1>4. InStep'
  BY <1>1, <1>2, ProceedMoves DEF InStep, ResetOK
<1>5. Line' /\ HalfRead'
  BY <1>1, <1>2, ProceedMoves DEF Line, HalfRead, ResetOK, ghosts
<1> QED
  BY <1>3, <1>4, <1>5

LEMMA FailureEnds ==
  ASSUME IInv, NEW e \in TransportError, Return(e),
         phase' \in Phase, ~present => phase' = "deaf",
         converting' \in BOOLEAN, converting => converting', converting' => present,
         UNCHANGED <<present, scratch, out, ghosts>>
  PROVE  IInv'
<1> USE DEF IInv
<1>1. op' = "none" /\ step' = 0 /\ lsb' \in Byte /\ status' \in Status
  BY ReturnEnds DEF TransportError, Status
<1>2. TypeOK'
  BY <1>1 DEF TypeOK, ghosts
<1>3. InStep' /\ Line' /\ HalfRead'
  BY <1>1 DEF InStep, Line, HalfRead, ghosts
<1> QED
  BY <1>2, <1>3

LEMMA FailuresPreserve ==
  ASSUME IInv, NEW e \in TransportError,
         ResetFails(e) \/ ReadFails(e) \/ \E c \in Command : WriteFails(c, e)
  PROVE  IInv'
<1> USE DEF IInv
<1>1. CASE ResetFails(e)
  BY <1>1, FailureEnds DEF ResetFails, Line, TypeOK, Phase
<1>2. CASE ReadFails(e)
  <2>1. ~present => AfterRead = "deaf"
    BY DEF Line, AfterRead
  <2> QED
    BY <1>2, <2>1, PhasesStay, FailureEnds DEF ReadFails, Line, TypeOK
<1>3. ASSUME NEW c \in Command, WriteFails(c, e) PROVE IInv'
  <2>1. StartsConverting(c) => present
    BY DEF StartsConverting
  <2>2. StartsConverting(c) \in BOOLEAN
    BY DEF StartsConverting
  <2>3. /\ phase' \in Phase /\ (~present => phase' = "deaf")
    BY <1>3, PhasesStay DEF WriteFails, Line, TypeOK, Phase
  <2>4. /\ converting' \in BOOLEAN /\ (converting => converting')
        /\ (converting' => present)
    <3>1. CASE converting' = (converting \/ StartsConverting(c))
      BY <3>1, <2>1, <2>2, Zenon DEF Line, TypeOK
    <3>2. CASE converting' = converting
      BY <3>2 DEF Line, TypeOK
    <3> QED
      BY <1>3, <3>1, <3>2 DEF WriteFails
  <2> QED
    BY <1>3, <2>3, <2>4, FailureEnds DEF WriteFails
<1> QED
  BY <1>1, <1>2, <1>3
LEMMA WriteOKPreserves ==
  ASSUME IInv, NEW c \in Command, WriteOK(c)
  PROVE  IInv'
<1> USE DEF IInv
<1>1. op \in Op /\ step \in DOMAIN Program(op)
  BY Running DEF WriteOK
<1>2. /\ c = "SkipRom" => step = 2 /\ ~Last
      /\ c = "ConvertT" => op = "StartConversion" /\ step = 3 /\ Last
      /\ c = "ReadScratchpad" => op = "ReadTemperature" /\ step = 3 /\ ~Last
  BY <1>1, HookAt DEF WriteOK
<1>3. /\ StartsConverting(c) => present /\ c = "ConvertT"
      /\ c = "ConvertT" /\ steady => StartsConverting(c)
      /\ StartsConverting(c) \in BOOLEAN
  BY <1>1, <1>2 DEF StartsConverting, InStep, Line, Op
<1>4. /\ converting' \in BOOLEAN /\ (converting' <=> converting \/ StartsConverting(c))
      /\ requested' \in BOOLEAN
      /\ requested' <=> (requested \/ (c = "ConvertT" /\ steady))
  <2>1. converting' = (converting \/ StartsConverting(c))
    BY DEF WriteOK
  <2>2. requested' = (requested \/ (op = "StartConversion" /\ Last /\ steady))
    BY DEF WriteOK
  <2>3. op = "StartConversion" /\ Last <=> c = "ConvertT"
    BY <1>1, <1>2, HookAt DEF Command
  <2> QED
    BY <2>1, <2>2, <2>3, <1>3, Zenon DEF TypeOK
<1>5. phase' = IF present THEN Heard(c) ELSE phase
  BY DEF WriteOK
<1>6. TypeOK'
  <2>1. UNCHANGED <<present, scratch, out, steady, converted>>
    BY DEF WriteOK
  <2>2. phase' \in Phase
    BY <1>5, PhasesStay DEF TypeOK
  <2>3. Proceed
    BY DEF WriteOK
  <2> QED
    BY <1>1, <1>4, <2>1, <2>2, <2>3, ProceedMoves DEF TypeOK
<1>7. InStep'
  <2>1. SUFFICES ASSUME steady', op' # "none"
                 PROVE  /\ step' = 2 => phase' = "rom"
                        /\ step' = 3 => phase' = "function"
                        /\ step' = 4 => phase' = "lsb"
                        /\ step' = 5 => phase' = "msb"
    BY DEF InStep
  <2>2. op' = op /\ step' = step + 1 /\ ~Last /\ steady /\ present
    BY <1>1, <2>1, ProceedMoves DEF WriteOK, Line
  <2>3. CASE c = "SkipRom"
    BY <1>1, <1>2, <1>5, <2>2, <2>3 DEF InStep, Heard, Op
  <2>4. CASE c = "ReadScratchpad"
    BY <1>1, <1>2, <1>5, <2>2, <2>4 DEF InStep, Heard, Op
  <2> QED
    BY <1>2, <2>2, <2>3, <2>4 DEF Command
<1>8. Line'
  BY <1>3, <1>4, <1>5 DEF Line, WriteOK
<1>9. HalfRead'
  <2>1. SUFFICES ASSUME CallerWaits, op' = "ReadTemperature"
                 PROVE  ~converting' /\ step' # 5
    BY DEF HalfRead
  <2>2. op' = op /\ step' = step + 1
    BY <1>1, <2>1, ProceedMoves DEF WriteOK
  <2> QED
    BY <1>2, <1>3, <1>4, <2>1, <2>2 DEF HalfRead, Command
<1> QED
  BY <1>6, <1>7, <1>8, <1>9

LEMMA ReadLsbOKPreserves ==
  ASSUME IInv, ReadLsbOK
  PROVE  IInv'
<1> USE DEF IInv
<1>1. op \in Op /\ step \in DOMAIN Program(op)
  BY Running DEF ReadLsbOK
<1>2. op = "ReadTemperature" /\ step = 4
  BY <1>1, HookAt DEF ReadLsbOK
<1>3. TypeOK'
  <2>1. UNCHANGED <<present, converting, scratch, op, out, status, steady, requested, converted>>
    BY DEF ReadLsbOK, ghosts
  <2>2. lsb' \in Byte /\ phase' \in Phase /\ step' = step + 1
    BY ServedIsByte, PhasesStay DEF ReadLsbOK
  <2>3. step' \in DOMAIN Program(op)
    BY <1>1, <2>2, CursorMoves DEF ReadLsbOK
  <2> QED
    BY <1>1, <2>1, <2>2, <2>3 DEF TypeOK, Op
<1>4. InStep' /\ Line'
  BY <1>2 DEF InStep, Line, ReadLsbOK, AfterRead, ghosts
<1>5. HalfRead'
  BY <1>2 DEF HalfRead, InStep, ReadLsbOK, Served, ghosts
<1> QED
  BY <1>3, <1>4, <1>5

LEMMA ReadMsbOKPreserves ==
  ASSUME IInv, ReadMsbOK
  PROVE  IInv'
<1> USE DEF IInv
<1>1. op' = "none" /\ step' = 0 /\ lsb' \in Byte /\ status' \in Status
  BY ReturnEnds DEF ReadMsbOK, Status
<1>2. out' \in Int16
  BY ServedIsByte, DecodesToCount DEF ReadMsbOK, TypeOK
<1>3. TypeOK'
  BY <1>1, <1>2, PhasesStay DEF TypeOK, ReadMsbOK, ghosts
<1>4. InStep' /\ Line' /\ HalfRead'
  BY <1>1 DEF InStep, Line, HalfRead, ReadMsbOK, AfterRead, ghosts
<1> QED
  BY <1>3, <1>4

(* The line on its own: a conversion ends, the thermometer leaves or       *)
(* comes back.                                                             *)
LEMMA LinePreserves ==
  ASSUME IInv, (\E t \in Temperatures : ConversionDone(t)) \/ Unplug \/ Plug
  PROVE  IInv'
<1> USE DEF IInv, driver
<1>1. ASSUME NEW t \in Temperatures, ConversionDone(t) PROVE IInv'
  BY <1>1 DEF ConversionDone, TypeOK, InStep, Line, HalfRead
<1>2. CASE Unplug
  BY <1>2 DEF Unplug, TypeOK, InStep, Line, HalfRead, Phase
<1>3. CASE Plug
  BY <1>3 DEF Plug, TypeOK, InStep, Line, HalfRead
<1> QED
  BY <1>1, <1>2, <1>3
LEMMA StepPreserves == IInv /\ [Next]_vars => IInv'
<1> SUFFICES ASSUME IInv, [Next]_vars PROVE IInv'
  OBVIOUS
<1>1. ASSUME NEW o \in Op, Call(o) PROVE IInv'
  BY <1>1, CallPreserves
<1>2. CASE DriverStep
  <2>1. CASE ResetOK
    BY <2>1, ResetOKPreserves
  <2>2. ASSUME NEW c \in Command, WriteOK(c) PROVE IInv'
    BY <2>2, WriteOKPreserves
  <2>3. CASE ReadLsbOK
    BY <2>3, ReadLsbOKPreserves
  <2>4. CASE ReadMsbOK
    BY <2>4, ReadMsbOKPreserves
  <2>5. ASSUME NEW e \in TransportError,
               ResetFails(e) \/ ReadFails(e) \/ \E c \in Command : WriteFails(c, e)
        PROVE  IInv'
    BY <2>5, FailuresPreserve
  <2> QED
    BY <1>2, <2>1, <2>2, <2>3, <2>4, <2>5 DEF DriverStep
<1>3. CASE (\E t \in Temperatures : ConversionDone(t)) \/ Unplug \/ Plug
  BY <1>3, LinePreserves
<1>4. CASE UNCHANGED vars
  BY <1>4 DEF IInv, TypeOK, InStep, Line, HalfRead, vars, part, driver, ghosts
<1> QED
  BY <1>1, <1>2, <1>3, <1>4 DEF Next

LEMMA Invariance == Spec => []IInv
<1>1. Init => IInv
  BY InitEstablishes
<1>2. IInv /\ [Next]_vars => IInv'
  BY StepPreserves
<1> QED
  BY <1>1, <1>2, PTL DEF Spec

(* What ReadTemperature leaves in *pTemperature when it returns OK.        *)
LEMMA ReadDelivers ==
  ASSUME IInv, ReadMsbOK
  PROVE  /\ out' \in Int16 /\ out' # Unread
         /\ status' = "OK"
         /\ steady /\ CallerWaits => out' = scratch
<1>1. out' \in Int16 /\ status' = "OK"
  BY ServedIsByte, DecodesToCount DEF IInv, TypeOK, ReadMsbOK, Return
<1>2. ASSUME steady, CallerWaits PROVE out' = scratch
  <2>1. op \in Op /\ step \in DOMAIN Program(op)
    BY Running DEF IInv, ReadMsbOK
  <2>2. op = "ReadTemperature" /\ step = 5
    BY <2>1, HookAt DEF ReadMsbOK
  <2>3. phase = "msb" /\ lsb = LowByte(scratch)
    BY <1>2, <2>2 DEF IInv, InStep, HalfRead
  <2>4. out' = LittleEndian16(LowByte(scratch), HighByte(scratch))
    BY <2>3 DEF ReadMsbOK, Served
  <2> QED
    BY <2>4, ScratchIsCount, RoundTrip DEF IInv
<1> QED
  BY <1>1, <1>2 DEF Int16, Unread

-----------------------------------------------------------------------------
(* The theorems.                                                           *)

(* ReadTemperature delivers int16_t counts only, and no operation runs     *)
(* past its last hook call.                                                *)
THEOREM TypeCorrect == Spec => []TypeOK
<1>1. IInv => TypeOK
  BY DEF IInv
<1> QED
  BY <1>1, Invariance, PTL

(* Whatever an abandoned operation left behind, a later one is in phase    *)
(* with a thermometer that stays on the line.                              *)
THEOREM AlwaysInPhase == Spec => []InPhase
<1>1. IInv => InPhase
  <2> SUFFICES ASSUME IInv, steady, op # "none" PROVE InPhase
    BY DEF InPhase
  <2>1. op \in Op /\ step \in DOMAIN Program(op)
    BY DEF IInv, TypeOK
  <2>2. /\ step = 2 => phase = "rom"
        /\ step = 3 => phase = "function"
        /\ step = 4 => phase = "lsb"
        /\ step = 5 => phase = "msb"
    BY DEF IInv, InStep
  <2> DEFINE hook == Program(op)[step]
  <2>3. /\ hook = "SkipRom" => step = 2
        /\ hook \in {"ConvertT", "ReadScratchpad"} => step = 3
        /\ hook = "read" => step \in {4, 5} /\ (Last <=> step = 5)
    BY <2>1, HookAt DEF InProgress, Op
  <2> HIDE DEF hook
  <2>4. CASE hook = "SkipRom" \/ hook \in {"ConvertT", "ReadScratchpad"} \/ hook = "read"
    BY <2>2, <2>3, <2>4 DEF InPhase, hook
  <2>5. CASE ~(hook = "SkipRom" \/ hook \in {"ConvertT", "ReadScratchpad"} \/ hook = "read")
    BY <2>5 DEF InPhase, hook
  <2> QED
    BY <2>4, <2>5
<1> QED
  BY <1>1, Invariance, PTL

(* StartConversion returning OK means that the thermometer converts or has *)
(* converted.                                                              *)
THEOREM StartIsReal == Spec => []WaitedReadIsConverted
<1>1. IInv => WaitedReadIsConverted
  BY DEF IInv, Line, WaitedReadIsConverted
<1> QED
  BY <1>1, Invariance, PTL

(* When the caller lets conversions finish, an OK read of a thermometer    *)
(* that stays on the line delivers its scratchpad, one conversion in both  *)
(* bytes.                                                                  *)
THEOREM WholeConversion == ASSUME CallerWaits PROVE Spec => ReadsTheScratchpad
<1>1. IInv /\ [Next]_vars => [ReadMsbOK /\ steady => out' = scratch]_vars
  BY ReadDelivers
<1> QED
  BY <1>1, Invariance, PTL DEF Spec, ReadsTheScratchpad

-----------------------------------------------------------------------------
(* The refinement.                                                         *)

(* Every other step leaves it alone.                                       *)
LEMMA OutputStays ==
  ASSUME [Next]_vars, ~ReadMsbOK
  PROVE  UNCHANGED out
<1>1. ASSUME NEW o \in Op, Call(o) PROVE UNCHANGED out
  BY <1>1 DEF Call
<1>2. CASE ResetOK \/ ReadLsbOK \/ \E c \in Command : WriteOK(c)
  BY <1>2 DEF ResetOK, ReadLsbOK, WriteOK
<1>3. ASSUME NEW e \in TransportError,
             ResetFails(e) \/ ReadFails(e) \/ \E c \in Command : WriteFails(c, e)
      PROVE  UNCHANGED out
  BY <1>3 DEF ResetFails, ReadFails, WriteFails
<1>4. CASE (\E t \in Temperatures : ConversionDone(t)) \/ Unplug \/ Plug
  BY <1>4 DEF ConversionDone, Unplug, Plug, driver
<1>5. CASE UNCHANGED vars
  BY <1>5 DEF vars, driver
<1> QED
  BY <1>1, <1>2, <1>3, <1>4, <1>5 DEF Next, DriverStep

LEMMA StepImplements ==
  ASSUME IInv, [Next]_vars
  PROVE  [Contract!Next]_(Contract!vars)
<1>1. CASE ReadMsbOK
  <2>1. /\ status' = "OK" /\ out' # Unread
        /\ steady /\ CallerWaits => out' = scratch
    BY <1>1, ReadDelivers
  <2>2. Contract!Read("ReadTemperature")
    BY <2>1 DEF Contract!Read, Count
  <2> QED
    BY <2>2 DEF Contract!Next
<1>2. CASE ~ReadMsbOK
  <2>1. UNCHANGED out
    BY <1>2, OutputStays
  <2> QED
    BY <2>1 DEF Contract!Next, Contract!Background
<1> QED
  BY <1>1, <1>2

(* Only a ReadTemperature that returns OK touches *pTemperature; of a      *)
(* thermometer that stayed on the line, and with a caller that waits, what *)
(* it leaves there is the scratchpad.                                      *)
THEOREM Implements == Spec => ImplementsContract
<1>1. Init => Contract!Init
  BY DEF Init, Contract!Init
<1>2. IInv /\ [Next]_vars => [Contract!Next]_(Contract!vars)
  BY StepImplements
<1> QED
  BY <1>1, <1>2, Invariance, PTL DEF Spec, ImplementsContract, Contract!Spec
=============================================================================
