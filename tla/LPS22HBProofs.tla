------------------------- MODULE LPS22HBProofs -------------------------
(***************************************************************************)
(* Theorems about the LPS22HB driver: for every set of configurations, raw *)
(* writes, identities and samples, what the run of MCLPS22HB checks on a   *)
(* small instance.  The part samples wherever it likes inside a burst.     *)
(***************************************************************************)
EXTENDS LPS22HB, SequenceTheorems, TLAPS

-----------------------------------------------------------------------------
(* What the driver makes of the five bytes of a burst.                     *)

(* The bytes of a buffer are the three of a pressure count p, or the two   *)
(* of a temperature count t.                                               *)
AreBytesOfP(b, p) ==
  b[1] = LowByte(p) /\ b[2] = HighByte(p) /\ b[3] = (p \div 65536) % 256
AreBytesOfT(b, t) == b[4] = LowByte(t) /\ b[5] = HighByte(t)

(* The sign extension (pressure ^ SIGN_BIT) - SIGN_BIT gives any 24-bit    *)
(* count back from its bytes, and never leaves the 24 bits.                *)
LEMMA SignExtension ==
  ASSUME NEW p \in Int24
  PROVE  SignExtended24((65536 * ((p \div 65536) % 256)) + (256 * HighByte(p)) + LowByte(p)) = p
BY DEF Int24, SignExtended24, PRESSURE_SIGN_BIT, LowByte, HighByte

LEMMA SignExtensionBounded ==
  ASSUME NEW b0 \in Byte, NEW b1 \in Byte, NEW b2 \in Byte
  PROVE  SignExtended24((65536 * b2) + (256 * b1) + b0) \in Int24
BY DEF Byte, Int24, SignExtended24, PRESSURE_SIGN_BIT

LEMMA TwoBytes ==
  /\ \A b0, b1 \in Byte : LittleEndian16(b0, b1) \in Int16
  /\ \A t \in Int16 : LittleEndian16(LowByte(t), HighByte(t)) = t
<1>1. ASSUME NEW b0 \in Byte, NEW b1 \in Byte
      PROVE  LittleEndian16(b0, b1) \in Int16
  BY DEF LittleEndian16, ToInt16, Byte, Int16
<1>2. ASSUME NEW t \in Int16
      PROVE  LittleEndian16(LowByte(t), HighByte(t)) = t
  BY DEF Int16, LittleEndian16, ToInt16, LowByte, HighByte
<1> QED
  BY <1>1, <1>2

LEMMA BurstDecodes ==
  ASSUME buffer \in Seq(Byte), Len(buffer) = 5
  PROVE  /\ P_OUT \in Int24 /\ T_OUT \in Int16
         /\ \A p \in Int24 : AreBytesOfP(buffer, p) => P_OUT = p
         /\ \A t \in Int16 : AreBytesOfT(buffer, t) => T_OUT = t
<1>1. buffer \in [1..5 -> Byte]
  BY LenProperties, Zenon
<1>2. \A n \in {1, 2, 3, 4, 5} : buffer[n] \in Byte
  BY <1>1
<1>3. P_OUT \in Int24 /\ T_OUT \in Int16
  BY <1>2, SignExtensionBounded, TwoBytes DEF P_OUT, T_OUT
<1>4. ASSUME NEW p \in Int24, AreBytesOfP(buffer, p)
      PROVE  P_OUT = p
  BY <1>4, SignExtension DEF P_OUT, AreBytesOfP
<1>5. ASSUME NEW t \in Int16, AreBytesOfT(buffer, t)
      PROVE  T_OUT = t
  BY <1>5, TwoBytes DEF T_OUT, AreBytesOfT
<1> QED
  BY <1>3, <1>4, <1>5

(* The address the driver sends makes the part walk, so the bytes come one *)
(* after the other.                                                        *)
LEMMA BytesInOrder ==
  ASSUME NEW n \in {0, 1, 2, 3, 4}, Len(buffer) = n,
         sample \in [P : Int24, T : Int16]
  PROVE  /\ NextByte \in Byte
         /\ n = 0 => NextByte = LowByte(sample.P)
         /\ n = 1 => NextByte = HighByte(sample.P)
         /\ n = 2 => NextByte = (sample.P \div 65536) % 256
         /\ n = 3 => NextByte = LowByte(sample.T)
         /\ n = 4 => NextByte = HighByte(sample.T)
<1>1. NextByte = OutputByte(n)
  BY DEF NextByte, Driver!Increments, Driver!ActualAddress, PRESS_OUT_XL
<1>2. /\ n = 0 => OutputByte(n) = LowByte(sample.P)
      /\ n = 1 => OutputByte(n) = HighByte(sample.P)
      /\ n = 2 => OutputByte(n) = (sample.P \div 65536) % 256
      /\ n = 3 => OutputByte(n) = LowByte(sample.T)
      /\ n = 4 => OutputByte(n) = HighByte(sample.T)
  BY DEF OutputByte
<1>3. /\ LowByte(sample.P) \in Byte /\ HighByte(sample.P) \in Byte
      /\ (sample.P \div 65536) % 256 \in Byte
      /\ LowByte(sample.T) \in Byte /\ HighByte(sample.T) \in Byte
  <2>1. sample.P \in Int /\ sample.T \in Int
    BY DEF Int24, Int16
  <2>2. \A v \in Int : v % 256 \in Byte
    BY DEF Byte
  <2> QED
    BY <2>1, <2>2 DEF LowByte, HighByte
<1> QED
  BY <1>1, <1>2, <1>3

-----------------------------------------------------------------------------
(* The inductive invariant.  What HandleIsThisBurst says when a reader     *)
(* returns must be true of the bytes as they come in: while a value is     *)
(* half read the output registers still hold its other bytes, and once it  *)
(* is read some sample of the burst has just these bytes.                  *)

SeesItself ==
  /\ reading # "none" => sample \in seen
  /\ steady => reading # "none" /\ BDU

WholeSoFar ==
  steady =>
    /\ Len(buffer) \in {1, 2} => buffer[1] = LowByte(sample.P)
    /\ Len(buffer) = 2 => buffer[2] = HighByte(sample.P)
    /\ Len(buffer) \in {3, 4, 5} => \E a \in seen : AreBytesOfP(buffer, a.P)
    /\ Len(buffer) = 4 => buffer[4] = LowByte(sample.T)
    /\ Len(buffer) = 5 => \E b \in seen : AreBytesOfT(buffer, b.T)

IInv == TypeOK /\ SeesItself /\ WholeSoFar

LEMMA DriverSets ==
  /\ Driver!Ctrl = Ctrl /\ Driver!Byte = Byte
  /\ Driver!Status = Status /\ Driver!TransportError = TransportError
<1>1. Driver!Ctrl = Ctrl
  BY DEF Driver!Ctrl, Ctrl
<1> QED
  BY <1>1 DEF Driver!Byte, Byte, Driver!Status, Status, Driver!TransportError, TransportError

WriteOrder == <<CTRL_REG1, CTRL_REG2, CTRL_REG3>>

LEMMA ThreeWrites ==
  /\ DOMAIN WriteOrder = 1..3 /\ Len(WriteOrder) = 3
  /\ \A j \in 1..3 : WriteOrder[j] \in Ctrl
BY DEF WriteOrder, Ctrl

(* What TypeOK says of the variables of StDriver, unfolded.                *)
DriverTyped ==
  /\ ctrl \in [Ctrl -> Byte] /\ pc \in 0..3 /\ intact \in BOOLEAN
  /\ cfg \in IF pc = 0 THEN {Driver!NoConfig} ELSE Configs
  /\ configured \in Configs \cup {Driver!NoConfig}
  /\ out \in [reader : {"none", "Reg"}, data : Byte] \cup Outputs
  /\ status \in Status

OwnTyped ==
  /\ sample \in [P : Int24, T : Int16]
  /\ handle \in [P : Int24, T : Int16]
  /\ reading \in Reader \cup {"none"}
  /\ pc # 0 => reading = "none"
  /\ buffer \in Seq(Byte) /\ Len(buffer) <= 5
  /\ reading = "none" => buffer = <<>>
  /\ seen \subseteq [P : Int24, T : Int16]
  /\ steady \in BOOLEAN

LEMMA Typed == TypeOK <=> DriverTyped /\ OwnTyped
BY ThreeWrites, DriverSets
   DEF TypeOK, Driver!Types, DriverTyped, OwnTyped, WriteOrder

LEMMA TypedNext == TypeOK' <=> DriverTyped' /\ OwnTyped'
BY ThreeWrites, DriverSets
   DEF TypeOK, Driver!Types, DriverTyped, OwnTyped, WriteOrder,
       Driver!NoConfig, Driver!Ctrl, Ctrl

LEMMA PowerOnTyped ==
  [r \in Ctrl |-> IF r = CTRL_REG2 THEN \h10 ELSE 0] \in [Ctrl -> Byte]
BY DEF Byte

LEMMA InitEstablishes == Init => IInv
<1> SUFFICES ASSUME Init PROVE IInv
  OBVIOUS
<1>1. DriverTyped
  <2>1. ctrl \in [Ctrl -> Byte]
    BY PowerOnTyped DEF Init, Driver!Init
  <2>2. out \in [reader : {"none", "Reg"}, data : Byte]
    BY DEF Init, Driver!Init, Byte
  <2> QED
    BY <2>1, <2>2 DEF Init, Driver!Init, DriverTyped, Status
<1>2. OwnTyped
  <2>1. handle \in [P : Int24, T : Int16]
    BY DEF Init, Int24, Int16
  <2>2. buffer \in Seq(Byte) /\ Len(buffer) = 0
    BY EmptySeq DEF Init
  <2>3. pc = 0
    BY DEF Init, Driver!Init
  <2>4. sample \in [P : Int24, T : Int16] /\ reading = "none" /\ buffer = <<>> /\ seen = {}
    BY SamplesAssumption DEF Init
  <2>5. steady \in BOOLEAN
    BY Zenon DEF Init
  <2> QED
    BY <2>1, <2>2, <2>3, <2>4, <2>5 DEF OwnTyped
<1>3. SeesItself /\ WholeSoFar
  BY DEF Init, SeesItself, WholeSoFar
<1> QED
  BY <1>1, <1>2, <1>3, Typed DEF IInv

-----------------------------------------------------------------------------
(* The steps of Init and of the calls that read nothing but a register.    *)

LEMMA Transacts ==
  ASSUME ctrl \in [Ctrl -> Byte], NEW reg \in Ctrl, NEW byte \in Byte, NEW s,
         Driver!Transaction(reg, byte, s)
  PROVE  ctrl' \in [Ctrl -> Byte]
BY DriverSets DEF Driver!Transaction

LEMMA InitWrites ==
  ASSUME DriverTyped, NEW s, Driver!InitWrite(s)
  PROVE  pc \in 1..3 /\ cfg \in Configs /\ ctrl' \in [Ctrl -> Byte] /\ out' = out
<1>1. pc \in 1..3 /\ cfg \in Configs /\ ctrl \in [Ctrl -> Byte]
  BY ThreeWrites DEF Driver!InitWrite, DriverTyped, WriteOrder
<1>2. WriteOrder[pc] \in Ctrl /\ cfg[WriteOrder[pc]] \in Byte
  BY <1>1, ThreeWrites, ConfigsAssumption
<1>3. Driver!Transaction(WriteOrder[pc], cfg[WriteOrder[pc]], s)
  BY DEF Driver!InitWrite, WriteOrder
<1> QED
  BY <1>1, <1>2, <1>3, Transacts DEF Driver!InitWrite

LEMMA InitStepTyped ==
  ASSUME DriverTyped, Driver!InitStep
  PROVE  DriverTyped'
<1> USE DEF DriverTyped, Status, TransportError
<1>0. Driver!NoConfig' = Driver!NoConfig
  BY DEF Driver!NoConfig, Driver!Ctrl
<1>1. CASE Driver!InitGoesOn
  <2>1. /\ Driver!InitWrite("OK") /\ pc < 3 /\ pc' = pc + 1
        /\ configured' = Driver!NoConfig /\ UNCHANGED <<cfg, intact, status>>
    BY <1>1, ThreeWrites DEF Driver!InitGoesOn, WriteOrder
  <2>2. pc \in 1..3 /\ cfg \in Configs /\ ctrl' \in [Ctrl -> Byte] /\ out' = out
    BY <2>1, InitWrites
  <2> QED
    BY <1>0, <2>1, <2>2
<1>2. CASE Driver!InitReturns
  <2>1. /\ Driver!InitWrite("OK") /\ pc' = 0
        /\ cfg' = Driver!NoConfig /\ intact' = TRUE /\ status' = "OK"
        /\ configured' = IF intact THEN cfg ELSE Driver!NoConfig
    BY <1>2 DEF Driver!InitReturns, Driver!Return
  <2>2. cfg \in Configs /\ ctrl' \in [Ctrl -> Byte] /\ out' = out
    BY <2>1, InitWrites
  <2> QED
    BY <1>0, <2>1, <2>2
<1>3. ASSUME NEW e \in TransportError, Driver!InitStops(e)
      PROVE  DriverTyped'
  <2>1. /\ Driver!InitWrite(e) /\ pc' = 0 /\ cfg' = Driver!NoConfig /\ intact' = TRUE
        /\ status' = e /\ configured' = Driver!NoConfig
    BY <1>3 DEF Driver!InitStops, Driver!Return
  <2>2. ctrl' \in [Ctrl -> Byte] /\ out' = out
    BY <2>1, InitWrites
  <2> QED
    BY <1>0, <2>1, <2>2
<1> QED
  BY <1>1, <1>2, <1>3, DriverSets DEF Driver!InitStep

LEMMA CallTyped ==
  ASSUME DriverTyped, Driver!Call
  PROVE  DriverTyped'
<1> USE DEF DriverTyped, Status, TransportError
<1>0. Driver!NoConfig' = Driver!NoConfig
  BY DEF Driver!NoConfig, Driver!Ctrl
<1>1. ASSUME NEW c \in Configs, Driver!CallInit(c)
      PROVE  DriverTyped'
  BY <1>0, <1>1 DEF Driver!CallInit
<1>2. ASSUME NEW reg \in Ctrl, Driver!ReadReg(reg)
      PROVE  DriverTyped'
  <2>1. ctrl[reg] \in Byte
    OBVIOUS
  <2>2. out' \in [reader : {"none", "Reg"}, data : Byte] \cup Outputs
    BY <1>2, <2>1 DEF Driver!ReadReg
  <2>3. status' \in Status /\ UNCHANGED <<ctrl, pc, cfg, intact, configured>>
    BY <1>2, DriverSets DEF Driver!ReadReg, Driver!setup
  <2> QED
    BY <1>0, <2>2, <2>3
<1>3. ASSUME NEW w \in AppWrites, NEW s \in {"OK"} \cup TransportError,
             Driver!WriteReg(w[1], w[2], s)
      PROVE  DriverTyped'
  <2>1. w[1] \in Ctrl /\ w[2] \in Byte
    BY AppWritesAssumption
  <2>2. ctrl' \in [Ctrl -> Byte]
    BY <1>3, <2>1, Transacts DEF Driver!WriteReg
  <2> QED
    BY <1>0, <1>3, <2>2 DEF Driver!WriteReg
<1>4. ASSUME NEW id \in ChipIds, Driver!CheckWhoAmI(id)
      PROVE  DriverTyped'
  <2>1. status' \in Status /\ UNCHANGED <<ctrl, pc, cfg, intact, configured, out>>
    BY <1>4, DriverSets DEF Driver!CheckWhoAmI, Driver!WhoAmIStatus, Driver!setup
  <2> QED
    BY <1>0, <2>1
<1> QED
  BY <1>1, <1>2, <1>3, <1>4, DriverSets DEF Driver!Call

LEMMA PowerCycleTyped ==
  ASSUME DriverTyped, Driver!PowerCycle
  PROVE  DriverTyped'
<1>1. /\ ctrl' = [r \in Ctrl |-> IF r = CTRL_REG2 THEN \h10 ELSE 0]
      /\ configured' = Driver!NoConfig /\ intact' = (pc = 0)
      /\ UNCHANGED <<pc, cfg, out, status>>
  BY DEF Driver!PowerCycle
<1>2. (pc = 0) \in BOOLEAN
  OBVIOUS
<1>3. intact' \in BOOLEAN
  BY <1>1, <1>2, Zenon
<1>4. Driver!NoConfig' = Driver!NoConfig
  BY DEF Driver!NoConfig, Driver!Ctrl
<1> QED
  BY <1>1, <1>3, <1>4, PowerOnTyped DEF DriverTyped

(* Between two bursts nothing is steady, so nothing is promised of bytes.  *)
LEMMA BetweenBursts ==
  ASSUME IInv, reading = "none", DriverTyped', UNCHANGED own
  PROVE  IInv'
<1>1. steady = FALSE
  <2>1. ~steady /\ steady \in BOOLEAN
    BY Typed, Zenon DEF IInv, SeesItself, OwnTyped
  <2> QED
    BY <2>1, Zenon
<1>2. OwnTyped'
  BY Typed DEF IInv, OwnTyped, own
<1>3. SeesItself' /\ WholeSoFar'
  BY <1>1 DEF own, SeesItself, WholeSoFar
<1> QED
  BY <1>2, <1>3, TypedNext DEF IInv

-----------------------------------------------------------------------------
(* The steps of a burst.                                                   *)

LEMMA CallReaderPreserves ==
  ASSUME IInv, NEW r \in Reader, CallReader(r)
  PROVE  IInv'
<1>1. /\ reading = "none" /\ pc = 0 /\ reading' = r
      /\ seen' = {sample} /\ steady' = BDU
      /\ UNCHANGED <<ctrl, pc, cfg, intact, configured, out, status, sample, handle, buffer>>
  BY DEF CallReader, Idle, Driver!Idle, setup
<1>2. buffer = <<>>
  BY <1>1, Typed DEF IInv, OwnTyped
<1>3. DriverTyped'
  BY <1>1, Typed DEF IInv, DriverTyped, Driver!NoConfig, Driver!Ctrl
<1>4. steady' \in BOOLEAN
  <2>1. BDU \in BOOLEAN
    BY Zenon DEF BDU
  <2> QED
    BY <1>1, <2>1, Zenon
<1>5. OwnTyped'
  BY <1>1, <1>2, <1>4, Typed DEF IInv, OwnTyped
<1>6. SeesItself'
  <2>1. BDU' = BDU
    BY <1>1 DEF BDU
  <2>2. steady' => BDU'
    BY <1>1, <2>1, Zenon
  <2>3. r # "none"
    BY DEF Reader
  <2> QED
    BY <1>1, <2>2, <2>3, Zenon DEF SeesItself
<1>7. WholeSoFar'
  <2>1. Len(buffer') = 0
    BY <1>1, <1>2
  <2> QED
    BY <2>1 DEF WholeSoFar
<1> QED
  BY <1>3, <1>5, <1>6, <1>7, TypedNext DEF IInv

LEMMA ReadBytePreserves ==
  ASSUME IInv, ReadByte
  PROVE  IInv'
<1>1. /\ reading # "none" /\ Len(buffer) < 5
      /\ buffer' = Append(buffer, NextByte)
      /\ UNCHANGED <<ctrl, pc, cfg, intact, configured, out, status,
                     sample, handle, reading, seen, steady>>
  BY DEF ReadByte, setup
<1>2. buffer \in Seq(Byte) /\ sample \in [P : Int24, T : Int16]
  BY Typed DEF IInv, OwnTyped
<1>3. PICK n \in {0, 1, 2, 3, 4} : Len(buffer) = n
  <2>1. Len(buffer) \in Nat
    BY <1>2, LenProperties
  <2>2. \A k \in Nat : k < 5 => k \in {0, 1, 2, 3, 4}
    OBVIOUS
  <2> QED
    BY <1>1, <2>1, <2>2, Zenon
<1>4. /\ NextByte \in Byte
      /\ n = 0 => NextByte = LowByte(sample.P)
      /\ n = 1 => NextByte = HighByte(sample.P)
      /\ n = 2 => NextByte = (sample.P \div 65536) % 256
      /\ n = 3 => NextByte = LowByte(sample.T)
      /\ n = 4 => NextByte = HighByte(sample.T)
  BY <1>2, <1>3, BytesInOrder
<1>5. /\ buffer' \in Seq(Byte) /\ Len(buffer') = n + 1
      /\ buffer'[n + 1] = NextByte
      /\ \A i \in 1..n : buffer'[i] = buffer[i]
  BY <1>1, <1>2, <1>3, <1>4, AppendProperties
<1>6. DriverTyped'
  BY <1>1, Typed DEF IInv, DriverTyped, Driver!NoConfig, Driver!Ctrl
<1>7. OwnTyped'
  <2>1. Len(buffer') <= 5
    BY <1>5
  <2> QED
    BY <1>1, <1>5, <2>1, Typed DEF IInv, OwnTyped
<1>8. SeesItself'
  BY <1>1 DEF IInv, SeesItself, BDU
<1>9. WholeSoFar'
  <2> SUFFICES ASSUME steady'
               PROVE  /\ Len(buffer') \in {1, 2} => buffer'[1] = LowByte(sample'.P)
                      /\ Len(buffer') = 2 => buffer'[2] = HighByte(sample'.P)
                      /\ Len(buffer') \in {3, 4, 5} => \E a \in seen' : AreBytesOfP(buffer', a.P)
                      /\ Len(buffer') = 4 => buffer'[4] = LowByte(sample'.T)
                      /\ Len(buffer') = 5 => \E b \in seen' : AreBytesOfT(buffer', b.T)
    BY DEF WholeSoFar
  <2>1. steady
    BY <1>1
  <2>2. sample' = sample /\ seen' = seen /\ sample \in seen
    BY <1>1 DEF IInv, SeesItself
  <2>3. /\ n \in {1, 2} => buffer[1] = LowByte(sample.P)
        /\ n = 2 => buffer[2] = HighByte(sample.P)
        /\ n \in {3, 4, 5} => \E a \in seen : AreBytesOfP(buffer, a.P)
        /\ n = 4 => buffer[4] = LowByte(sample.T)
    BY <1>3, <2>1 DEF IInv, WholeSoFar
  <2>4. CASE n = 0
    BY <1>4, <1>5, <2>2, <2>4
  <2>5. CASE n = 1
    <3>1. buffer'[1] = buffer[1] /\ buffer'[2] = NextByte
      BY <1>5, <2>5
    <3> QED
      BY <1>4, <1>5, <2>2, <2>3, <2>5, <3>1
  <2>6. CASE n = 2
    <3>1. buffer'[1] = buffer[1] /\ buffer'[2] = buffer[2] /\ buffer'[3] = NextByte
      BY <1>5, <2>6
    <3>2. AreBytesOfP(buffer', sample.P)
      BY <1>4, <2>3, <2>6, <3>1 DEF AreBytesOfP
    <3> QED
      BY <1>5, <2>2, <2>6, <3>2
  <2>7. CASE n \in {3, 4}
    <3>1. buffer'[1] = buffer[1] /\ buffer'[2] = buffer[2] /\ buffer'[3] = buffer[3]
      BY <1>5, <2>7
    <3>2. \E a \in seen' : AreBytesOfP(buffer', a.P)
      BY <2>2, <2>3, <2>7, <3>1 DEF AreBytesOfP
    <3>3. CASE n = 3
      BY <1>4, <1>5, <2>2, <3>2, <3>3
    <3>4. CASE n = 4
      <4>1. buffer'[4] = buffer[4] /\ buffer'[5] = NextByte
        BY <1>5, <3>4
      <4>2. AreBytesOfT(buffer', sample.T)
        BY <1>4, <2>3, <3>4, <4>1 DEF AreBytesOfT
      <4> QED
        BY <1>5, <2>2, <3>2, <3>4, <4>2
    <3> QED
      BY <2>7, <3>3, <3>4
  <2> QED
    BY <2>4, <2>5, <2>6, <2>7
<1> QED
  BY <1>6, <1>7, <1>8, <1>9, TypedNext DEF IInv

(* A call that ends takes its history with it.                             *)
LEMMA ReturnPreserves ==
  ASSUME IInv, NEW s \in Status, reading # "none", Return(s), UNCHANGED <<setup, sample>>,
         handle' \in [P : Int24, T : Int16],
         out' \in [reader : {"none", "Reg"}, data : Byte] \cup Outputs
  PROVE  IInv'
<1>1. /\ reading' = "none" /\ buffer' = <<>> /\ seen' = {} /\ steady' = FALSE
      /\ status' = s
      /\ UNCHANGED <<ctrl, pc, cfg, intact, configured, sample>>
  BY DEF Return, setup
<1>2. DriverTyped'
  BY <1>1, Typed DEF IInv, DriverTyped, Driver!NoConfig, Driver!Ctrl
<1>3. OwnTyped'
  <2>1. buffer' \in Seq(Byte) /\ Len(buffer') = 0
    BY <1>1, EmptySeq
  <2>2. steady' \in BOOLEAN
    BY <1>1, Zenon
  <2>3. sample' \in [P : Int24, T : Int16]
    BY <1>1, Typed DEF IInv, OwnTyped
  <2> QED
    BY <1>1, <2>1, <2>2, <2>3 DEF OwnTyped
<1>4. SeesItself' /\ WholeSoFar'
  BY <1>1 DEF SeesItself, WholeSoFar
<1> QED
  BY <1>2, <1>3, <1>4, TypedNext DEF IInv

(* What a reader delivers when it returns, and where the handle is from.   *)
LEMMA ReaderDelivers ==
  ASSUME IInv, ReaderReturns
  PROVE  /\ reading \in Reader /\ status' = "OK"
         /\ handle' \in [P : Int24, T : Int16]
         /\ out' = [reader |-> reading, data |-> Output(reading, handle')]
         /\ out' \in Outputs
         /\ steady => handle' \in Held
<1>1. /\ reading # "none" /\ Len(buffer) = 5 /\ handle' = [P |-> P_OUT, T |-> T_OUT]
      /\ status' = "OK"
  BY DEF ReaderReturns, Return
<1>2. reading \in Reader /\ buffer \in Seq(Byte) /\ seen \subseteq [P : Int24, T : Int16]
  BY <1>1, Typed DEF IInv, OwnTyped
<1>3. P_OUT \in Int24 /\ T_OUT \in Int16
  BY <1>1, <1>2, BurstDecodes
<1>4. handle' \in [P : Int24, T : Int16]
  BY <1>1, <1>3
<1>5. out' = [reader |-> reading, data |-> Output(reading, handle')]
  BY <1>1, <1>2 DEF ReaderReturns, Output, Reader
<1>6. out' \in Outputs
  BY <1>2, <1>4, <1>5 DEF Reader, Output, Outputs
<1>7. ASSUME steady
      PROVE  handle' \in Held
  <2>1. PICK a \in seen, b \in seen : AreBytesOfP(buffer, a.P) /\ AreBytesOfT(buffer, b.T)
    BY <1>1, <1>7 DEF IInv, WholeSoFar
  <2>2. P_OUT = a.P /\ T_OUT = b.T
    BY <1>1, <1>2, <2>1, BurstDecodes
  <2>3. handle' = [P |-> a.P, T |-> b.T]
    BY <1>1, <2>2
  <2> QED
    BY <2>1, <2>3 DEF Held
<1> QED
  BY <1>1, <1>2, <1>4, <1>5, <1>6, <1>7

(* The part samples in the middle of the burst.  What is half read stays.  *)
LEMMA NewSamplePreserves ==
  ASSUME IInv, NEW measured \in Samples, NewSample(measured)
  PROVE  IInv'
<1>1. /\ sample' = [v \in {"P", "T"} |->
                      IF BDU /\ v \in HalfRead THEN sample[v] ELSE measured[v]]
      /\ seen' = IF reading = "none" THEN {} ELSE seen \cup {sample'}
      /\ UNCHANGED <<ctrl, pc, cfg, intact, configured, out, status,
                     handle, reading, buffer, steady>>
  BY DEF NewSample, setup
<1>2. /\ sample \in [P : Int24, T : Int16] /\ measured \in [P : Int24, T : Int16]
      /\ seen \subseteq [P : Int24, T : Int16]
  BY SamplesAssumption, Typed DEF IInv, OwnTyped
<1>3. sample' \in [P : Int24, T : Int16]
  BY <1>1, <1>2
<1>4. DriverTyped'
  BY <1>1, Typed DEF IInv, DriverTyped, Driver!NoConfig, Driver!Ctrl
<1>5. OwnTyped'
  BY <1>1, <1>2, <1>3, Typed DEF IInv, OwnTyped
<1>6. SeesItself'
  BY <1>1 DEF IInv, SeesItself, BDU
<1>7. WholeSoFar'
  <2> SUFFICES ASSUME steady
               PROVE  /\ Len(buffer) \in {1, 2} => buffer[1] = LowByte(sample'.P)
                      /\ Len(buffer) = 2 => buffer[2] = HighByte(sample'.P)
                      /\ Len(buffer) \in {3, 4, 5} => \E a \in seen' : AreBytesOfP(buffer, a.P)
                      /\ Len(buffer) = 4 => buffer[4] = LowByte(sample'.T)
                      /\ Len(buffer) = 5 => \E b \in seen' : AreBytesOfT(buffer, b.T)
    BY <1>1 DEF WholeSoFar
  <2>1. reading # "none" /\ BDU
    BY DEF IInv, SeesItself
  <2>2. seen \subseteq seen'
    BY <1>1, <2>1
  <2>3. Len(buffer) \in {1, 2} => sample'.P = sample.P
    BY <1>1, <2>1 DEF HalfRead
  <2>4. Len(buffer) = 4 => sample'.T = sample.T
    BY <1>1, <2>1 DEF HalfRead
  <2> QED
    BY <2>2, <2>3, <2>4 DEF IInv, WholeSoFar
<1> QED
  BY <1>4, <1>5, <1>6, <1>7, TypedNext DEF IInv

LEMMA PowerCyclePreserves ==
  ASSUME IInv, PowerCycle
  PROVE  IInv'
<1>1. /\ Driver!PowerCycle /\ steady' = FALSE /\ pc' = pc
      /\ UNCHANGED <<sample, handle, reading, buffer, seen>>
  BY DEF PowerCycle, Driver!PowerCycle
<1>2. DriverTyped'
  BY <1>1, Typed, PowerCycleTyped DEF IInv
<1>3. OwnTyped'
  <2>1. steady' \in BOOLEAN
    BY <1>1, Zenon
  <2> QED
    BY <1>1, <2>1, Typed DEF IInv, OwnTyped
<1>4. SeesItself' /\ WholeSoFar'
  BY <1>1 DEF IInv, SeesItself, WholeSoFar
<1> QED
  BY <1>2, <1>3, <1>4, TypedNext DEF IInv

LEMMA StepPreserves ==
  ASSUME IInv, [Next]_vars
  PROVE  IInv'
<1>1. CASE reading = "none" /\ (Driver!Call \/ Driver!InitStep) /\ UNCHANGED own
  BY <1>1, Typed, CallTyped, InitStepTyped, BetweenBursts DEF IInv
<1>2. CASE ReaderReturns
  <2>1. reading # "none" /\ Return("OK") /\ UNCHANGED <<setup, sample>>
    BY <1>2 DEF ReaderReturns
  <2> QED
    BY <1>2, <2>1, ReaderDelivers, ReturnPreserves DEF Status
<1>3. ASSUME NEW e \in TransportError, ReaderFails(e)
      PROVE  IInv'
  <2>1. /\ reading # "none" /\ Return(e) /\ UNCHANGED <<setup, sample>>
        /\ handle' = handle /\ out' = out
    BY <1>3 DEF ReaderFails
  <2>2. /\ handle \in [P : Int24, T : Int16]
        /\ out \in [reader : {"none", "Reg"}, data : Byte] \cup Outputs
    BY Typed DEF IInv, DriverTyped, OwnTyped
  <2>3. e \in Status
    BY DEF TransportError, Status
  <2> QED
    BY <2>1, <2>2, <2>3, ReturnPreserves
<1>4. CASE UNCHANGED vars
  <2>1. DriverTyped'
    BY <1>4, Typed DEF IInv, DriverTyped, vars, setup, Driver!NoConfig, Driver!Ctrl
  <2>2. OwnTyped'
    BY <1>4, Typed DEF IInv, OwnTyped, vars, setup, own
  <2>3. SeesItself' /\ WholeSoFar'
    BY <1>4 DEF IInv, SeesItself, WholeSoFar, BDU, vars, setup, own
  <2> QED
    BY <2>1, <2>2, <2>3, TypedNext DEF IInv
<1> QED
  BY <1>1, <1>2, <1>3, <1>4, CallReaderPreserves, ReadBytePreserves, NewSamplePreserves,
     PowerCyclePreserves DEF Next

LEMMA Invariance == Spec => []IInv
BY InitEstablishes, StepPreserves, PTL DEF Spec

(* P_OUT is a sign-extended 24-bit and T_OUT a 16-bit count whatever the   *)
(* part serves, and no burst is under way during LPS22HB_Init.             *)
THEOREM TypeCorrect == Spec => []TypeOK
BY Invariance, PTL DEF IInv

(* Whichever reader ran, LPS22HB_ReadRawOutput filled both P_OUT and T_OUT *)
(* from its own burst, each with a value the part held during that burst,  *)
(* wherever in the burst the part sampled; with BDU set all along.         *)
THEOREM HandleIsFromBurst == Spec => HandleIsThisBurst
<1>1. ASSUME IInv, [Next]_vars
      PROVE  [ReaderReturns /\ steady => handle' \in Held]_vars
  BY <1>1, ReaderDelivers
<1> QED
  BY <1>1, Invariance, PTL DEF Spec, HandleIsThisBurst

-----------------------------------------------------------------------------
(* The refinement.                                                         *)

LEMMA StepImplements ==
  ASSUME IInv, [Next]_vars
  PROVE  [Contract!Next]_(Contract!vars)
<1>1. ASSUME out' = out
      PROVE  Contract!Next
  BY <1>1 DEF Contract!Next, Contract!Background
<1>2. ASSUME Driver!Call \/ Driver!InitStep
      PROVE  Contract!Next
  <2>1. CASE status' = "OK" /\ out'.reader = "Reg"
    BY <2>1 DEF Contract!Next, Contract!OtherRead, Reader
  <2>2. out' = out \/ (status' = "OK" /\ out'.reader = "Reg")
    BY <1>2 DEF Driver!Call, Driver!InitStep, Driver!CallInit, Driver!ReadReg,
         Driver!WriteReg, Driver!CheckWhoAmI, Driver!InitGoesOn, Driver!InitReturns,
         Driver!InitStops, Driver!InitWrite
  <2> QED
    BY <1>1, <2>1, <2>2
<1>3. CASE ReaderReturns
  <2>1. /\ reading \in Reader /\ status' = "OK"
        /\ out' = [reader |-> reading, data |-> Output(reading, handle')]
        /\ steady => handle' \in Held
    BY <1>3, ReaderDelivers
  <2>2. reading \in (IF steady THEN Reader ELSE {}) =>
          \E h \in Held : out'.data = Output(reading, h)
    BY <2>1
  <2>3. Contract!Read(reading)
    BY <2>1, <2>2 DEF Contract!Read
  <2> QED
    BY <2>1, <2>3 DEF Contract!Next
<1>4. CASE PowerCycle
  BY <1>1, <1>4 DEF PowerCycle, Driver!PowerCycle
<1>5. CASE UNCHANGED vars
  BY <1>1, <1>5 DEF vars
<1> QED
  BY <1>1, <1>2, <1>3, <1>4, <1>5 DEF Next, CallReader, ReadByte, ReaderFails, NewSample

(* The driver with its part implements the reading contract: with BDU set  *)
(* an OK reader delivers what the part held during the call, whole and     *)
(* signed, wherever in the burst the part samples; no other call, a failed *)
(* reader included, touches what was delivered before.                     *)
THEOREM Implements == Spec => ImplementsContract
<1>1. Init => Contract!Init
  BY DEF Init, Driver!Init, Contract!Init, Reader
<1>2. IInv /\ [Next]_vars => [Contract!Next]_(Contract!vars)
  BY StepImplements
<1> QED
  BY <1>1, <1>2, Invariance, PTL DEF Spec, ImplementsContract, Contract!Spec
=============================================================================
