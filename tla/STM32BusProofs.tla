-------------------------- MODULE STM32BusProofs --------------------------
(***************************************************************************)
(* Theorems about the two STM32 register-bus ports: for any number of      *)
(* parts on the bus, any registers and any requests, what the runs of      *)
(* MCSTM32SPI and MCSTM32I2C check with two.                               *)
(*                                                                         *)
(* The SPI port is the module extended; the I2C port is instantiated over  *)
(* the same parts, registers and requests, and its names begin with `I2C'. *)
(***************************************************************************)
EXTENDS STM32SPI, TLAPS

CONSTANT device_addr      \* see STM32I2C, as for the variables
VARIABLES holding, done

I2C == INSTANCE STM32I2C


-----------------------------------------------------------------------------
(* The SPI port.  The inductive invariant: beside who is selected, how     *)
(* much of the transaction that part has heard, that only a failure or the *)
(* data phase leads to the release, and what the call in progress has done *)
(* since it began.                                                         *)

Progress ==
  /\ at \in {"idle", "address", "data"} => hal = "HAL_OK"
  /\ at = "address" => heard[call.dev] = Silent
  /\ at = "data" => heard[call.dev] = Address

Untouched == regs = before.regs /\ buf = before.buf

ReadDone ==
  /\ regs = before.regs
  /\ buf = Burst(before.regs[call.dev], call.reg, call.len, TRUE)

WriteDone ==
  /\ regs = [before.regs EXCEPT ![call.dev][call.reg] = call.byte]
  /\ buf = before.buf

(* An access that failed has been made or not; a read never changes a part *)
(* and a write never the buffer.                                           *)
Accessed ==
  /\ at # "release" => Untouched
  /\ at = "release" /\ call.kind = "read" =>
       IF hal = "HAL_OK" THEN ReadDone ELSE regs = before.regs
  /\ at = "release" /\ call.kind = "write" =>
       WriteDone \/ (hal # "HAL_OK" /\ Untouched)

IInv == TypeOK /\ OneSelected /\ Progress /\ Accessed

LEMMA Requests ==
  ASSUME NEW req \in Request
  PROVE  /\ req.dev \in Device /\ req.kind \in {"read", "write"}
         /\ req.reg \in Register /\ req.byte \in Byte /\ req.len \in Nat
         /\ req # NoCall
BY RequestAssumption DEF NoCall

(* A call in progress is a request, and its address bytes tell the hooks   *)
(* and the registers apart.                                                *)
LEMMA Addresses ==
  ASSUME TypeOK, call # NoCall
  PROVE  /\ call \in Request /\ call.dev \in Device
         /\ call.kind = "write" => Address = call.reg
         /\ call.kind = "read" => Address - 128 = call.reg
         /\ Address \in 0..255
<1>1. call \in Request
  BY DEF TypeOK
<1>2. call.reg \in Register /\ call.kind \in {"read", "write"} /\ call.dev \in Device
  BY <1>1, Requests
<1>3. call.reg \in Int /\ 0 <= call.reg /\ call.reg <= 127
  <2>1. call.reg \in 0..127
    BY <1>2, RegisterAssumption, Zenon
  <2> QED
    BY <2>1
<1>4. call.reg % 128 = call.reg
  BY <1>3
<1> QED
  BY <1>1, <1>2, <1>3, <1>4 DEF Address, SpiReadAddress, SpiWriteAddress

LEMMA InitEstablishes == Init => IInv
<1> SUFFICES ASSUME Init PROVE IInv
  OBVIOUS
<1>1. TypeOK
  BY PowerAssumption DEF Init, TypeOK, HalStatus, Silent
<1>2. OneSelected /\ Progress /\ Accessed
  BY DEF Init, OneSelected, Progress, Accessed, Untouched
<1> QED
  BY <1>1, <1>2 DEF IInv

LEMMA SelectPreserves ==
  ASSUME IInv, NEW req \in Request, Select(req)
  PROVE  IInv'
<1>1. call = NoCall /\ low = {} /\ req # NoCall /\ req.dev \in Device
  BY Requests DEF IInv, TypeOK, OneSelected, Select
<1>2. TypeOK'
  BY <1>1 DEF IInv, TypeOK, Select
<1>3. OneSelected'
  BY <1>1 DEF IInv, OneSelected, Select
<1>4. Progress'
  BY <1>1 DEF IInv, OneSelected, Progress, Select
<1>5. Accessed'
  BY DEF IInv, Accessed, Untouched, Select
<1> QED
  BY <1>2, <1>3, <1>4, <1>5 DEF IInv

LEMMA SendAddressPreserves ==
  ASSUME IInv, NEW h \in HalStatus, SendAddress(h)
  PROVE  IInv'
<1>1. call # NoCall /\ call.dev \in Device /\ low = {call.dev}
  BY Addresses DEF IInv, TypeOK, OneSelected, SendAddress
<1>2. heard' = heard \/ heard' = Heard
  BY DEF SendAddress
<1>3. h = "HAL_OK" => heard' = Heard
  BY DEF SendAddress
<1>4. heard \in [Device -> 0..Silent] /\ Address \in 0..255
  BY <1>1, Addresses DEF IInv, TypeOK
<1>5. /\ Heard \in [Device -> 0..Silent]
      /\ Heard[call.dev] = Address
      /\ \A d \in Device \ low : Heard[d] = heard[d]
  BY <1>1, <1>4 DEF Heard, Silent
<1>6. TypeOK'
  BY <1>1, <1>2, <1>4, <1>5 DEF IInv, TypeOK, SendAddress
<1>7. OneSelected'
  BY <1>1, <1>2, <1>5 DEF IInv, OneSelected, SendAddress
<1>8. Address' = Address
  BY DEF Address, SendAddress
<1>9. Progress'
  BY <1>3, <1>5, <1>8 DEF Progress, SendAddress
<1>10. Accessed'
  BY DEF IInv, Accessed, Untouched, SendAddress
<1> QED
  BY <1>6, <1>7, <1>9, <1>10 DEF IInv

(* What the parts make of the data phase: only the one that is selected    *)
(* stores or serves, and exactly the register asked for.                   *)
LEMMA DataPhase ==
  ASSUME IInv, at = "data"
  PROVE  /\ call # NoCall /\ call.dev \in Device /\ call \in Request
         /\ call.kind = "write" =>
              Stored = [regs EXCEPT ![call.dev][call.reg] = call.byte]
         /\ call.kind = "read" =>
              Served = {Burst(regs[call.dev], call.reg, call.len, TRUE)}
<1>1. /\ call # NoCall /\ call.dev \in Device /\ call \in Request
      /\ low = {call.dev} /\ heard[call.dev] = Address
  BY Addresses DEF IInv, TypeOK, OneSelected, Progress
<1>2. call.reg \in Register
  BY <1>1, Requests
<1>3. ASSUME call.kind = "write"
      PROVE  Stored = [regs EXCEPT ![call.dev][call.reg] = call.byte]
  <2>1. heard[call.dev] = call.reg
    BY <1>1, <1>3, Addresses DEF IInv
  <2>2. regs \in [Device -> [Register -> Byte]]
    BY DEF IInv, TypeOK
  <2> QED
    BY <1>1, <1>2, <2>1, <2>2 DEF Stored
<1>4. ASSUME call.kind = "read"
      PROVE  Served = {Burst(regs[call.dev], call.reg, call.len, TRUE)}
  <2>1. heard[call.dev] - 128 = call.reg
    BY <1>1, <1>4, Addresses DEF IInv
  <2>2. {e \in low : heard[e] - 128 \in Register} = {call.dev}
    BY <1>1, <1>2, <2>1
  <2>3. Served = {Burst(regs[d], heard[d] - 128, call.len, TRUE) : d \in {call.dev}}
    BY <2>2, Zenon DEF Served
  <2> HIDE DEF Served
  <2> QED
    BY <2>1, <2>3
<1> QED
  BY <1>1, <1>3, <1>4

LEMMA TransferPreserves ==
  ASSUME IInv, NEW h \in HalStatus, Transfer(h)
  PROVE  IInv'
<1>1. call # NoCall /\ call.dev \in Device /\ call \in Request
  BY DataPhase DEF Transfer
<1>2. regs' \in [Device -> [Register -> Byte]]
  <2>1. call.byte \in Byte
    BY <1>1, Requests
  <2>2. regs \in [Device -> [Register -> Byte]]
    BY DEF IInv, TypeOK
  <2>3. Stored \in [Device -> [Register -> Byte]]
    BY <2>1, <2>2 DEF Stored
  <2> QED
    BY <2>2, <2>3 DEF Transfer
<1>3. TypeOK'
  BY <1>1, <1>2 DEF IInv, TypeOK, Transfer
<1>4. OneSelected' /\ Progress'
  BY DEF IInv, OneSelected, Progress, Transfer
<1>5. Accessed'
  <2>1. Untouched /\ UNCHANGED <<call, before>> /\ at' = "release" /\ hal' = h
    BY DEF IInv, Accessed, Transfer
  <2>2. CASE call.kind = "write"
    <3>1. Stored = [before.regs EXCEPT ![call.dev][call.reg] = call.byte]
      BY <2>1, <2>2, DataPhase DEF Transfer, Untouched
    <3>2. buf' = buf /\ (regs' = Stored \/ (h # "HAL_OK" /\ regs' = regs))
      BY <2>2 DEF Transfer
    <3> QED
      BY <2>1, <2>2, <3>1, <3>2 DEF Accessed, WriteDone, Untouched
  <2>3. CASE call.kind = "read"
    <3>1. Served = {Burst(before.regs[call.dev], call.reg, call.len, TRUE)}
      BY <2>1, <2>3, DataPhase DEF Transfer, Untouched
    <3>2. regs' = regs /\ (h = "HAL_OK" => buf' \in Served)
      BY <2>3 DEF Transfer
    <3> QED
      BY <2>1, <2>3, <3>1, <3>2 DEF Accessed, ReadDone, Untouched
  <2> QED
    BY <1>1, <2>2, <2>3, Requests
<1> QED
  BY <1>3, <1>4, <1>5 DEF IInv

LEMMA ReleasePreserves ==
  ASSUME IInv, Release
  PROVE  IInv'
<1>1. call # NoCall /\ low = {call.dev}
  BY DEF IInv, TypeOK, OneSelected, Release
<1>2. low' = {}
  BY <1>1 DEF Release
<1>3. heard' = [d \in Device |-> Silent]
  BY <1>2 DEF Release
<1>4. status' \in {"OK"} \cup TransportError
  BY DEF Release, CollapseStatus, TransportError
<1>5. TypeOK'
  BY <1>2, <1>3, <1>4 DEF IInv, TypeOK, Release, HalStatus, Silent
<1>6. OneSelected' /\ Progress' /\ Accessed'
  BY <1>2, <1>3 DEF OneSelected, Progress, Accessed, Untouched, Release
<1> QED
  BY <1>5, <1>6 DEF IInv

LEMMA StepPreserves ==
  ASSUME IInv, [Next]_vars
  PROVE  IInv'
<1>1. CASE UNCHANGED vars
  <2>1. Address' = Address
    BY <1>1 DEF vars, Address
  <2> QED
    BY <1>1, <2>1
       DEF vars, IInv, TypeOK, OneSelected, Progress, Accessed, Untouched, ReadDone, WriteDone
<1> QED
  BY <1>1, SelectPreserves, SendAddressPreserves, TransferPreserves, ReleasePreserves
     DEF Next, PortStep

LEMMA Invariance == Spec => []IInv
BY InitEstablishes, StepPreserves, PTL DEF Spec

(* The port's control state agrees with the call in progress, and the      *)
(* hooks return what the transport contract names.                         *)
THEOREM TypeCorrect == Spec => []TypeOK
BY Invariance, PTL DEF IInv

(* Whichever phase fails, chip select is low at the part that is called    *)
(* and nowhere else, and no part is left in the middle of a transaction.   *)
THEOREM NeverLeftSelected == Spec => []OneSelected
BY Invariance, PTL DEF IInv

-----------------------------------------------------------------------------
(* The refinement.                                                         *)

LEMMA StepImplements ==
  ASSUME IInv, [Next]_vars
  PROVE  [Contract!Next]_(Contract!vars)
<1> USE DEF Contract!vars
<1>1. ASSUME NEW req \in Request, Select(req)
      PROVE  Contract!Call(req)
  BY <1>1 DEF IInv, TypeOK, Select, Contract!Call, Contract!NoCall, NoCall
<1>2. ASSUME NEW h \in HalStatus, SendAddress(h) \/ Transfer(h)
      PROVE  UNCHANGED Contract!vars
  BY <1>2 DEF SendAddress, Transfer
<1>3. CASE Release
  <2>1. /\ call # NoCall /\ call' = NoCall /\ call.kind \in {"read", "write"}
        /\ before' = [regs |-> regs, buf |-> buf] /\ at = "release"
    BY <1>3, Addresses, Requests DEF Release, IInv, TypeOK
  <2>2. /\ status' \in {"OK"} \cup Contract!TransportError
        /\ status' = "OK" <=> hal = "HAL_OK"
    BY <1>3 DEF Release, CollapseStatus, Contract!TransportError
  <2>3. Contract!Return(status')
    BY <2>1 DEF Contract!Return, Contract!NoCall, NoCall
  <2>4. CASE call.kind = "read"
    <3>1. regs = before.regs /\ (hal = "HAL_OK" => ReadDone)
      BY <2>1, <2>4 DEF IInv, Accessed, ReadDone
    <3>2. hal = "HAL_OK" =>
            buf = Contract!Burst(before.regs[call.dev], call.reg, call.len, TRUE)
      BY <3>1 DEF ReadDone, Burst, Contract!Burst
    <3>3. Contract!ReadReturns(status')
      BY <2>1, <2>2, <2>3, <2>4, <3>1, <3>2 DEF Contract!ReadReturns
    <3> QED
      BY <2>2, <3>3 DEF Contract!Next
  <2>5. CASE call.kind = "write"
    <3>1. WriteDone \/ (hal # "HAL_OK" /\ Untouched)
      BY <2>1, <2>5 DEF IInv, Accessed
    <3>2. Contract!WriteReturns(status')
      BY <2>1, <2>2, <2>3, <2>5, <3>1 DEF Contract!WriteReturns, WriteDone, Untouched
    <3> QED
      BY <2>2, <3>2 DEF Contract!Next
  <2> QED
    BY <2>1, <2>4, <2>5
<1>4. CASE UNCHANGED vars
  BY <1>4 DEF vars
<1> QED
  BY <1>1, <1>2, <1>3, <1>4 DEF Next, PortStep, Contract!Next

(* The port implements the transport contract: an OK call has read or      *)
(* written the register asked for in the part asked for, and no part but   *)
(* that one ever notices a call.                                           *)
THEOREM Implements == Spec => ImplementsContract
<1>1. Init => Contract!Init
  BY DEF Init, Contract!Init, Contract!NoCall, NoCall
<1>2. IInv /\ [Next]_vars => [Contract!Next]_(Contract!vars)
  BY StepImplements
<1> QED
  BY <1>1, <1>2, Invariance, PTL DEF Spec, ImplementsContract, Contract!Spec

-----------------------------------------------------------------------------
(* The I2C port, its parts each at an address of its own.  The invariant   *)
(* is TypeOK and what the call in progress has done so far: a transfer may *)
(* break off and leave its write or some of its bytes behind.              *)

I2CAccessed ==
  /\ call = NoCall => Untouched
  /\ call.kind = "read" =>
       /\ regs = before.regs
       /\ done => ReadDone
  /\ call.kind = "write" => WriteDone \/ (~done /\ Untouched)

I2CInv == I2C!TypeOK /\ I2CAccessed

LEMMA I2CSets ==
  /\ I2C!Byte = Byte /\ I2C!TransportError = TransportError
  /\ I2C!NoCall = NoCall /\ I2C!HalStatus = HalStatus
BY DEF I2C!Byte, Byte, I2C!TransportError, TransportError, I2C!NoCall, NoCall,
       I2C!HalStatus, HalStatus

(* A call in progress is a request, and only the part it names answers.    *)
LEMMA I2CAnswers ==
  ASSUME I2C!AddressAssumption, I2C!TypeOK, call # NoCall
  PROVE  /\ call \in Request /\ call.dev \in Device
         /\ call.kind \in {"read", "write"}
         /\ call.reg \in Register /\ call.byte \in Byte
         /\ I2C!Answering = {call.dev}
<1>1. call \in Request
  BY I2CSets DEF I2C!TypeOK
<1>2. /\ call.dev \in Device /\ call.kind \in {"read", "write"}
      /\ call.reg \in Register /\ call.byte \in Byte
  BY <1>1, Requests
<1>3. I2C!Answering = {call.dev}
  BY <1>2 DEF I2C!Answering, I2C!AddressAssumption
<1> QED
  BY <1>1, <1>2, <1>3

(* What one transfer does: the access of the call to the part called, or   *)
(* to the caller's buffer, and nothing else.                               *)
LEMMA I2CTransfers ==
  ASSUME I2C!AddressAssumption, I2C!TypeOK, NEW ok \in BOOLEAN, I2C!Transfer(ok)
  PROVE  /\ call # NoCall /\ done = FALSE /\ done' = ok
         /\ UNCHANGED <<holding, call, status, before>>
         /\ call.kind = "write" =>
              /\ regs' = [regs EXCEPT ![call.dev][call.reg] = call.byte]
              /\ buf' = buf
         /\ call.kind = "read" =>
              /\ regs' = regs
              /\ buf' = Burst(regs[call.dev], call.reg, call.len, TRUE)
<1>1. call # NoCall
  BY I2CSets DEF I2C!Transfer
<1>2. done = FALSE /\ done' = ok /\ UNCHANGED <<holding, call, status, before>>
  <2>1. ~done /\ done' = ok /\ done \in BOOLEAN
    BY Zenon DEF I2C!Transfer, I2C!TypeOK
  <2>2. UNCHANGED <<holding, call, status, before>>
    BY DEF I2C!Transfer
  <2> QED
    BY <2>1, <2>2, Zenon
<1>3. /\ call.dev \in Device /\ call.reg \in Register
      /\ I2C!Answering = {call.dev}
  BY <1>1, I2CAnswers
<1>4. ASSUME call.kind = "write"
      PROVE  regs' = [regs EXCEPT ![call.dev][call.reg] = call.byte] /\ buf' = buf
  <2>1. /\ regs' = [d \in Device |-> IF d \in {call.dev}
                                     THEN [regs[d] EXCEPT ![call.reg] = call.byte]
                                     ELSE regs[d]]
        /\ buf' = buf
    BY <1>3, <1>4 DEF I2C!Transfer
  <2>2. regs \in [Device -> [Register -> Byte]]
    BY I2CSets DEF I2C!TypeOK
  <2> QED
    BY <1>3, <2>1, <2>2
<1>5. ASSUME call.kind = "read"
      PROVE  regs' = regs /\ buf' = Burst(regs[call.dev], call.reg, call.len, TRUE)
  <2>1. regs' = regs
    BY <1>5 DEF I2C!Transfer
  <2>2. \E d \in I2C!Answering : buf' = I2C!Burst(regs[d], call.reg, call.len, TRUE)
    BY <1>5 DEF I2C!Transfer
  <2>3. buf' = I2C!Burst(regs[call.dev], call.reg, call.len, TRUE)
    BY <1>3, <2>2
  <2> QED
    BY <2>1, <2>3 DEF I2C!Burst, Burst
<1> QED
  BY <1>1, <1>2, <1>4, <1>5

LEMMA I2CInitEstablishes == I2C!Init => I2CInv
<1> SUFFICES ASSUME I2C!Init PROVE I2CInv
  OBVIOUS
<1>1. regs \in [Device -> [Register -> Byte]] /\ before.regs = regs /\ before.buf = buf
  BY PowerAssumption DEF I2C!Init
<1>2. I2C!TypeOK
  BY <1>1, I2CSets DEF I2C!Init, I2C!TypeOK
<1>3. I2CAccessed
  BY <1>1, I2CSets DEF I2C!Init, I2CAccessed, Untouched, NoCall
<1> QED
  BY <1>2, <1>3 DEF I2CInv

LEMMA I2CTypesStay ==
  ASSUME I2C!AddressAssumption, I2C!TypeOK, [I2C!Next]_I2C!vars
  PROVE  I2C!TypeOK'
<1> USE I2CSets
<1>1. ASSUME NEW req \in Request, I2C!Enter(req)
      PROVE  I2C!TypeOK'
  BY <1>1, Requests DEF I2C!Enter, I2C!TypeOK
<1>2. ASSUME NEW ok \in BOOLEAN, I2C!Transfer(ok)
      PROVE  I2C!TypeOK'
  <2>1. /\ call # NoCall /\ call' = call /\ call \in Request
        /\ holding' = holding /\ status' = status /\ before' = before
    BY <1>2, I2CTransfers, I2CAnswers
  <2>2. regs' \in [Device -> [Register -> Byte]]
    <3>1. {regs, before.regs} \subseteq [Device -> [Register -> Byte]]
      BY DEF I2C!TypeOK
    <3>2. call.kind \in {"read", "write"} /\ call.byte \in Byte
      BY <2>1, I2CAnswers
    <3>3. \/ regs' = regs
          \/ regs' = [regs EXCEPT ![call.dev][call.reg] = call.byte]
      BY <1>2, <3>2, I2CTransfers
    <3> QED
      BY <3>1, <3>2, <3>3
  <2>3. done' \in BOOLEAN
    BY <1>2, I2CTransfers, Zenon
  <2> QED
    BY <2>1, <2>2, <2>3 DEF I2C!TypeOK
<1>3. ASSUME NEW h \in HalStatus, I2C!HalReturns(h)
      PROVE  I2C!TypeOK'
  <2>1. I2C!CollapseStatus(h) \in {"OK"} \cup TransportError
    BY DEF I2C!CollapseStatus, TransportError
  <2> QED
    BY <1>3, <2>1 DEF I2C!HalReturns, I2C!TypeOK
<1>4. ASSUME NEW d \in Device, I2C!Holds(d) \/ I2C!LetsGo(d)
      PROVE  I2C!TypeOK'
  BY <1>4 DEF I2C!Holds, I2C!LetsGo, I2C!TypeOK
<1>5. CASE UNCHANGED I2C!vars
  BY <1>5 DEF I2C!vars, I2C!TypeOK
<1> QED
  BY <1>1, <1>2, <1>3, <1>4, <1>5 DEF I2C!Next, I2C!HalEnds

LEMMA I2CAccessStays ==
  ASSUME I2CAccessed, UNCHANGED <<regs, call, done, buf, before>>
  PROVE  I2CAccessed'
<1>1. ReadDone' = ReadDone /\ WriteDone' = WriteDone /\ Untouched' = Untouched
  BY DEF ReadDone, WriteDone, Untouched
<1> QED
  BY <1>1, Zenon DEF I2CAccessed

LEMMA I2CStepPreserves ==
  ASSUME I2C!AddressAssumption, I2CInv, [I2C!Next]_I2C!vars
  PROVE  I2CInv'
<1> USE I2CSets DEF I2CInv
<1>1. I2C!TypeOK'
  BY I2CTypesStay
<1>2. ASSUME NEW req \in Request, I2C!Enter(req)
      PROVE  I2CAccessed'
  <2>1. /\ call = NoCall /\ call' = req /\ UNCHANGED <<regs, done, buf, before>>
        /\ ~done
    BY <1>2 DEF I2C!Enter, I2C!TypeOK
  <2> QED
    BY <2>1, Requests DEF I2CAccessed, Untouched
<1>3. ASSUME NEW ok \in BOOLEAN, I2C!Transfer(ok)
      PROVE  I2CAccessed'
  <2>1. /\ call # NoCall /\ UNCHANGED <<call, before>> /\ ~done /\ call.kind \in {"read", "write"}
        /\ before.regs \in [Device -> [Register -> Byte]]
    BY <1>3, I2CTransfers, I2CAnswers DEF I2C!TypeOK
  <2>2. CASE call.kind = "read"
    BY <1>3, <2>1, <2>2, I2CTransfers DEF I2CAccessed, ReadDone
  <2>3. CASE call.kind = "write"
    <3>1. /\ regs' = [regs EXCEPT ![call.dev][call.reg] = call.byte]
          /\ buf' = buf /\ buf = before.buf
      BY <1>3, <2>3, I2CTransfers DEF I2CAccessed, WriteDone, Untouched
    <3>2. \/ regs = before.regs
          \/ regs = [before.regs EXCEPT ![call.dev][call.reg] = call.byte]
      BY <2>3 DEF I2CAccessed, WriteDone, Untouched
    <3>3. regs' = [before.regs EXCEPT ![call.dev][call.reg] = call.byte]
      BY <2>1, <3>1, <3>2
    <3> QED
      BY <2>1, <2>3, <3>1, <3>3 DEF I2CAccessed, WriteDone
  <2> QED
    BY <2>1, <2>2, <2>3
<1>4. ASSUME NEW h \in HalStatus, I2C!HalReturns(h)
      PROVE  I2CAccessed'
  <2>1. call' = NoCall /\ before'.regs = regs' /\ before'.buf = buf'
    BY <1>4 DEF I2C!HalReturns
  <2> QED
    BY <2>1 DEF I2CAccessed, Untouched, NoCall
<1>5. ASSUME NEW d \in Device, I2C!Holds(d) \/ I2C!LetsGo(d)
      PROVE  I2CAccessed'
  <2>1. UNCHANGED <<regs, call, done, buf, before>>
    BY <1>5 DEF I2C!Holds, I2C!LetsGo
  <2> QED
    BY <2>1, I2CAccessStays
<1>6. CASE UNCHANGED I2C!vars
  <2>1. UNCHANGED <<regs, call, done, buf, before>>
    BY <1>6 DEF I2C!vars
  <2> QED
    BY <1>1, <2>1, I2CAccessStays
<1> QED
  BY <1>1, <1>2, <1>3, <1>4, <1>5, <1>6 DEF I2C!Next, I2C!HalEnds

LEMMA I2CInvariance ==
  ASSUME I2C!AddressAssumption
  PROVE  I2C!Spec => []I2CInv
BY I2CInitEstablishes, I2CStepPreserves, PTL DEF I2C!Spec

(* Only a call in progress has bytes acknowledged, registers only ever     *)
(* hold bytes, and STM32_I2C_Read and STM32_I2C_Write return what the      *)
(* transport contract names, however the parts stretch the clock.          *)
THEOREM I2CTypeCorrect ==
  ASSUME I2C!AddressAssumption
  PROVE  I2C!Spec => []I2C!TypeOK
BY I2CInvariance, PTL DEF I2CInv

LEMMA I2CStepImplements ==
  ASSUME I2C!AddressAssumption, I2CInv, [I2C!Next]_I2C!vars
  PROVE  [I2C!Contract!Next]_(I2C!Contract!vars)
<1> USE I2CSets DEF I2CInv, I2C!Contract!vars
<1>0. I2C!Contract!NoCall = NoCall /\ I2C!Contract!TransportError = TransportError
  BY DEF I2C!Contract!NoCall, NoCall, I2C!Contract!TransportError, TransportError
<1>1. ASSUME NEW req \in Request, I2C!Enter(req)
      PROVE  I2C!Contract!Call(req)
  BY <1>0, <1>1 DEF I2C!Enter, I2C!Contract!Call
<1>2. ASSUME NEW ok \in BOOLEAN, I2C!Transfer(ok)
      PROVE  UNCHANGED I2C!Contract!vars
  BY <1>2, I2CTransfers
<1>3. ASSUME NEW h \in HalStatus, I2C!HalReturns(h)
      PROVE  I2C!Contract!Next
  <2> DEFINE s == I2C!CollapseStatus(h)
  <2>1. /\ call # NoCall /\ call' = NoCall /\ status' = s
        /\ before' = [regs |-> regs, buf |-> buf]
    BY <1>3 DEF I2C!HalReturns
  <2>2. s \in {"OK"} \cup TransportError
    BY DEF I2C!CollapseStatus, TransportError
  <2>3. s = "OK" => done
    BY <1>3 DEF I2C!HalReturns, I2C!CollapseStatus, HalStatus
  <2>4. before'.regs = regs /\ before'.buf = buf /\ call.kind \in {"read", "write"}
    BY <2>1, I2CAnswers
  <2> HIDE DEF s
  <2>5. I2C!Contract!Return(s)
    BY <1>0, <2>1 DEF I2C!Contract!Return
  <2>6. CASE call.kind = "read"
    <3>1. regs = before.regs /\ (s = "OK" => ReadDone)
      BY <2>3, <2>6 DEF I2CAccessed
    <3>2. s = "OK" =>
            buf = I2C!Contract!Burst(before.regs[call.dev], call.reg, call.len, TRUE)
      BY <3>1 DEF ReadDone, Burst, I2C!Contract!Burst
    <3>3. I2C!Contract!ReadReturns(s)
      BY <2>4, <2>5, <2>6, <3>1, <3>2 DEF I2C!Contract!ReadReturns
    <3> QED
      BY <1>0, <2>2, <3>3 DEF I2C!Contract!Next
  <2>7. CASE call.kind = "write"
    <3>1. WriteDone \/ (s # "OK" /\ Untouched)
      BY <2>3, <2>7 DEF I2CAccessed
    <3>2. I2C!Contract!WriteReturns(s)
      BY <2>4, <2>5, <2>7, <3>1 DEF I2C!Contract!WriteReturns, WriteDone, Untouched
    <3> QED
      BY <1>0, <2>2, <3>2 DEF I2C!Contract!Next
  <2> QED
    BY <2>4, <2>6, <2>7
<1>4. ASSUME NEW d \in Device, I2C!Holds(d) \/ I2C!LetsGo(d)
      PROVE  UNCHANGED I2C!Contract!vars
  BY <1>4 DEF I2C!Holds, I2C!LetsGo
<1>5. CASE UNCHANGED I2C!vars
  BY <1>5 DEF I2C!vars
<1> QED
  BY <1>1, <1>2, <1>3, <1>4, <1>5 DEF I2C!Next, I2C!HalEnds, I2C!Contract!Next

(* The I2C port implements the transport contract too, with any number of  *)
(* parts that hold the clock whenever they like: an OK call has read or    *)
(* written the register asked for in the part asked for, a failed one has  *)
(* changed that register at most, and no other part notices.               *)
THEOREM I2CImplements ==
  ASSUME I2C!AddressAssumption
  PROVE  I2C!Spec => I2C!ImplementsContract
<1>1. I2C!Init => I2C!Contract!Init
  BY DEF I2C!Init, I2C!Contract!Init, I2C!Contract!NoCall, I2C!NoCall
<1>2. I2CInv /\ [I2C!Next]_I2C!vars => [I2C!Contract!Next]_(I2C!Contract!vars)
  BY I2CStepImplements
<1> QED
  BY <1>1, <1>2, I2CInvariance, PTL
     DEF I2C!Spec, I2C!ImplementsContract, I2C!Contract!Spec
=============================================================================
