--------------------------- MODULE STM32OneWire ---------------------------
(***************************************************************************)
(* The bit-banged 1-Wire port (port/stm32/libdrivers_stm32_onewire.c) with *)
(* the part on its line.                                                   *)
(*                                                                         *)
(* A byte is eight slots, a reset is one.  A slot begins with the master   *)
(* pulling the open-drain line low and is measured from there in cycles of *)
(* the core clock; it is a list of delays, after the first of which the    *)
(* master releases the line, and after the second of which a read or a     *)
(* reset samples it.  The part answers a slot by pulling the line low for  *)
(* a while of its own choice, or samples it at a moment of its own choice. *)
(*                                                                         *)
(* `heard' and `steady' are history variables.                             *)
(***************************************************************************)
EXTENDS RegisterBus, Sequences

CONSTANTS
  Request,         \* the hook calls the drivers make: [kind, byte]
  Sent,            \* the bytes the part may send
  CoreClockkHz,    \* SystemCoreClock / 1000
  CounterModulus,  \* CYCCNT counts up to here (2^32) and wraps
  Starts,          \* what CYCCNT may be when a delay begins
  Poll,            \* cycles between two reads of CYCCNT, the code around it included
  Interrupts,      \* cycles the handlers may take from a delay when they can
  Holds,           \* us for which the part may hold a 0 in a read slot
  Waits, Pulses,   \* us it may wait with its presence pulse, and its length
  LineMayStick     \* the line may be shorted to ground

NoCall     == [kind |-> "none", byte |-> 0]   \* no hook call in progress
Nothing    == 256   \* the part heard nothing of the call
ResetPulse == 257   \* the part heard a reset pulse

ASSUME RequestAssumption ==
  Request \subseteq [kind : {"reset", "write", "read"}, byte : Byte]
ASSUME SentAssumption == Sent \subseteq Byte
ASSUME ClockAssumption ==
  /\ CoreClockkHz \in Nat \ {0} /\ CounterModulus \in Nat \ {0}
  /\ Starts \subseteq {n \in Nat : n < CounterModulus}
  /\ Poll \in Nat \ {0} /\ Interrupts \subseteq Nat
ASSUME PartAssumption ==
  Holds \subseteq Nat /\ Waits \subseteq Nat /\ Pulses \subseteq Nat /\ LineMayStick \in BOOLEAN

VARIABLES
  present, stuck,   \* a part is on the line; the line is shorted to ground
  sends,            \* the byte the part sends next
  ear,              \* the bits it has heard of a byte
  pull,             \* [from, to]: when in this slot it pulls the line low
  call,             \* the hook call in progress, or NoCall
  byte,             \* write_byte's argument, read_byte's result, shifted bit by bit
  i,                \* their loop counter
  step,             \* the next delay of the slot, 0 between slots
  start,            \* CYCCNT when that delay began
  masked,           \* interrupts are disabled
  driven,           \* the master pulls the line low
  t,                \* cycles since the slot began, until then since the last one did
  rose,             \* t when the master released the line
  result,           \* the level sampled
  out,              \* *byte of the last read
  status,           \* what the last hook call returned
  heard, steady     \* what the part heard of this call; no part came or went in it

line == <<present, stuck, sends>>
slot == <<step, start, masked, driven, t, rose, result>>
vars == <<line, ear, pull, call, byte, i, slot, out, status, heard, steady>>

NoPull == [from |-> 0, to |-> 0]

Init ==
  /\ present \in BOOLEAN /\ stuck \in {FALSE, LineMayStick}
  /\ sends \in Sent /\ ear = 0 /\ pull = NoPull
  /\ call = NoCall /\ byte = 0 /\ i = 0
  /\ step = 0 /\ start = 0 /\ masked = FALSE /\ driven = FALSE /\ t = 0 /\ rose = 0 /\ result = "SET"
  /\ out = 0 /\ status = "OK"
  /\ heard = Nothing /\ steady = TRUE

-----------------------------------------------------------------------------
(* delay_us.                                                               *)

Cycles(us) == us * (CoreClockkHz \div 1000)

(* Seeded fault: the deadline is compared.                                 *)
ExpiredByDeadline(from, e, cycles) ==
  (from + e) % CounterModulus >= (from + cycles) % CounterModulus

(* (DWT->CYCCNT - start) >= cycles, e cycles after `from', the start.      *)
Expired(from, e, cycles) ==
  (((from + e) % CounterModulus) - from) % CounterModulus >= cycles

(* What a delay may take: it is over with the first read of CYCCNT that    *)
(* finds it expired, at most Poll cycles after one that did not.           *)
Taken ==
  [us \in {6, 9, 10, 55, 60, 64, 70, 410, 480} |->
     [from \in Starts |->
        {e \in 0..CounterModulus - 1 :
           /\ Expired(from, e, Cycles(us))
           /\ \/ e <= Poll
              \/ \E p \in (e - Poll)..(e - 1) : ~Expired(from, p, Cycles(us))}]]

(* Handlers add to it unless they are masked.                              *)
Delay(us) ==
  IF masked THEN Taken[us][start] ELSE {e + h : e \in Taken[us][start], h \in Interrupts \cup {0}}

-----------------------------------------------------------------------------
(* A slot.                                                                 *)

(* Seeded fault: the read slot is not idled out.                           *)
DelaysCutShort ==
  CASE call.kind = "reset"                  -> <<480, 70, 410>>
    [] call.kind = "read"                   -> <<6, 9, 6>>
    [] call.kind = "write" /\ byte % 2 = 1  -> <<6, 64>>
    [] OTHER                                -> <<60, 10>>

Delays ==
  CASE call.kind = "reset"                  -> <<480, 70, 410>>
    [] call.kind = "read"                   -> <<6, 9, 55>>
    [] call.kind = "write" /\ byte % 2 = 1  -> <<6, 64>>
    [] OTHER                                -> <<60, 10>>

(* Times of the part, which has a clock of its own.                        *)
Micros(us) == (us * CoreClockkHz) \div 1000

Pulls(at) == pull.from <= at /\ at < pull.to
Low(at)   == stuck \/ driven \/ Pulls(at)

(* A part in a read slot pulls the line low at once to send a 0.           *)
AnswersRead ==
  IF present /\ call.kind = "read" /\ (sends \div (2^i)) % 2 = 0
  THEN {[from |-> 0, to |-> Micros(h)] : h \in Holds}
  ELSE {NoPull}

(* A part that hears a reset pulse answers once the line is released.      *)
HearsReset == present /\ rose' >= Micros(480)
AnswersReset ==
  {[from |-> rose' + Micros(w), to |-> rose' + Micros(w + p)] : w \in Waits, p \in Pulses}

(* Seeded fault: the slot is not guarded against interrupts.               *)
PullLowUnmasked ==
  /\ call # NoCall /\ step = 0
  /\ driven' = TRUE /\ t' = 0 /\ step' = 1 /\ start' \in Starts
  /\ pull' \in AnswersRead
  /\ UNCHANGED <<line, ear, call, byte, i, masked, rose, result, out, status, heard, steady>>

(* __disable_irq; ow_pull_low.                                             *)
PullLow ==
  /\ call # NoCall /\ step = 0
  /\ masked' = TRUE
  /\ driven' = TRUE /\ t' = 0 /\ step' = 1 /\ start' \in Starts
  /\ pull' \in AnswersRead
  /\ UNCHANGED <<line, ear, call, byte, i, rose, result, out, status, heard, steady>>

(* The first delay; ow_release.                                            *)
Release ==
  /\ step = 1 /\ step' = 2 /\ start' \in Starts
  /\ t' \in {t + e : e \in Delay(Delays[1])}
  /\ driven' = FALSE /\ rose' = t'
  /\ IF HearsReset THEN pull' \in AnswersReset /\ heard' = ResetPulse /\ ear' = 0
                   ELSE UNCHANGED <<pull, heard, ear>>
  /\ UNCHANGED <<line, call, byte, i, masked, result, out, status, steady>>

(* The second delay; ow_sample.                                            *)
Sample ==
  /\ step = 2 /\ Len(Delays) = 3 /\ step' = 3 /\ start' \in Starts
  /\ t' \in {t + e : e \in Delay(Delays[2])}
  /\ result' = IF Low(t') THEN "RESET" ELSE "SET"
  /\ UNCHANGED <<line, ear, pull, call, byte, i, masked, driven, rose, out, status, heard, steady>>

(* byte >>= 1, and byte |= 0x80 for a 1; the fault builds it from the MSB. *)
ShiftInFromMsb == (2 * byte + (IF result = "SET" THEN 1 ELSE 0)) % 256
ShiftIn == byte \div 2 + (IF result = "SET" THEN 128 ELSE 0)

(* Seeded fault: the loop runs once too often.                             *)
LastSlotLate == call.kind = "reset" \/ i = 8
LastSlot     == call.kind = "reset" \/ i = 7

(* The part samples a write slot between 15 and 60 us into it.             *)
HearsBit ==
  IF present /\ call.kind = "write"
  THEN /\ \E s \in {Micros(15), Micros(60)} :
            ear' = ear + (IF stuck \/ s <= rose THEN 0 ELSE 2^i)
       /\ heard' = IF LastSlot THEN ear' ELSE heard
  ELSE UNCHANGED <<ear, heard>>

(* The last delay of a slot; __enable_irq.                                 *)
EndSlot ==
  /\ step > 0 /\ step = Len(Delays) /\ step' = 0 /\ start' = 0
  /\ t' \in {t + e : e \in Delay(Delays[step])}
  /\ masked' = FALSE
  /\ rose' = 0 /\ result' = "SET"
  /\ HearsBit
  /\ UNCHANGED <<line, pull, driven, steady>>

(* write_byte and read_byte go on.                                         *)
NextSlot ==
  /\ EndSlot /\ ~LastSlot
  /\ i' = i + 1
  /\ byte' = CASE call.kind = "write" -> byte \div 2
               [] call.kind = "read"  -> ShiftIn
  /\ UNCHANGED <<call, out, status>>

(* Seeded fault: a reset is repeated until somebody answers.               *)
ReturnAnswered ==
  /\ EndSlot /\ LastSlot
  /\ IF call.kind = "reset" /\ result = "SET"
     THEN UNCHANGED <<call, byte, i, out, status>>
     ELSE /\ status' = "OK"
          /\ out' = IF call.kind = "read" THEN ShiftIn ELSE out
          /\ call' = NoCall /\ byte' = 0 /\ i' = 0

(* The adapter returns: the only error is a reset nobody answers.          *)
Return ==
  /\ EndSlot /\ LastSlot
  /\ status' = IF call.kind = "reset" /\ result = "SET" THEN "ERR_BUS" ELSE "OK"
  /\ out' = IF call.kind = "read" THEN ShiftIn ELSE out
  /\ call' = NoCall /\ byte' = 0 /\ i' = 0

-----------------------------------------------------------------------------
(* STM32_OW_Reset, STM32_OW_Write or STM32_OW_Read is entered.             *)
Enter(req) ==
  /\ call = NoCall
  /\ call' = req /\ i' = 0
  /\ byte' = IF req.kind = "write" THEN req.byte ELSE 0
  /\ sends' \in Sent /\ ear' = 0
  /\ heard' = Nothing /\ steady' = TRUE
  /\ UNCHANGED <<present, stuck, pull, slot, out, status>>

(* A part leaves the line, or is connected to it: a bound, once in a call. *)
Unplug ==
  /\ steady /\ present /\ present' = FALSE
  /\ pull' = NoPull /\ steady' = FALSE
  /\ UNCHANGED <<stuck, sends, ear, call, byte, i, slot, out, status, heard>>

Plug ==
  /\ steady /\ ~present /\ present' = TRUE
  /\ ear' = 0 /\ steady' = FALSE
  /\ UNCHANGED <<stuck, sends, pull, call, byte, i, slot, out, status, heard>>

PortStep == PullLow \/ Release \/ Sample \/ NextSlot \/ Return

Next == PortStep \/ (\E req \in Request : Enter(req)) \/ Unplug \/ Plug

Spec == Init /\ [][Next]_vars

(* CYCCNT counts whatever the part does, and with it the delays end.       *)
FairSpec == Spec /\ WF_vars(PortStep)

-----------------------------------------------------------------------------
(* Properties.                                                             *)

(* The variables have their C types; eight slots make a byte.              *)
TypeOK ==
  /\ present \in BOOLEAN /\ stuck \in BOOLEAN /\ sends \in Sent /\ ear \in Byte
  /\ pull \in [from : Nat, to : Nat]
  /\ call \in Request \cup {NoCall}
  /\ byte \in Byte /\ i \in 0..7
  /\ step \in 0..3 /\ start \in Starts \cup {0} /\ masked \in BOOLEAN /\ driven \in BOOLEAN
  /\ t \in Nat /\ rose \in Nat /\ result \in {"SET", "RESET"}
  /\ out \in Byte /\ status \in {"OK", "ERR_BUS"}
  /\ heard \in Byte \cup {Nothing, ResetPulse} /\ steady \in BOOLEAN

(* "interrupts are disabled so nothing can stretch the slot": a handler    *)
(* runs only while the line is high, neither the master nor the part still *)
(* pulling it, so that the next slot has a falling edge to begin with.     *)
LineIsFreeWhenInterruptible == ~masked => ~driven /\ ~Pulls(t)

(* "Busy-wait for at least us microseconds", wherever the cycle counter    *)
(* stands and when it wraps.                                               *)
DelaysAreLongEnough ==
  [][step # 0 /\ step' # step => (t' - t) * 1000 >= Delays[step] * CoreClockkHz]_vars

Contract == INSTANCE OneWireContract

(* The slots add up to the transport contract: the part hears the reset    *)
(* pulse or the byte that was meant, least-significant bit first, a read   *)
(* delivers the byte the part sends, and a reset reports whether a part is *)
(* there, wherever in their tolerances master and part put their edges.    *)
ImplementsContract == Contract!Spec

(* Every hook call returns, with or without a part on the line.            *)
EveryCallReturns == [](call # NoCall => <>(call = NoCall))

(* onewire.h on reset: "LIBDRIVERS_OK if a presence pulse was detected;    *)
(* LIBDRIVERS_ERR_BUS if no device responded".  The port takes a line that *)
(* is low for any reason for a presence pulse.                             *)
OKResetMeansPresence ==
  [][call.kind = "reset" /\ Return /\ steady => (status' = "OK" <=> present)]_vars
=============================================================================
