------------------------ MODULE STM32OneWireProofs ------------------------
(***************************************************************************)
(* Theorems about the STM32 1-Wire port: for every clock that is a whole   *)
(* number of megahertz, every cycle counter and wherever it stands, every  *)
(* polling period and every part that keeps the times of the protocol,     *)
(* what the run of MCSTM32OneWire checks at 1 MHz.                         *)
(***************************************************************************)
EXTENDS STM32OneWire, TLAPS

(* The clocks for which SystemCoreClock / 1000000 loses nothing.           *)
WholeMegahertz == CoreClockkHz % 1000 = 0

-----------------------------------------------------------------------------
(* delay_us.                                                               *)

LEMMA SmallRemainder ==
  ASSUME NEW m \in Nat \ {0}, NEW n \in Nat, n < m
  PROVE  n % m = n
OBVIOUS

LEMMA NextRemainder ==
  ASSUME NEW m \in Nat \ {0}, NEW n \in Int, m <= n, n < 2 * m
  PROVE  n % m = n - m
OBVIOUS

LEMMA NegativeRemainder ==
  ASSUME NEW m \in Nat \ {0}, NEW n \in Int, n < 0, 0 - m <= n
  PROVE  n % m = n + m
OBVIOUS

(* The unsigned difference of two readings of CYCCNT is the time between   *)
(* them, whether or not the counter wrapped.                               *)
LEMMA Elapsed ==
  ASSUME NEW m \in Nat \ {0}, NEW from \in Nat, from < m, NEW e \in Nat, e < m
  PROVE  (((from + e) % m) - from) % m = e
<1>1. CASE from + e < m
  <2>1. (from + e) % m = from + e
    BY <1>1, SmallRemainder
  <2> QED
    BY <2>1, SmallRemainder
<1>2. CASE m <= from + e
  <2>1. (from + e) % m = (from + e) - m
    <3> DEFINE n == from + e
    <3>1. n \in Int /\ n < 2 * m /\ m <= n
      BY <1>2
    <3> HIDE DEF n
    <3>2. n % m = n - m
      BY <3>1, NextRemainder
    <3> QED
      BY <3>2 DEF n
  <2>2. e - m < 0 /\ 0 - m <= e - m /\ e - m \in Int
    OBVIOUS
  <2>3. (e - m) % m = e
    BY <2>2, NegativeRemainder
  <2>4. ((from + e) - m) - from = e - m
    OBVIOUS
  <2> QED
    BY <2>1, <2>3, <2>4
<1> QED
  BY <1>1, <1>2

Durations == {6, 9, 10, 55, 60, 64, 70, 410, 480}

(* No delay is shorter than its cycles, interrupted or not.                *)
LEMMA DelayTakes ==
  ASSUME start \in Starts, NEW us \in Durations, NEW e \in Delay(us)
  PROVE  e \in Nat /\ Cycles(us) <= e
<1>1. ASSUME NEW n \in Taken[us][start]
      PROVE  n \in Nat /\ Cycles(us) <= n
  <2>1. n \in 0..CounterModulus - 1 /\ Expired(start, n, Cycles(us))
    BY <1>1 DEF Taken, Durations
  <2>3. /\ CounterModulus \in Nat \ {0}
        /\ start \in Nat /\ start < CounterModulus
        /\ n \in Nat /\ n < CounterModulus
    BY <2>1, ClockAssumption
  <2>4. (((start + n) % CounterModulus) - start) % CounterModulus = n
    BY <2>3, Elapsed
  <2> QED
    BY <2>1, <2>3, <2>4 DEF Expired
<1>2. Cycles(us) \in Int
  BY ClockAssumption DEF Cycles, Durations
<1>3. CASE masked
  BY <1>1, <1>3 DEF Delay
<1>4. CASE ~masked
  <2>1. PICK n \in Taken[us][start], h \in Interrupts \cup {0} : e = n + h
    BY <1>4 DEF Delay
  <2>2. h \in Nat
    BY ClockAssumption
  <2> QED
    BY <1>1, <1>2, <2>1, <2>2
<1> QED
  BY <1>3, <1>4

LEMMA WholeMicroseconds ==
  ASSUME WholeMegahertz, NEW us \in Nat
  PROVE  /\ Cycles(us) \in Nat
         /\ Cycles(us) * 1000 = us * CoreClockkHz
         /\ Micros(us) = Cycles(us)
<1> DEFINE mhz == CoreClockkHz \div 1000
<1>1. CoreClockkHz \in Nat
  BY ClockAssumption
<1>2. CoreClockkHz = mhz * 1000 /\ mhz \in Nat
  BY <1>1 DEF WholeMegahertz
<1>3. Cycles(us) = us * mhz
  BY DEF Cycles
<1> HIDE DEF mhz
<1>4. us * mhz \in Nat /\ us * (mhz * 1000) = (us * mhz) * 1000
  BY <1>2
<1>5. us * CoreClockkHz = (us * mhz) * 1000
  BY <1>2, <1>4
<1>6. ((us * mhz) * 1000) \div 1000 = us * mhz
  BY <1>4
<1> QED
  BY <1>3, <1>4, <1>5, <1>6 DEF Micros

-----------------------------------------------------------------------------
(* The cursor inside a slot: which delay is next, and since when the line  *)
(* is high.                                                                *)

Slot ==
  /\ step \in 0..3 /\ t \in Nat /\ rose \in Nat
  /\ call \in Request \cup {NoCall}
  /\ step # 0 => call # NoCall
  /\ step = 3 => Len(Delays) = 3
  /\ step = 1 => t = 0
  /\ step \in {2, 3} => rose <= t
  /\ step # 0 => start \in Starts

LEMMA DelaysOfSlot ==
  /\ Len(Delays) \in {2, 3}
  /\ \A n \in 1..Len(Delays) : Delays[n] \in Durations
<1>1. Delays \in {<<480, 70, 410>>, <<6, 9, 55>>, <<6, 64>>, <<60, 10>>}
  BY DEF Delays
<1> QED
  BY <1>1 DEF Durations

(* A delay: the steps that let time pass, and by how much.                 *)
Passes == t' \in {t + e : e \in Delay(Delays[step])}

LEMMA TimePasses ==
  ASSUME t \in Nat, step \in 1..Len(Delays), start \in Starts, Passes
  PROVE  /\ Delays[step] \in Durations
         /\ t' \in Nat
         /\ t + Cycles(Delays[step]) <= t'
<1>1. Delays[step] \in Durations
  BY DelaysOfSlot
<1>2. PICK e \in Delay(Delays[step]) : t' = t + e
  BY DEF Passes
<1>3. e \in Nat /\ Cycles(Delays[step]) <= e
  BY <1>1, DelayTakes
<1>4. Cycles(Delays[step]) \in Int
  BY <1>1, ClockAssumption DEF Cycles, Durations
<1> QED
  BY <1>1, <1>2, <1>3, <1>4

LEMMA StepsPass ==
  ASSUME Slot, Release \/ Sample \/ NextSlot \/ Return
  PROVE  step \in 1..Len(Delays) /\ Passes
<1>1. CASE Release
  BY <1>1, DelaysOfSlot DEF Release, Passes
<1>2. CASE Sample
  BY <1>2, DelaysOfSlot DEF Sample, Passes
<1>3. CASE EndSlot
  <2>1. step = Len(Delays) /\ Passes
    BY <1>3, Zenon DEF EndSlot, Passes
  <2> QED
    BY <2>1, DelaysOfSlot
<1> QED
  BY <1>1, <1>2, <1>3 DEF NextSlot, Return

(* The other steps leave the clock alone, or start a slot.                 *)
LEMMA StepsKeepTime ==
  ASSUME Slot, [Next]_vars, step # 0, step' # step
  PROVE  Release \/ Sample \/ NextSlot \/ Return
BY DEF Next, PortStep, PullLow, Enter, Unplug, Plug, vars, slot, Slot

LEMMA SlotEstablished == Init => Slot
BY DEF Init, Slot

LEMMA SlotPreserved ==
  ASSUME Slot, [Next]_vars
  PROVE  Slot'
<1>1. ASSUME NEW req \in Request, Enter(req)
      PROVE  Slot'
  BY <1>1 DEF Enter, slot, Slot
<1>2. CASE PullLow
  BY <1>2 DEF PullLow, Slot
<1>3. ASSUME call' = call, byte' = byte
      PROVE  Delays' = Delays
  BY <1>3 DEF Delays
<1>4. CASE Release \/ Sample \/ NextSlot \/ Return
  <2>1. step \in 1..Len(Delays) /\ Passes
    BY <1>4, StepsPass
  <2>2. t' \in Nat /\ t + Cycles(Delays[step]) <= t' /\ Delays[step] \in Durations
    BY <2>1, TimePasses DEF Slot
  <2>3. t <= t'
    BY <2>2, ClockAssumption DEF Cycles, Durations, Slot
  <2>4. CASE Release
    BY <1>3, <2>2, <2>4 DEF Release, Slot
  <2>5. CASE Sample
    BY <1>3, <2>2, <2>3, <2>5 DEF Sample, Slot
  <2>6. CASE NextSlot
    BY <2>2, <2>6 DEF NextSlot, EndSlot, Slot
  <2>7. CASE Return
    BY <2>2, <2>7 DEF Return, EndSlot, Slot
  <2> QED
    BY <1>4, <2>4, <2>5, <2>6, <2>7
<1>5. CASE Unplug \/ Plug \/ UNCHANGED vars
  <2>1. UNCHANGED <<call, byte, step, start, masked, driven, t, rose>>
    BY <1>5 DEF Unplug, Plug, vars, slot
  <2> QED
    BY <1>3, <2>1 DEF Slot
<1> QED
  BY <1>1, <1>2, <1>4, <1>5 DEF Next, PortStep

LEMMA SlotInvariance == Spec => []Slot
BY SlotEstablished, SlotPreserved, PTL DEF Spec

(* "Busy-wait for at least us microseconds": with a clock of whole         *)
(* megahertz no delay of a slot is cut short, whatever the counter shows   *)
(* when it begins, how often it is read and when it wraps.                 *)
THEOREM LongEnough ==
  ASSUME WholeMegahertz
  PROVE  Spec => DelaysAreLongEnough
<1>1. ASSUME Slot, [Next]_vars, step # 0, step' # step
      PROVE  (t' - t) * 1000 >= Delays[step] * CoreClockkHz
  <2>1. step \in 1..Len(Delays) /\ Passes
    BY <1>1, StepsKeepTime, StepsPass
  <2>2. /\ Delays[step] \in Durations /\ t' \in Nat /\ t \in Nat
        /\ t + Cycles(Delays[step]) <= t'
    BY <1>1, <2>1, TimePasses DEF Slot
  <2>3. /\ Cycles(Delays[step]) \in Nat
        /\ Cycles(Delays[step]) * 1000 = Delays[step] * CoreClockkHz
    BY <2>2, WholeMicroseconds DEF Durations
  <2> QED
    BY <2>2, <2>3
<1>2. Slot /\ [Next]_vars =>
        [step # 0 /\ step' # step => (t' - t) * 1000 >= Delays[step] * CoreClockkHz]_vars
  BY <1>1
<1> QED
  BY <1>2, SlotInvariance, PTL DEF Spec, DelaysAreLongEnough

-----------------------------------------------------------------------------
(* A delay of delay_us has an end exactly when its cycles fit the counter: *)
(* the unsigned difference that is waited for is then reached, wherever    *)
(* the counter stands when the delay begins.                               *)
THEOREM DelaysEnd ==
  ASSUME NEW us \in Durations, NEW from \in Starts
  PROVE  Taken[us][from] # {} <=> Cycles(us) < CounterModulus
<1> DEFINE cycles == Cycles(us)
<1>1. /\ cycles \in Nat /\ Poll \in Nat \ {0}
      /\ CounterModulus \in Nat \ {0} /\ from \in Nat /\ from < CounterModulus
  <2>1. us \in Nat /\ CoreClockkHz \div 1000 \in Nat
    BY ClockAssumption DEF Durations
  <2>2. us * (CoreClockkHz \div 1000) \in Nat
    BY <2>1
  <2> QED
    BY <2>2, ClockAssumption DEF Cycles
<1>2. Taken[us][from] =
        {e \in 0..CounterModulus - 1 :
           /\ Expired(from, e, cycles)
           /\ \/ e <= Poll
              \/ \E p \in (e - Poll)..(e - 1) : ~Expired(from, p, cycles)}
  BY DEF Taken, Durations
<1> HIDE DEF cycles
<1>3. ASSUME NEW e \in Nat, e < CounterModulus
      PROVE  Expired(from, e, cycles) <=> e >= cycles
  <2>1. (((from + e) % CounterModulus) - from) % CounterModulus = e
    BY <1>1, <1>3, Elapsed
  <2> QED
    BY <2>1 DEF Expired
<1>4. ASSUME cycles < CounterModulus
      PROVE  cycles \in Taken[us][from]
  <2>1. cycles \in 0..CounterModulus - 1 /\ Expired(from, cycles, cycles)
    BY <1>1, <1>3, <1>4
  <2>2. CASE cycles <= Poll
    BY <1>2, <2>1, <2>2
  <2>3. CASE cycles > Poll
    <3>1. /\ cycles - 1 \in (cycles - Poll)..(cycles - 1)
          /\ cycles - 1 \in Nat /\ cycles - 1 < CounterModulus
      BY <1>1, <1>4, <2>3
    <3>2. ~Expired(from, cycles - 1, cycles)
      BY <1>1, <1>3, <3>1
    <3> QED
      BY <1>2, <2>1, <3>1, <3>2
  <2> QED
    BY <1>1, <2>2, <2>3
<1>5. ASSUME NEW e \in Taken[us][from]
      PROVE  cycles < CounterModulus
  <2>1. e \in Nat /\ e < CounterModulus /\ Expired(from, e, cycles)
    BY <1>1, <1>2
  <2> QED
    BY <1>1, <1>3, <2>1
<1> QED
  BY <1>4, <1>5 DEF cycles

-----------------------------------------------------------------------------
(* The line between two slots.                                             *)

(* What the port relies on: a whole-megahertz clock, a loop that reads the *)
(* counter often enough for a 60 us pulse not to become a reset, and a     *)
(* part that lets go of the line before its slot is over.                  *)
InTolerance ==
  /\ WholeMegahertz
  /\ Cycles(60) + Poll < Cycles(480)
  /\ \A h \in Holds : h <= 70
  /\ \A w \in Waits, p \in Pulses : w + p <= 480

(* The interrupts are masked for the whole of a slot, and the master pulls *)
(* the line low in its first part only.                                    *)
Masked ==
  /\ step # 0 => masked
  /\ driven => step = 1

LEMMA MaskedEstablished == Init => Masked
<1> SUFFICES ASSUME Init PROVE Masked
  OBVIOUS
<1>1. ~driven
  BY Zenon DEF Init
<1>2. step = 0
  BY DEF Init
<1> QED
  BY <1>1, <1>2, Zenon DEF Masked

LEMMA MaskedPreserved ==
  ASSUME Masked, [Next]_vars
  PROVE  Masked'
<1>1. CASE PullLow
  BY <1>1, Zenon DEF PullLow, Masked
<1>2. CASE Release
  <2>1. masked
    <3>1. step # 0
      BY <1>2 DEF Release
    <3> QED
      BY <3>1, Zenon DEF Masked
  <2> QED
    BY <1>2, <2>1, Zenon DEF Release, Masked
<1>3. CASE Sample
  <2>1. step # 0 /\ step # 1
    BY <1>3 DEF Sample
  <2> QED
    BY <1>3, <2>1, Zenon DEF Sample, Masked
<1>4. CASE EndSlot
  <2>1. step # 1
    BY <1>4, DelaysOfSlot DEF EndSlot
  <2> QED
    BY <1>4, <2>1, Zenon DEF EndSlot, Masked
<1>5. CASE UNCHANGED <<step, masked, driven>>
  BY <1>5, Zenon DEF Masked
<1>6. ASSUME NEW req \in Request, Enter(req)
      PROVE  UNCHANGED <<step, masked, driven>>
  BY <1>6, Zenon DEF Enter, slot
<1>7. Unplug \/ Plug \/ UNCHANGED vars => UNCHANGED <<step, masked, driven>>
  BY Zenon DEF Unplug, Plug, vars, slot
<1> QED
  BY <1>1, <1>2, <1>3, <1>4, <1>5, <1>6, <1>7 DEF Next, PortStep, NextSlot, Return

(* Since nothing stretches it, a first pulse is over in time.              *)
LEMMA PulseIsShort ==
  ASSUME InTolerance, start \in Starts, masked, call.kind # "reset", NEW e \in Delay(Delays[1])
  PROVE  e < Cycles(480)
<1>1. Delays[1] \in {6, 60}
  BY DEF Delays
<1>2. e \in Taken[Delays[1]][start]
  <2>1. Delay(Delays[1]) = Taken[Delays[1]][start]
    BY DEF Delay
  <2> QED
    BY <2>1
<1>3. /\ e \in 0..CounterModulus - 1
      /\ \/ e <= Poll
         \/ \E p \in (e - Poll)..(e - 1) : ~Expired(start, p, Cycles(Delays[1]))
  BY <1>1, <1>2 DEF Taken
<1>5. /\ CounterModulus \in Nat \ {0} /\ Poll \in Nat
      /\ start \in Nat /\ start < CounterModulus
      /\ e \in Nat /\ e < CounterModulus
  BY <1>3, ClockAssumption
<1>6. /\ Cycles(6) \in Nat /\ Cycles(60) \in Nat /\ Cycles(480) \in Nat
      /\ Cycles(6) <= Cycles(60)
  BY ClockAssumption DEF Cycles
<1>7. Cycles(60) + Poll < Cycles(480)
  BY DEF InTolerance
<1>8. CASE e <= Poll
  BY <1>5, <1>6, <1>7, <1>8
<1>9. CASE e > Poll
  <2>1. PICK p \in (e - Poll)..(e - 1) : ~Expired(start, p, Cycles(Delays[1]))
    BY <1>3, <1>5, <1>9
  <2>2. p \in Nat /\ p < CounterModulus
    BY <1>5, <1>9
  <2>3. (((start + p) % CounterModulus) - start) % CounterModulus = p
    BY <1>5, <2>2, Elapsed
  <2>4. p < Cycles(Delays[1])
    BY <1>1, <1>6, <2>1, <2>2, <2>3 DEF Expired
  <2>5. Cycles(Delays[1]) <= Cycles(60)
    BY <1>1, <1>6
  <2>6. Cycles(Delays[1]) \in Nat
    BY <1>1, <1>6
  <2>7. e <= p + Poll
    BY <1>5, <2>1
  <2> HIDE DEF Cycles
  <2> QED
    BY <1>5, <1>6, <1>7, <2>2, <2>4, <2>5, <2>6, <2>7
<1> QED
  BY <1>5, <1>8, <1>9

(* What the part's answer may still last, delay by delay.                  *)
PullEnds ==
  /\ pull.to \in Nat
  /\ step = 0 => pull.to <= t
  /\ step = 1 => pull.to = 0 \/ (call.kind = "read" /\ pull.to <= Cycles(70))
  /\ step \in {2, 3} =>
       \/ pull.to = 0
       \/ /\ call.kind = "read" /\ pull.to <= Cycles(70)
          /\ Cycles(6) <= t
          /\ step = 3 => Cycles(15) <= t
       \/ /\ call.kind = "reset" /\ pull.to <= rose + Cycles(480)
          /\ step = 3 => rose + Cycles(70) <= t

LEMMA Monotone ==
  ASSUME WholeMegahertz, NEW a \in Nat, NEW b \in Nat, a <= b
  PROVE  Micros(a) \in Nat /\ Micros(a) <= Cycles(b)
<1> DEFINE mhz == CoreClockkHz \div 1000
<1>1. Micros(a) = a * mhz /\ Cycles(b) = b * mhz
  BY WholeMicroseconds DEF Cycles
<1>2. mhz \in Nat
  BY ClockAssumption
<1> HIDE DEF mhz
<1>3. a * mhz \in Nat /\ a * mhz <= b * mhz
  <2>1. b * mhz = a * mhz + (b - a) * mhz
    BY <1>2
  <2>2. (b - a) * mhz \in Nat /\ a * mhz \in Nat
    <3>1. b - a \in Nat
      OBVIOUS
    <3> QED
      BY <1>2, <3>1
  <2> QED
    BY <2>1, <2>2
<1> QED
  BY <1>1, <1>3
LEMMA PullEndsEstablished == Init => PullEnds
BY DEF Init, PullEnds, NoPull

(* The part answers.                                                       *)
LEMMA AnswersReadEnd ==
  ASSUME InTolerance, NEW a \in AnswersRead
  PROVE  /\ a.to \in Nat
         /\ a.to = 0 \/ (call.kind = "read" /\ a.to <= Cycles(70))
<1>1. CASE a = NoPull
  BY <1>1 DEF NoPull
<1>2. ASSUME NEW h \in Holds, call.kind = "read", a = [from |-> 0, to |-> Micros(h)]
      PROVE  a.to \in Nat /\ a.to <= Cycles(70)
  <2>1. h \in Nat /\ h <= 70
    BY PartAssumption DEF InTolerance
  <2>2. Micros(h) \in Nat /\ Micros(h) <= Cycles(70)
    BY <2>1, Monotone DEF InTolerance
  <2> QED
    BY <1>2, <2>2
<1> QED
  BY <1>1, <1>2 DEF AnswersRead

LEMMA AnswersResetEnd ==
  ASSUME InTolerance, rose' \in Nat, NEW a \in AnswersReset
  PROVE  a.to \in Nat /\ a.to <= rose' + Cycles(480)
<1>1. PICK w \in Waits, p \in Pulses : a.to = rose' + Micros(w + p)
  BY DEF AnswersReset
<1>2. w + p \in Nat /\ w + p <= 480
  BY PartAssumption DEF InTolerance
<1>3. Micros(w + p) \in Nat /\ Micros(w + p) <= Cycles(480) /\ Cycles(480) \in Nat
  BY <1>2, Monotone, WholeMicroseconds DEF InTolerance
<1> HIDE DEF Cycles, Micros
<1> QED
  BY <1>1, <1>3

(* Only a reset pulse is heard as one.                                     *)
LEMMA ResetsOnly ==
  ASSUME InTolerance, Slot, Masked, Release, HearsReset
  PROVE  call.kind = "reset"
<1> SUFFICES ASSUME call.kind # "reset" PROVE FALSE
  OBVIOUS
<1>1. PICK e \in Delay(Delays[1]) : t' = t + e
  BY DEF Release
<1>2. t = 0 /\ rose' = t' /\ start \in Starts
  BY DEF Release, Slot
<1>3. masked
  <2>1. step # 0
    BY DEF Release
  <2> QED
    BY <2>1, Zenon DEF Masked
<1>4. e < Cycles(480)
  BY <1>2, <1>3, PulseIsShort
<1>5. Micros(480) = Cycles(480) /\ Cycles(480) \in Nat
  BY WholeMicroseconds DEF InTolerance
<1>6. rose' >= Micros(480)
  BY Zenon DEF HearsReset
<1>7. e \in Nat
  BY <1>1, <1>2, DelayTakes, DelaysOfSlot
<1> HIDE DEF Cycles, Micros
<1> QED
  BY <1>1, <1>2, <1>4, <1>5, <1>6, <1>7

LEMMA CyclesAdd ==
  /\ Cycles(6) \in Nat /\ Cycles(9) \in Nat /\ Cycles(15) \in Nat /\ Cycles(55) \in Nat
  /\ Cycles(70) \in Nat /\ Cycles(410) \in Nat /\ Cycles(480) \in Nat
  /\ Cycles(6) + Cycles(9) = Cycles(15) /\ Cycles(15) + Cycles(55) = Cycles(70)
  /\ Cycles(70) + Cycles(410) = Cycles(480)
BY ClockAssumption DEF Cycles

LEMMA PullEndsPreserved ==
  ASSUME InTolerance, Slot, Masked, PullEnds, [Next]_vars
  PROVE  PullEnds'
<1>1. ASSUME NEW req \in Request, Enter(req)
      PROVE  PullEnds'
  BY <1>1 DEF Enter, slot, PullEnds, Slot
<1>2. CASE PullLow
  <2>1. /\ pull'.to \in Nat
        /\ pull'.to = 0 \/ (call.kind = "read" /\ pull'.to <= Cycles(70))
    <3>1. pull' \in AnswersRead
      BY <1>2, Zenon DEF PullLow
    <3> QED
      BY <3>1, AnswersReadEnd
  <2> QED
    BY <1>2, <2>1 DEF PullLow, PullEnds
<1>3. CASE Release
  <2>1. step = 1 /\ step' = 2 /\ rose' = t' /\ call' = call /\ t = 0
    BY <1>3 DEF Release, Slot
  <2>2. t' \in Nat /\ t + Cycles(Delays[1]) <= t'
    BY <1>3, <2>1, StepsPass, TimePasses DEF Slot
  <2>3. CASE HearsReset
    <3>1. call.kind = "reset"
      BY <1>3, <2>3, ResetsOnly
    <3>2. pull' \in AnswersReset
      BY <1>3, <2>3, Zenon DEF Release
    <3>3. pull'.to \in Nat /\ pull'.to <= rose' + Cycles(480)
      BY <2>1, <2>2, <3>2, AnswersResetEnd
    <3> QED
      BY <2>1, <3>1, <3>3 DEF PullEnds
  <2>4. CASE ~HearsReset
    <3>1. pull' = pull
      BY <1>3, <2>4, Zenon DEF Release
    <3>2. call.kind = "read" => Cycles(6) <= t'
      BY <2>1, <2>2, CyclesAdd DEF Delays
    <3> QED
      BY <2>1, <3>1, <3>2 DEF PullEnds
  <2> QED
    BY <2>3, <2>4
<1>4. CASE Sample
  <2>1. step = 2 /\ step' = 3 /\ UNCHANGED <<pull, rose, call>>
    BY <1>4 DEF Sample
  <2>2. t' \in Nat /\ t + Cycles(Delays[2]) <= t' /\ t \in Nat /\ rose \in Nat /\ rose <= t
    BY <1>4, <2>1, StepsPass, TimePasses DEF Slot
  <2>3. /\ call.kind = "read" => t + Cycles(9) <= t'
        /\ call.kind = "reset" => t + Cycles(70) <= t'
    BY <2>2 DEF Delays
  <2> HIDE DEF Cycles
  <2> QED
    BY <2>1, <2>2, <2>3, CyclesAdd DEF PullEnds
<1>5. CASE EndSlot
  <2>1. step \in {2, 3} /\ step = Len(Delays) /\ step' = 0 /\ pull' = pull
    BY <1>5, DelaysOfSlot DEF EndSlot
  <2>2. Passes
    BY <1>5, <2>1, Zenon DEF EndSlot, Passes
  <2>3. t' \in Nat /\ t + Cycles(Delays[step]) <= t' /\ t \in Nat
    BY <2>1, <2>2, TimePasses DEF Slot
  <2>4. call.kind = "read" => step = 3 /\ t + Cycles(55) <= t'
    BY <2>1, <2>3 DEF Delays
  <2>5. call.kind = "reset" => step = 3 /\ t + Cycles(410) <= t'
    BY <2>1, <2>3 DEF Delays
  <2>6. rose \in Nat
    BY DEF Slot
  <2>7. pull.to \in Nat /\ pull.to <= t'
    <3>1. pull.to = 0 \/ call.kind \in {"read", "reset"}
      BY <2>1 DEF PullEnds
    <3>2. CASE pull.to = 0
      BY <2>3, <3>2
    <3>3. CASE call.kind = "read" /\ pull.to # 0
      <4>1. step = 3 /\ pull.to \in Nat /\ Cycles(15) <= t /\ pull.to <= Cycles(70)
        BY <2>4, <3>3 DEF PullEnds
      <4>2. t + Cycles(55) <= t'
        BY <2>4, <3>3
      <4> QED
        BY <2>3, <4>1, <4>2, CyclesAdd
    <3>4. CASE call.kind = "reset" /\ pull.to # 0
      <4>1. step = 3 /\ pull.to \in Nat /\ rose + Cycles(70) <= t /\ pull.to <= rose + Cycles(480)
        BY <2>5, <3>4 DEF PullEnds
      <4>2. t + Cycles(410) <= t'
        BY <2>5, <3>4
      <4> QED
        BY <2>3, <2>6, <4>1, <4>2, CyclesAdd
    <3> QED
      BY <3>1, <3>2, <3>3, <3>4 DEF PullEnds
  <2> QED
    BY <2>1, <2>7 DEF PullEnds
<1>6. CASE Unplug
  BY <1>6, CyclesAdd DEF Unplug, slot, NoPull, PullEnds, Slot
<1>7. CASE Plug \/ UNCHANGED vars
  <2>1. UNCHANGED <<pull, step, t, rose, call>>
    BY <1>7 DEF Plug, vars, slot
  <2> QED
    BY <2>1 DEF PullEnds
<1> QED
  BY <1>1, <1>2, <1>3, <1>4, <1>5, <1>6, <1>7 DEF Next, PortStep, NextSlot, Return

(* "interrupts are disabled so nothing can stretch the slot": whenever a   *)
(* handler can run the line is high, nobody still pulling it, so that the  *)
(* next slot begins with an edge the part can see.                         *)
THEOREM LineIsFree ==
  ASSUME InTolerance
  PROVE  Spec => []LineIsFreeWhenInterruptible
<1>1. Init => Slot /\ Masked /\ PullEnds
  BY SlotEstablished, MaskedEstablished, PullEndsEstablished
<1>2. Slot /\ Masked /\ PullEnds /\ [Next]_vars => (Slot /\ Masked /\ PullEnds)'
  BY SlotPreserved, MaskedPreserved, PullEndsPreserved
<1>3. Slot /\ Masked /\ PullEnds => LineIsFreeWhenInterruptible
  <2> SUFFICES ASSUME Slot, Masked, PullEnds, ~masked PROVE ~driven /\ ~Pulls(t)
    BY DEF LineIsFreeWhenInterruptible
  <2>1. step = 0
    BY Zenon DEF Masked
  <2>2. ~driven
    <3>1. step # 1
      BY <2>1
    <3> QED
      BY <3>1, Zenon DEF Masked
  <2>3. pull.to <= t /\ pull.to \in Nat /\ t \in Nat
    BY <2>1 DEF PullEnds, Slot
  <2>4. ~Pulls(t)
    BY <2>3 DEF Pulls
  <2> QED
    BY <2>2, <2>4
<1> QED
  BY <1>1, <1>2, <1>3, PTL DEF Spec

-----------------------------------------------------------------------------
(* Types.  The part has heard no more bits of a byte than there were slots *)
(* for it, so that what it makes of them is a byte.                        *)

HeardSoFar == call # NoCall => ear < 2^i

LEMMA Powers ==
  ASSUME NEW n \in 0..7
  PROVE  2^n \in {1, 2, 4, 8, 16, 32, 64, 128} /\ (n < 7 => 2^(n + 1) = 2 * 2^n)
<1>1. /\ 2^0 = 1 /\ 2^1 = 2 /\ 2^2 = 4 /\ 2^3 = 8
      /\ 2^4 = 16 /\ 2^5 = 32 /\ 2^6 = 64 /\ 2^7 = 128
  OBVIOUS
<1>2. ASSUME NEW m \in 0..7, NEW k, m = k
      PROVE  2^m = 2^k
  BY <1>2, Zenon
<1> DEFINE power(m) == IF m = 0 THEN 1 ELSE IF m = 1 THEN 2 ELSE IF m = 2 THEN 4
                       ELSE IF m = 3 THEN 8 ELSE IF m = 4 THEN 16 ELSE IF m = 5 THEN 32
                       ELSE IF m = 6 THEN 64 ELSE 128
<1>3. ASSUME NEW m \in 0..7
      PROVE  2^m = power(m)
  <2>1. /\ m = 0 => 2^m = 2^0
        /\ m = 1 => 2^m = 2^1
        /\ m = 2 => 2^m = 2^2
        /\ m = 3 => 2^m = 2^3
        /\ m = 4 => 2^m = 2^4
        /\ m = 5 => 2^m = 2^5
        /\ m = 6 => 2^m = 2^6
        /\ m = 7 => 2^m = 2^7
    BY Zenon
  <2> QED
    BY <1>1, <2>1
<1>5. ASSUME n < 7
      PROVE  2^(n + 1) = 2 * 2^n
  <2> DEFINE k == n + 1
  <2>1. k \in 0..7 /\ k = n + 1
    BY <1>5
  <2> HIDE DEF k
  <2>2. power(k) = 2 * power(n)
    BY <1>5, <2>1
  <2> HIDE DEF power
  <2>3. 2^k = power(k) /\ 2^n = power(n)
    BY <1>3, <2>1, Zenon
  <2>4. 2^k = 2 * 2^n
    BY <2>2, <2>3, Zenon
  <2> QED
    BY <2>4 DEF k
<1> QED
  BY <1>3, <1>5

LEMMA Positive ==
  ASSUME i \in 0..7
  PROVE  0 \in Byte /\ 0 < 2^i
<1>1. 2^i \in {1, 2, 4, 8, 16, 32, 64, 128}
  BY Powers
<1>2. 0 < 2^i
  BY <1>1
<1> QED
  BY <1>2 DEF Byte

Flags ==
  /\ present \in BOOLEAN /\ stuck \in BOOLEAN
  /\ masked \in BOOLEAN /\ driven \in BOOLEAN /\ steady \in BOOLEAN

Values ==
  /\ sends \in Sent /\ ear \in Byte
  /\ pull \in [from : Nat, to : Nat]
  /\ call \in Request \cup {NoCall}
  /\ byte \in Byte /\ i \in 0..7
  /\ step \in 0..3 /\ start \in Starts \cup {0}
  /\ t \in Nat /\ rose \in Nat /\ result \in {"SET", "RESET"}
  /\ out \in Byte /\ status \in {"OK", "ERR_BUS"}
  /\ heard \in Byte \cup {Nothing, ResetPulse}

LEMMA TypeOKIs == TypeOK <=> Flags /\ Values
BY Zenon DEF TypeOK, Flags, Values

LEMMA FlagsEstablished == Init => Flags
BY PartAssumption, Zenon DEF Init, Flags

LEMMA FlagsPreserved ==
  ASSUME Flags, [Next]_vars
  PROVE  Flags'
<1> USE DEF Flags, line, slot
<1>1. ASSUME NEW req \in Request, Enter(req)
      PROVE  Flags'
  BY <1>1, Zenon DEF Enter
<1>2. CASE PullLow
  BY <1>2, Zenon DEF PullLow
<1>3. CASE Release
  BY <1>3, Zenon DEF Release
<1>4. CASE Sample
  BY <1>4, Zenon DEF Sample
<1>5. CASE EndSlot
  BY <1>5, Zenon DEF EndSlot
<1>6. CASE Unplug
  BY <1>6, Zenon DEF Unplug
<1>7. CASE Plug
  BY <1>7, Zenon DEF Plug
<1>8. CASE UNCHANGED vars
  BY <1>8, Zenon DEF vars
<1> QED
  BY <1>1, <1>2, <1>3, <1>4, <1>5, <1>6, <1>7, <1>8, Zenon
     DEF Next, PortStep, NextSlot, Return

LEMMA ValuesEstablished == Init => Values /\ HeardSoFar
BY DEF Init, Values, HeardSoFar, NoPull, Byte

LEMMA Answers ==
  ASSUME rose' \in Nat
  PROVE  /\ AnswersRead \subseteq [from : Nat, to : Nat]
         /\ AnswersReset \subseteq [from : Nat, to : Nat]
<1>1. ASSUME NEW us \in Nat
      PROVE  Micros(us) \in Nat
  <2>1. us * CoreClockkHz \in Nat
    BY ClockAssumption
  <2> HIDE DEF Micros
  <2> QED
    BY <2>1 DEF Micros
<1>2. AnswersRead \subseteq [from : Nat, to : Nat]
  BY <1>1, PartAssumption DEF AnswersRead, NoPull
<1>3. AnswersReset \subseteq [from : Nat, to : Nat]
  BY <1>1, PartAssumption DEF AnswersReset
<1> QED
  BY <1>2, <1>3

(* A slot more is a bit more; the eighth completes the byte.               *)
LEMMA HearsBitOf ==
  ASSUME Values, HeardSoFar, call # NoCall, HearsBit
  PROVE  /\ ear' \in Byte /\ ear' < 2 * 2^i
         /\ heard' \in Byte \cup {Nothing, ResetPulse}
<1>1. ear \in Nat /\ ear < 2^i /\ 2^i \in {1, 2, 4, 8, 16, 32, 64, 128}
  BY Powers DEF Values, HeardSoFar, Byte
<1>2. CASE UNCHANGED <<ear, heard>>
  BY <1>1, <1>2 DEF Values
<1>3. CASE /\ ear' = ear \/ ear' = ear + 0 \/ ear' = ear + 2^i
           /\ heard' = ear' \/ heard' = heard
  <2>1. ear' \in Byte /\ ear' < 2 * 2^i
    BY <1>1, <1>3 DEF Byte
  <2> QED
    BY <1>3, <2>1 DEF Values
<1> QED
  BY <1>2, <1>3, Zenon DEF HearsBit

LEMMA ValuesPreserved ==
  ASSUME Slot, Slot', Values, HeardSoFar, [Next]_vars
  PROVE  Values' /\ HeardSoFar'
<1> USE DEF Values
<1>1. step' \in 0..3 /\ t' \in Nat /\ rose' \in Nat
  BY DEF Slot
<1>2. ASSUME NEW req \in Request, Enter(req)
      PROVE  Values' /\ HeardSoFar'
  <2>1. req.byte \in Byte /\ 0 \in Byte /\ 0 < 2^0
    BY RequestAssumption DEF Byte
  <2>2. Values'
    BY <1>1, <1>2, <2>1, SentAssumption DEF Enter, slot, Byte
  <2>3. HeardSoFar'
    BY <1>2, <2>1 DEF Enter, HeardSoFar
  <2> QED
    BY <2>2, <2>3
<1>3. CASE PullLow
  <2>1. pull' \in [from : Nat, to : Nat]
    BY <1>1, <1>3, Answers DEF PullLow
  <2> QED
    BY <1>1, <1>3, <2>1 DEF PullLow, line, HeardSoFar
<1>4. CASE Release
  <2>1. pull' \in [from : Nat, to : Nat]
    BY <1>1, <1>4, Answers DEF Release
  <2>2. ear' \in {0, ear} /\ heard' \in {ResetPulse, heard}
    BY <1>4 DEF Release
  <2>3. 0 \in Byte /\ 0 < 2^i
    BY Positive
  <2>4. Values'
    BY <1>1, <1>4, <2>1, <2>2, <2>3 DEF Release, line
  <2>5. HeardSoFar'
    BY <1>4, <2>2, <2>3 DEF Release, HeardSoFar
  <2> QED
    BY <2>4, <2>5
<1>5. CASE Sample
  BY <1>1, <1>5 DEF Sample, line, HeardSoFar
<1>6. CASE EndSlot
  <2>1. call # NoCall /\ HearsBit
    BY <1>6 DEF EndSlot, Slot
  <2>2. /\ ear' \in Byte /\ ear' < 2 * 2^i
        /\ heard' \in Byte \cup {Nothing, ResetPulse}
    BY <2>1, HearsBitOf
  <2>3. ShiftIn \in Byte /\ byte \div 2 \in Byte
    BY DEF ShiftIn, Byte
  <2>4. UNCHANGED <<sends, pull>> /\ result' = "SET" /\ start' = 0
    BY <1>6 DEF EndSlot, line
  <2>5. CASE NextSlot
    <3>1. i < 7 /\ i' = i + 1 /\ i' \in 0..7
      BY <2>5 DEF NextSlot, LastSlot
    <3>2. call.kind \in {"read", "write"}
      BY <2>1, <2>5, RequestAssumption DEF NextSlot, LastSlot
    <3>3. byte' \in Byte
      BY <2>3, <2>5, <3>2 DEF NextSlot
    <3>4. Values'
      <4>1. UNCHANGED <<call, out, status>>
        BY <2>5, Zenon DEF NextSlot
      <4> QED
        BY <1>1, <2>2, <2>4, <3>1, <3>3, <4>1
    <3>5. HeardSoFar'
      BY <2>2, <3>1, Powers DEF HeardSoFar
    <3> QED
      BY <3>4, <3>5
  <2>6. CASE Return
    <3>1. call' = NoCall /\ i' = 0 /\ byte' = 0 /\ 0 \in Byte
      BY <2>6 DEF Return, Byte
    <3>2. out' \in Byte /\ status' \in {"OK", "ERR_BUS"}
      BY <2>3, <2>6 DEF Return
    <3>3. Values'
      BY <1>1, <2>2, <2>4, <3>1, <3>2
    <3> QED
      BY <3>1, <3>3 DEF HeardSoFar
  <2>8. step # 0 /\ step' = 0
    BY <1>6 DEF EndSlot
  <2> QED
    BY <2>5, <2>6, <2>8, StepsKeepTime DEF Release, Sample
<1>7. CASE Unplug \/ Plug
  <2>1. NoPull \in [from : Nat, to : Nat] /\ 0 \in Byte /\ 0 < 2^i
    BY Positive DEF NoPull
  <2> QED
    BY <1>1, <1>7, <2>1 DEF Unplug, Plug, slot, HeardSoFar
<1>8. CASE UNCHANGED vars
  BY <1>8 DEF vars, line, slot, HeardSoFar
<1> QED
  BY <1>2, <1>3, <1>4, <1>5, <1>6, <1>7, <1>8 DEF Next, PortStep, NextSlot, Return

LEMMA TypesInvariance == Spec => [](Slot /\ Flags /\ Values /\ HeardSoFar)
<1>1. Init => Slot /\ Flags /\ Values /\ HeardSoFar
  BY SlotEstablished, FlagsEstablished, ValuesEstablished
<1>2. Slot /\ Flags /\ Values /\ HeardSoFar /\ [Next]_vars
        => (Slot /\ Flags /\ Values /\ HeardSoFar)'
  BY SlotPreserved, FlagsPreserved, ValuesPreserved
<1> QED
  BY <1>1, <1>2, PTL DEF Spec

(* The variables keep their C types: the loop counter eight slots, the     *)
(* shift register and the part's ear a byte, the status its two values.    *)
THEOREM TypeCorrect == Spec => []TypeOK
<1>1. Slot /\ Flags /\ Values /\ HeardSoFar => TypeOK
  BY TypeOKIs
<1> QED
  BY <1>1, TypesInvariance, PTL

-----------------------------------------------------------------------------
(* No call goes on for ever: the delays end, and there are at most 24 of   *)
(* them.                                                                   *)

(* The steps a call still has before it: the rest of the slot, and four    *)
(* for each slot to come.                                                  *)
Remaining ==
  IF call = NoCall THEN 0
  ELSE (IF call.kind = "reset" THEN 4 ELSE 4 * (8 - i)) - step

LEMMA RemainingIs ==
  ASSUME Slot, Values
  PROVE  /\ Remaining \in Nat /\ Remaining <= 32
         /\ call # NoCall => Remaining >= 1
BY DEF Slot, Values, Remaining

(* The port gets nearer to the return with every step it takes, and        *)
(* nothing that happens during a call takes it back.                       *)
Advances ==
  /\ PortStep => Remaining' < Remaining
  /\ call # NoCall => Remaining' <= Remaining

LEMMA StepAdvances ==
  ASSUME Slot, Values, Slot', Values', [Next]_vars
  PROVE  Advances
<1>1. ASSUME NEW req \in Request, Enter(req)
      PROVE  call = NoCall
  BY <1>1 DEF Enter
<1>2. CASE PullLow \/ Release \/ Sample
  <2>1. call' = call /\ i' = i /\ step' = step + 1 /\ call # NoCall
    BY <1>2 DEF PullLow, Release, Sample, Slot
  <2> QED
    BY <2>1 DEF Advances, Remaining, Slot, Values
<1>3. CASE NextSlot
  <2>1. call' = call /\ i' = i + 1 /\ step' = 0 /\ call # NoCall /\ call.kind # "reset"
    BY <1>3 DEF NextSlot, EndSlot, LastSlot, Slot
  <2> QED
    BY <2>1 DEF Advances, Remaining, Slot, Values
<1>4. CASE Return
  <2>1. call' = NoCall /\ call # NoCall
    BY <1>4 DEF Return, EndSlot, Slot
  <2>2. Remaining' = 0 /\ Remaining >= 1 /\ Remaining \in Nat
    BY <2>1, RemainingIs DEF Remaining
  <2> QED
    BY <2>2 DEF Advances
<1>5. CASE ~PortStep /\ UNCHANGED <<call, i, step>>
  <2>1. Remaining' = Remaining
    BY <1>5 DEF Remaining
  <2> QED
    BY <1>5, <2>1, RemainingIs DEF Advances
<1>6. ASSUME Unplug \/ Plug \/ UNCHANGED vars
      PROVE  UNCHANGED <<call, i, step>>
  BY <1>6 DEF Unplug, Plug, slot, vars
<1> QED
  BY <1>1, <1>2, <1>3, <1>4, <1>5, <1>6, RemainingIs DEF Next, PortStep, Advances

(* A hook call is over after at most 32 steps of the port, 24 of them      *)
(* delays: every step brings it nearer to its return, and a part that      *)
(* comes or goes adds none.  No presence pulse is waited for and no byte   *)
(* is begun again.                                                         *)
THEOREM CallsAreBounded ==
  Spec => [](Remaining \in Nat /\ Remaining <= 32) /\ [][Advances]_vars
<1>1. Slot /\ Values => Remaining \in Nat /\ Remaining <= 32
  BY RemainingIs
<1>2. Slot /\ Values /\ (Slot /\ Values)' /\ [Next]_vars => [Advances]_vars
  BY StepAdvances
<1> QED
  BY <1>1, <1>2, TypesInvariance, PTL DEF Spec

-----------------------------------------------------------------------------
(* The transport contract.  A byte goes over the line bit by bit.          *)

Masks == {1, 2, 4, 8, 16, 32, 64, 128}

LEMMA BitStep ==
  ASSUME NEW b \in Byte, NEW k \in Masks
  PROVE  /\ b % (2 * k) = (b % k) + (k * ((b \div k) % 2))
         /\ b \div (2 * k) = (b \div k) \div 2
<1>1. b \in Nat /\ b <= 255
  BY DEF Byte
<1>2. CASE k = 1
  BY <1>1, <1>2
<1>3. CASE k = 2
  BY <1>1, <1>3
<1>4. CASE k = 4
  BY <1>1, <1>4
<1>5. CASE k = 8
  BY <1>1, <1>5
<1>6. CASE k = 16
  BY <1>1, <1>6
<1>7. CASE k = 32
  BY <1>1, <1>7
<1>8. CASE k = 64
  BY <1>1, <1>8
<1>9. CASE k = 128
  BY <1>1, <1>9
<1> QED
  BY <1>2, <1>3, <1>4, <1>5, <1>6, <1>7, <1>8, <1>9 DEF Masks

(* The shift register of a read holds the bits so far in its upper end.    *)
LEMMA ShiftStep ==
  ASSUME NEW b \in Byte, NEW k \in Masks, NEW y \in Byte, y * k = 256 * (b % k)
  PROVE  ((y \div 2) + (128 * ((b \div k) % 2))) * (2 * k) = 256 * (b % (2 * k))
<1>1. b \in Nat /\ b <= 255 /\ y \in Nat /\ y <= 255
  BY DEF Byte
<1>2. CASE k = 1
  BY <1>1, <1>2
<1>3. CASE k = 2
  BY <1>1, <1>3
<1>4. CASE k = 4
  BY <1>1, <1>4
<1>5. CASE k = 8
  BY <1>1, <1>5
<1>6. CASE k = 16
  BY <1>1, <1>6
<1>7. CASE k = 32
  BY <1>1, <1>7
<1>8. CASE k = 64
  BY <1>1, <1>8
<1>9. CASE k = 128
  BY <1>1, <1>9
<1> QED
  BY <1>2, <1>3, <1>4, <1>5, <1>6, <1>7, <1>8, <1>9 DEF Masks

(* What the contract asks of the clock, the polling loop and the part on   *)
(* top of that: a short pulse ends before a part samples the line, a part  *)
(* holds a 0 until the master has sampled it, and its presence pulse is    *)
(* there when the master looks for it.  The line is not shorted.           *)
Precise ==
  /\ InTolerance
  /\ LineMayStick = FALSE
  /\ Cycles(6) + Poll <= Cycles(15)
  /\ \A h \in Holds : Cycles(15) + 2 * Poll <= Cycles(h)
  /\ \A w \in Waits, p \in Pulses : w <= 70 /\ Cycles(70) + Poll <= Cycles(w + p)

LEMMA DelayIsShort ==
  ASSUME WholeMegahertz, start \in Starts, masked, NEW us \in Durations, NEW e \in Delay(us)
  PROVE  e \in Nat /\ Cycles(us) <= e /\ e < Cycles(us) + Poll
<1>1. e \in Taken[us][start]
  <2>1. Delay(us) = Taken[us][start]
    BY DEF Delay
  <2> QED
    BY <2>1
<1>2. /\ e \in 0..CounterModulus - 1
      /\ \/ e <= Poll
         \/ \E p \in (e - Poll)..(e - 1) : ~Expired(start, p, Cycles(us))
  BY <1>1 DEF Taken, Durations
<1>3. /\ CounterModulus \in Nat \ {0} /\ Poll \in Nat
      /\ start \in Nat /\ start < CounterModulus
      /\ e \in Nat /\ e < CounterModulus
  BY <1>2, ClockAssumption
<1>4. Cycles(us) \in Nat /\ 0 < Cycles(us)
  <2>1. us \in Nat /\ 0 < us
    BY DEF Durations
  <2>2. Cycles(us) \in Nat /\ Cycles(us) * 1000 = us * CoreClockkHz
    BY <2>1, WholeMicroseconds
  <2>3. CoreClockkHz \in Nat /\ 0 < CoreClockkHz
    BY ClockAssumption
  <2>4. 0 < us * CoreClockkHz
    BY <2>3 DEF Durations
  <2> HIDE DEF Cycles
  <2> QED
    BY <2>2, <2>4
<1>5. Cycles(us) <= e
  BY DelayTakes
<1> HIDE DEF Cycles
<1>6. CASE e <= Poll
  BY <1>3, <1>4, <1>5, <1>6
<1>7. CASE e > Poll
  <2>1. PICK p \in (e - Poll)..(e - 1) : ~Expired(start, p, Cycles(us))
    BY <1>2, <1>3, <1>7
  <2>2. p \in Nat /\ p < CounterModulus /\ e <= p + Poll
    BY <1>3, <1>7, <2>1
  <2>3. (((start + p) % CounterModulus) - start) % CounterModulus = p
    BY <1>3, <2>2, Elapsed
  <2>4. p < Cycles(us)
    BY <1>4, <2>1, <2>2, <2>3 DEF Expired
  <2> QED
    BY <1>3, <1>4, <1>5, <2>2, <2>4
<1> QED
  BY <1>3, <1>6, <1>7

(* The steps that end a delay, and between which bounds.                   *)
LEMMA Punctual ==
  ASSUME WholeMegahertz, Slot, Masked, Release \/ Sample \/ NextSlot \/ Return
  PROVE  /\ Delays[step] \in Durations /\ t' \in Nat /\ t \in Nat
         /\ t + Cycles(Delays[step]) <= t' /\ t' < (t + Cycles(Delays[step])) + Poll
<1>1. step \in 1..Len(Delays) /\ Passes
  BY StepsPass
<1>2. Delays[step] \in Durations /\ step # 0 /\ t \in Nat /\ start \in Starts
  BY <1>1, DelaysOfSlot DEF Slot
<1>3. masked
  BY <1>2, Zenon DEF Masked
<1>4. PICK e \in Delay(Delays[step]) : t' = t + e
  BY <1>1 DEF Passes
<1>5. e \in Nat /\ Cycles(Delays[step]) <= e /\ e < Cycles(Delays[step]) + Poll
  BY <1>2, <1>3, DelayIsShort
<1>6. Cycles(Delays[step]) \in Nat /\ Poll \in Nat
  BY <1>2, WholeMicroseconds, ClockAssumption DEF Durations
<1> HIDE DEF Cycles
<1> QED
  BY <1>2, <1>4, <1>5, <1>6

(* What the slots of a call have come to, whatever the call.               *)
Shape ==
  /\ ~stuck
  /\ step = 2 => rose = t
  /\ call.kind \in {"write", "read"} => heard = Nothing

LEMMA ShapeEstablished ==
  ASSUME Precise, Init
  PROVE  Shape
<1>1. ~stuck
  BY Zenon DEF Init, Precise
<1>2. step = 0 /\ call.kind = "none"
  BY DEF Init, NoCall
<1> QED
  BY <1>1, <1>2 DEF Shape

LEMMA KindsOfCalls ==
  ASSUME Slot, call # NoCall
  PROVE  call.kind \in {"reset", "write", "read"} /\ call.byte \in Byte
BY RequestAssumption DEF Slot

LEMMA ShapePreserved ==
  ASSUME InTolerance, Slot, Masked, Shape, [Next]_vars
  PROVE  Shape'
<1>1. ~stuck'
  <2>1. stuck' = stuck
    BY Zenon DEF Next, PortStep, PullLow, Release, Sample, NextSlot, Return, EndSlot, Enter,
                 Unplug, Plug, vars, line
  <2> QED
    BY <2>1, Zenon DEF Shape
<1>2. ASSUME NEW req \in Request, Enter(req)
      PROVE  Shape'
  BY <1>1, <1>2 DEF Enter, slot, Slot, Shape
<1>3. CASE PullLow
  BY <1>1, <1>3 DEF PullLow, Shape
<1>4. CASE Release
  <2>1. call' = call /\ rose' = t'
    BY <1>4 DEF Release
  <2>2. call.kind \in {"write", "read"} => heard' = heard
    <3>1. CASE HearsReset
      BY <1>4, <3>1, ResetsOnly
    <3>2. CASE ~HearsReset
      BY <1>4, <3>2, Zenon DEF Release
    <3> QED
      BY <3>1, <3>2
  <2> QED
    BY <1>1, <2>1, <2>2 DEF Shape
<1>5. CASE Sample
  BY <1>1, <1>5 DEF Sample, Shape
<1>6. CASE NextSlot
  <2>1. call' = call /\ step' = 0 /\ ~LastSlot /\ HearsBit
    BY <1>6, Zenon DEF NextSlot, EndSlot
  <2>2. heard' = heard
    BY <2>1, Zenon DEF HearsBit
  <2> QED
    BY <1>1, <2>1, <2>2 DEF Shape
<1>7. CASE Return
  BY <1>1, <1>7 DEF Return, EndSlot, NoCall, Shape
<1>8. CASE Unplug \/ Plug \/ UNCHANGED vars
  BY <1>1, <1>8 DEF Unplug, Plug, vars, slot, Shape
<1> QED
  BY <1>2, <1>3, <1>4, <1>5, <1>6, <1>7, <1>8 DEF Next, PortStep

(* The write of a byte: the next bit is the last one of the shift          *)
(* register, the line rises before the part samples a 1 and after it has   *)
(* sampled a 0, and the part has heard the bits before.                    *)
WriteSlot ==
  call.kind = "write" =>
    /\ byte = call.byte \div (2^i)
    /\ step = 2 => IF byte % 2 = 1 THEN rose < Cycles(15) ELSE Cycles(60) <= rose
    /\ steady /\ present => ear = call.byte % (2^i)

LEMMA WriteSlotEstablished == Init => WriteSlot
BY DEF Init, NoCall, WriteSlot

(* The bit the part hears is the one that was meant.                       *)
LEMMA HearsTheBit ==
  ASSUME Precise, Slot, Values, Shape, WriteSlot, call.kind = "write", present, step = 2, HearsBit
  PROVE  ear' = ear + ((2^i) * (byte % 2))
<1>1. PICK s \in {Micros(15), Micros(60)} :
        ear' = ear + (IF stuck \/ s <= rose THEN 0 ELSE 2^i)
  BY Zenon DEF HearsBit
<1>2. ~stuck
  BY Zenon DEF Shape
<1>3. ear' = ear + (IF s <= rose THEN 0 ELSE 2^i)
  BY <1>1, <1>2
<1>4. /\ Cycles(15) \in Nat /\ Cycles(60) \in Nat /\ rose \in Nat
      /\ Cycles(15) <= Cycles(60) /\ s \in {Cycles(15), Cycles(60)}
  <2>1. Micros(15) = Cycles(15) /\ Micros(60) = Cycles(60) /\ Cycles(15) \in Nat /\ Cycles(60) \in Nat
    BY WholeMicroseconds DEF Precise, InTolerance
  <2>2. Cycles(15) <= Cycles(60)
    BY <2>1, Monotone DEF Precise, InTolerance
  <2> HIDE DEF Cycles
  <2> QED
    BY <1>1, <2>1, <2>2 DEF Values
<1>5. 2^i \in Nat /\ byte \in Nat /\ ear \in Nat
  <2>1. 2^i \in {1, 2, 4, 8, 16, 32, 64, 128}
    BY Powers DEF Values
  <2> QED
    BY <2>1 DEF Values, Byte
<1> DEFINE k == 2^i
<1> HIDE DEF k, Cycles
<1>6. CASE byte % 2 = 1
  <2>1. rose < Cycles(15)
    BY <1>6 DEF WriteSlot
  <2>2. ear' = ear + k
    BY <1>3, <1>4, <2>1 DEF k
  <2>3. k * (byte % 2) = k
    BY <1>5, <1>6 DEF k
  <2> QED
    BY <2>2, <2>3 DEF k
<1>7. CASE byte % 2 = 0
  <2>1. Cycles(60) <= rose
    BY <1>7 DEF WriteSlot
  <2>2. ear' = ear + 0
    BY <1>3, <1>4, <2>1
  <2>3. k * (byte % 2) = 0
    BY <1>5, <1>7 DEF k
  <2> QED
    BY <2>2, <2>3 DEF k
<1> QED
  BY <1>5, <1>6, <1>7

LEMMA PowersAre == ASSUME Values PROVE 2^i \in Masks
BY Powers DEF Values, Masks

LEMMA WriteSlotPreserved ==
  ASSUME Precise, Slot, Masked, Values, Shape, WriteSlot, [Next]_vars
  PROVE  WriteSlot'
<1> SUFFICES ASSUME call'.kind = "write" PROVE WriteSlot'
  BY DEF WriteSlot
<1>0. Slot' /\ WholeMegahertz /\ InTolerance
  BY SlotPreserved DEF Precise, InTolerance
<1>1. ASSUME NEW req \in Request, Enter(req)
      PROVE  WriteSlot'
  <2>1. /\ call' = req /\ byte' = req.byte /\ i' = 0 /\ ear' = 0
        /\ step' = step /\ step = 0 /\ req.byte \in Byte
    BY <1>1, RequestAssumption DEF Enter, slot, Slot
  <2>2. req.byte \in Nat /\ 2^0 = 1
    BY <2>1 DEF Byte
  <2>3. req.byte \div (2^0) = req.byte /\ req.byte % (2^0) = 0
    BY <2>2
  <2> QED
    BY <2>1, <2>3 DEF WriteSlot
<1>2. CASE PullLow
  <2>1. UNCHANGED <<call, byte, i, ear, present, steady>> /\ step' = 1
    BY <1>2, Zenon DEF PullLow, line
  <2> QED
    BY <2>1 DEF WriteSlot
<1>3. CASE Release
  <2>1. step = 1 /\ t = 0 /\ rose' = t' /\ call.kind = "write" /\ UNCHANGED <<call, byte, i, present, steady>>
    BY <1>3 DEF Release, line, Slot
  <2>2. ear' = ear
    <3>1. ~HearsReset
      BY <1>0, <1>3, <2>1, ResetsOnly
    <3> QED
      BY <1>3, <3>1, Zenon DEF Release
  <2>3. /\ t' \in Nat /\ Cycles(Delays[1]) <= t' /\ t' < Cycles(Delays[1]) + Poll
    <3>1. /\ t' \in Nat /\ t + Cycles(Delays[1]) <= t' /\ t' < (t + Cycles(Delays[1])) + Poll
          /\ Delays[1] \in Durations
      BY <1>0, <1>3, <2>1, Punctual
    <3>2. Cycles(Delays[1]) \in Nat
      BY <1>0, <3>1, WholeMicroseconds DEF Durations
    <3> HIDE DEF Cycles
    <3> QED
      BY <2>1, <3>1, <3>2
  <2>4. IF byte % 2 = 1 THEN t' < Cycles(15) ELSE Cycles(60) <= t'
    <3>1. Cycles(6) + Poll <= Cycles(15) /\ Cycles(6) \in Nat /\ Cycles(15) \in Nat /\ Poll \in Nat
      BY CyclesAdd, ClockAssumption DEF Precise
    <3>2. Delays[1] = IF byte % 2 = 1 THEN 6 ELSE 60
      BY <2>1 DEF Delays
    <3> HIDE DEF Cycles
    <3> QED
      BY <2>3, <3>1, <3>2
  <2> HIDE DEF Cycles
  <2> QED
    BY <2>1, <2>2, <2>4 DEF WriteSlot
<1>4. CASE Sample
  <2>1. UNCHANGED <<call, byte, i, ear, present, steady>> /\ step' = 3
    BY <1>4, Zenon DEF Sample, line
  <2> QED
    BY <2>1 DEF WriteSlot
<1>5. CASE NextSlot
  <2>1. /\ call' = call /\ i' = i + 1 /\ byte' = byte \div 2 /\ step' = 0 /\ call.kind = "write"
        /\ step = Len(Delays) /\ ~LastSlot /\ call.byte \in Byte
    BY <1>5, KindsOfCalls DEF NextSlot, EndSlot, Slot
  <2>2. HearsBit /\ UNCHANGED <<present, steady>>
    BY <1>5, Zenon DEF NextSlot, EndSlot, line
  <2>3. i < 7 /\ step = 2
    BY <2>1 DEF LastSlot, Values, Delays
  <2> DEFINE k == 2^i
  <2>4. k \in Masks /\ 2^(i + 1) = 2 * k
    BY <2>3, PowersAre, Powers DEF Values
  <2> HIDE DEF k
  <2>5. byte = call.byte \div k
    BY <2>1 DEF WriteSlot, k
  <2>6. /\ call.byte % (2 * k) = (call.byte % k) + (k * ((call.byte \div k) % 2))
        /\ call.byte \div (2 * k) = (call.byte \div k) \div 2
    BY <2>1, <2>4, BitStep
  <2>7. steady /\ present => ear' = call.byte % (2 * k)
    <3> SUFFICES ASSUME steady, present PROVE ear' = call.byte % (2 * k)
      OBVIOUS
    <3>1. ear' = ear + (k * (byte % 2))
      BY <2>1, <2>2, <2>3, HearsTheBit DEF k
    <3>2. ear = call.byte % k
      BY <2>1 DEF WriteSlot, k
    <3> QED
      BY <2>5, <2>6, <3>1, <3>2
  <2>8. steady' /\ present' => ear' = call.byte % (2 * k)
    BY <2>2, <2>7, Zenon
  <2>9. 2^i' = 2 * k
    BY <2>1, <2>4
  <2> QED
    BY <2>1, <2>5, <2>6, <2>8, <2>9 DEF WriteSlot
<1>6. CASE Return
  BY <1>6 DEF Return, NoCall
<1>7. CASE Unplug \/ Plug
  <2>1. UNCHANGED <<call, byte, i, step, rose>> /\ ~steady'
    BY <1>7, Zenon DEF Unplug, Plug, slot
  <2> QED
    BY <2>1 DEF WriteSlot
<1>8. CASE UNCHANGED vars
  <2>1. UNCHANGED <<call, byte, i, step, rose, steady, present, ear>>
    BY <1>8, Zenon DEF vars, slot, line
  <2> QED
    BY <2>1 DEF WriteSlot
<1> QED
  BY <1>1, <1>2, <1>3, <1>4, <1>5, <1>6, <1>7, <1>8 DEF Next, PortStep

(* The read of a byte: a line nobody pulls low reads as ones; a 0 is still *)
(* on it when the master samples, and the bits before are in the upper end *)
(* of the shift register.                                                  *)
OnTheWire == IF present THEN sends ELSE 255
NextBit   == (OnTheWire \div (2^i)) % 2

ReadSlot ==
  call.kind = "read" /\ steady =>
    /\ byte * (2^i) = 256 * (OnTheWire % (2^i))
    /\ step \in {1, 2} =>
         IF NextBit = 0 THEN pull.from = 0 /\ Cycles(15) + 2 * Poll <= pull.to
                        ELSE pull = NoPull
    /\ step = 2 => t < Cycles(6) + Poll
    /\ step = 3 => result = IF NextBit = 0 THEN "RESET" ELSE "SET"

LEMMA ReadSlotEstablished == Init => ReadSlot
BY DEF Init, NoCall, ReadSlot

LEMMA WireIsByte ==
  ASSUME Values
  PROVE  OnTheWire \in Byte /\ NextBit \in {0, 1}
<1>1. OnTheWire \in Byte
  BY SentAssumption DEF Values, OnTheWire, Byte
<1>2. 2^i \in {1, 2, 4, 8, 16, 32, 64, 128}
  BY Powers DEF Values
<1> DEFINE k == 2^i
<1>3. k \in Nat \ {0}
  BY <1>2
<1> HIDE DEF k
<1>4. OnTheWire \div k \in Nat
  BY <1>1, <1>3 DEF Byte
<1>5. (OnTheWire \div k) % 2 \in {0, 1}
  BY <1>4
<1> QED
  BY <1>1, <1>5 DEF NextBit, k

(* What the part does with the line when a read slot begins.               *)
LEMMA AnswersTheBit ==
  ASSUME Precise, Values, call.kind = "read", NEW a \in AnswersRead
  PROVE  IF NextBit = 0 THEN a.from = 0 /\ Cycles(15) + 2 * Poll <= a.to
                        ELSE a = NoPull
<1>1. CASE present
  <2>1. OnTheWire = sends
    BY <1>1 DEF OnTheWire
  <2>2. CASE NextBit = 0
    <3>1. (sends \div (2^i)) % 2 = 0
      BY <2>1, <2>2 DEF NextBit
    <3>2. PICK h \in Holds : a = [from |-> 0, to |-> Micros(h)]
      BY <1>1, <3>1 DEF AnswersRead
    <3>3. Micros(h) = Cycles(h)
      BY PartAssumption, WholeMicroseconds DEF Precise, InTolerance
    <3>4. Cycles(15) + 2 * Poll <= Cycles(h)
      BY DEF Precise
    <3> QED
      BY <2>2, <3>2, <3>3, <3>4
  <2>3. CASE NextBit # 0
    <3>1. (sends \div (2^i)) % 2 # 0
      BY <2>1, <2>3 DEF NextBit
    <3> QED
      BY <2>3, <3>1 DEF AnswersRead
  <2> QED
    BY <2>2, <2>3
<1>2. CASE ~present
  <2>1. OnTheWire = 255
    BY <1>2 DEF OnTheWire
  <2>2. 2^i \in {1, 2, 4, 8, 16, 32, 64, 128}
    BY Powers DEF Values
  <2>3. (255 \div (2^i)) % 2 = 1
    BY <2>2
  <2>4. NextBit # 0
    BY <2>1, <2>3 DEF NextBit
  <2> QED
    BY <1>2, <2>4 DEF AnswersRead
<1> QED
  BY <1>1, <1>2

(* What the master samples.                                                *)
LEMMA SamplesTheBit ==
  ASSUME Precise, Slot, Masked, Values, Shape, ReadSlot, call.kind = "read", steady, Sample
  PROVE  result' = IF NextBit = 0 THEN "RESET" ELSE "SET"
<1>1. step = 2 /\ Delays[2] = 9 /\ result' = IF Low(t') THEN "RESET" ELSE "SET"
  BY DEF Sample, Delays
<1>2. ~stuck /\ ~driven
  <2>1. step # 1
    BY <1>1
  <2> QED
    BY <2>1, Zenon DEF Shape, Masked
<1>3. Low(t') <=> Pulls(t')
  BY <1>2, Zenon DEF Low
<1>4. t' \in Nat /\ t \in Nat /\ t' < (t + Cycles(9)) + Poll
  BY <1>1, Punctual DEF Precise, InTolerance
<1>5. t < Cycles(6) + Poll
  BY <1>1 DEF ReadSlot
<1>6. t' < Cycles(15) + 2 * Poll
  <2>1. Cycles(6) \in Nat /\ Cycles(9) \in Nat /\ Cycles(6) + Cycles(9) = Cycles(15) /\ Poll \in Nat
    BY CyclesAdd, ClockAssumption
  <2> HIDE DEF Cycles
  <2> QED
    BY <1>4, <1>5, <2>1
<1>7. CASE NextBit = 0
  <2>1. pull.from = 0 /\ Cycles(15) + 2 * Poll <= pull.to /\ pull.to \in Nat
    BY <1>1, <1>7 DEF ReadSlot, Values
  <2>2. Pulls(t')
    <3>1. Cycles(15) \in Nat /\ Poll \in Nat
      BY CyclesAdd, ClockAssumption
    <3> HIDE DEF Cycles
    <3> QED
      BY <1>4, <1>6, <2>1, <3>1 DEF Pulls
  <2> QED
    BY <1>1, <1>3, <1>7, <2>2
<1>8. CASE NextBit # 0
  <2>1. pull = NoPull
    BY <1>1, <1>8 DEF ReadSlot
  <2>2. ~Pulls(t')
    BY <1>4, <2>1 DEF Pulls, NoPull
  <2> QED
    BY <1>1, <1>3, <1>8, <2>2
<1> QED
  BY <1>7, <1>8

LEMMA ShiftsTheBitIn ==
  ASSUME Slot, Values, ReadSlot, call.kind = "read", steady, EndSlot
  PROVE  ShiftIn * (2 * 2^i) = 256 * (OnTheWire % (2 * 2^i))
<1>1. step = 3
  BY DEF EndSlot, Delays
<1>2. result = IF NextBit = 0 THEN "RESET" ELSE "SET"
  BY <1>1 DEF ReadSlot
<1>3. ShiftIn = (byte \div 2) + (128 * NextBit)
  BY <1>2, WireIsByte DEF ShiftIn
<1> DEFINE k == 2^i
<1>4. k \in Masks
  BY PowersAre
<1>5. byte \in Byte /\ byte * k = 256 * (OnTheWire % k) /\ OnTheWire \in Byte
  BY WireIsByte DEF ReadSlot, Values
<1>6. NextBit = (OnTheWire \div k) % 2
  BY DEF NextBit
<1> HIDE DEF k
<1>7. ((byte \div 2) + (128 * ((OnTheWire \div k) % 2))) * (2 * k) = 256 * (OnTheWire % (2 * k))
  BY <1>4, <1>5, ShiftStep
<1> QED
  BY <1>3, <1>6, <1>7 DEF k

LEMMA ReadSlotPreserved ==
  ASSUME Precise, Slot, Masked, Values, Shape, ReadSlot, [Next]_vars
  PROVE  ReadSlot'
<1> SUFFICES ASSUME call'.kind = "read", steady' PROVE ReadSlot'
  BY DEF ReadSlot
<1>1. ASSUME NEW req \in Request, Enter(req)
      PROVE  ReadSlot'
  <2>1. call' = req /\ i' = 0 /\ byte' = 0 /\ step' = 0
    BY <1>1 DEF Enter, slot, Slot
  <2>2. sends' \in Byte
    BY <1>1, SentAssumption DEF Enter
  <2>3. OnTheWire' \in Byte
    BY <2>2 DEF OnTheWire, Byte
  <2> DEFINE wire == OnTheWire'
  <2>4. wire % (2^0) = 0
    <3>1. wire \in Nat /\ 2^0 = 1
      BY <2>3 DEF Byte
    <3> HIDE DEF wire
    <3> QED
      BY <3>1
  <2>5. 0 * (2^0) = 256 * (wire % (2^0))
    BY <2>4
  <2> QED
    BY <2>1, <2>5 DEF ReadSlot
<1>2. ASSUME UNCHANGED <<call, i, present, sends, steady>>
      PROVE  UNCHANGED <<OnTheWire, NextBit>> /\ call.kind = "read" /\ steady
  <2>1. OnTheWire' = OnTheWire
    BY <1>2 DEF OnTheWire
  <2>2. NextBit' = NextBit
    BY <1>2, <2>1 DEF NextBit
  <2>3. steady
    BY <1>2, Zenon
  <2> QED
    BY <1>2, <2>1, <2>2, <2>3
<1>3. CASE PullLow
  <2>1. UNCHANGED <<call, i, present, sends, steady>>
    BY <1>3, Zenon DEF PullLow, line
  <2>2. UNCHANGED <<OnTheWire, NextBit>> /\ call.kind = "read" /\ steady
    BY <1>2, <2>1
  <2>3. pull' \in AnswersRead
    BY <1>3, Zenon DEF PullLow
  <2>4. IF NextBit = 0 THEN pull'.from = 0 /\ Cycles(15) + 2 * Poll <= pull'.to
                       ELSE pull' = NoPull
    BY <2>2, <2>3, AnswersTheBit
  <2>5. step' = 1 /\ byte' = byte
    BY <1>3 DEF PullLow
  <2> HIDE DEF Cycles, NextBit, OnTheWire
  <2> QED
    BY <2>1, <2>2, <2>4, <2>5 DEF ReadSlot
<1>4. CASE Release
  <2>1. UNCHANGED <<call, i, present, sends, steady>>
    BY <1>4, Zenon DEF Release, line
  <2>2. UNCHANGED <<OnTheWire, NextBit>> /\ call.kind = "read" /\ steady
    BY <1>2, <2>1
  <2>3. step = 1 /\ step' = 2 /\ byte' = byte /\ t = 0 /\ Delays[1] = 6
    BY <1>4, <2>2 DEF Release, Slot, Delays
  <2>4. pull' = pull
    <3>1. ~HearsReset
      BY <1>4, <2>2, ResetsOnly DEF Precise
    <3> QED
      BY <1>4, <3>1, Zenon DEF Release
  <2>5. t' < Cycles(6) + Poll
    <3>1. t' < (t + Cycles(6)) + Poll /\ Cycles(6) \in Nat /\ Poll \in Nat
      BY <1>4, <2>3, Punctual, CyclesAdd, ClockAssumption DEF Precise, InTolerance
    <3> HIDE DEF Cycles
    <3> QED
      BY <2>3, <3>1
  <2> HIDE DEF Cycles, NextBit, OnTheWire
  <2> QED
    BY <2>1, <2>2, <2>3, <2>4, <2>5 DEF ReadSlot
<1>5. CASE Sample
  <2>1. UNCHANGED <<call, i, present, sends, steady>>
    BY <1>5, Zenon DEF Sample, line
  <2>2. UNCHANGED <<OnTheWire, NextBit>> /\ call.kind = "read" /\ steady
    BY <1>2, <2>1
  <2>3. step' = 3 /\ byte' = byte
    BY <1>5 DEF Sample
  <2>4. result' = IF NextBit = 0 THEN "RESET" ELSE "SET"
    BY <1>5, <2>2, SamplesTheBit
  <2> HIDE DEF NextBit, OnTheWire
  <2> QED
    BY <2>1, <2>2, <2>3, <2>4 DEF ReadSlot
<1>6. CASE NextSlot
  <2>1. UNCHANGED <<present, sends, steady>> /\ EndSlot
    BY <1>6, Zenon DEF NextSlot, EndSlot, line
  <2>2. call' = call /\ i' = i + 1 /\ step' = 0 /\ call.kind = "read" /\ byte' = ShiftIn /\ i < 7
    BY <1>6 DEF NextSlot, EndSlot, LastSlot, Values
  <2>3. steady
    BY <2>1, Zenon
  <2>4. OnTheWire' = OnTheWire
    BY <2>1 DEF OnTheWire
  <2>5. 2^i' = 2 * 2^i
    BY <2>2, Powers DEF Values
  <2>6. ShiftIn * (2 * 2^i) = 256 * (OnTheWire % (2 * 2^i))
    BY <2>1, <2>2, <2>3, ShiftsTheBitIn
  <2> HIDE DEF OnTheWire
  <2> QED
    BY <2>2, <2>4, <2>5, <2>6 DEF ReadSlot
<1>7. CASE Return
  BY <1>7 DEF Return, NoCall
<1>8. CASE Unplug \/ Plug
  BY <1>8, Zenon DEF Unplug, Plug
<1>9. CASE UNCHANGED vars
  <2>1. UNCHANGED <<call, i, present, sends, steady, byte, step, pull, t, result>>
    BY <1>9, Zenon DEF vars, slot, line
  <2>2. UNCHANGED <<OnTheWire, NextBit>> /\ call.kind = "read" /\ steady
    BY <1>2, <2>1
  <2> HIDE DEF NextBit, OnTheWire
  <2> QED
    BY <2>1, <2>2 DEF ReadSlot
<1> QED
  BY <1>1, <1>3, <1>4, <1>5, <1>6, <1>7, <1>8, <1>9 DEF Next, PortStep

(* The reset: the part hears the pulse, and its answer is on the line when *)
(* the master looks for it.                                                *)
ResetSlot ==
  call.kind = "reset" /\ steady =>
    /\ step \in {0, 1} => heard = Nothing
    /\ step = 1 => pull = NoPull
    /\ step \in {2, 3} =>
         IF present THEN heard = ResetPulse ELSE heard = Nothing /\ pull = NoPull
    /\ step = 2 /\ present =>
         pull.from <= rose + Cycles(70) /\ (rose + Cycles(70)) + Poll <= pull.to
    /\ step = 3 => result = IF present THEN "RESET" ELSE "SET"

LEMMA ResetSlotEstablished == Init => ResetSlot
BY DEF Init, NoCall, ResetSlot

LEMMA AnswersInTime ==
  ASSUME Precise, rose' \in Nat, NEW a \in AnswersReset
  PROVE  a.from <= rose' + Cycles(70) /\ (rose' + Cycles(70)) + Poll <= a.to
<1>1. PICK w \in Waits, p \in Pulses :
        a = [from |-> rose' + Micros(w), to |-> rose' + Micros(w + p)]
  BY DEF AnswersReset
<1>2. w \in Nat /\ p \in Nat /\ w + p \in Nat
  BY PartAssumption
<1>3. w <= 70 /\ Cycles(70) + Poll <= Cycles(w + p)
  BY DEF Precise
<1>4. Micros(w) \in Nat /\ Micros(w) <= Cycles(70)
  BY <1>2, <1>3, Monotone DEF Precise, InTolerance
<1>5. Micros(w + p) = Cycles(w + p) /\ Cycles(w + p) \in Nat
  BY <1>2, WholeMicroseconds DEF Precise, InTolerance
<1>6. Cycles(70) \in Nat /\ Poll \in Nat
  BY CyclesAdd, ClockAssumption
<1> HIDE DEF Cycles, Micros
<1>7. a.from = rose' + Micros(w) /\ a.to = rose' + Micros(w + p)
  BY <1>1
<1> QED
  BY <1>3, <1>4, <1>5, <1>6, <1>7

(* The pulse of a reset is long enough for a part to hear it.              *)
LEMMA PartHearsReset ==
  ASSUME Precise, Slot, Masked, Release, call.kind = "reset"
  PROVE  rose' \in Nat /\ (HearsReset <=> present)
<1>1. step = 1 /\ t = 0 /\ rose' = t' /\ Delays[1] = 480
  BY DEF Release, Slot, Delays
<1>2. t' \in Nat /\ t + Cycles(480) <= t'
  BY <1>1, Punctual DEF Precise, InTolerance
<1>3. Micros(480) = Cycles(480) /\ Cycles(480) \in Nat
  BY WholeMicroseconds DEF Precise, InTolerance
<1> HIDE DEF Cycles, Micros
<1>4. rose' >= Micros(480)
  BY <1>1, <1>2, <1>3
<1>5. HearsReset <=> present
  BY <1>4, Zenon DEF HearsReset
<1> QED
  BY <1>1, <1>2, <1>5

LEMMA SamplesThePresence ==
  ASSUME Precise, Slot, Masked, Values, Shape, ResetSlot, call.kind = "reset", steady, Sample
  PROVE  result' = IF present THEN "RESET" ELSE "SET"
<1>1. step = 2 /\ Delays[2] = 70 /\ result' = IF Low(t') THEN "RESET" ELSE "SET"
  BY DEF Sample, Delays
<1>2. ~stuck /\ ~driven
  <2>1. step # 1
    BY <1>1
  <2> QED
    BY <2>1, Zenon DEF Shape, Masked
<1>3. Low(t') <=> Pulls(t')
  BY <1>2, Zenon DEF Low
<1>4. /\ t' \in Nat /\ t \in Nat /\ rose = t
      /\ t + Cycles(70) <= t' /\ t' < (t + Cycles(70)) + Poll
  BY <1>1, Punctual DEF Precise, InTolerance, Shape
<1>5. CASE present
  <2>1. pull.from <= rose + Cycles(70) /\ (rose + Cycles(70)) + Poll <= pull.to
    BY <1>1, <1>5 DEF ResetSlot
  <2>2. pull.from \in Nat /\ pull.to \in Nat /\ Cycles(70) \in Nat /\ Poll \in Nat
    BY CyclesAdd, ClockAssumption DEF Values
  <2>3. Pulls(t')
    <3> HIDE DEF Cycles
    <3> QED
      BY <1>4, <2>1, <2>2 DEF Pulls
  <2> QED
    BY <1>1, <1>3, <1>5, <2>3
<1>6. CASE ~present
  <2>1. pull = NoPull
    BY <1>1, <1>6 DEF ResetSlot
  <2>2. ~Pulls(t')
    BY <1>4, <2>1 DEF Pulls, NoPull
  <2> QED
    BY <1>1, <1>3, <1>6, <2>2
<1> QED
  BY <1>5, <1>6

LEMMA ResetSlotPreserved ==
  ASSUME Precise, Slot, Masked, Values, Shape, ResetSlot, [Next]_vars
  PROVE  ResetSlot'
<1> SUFFICES ASSUME call'.kind = "reset", steady' PROVE ResetSlot'
  BY DEF ResetSlot
<1>1. ASSUME NEW req \in Request, Enter(req)
      PROVE  ResetSlot'
  <2>1. step' = 0 /\ heard' = Nothing
    BY <1>1 DEF Enter, slot, Slot
  <2> QED
    BY <2>1 DEF ResetSlot
<1>2. ASSUME UNCHANGED <<call, present, steady>>
      PROVE  call.kind = "reset" /\ steady
  BY <1>2, Zenon
<1>3. CASE PullLow
  <2>1. UNCHANGED <<call, present, steady, heard>> /\ pull' \in AnswersRead
    BY <1>3, Zenon DEF PullLow, line
  <2>2. call.kind = "reset" /\ steady
    BY <1>2, <2>1
  <2>3. step = 0 /\ step' = 1
    BY <1>3 DEF PullLow
  <2>4. pull' = NoPull
    BY <2>1, <2>2 DEF AnswersRead
  <2>5. heard = Nothing
    BY <2>2, <2>3 DEF ResetSlot
  <2> QED
    BY <2>1, <2>3, <2>4, <2>5 DEF ResetSlot
<1>4. CASE Release
  <2>1. UNCHANGED <<call, present, steady>>
    BY <1>4, Zenon DEF Release, line
  <2>2. call.kind = "reset" /\ steady
    BY <1>2, <2>1
  <2>3. step = 1 /\ step' = 2
    BY <1>4 DEF Release
  <2>4. rose' \in Nat /\ (HearsReset <=> present)
    BY <1>4, <2>2, PartHearsReset
  <2>5. CASE present
    <3>1. heard' = ResetPulse /\ pull' \in AnswersReset
      BY <1>4, <2>4, <2>5, Zenon DEF Release
    <3>2. pull'.from <= rose' + Cycles(70) /\ (rose' + Cycles(70)) + Poll <= pull'.to
      BY <2>4, <3>1, AnswersInTime
    <3>3. present'
      BY <2>1, <2>5, Zenon
    <3> HIDE DEF Cycles
    <3> QED
      BY <2>3, <3>1, <3>2, <3>3 DEF ResetSlot
  <2>6. CASE ~present
    <3>1. heard' = heard /\ pull' = pull
      BY <1>4, <2>4, <2>6, Zenon DEF Release
    <3>2. ~present'
      BY <2>1, <2>6, Zenon
    <3>3. heard = Nothing /\ pull = NoPull
      BY <2>2, <2>3 DEF ResetSlot
    <3> QED
      BY <2>3, <3>1, <3>2, <3>3 DEF ResetSlot
  <2> QED
    BY <2>5, <2>6
<1>5. CASE Sample
  <2>1. UNCHANGED <<call, present, steady, heard, pull>>
    BY <1>5, Zenon DEF Sample, line
  <2>2. call.kind = "reset" /\ steady
    BY <1>2, <2>1
  <2>3. step = 2 /\ step' = 3
    BY <1>5 DEF Sample
  <2>4. result' = IF present THEN "RESET" ELSE "SET"
    BY <1>5, <2>2, SamplesThePresence
  <2>5. IF present THEN heard = ResetPulse ELSE heard = Nothing /\ pull = NoPull
    BY <2>2, <2>3 DEF ResetSlot
  <2> QED
    BY <2>1, <2>3, <2>4, <2>5 DEF ResetSlot
<1>6. CASE NextSlot
  <2>1. call' = call /\ ~LastSlot
    BY <1>6, Zenon DEF NextSlot
  <2> QED
    BY <2>1 DEF LastSlot
<1>7. CASE Return
  BY <1>7 DEF Return, NoCall
<1>8. CASE Unplug \/ Plug
  BY <1>8, Zenon DEF Unplug, Plug
<1>9. CASE UNCHANGED vars
  <2>1. UNCHANGED <<call, present, steady, heard, pull, step, rose, result>>
    BY <1>9, Zenon DEF vars, slot, line
  <2>2. call.kind = "reset" /\ steady
    BY <1>2, <2>1
  <2> HIDE DEF Cycles
  <2> QED
    BY <2>1, <2>2 DEF ResetSlot
<1> QED
  BY <1>1, <1>3, <1>4, <1>5, <1>6, <1>7, <1>8, <1>9 DEF Next, PortStep

(* The invariant: what every conjunct above keeps, it keeps with the others. *)
IInv ==
  /\ Slot /\ Masked /\ Flags /\ Values /\ HeardSoFar
  /\ Shape /\ WriteSlot /\ ReadSlot /\ ResetSlot

LEMMA Invariance ==
  ASSUME Precise
  PROVE  Spec => []IInv
<1>1. Init => IInv
  BY SlotEstablished, MaskedEstablished, FlagsEstablished, ValuesEstablished,
     ShapeEstablished, WriteSlotEstablished, ReadSlotEstablished, ResetSlotEstablished DEF IInv
<1>2. IInv /\ [Next]_vars => IInv'
  BY SlotPreserved, MaskedPreserved, FlagsPreserved, ValuesPreserved, ShapePreserved,
     WriteSlotPreserved, ReadSlotPreserved, ResetSlotPreserved DEF IInv, Precise
<1> QED
  BY <1>1, <1>2, PTL DEF Spec

LEMMA ContractSets ==
  /\ Contract!NoCall = NoCall /\ Contract!Nothing = Nothing
  /\ Contract!ResetPulse = ResetPulse /\ Contract!Byte = Byte
BY DEF Contract!NoCall, NoCall, Contract!Nothing, Nothing,
       Contract!ResetPulse, ResetPulse, Contract!Byte, Byte

(* The last slot of a call delivers what the contract says.                *)
LEMMA ReturnImplements ==
  ASSUME Precise, IInv, Return
  PROVE  Contract!Return
<1>1. /\ call # NoCall /\ call' = NoCall /\ step = Len(Delays) /\ LastSlot
      /\ status' = IF call.kind = "reset" /\ result = "SET" THEN "ERR_BUS" ELSE "OK"
      /\ out' = IF call.kind = "read" THEN ShiftIn ELSE out
  BY DEF Return, EndSlot, IInv, Slot
<1>2. EndSlot /\ HearsBit /\ UNCHANGED <<present, sends, steady>>
  BY Zenon DEF Return, EndSlot, line
<1>3. call.kind \in {"reset", "write", "read"} /\ call.byte \in Byte
  BY <1>1, KindsOfCalls DEF IInv
<1>4. call.kind \in {"write", "read"} => 2^i = 128
  <2>1. call.kind \in {"write", "read"} => i = 7
    BY <1>1 DEF LastSlot
  <2>2. 2^7 = 128
    OBVIOUS
  <2> QED
    BY <2>1, <2>2
<1>5. ASSUME steady
      PROVE  /\ status' = IF call.kind = "reset" /\ ~present THEN "ERR_BUS" ELSE "OK"
             /\ call.kind = "reset" => heard' = IF present THEN ResetPulse ELSE Nothing
  <2>1. CASE call.kind = "reset"
    <3>1. step = 3
      BY <1>1, <2>1 DEF Delays
    <3>2. /\ result = IF present THEN "RESET" ELSE "SET"
          /\ heard = IF present THEN ResetPulse ELSE Nothing
      BY <1>5, <2>1, <3>1 DEF IInv, ResetSlot
    <3>3. heard' = heard
      <4>1. call.kind # "write"
        BY <2>1
      <4> QED
        BY <1>2, <4>1, Zenon DEF HearsBit
    <3> QED
      BY <1>1, <2>1, <3>2, <3>3
  <2>2. CASE call.kind # "reset"
    BY <1>1, <2>2
  <2> QED
    BY <2>1, <2>2
<1>6. ASSUME steady, call.kind = "read"
      PROVE  out' = IF present THEN sends ELSE 255
  <2>1. ShiftIn * (2 * 128) = 256 * (OnTheWire % (2 * 128))
    BY <1>2, <1>4, <1>6, ShiftsTheBitIn DEF IInv
  <2>2. OnTheWire \in Nat /\ OnTheWire <= 255
    BY WireIsByte DEF IInv, Byte
  <2>3. ShiftIn \in Int
    BY DEF ShiftIn, IInv, Values, Byte
  <2> HIDE DEF OnTheWire, ShiftIn
  <2>4. ShiftIn = OnTheWire
    BY <2>1, <2>2, <2>3
  <2> QED
    BY <1>1, <1>6, <2>4 DEF OnTheWire
<1>7. ASSUME steady, call.kind = "write"
      PROVE  heard' = IF present THEN call.byte ELSE Nothing
  <2>1. CASE present
    <3>1. step = 2
      BY <1>1, <1>7 DEF Delays
    <3>2. ear' = ear + ((2^i) * (byte % 2))
      BY <1>2, <1>7, <2>1, <3>1, HearsTheBit DEF IInv
    <3>3. byte = call.byte \div 128 /\ ear = call.byte % 128
      BY <1>4, <1>7, <2>1 DEF IInv, WriteSlot
    <3>4. ear' = (call.byte % 128) + (128 * ((call.byte \div 128) % 2))
      BY <1>4, <1>7, <3>2, <3>3
    <3>5. ear' = call.byte
      BY <1>3, <3>4 DEF Byte
    <3>6. heard' = ear'
      BY <1>1, <1>2, <1>7, <2>1, Zenon DEF HearsBit
    <3> QED
      BY <2>1, <3>5, <3>6
  <2>2. CASE ~present
    <3>1. heard' = heard
      BY <1>2, <2>2, Zenon DEF HearsBit
    <3>2. heard = Nothing
      BY <1>7 DEF IInv, Shape
    <3> QED
      BY <2>2, <3>1, <3>2
  <2> QED
    BY <2>1, <2>2
<1>8. call.kind \in {"reset", "write"} => out' = out
  BY <1>1
<1>9. steady => (call.kind \in {"reset", "write"} =>
                   heard' = IF present THEN Contract!Meant ELSE Contract!Nothing)
  BY <1>5, <1>7, ContractSets DEF Contract!Meant
<1> QED
  BY <1>1, <1>2, <1>5, <1>6, <1>8, <1>9, ContractSets, Zenon DEF Contract!Return

LEMMA StepImplements ==
  ASSUME Precise, IInv, [Next]_vars
  PROVE  [Contract!Next]_(Contract!vars)
<1>1. ASSUME NEW req \in Request, Enter(req)
      PROVE  Contract!Next
  <2>1. sends' \in Byte
    BY <1>1, SentAssumption DEF Enter
  <2>2. Contract!Call(req)
    BY <1>1, <2>1, ContractSets, Zenon DEF Enter, Contract!Call
  <2> QED
    BY <2>2 DEF Contract!Next
<1>2. CASE PullLow \/ Sample
  BY <1>2, Zenon DEF PullLow, Sample, line, Contract!vars
<1>3. CASE Release
  <2>1. CASE HearsReset
    <3>1. call.kind = "reset" /\ call # NoCall
      BY <1>3, <2>1, ResetsOnly DEF IInv, Precise, NoCall
    <3>2. heard' = ResetPulse /\ present /\ UNCHANGED <<line, call, steady, out, status>>
      BY <1>3, <2>1, Zenon DEF Release, HearsReset
    <3>3. heard' = Contract!Meant
      BY <3>1, <3>2, ContractSets DEF Contract!Meant
    <3>4. Contract!Hear
      BY <3>1, <3>2, <3>3, ContractSets, Zenon DEF Contract!Hear, line
    <3> QED
      BY <3>4 DEF Contract!Next
  <2>2. CASE ~HearsReset
    BY <1>3, <2>2, Zenon DEF Release, line, Contract!vars
  <2> QED
    BY <2>1, <2>2
<1>4. CASE NextSlot
  <2>1. heard' = heard
    BY <1>4, Zenon DEF NextSlot, EndSlot, HearsBit
  <2> QED
    BY <1>4, <2>1, Zenon DEF NextSlot, EndSlot, line, Contract!vars
<1>5. CASE Return
  BY <1>5, ReturnImplements DEF Contract!Next
<1>6. CASE Unplug \/ Plug
  <2>1. ASSUME Unplug PROVE present' # present
    <3>1. present /\ ~present'
      BY <2>1, Zenon DEF Unplug
    <3> QED
      BY <3>1, Zenon
  <2>2. ASSUME Plug PROVE present' # present
    <3>1. ~present /\ present'
      BY <2>2, Zenon DEF Plug
    <3> QED
      BY <3>1, Zenon
  <2>3. present' # present
    BY <1>6, <2>1, <2>2
  <2>4. Contract!ComeOrGo
    BY <1>6, <2>3, Zenon DEF Unplug, Plug, slot, Contract!ComeOrGo
  <2> QED
    BY <2>4 DEF Contract!Next
<1>7. CASE UNCHANGED vars
  BY <1>7, Zenon DEF vars, line, Contract!vars
<1> QED
  BY <1>1, <1>2, <1>3, <1>4, <1>5, <1>6, <1>7, Zenon DEF Next, PortStep

(* The slots add up to the transport contract: the part hears the reset    *)
(* pulse or the byte that was meant, a read delivers the byte the part     *)
(* sends, and a reset reports whether a part is there, for every clock,    *)
(* counter, polling period, handler and part within the tolerances.        *)
THEOREM Implements ==
  ASSUME Precise
  PROVE  Spec => ImplementsContract
<1>1. Init => Contract!Init
  BY DEF Init, Contract!Init, Contract!NoCall, NoCall
<1>2. IInv /\ [Next]_vars => [Contract!Next]_(Contract!vars)
  BY StepImplements
<1> QED
  BY <1>1, <1>2, Invariance, PTL DEF Spec, ImplementsContract, Contract!Spec
=============================================================================
