# A TLA+ model of libdrivers

libdrivers is a library of sensor drivers in C. A *driver* knows one part (its
registers or its commands) and nothing of the microcontroller; it reaches the
part through the function pointers of a *transport contract*. A *port* fills
the contract in for a microcontroller. This directory models the drivers
together with the parts they drive and the STM32 ports together with the parts
on their buses, checks the models with TLC and proves theorems about them with
TLAPS.

Everything here is about what the code under `src/`, `include/` and `port/` does
across *several* calls and *inside* a call: calls that fail half-way, are
repeated, are interleaved with raw register writes, meet a part that samples,
lost its power or was exchanged, or a part that puts its edges wherever its
tolerances let it. The unit tests drive one call at a time against a scripted
fake, and the ports have no tests.

## 1. The system

| Component | State it keeps | Operations | Hard part | What makes it correct |
|---|---|---|---|---|
| Register-bus contract (`bus.h`, `bus.c`) | none; hooks and an opaque context | read, write, delay hooks; `CheckWhoAmI` | a hook that reports an error may have reached the part | every error reaches the caller; `ERR_ID` only on a byte that was read |
| LSM6DSL (`lsm6dsl.c`) | `XLFullScale`, `GyroFullScale` in the handle, the part's control registers | `Init` (three writes, then caching), raw and scaled readers, `ReadReg`, `WriteReg`, `CheckWhoAmI` | two copies of the range, in the part and in the handle | a scaled reading uses the range the part runs at |
| ICM42688 (`icm42688.c`) | the same, plus power modes and a settling time | the same, plus `ReadTemperature`; `Init` needs the delay hook | order of power and range, the wait, `ERR_ARG` after the power write, a 3-bit code and a 4-entry table | as above, and: ranges before power, no OK before settling |
| HTS221 (`hts221.c`) | eight calibration values and two raw outputs in the handle | `Init` (three writes), `ReadCalibration`, readers | calibration read once and used ever after; division by the distance of two points | readings lie on the line through the answering part's own points |
| LPS22HB (`lps22hb.c`) | `P_OUT`, `T_OUT` in the handle | `Init` (three writes), `ReadRawOutput`, `ReadPressure`, `ReadTemperature` | five bytes read while the part samples; 24-bit sign; both values overwritten by every read | values of one burst, each whole |
| LIS3MDL (`lis3mdl.c`) | none | `Init` (five writes), `ReadRaw`, `ReadHardIronOffset` | auto-increment bit in the address byte | the three axes the part holds |
| DS18B20 (`ds18b20.c`) | none in the driver; the thermometer's protocol state | `Init`, `StartConversion`, `ReadTemperature` | an abandoned operation leaves the thermometer anywhere; unplugging; a conversion finishing during a read | always in phase, one whole conversion, never the power-on 85 degC after a wait |
| 1-Wire contract (`onewire.h`) | none | reset, write, read hooks | as the register bus | the part hears what was meant, the caller gets what it sent |
| STM32 SPI port | the chip-select lines | read, write, delay | chip select on error paths; bit 7 of the address | chip select always released; the register asked for, in the part asked for |
| STM32 I2C port | none | read, write, delay | `HAL_MAX_DELAY` and clock stretching | as the SPI port; every call returns |
| STM32 1-Wire port | the line, the interrupt mask, the DWT cycle counter | reset, write, read a byte | slot timing against the part's tolerances, counter wrap, unconditional `__enable_irq` | the byte on the line is the byte asked for; no delay too short |

Drivers call down through the hooks and never the other way round; there are no
callbacks, threads or queues in the library. What runs concurrently with a call
is the *part* (it samples, finishes conversions, settles, stretches the clock,
answers slots, loses power on its own) and, in the 1-Wire port, the interrupt
handlers. The handle is not shared between callers (nothing in the code locks
it), so one call is in progress at a time in every model.

## 2. Modules and the code

| Module | Models | State |
|---|---|---|
| `RegisterBus` | `bus.h`, `bus.c` | none: operators shared by the register-bus modules |
| `Decode` | byte pairs to `int16_t`, C division, bit fields | none: pure operators |
| `ImuContract` | abstract specification of an IMU driver | the range and sample of each sub-sensor, the trusted ones, what the caller got |
| `LSM6DSL` | `lsm6dsl.c` with the part | `ctrl`, `sample` (part); `handle`, `pc`, `cfg` (driver); `out`, `status` (caller) |
| `ICM42688` | `icm42688.c` with the part | the same, `settling` (part), `delayHook` (port) |
| `ReadingContract` | abstract specification of a driver's readings | what the part held during the call, the readers answered for, what the caller got |
| `StDriver` | what `hts221.c`, `lps22hb.c` and `lis3mdl.c` share | `ctrl`; `pc`, `cfg`; `out`, `status` |
| `HTS221` | `hts221.c` with the part, instantiating `StDriver` | `part`, `sample` (part); `cal`, `raw` (handle) |
| `LPS22HB` | `lps22hb.c` with the part, instantiating `StDriver` | `sample` (part); `handle`; `reading`, `buffer` (the burst) |
| `LIS3MDL` | `lis3mdl.c` with the part, over either STM32 port's address byte, instantiating `StDriver` | `sample` (part) |
| `DS18B20` | `ds18b20.c` over `onewire.h`, with the thermometer | `present`, `phase`, `converting`, `scratch` (thermometer); `op`, `step`, `lsb`, `out`, `status` (driver) |
| `BusContract` | abstract specification of the register-bus hooks | the parts' registers, the call, the caller's buffer |
| `STM32Port` | `libdrivers_stm32_common.c` and the SPI address bytes | none |
| `STM32SPI` | `libdrivers_stm32_spi.c` with the parts | `regs`, `heard` (parts); `low` (chip selects); `call`, `at`, `hal`, `buf`, `status` |
| `STM32I2C` | `libdrivers_stm32_i2c.c` with the parts | `regs`, `holding` (parts); `call`, `done`, `buf`, `status` |
| `OneWireContract` | abstract specification of the 1-Wire hooks | the call, what the part heard and sends |
| `STM32OneWire` | `libdrivers_stm32_onewire.c` with the part | `present`, `sends`, `ear`, `pull` (part); `byte`, `i`, `step`, `start`, `t`, `masked`, `driven` (port) |
| `MC*` | finite instances of the above | |
| `*Proofs` | theorems, see section 5 | |

```
ImuContract      <= LSM6DSL, ICM42688        (implemented by)
ReadingContract  <= HTS221, LPS22HB, LIS3MDL  each WITH StDriver
ReadingContract  <= DS18B20
BusContract      <= STM32SPI, STM32I2C
OneWireContract  <= STM32OneWire
LIS3MDL composes the driver with the address byte of a port (STM32Port)
DS18B20 meets every outcome the 1-Wire hooks allow
```

**Steps.** A call with a single hook call is one action. `Init` of every
register-bus driver is one action per register write; in the IMUs there is one
more for the wait or the missing hook (`InitWaits`, `InitCannotWait`) and one
for the caching and the return. `pc` is the next step. A DS18B20 operation is a
row of `Program`: `op` and `step` say which hook call comes next, and each hook
call is an action. An LPS22HB reader is one action per byte of its burst
(`ReadByte`), because the part may sample between two of them. A call of the SPI
port is four steps: chip select low, address phase, data phase, chip select
high. A call of the I2C port is the HAL's transfer and its end, with the parts
holding and releasing the clock in between. A call of the 1-Wire port is one
step per `delay_us` of each slot, with the pin operation next to it.

**A failed transaction** may have reached the part or not: the contract promises
only a status. For 1-Wire a failed write is heard, garbled or lost.

**The part** is external to the repository and modelled from how the drivers
use it: a register file whose output registers hold the sample in the part's
byte order, bursts that walk registers when the address or a control bit asks
for it, `PowerCycle` back to power-on values (for the HTS221 perhaps with
another part in its place), and for the thermometer a state machine that hears
only a reset unless it is in the right phase. A part on the 1-Wire line answers
and samples at times on a clock of its own.

**Numbers.** A reading in counts is the `int16_t` (or sign-extended 24-bit)
value the code assembles; scaled values are the exact `int32_t` products and
quotients of the C code. `float` readers are the exact rational: a pair
`[num, den]` for the HTS221, a count in units that make the others integers
(1/13248 degC, 1/16 degC, 1/4096 hPa, 1/100 degC), so rounding of `float` is
left out. Times of the 1-Wire port are cycles; `Cycles` truncates as
`SystemCoreClock / 1000000` does, while the part's `Micros` do not.

**History variables.** In the IMUs `trust` is the set of sub-sensors whose
configuration is the one of the last OK `Init`, with no raw write, failed write
or power loss since; `intact` says the running `Init` saw no power loss, and
`configured` in `StDriver` is the configuration a part must then still hold.
`calibrated` (HTS221) says the points in the handle are those of the part on the
bus. `seen` and `steady` (LPS22HB) are what the outputs have been during the
burst, and that BDU was set all through it. `steady`, `requested`, `converted`
(DS18B20) and `steady`, `heard` (1-Wire port) say the same kind of thing.
`before` (SPI and I2C port) is what registers and buffer were when the last
call returned: the contract sees those, and so a call only when it is over. No
guard of the code's steps reads them; the 1-Wire environment reads `steady` to
bound plugging.

**What enters a model.** `Configs` of the LSM6DSL keep `IF_INC` set, as
`LSM6DSL_Config_t` asks ("keep IF_INC set"); raw writes may clear it. `Configs`
of the ICM42688 are any bytes, reserved accelerometer codes included;
`Documented` in the proofs names the configurations whose accelerometer range
the part has. `CallerWaits` in `DS18B20` says
whether the caller does what the header asks and lets a conversion finish.
`Parts` of the HTS221 have two different points for each quantity.

## 3. Runs

| Run | Question | Result |
|---|---|---|
| `lsm6dsl` | does a scaled reading ever use another range's factor? | no: `TrustedRange`, `ImplementsContract` hold |
| `lsm6dsl_half_configured` | does a failing write avoid "half-configuring a part" (`src/README.md`)? | violated: write 1 lands, write 2 fails |
| `icm42688` | the same as `lsm6dsl`, plus power order, settling and codes with a table entry | all hold |
| `hts221` | are readings made with the points of the part that answers, all eight? | all hold |
| `lps22hb` | is a reading whole while the part samples in the middle of it? | all hold, with BDU set |
| `lis3mdl` | are the axes the part's over I2C, is an OK `Init` whole? | all hold |
| `lis3mdl_spi` | does "any register-bus driver run" on the SPI port? | violated: every axis is made of one byte |
| `ds18b20` | in phase, untorn, converted, with a caller that waits; nothing delivered by a failed call? | all hold |
| `ds18b20_unplugged` | does OK mean the scratchpad was read (`ds18b20.h`)? | violated: ones after unplugging |
| `stm32spi` | does any failing phase leave a part selected or touch another? | no; every call returns |
| `stm32i2c` | is the contract kept while parts stretch the clock? | yes; every call returns |
| `stm32onewire` | do the slots add up to bytes wherever the edges fall? | yes; every call returns |

**Properties.**

- `TrustedRange` (both IMUs): while a sub-sensor is trusted, the table entry the
  cached code selects is the sensitivity of the range in the part's register.
  The ranges are computed from the register bits by formulas of their own
  (`RangeXL`, `RangeGyro`, `RangeAccel`), not through the driver's decoding.
- `ImplementsContract` of the IMUs: every step of driver and part is a step of
  `ImuContract`. The mapping takes `range` from the registers; the contract
  knows neither cache nor register. It says what a reader delivers *and* that a
  failed call leaves the caller's variable alone.
- `TrustedIsSettled`, `PoweredOnAfterRange`, `CachedCodeIsNamed`: the bring-up
  rules of the ICM42688, and no code outside the accelerometer's table for
  documented configurations.
- `CalibrationIsOfOnePart` (HTS221): the handle never mixes the points of two
  parts; with two different points the division is then by something.
- `HandleIsThisBurst` (LPS22HB): both fields of the handle come from the burst
  of the reader that returned, each a value the part held during it.
- `InitIsWhole` (LIS3MDL): an OK `Init` left all five registers of its
  configuration in a part that kept its power.
- `ImplementsContract` of the three ST drivers: an OK reader the driver answers
  for delivers the reading of something the part held during the call, computed
  by a formula of its own (`OnTheLine` starts from the other point).
- `OneSelected` (SPI): chip select is low at the part called and nowhere else;
  no other part is mid-transaction.
- `ImplementsContract` of the DS18B20: whichever hook call fails, `*pTemperature`
  keeps what it held (`ds18b20.h:69-70`); an OK read with a caller that waits
  delivers the scratchpad. The mapping takes `out` for "never read" while it is
  `Unread`.
- `ImplementsContract` of the SPI and I2C ports: OK means the access was made, an
  error that it may have been, and no other register of any part changes. The
  contract makes the whole call one step, whose effect shows when the hook
  returns. That is the shape in which the driver modules use a hook
  (`Transaction`): what they take for one step is one, whatever
  the port does in between, as long as one caller uses the bus.
- `ImplementsContract` of the 1-Wire port: a reset, a write or a read is heard
  and answered as the hooks promise.
- `DelaysAreLongEnough`, `LineIsFreeWhenInterruptible` (1-Wire): the comment on
  `delay_us`, and what masking the interrupts is for.
- `EveryCallReturns` (the ports): liveness, see below.
- `InPhase`, `ReadsTheScratchpad`, `WaitedReadIsConverted`: the DS18B20 driver
  resynchronises after anything; bytes of one conversion; an OK start really
  started.
- One `TypeOK` per module; in the drivers the outputs in it are C types, so it is
  also the overflow and sign-extension check.

**Bounds.** Each IMU instance has two or three configurations that differ in
every range, two raw writes (one changes a range, one breaks auto-increment or
switches the part off), the right identity and a wrong one, and two samples that
put both ends of `int16_t`, small negative counts and bytes with the top bit set
on the axes. Two configurations are enough to tell a stale cache from a fresh
one. The HTS221 has two parts whose eight points all differ, one with
temperature points that need both high bits of register 0x35 and counts that
fall; the LPS22HB and the LIS3MDL have one configuration that differs from the
power-on values, a raw write (for the LPS22HB one that clears BDU) and two
samples that differ in the bytes a torn or shifted read would mix up. Two
parts on a bus are enough for one to be mistaken for the other. Both transport
errors and all four HAL results are enumerated.

The 1-Wire instance runs at 1 MHz with a counter modulo 512, just more than
the longest delay, which begins at 0, 500 or 511: no delay, some delays or every
delay wraps. `Poll` = 2 cycles between two reads of the counter; a handler
takes 40 cycles; a part holds a 0 for 20 or 60 us, waits 15 or 60 us with a
presence pulse of 60 or 240 us; it sends 0x00 or 0xC9, and 0xBE is written,
neither a palindrome. A part comes or goes at most once in a call. The proofs
lift the clock, the counter, the bytes and the tolerances.

| Run | Distinct states |
|---|---|
| `lsm6dsl`, `icm42688`, `ds18b20` | 322,560, 186,194 and 5,797 |
| `hts221`, `lps22hb`, `lis3mdl` | 26,752, 1,578,096 and 15,680 |
| `stm32spi`, `stm32i2c`, `stm32onewire` | 14,844, 5,868 and 371,998 |

The violation runs drop what would spread the blame: `lsm6dsl_half_configured`
has no raw writes. Deadlock is checked in every run.

**Fairness.** The drivers have no loops and no retries of their own: each call
ends after a fixed number of hook calls, unless a hook never returns. So
liveness is stated of the ports, which can block.

- SPI: `WF_vars(PortStep)`. The master generates the clock; no part can hold up
  a HAL call, and `HAL_MAX_DELAY` is never waited out.
- I2C: `SF_vars(HalEnds)` and `WF_vars(LetsGo(d))` for each part. A part may
  stretch the clock again and again, and the HAL goes on each time it lets go;
  strong fairness says that the transfer, a finite number of bits, ends.
  That a part does let go is an assumption on the parts, which nothing in the
  port enforces; without it the property fails (`STM32I2CHeld.cfg`).
- 1-Wire: `WF_vars(PortStep)`. `CYCCNT` counts whatever the part does, so every
  `delay_us` ends.

**Further configurations.** These are not part of the list of runs; each
reaches, by hand (`tlc -config X.cfg MCmodule.tla`), a state that a word of the
repository excludes, or weakens an assumption of a run.

| Config | Module | Shows |
|---|---|---|
| `ICM42688RangeWhileOn.cfg` | `MCICM42688` | `RangeSetWhileOff` violated: a second `Init` changes ranges of running sub-sensors, where `test/test_icm42688.c:50-51` has them off |
| `ICM42688ReservedCode.cfg` | `MCICM42688` | `CachedCodeIsNamed` violated by a reserved accelerometer code: nothing validates it (`icm42688.h:103-104`) |
| `DS18B20Impatient.cfg` | `MCDS18B20` | holds: phase and conversion do not need a caller that waits |
| `STM32I2CHeld.cfg` | `MCSTM32I2C` | `EveryCallReturns` violated: a part that holds the clock, waited for with `HAL_MAX_DELAY`, where `bus.h:39-40` promises `ERR_TIMEOUT` |
| `STM32OneWireSlowClock.cfg` | `MCSTM32OneWire` | `DelaysAreLongEnough` violated at 800 kHz, where the division gives 0 cycles |
| `STM32OneWireStuck.cfg` | `MCSTM32OneWire` | `OKResetMeansPresence` violated on a shorted line: low for any reason is a presence pulse |

**Seeded faults.** Operators marked "Seeded fault" stand before the definition
they are a broken form of. They are not used by any specification; each shows
that a property notices the bug it describes (a cache filled too early, a write
order swapped, a mask too wide, a deadline compared where a difference belongs,
an error path that leaves chip select low).

## 4. Findings

Three statements in the repository that the code does not keep, each with a run:

1. `src/README.md:106-107`: a failing write stops `Init` "instead of
   half-configuring a part". It stops, and the part is half configured: nothing
   is undone (`FailedInitLeavesNoMix`). The readers stay consistent only
   as far as `TrustedRange` says: after a failed `Init` the caller must not
   trust scaled readings until an `Init` returns OK.
2. `ds18b20.h:63-70`: `ReadTemperature` returns what the scratchpad holds, or an
   error. An unplugged line reads as ones with OK (`OKReadIsScratchpad`): the
   result is -1/16 degC.
3. `libdrivers_stm32_spi.h:13-15`: "any register-bus driver runs on STM32 SPI
   hardware". The port marks a read by setting bit 7 of the address, the bit the
   ST drivers have already set to ask for auto-increment; over SPI the LIS3MDL
   takes bit 6 for that. Its six bytes are then one register six times, with
   `LIBDRIVERS_OK` (`ImplementsContract`). The HTS221 driver asks for its
   bursts in the same way. The LPS22HB driver asks with bit 7 too
   (`lps22hb.h:51`), which is what its model walks by; the part's other means,
   `IF_ADD_INC` of `CTRL_REG2`, is on after power-on and stays on in the run, so
   a configuration that keeps it is not affected over SPI.

The further configurations of section 3 reach four more states worth knowing.

## 5. Proofs

`tlapm` checks every step of the eight `*Proofs` modules. The theorems hold for
every set of configurations, raw writes, identities, samples, parts,
temperatures, registers and requests, where TLC sees two or three of each. They
rest on the named assumptions of the modelled constants and on the conditions
that a statement names where it needs them:

- `Documented` (ICM42688): the application asks for accelerometer ranges the part
  has. It is said of the `ACCEL_CONFIG0` byte and the part's ranges, not of the
  code the driver decodes. `TypeCorrect`, `RangeTrusted`, `Implements` and the
  second half of `CodeHasEntry` need it; the others hold for every byte.
  `EntryAsAsked` and `ICM42688ReservedCode.cfg` say what happens without.
- `CallerWaits` (DS18B20): nobody reads during a conversion. `WholeConversion`
  and what `Implements` says of the value read need it; without it the two bytes
  may come from two conversions. That a failed call delivers nothing does not.
- `Port = "I2C"` (LIS3MDL, `Implements`), `Port = "SPI"` (`SpiDeliversOneByte`):
  see finding 3.
- `ClockAssumption` (1-Wire) asks for `Poll` of at least one cycle. With 0 the
  counter would stand still between two readings of it.
- `WholeMegahertz` (1-Wire, `LongEnough`): the clock is a whole number of
  megahertz. `STM32OneWireSlowClock.cfg` shows what happens without.
- `InTolerance` (1-Wire, `LineIsFree`): besides, a 60 us pulse cannot be polled
  into a 480 us one, parts hold a 0 for at most 70 us and finish their presence
  pulse within 480 us.
- `Precise` (1-Wire, `Implements`): besides, the line is not shorted; the loop
  ends a 6 us pulse before the 15 us at which a part may sample; a part holds a 0
  until the master has sampled it, that is for 15 us and two readings of the
  counter, since neither of the two delays before the sample is ever short; and
  its presence pulse begins within 70 us and lasts until the master looks.
  `STM32OneWireStuck.cfg` shows what happens on a shorted line. The constants of
  `MCSTM32OneWire` satisfy all of it.
- `I2C!AddressAssumption` (I2C): the parts on the bus have addresses of their own.
  It is the named assumption of `STM32I2C`, stated as a hypothesis because that
  module is instantiated there.

| Module | Theorem | States |
|---|---|---|
| `LSM6DSLProofs` | `RoundTrip` | for every `int16_t`, low and high byte give the count back in either order |
| | `TypeCorrect` | `Spec => []TypeOK`: no overflow, no code outside its table, even with `IF_INC` cleared behind the driver's back |
| | `RangeTrusted` | `Spec => []TrustedRange` |
| | `Implements` | `Spec => ImplementsContract` |
| `ICM42688Proofs` | `TypeCorrect` | `Spec => []TypeOK`: no overflow, no code outside its three bits |
| | `SettledBeforeTrusted` | `Spec => []TrustedIsSettled` |
| | `CodeHasEntry` | `Spec => EntryAsAsked`: an `Init` that returns OK leaves a code with a table entry if and only if the part has the range asked for, and nothing else changes the code; hence `Documented => (Spec => []CachedCodeIsNamed)` |
| | `RangeTrusted` | `Spec => []TrustedRange` |
| | `RangeBeforePower` | `Spec => PoweredOnAfterRange` |
| | `Implements` | `Spec => ImplementsContract` |
| `DS18B20Proofs` | `TypeCorrect` | `Spec => []TypeOK` |
| | `AlwaysInPhase` | `Spec => []InPhase` |
| | `StartIsReal` | `Spec => []WaitedReadIsConverted` |
| | `WholeConversion` | `Spec => ReadsTheScratchpad` |
| | `Implements` | `Spec => ImplementsContract` |
| `HTS221Proofs` | `TypeCorrect` | `Spec => []TypeOK`: ten-bit points, C types throughout |
| | `OnePart` | `Spec => []CalibrationIsOfOnePart` |
| | `NeverDividesByZero` | once a calibration was read the two differences the readers divide by are not 0 |
| | `Implements` | `Spec => ImplementsContract` |
| `LPS22HBProofs` | `TypeCorrect` | `Spec => []TypeOK`: 24 bits sign-extended into an `int32_t` |
| | `HandleIsFromBurst` | `Spec => HandleIsThisBurst` |
| | `Implements` | `Spec => ImplementsContract` |
| `LIS3MDLProofs` | `TypeCorrect`, `WholeInit` | `Spec => []TypeOK`, `Spec => []InitIsWhole`, over either port |
| | `Implements` | over I2C, `Spec => ImplementsContract` |
| | `SpiDeliversOneByte` | over SPI, every OK read is one byte of the part, in all three axes |
| `STM32BusProofs` | `TypeCorrect` | `Spec => []TypeOK` |
| | `NeverLeftSelected` | `Spec => []OneSelected` |
| | `Implements` | `Spec => ImplementsContract` |
| | `I2CTypeCorrect` | the same of the I2C port: `I2C!Spec => []I2C!TypeOK` |
| | `I2CImplements` | `I2C!Spec => I2C!ImplementsContract` |
| `STM32OneWireProofs` | `TypeCorrect` | `Spec => []TypeOK` |
| | `DelaysEnd` | a delay can end exactly when its cycles are fewer than the counter counts |
| | `CallsAreBounded` | at most 32 steps to a call, each nearer to its return |
| | `LongEnough` | at whole megahertz, `Spec => DelaysAreLongEnough` |
| | `LineIsFree` | within tolerances, `Spec => []LineIsFreeWhenInterruptible` |
| | `Implements` | within tolerances, `Spec => ImplementsContract` |

**The IMUs.** The inductive invariant is `TypeOK /\ CacheAgrees /\ InitProgress`
for the LSM6DSL. For the ICM42688 `TrustedIsSettled` joins it and `Types`, which
is `TypeOK` but for the caller's output, replaces `TypeOK`: this one is inductive
for every set of configurations. `TrustedRange` alone is not
inductive: at `InitReturns` the cache is filled from `cfg`, and nothing in
`TrustedRange` relates `cfg` to the registers. `InitProgress` adds it: in an
`Init` that saw no power loss the registers before `pc` hold `cfg`, after a
power loss nothing is trusted, and at the ICM42688's caching step the part has
settled. `CacheAgrees` says that for a trusted sub-sensor the cached code is the
field of the register (and, for the LSM6DSL, that bursts auto-increment).
`TrustedRange` then follows by arithmetic over the tables (`RangeMatches`).
What depends on the accelerometer's range is proved on top of the ICM42688's
invariant: the decoded code of a byte has a table entry if and only if the byte
selects a range of the part (`EntryIffRange`, by arithmetic on the decode, so a
wrong shift or mask breaks it), an `Init` that returns OK is the only step that
changes the code (`StepAsAsked`), and with an entry in hand the readers divide by
it (`OutputsStay`), which gives `TypeOK`.
`TransactionLands` is the lemma every write goes through, by `Init` or by the
application: a sub-sensor still trusted after it has the registers it had.

`ReadsBack` (the burst reader returns the sample the registers encode) rests on
`RoundTrip`; with the agreement of the driver's table and the contract's formula
on every range it gives the reader half of `Implements`. The other steps refine
`Background`, `Configured` or `OtherRead`.

**The ST drivers.** For the HTS221 the heart is that unpacking the sixteen
calibration bytes gives the part's own points back, reserved bits or not, for
every calibration; the invariant adds to `TypeOK` and `CalibrationIsOfOnePart`
that points that are `calibrated` are those of the part on the bus. Two
readings of one line from either of its points are the same rational, which is
the reader half of `Implements`. For the LIS3MDL the invariant is `TypeOK /\
InitIsWhole /\ WrittenSoFar`: in an intact `Init` the registers written so far
hold `cfg`, without which `InitIsWhole` is not inductive at the fifth write.
`HandleIsThisBurst` of the LPS22HB is an action property: it follows from
`TypeOK /\ SeesItself /\ WholeSoFar`. `SeesItself` says that what the outputs
hold now is among what they have been since the burst began; `WholeSoFar` that,
if BDU was set all through it, the bytes of a value begun are those the part
still shows (BDU holds back only a value that is being read) and the bytes of a
value ended are those of one that was seen. The property itself speaks only of
the last step and says nothing about the bytes before it.

**The DS18B20.** The inductive invariant is `TypeOK /\ InStep /\ Line /\
HalfRead`. `InStep` is `InPhase` by cursor instead of by hook, so that a step
that advances the cursor is compared with the next phase. `Line` relates what
was promised to what is there: an absent thermometer is deaf and converts
nothing, a steady one is present, a requested conversion is running or over.
`HalfRead` is what makes a read whole: with a caller that waits no conversion
runs during a read, and the byte read first is the low byte of the scratchpad.
`Implements` needs no more: `ReadDelivers` is the step that reads, which also
gives `WholeConversion`, and `OutputStays` goes through every other step,
failing ones first, to see that none touches `out`.

**The ports.** For SPI the invariant is `TypeOK /\ OneSelected /\ Progress`;
`Progress` says what the selected part has heard at each step of a call, so that
the data phase touches the register asked for and nothing else. Since the
contract sees a call only when it is over, `Accessed` is added: from `before` to
now the registers and the buffer (of a failed read, the registers alone) have
changed by nothing, by the whole read or by the whole write of the call in
progress, and a call that may still return OK has made its access. For I2C the
invariant is `TypeOK /\ I2CAccessed`, which says the same of `done`; by the
addresses exactly one part answers. For 1-Wire, `Elapsed` is the arithmetic of
the unsigned difference across a wrap, for every modulus. `Slot` and `Masked`
follow the cursor through a slot; `PullEnds` bounds, delay by delay, how long
the part's answer may still last, which gives `LineIsFree`. `HeardSoFar` bounds
the part's ear by the slots there have been. `Remaining` counts the steps a call
still has to make: what is left of its slot and four for each slot to come. It
is what can be proved towards `EveryCallReturns`: it is never more than 32, each
step of the port makes it smaller and nothing else during a call makes it
larger, so only a port that stops taking steps keeps a call from returning. That
it does not stop is the fairness, and that it *can* go on is `DelaysEnd`: the
wait of `delay_us` has an end for every start of the counter exactly when its
cycles fit the counter, as the 480 us of a reset do in 32 bits at any clock
there is.

That bit slots add up to bytes is the invariant `IInv`, which adds one conjunct
per kind of call, each about the slots so far and the delay the slot is at.
`WriteSlot`: the shift register is `call.byte` without the bits sent, those bits
are what the part has heard, and the line rises before 15 us for a 1 and not
before 60 us for a 0. `ReadSlot`: the bits received are in the upper end of the
shift register, in the byte's order, and the part still holds a 0 when it is
sampled. `ResetSlot`: the part has heard the pulse and its answer covers the
moment of the sample. `Shape` says that nothing but a reset is heard before the
last slot of a write. `BitStep` and `ShiftStep` are the arithmetic of one more
bit; `Punctual` bounds every delay from both sides, for which the interrupts
have to be masked (`Masked`): a handler inside a slot would break the upper
bound, and with it `Implements`. Nothing is claimed of a call during which a
part came or went, as in the contract.

**Only model-checked.** What is stated under fairness (`EveryCallReturns` of the
three ports), which is out of the prover's reach, as is `ENABLED`; of the 1-Wire
port the bound on the steps is proved. Also that the violations are
reachable, which a theorem of the form `Spec => ...` cannot say; what an OK read
in `lis3mdl_spi` delivers is `SpiDeliversOneByte`. Every other property of a passing run is a theorem.

## 6. Not modelled

- The `float` rounding of the readers, and what a blank HTS221 handle gives: a
  division of 0 by 0, of which no status tells (`ReadCalibration` is documented
  as required first).
- A part that samples in the middle of a burst of an IMU, the HTS221 or the
  LIS3MDL: their bursts are one step, and whether the six bytes are of one sample
  is up to settings of the part the drivers pass through. Only the LPS22HB,
  which has two values of different lengths in one burst, is read byte by byte.
- A thermometer unplugged inside a byte: it leaves between two hook calls, so a
  byte is all its own or all ones. The 1-Wire port has the rest of it: there a
  part comes and goes between any two delays.
- Registers the drivers never touch, and lengths other than the drivers' own in
  `XXX_ReadReg`.
- Several callers on one handle or one bus at once, from threads or handlers:
  the code neither supports nor promises it. So a `Libdrivers_STM32_OneWire_InitBus`
  that zeroes the cycle counter during another bus's delay is left out too; within
  a slot interrupts are masked. Calls of the 1-Wire port begin with interrupts
  enabled; a caller that masks them finds them enabled on return.
- The delay hooks of the ports (one `HAL_Delay`) and the `InitBus` functions (they
  store pointers; for 1-Wire they start the counter), which are the models'
  initial states.
- The HAL itself, external: modelled by its results and by what each may have put
  on the wire.
- The test fakes and harness, the examples and the build files: no logic of the
  library.
