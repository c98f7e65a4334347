-------------------------- MODULE ImuContract --------------------------
(***************************************************************************)
(* What an IMU driver that caches the full-scale range promises its        *)
(* caller, with no cache and no register in sight.                         *)
(*                                                                         *)
(* A part has sub-sensors (an accelerometer and a gyroscope), each running *)
(* at a full-scale range and holding its latest sample.  `trust' is the    *)
(* set of sub-sensors whose configuration is the one of the last           *)
(* successful Init, untouched since.  The promise: the configuration the   *)
(* driver trusts does not change, and a reader that returns OK for a       *)
(* trusted sub-sensor hands out that sub-sensor's own sample, converted    *)
(* with the range the part really runs at; every other step leaves the     *)
(* caller's output alone, a failed read included.                          *)
(***************************************************************************)
EXTENDS Integers

CONSTANTS
  Sub,               \* the sub-sensors
  Reader,            \* the readers that deliver a sample of one sub-sensor
  SubOf(_),          \* the sub-sensor a reader reads
  Output(_, _, _)    \* Output(r, axes, fs): what r delivers for a sample at a range

VARIABLES
  range,    \* [Sub -> full-scale range the part runs at]
  sample,   \* [Sub -> the sample in the part's output registers]
  trust,    \* the sub-sensors still configured as the last OK Init left them
  out,      \* [reader, data]: the output variable filled last
  status    \* the status the last call returned

vars == <<range, sample, trust, out, status>>

Init == trust = {}

(* Anything that fills no output: a new sample, a failed call, a part that *)
(* is reconfigured or loses power.  A range may move only once its         *)
(* sub-sensor has left `trust'.                                            *)
Background ==
  /\ trust' \subseteq trust
  /\ \A s \in trust' : range'[s] = range[s]
  /\ out' = out

(* Init returns OK: everything is configured as asked, nothing moves.      *)
Configured ==
  /\ trust' = Sub
  /\ status' = "OK"
  /\ UNCHANGED <<range, sample, out>>

(* A sample reader returns OK.                                             *)
Read(r) ==
  /\ status' = "OK"
  /\ out'.reader = r
  /\ SubOf(r) \in trust =>
       out'.data = Output(r, sample[SubOf(r)], range[SubOf(r)])
  /\ UNCHANGED <<range, sample, trust>>

(* Any other read of the part, of which nothing is promised here.          *)
OtherRead ==
  /\ status' = "OK"
  /\ out'.reader \notin Reader
  /\ UNCHANGED <<range, sample, trust>>

Next == Background \/ Configured \/ OtherRead \/ \E r \in Reader : Read(r)

Spec == Init /\ [][Next]_vars
=============================================================================
