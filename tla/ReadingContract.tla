------------------------- MODULE ReadingContract -------------------------
(***************************************************************************)
(* What a sensor driver promises about its readings, with no register, no  *)
(* burst and no calibration in sight.                                      *)
(*                                                                         *)
(* `held' is what the part's output has been while the call in progress    *)
(* could see it; `sure' is the set of readers the driver answers for at    *)
(* the moment.  A reader it answers for delivers, when it returns OK, the  *)
(* reading of something the part held; every step but an OK read leaves    *)
(* the caller's output alone, a failed read included.                      *)
(***************************************************************************)
CONSTANTS
  Reader,        \* the readers that deliver a reading
  Output(_, _)   \* Output(r, h): what r delivers when the part holds h

VARIABLES
  held,     \* the outputs the part has had during the call
  sure,     \* the readers the driver answers for
  out,      \* [reader, data]: the output variable filled last
  status    \* the status the last call returned

vars == <<held, sure, out, status>>

Init == out.reader \notin Reader

(* A sample, a configuration, a failed call, a part that is swapped.       *)
Background == out' = out

(* A reader returns OK.                                                    *)
Read(r) ==
  /\ status' = "OK"
  /\ out'.reader = r
  /\ r \in sure => \E h \in held : out'.data = Output(r, h)

(* An OK read of which nothing is promised here.                           *)
OtherRead == status' = "OK" /\ out'.reader \notin Reader

Next == Background \/ OtherRead \/ \E r \in Reader : Read(r)

Spec == Init /\ [][Next]_vars
=============================================================================
