-------------------------- MODULE OneWireContract --------------------------
(***************************************************************************)
(* What a 1-Wire transport promises the drivers                            *)
(* (include/libdrivers/onewire.h), with no slot, no level and no           *)
(* microsecond in sight; module DS18B20 makes its hook calls on it.        *)
(*                                                                         *)
(* A hook call is one reset pulse, one byte heard by the part or one byte  *)
(* sent by it.  Nothing is promised of a call during which a part came or  *)
(* went.                                                                   *)
(***************************************************************************)
EXTENDS RegisterBus

CONSTANT Request   \* the hook calls the drivers make: [kind, byte]

NoCall     == [kind |-> "none", byte |-> 0]   \* no hook call in progress
Nothing    == 256   \* the part heard nothing of the call
ResetPulse == 257   \* the part heard a reset pulse

VARIABLES
  present,   \* a part is on the line
  sends,     \* the byte it sends next
  call,      \* the hook call in progress, or NoCall
  heard,     \* what the part has heard of it
  steady,    \* no part came or went during it
  out,       \* *byte of the last read
  status     \* what the last hook call returned

vars == <<present, sends, call, heard, steady, out, status>>

Init == call = NoCall

Call(req) ==
  /\ call = NoCall
  /\ call' = req
  /\ sends' \in Byte
  /\ heard' = Nothing /\ steady' = TRUE
  /\ UNCHANGED <<present, out, status>>

Meant == IF call.kind = "reset" THEN ResetPulse ELSE call.byte

(* What a part that stays on the line hears is what was meant.             *)
Hear ==
  /\ call # NoCall
  /\ steady => present /\ heard' = Meant
  /\ UNCHANGED <<present, sends, call, steady, out, status>>

Return ==
  /\ call # NoCall /\ call' = NoCall
  /\ call.kind \in {"reset", "write"} => out' = out
  /\ steady =>
       /\ status' = IF call.kind = "reset" /\ ~present THEN "ERR_BUS" ELSE "OK"
       /\ call.kind = "read" => out' = IF present THEN sends ELSE 255
       /\ call.kind \in {"reset", "write"} => heard' = IF present THEN Meant ELSE Nothing
  /\ UNCHANGED <<present, sends, steady>>

(* A part is plugged in or unplugged.                                      *)
ComeOrGo ==
  /\ present' # present
  /\ steady' = FALSE
  /\ UNCHANGED <<sends, call, heard, out, status>>

Next == (\E req \in Request : Call(req)) \/ Hear \/ Return \/ ComeOrGo

Spec == Init /\ [][Next]_vars
=============================================================================
