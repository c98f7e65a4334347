----------------------------- MODULE Decode -----------------------------
(***************************************************************************)
(* The integer conversions the drivers share: assembling bytes into signed *)
(* counts, C's truncating division, and bit fields of a register byte.     *)
(* The float readers of the library divide an integer by a constant; they  *)
(* are modelled by the exact rational, see the driver modules.             *)
(***************************************************************************)
EXTENDS Integers

Int16 == {v \in Int : (-32768) <= v /\ v <= 32767}
Int32 == {v \in Int : (-2147483647) - 1 <= v /\ v <= 2147483647}

(* X, Y and Z, as counts and as scaled values.                             *)
Axes16 == Int16 \X Int16 \X Int16
Axes32 == Int32 \X Int32 \X Int32

(* A signed count as the parts hold it: its two bytes, two's complement.   *)
LowByte(v)  == v % 256
HighByte(v) == (v \div 256) % 256

(* The value of the conversion (int16_t)u of a 16-bit pattern u.           *)
ToInt16(u) == IF u >= 32768 THEN u - 65536 ELSE u

(* Seeded faults: the bytes assembled without the cast.  (BigEndian16      *)
(* itself is the fault "bytes swapped" of LittleEndian16.)                 *)
LittleEndianUncast(b0, b1) == 256 * b1 + b0
BigEndianUncast(b0, b1) == 256 * b0 + b1

(* Two bytes as a signed count: high byte first (the ICM42688), and low    *)
(* byte first (the ST parts and the DS18B20).                              *)
BigEndian16(b0, b1) == ToInt16(256 * b0 + b1)
LittleEndian16(b0, b1) == ToInt16(256 * b1 + b0)

(* C's integer division by a positive b, which truncates towards zero.     *)
TruncDiv(a, b) == IF a >= 0 THEN a \div b ELSE 0 - ((0 - a) \div b)

(* (byte & mask) >> shift for the field of `width' codes that starts at    *)
(* the bit of weight `weight'.                                             *)
Field(byte, weight, width) == (byte \div weight) % width

(* A function of one count applied to each of the three axes.              *)
OnAxes(axes, F(_)) == <<F(axes[1]), F(axes[2]), F(axes[3])>>
=============================================================================
