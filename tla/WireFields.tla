----------------------------- MODULE WireFields -----------------------------
(***************************************************************************)
(* How one field of a UBData* struct is put on the wire and read back      *)
(* (src/src/ubeacon_driver_data_raw.h).  A raw value is the number the     *)
(* bits hold, signed where the C field is; a value the struct holds is a   *)
(* number too: 0 or 1 for a bool, and for a scaled physical quantity (m,   *)
(* V, dBm, ...) its size in quarters of the field's wire step, so that the *)
(* rounding shows whatever the step is.                                    *)
(*                                                                         *)
(* Scaled quantities go through float both ways (raw * 0.01f, and          *)
(* ub_round_i32(x * 100.0f)), whose 24 bits of significand are not enough  *)
(* for the 32-bit fields: an error of at most one part in 2^22 of the      *)
(* quantity is made each way, whatever the constant Error says.  Below     *)
(* 2^22 quarters, a million wire steps and so in every field of up to 16   *)
(* bits, that is less than a quarter and does not show.  (A quantity right *)
(* between two steps may go to either in the code; here halves go away     *)
(* from zero, and no property tells the two apart.)                        *)
(***************************************************************************)
EXTENDS Integers, Sequences

CONSTANTS
  Error(_),      \* the error float makes of a quantity, in quarters
  CastSaturates  \* what a cast of a float above int32_t gives is undefined:
                 \* INT32_MAX on some processors, INT32_MIN on others

\* A field of the packed struct; arg is the kind's own parameter.
Field(name, bits, kind, arg) ==
  [name |-> name, bits |-> bits, kind |-> kind, arg |-> arg]

Plain(name, bits)         == Field(name, bits, "plain", 0)   \* copied as it is
Masked(name, bits)        == Field(name, bits, "masked", 0)  \* value & a mask
Flag(name)                == Field(name, 1, "flag", 0)       \* bool
Scaled(name, bits)        == Field(name, bits, "scaled", 0)  \* rounded, uintN_t
Signed(name, bits)        == Field(name, bits, "signed", 0)  \* rounded, intN_t
Ppm(name)                 == Field(name, 8, "ppm", 0)        \* int8_t with NaN
Ratio(name, bits, by)     == Field(name, bits, "ratio", by)  \* integer / by
Count(name, bits, max)    == Field(name, bits, "count", max) \* of valid elements
Hidden(name, bits, dflt)  == Field(name, bits, "hidden", dflt) \* not in UBData*
Pad(bits)                 == Hidden("reserved", bits, 0)

\* What the application's struct has no member for.
IsHidden(f) == f.kind = "hidden"

Flags(names) == [i \in DOMAIN names |-> Flag(names[i])]
Times(n, f)  == [i \in 1 .. n |-> f]
-----------------------------------------------------------------------------
Int32Max == 2147483647
Int32Min == -Int32Max - 1

\* x has no more than that many bits; 2^31 and up are not computed to see that
\* of an int32_t.
Fits(x, bits) == x >= 0 /\ ((bits > 30 /\ x <= Int32Max) \/ x < 2^bits)

\* What a member's type in the UBData* can hold, and what the field's bits can.
HasType(f, v) ==
  /\ v \in Int
  /\ f.kind \in {"masked", "ratio", "count"} => v >= 0
  /\ f.kind = "flag" => v \in {0, 1}

IsRaw(f, r) ==
  /\ r \in Int
  /\ f.kind \in {"masked", "flag", "scaled", "ratio", "count"} =>
       Fits(r, f.bits)
  /\ f.kind = "signed" =>
       IF f.bits = 32 THEN r >= Int32Min /\ r <= Int32Max
       ELSE r \in -(2^(f.bits - 1)) .. 2^(f.bits - 1) - 1
  /\ f.kind = "ppm" => r >= -128 /\ r <= 127

ub_min_int(a, b) == IF a < b THEN a ELSE b

Magnitude(x) == IF x < 0 THEN -x ELSE x

\* The most that float changes a quantity of x quarters by, and what it makes
\* of it.
Slack(x) == Magnitude(x) \div 2^22
InFloat(x) == IF Error(x) \in -Slack(x) .. Slack(x) THEN x + Error(x) ELSE x

\* To the nearest, halves away from zero.
Rounded(v) == IF v < 0 THEN -((2 - v) \div 4) ELSE (v + 2) \div 4

\* A value in quarters, rounded and cast.
ub_round_i32(v) ==
  IF Rounded(v) >= Int32Min /\ Rounded(v) <= Int32Max THEN Rounded(v)
  ELSE IF v > 0 /\ CastSaturates THEN Int32Max ELSE Int32Min

\* Masks, and casts to uint8_t, int16_t and the like, keep the low bits.  An
\* int32_t field has all that ub_round_i32 returns.
Unsigned(x, bits) == IF Fits(x, bits) THEN x ELSE x % 2^bits
Narrowed(x, bits) ==
  IF bits = 32 THEN x ELSE ((x + 2^(bits - 1)) % 2^bits) - 2^(bits - 1)

NaN == 1000000            \* a float that is not a number
UB_PPM_INT8_INVALID == -128

\* Mutant: out-of-range values are cast, not saturated.
ub_ppm_to_int8_cast(v) ==
  IF v = NaN THEN UB_PPM_INT8_INVALID ELSE Narrowed(Rounded(v), 8)

ub_ppm_to_int8(v) ==
  IF v = NaN THEN UB_PPM_INT8_INVALID
  ELSE IF v <= -127 * 4 THEN -127
  ELSE IF v >= 127 * 4 THEN 127
  ELSE Rounded(v)

ub_ppm_from_int8(r) == IF r = UB_PPM_INT8_INVALID THEN NaN ELSE 4 * r
-----------------------------------------------------------------------------
\* Mutant: a hidden field is left as the memset made it.
DefaultCleared(f) == 0

\* What to_raw gives a hidden field.
Default(f) == f.arg

\* Mutant: the count is taken from the wire as it is.
CountReadUnclamped(r, max) == r

CountRead(r, max) == ub_min_int(r, max)

\* One member in a ub_data_*_to_raw.
ToRaw(f, v) ==
  CASE f.kind = "plain"  -> v
    [] f.kind = "masked" -> Unsigned(v, f.bits)
    [] f.kind = "flag"   -> v
    [] f.kind = "scaled" -> Unsigned(ub_round_i32(InFloat(v)), f.bits)
    [] f.kind = "signed" -> Narrowed(ub_round_i32(InFloat(v)), f.bits)
    [] f.kind = "ppm"    -> ub_ppm_to_int8(v)
    [] f.kind = "ratio"  -> Unsigned(v \div f.arg, f.bits)
    [] f.kind = "count"  -> Unsigned(ub_min_int(v, f.arg), f.bits)
    [] f.kind = "hidden" -> Default(f)

\* One member in a ub_data_*_from_raw; hidden ones are not read.
FromRaw(f, r) ==
  CASE f.kind \in {"plain", "masked"}  -> r
    [] f.kind = "flag"                 -> IF r # 0 THEN 1 ELSE 0
    [] f.kind \in {"scaled", "signed"} -> InFloat(4 * r)
    [] f.kind = "ppm"                  -> ub_ppm_from_int8(r)
    [] f.kind = "ratio"                -> r * f.arg
    [] f.kind = "count"                -> CountRead(r, f.arg)
    [] f.kind = "hidden"               -> 0
==============================================================================
