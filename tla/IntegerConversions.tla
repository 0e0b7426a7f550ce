-------------------------- MODULE IntegerConversions --------------------------
(***************************************************************************)
(* Conversions of the guest runtime between integers and a floating-point   *)
(* format.  The 32-bit ones are written in binary32-convert.c; the 64-bit   *)
(* ones are SoftFloat's.                                                    *)
(***************************************************************************)
EXTENDS FloatReference

CONSTANTS
    IW,    \* bits of the integers, 32 or 64: more than P + G + 1, no more than Bias(EB)
    HW     \* bits of the integers that every value of the format can hold: 32 for binary64

Unsigned == 0..2^IW - 1
Signed == -(2^(IW - 1))..2^(IW - 1) - 1

(* cosmic_sf_from_mag32: the code shifts, adds one and looks for a carry.   *)
from_mag32(mode, mag, sign) ==
    LET exp == CHOOSE n \in 0..IW - 1 : mag \in 2^n..2^(n + 1) - 1
        cut == 2^(exp - P)
        rem == mag % cut
        up == \/ mode = "nearest" /\ (rem > cut \div 2 \/ (rem = cut \div 2 /\ (mag \div cut) % 2 = 1))
              \/ mode = (IF sign = 1 THEN "down" ELSE "up") /\ rem # 0
        sig == (mag \div cut) + (IF up THEN 1 ELSE 0)
    IN  IF mag = 0 THEN Exact(0)
        ELSE IF exp <= P THEN Exact((exp + Bias(EB)) * 2^P + ((mag * 2^(P - exp)) % 2^P))
        ELSE Raises(IF sig = 2^(P + 1) THEN (exp + 1 + Bias(EB)) * 2^P
                    ELSE (exp + Bias(EB)) * 2^P + (sig % 2^P),
                    When(rem # 0, {"inexact"}))

from_i32(mode, n) ==
    LET z == from_mag32(mode, Abs(n), SignOf(n))
    IN  [z EXCEPT !.bits = @ + Zero(SignOf(n))]

from_u32(mode, n) == from_mag32(mode, n, 0)

(* i64_to_f32 and ui64_to_f32.                                              *)
from_i64(mode, n) ==
    LET dist == CountLeadingZeros(IW, Abs(n)) - (IW - P - 1)
        sig == IF dist + G < 0 THEN ShortShiftRightJam(Abs(n), -(dist + G)) ELSE Abs(n) * 2^(dist + G)
    IN  IF n = 0 THEN Exact(0)
        ELSE IF dist >= 0 THEN Exact(Pack(SignOf(n), Bias(EB) + P - 1 - dist, Abs(n) * 2^dist))
        ELSE RoundPack(mode, SignOf(n), Bias(EB) + P + G - 1 - (dist + G), sig)

from_ui64(mode, n) == from_i64(mode, n)

----------------------------------------------------------------------------
(* cosmic_sf_trunc_to_integer32.                                            *)
Saturated(x, least, most) ==
    [n |-> IF IsNaN(x) THEN 0 ELSE IF Sign(x) = 1 THEN least ELSE most, raised |-> {"invalid"}]

Truncated(x, e) ==
    LET sig == Frac(x) + 2^P
        mag == IF e >= P THEN sig * 2^(e - P) ELSE sig \div 2^(P - e)
    IN  [n |-> IF Sign(x) = 1 THEN -mag ELSE mag,
         raised |-> When(e < P /\ sig % 2^(P - e) # 0, {"inexact"})]

BelowOne(x) == [n |-> 0, raised |-> When(Magnitude(x) # 0, {"inexact"})]

OutOfRange(x, e, is_signed) ==
    \/ Exp(x) = MaxExp(EB)
    \/ e > IW - 1
    \/ is_signed /\ e = IW - 1 /\ x # Pack(1, Bias(EB) + IW - 1, 0)
    \/ ~ is_signed /\ Sign(x) = 1

trunc_to_integer32(x, is_signed) ==
    LET e == Exp(x) - Bias(EB)
    IN  IF e < 0 THEN BelowOne(x)
        ELSE IF OutOfRange(x, e, is_signed)
        THEN IF is_signed THEN Saturated(x, -(2^(IW - 1)), 2^(IW - 1) - 1)
             ELSE Saturated(x, 0, 2^IW - 1)
        ELSE Truncated(x, e)

(* f32_to_i64_r_minMag and f32_to_ui64_r_minMag.                            *)
Aligned(x, dist) ==
    LET sig == Frac(x) + 2^P
        mag == (sig * 2^(IW - P - 1)) \div 2^dist
        lost == dist - (IW - P - 1)
    IN  [n |-> IF Sign(x) = 1 THEN -mag ELSE mag,
         raised |-> When(lost > 0 /\ sig % 2^lost # 0, {"inexact"})]

to_i64(x) ==
    LET dist == Bias(EB) + IW - 1 - Exp(x)
    IN  IF dist >= IW THEN BelowOne(x)
        ELSE IF dist > 0 THEN Aligned(x, dist)
        ELSE IF x = Pack(1, Bias(EB) + IW - 1, 0) THEN [n |-> -(2^(IW - 1)), raised |-> {}]
        ELSE Saturated(x, -(2^(IW - 1)), 2^(IW - 1) - 1)

to_ui64(x) ==
    LET dist == Bias(EB) + IW - 1 - Exp(x)
    IN  IF dist >= IW THEN BelowOne(x)
        ELSE IF Sign(x) = 1 \/ dist < 0 THEN Saturated(x, 0, 2^IW - 1)
        ELSE Aligned(x, dist)

----------------------------------------------------------------------------
(* The 64-bit conversions of binary64, where the integers are as wide as    *)
(* the words: IW = Width(G).                                                *)
i64_to_f64(mode, n) ==
    CASE n = 0 -> Exact(0)
      [] n = -(2^(IW - 1)) -> Exact(Pack(1, Bias(EB) + IW - 1, 0))
      [] OTHER -> NormRoundPack(mode, SignOf(n), Bias(EB) + IW - 3, Abs(n))

ui64_to_f64(mode, n) ==
    CASE n = 0 -> Exact(0)
      [] n >= 2^(IW - 1) -> RoundPack(mode, 0, Bias(EB) + IW - 2, ShortShiftRightJam(n, 1))
      [] OTHER -> NormRoundPack(mode, 0, Bias(EB) + IW - 3, n)

f64_to_i64(x) ==
    LET e == Exp(x) - Bias(EB)
    IN  CASE e < 0 -> BelowOne(x)
          [] e \in 0..P + G -> Truncated(x, e)
          [] OTHER ->
               IF x = Pack(1, Bias(EB) + IW - 1, 0) THEN [n |-> -(2^(IW - 1)), raised |-> {}]
               ELSE Saturated(x, -(2^(IW - 1)), 2^(IW - 1) - 1)

f64_to_ui64(x) ==
    LET e == Exp(x) - Bias(EB)
    IN  IF e < 0 THEN BelowOne(x)
        ELSE IF Sign(x) = 1 \/ e > P + G + 1 THEN Saturated(x, 0, 2^IW - 1)
        ELSE Truncated(x, e)

(* i32_to_f64 and ui32_to_f64, f64_to_i32_r_minMag and f64_to_ui32_r_minMag. *)
(* More than one value is truncated to the least integer.                   *)
Narrow == 0..2^HW - 1
NarrowSigned == -(2^(HW - 1))..2^(HW - 1) - 1

i32_to_f64(n) ==
    LET dist == CountLeadingZeros(HW, Abs(n)) + P - HW + 1
    IN  IF n = 0 THEN Exact(0)
        ELSE Exact(Pack(SignOf(n), Bias(EB) + P - 1 - dist, Abs(n) * 2^dist))

f64_to_i32(x) ==
    LET e == Exp(x) - Bias(EB)
    IN  CASE e < 0 -> BelowOne(x)
          [] e \in 0..HW - 2 -> Truncated(x, e)
          [] OTHER ->
               IF Sign(x) = 1 /\ e = HW - 1 /\ Frac(x) < 2^(P - HW + 1)
               THEN [n |-> -(2^(HW - 1)), raised |-> When(Frac(x) # 0, {"inexact"})]
               ELSE Saturated(x, -(2^(HW - 1)), 2^(HW - 1) - 1)

f64_to_ui32(x) ==
    LET e == Exp(x) - Bias(EB)
    IN  IF e < 0 THEN BelowOne(x)
        ELSE IF Sign(x) = 1 \/ e > HW - 1 THEN Saturated(x, 0, 2^HW - 1)
        ELSE Truncated(x, e)

----------------------------------------------------------------------------
(* What they promise.                                                       *)
RefFromInteger(mode, n) ==
    IF n = 0 THEN Exact(0) ELSE Rounded(mode, SignOf(n), Abs(n) * Whole(1), 1)

(* Truncation, or invalid and the nearest integer there is (0 for a NaN);   *)
(* what truncates to 0 is never out of range.                               *)
RefToInteger(x, range) ==
    LET mag == Abs(Units(x)) \div Whole(1)
        n == IF Sign(x) = 1 THEN -mag ELSE mag
        least == CHOOSE i \in range : \A j \in range : i <= j
        most == CHOOSE i \in range : \A j \in range : i >= j
    IN  IF IsNaN(x) THEN [n |-> 0, raised |-> {"invalid"}]
        ELSE IF ~ IsFinite(x) \/ n \notin range
        THEN [n |-> IF Sign(x) = 1 THEN least ELSE most, raised |-> {"invalid"}]
        ELSE [n |-> n, raised |-> When(Units(x) % Whole(1) # 0, {"inexact"})]
=============================================================================
