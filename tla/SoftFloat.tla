------------------------------ MODULE SoftFloat ------------------------------
(***************************************************************************)
(* The binary floating-point arithmetic of the guest runtime               *)
(* (runtime/softfloat): addition, subtraction, multiplication, division,   *)
(* fused multiplication, rounding to an integral value and scaling, on bit *)
(* patterns and with integers only.  The code is generic in the format up  *)
(* to its constants, and they are parameters here: binary32 is P = 23,     *)
(* EB = 8, G = 7.  An operation returns the bits and the flags it raises   *)
(* in the context; it reads nothing of the context but the rounding mode.  *)
(***************************************************************************)
EXTENDS Integers, FiniteSets

CONSTANTS
    P,     \* bits of the fraction
    EB,    \* bits of the exponent
    G      \* bits kept below the last place until the result is rounded

ASSUME FormatAssumption == P \in Nat /\ EB \in Nat /\ G \in Nat /\ P >= 2 /\ EB >= 2 /\ G >= 3

Modes == {"nearest", "zero", "down", "up"}

(* The words the significands are computed in: 32 bits for binary32.        *)
Width(g) == P + g + 2
MaxExp(eb) == 2^eb - 1
Bias(eb) == 2^(eb - 1) - 1
Values(p) == 0..2^(p + EB + 1) - 1

Sign(x) == x \div 2^(P + EB)
Exp(x) == (x \div 2^P) % 2^EB
Frac(x) == x % 2^P
Magnitude(x) == x % 2^(P + EB)
Pack(sign, exp, sig) == sign * 2^(P + EB) + exp * 2^P + sig
Infinity(sign) == Pack(sign, MaxExp(EB), 0)
Zero(sign) == Pack(sign, 0, 0)
Flip(sign) == 1 - sign
Xor(s, t) == (s + t) % 2

IsNaN(x) == Exp(x) = MaxExp(EB) /\ Frac(x) # 0
IsSigNaN(x) == IsNaN(x) /\ Frac(x) < 2^(P - 1)
Quiet(x) == IF Frac(x) < 2^(P - 1) THEN x + 2^(P - 1) ELSE x
QuietNaN(sign) == Pack(sign, MaxExp(EB), 2^(P - 1))

Exact(x) == [bits |-> x, raised |-> {}]
Raises(x, flags) == [bits |-> x, raised |-> flags]
Invalid(x) == Raises(x, {"invalid"})
When(condition, flags) == IF condition THEN flags ELSE {}

PropagateNaN(a, b) ==
    IF IsSigNaN(a) \/ IsSigNaN(b)
    THEN Raises(Quiet(IF IsSigNaN(a) THEN a ELSE b), {"invalid"})
    ELSE Exact(IF IsNaN(a) THEN a ELSE b)

----------------------------------------------------------------------------
(* Shifts to the right that keep a trace of the bits they lose.             *)
Jam(x, lost) == IF lost /\ x % 2 = 0 THEN x + 1 ELSE x

ShiftRightJam(width, x, dist) ==
    IF dist >= width - 1 THEN Jam(0, x # 0)
    ELSE Jam(x \div 2^dist, IF dist = 0 THEN x # 0 ELSE x % 2^dist # 0)

ShortShiftRightJam(x, dist) == Jam(x \div 2^dist, x % 2^dist # 0)

CountLeadingZeros(width, x) ==
    width - (CHOOSE n \in 0..width : x < 2^n /\ (n = 0 \/ x >= 2^(n - 1)))

NormSubnormalSig(sig) ==
    LET dist == CountLeadingZeros(Width(G), sig) - (G + 1)
    IN  [exp |-> 1 - dist, sig |-> sig * 2^dist]

(* The significand with its hidden bit, of any finite value but zero.       *)
Unpacked(x) ==
    IF Exp(x) = 0 THEN NormSubnormalSig(Frac(x))
    ELSE [exp |-> Exp(x), sig |-> Frac(x) + 2^P]

(* Mutant of Tiny: tininess is detected before rounding.                    *)
TinyBefore(exp, sig, increment) == exp < 0

Tiny(exp, sig, increment) == exp < 0 /\ (exp < -1 \/ sig + increment < 2^(Width(G) - 1))

(* What is added below the last place before the bits there are cut off.    *)
Increment(mode, sign) ==
    CASE mode = "nearest" -> 2^(G - 1)
      [] mode = (IF sign = 1 THEN "down" ELSE "up") -> 2^G - 1
      [] OTHER -> 0

RoundPack(mode, sign, exp, sig) ==
    LET increment == Increment(mode, sign)
        kept == IF exp < 0 THEN ShiftRightJam(Width(G), sig, -exp) ELSE sig
        roundBits == kept % 2^G
        sum == (kept + increment) \div 2^G
        rounded == IF mode = "nearest" /\ roundBits = 2^(G - 1) THEN sum - (sum % 2) ELSE sum
        field == IF exp < 0 \/ rounded = 0 THEN 0 ELSE exp
    IN  IF exp > MaxExp(EB) - 2 \/ (exp = MaxExp(EB) - 2 /\ sig + increment >= 2^(Width(G) - 1))
        THEN Raises(Infinity(sign) - (IF increment = 0 THEN 1 ELSE 0), {"overflow", "inexact"})
        ELSE Raises(Pack(sign, field, rounded),
                    When(roundBits # 0, {"inexact"})
                    \cup When(roundBits # 0 /\ Tiny(exp, sig, increment), {"underflow"}))

NormRoundPack(mode, sign, exp, sig) ==
    LET dist == CountLeadingZeros(Width(G), sig) - 1
    IN  IF dist >= G /\ exp - dist \in 0..MaxExp(EB) - 3
        THEN Exact(Pack(sign, IF sig = 0 THEN 0 ELSE exp - dist, sig * 2^(dist - G)))
        ELSE RoundPack(mode, sign, exp - dist, sig * 2^dist)

----------------------------------------------------------------------------
(* Sums and differences of magnitudes; larger is the operand with the       *)
(* larger exponent, as the branches on the sign of expDiff have it.         *)
Scaled(x, guard) == (Frac(x) + (IF Exp(x) = 0 THEN Frac(x) ELSE 2^P)) * 2^guard

AddMagsApart(mode, sign, larger, smaller) ==
    LET dist == Exp(larger) - Exp(smaller)
        sum == (2^P + Frac(larger)) * 2^(G - 1) + ShiftRightJam(Width(G), Scaled(smaller, G - 1), dist)
    IN  IF Exp(larger) = MaxExp(EB) THEN Exact(Infinity(sign))
        ELSE IF sum < 2^(Width(G) - 2) THEN RoundPack(mode, sign, Exp(larger) - 1, sum * 2)
        ELSE RoundPack(mode, sign, Exp(larger), sum)

AddMags(mode, a, b) ==
    LET sum == 2^(P + 1) + Frac(a) + Frac(b)
    IN  IF IsNaN(a) \/ IsNaN(b) THEN PropagateNaN(a, b) ELSE
        CASE Exp(a) > Exp(b) -> AddMagsApart(mode, Sign(a), a, b)
          [] Exp(a) < Exp(b) -> AddMagsApart(mode, Sign(a), b, a)
          [] Exp(a) = Exp(b) /\ Exp(a) = 0 -> Exact(a + Frac(b))
          [] Exp(a) = Exp(b) /\ Exp(a) = MaxExp(EB) -> Exact(a)
          [] OTHER ->
               IF sum % 2 = 0 /\ Exp(a) < MaxExp(EB) - 1
               THEN Exact(Pack(Sign(a), Exp(a), sum \div 2))
               ELSE RoundPack(mode, Sign(a), Exp(a), sum * 2^(G - 1))

SubMagsApart(mode, sign, larger, smaller) ==
    IF Exp(larger) = MaxExp(EB) THEN Exact(Infinity(sign))
    ELSE NormRoundPack(mode, sign, Exp(larger) - 1,
             (2^P + Frac(larger)) * 2^G
             - ShiftRightJam(Width(G), Scaled(smaller, G), Exp(larger) - Exp(smaller)))

SubMagsAligned(mode, a, b) ==
    LET diff == Frac(a) - Frac(b)
        exp == IF Exp(a) = 0 THEN 0 ELSE Exp(a) - 1
        sig == IF diff < 0 THEN -diff ELSE diff
        dist == CountLeadingZeros(Width(G), sig) - (G + 1)
        sign == IF diff < 0 THEN Flip(Sign(a)) ELSE Sign(a)
    IN  IF diff = 0 THEN Exact(Zero(IF mode = "down" THEN 1 ELSE 0))
        ELSE IF exp < dist THEN Exact(Pack(sign, 0, sig * 2^exp))
        ELSE Exact(Pack(sign, exp - dist, sig * 2^dist))

SubMags(mode, a, b) ==
    IF IsNaN(a) \/ IsNaN(b) THEN PropagateNaN(a, b) ELSE
    CASE Exp(a) > Exp(b) -> SubMagsApart(mode, Sign(a), a, b)
      [] Exp(a) < Exp(b) -> SubMagsApart(mode, Flip(Sign(a)), b, a)
      [] Exp(a) = Exp(b) /\ Exp(a) = MaxExp(EB) -> Invalid(QuietNaN(0))
      [] OTHER -> SubMagsAligned(mode, a, b)

add(mode, a, b) == IF Sign(a) # Sign(b) THEN SubMags(mode, a, b) ELSE AddMags(mode, a, b)
sub(mode, a, b) == IF Sign(a) # Sign(b) THEN AddMags(mode, a, b) ELSE SubMags(mode, a, b)

----------------------------------------------------------------------------
mul(mode, a, b) ==
    LET sign == Xor(Sign(a), Sign(b))
        x == Unpacked(a)
        y == Unpacked(b)
        exp == x.exp + y.exp - Bias(EB)
        sig == ShortShiftRightJam((x.sig * 2^G) * (y.sig * 2^(G + 1)), Width(G))
    IN  CASE IsNaN(a) \/ IsNaN(b) -> PropagateNaN(a, b)
          [] ~ IsNaN(a) /\ ~ IsNaN(b) /\ MaxExp(EB) \in {Exp(a), Exp(b)} ->
               IF 0 \in {Magnitude(a), Magnitude(b)} THEN Invalid(QuietNaN(0)) ELSE Exact(Infinity(sign))
          [] OTHER ->
               IF 0 \in {Magnitude(a), Magnitude(b)} THEN Exact(Zero(sign))
               ELSE IF sig < 2^(Width(G) - 2) THEN RoundPack(mode, sign, exp - 1, sig * 2)
               ELSE RoundPack(mode, sign, exp, sig)

(* The remainder matters only where the bits below the last place do not    *)
(* already tell to which side the quotient lies.                            *)
Quotient(num, den) ==
    LET q == num \div den
    IN  IF q % 2^(G - 1) = 0 THEN Jam(q, q * den # num) ELSE q

div(mode, a, b) ==
    LET sign == Xor(Sign(a), Sign(b))
        x == Unpacked(a)
        y == Unpacked(b)
        exp == x.exp - y.exp + Bias(EB) - 1
    IN  CASE IsNaN(a) \/ IsNaN(b) -> PropagateNaN(a, b)
          [] ~ IsNaN(b) /\ Exp(a) = MaxExp(EB) /\ Frac(a) = 0 ->
               IF Exp(b) = MaxExp(EB) THEN Invalid(QuietNaN(0)) ELSE Exact(Infinity(sign))
          [] Exp(a) # MaxExp(EB) /\ Exp(b) = MaxExp(EB) /\ Frac(b) = 0 -> Exact(Zero(sign))
          [] Exp(a) # MaxExp(EB) /\ Magnitude(b) = 0 ->
               IF Magnitude(a) = 0 THEN Invalid(QuietNaN(0)) ELSE Raises(Infinity(sign), {"divide"})
          [] OTHER ->
               IF Magnitude(a) = 0 THEN Exact(Zero(sign))
               ELSE IF x.sig < y.sig
                    THEN RoundPack(mode, sign, exp - 1, Quotient(x.sig * 2^(Width(G) - 1), y.sig))
                    ELSE RoundPack(mode, sign, exp, Quotient(x.sig * 2^(Width(G) - 2), y.sig))

----------------------------------------------------------------------------
(* softfloat_mulAddF32: the product has twice the width, with its leading   *)
(* bit in the place below the two highest.                                  *)
FusedProduct(a, b) ==
    LET x == Unpacked(a)
        y == Unpacked(b)
        exp == x.exp + y.exp - Bias(EB) + 1
        sig == x.sig * y.sig * 2^(2 * G)
    IN  IF sig < 2^(2 * Width(G) - 3) THEN [exp |-> exp - 1, sig |-> sig * 2] ELSE [exp |-> exp, sig |-> sig]

FusedSum(mode, sign, prod, c) ==
    LET dist == prod.exp - c.exp
        exp == IF dist <= 0 THEN c.exp ELSE prod.exp
        sum == IF dist <= 0
               THEN c.sig + ShiftRightJam(2 * Width(G), prod.sig, Width(G) - dist)
               ELSE ShortShiftRightJam(
                        prod.sig + ShiftRightJam(2 * Width(G), c.sig * 2^Width(G), dist), Width(G))
    IN  IF sum < 2^(Width(G) - 2) THEN RoundPack(mode, sign, exp - 1, sum * 2)
        ELSE RoundPack(mode, sign, exp, sum)

Cancelled(mode) == Zero(IF mode = "down" THEN 1 ELSE 0)

FusedDifference(mode, sign, prod, c) ==
    LET dist == prod.exp - c.exp
        wide == c.sig * 2^Width(G)
        diff == CASE dist < 0 -> wide - ShiftRightJam(2 * Width(G), prod.sig, -dist)
                  [] dist = 0 -> prod.sig - wide
                  [] OTHER -> prod.sig - ShiftRightJam(2 * Width(G), wide, dist)
        sig == IF diff < 0 THEN -diff ELSE diff
        signZ == IF dist < 0 \/ diff < 0 THEN Flip(sign) ELSE sign
        shift == CountLeadingZeros(2 * Width(G), sig) - 1
        exp == (IF dist < 0 THEN c.exp ELSE prod.exp) - shift
    IN  IF diff = 0 THEN Exact(Cancelled(mode))
        ELSE IF shift < Width(G)
        THEN RoundPack(mode, signZ, exp, ShortShiftRightJam(sig, Width(G) - shift))
        ELSE RoundPack(mode, signZ, exp, sig * 2^(shift - Width(G)))

FusedFinite(mode, sign, prod, c) ==
    LET z == Unpacked(c)
        scaled == [exp |-> z.exp, sig |-> z.sig * 2^(G - 1)]
    IN  IF Magnitude(c) = 0
        THEN RoundPack(mode, sign, prod.exp - 1, ShortShiftRightJam(prod.sig, Width(G) - 1))
        ELSE IF sign = Sign(c) THEN FusedSum(mode, sign, prod, scaled)
        ELSE FusedDifference(mode, sign, prod, scaled)

Also(flags, z) == Raises(z.bits, z.raised \cup flags)

fma(mode, a, b, c) ==
    LET sign == Xor(Sign(a), Sign(b))
        infinite == MaxExp(EB) \in {Exp(a), Exp(b)}
        zero == 0 \in {Magnitude(a), Magnitude(b)}
        first == PropagateNaN(a, b)
    IN  CASE IsNaN(a) \/ IsNaN(b) -> Also(first.raised, PropagateNaN(first.bits, c))
          [] ~ IsNaN(a) /\ ~ IsNaN(b) /\ infinite /\ zero ->
               Also({"invalid"}, PropagateNaN(QuietNaN(0), c))
          [] ~ IsNaN(a) /\ ~ IsNaN(b) /\ infinite /\ ~ zero ->
               CASE IsNaN(c) -> PropagateNaN(Infinity(sign), c)
                 [] c = Infinity(Flip(sign)) -> Also({"invalid"}, PropagateNaN(QuietNaN(0), c))
                 [] OTHER -> Exact(Infinity(sign))
          [] OTHER ->
               IF Exp(c) = MaxExp(EB)
               THEN IF IsNaN(c) THEN PropagateNaN(0, c) ELSE Exact(c)
               ELSE IF zero
               THEN IF Magnitude(c) = 0 /\ sign # Sign(c) THEN Exact(Cancelled(mode)) ELSE Exact(c)
               ELSE FusedFinite(mode, sign, FusedProduct(a, b), c)

----------------------------------------------------------------------------
(* f32_roundToInt, below one and above, and cosmic_sf_scalbn32.             *)
RoundBelowOne(mode, x) ==
    LET up == CASE mode = "nearest" -> Exp(x) = Bias(EB) - 1 /\ Frac(x) # 0
                [] mode = "down" -> Sign(x) = 1
                [] mode = "up" -> Sign(x) = 0
                [] OTHER -> FALSE
    IN  Pack(Sign(x), IF up THEN Bias(EB) ELSE 0, 0)

RoundAboveOne(mode, x) ==
    LET last == 2^(Bias(EB) + P - Exp(x))
        sum == x + (CASE mode = "nearest" -> last \div 2
                      [] mode = (IF Sign(x) = 1 THEN "down" ELSE "up") -> last - 1
                      [] OTHER -> 0)
        tied == mode = "nearest" /\ sum % last = 0 /\ (sum \div last) % 2 = 1
    IN  sum - (sum % last) - (IF tied THEN last ELSE 0)

RoundToInt(mode, x, exact) ==
    LET z == IF Exp(x) < Bias(EB) THEN RoundBelowOne(mode, x) ELSE RoundAboveOne(mode, x)
    IN  CASE IsNaN(x) -> PropagateNaN(x, 0)
          [] Magnitude(x) = 0 -> Exact(x)
          [] ~ IsNaN(x) /\ Exp(x) >= Bias(EB) + P -> Exact(x)
          [] OTHER -> Raises(z, When(exact /\ z # x, {"inexact"}))

scalbn(mode, x, n) ==
    CASE IsNaN(x) -> PropagateNaN(x, 0)
      [] ~ IsNaN(x) /\ (Exp(x) = MaxExp(EB) \/ Magnitude(x) = 0) -> Exact(x)
      [] OTHER -> RoundPack(mode, Sign(x), Unpacked(x).exp + n - 1, Unpacked(x).sig * 2^G)
=============================================================================
