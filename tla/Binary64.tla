------------------------------- MODULE Binary64 -------------------------------
(***************************************************************************)
(* The operations of the guest runtime whose code for binary64 is not that  *)
(* of binary32 (runtime/softfloat): quotients and square roots are found    *)
(* with approximate reciprocals from tables and then corrected, and the     *)
(* fused multiplication works on numbers of several words.  binary64 is     *)
(* P = 52, EB = 11, G = 10; the constants of the quotients and roots        *)
(* presume G >= 7, the words of the products that Width(G) is even.         *)
(*                                                                          *)
(* The tables are left out: short says how far below the exact value the    *)
(* estimate is that they lead to, and that it is below by less than four of *)
(* its units is what the corrections presume.                               *)
(***************************************************************************)
EXTENDS FloatReference, Sequences

(* The code of these is that of binary32, with other constants.             *)
roundPackToF64(mode, sign, exp, sig) == RoundPack(mode, sign, exp, sig)
propagateNaNF64UI(a, b) == PropagateNaN(a, b)
shiftRightJam64(x, dist) == ShiftRightJam(Width(G), x, dist)
subMagsF64(mode, a, b) == SubMags(mode, a, b)
f64_eq(a, b) == Eq(a, b)
f64_lt(a, b) == Lt(a, b)
f64_le(a, b) == Le(a, b)

----------------------------------------------------------------------------
(* Sums of equal exponents are rounded also where they need not be.         *)
addMagsF64(mode, a, b) ==
    IF Exp(a) = Exp(b) /\ Exp(a) \in 1..MaxExp(EB) - 1
    THEN roundPackToF64(mode, Sign(a), Exp(a), (2^(P + 1) + Frac(a) + Frac(b)) * 2^(G - 1))
    ELSE AddMags(mode, a, b)

f64_add(mode, a, b) ==
    IF Sign(a) # Sign(b) THEN subMagsF64(mode, a, b) ELSE addMagsF64(mode, a, b)
f64_sub(mode, a, b) ==
    IF Sign(a) # Sign(b) THEN addMagsF64(mode, a, b) ELSE subMagsF64(mode, a, b)

----------------------------------------------------------------------------
(* A multiple of the unit below num / den, by less than four units.         *)
EstimateBelow(unit, num, den, short) ==
    LET exact == num % (den * unit) = 0
    IN  unit * (num \div (den * unit) - (IF exact /\ short = 0 THEN 1 ELSE short))

(* Four units are added to the estimate, which is now above by at most so   *)
(* much; that matters only where it ends in little more than zeros.         *)
CorrectedQuotient(num, den, estimate) ==
    LET near == estimate - (estimate % 2^(G - 3))
    IN  IF estimate % 2^(G - 1) >= 2^(G - 4) THEN estimate
        ELSE IF near * den > num THEN near - 2^(G - 3)
        ELSE Jam(near, near * den < num)

f64_div(mode, a, b, short) ==
    LET x == Unpacked(a)
        y == Unpacked(b)
        less == x.sig < y.sig
        num == x.sig * 2^(Width(G) - (IF less THEN 1 ELSE 2))
        estimate == EstimateBelow(2^(G - 6), num, y.sig, short) + 2^(G - 4)
    IN  IF MaxExp(EB) \in {Exp(a), Exp(b)} \/ 0 \in {Magnitude(a), Magnitude(b)} THEN div(mode, a, b)
        ELSE roundPackToF64(mode, Xor(Sign(a), Sign(b)), x.exp - y.exp + Bias(EB) - (IF less THEN 2 ELSE 1),
                       CorrectedQuotient(num, y.sig, estimate))

----------------------------------------------------------------------------
(* The integer square root, two bits of the radicand at a time.             *)
Root(x) ==
    LET r[i \in 0..15] ==
          IF i = 0 THEN 0
          ELSE LET s == 2 * r[i - 1] + 1
               IN  IF s * s <= x \div 4^(15 - i) THEN s ELSE s - 1
    IN  r[15]

(* Which values have no root to be computed, and what they give.            *)
RootIsSpecial(x) == Exp(x) = MaxExp(EB) \/ Sign(x) = 1 \/ Magnitude(x) = 0
SpecialRoot(x) ==
    IF IsNaN(x) THEN propagateNaNF64UI(x, 0)
    ELSE IF Magnitude(x) = 0 \/ Sign(x) = 0 THEN Exact(x)
    ELSE Invalid(QuietNaN(0))

(* The significand of the root is that of sig * 2^(2 * Width(G) - 3 - P),   *)
(* of half of that where the exponent in the encoding is odd.               *)
IsOdd(x) == Unpacked(x).exp % 2 = 1
RootExp(x) == ((Unpacked(x).exp - Bias(EB)) \div 2) + Bias(EB) - 1
Radicand(x, shift) == Unpacked(x).sig * 2^(shift - (IF IsOdd(x) THEN 1 ELSE 0))

(* The remainder, and so its sign, is computed modulo the size of the word. *)
Negative(rem) == rem % 2^Width(G) >= 2^(Width(G) - 1)
Nonzero(rem) == rem % 2^Width(G) # 0

CorrectedRoot(x, estimate) ==
    LET near == estimate - (estimate % 2^(G - 4))
        shifted == near \div 2^(G - 4)
        rem == Radicand(x, P + 9) - shifted * shifted
    IN  CASE estimate % 2^(G - 1) > 2^(G - 5) + 1 -> estimate
          [] estimate % 2^(G - 1) <= 2^(G - 5) + 1 /\ Negative(rem) -> near - 1
          [] OTHER -> Jam(near, Nonzero(rem))

(* A multiple of the unit below the root of the radicand.                   *)
RootBelow(unit, radicand, short) ==
    LET r == Root(radicand \div (unit * unit))
        exact == r * r * unit * unit = radicand
    IN  unit * (r - (IF exact /\ short = 0 THEN 1 ELSE short))

f64_sqrt(mode, x, short) ==
    IF RootIsSpecial(x) THEN SpecialRoot(x)
    ELSE roundPackToF64(mode, 0, RootExp(x),
             CorrectedRoot(x, RootBelow(2^(G - 7), Radicand(x, 2 * Width(G) - 3 - P), short)
                              + 2^(G - 5)))

(* f32_sqrt, where G is 7: the estimate is below by less than three places, *)
(* of which two are added.                                                  *)
CorrectedRoot32(estimate) ==
    LET near == estimate - (estimate % 4)
        negRem == (estimate \div 4) * (estimate \div 4)
    IN  CASE estimate % 2^(G - 1) >= 2 -> estimate
          [] estimate % 2^(G - 1) < 2 /\ Negative(negRem) -> near + 1
          [] OTHER -> IF Nonzero(negRem) THEN near - 1 ELSE near

f32_sqrt(mode, x, short) ==
    IF RootIsSpecial(x) THEN SpecialRoot(x)
    ELSE roundPackToF64(mode, 0, RootExp(x),
             CorrectedRoot32(RootBelow(1, Radicand(x, 2 * Width(G) - 3 - P), short) + 2))

----------------------------------------------------------------------------
(* f64_mul and softfloat_mulAddF64: the product has four words, each half   *)
(* as long as that of a significand, and is late where it has one leading   *)
(* zero more than it should.                                                *)
Half == Width(G) \div 2
M == INSTANCE WordArithmetic WITH W <- Half

High(z) == z[3] + z[4] * 2^Half
Low(z) == z[1] + z[2] * 2^Half
Sticky(z) == Jam(High(z), Low(z) # 0)
Alone(sig) == <<0, 0>> \o M!InWords(2, sig)
WithHigh(z, sig) == SubSeq(z, 1, 2) \o M!InWords(2, sig)

(* No shift leaves the number as it is.                                     *)
Shifted(x, dist) == IF dist = 0 THEN x ELSE shiftRightJam64(x, dist)

Product(a, b) ==
    LET x == Unpacked(a)
        y == Unpacked(b)
        wide == M!mul64To128M(x.sig * 2^G, y.sig * 2^(G + 1))
        late == IF High(wide) < 2^(Width(G) - 2) THEN 1 ELSE 0
    IN  [exp |-> x.exp + y.exp - Bias(EB) + 1 - late, wide |-> wide, late |-> late]

f64_mul(mode, a, b) ==
    LET prod == Product(a, b)
    IN  IF MaxExp(EB) \in {Exp(a), Exp(b)} \/ 0 \in {Magnitude(a), Magnitude(b)} THEN mul(mode, a, b)
        ELSE roundPackToF64(mode, Xor(Sign(a), Sign(b)), prod.exp - 1, Sticky(prod.wide) * 2^prod.late)

(* The product with its leading bit in place.                               *)
InPlace(prod) == IF prod.late = 1 THEN M!addM(prod.wide, prod.wide) ELSE prod.wide

(* The one that is not as large is shifted to the other; the low words of   *)
(* the product count as a trace.                                            *)
SameSign(mode, sign, prod, c) ==
    LET dist == prod.exp - c.exp
        sum == CASE dist < 0 -> WithHigh(prod.wide, c.sig + Shifted(High(prod.wide), -dist - prod.late))
                 [] dist = 0 -> WithHigh(InPlace(prod), High(InPlace(prod)) + c.sig)
                 [] OTHER -> M!addM(InPlace(prod), M!shiftRightJamM(Alone(c.sig), dist))
        exp == IF dist < 0 THEN c.exp ELSE prod.exp
        carry == High(sum) >= 2^(Width(G) - 1)
        sig == IF carry THEN ShortShiftRightJam(High(sum), 1) ELSE High(sum)
    IN  roundPackToF64(mode, sign, (IF carry THEN exp + 1 ELSE exp) - 1, Jam(sig, Low(sum) # 0))

(* A difference of which no more than the leading bit can be lost.          *)
Unlost(mode, sign, exp, sig, lost) ==
    IF sig < 2^(Width(G) - 2) THEN roundPackToF64(mode, sign, exp - 2, Jam(sig * 2, lost))
    ELSE roundPackToF64(mode, sign, exp - 1, Jam(sig, lost))

Normalized(mode, sign, exp, diff) ==
    LET zeros(x) == CountLeadingZeros(Width(G), x)
        shift == (IF High(diff) = 0 THEN Width(G) + zeros(Low(diff)) ELSE zeros(High(diff))) - 1
    IN  roundPackToF64(mode, sign, exp - shift - 1,
                       Sticky(IF shift = 0 THEN diff ELSE M!shiftLeftM(diff, shift)))

FarBelow(mode, prod, c) ==
    LET sig == c.sig - shiftRightJam64(High(prod.wide), c.exp - prod.exp - prod.late)
    IN  Unlost(mode, c.sign, c.exp, IF Low(prod.wide) # 0 THEN Jam(sig - 1, TRUE) ELSE sig, FALSE)

OtherSign(mode, sign, prod, c) ==
    LET dist == prod.exp - c.exp
        level == WithHigh(InPlace(prod), High(InPlace(prod)) - c.sig)
        negative == High(level) >= 2^(Width(G) - 1)
        above == M!subM(InPlace(prod), M!shiftRightJamM(Alone(c.sig), dist))
    IN  CASE dist < -1 -> FarBelow(mode, prod, c)
          [] dist = -1 ->
               Normalized(mode, c.sign, c.exp,
                          M!subM(Alone(c.sig), IF prod.late = 1 THEN prod.wide ELSE M!shortShiftRightM(prod.wide, 1)))
          [] dist = 0 ->
               IF level = <<0, 0, 0, 0>> THEN Exact(Cancelled(mode))
               ELSE Normalized(mode, IF negative THEN Flip(sign) ELSE sign, prod.exp,
                               IF negative THEN M!negXM(level) ELSE level)
          [] dist = 1 -> Normalized(mode, sign, prod.exp, above)
          [] OTHER -> Unlost(mode, sign, prod.exp, High(above), Low(above) # 0)

mulAddF64(mode, sign, prod, c) ==
    LET z == Unpacked(c)
        other == [exp |-> z.exp, sig |-> z.sig * 2^G, sign |-> Sign(c)]
    IN  IF Magnitude(c) = 0
        THEN roundPackToF64(mode, sign, prod.exp - 1, Jam(High(prod.wide) * 2^prod.late, Low(prod.wide) # 0))
        ELSE IF sign = Sign(c) THEN SameSign(mode, sign, prod, other)
        ELSE OtherSign(mode, sign, prod, other)

f64_mulAdd(mode, a, b, c) ==
    IF MaxExp(EB) \in {Exp(a), Exp(b), Exp(c)} \/ 0 \in {Magnitude(a), Magnitude(b)}
    THEN fma(mode, a, b, c)
    ELSE mulAddF64(mode, Xor(Sign(a), Sign(b)), Product(a, b), c)

----------------------------------------------------------------------------
(* The root, rounded once.                                                  *)
RefRoot(mode, x) ==
    LET square == Units(x) * Whole(1) * 4^4
        r == Root(square)
    IN  IF RootIsSpecial(x) THEN SpecialRoot(x)
        ELSE Rounded(mode, 0, 2 * r + (IF r * r = square THEN 0 ELSE 1), 2^5)
=============================================================================
