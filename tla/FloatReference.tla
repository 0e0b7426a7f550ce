--------------------------- MODULE FloatReference ---------------------------
(***************************************************************************)
(* What the floating-point functions of the guest runtime promise, from the *)
(* values of their arguments: a result is the exact value rounded once in   *)
(* the mode of the context, with the flags of IEEE 754 (tininess after      *)
(* rounding), or exact where the function cannot round.  A finite value is  *)
(* a number of units, the unit being the smallest subnormal value; an exact *)
(* result is a quotient of units.                                           *)
(***************************************************************************)
EXTENDS MathBits

IsInfinite(x) == Magnitude(x) = Infinity(0)
IsZero(x) == Magnitude(x) = 0
IsFinite(x) == Exp(x) # MaxExp(EB)

Units(x) ==
    LET m == IF Exp(x) = 0 THEN Frac(x) ELSE (2^P + Frac(x)) * 2^(Exp(x) - 1)
    IN  IF Sign(x) = 1 THEN -m ELSE m

Whole(n) == n * 2^(P + Bias(EB) - 1)
Abs(n) == IF n < 0 THEN -n ELSE n
SignOf(n) == IF n < 0 THEN 1 ELSE 0

(* The integer next to num / den > 0 in the direction of the mode.          *)
Integral(mode, sign, num, den) ==
    LET q == num \div den
        r == num % den
        up == CASE mode = "nearest" -> 2 * r > den \/ (2 * r = den /\ q % 2 = 1)
                [] mode = "up" -> r # 0 /\ sign = 0
                [] mode = "down" -> r # 0 /\ sign = 1
                [] OTHER -> FALSE
    IN  IF up THEN q + 1 ELSE q

(* Encodings are in the order of their values, so that a significand that   *)
(* is rounded up to the next power of two is encoded as it stands.          *)
Binade(num, den) ==
    CHOOSE e \in 0..31 : num < den * 2^(P + 1 + e) /\ (e = 0 \/ num >= den * 2^(P + e))

Rounded(mode, sign, num, den) ==
    LET e == Binade(num, den)
        bits == e * 2^P + Integral(mode, sign, num, den * 2^e)
        inexact == num % (den * 2^e) # 0
        tiny == num < den * 2^P /\ Integral(mode, sign, 2 * num, den) < 2^(P + 1)
        stays == mode = "zero" \/ mode = (IF sign = 1 THEN "up" ELSE "down")
    IN  IF bits >= Infinity(0)
        THEN Raises(Infinity(sign) - (IF stays THEN 1 ELSE 0), {"overflow", "inexact"})
        ELSE Raises(Zero(sign) + bits,
                    When(inexact, {"inexact"}) \cup When(inexact /\ tiny, {"underflow"}))

(* The sum of two values, of which zero has the sign of both or, where they *)
(* differ, the sign the mode asks for.                                      *)
RoundedSum(mode, n, den, negative, positive) ==
    IF n = 0 THEN Exact(Zero(IF negative \/ (~ positive /\ mode = "down") THEN 1 ELSE 0))
    ELSE Rounded(mode, SignOf(n), Abs(n), den)

----------------------------------------------------------------------------
NaNsOf(operands) == {x \in operands : IsNaN(x)}

(* A NaN for operands of which some is a NaN, quiet and one of them.        *)
NaNFrom(operands, z) ==
    /\ z.bits \in {Quiet(x) : x \in NaNsOf(operands)}
    /\ z.raised = When(\E x \in operands : IsSigNaN(x), {"invalid"})

RefSum(mode, a, b) ==
    CASE IsInfinite(a) /\ b = Infinity(Flip(Sign(a))) -> Invalid(QuietNaN(0))
      [] IsInfinite(a) /\ b # Infinity(Flip(Sign(a))) -> Exact(a)
      [] IsFinite(a) /\ IsInfinite(b) -> Exact(b)
      [] OTHER -> RoundedSum(mode, Units(a) + Units(b), 1,
                             Sign(a) = 1 /\ Sign(b) = 1, Sign(a) = 0 /\ Sign(b) = 0)

Negated(x) == Pack(Flip(Sign(x)), 0, Magnitude(x))

RefProduct(mode, a, b) ==
    LET sign == Xor(Sign(a), Sign(b))
    IN  CASE IsInfinite(a) \/ IsInfinite(b) ->
               IF IsZero(a) \/ IsZero(b) THEN Invalid(QuietNaN(0)) ELSE Exact(Infinity(sign))
          [] IsFinite(a) /\ IsFinite(b) /\ (IsZero(a) \/ IsZero(b)) -> Exact(Zero(sign))
          [] OTHER -> Rounded(mode, sign, Abs(Units(a)) * Abs(Units(b)), Whole(1))

RefQuotient(mode, a, b) ==
    LET sign == Xor(Sign(a), Sign(b))
    IN  CASE (IsInfinite(a) /\ IsInfinite(b)) \/ (IsZero(a) /\ IsZero(b)) -> Invalid(QuietNaN(0))
          [] IsInfinite(a) /\ IsFinite(b) -> Exact(Infinity(sign))
          [] IsFinite(a) /\ ~ IsZero(a) /\ IsZero(b) -> Raises(Infinity(sign), {"divide"})
          [] (IsFinite(a) /\ IsInfinite(b)) \/ (IsZero(a) /\ ~ IsZero(b)) -> Exact(Zero(sign))
          [] OTHER -> Rounded(mode, sign, Abs(Units(a)) * Whole(1), Abs(Units(b)))

(* a * b + c with one rounding.                                             *)
RefFused(mode, a, b, c) ==
    LET sign == Xor(Sign(a), Sign(b))
    IN  IF IsInfinite(a) \/ IsInfinite(b)
        THEN IF IsZero(a) \/ IsZero(b) \/ c = Infinity(Flip(sign)) THEN Invalid(QuietNaN(0))
             ELSE Exact(Infinity(sign))
        ELSE IF IsInfinite(c) THEN Exact(c)
        ELSE RoundedSum(mode, Units(a) * Units(b) + Units(c) * Whole(1), Whole(1),
                        sign = 1 /\ Sign(c) = 1, sign = 0 /\ Sign(c) = 0)

(* A NaN is the result also where infinity times zero is added to it.       *)
FusedNaN(a, b, c, z) ==
    LET undefined == \E x \in {a, b} : IsInfinite(x) /\ \E y \in {a, b} : IsZero(y)
    IN  /\ z.bits \in {Quiet(x) : x \in NaNsOf({a, b, c})} \cup When(undefined, {QuietNaN(0)})
        /\ z.raised = When(undefined \/ \E x \in {a, b, c} : IsSigNaN(x), {"invalid"})

(* x times 2^n.                                                             *)
RefScaled(mode, x, n) ==
    IF IsInfinite(x) \/ IsZero(x) THEN Exact(x)
    ELSE IF n >= 0 THEN Rounded(mode, Sign(x), Abs(Units(x)) * 2^n, 1)
    ELSE Rounded(mode, Sign(x), Abs(Units(x)), 2^(-n))

(* The integral value in the direction of the mode, which may be that of    *)
(* round(), where a tie goes away from zero.                                *)
Toward(how, sign, num, den) ==
    IF how = "away on a tie" THEN (2 * num + den) \div (2 * den)
    ELSE Integral(how, sign, num, den)

RefIntegral(how, x) ==
    IF IsInfinite(x) THEN x
    ELSE LET n == Toward(how, Sign(x), Abs(Units(x)), Whole(1))
         IN  CHOOSE z \in Values(P) : Sign(z) = Sign(x) /\ Abs(Units(z)) = n * Whole(1) /\ IsFinite(z)

----------------------------------------------------------------------------
(* Correct answers of the functions that cannot round.                      *)
CorrectMod(x, y, z) ==
    IF NaNsOf({x, y}) # {} THEN NaNFrom({x, y}, z)
    ELSE IF IsInfinite(x) \/ IsZero(y) THEN z = Invalid(QuietNaN(0))
    ELSE /\ z.raised = {} /\ Sign(z.bits) = Sign(x)
         /\ IF IsInfinite(y) THEN z.bits = x
            ELSE Abs(Units(z.bits)) = Abs(Units(x)) % Abs(Units(y))

CorrectRemquo(x, y, a) ==
    IF NaNsOf({x, y}) # {} THEN NaNFrom({x, y}, a.z)
    ELSE IF IsInfinite(x) \/ IsZero(y) THEN a.z = Invalid(QuietNaN(0))
    ELSE IF IsInfinite(y) THEN a = [z |-> Exact(x), quo |-> 0]
    ELSE LET n == Integral("nearest", 0, Abs(Units(x)), Abs(Units(y)))
             rest == Abs(Units(x)) - n * Abs(Units(y))
             sign == IF rest < 0 THEN Flip(Sign(x)) ELSE Sign(x)
         IN  /\ a.z.raised = {} /\ Sign(a.z.bits) = sign /\ Abs(Units(a.z.bits)) = Abs(rest)
             /\ a.quo = (IF Sign(x) = Sign(y) THEN n % 128 ELSE -(n % 128))

Between(a, b) ==
    {z \in Values(P) : ~ IsNaN(z) /\ ((Units(a) < Units(z) /\ Units(z) < Units(b))
                                   \/ (Units(b) < Units(z) /\ Units(z) < Units(a)))}

(* Infinity has the units of the power of two after the largest value.      *)
CorrectNext(a, b, z) ==
    IF NaNsOf({a, b}) # {} THEN NaNFrom({a, b}, z)
    ELSE IF Units(a) = Units(b) THEN z = Exact(b)
    ELSE /\ ~ IsNaN(z.bits) /\ Between(a, z.bits) = {}
         /\ Units(z.bits) # Units(a) /\ (Units(z.bits) > Units(a)) = (Units(b) > Units(a))
         /\ IsZero(z.bits) => Sign(z.bits) = Sign(a)
         /\ z.raised = CASE IsInfinite(z.bits) -> {"overflow", "inexact"}
                         [] Exp(z.bits) = 0 -> {"underflow", "inexact"}
                         [] OTHER -> {}

CorrectFrexp(x, a) ==
    IF IsNaN(x) THEN NaNFrom({x}, a.z)
    ELSE IF IsInfinite(x) \/ IsZero(x) THEN a = [z |-> Exact(x), e |-> 0]
    ELSE /\ a.z.raised = {} /\ Sign(a.z.bits) = Sign(x)
         /\ 2 * Abs(Units(a.z.bits)) \in Whole(1)..2 * Whole(1) - 1
         /\ IF a.e >= 0 THEN Units(x) = Units(a.z.bits) * 2^a.e
            ELSE Units(x) * 2^(-a.e) = Units(a.z.bits)

CorrectIlogb(x, a) ==
    IF ~ IsFinite(x) \/ IsZero(x) THEN a.raised = {"invalid"} /\ (a.e = IntEnd(0) \/ a.e = IntEnd(1))
    ELSE /\ a.raised = {}
         /\ IF a.e >= 0 THEN Abs(Units(x)) \in Whole(2^a.e)..Whole(1) * 2^(a.e + 1) - 1
            ELSE Abs(Units(x)) * 2^(-a.e) \in Whole(1)..2 * Whole(1) - 1

(* <, <= and = by value; quiet NaNs make only the ordered ones invalid.     *)
CorrectCompare(op, a, b, c) ==
    IF NaNsOf({a, b}) # {}
    THEN ~ c.holds /\ c.raised = When(op # "eq" \/ IsSigNaN(a) \/ IsSigNaN(b), {"invalid"})
    ELSE /\ c.raised = {}
         /\ c.holds = CASE op = "eq" -> Units(a) = Units(b)
                        [] op = "lt" -> Units(a) < Units(b)
                        [] OTHER -> Units(a) <= Units(b)
=============================================================================
