------------------------------ MODULE MathExtra ------------------------------
(***************************************************************************)
(* Functions of the guest's <math.h> that are written with floating-point   *)
(* operations (runtime/softfloat/math-extra.c, fdlibm): the code is that of *)
(* double, and every operation in it is one of SoftFloat in the mode of the *)
(* caller.                                                                  *)
(***************************************************************************)
EXTENDS FloatReference

Greater(a, b) == Lt(b, a).holds
fabs(x) == Magnitude(x)

(* A sum that is added for the exception it raises, and dropped.            *)
Raising(x, mode, z) == Raises(z, add(mode, x, x).raised)

Extreme(mode, x, y, other, better) ==
    CASE IsNaN(x) /\ IsNaN(y) -> add(mode, x, y)
      [] IsNaN(x) /\ ~ IsNaN(y) -> Raising(x, mode, y)
      [] ~ IsNaN(x) /\ IsNaN(y) -> Raising(y, mode, x)
      [] OTHER -> IF Eq(x, y).holds THEN Exact(other) ELSE Exact(IF better THEN x ELSE y)

fmax(mode, x, y) == Extreme(mode, x, y, IF Sign(x) = 1 THEN y ELSE x, Greater(x, y))
fmin(mode, x, y) == Extreme(mode, x, y, IF Sign(x) = 1 THEN x ELSE y, Lt(x, y).holds)

fdim(mode, x, y) ==
    IF Unordered(x, y) THEN add(mode, x, y)
    ELSE IF Greater(x, y) THEN sub(mode, x, y) ELSE Exact(0)

----------------------------------------------------------------------------
(* modf of fdlibm's s_modf.c: the integral part is cut out of the bits.     *)
modf(mode, x) ==
    LET e == Exp(x) - Bias(EB)
        cut == 2^(P - e)
        whole == x - (x % cut)
    IN  CASE e < 0 -> [z |-> Exact(x), int |-> Zero(Sign(x))]
          [] e >= P -> LET product == mul(mode, x, Pack(0, Bias(EB), 0))
                       IN  [z |-> Raises(Zero(Sign(x)), product.raised), int |-> product.bits]
          [] OTHER -> IF x % cut = 0 THEN [z |-> Exact(Zero(Sign(x))), int |-> x]
                      ELSE [z |-> sub(mode, x, whole), int |-> whole]

(* What is not a number, and zero as a divisor, is multiplied and divided.  *)
Undefined(mode, x, p) ==
    LET product == mul(mode, x, p)
    IN  Also(product.raised, div(mode, product.bits, product.bits))

(* Twice the remainder is compared with a small divisor, the remainder with *)
(* half of any other; the divisor is subtracted up to two times.            *)
Compared(mode, z, small) == IF small THEN add(mode, z, z) ELSE Exact(z)

Halved(mode, x, p, small) ==
    LET mark == IF small THEN Exact(p) ELSE mul(mode, Pack(0, Bias(EB) - 1, 0), p)
        first == Compared(mode, x, small)
        once == sub(mode, x, p)
        second == Compared(mode, once.bits, small)
        z == IF ~ Greater(first.bits, mark.bits) THEN Exact(x)
             ELSE Also(once.raised \cup second.raised,
                       IF Le(mark.bits, second.bits).holds THEN sub(mode, once.bits, p) ELSE once)
    IN  Also(mark.raised \cup first.raised, z)

(* __ieee754_remainder of fdlibm's e_remainder.c.                           *)
remainder(mode, x, p) ==
    LET q == fabs(p)
        double == add(mode, p, p)
        rest == IF Exp(p) <= MaxExp(EB) - 2
                THEN Also(double.raised, fmod(mode, x, double.bits)) ELSE Exact(x)
        r == Halved(mode, fabs(rest.bits), q, Exp(p) < 2)
        signed == IF Sign(x) = 1 THEN Pack(Flip(Sign(r.bits)), 0, Magnitude(r.bits)) ELSE r.bits
    IN  CASE q = 0 \/ Exp(x) = MaxExp(EB) \/ IsNaN(p) -> Undefined(mode, x, p)
          [] q # 0 /\ Exp(x) # MaxExp(EB) /\ q = fabs(x) -> Also(rest.raised, mul(mode, 0, rest.bits))
          [] OTHER -> Raises(signed, rest.raised \cup r.raised)

----------------------------------------------------------------------------
(* A NaN is ignored, unless both are; of two zeros the one with the sign    *)
(* that is asked for.                                                       *)
CorrectExtreme(x, y, z, worse(_, _)) ==
    CASE IsNaN(x) /\ IsNaN(y) -> NaNFrom({x, y}, z)
      [] IsNaN(x) # IsNaN(y) ->
           /\ z.bits \in {x, y} /\ ~ IsNaN(z.bits)
           /\ z.raised = When(IsSigNaN(x) \/ IsSigNaN(y), {"invalid"})
      [] OTHER ->
           /\ z.bits \in {x, y} /\ z.raised = {}
           /\ \A n \in {x, y} : ~ worse(z.bits, n)

SignedLess(a, b) == Units(a) < Units(b) \/ (IsZero(a) /\ IsZero(b) /\ Sign(a) > Sign(b))
SignedMore(a, b) == SignedLess(b, a)

RefPositiveDifference(mode, x, y) ==
    IF Units(x) > Units(y) THEN RefSum(mode, x, Negated(y)) ELSE Exact(Zero(0))

(* Both parts have the sign of the argument.  The fraction of a NaN is a    *)
(* zero, where C has a NaN.                                                 *)
CorrectModf(x, a) ==
    IF IsNaN(x) THEN NaNFrom({x}, Raises(a.int, a.z.raised)) /\ IsZero(a.z.bits)
    ELSE /\ a.z.raised = {} /\ Sign(a.z.bits) = Sign(x)
         /\ a.int = RefIntegral("zero", x)
         /\ IF IsInfinite(x) THEN IsZero(a.z.bits)
            ELSE Abs(Units(a.z.bits)) = Abs(Units(x)) % Whole(1)

(* Exact; but a remainder of zero has the sign of the difference that gave  *)
(* it, which is not that of x in every mode.                                *)
CorrectRemainder(x, y, z) ==
    IF NaNsOf({x, y}) # {}
    THEN z.bits \in {Quiet(n) : n \in NaNsOf({x, y})}
         /\ z.raised = When(IsSigNaN(x) \/ IsSigNaN(y), {"invalid"})
    ELSE IF IsInfinite(x) \/ IsZero(y) THEN z = Invalid(QuietNaN(0))
    ELSE IF IsInfinite(y) THEN z = Exact(x)
    ELSE LET n == Integral("nearest", 0, Abs(Units(x)), Abs(Units(y)))
             rest == Abs(Units(x)) - n * Abs(Units(y))
         IN  /\ z.raised = {}
             /\ Units(z.bits) = (IF Sign(x) = 1 THEN -rest ELSE rest)
=============================================================================
