------------------------------ MODULE MathBits ------------------------------
(***************************************************************************)
(* The functions of the guest runtime that work on the bits of their        *)
(* arguments (runtime/softfloat/math-bits.c): integral values, remainders,  *)
(* frexp and the next value, which the code writes for any width p of the   *)
(* fraction and eb of the exponent, and the comparisons of                  *)
(* binary32-convert.c.                                                      *)
(***************************************************************************)
EXTENDS SoftFloat

(* sf_quiet: a NaN is returned quiet, a signaling one raises invalid.       *)
Quieted(x) == Raises(Quiet(x), When(IsSigNaN(x), {"invalid"}))

Eq(a, b) ==
    [holds |-> ~ IsNaN(a) /\ ~ IsNaN(b) /\ (a = b \/ (Magnitude(a) = 0 /\ Magnitude(b) = 0)),
     raised |-> When(IsSigNaN(a) \/ IsSigNaN(b), {"invalid"})]

Unordered(a, b) == IsNaN(a) \/ IsNaN(b)
Ordering(a, b, ordered) ==
    [holds |-> ~ Unordered(a, b) /\ ordered, raised |-> When(Unordered(a, b), {"invalid"})]

Lt(a, b) ==
    Ordering(a, b,
        IF Sign(a) # Sign(b) THEN Sign(a) = 1 /\ (Magnitude(a) # 0 \/ Magnitude(b) # 0)
        ELSE a # b /\ (IF Sign(a) = 1 THEN a > b ELSE a < b))

Le(a, b) ==
    Ordering(a, b,
        IF Sign(a) # Sign(b) THEN Sign(a) = 1 \/ (Magnitude(a) = 0 /\ Magnitude(b) = 0)
        ELSE a = b \/ (IF Sign(a) = 1 THEN a > b ELSE a < b))

----------------------------------------------------------------------------
(* sf_integral, how one of "trunc", "floor", "ceil", "round".               *)
integral(how, x) ==
    LET e == Exp(x) - Bias(EB)
        away == (how = "ceil" /\ Sign(x) = 0) \/ (how = "floor" /\ Sign(x) = 1)
        unit == 2^(P - e)
        part == x % unit
        up == part # 0 /\ (away \/ (how = "round" /\ part >= unit \div 2))
    IN  CASE IsNaN(x) -> Quieted(x)
          [] ~ IsNaN(x) /\ (e >= P \/ Magnitude(x) = 0) -> Exact(x)
          [] e < P /\ Magnitude(x) # 0 /\ e < 0 ->
               Exact(IF away \/ (how = "round" /\ e = -1) THEN Pack(Sign(x), Bias(EB), 0)
                     ELSE Zero(Sign(x)))
          [] OTHER -> Exact(x - part + (IF up THEN unit ELSE 0))

frexp(x) ==
    LET z == Unpacked(x)
    IN  CASE IsNaN(x) -> [z |-> Quieted(x), e |-> 0]
          [] ~ IsNaN(x) /\ (Exp(x) = MaxExp(EB) \/ Magnitude(x) = 0) -> [z |-> Exact(x), e |-> 0]
          [] OTHER -> [z |-> Exact(Pack(Sign(x), Bias(EB) - 1, z.sig - 2^P)), e |-> z.exp - Bias(EB) + 1]

(* bitexp of math-extra.c, with stand-ins for the ends of the type int.     *)
IntEnd(sign) == IF sign = 1 THEN -(2^(EB + P)) - 1 ELSE 2^(EB + P)
ilogb(x) ==
    IF Exp(x) = MaxExp(EB) \/ Magnitude(x) = 0
    THEN [e |-> IF Exp(x) = MaxExp(EB) THEN IntEnd(0) ELSE IntEnd(1), raised |-> {"invalid"}]
    ELSE [e |-> Unpacked(x).exp - Bias(EB), raised |-> {}]

----------------------------------------------------------------------------
(* sf_mod: the remainder by shifting and subtracting significands.          *)
Subtracted(s, d) == IF s >= d THEN s - d ELSE s

Shifts(x, y) == IF x.exp > y.exp THEN x.exp - y.exp ELSE 0

Remainder(x, y) ==
    LET s[i \in 0..Shifts(x, y)] == IF i = 0 THEN x.sig ELSE Subtracted(s[i - 1], y.sig) * 2
    IN  Subtracted(s[Shifts(x, y)], y.sig)

(* The bits of sig * 2^exp, for a significand below the hidden bit.         *)
Repacked(exp, sig) ==
    LET shift == CHOOSE n \in 0..P : sig * 2^n \in 2^P..2^(P + 1) - 1
    IN  IF exp - shift > 0 THEN (exp - shift) * 2^P + sig * 2^shift - 2^P
        ELSE (sig * 2^shift) \div 2^(1 - (exp - shift))

ModDefined(x, y) == ~ Unordered(x, y) /\ Magnitude(y) # 0 /\ Exp(x) # MaxExp(EB)

ModFinite(x, y) ==
    LET u == Unpacked(x)
        v == Unpacked(Magnitude(y))
        r == Remainder(u, v)
    IN  CASE Magnitude(x) < Magnitude(y) -> x
          [] Magnitude(x) = Magnitude(y) -> Zero(Sign(x))
          [] OTHER -> IF r = 0 THEN Zero(Sign(x))
                      ELSE Zero(Sign(x)) + Repacked(IF u.exp > v.exp THEN v.exp ELSE u.exp, r)

fmod(mode, x, y) ==
    CASE Unordered(x, y) -> add(mode, x, y)
      [] ModDefined(x, y) -> Exact(ModFinite(x, y))
      [] OTHER -> Invalid(QuietNaN(0))

(* The low seven bits of the truncated quotient.                            *)
QuotientBits(x, y) ==
    LET n == Shifts(x, y)
        s[i \in 0..n] == IF i = 0 THEN x.sig ELSE Subtracted(s[i - 1], y.sig) * 2
        q[i \in 0..n] == IF i = 0 THEN 0 ELSE 2 * q[i - 1] + (IF s[i - 1] >= y.sig THEN 1 ELSE 0)
    IN  IF x.exp < y.exp THEN 0 ELSE (2 * q[n] + (IF s[n] >= y.sig THEN 1 ELSE 0)) % 128

(* Mutant of RoundsUp: a remainder of one half is always taken up.          *)
RoundsUpTie(r, y, q) ==
    LET z == Unpacked(r)
    IN  Magnitude(r) # 0 /\ (z.exp + 1 > y.exp \/ (z.exp + 1 = y.exp /\ z.sig >= y.sig))

(* Twice the remainder against the divisor; a tie goes to the even quotient. *)
RoundsUp(r, y, q) ==
    LET z == Unpacked(r)
    IN  Magnitude(r) # 0 /\
        \/ z.exp + 1 > y.exp
        \/ z.exp + 1 = y.exp /\ (z.sig > y.sig \/ (z.sig = y.sig /\ q % 2 = 1))

remquo(mode, x, y) ==
    LET r == fmod(mode, x, y)
        v == Unpacked(Magnitude(y))
        q == QuotientBits(Unpacked(x), v)
        up == RoundsUp(r.bits, v, q)
        quo == IF up THEN (q + 1) % 128 ELSE q
        z == IF up THEN sub(mode, r.bits, Zero(Sign(x)) + Magnitude(y)) ELSE r
    IN  IF ~ ModDefined(x, y) \/ Exp(y) = MaxExp(EB) \/ Magnitude(x) = 0 THEN [z |-> r, quo |-> 0]
        ELSE [z |-> z, quo |-> IF Sign(x) # Sign(y) THEN -quo ELSE quo]

----------------------------------------------------------------------------
(* sf_next: the value next to a on the way to b.                            *)
NextStep(a, b) ==
    CASE Magnitude(a) = 0 -> Zero(Sign(b)) + 1
      [] Magnitude(a) # 0 /\ Lt(a, b).holds = (Sign(a) = 0) -> a + 1
      [] OTHER -> a - 1

nextafter(mode, a, b) ==
    LET z == NextStep(a, b)
    IN  CASE Unordered(a, b) -> add(mode, a, b)
          [] ~ Unordered(a, b) /\ (a = b \/ (Magnitude(a) = 0 /\ Magnitude(b) = 0)) -> Exact(b)
          [] OTHER ->
               Raises(z, CASE Exp(z) = MaxExp(EB) /\ Exp(a) # MaxExp(EB) -> {"overflow", "inexact"}
                           [] Exp(z) = 0 -> {"underflow", "inexact"}
                           [] OTHER -> {})
=============================================================================
