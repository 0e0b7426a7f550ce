--------------------------- MODULE FloatConversions ---------------------------
(***************************************************************************)
(* Conversions of the guest runtime between its two floating-point formats, *)
(* of which this module's is the narrow one, and nexttoward, which steps in *)
(* the narrow format towards a value of the wide one.                       *)
(***************************************************************************)
EXTENDS FloatReference

CONSTANTS WP, WEB     \* bits of fraction and exponent of the wide format

ASSUME WideAssumption == WP \in Nat /\ WEB \in Nat /\ WP >= P + G /\ WEB > EB

Wide == INSTANCE FloatReference WITH P <- WP, EB <- WEB

(* Where the exponent of a value of the narrow format is in the wide one.   *)
Rebias(eb) == Bias(WEB) - Bias(eb)

(* f32UIToCommonNaN and commonNaNToF64UI: the payload keeps its high bits.  *)
WidenNaN(x) == Wide!Pack(Sign(x), Wide!MaxExp(WEB), Frac(Quiet(x)) * 2^(WP - P))
NarrowNaN(x) == Pack(Wide!Sign(x), MaxExp(EB), Wide!Frac(Wide!Quiet(x)) \div 2^(WP - P))

f32_to_f64(x) ==
    LET z == Unpacked(x)
    IN  CASE IsNaN(x) -> Raises(WidenNaN(x), When(IsSigNaN(x), {"invalid"}))
          [] ~ IsNaN(x) /\ Exp(x) = MaxExp(EB) -> Exact(Wide!Infinity(Sign(x)))
          [] Magnitude(x) = 0 -> Exact(Wide!Zero(Sign(x)))
          [] OTHER -> Exact(Wide!Pack(Sign(x), z.exp + Rebias(EB), (z.sig - 2^P) * 2^(WP - P)))

f64_to_f32(mode, x) ==
    LET sig == ShortShiftRightJam(Wide!Frac(x), WP - (P + G))
        sign == Wide!Sign(x)
    IN  CASE Wide!IsNaN(x) -> Raises(NarrowNaN(x), When(Wide!IsSigNaN(x), {"invalid"}))
          [] x = Wide!Infinity(sign) -> Exact(Infinity(sign))
          [] Wide!Exp(x) = 0 /\ sig = 0 -> Exact(Zero(sign))
          [] OTHER -> RoundPack(mode, sign, Wide!Exp(x) - Rebias(EB) - 1, sig + 2^(P + G))

nexttoward(mode, a, b) ==
    LET wide == f32_to_f64(a)
        sum == Wide!add(mode, wide.bits, b)
        z == f64_to_f32(mode, sum.bits)
        up == Wide!Lt(wide.bits, b).holds
    IN  IF IsNaN(a) \/ Wide!IsNaN(b) THEN Also(wide.raised \cup sum.raised, z)
        ELSE IF Wide!Eq(wide.bits, b).holds THEN Exact(Zero(Wide!Sign(b)) + Magnitude(a))
        ELSE nextafter(mode, a, Infinity(IF up THEN 0 ELSE 1))

----------------------------------------------------------------------------
(* What they promise.  A unit of the narrow format is some units of the     *)
(* wide one.                                                                *)
Ratio == 2^(Rebias(EB) + WP - P)

CorrectWiden(x, z) ==
    IF IsNaN(x)
    THEN Wide!IsNaN(z.bits) /\ ~ Wide!IsSigNaN(z.bits) /\ z.raised = When(IsSigNaN(x), {"invalid"})
    ELSE /\ z.raised = {} /\ Wide!Sign(z.bits) = Sign(x)
         /\ IF IsInfinite(x) THEN Wide!IsInfinite(z.bits)
            ELSE Wide!Units(z.bits) = Units(x) * Ratio

CorrectNarrow(mode, x, z) ==
    LET sign == Wide!Sign(x)
    IN  IF Wide!IsNaN(x)
        THEN IsNaN(z.bits) /\ ~ IsSigNaN(z.bits) /\ z.raised = When(Wide!IsSigNaN(x), {"invalid"})
        ELSE z = IF Wide!IsInfinite(x) THEN Exact(Infinity(sign))
                 ELSE IF Wide!IsZero(x) THEN Exact(Zero(sign))
                 ELSE Rounded(mode, sign, Abs(Wide!Units(x)), Ratio)

(* One step of the narrow format, in the direction of the wide value.       *)
CorrectToward(a, b, z) ==
    LET here == Units(a) * Ratio
        there == Wide!Units(b)
        up == IF IsInfinite(a) THEN Sign(a) = 1 ELSE here < there
    IN  IF IsNaN(a) \/ Wide!IsNaN(b)
        THEN IsNaN(z.bits) /\ ~ IsSigNaN(z.bits)
             /\ z.raised = When(IsSigNaN(a) \/ Wide!IsSigNaN(b), {"invalid"})
        ELSE IF (IsInfinite(a) /\ Wide!IsInfinite(b) /\ Sign(a) = Wide!Sign(b))
                \/ (IsFinite(a) /\ here = there)
        THEN z.raised = {} /\ Magnitude(z.bits) = Magnitude(a) /\ Sign(z.bits) = Wide!Sign(b)
        ELSE CorrectNext(a, Infinity(IF up THEN 0 ELSE 1), z)
=============================================================================
