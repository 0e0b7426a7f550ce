----------------------------- MODULE DecimalText -----------------------------
(***************************************************************************)
(* Reading and printing of floating-point numbers in the guest runtime      *)
(* (runtime/decimal): strtod with integers of any length, and the           *)
(* conversions %f, %e, %g and %a of printf.  A text is its sign, its digits *)
(* before and after the point and its exponent, of ten or, where it is      *)
(* hexadecimal, of two.                                                     *)
(***************************************************************************)
EXTENDS FloatReference, Sequences, SequencesExt

CONSTANTS
    H,         \* bits of a hexadecimal digit: 4
    Kept,      \* digits that are kept of a text: 1200
    Order,     \* orders of magnitude past those of the format, as tens and as twos: 400, 2000
    Highest,   \* exponents past those of the format: 1100
    Lowest,    \* and -1200
    Plain      \* least exponent that %g does not write: -4

Base(hex) == IF hex THEN 2^H ELSE 10
NumberOf(base, digits) == FoldLeft(LAMBDA n, d : n * base + d, 0, digits)
Bits(n) == 30 - CountLeadingZeros(30, n)
Zeros(n) == [i \in 1..n |-> 0]
Least(m, n) == IF m < n THEN m ELSE n

----------------------------------------------------------------------------
(* cosmic_decimal_parse_bits: leading zeros are not kept, and of the digits *)
(* after the last one that is kept it counts whether all are zero.          *)
Significant(text) ==
    LET all == text.whole \o text.fraction
        from == CHOOSE i \in 1..Len(all) + 1 :
                  (i > Len(all) \/ all[i] # 0) /\ \A j \in 1..i - 1 : all[j] = 0
    IN  SubSeq(all, from, Len(all))

Floor2(num, den) ==
    LET guess == Bits(num) - Bits(den)
        short == IF guess >= 0 THEN num < den * 2^guess ELSE num * 2^(-guess) < den
    IN  IF short THEN guess - 1 ELSE guess

(* A value that is out of every range is rounded as one that is just so.    *)
Packed(mode, sign, e, num, den, sticky) ==
    LET scale == Width(G) - 2 - e
        up == IF scale >= 0 THEN num * 2^scale ELSE num
        down == IF scale >= 0 THEN den ELSE den * 2^(-scale)
        sig == IF e > Highest \/ e < Lowest THEN 2^(Width(G) - 2)
               ELSE Jam(up \div down, up % down # 0 \/ sticky)
    IN  RoundPack(mode, sign, e + Bias(EB) - 1, sig)

(* A text without a digit is not a number and gives zero.                   *)
IsNumber(text) == text.whole \o text.fraction # << >>

parse(mode, text) ==
    LET digits == Significant(text)
        kept == Least(Len(digits), Kept)
        dropped == Len(digits) - kept
        sticky == \E i \in kept + 1..Len(digits) : digits[i] # 0
        num == NumberOf(Base(text.hex), SubSeq(digits, 1, kept))
        exp == text.exp + (dropped - Len(text.fraction)) * (IF text.hex THEN H ELSE 1)
        order == exp + (IF text.hex THEN Bits(num) ELSE kept)
        power(n) == IF text.hex THEN 2^n ELSE 10^n
        up == IF exp > 0 THEN num * power(exp) ELSE num
        down == IF exp < 0 THEN power(-exp) ELSE 1
    IN  CASE ~ IsNumber(text) -> Exact(Zero(0))
          [] IsNumber(text) /\ num = 0 -> Exact(Zero(text.sign))
          [] num # 0 /\ order > Order[text.hex] -> Packed(mode, text.sign, 2 * Highest, 1, 1, sticky)
          [] num # 0 /\ order < -Order[text.hex] -> Packed(mode, text.sign, 2 * Lowest, 1, 1, sticky)
          [] OTHER -> Packed(mode, text.sign, Floor2(up, down), up, down, sticky)

----------------------------------------------------------------------------
(* cd_exact: all the digits of a value, and the place of the point.         *)
Digits(a) ==
    LET n == CHOOSE n \in 1..9 : a < 10^n /\ (n = 1 \/ a >= 10^(n - 1))
    IN  [i \in 1..n |-> (a \div 10^(n - i)) % 10]

exact(x) ==
    LET sig == IF Exp(x) = 0 THEN Frac(x) ELSE 2^P + Frac(x)
        exp == (IF Exp(x) = 0 THEN 1 ELSE Exp(x)) - Bias(EB) - P
        digits == Digits(IF exp >= 0 THEN sig * 2^exp ELSE sig * 5^(-exp))
    IN  IF sig = 0 THEN [digits |-> <<0>>, point |-> 1]
        ELSE [digits |-> digits, point |-> Len(digits) + (IF exp < 0 THEN exp ELSE 0)]

(* Whether what is cut off makes the last digit go up: its first digit, of  *)
(* which half is one in the middle, and whether there is a rest.            *)
increment(mode, sign, first, rest, odd, half) ==
    /\ first # 0 \/ rest
    /\ CASE mode = "up" -> sign = 0
         [] mode = "down" -> sign = 1
         [] mode = "zero" -> FALSE
         [] OTHER -> first > half \/ (first = half /\ (rest \/ odd))

(* The digits plus one in the last place; the carry goes past every digit    *)
(* that is the largest there is, and may go past the first.                 *)
Carried(digits, top) ==
    LET at == CHOOSE i \in 0..Len(digits) :
                (i = 0 \/ digits[i] # top) /\ \A j \in i + 1..Len(digits) : digits[j] = top
    IN  [at |-> at,
         digits |-> [j \in 1..Len(digits) |->
                       IF j > at THEN 0 ELSE IF j = at THEN digits[j] + 1 ELSE digits[j]]]

round(mode, sign, d, keep) ==
    LET n == Len(d.digits)
        first == IF keep < 0 THEN 0 ELSE d.digits[keep + 1]
        rest == keep < 0 \/ \E i \in keep + 2..n : d.digits[i] # 0
        odd == keep > 0 /\ d.digits[keep] % 2 = 1
        inc == increment(mode, sign, first, rest, odd, 5)
        kept == SubSeq(d.digits, 1, keep)
        carry == Carried(kept, 9)
    IN  CASE keep >= n -> d
          [] keep < n /\ keep <= 0 ->
               IF inc THEN [digits |-> <<1>>, point |-> d.point - keep + 1]
               ELSE [digits |-> <<0>>, point |-> 1]
          [] OTHER ->
               IF ~ inc THEN [digits |-> kept, point |-> d.point]
               ELSE IF carry.at > 0 THEN [digits |-> carry.digits, point |-> d.point]
               ELSE [digits |-> <<1>> \o Tail(carry.digits), point |-> d.point + 1]

(* cd_fixed and cd_scientific: zeros where there are no digits.             *)
fixed(sign, d, precision) ==
    LET n == Len(d.digits)
        before == Least(d.point, n)
        gap == IF d.point < 0 THEN Least(-d.point, precision) ELSE 0
        start == IF d.point < 0 THEN 0 ELSE d.point
        left == precision - gap
        shown == Least(IF n - start < 0 THEN 0 ELSE n - start, left)
    IN  [sign |-> sign, hex |-> FALSE, exp |-> 0,
         whole |-> IF d.point <= 0 THEN <<0>>
                   ELSE SubSeq(d.digits, 1, before) \o Zeros(d.point - before),
         fraction |-> Zeros(gap) \o SubSeq(d.digits, start + 1, start + shown) \o Zeros(left - shown)]

scientific(sign, d, precision) ==
    LET n == Least(Len(d.digits) - 1, precision)
    IN  [sign |-> sign, hex |-> FALSE, exp |-> d.point - 1, whole |-> <<d.digits[1]>>,
         fraction |-> SubSeq(d.digits, 2, n + 1) \o Zeros(precision - n)]

(* The digits without the zeros at the end.                                 *)
Trimmed(d) ==
    LET n == CHOOSE n \in 1..Len(d.digits) :
               (n = 1 \/ d.digits[n] # 0) /\ \A j \in n + 1..Len(d.digits) : d.digits[j] = 0
    IN  [d EXCEPT !.digits = SubSeq(@, 1, n)]

general(sign, rounded, precision, alternate) ==
    LET d == IF alternate THEN rounded ELSE Trimmed(rounded)
        exponent == d.point - 1
        places == IF alternate THEN precision - d.point ELSE Len(d.digits) - d.point
    IN  IF exponent < Plain \/ exponent >= precision
        THEN scientific(sign, d, IF alternate THEN precision - 1 ELSE Len(d.digits) - 1)
        ELSE fixed(sign, d, IF places < 0 THEN 0 ELSE places)

(* cd_hex: a negative precision asks for the digits there are.              *)
hexadecimal(mode, x, asked) ==
    LET places == P \div H
        digit(i) == (Frac(x) \div 2^(P - H * i)) % 2^H
        all == <<IF Exp(x) = 0 THEN 0 ELSE 1>> \o [i \in 1..places |-> digit(i)]
        needed == CHOOSE n \in 0..places : (n = 0 \/ digit(n) # 0) /\ \A j \in n + 1..places : digit(j) = 0
        precision == IF asked < 0 THEN needed ELSE asked
        kept == SubSeq(all, 1, precision + 1)
        rest == \E i \in precision + 3..places + 1 : all[i] # 0
        inc == increment(mode, Sign(x), digit(precision + 1), rest, kept[precision + 1] % 2 = 1, 2^(H - 1))
        digits == IF precision >= places THEN all \o Zeros(precision - places)
                  ELSE IF ~ inc THEN kept
                  ELSE <<kept[1]>> \o Carried(Tail(kept), 2^H - 1).digits
        over == precision < places /\ inc /\ Carried(Tail(kept), 2^H - 1).at = 0
    IN  [sign |-> Sign(x), hex |-> TRUE,
         exp |-> IF Exp(x) # 0 THEN Exp(x) - Bias(EB) ELSE IF Frac(x) # 0 THEN 1 - Bias(EB) ELSE 0,
         whole |-> <<digits[1] + (IF over THEN 1 ELSE 0)>>, fraction |-> Tail(digits)]

(* cd_float of a finite value, with a precision that is given.              *)
print(mode, x, spec) ==
    LET d == exact(x)
        sign == Sign(x)
        precision == IF spec.kind = "g" /\ spec.precision = 0 THEN 1 ELSE spec.precision
    IN  CASE spec.kind = "f" -> fixed(sign, round(mode, sign, d, d.point + precision), precision)
          [] spec.kind = "e" -> scientific(sign, round(mode, sign, d, precision + 1), precision)
          [] spec.kind = "g" -> general(sign, round(mode, sign, d, precision), precision, spec.alternate)
          [] OTHER -> hexadecimal(mode, x, spec.precision)

----------------------------------------------------------------------------
(* What they promise.  A text has the value num / den.                      *)
Power(base, n) == IF n >= 0 THEN base^n ELSE 1
Value(text) ==
    LET exp == IF text.hex THEN text.exp - H * Len(text.fraction) ELSE text.exp - Len(text.fraction)
        base == IF text.hex THEN 2 ELSE 10
    IN  [num |-> NumberOf(Base(text.hex), text.whole \o text.fraction) * Power(base, exp),
         den |-> Power(base, -exp)]

RefParse(mode, text) ==
    LET v == Value(text)
    IN  IF v.num = 0 THEN Exact(Zero(IF IsNumber(text) THEN text.sign ELSE 0))
        ELSE Rounded(mode, text.sign, v.num * Whole(1), v.den)

(* The value of x with so many places after the point, of ten or of H twos; *)
(* a negative number of places counts those before it that are zero.        *)
Places(mode, x, base, n) ==
    [num |-> Integral(mode, Sign(x), Abs(Units(x)) * Power(base, n), Whole(1) * Power(base, -n))
             * Power(base, -n),
     den |-> Power(base, n)]

(* The place of the first digit of a number from a thousandth to a thousand. *)
Magnitude10(v) ==
    CHOOSE k \in -3..3 : /\ v.num * Power(10, -k) >= v.den * Power(10, k)
                         /\ v.num * Power(10, -k - 1) < v.den * Power(10, k + 1)

Same(v, w) == v.num * w.den = w.num * v.den

(* Rounded once to the places or digits that are asked for, and in the form *)
(* that is: %e and %a have one digit before the point, %g without # no zero *)
(* at the end of a fraction, and an exponent where the rounded number is    *)
(* small or has more digits before the point than are asked for.            *)
CorrectPrint(mode, x, spec, text) ==
    LET value == [num |-> Abs(Units(x)), den |-> Whole(1)]
        digits == IF spec.kind = "e" THEN spec.precision + 1
                  ELSE IF spec.precision = 0 THEN 1 ELSE spec.precision
        rounded == CASE IsZero(x) -> [num |-> 0, den |-> 1]
                     [] ~ IsZero(x) /\ spec.kind = "f" -> Places(mode, x, 10, spec.precision)
                     [] ~ IsZero(x) /\ spec.kind \in {"e", "g"} ->
                          Places(mode, x, 10, digits - 1 - Magnitude10(value))
                     [] OTHER -> IF spec.precision < 0 THEN value
                                 ELSE Places(mode, x, 2, H * spec.precision - text.exp)
    IN  /\ text.sign = Sign(x) /\ Same(Value(text), rounded)
        /\ spec.kind \in {"f", "e", "a"} /\ spec.precision >= 0 => Len(text.fraction) = spec.precision
        /\ spec.kind \in {"e", "a"} => Len(text.whole) = 1
        /\ spec.kind = "e" /\ text.whole = <<0>> => IsZero(x)
        /\ spec.kind = "g" /\ ~ spec.alternate => text.fraction = << >> \/ Last(text.fraction) # 0
        /\ spec.kind = "g" /\ ~ IsZero(x) =>
             (text.exp # 0) = (Magnitude10(rounded) \notin Plain..digits - 1)
=============================================================================
