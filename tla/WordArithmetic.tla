---------------------------- MODULE WordArithmetic ----------------------------
(***************************************************************************)
(* Integers of several words in the guest runtime, which has no operations  *)
(* on more than one: integer64.c and primitives.c, and the functions of     *)
(* runtime/softfloat on arrays of words.  A number is the sequence of its   *)
(* words, the low one first.  The code has words of 32 bits.                *)
(***************************************************************************)
EXTENDS Integers, Sequences, SequencesExt

CONSTANT W     \* bits of a word

Wrapped(x) == x % 2^W
Bit(condition) == IF condition THEN 1 ELSE 0
TopBit(x) == x \div 2^(W - 1)
Complement(x) == 2^W - 1 - x
OrBit(x, condition) == IF condition /\ x % 2 = 0 THEN x + 1 ELSE x

(* The number as an integer, and an integer in n words.                     *)
Number(z) == FoldRight(LAMBDA word, n : n * 2^W + word, z, 0)
InWords(n, x) == [i \in 1..n |-> (x \div 2^(W * (i - 1))) % 2^W]

----------------------------------------------------------------------------
(* cosmic_mul32_wide: a is doubled as often as b has bits; a turn without   *)
(* bits of b left would change nothing.                                     *)
mul32_wide(a, b) ==
    LET Added(s) == LET low == Wrapped(s.low + s.a)
                    IN  [s EXCEPT !.low = low, !.high = Wrapped(@ + s.aHigh + Bit(low < s.low))]
        Turn(s, i) == LET t == IF s.b % 2 = 1 THEN Added(s) ELSE s
                      IN  [t EXCEPT !.aHigh = Wrapped(2 * @ + TopBit(t.a)), !.a = Wrapped(2 * @),
                                    !.b = @ \div 2]
        all == FoldLeft(Turn, [low |-> 0, high |-> 0, a |-> a, aHigh |-> 0, b |-> b], [i \in 1..W |-> i])
    IN  <<all.low, all.high>>

mul64(a, b) ==
    LET product == mul32_wide(a[1], b[1])
    IN  <<product[1], Wrapped(product[2] + a[2] * b[1] + a[1] * b[2])>>

(* One bit of restoring division: the remainder r and what is left of the   *)
(* numerator n move up one bit, and the carry is the bit r has too many.    *)
Doubled(z, bit) == <<Wrapped(2 * z[1] + bit), Wrapped(2 * z[2] + TopBit(z[1]))>>
NotLess(r, d) == r[2] > d[2] \/ (r[2] = d[2] /\ r[1] >= d[1])
Subtracted(r, d) == <<Wrapped(r[1] - d[1]), Wrapped(r[2] - d[2] - Bit(r[1] < d[1]))>>
DivideBit(s, d) ==
    LET carry == TopBit(s.r[2])
        r == Doubled(s.r, TopBit(s.n[2]))
        fits == carry = 1 \/ NotLess(r, d)
    IN  [n |-> Doubled(s.n, 0), q |-> Doubled(s.q, Bit(fits)), r |-> IF fits THEN Subtracted(r, d) ELSE r]

(* The status, and what is written; << >> where nothing is.                 *)
Refuse(status) == [status |-> status, written |-> << >>]
udivmod64(n, d) ==
    LET all == FoldLeft(LAMBDA s, i : DivideBit(s, d), [n |-> n, q |-> <<0, 0>>, r |-> <<0, 0>>],
                        [i \in 1..2 * W |-> i])
    IN  IF d = <<0, 0>> THEN Refuse(1) ELSE [status |-> 0, written |-> <<all.q, all.r>>]

Negated64(z) == LET low == Wrapped(Complement(z[1]) + 1)
                IN  <<low, Wrapped(Complement(z[2]) + Bit(low = 0))>>
NegatedIf(condition, z) == IF condition THEN Negated64(z) ELSE z

sdivmod64(n, d) ==
    LET negative(z) == TopBit(z[2]) = 1
        by == udivmod64(NegatedIf(negative(n), n), NegatedIf(negative(d), d))
    IN  IF d = <<0, 0>> THEN Refuse(1)
        ELSE IF n = <<0, 2^(W - 1)>> /\ d = <<2^W - 1, 2^W - 1>> THEN Refuse(2)
        ELSE [status |-> 0, written |-> <<NegatedIf(negative(n) # negative(d), by.written[1]),
                                          NegatedIf(negative(n), by.written[2])>>]

shift_right_jam32(x, dist) ==
    CASE dist = 0 -> x
      [] dist >= W -> Bit(x # 0)
      [] OTHER -> OrBit(x \div 2^dist, Wrapped(x * 2^(W - dist)) # 0)

shift_right_jam64(z, dist) ==
    CASE dist = 0 -> z
      [] dist \in 1..W - 1 ->
           <<OrBit(z[1] \div 2^dist + Wrapped(z[2] * 2^(W - dist)), Wrapped(z[1] * 2^(W - dist)) # 0),
             z[2] \div 2^dist>>
      [] dist = W -> <<OrBit(z[2], z[1] # 0), 0>>
      [] dist \in W + 1..2 * W - 1 ->
           <<OrBit(z[2] \div 2^(dist - W), Wrapped(z[2] * 2^(2 * W - dist)) # 0 \/ z[1] # 0), 0>>
      [] OTHER -> <<Bit(z # <<0, 0>>), 0>>

----------------------------------------------------------------------------
(* The functions of softfloat, from the low word up.                        *)
addM(a, b) ==
    LET Add(s, i) == LET word == Wrapped(a[i] + b[i] + s.carry)
                     IN  [z |-> Append(s.z, word),
                          carry |-> IF word # a[i] THEN Bit(word < a[i]) ELSE s.carry]
    IN  FoldLeft(Add, [z |-> << >>, carry |-> 0], [i \in 1..Len(a) |-> i]).z

subM(a, b) ==
    LET Sub(s, i) == [z |-> Append(s.z, Wrapped(a[i] - b[i] - s.borrow)),
                      borrow |-> Bit(IF s.borrow = 1 THEN a[i] <= b[i] ELSE a[i] < b[i])]
    IN  FoldLeft(Sub, [z |-> << >>, borrow |-> 0], [i \in 1..Len(a) |-> i]).z

negXM(z) ==
    LET Neg(s, i) == LET word == Wrapped(Complement(z[i]) + s.carry)
                     IN  [z |-> Append(s.z, word), carry |-> IF word # 0 THEN 0 ELSE s.carry]
    IN  FoldLeft(Neg, [z |-> << >>, carry |-> 1], [i \in 1..Len(z) |-> i]).z

(* Shifts of an array in its place, which must not be by zero: words to     *)
(* come are still to be read.                                               *)
shiftLeftM(z, dist) ==
    LET words == dist \div W
        bits == dist % W
        Moved(m, i) == [m EXCEPT ![i] = Wrapped(m[i - words] * 2^bits)
                          + (IF i - words > 1 THEN m[i - words - 1] \div 2^(W - bits) ELSE 0)]
        moved == FoldLeft(Moved, z, Reverse([i \in 1..Len(z) - words |-> i + words]))
    IN  IF words >= Len(z) THEN [i \in 1..Len(z) |-> 0]
        ELSE [i \in 1..Len(z) |-> IF i <= words THEN 0 ELSE moved[i]]

ShiftRightWords(z, words, bits) ==
    LET Moved(m, i) == [m EXCEPT ![i] = m[i + words] \div 2^bits
                          + (IF i + words < Len(z) THEN Wrapped(m[i + words + 1] * 2^(W - bits)) ELSE 0)]
        moved == FoldLeft(Moved, z, [i \in 1..Len(z) - words |-> i])
    IN  [i \in 1..Len(z) |-> IF i + words > Len(z) THEN 0 ELSE moved[i]]

shortShiftRightM(z, bits) == ShiftRightWords(z, 0, bits)

shiftRightJamM(z, dist) ==
    LET words == IF dist \div W < Len(z) THEN dist \div W ELSE Len(z)
        bits == dist % W
        jam == \E i \in 1..words : z[i] # 0
        lost == words < Len(z) /\ z[words + 1] % 2^bits # 0
    IN  [ShiftRightWords(z, words, bits) EXCEPT ![1] = OrBit(@, jam \/ lost)]

(* The product of two numbers of two words, by words.                       *)
mul64To128M(a, b) ==
    LET Wrapped64(x) == x % 2^(2 * W)
        aHigh == a \div 2^W
        bHigh == b \div 2^W
        mid1 == aHigh * Wrapped(b)
        mid == Wrapped64(mid1 + Wrapped(a) * bHigh)
        z0 == Wrapped64(Wrapped(a) * Wrapped(b) + Wrapped64(mid * 2^W))
        z64 == Wrapped64(aHigh * bHigh + Bit(mid < mid1) * 2^W + mid \div 2^W
                         + Bit(z0 < Wrapped64(mid * 2^W)))
    IN  InWords(2, z0) \o InWords(2, z64)

----------------------------------------------------------------------------
(* The same of the numbers themselves.  A quotient of integers with a sign  *)
(* is truncated, and has no place only where it is 2^(2 * W - 1).           *)
AsSigned(z) == IF TopBit(z[2]) = 1 THEN Number(z) - 4^W ELSE Number(z)
Size(x) == IF x < 0 THEN -x ELSE x
Truncated(x, y) == IF (x < 0) = (y < 0) THEN Size(x) \div Size(y) ELSE -(Size(x) \div Size(y))
Divided(x, y, quotient) ==
    [status |-> 0, written |-> <<InWords(2, quotient), InWords(2, x - y * quotient)>>]

RefUnsignedDivision(n, d) ==
    IF Number(d) = 0 THEN Refuse(1) ELSE Divided(Number(n), Number(d), Number(n) \div Number(d))
RefSignedDivision(n, d) ==
    IF Number(d) = 0 THEN Refuse(1)
    ELSE LET quotient == Truncated(AsSigned(n), AsSigned(d))
         IN  IF quotient = 2^(2 * W - 1) THEN Refuse(2) ELSE Divided(AsSigned(n), AsSigned(d), quotient)
RefJam(z, dist) ==
    InWords(Len(z), OrBit(Number(z) \div 2^dist, Number(z) % 2^dist # 0))
=============================================================================
