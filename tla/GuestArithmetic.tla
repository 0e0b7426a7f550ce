--------------------------- MODULE GuestArithmetic ---------------------------
(***************************************************************************)
(* The floating-point operations of the guest runtime in the environment of *)
(* the thread that calls them: an operation rounds in the mode of the       *)
(* thread's own context and raises its exceptions there.  Operands are the  *)
(* bit patterns of a small format, all of them in most operations; the      *)
(* algorithms are those of binary32 and binary64.                           *)
(***************************************************************************)
EXTENDS FloatEnvironment, FloatConversions, MathExtra

CONSTANTS
    Samples,   \* bound: factors of fma, first operands of nexttoward, second ones of comparisons and fmax
    Doubles,   \* bound: operands of the operations of binary64
    Factors,   \* bound: operands of the fused multiplication of binary64
    Scales,    \* powers of two for scalbn
    Texts,     \* bound: texts that are read
    Printed,   \* bound: conversions that are printed
    Pairs,     \* bound: second operands of two words
    Triples,   \* bound: numbers of three words
    Strings,   \* bound: texts that are read as integers
    Bases,     \* and their bases
    Moves,     \* bound: pieces of memory that are moved
    Read       \* bound: digits of a text that are kept, more than a number half way between two values has

(* The format that is converted to integers and from them.                  *)
I == INSTANCE IntegerConversions WITH P <- 2, EB <- 4, G <- 3, IW <- 7, HW <- 2
IntegerFormat == 0..127

(* The format of the operations that binary64 has of its own; the fused one *)
(* has few bits below the last place, so that products need the second word. *)
D == INSTANCE Binary64 WITH P <- 5, EB <- 3, G <- 8
F == INSTANCE Binary64 WITH P <- 5, EB <- 3, G <- 3
DoubleFormat == 0..511

(* The formats of the numbers that are read and printed, and a value as it  *)
(* stands with the digits of two bits it has in hexadecimal.                *)
R == INSTANCE DecimalText
       WITH P <- 2, EB <- 3, G <- 3, H <- 2, Kept <- Read, Order <- [hex \in BOOLEAN |-> IF hex THEN 8 ELSE 2],
            Highest <- 5, Lowest <- -9, Plain <- -1
T == INSTANCE DecimalText
       WITH P <- 4, EB <- 3, G <- 3, H <- 2, Kept <- Read, Order <- [hex \in BOOLEAN |-> IF hex THEN 8 ELSE 2],
            Highest <- 5, Lowest <- -9, Plain <- -1
PrintedFormat == 0..255

(* Integers of two and three words of three bits, and strings with integers *)
(* of one word of six.                                                      *)
N == INSTANCE WordArithmetic WITH W <- 3
S == INSTANCE GuestStrings WITH W <- 6
Pair(x) == N!InWords(2, x)
Triple(x) == N!InWords(3, x)

Expression(op, a, b, c) == [op |-> op, a |-> a, b |-> b, c |-> c]
Unary(ops, A) == {Expression(op, a, 0, 0) : op \in ops, a \in A}
Binary(ops, A, B) == {Expression(op, a, b, 0) : op \in ops, a \in A, b \in B}

(* By kind of operands, each a set of expressions.                          *)
Operations == {
    Binary({"add", "sub", "mul", "div"}, Values(P), Values(P)),
    {Expression("fma", a, b, c) : a \in Samples, b \in Samples, c \in Values(P)},
    Unary({"rint", "nearbyint", "trunc", "floor", "ceil", "round", "frexp", "ilogb",
           "f32_to_f64"}, Values(P)),
    Binary({"scalbn"}, Values(P), Scales),
    Binary({"fmod", "remquo", "nextafter"}, Values(P), Values(P)),
    Binary({"eq", "lt", "le"}, Values(P), Samples),
    Unary({"f64_to_f32"}, Wide!Values(WP)),
    Binary({"nexttoward"}, Samples, Wide!Values(WP)),
    Unary({"from_i32", "from_i64"}, I!Signed),
    Unary({"from_u32", "from_ui64"}, I!Unsigned),
    Unary({"i64_to_f64"}, I!Signed),
    Unary({"ui64_to_f64"}, I!Unsigned),
    Unary({"i32_to_f64"}, I!Narrow \cup I!NarrowSigned),
    Unary({"to_i32", "to_u32", "to_i64", "to_ui64",
           "f64_to_i32", "f64_to_ui32", "f64_to_i64", "f64_to_ui64"}, IntegerFormat),
    Unary({"modf"}, Values(P)),
    Binary({"remainder"}, Values(P), Values(P)),
    Binary({"fmax", "fmin", "fdim"}, Values(P), Samples),
    Binary({"f64_add", "f64_sub", "f64_mul"}, Doubles, Doubles),
    {Expression("f64_div", a, b, short) : a \in Doubles, b \in Doubles, short \in 0..3},
    Binary({"f64_eq", "f64_lt", "f64_le"}, Doubles, Doubles),
    Binary({"f64_sqrt"}, DoubleFormat, 0..3),
    Binary({"f32_sqrt"}, DoubleFormat, 0..2),
    {Expression("f64_mulAdd", a, b, c) : a \in Factors, b \in Factors, c \in Factors},
    Unary({"strtod"}, Texts),
    Binary({"mul64", "udivmod64", "sdivmod64", "mul64To128M"}, 0..63, Pairs),
    Binary({"shift_right_jam64"}, 0..63, 0..7),
    Binary({"shift_right_jam32"}, 0..7, 0..4),
    Binary({"addM", "subM"}, Triples, Triples),
    Unary({"negXM"}, Triples),
    Binary({"shiftLeftM", "shiftRightJamM"}, Triples, 1..10),
    Binary({"strtoul32"}, Strings, Bases),
    Unary({"memmove"}, Moves),
    Binary({"printf"}, {x \in PrintedFormat : T!IsFinite(x)}, Printed)}

(* Functions that read no context: integers, strings and memory.            *)
IntegerOps ==
    {"mul64", "udivmod64", "sdivmod64", "mul64To128M", "shift_right_jam64", "shift_right_jam32",
     "addM", "subM", "negXM", "shiftLeftM", "shiftRightJamM", "strtoul32", "memmove"}
Memory == <<1, 2, 3, 4, 5>>

Computed(e) ==
    CASE e.op = "mul64" -> N!mul64(Pair(e.a), Pair(e.b))
      [] e.op = "udivmod64" -> N!udivmod64(Pair(e.a), Pair(e.b))
      [] e.op = "sdivmod64" -> N!sdivmod64(Pair(e.a), Pair(e.b))
      [] e.op = "mul64To128M" -> N!mul64To128M(e.a, e.b)
      [] e.op = "shift_right_jam64" -> N!shift_right_jam64(Pair(e.a), e.b)
      [] e.op = "shift_right_jam32" -> <<N!shift_right_jam32(e.a, e.b)>>
      [] e.op = "addM" -> N!addM(Triple(e.a), Triple(e.b))
      [] e.op = "subM" -> N!subM(Triple(e.a), Triple(e.b))
      [] e.op = "negXM" -> N!negXM(Triple(e.a))
      [] e.op = "shiftLeftM" -> N!shiftLeftM(Triple(e.a), e.b)
      [] e.op = "shiftRightJamM" -> N!shiftRightJamM(Triple(e.a), e.b)
      [] e.op = "strtoul32" -> S!strtoul32(e.a, e.b)
      [] OTHER -> S!memmove(Memory, e.a.dest, e.a.src, e.a.size)

(* Operations that give a value, and those that give something else with a  *)
(* value or in its place.                                                   *)
Result(e, mode) ==
    CASE e.op = "add" -> add(mode, e.a, e.b)
      [] e.op = "sub" -> sub(mode, e.a, e.b)
      [] e.op = "mul" -> mul(mode, e.a, e.b)
      [] e.op = "div" -> div(mode, e.a, e.b)
      [] e.op = "fma" -> fma(mode, e.a, e.b, e.c)
      [] e.op = "scalbn" -> scalbn(mode, e.a, e.b)
      [] e.op \in {"rint", "nearbyint"} -> RoundToInt(mode, e.a, e.op = "rint")
      [] e.op = "f64_to_f32" -> f64_to_f32(mode, e.a)
      [] e.op = "f32_to_f64" -> f32_to_f64(e.a)
      [] e.op = "from_i32" -> I!from_i32(mode, e.a)
      [] e.op = "from_u32" -> I!from_u32(mode, e.a)
      [] e.op = "from_i64" -> I!from_i64(mode, e.a)
      [] e.op = "from_ui64" -> I!from_ui64(mode, e.a)
      [] e.op = "i64_to_f64" -> I!i64_to_f64(mode, e.a)
      [] e.op = "ui64_to_f64" -> I!ui64_to_f64(mode, e.a)
      [] e.op = "i32_to_f64" -> I!i32_to_f64(e.a)
      [] e.op = "f64_to_i32" -> I!f64_to_i32(e.a)
      [] e.op = "f64_to_ui32" -> I!f64_to_ui32(e.a)
      [] e.op = "f64_to_i64" -> I!f64_to_i64(e.a)
      [] e.op = "f64_to_ui64" -> I!f64_to_ui64(e.a)
      [] e.op = "f64_add" -> D!f64_add(mode, e.a, e.b)
      [] e.op = "f64_sub" -> D!f64_sub(mode, e.a, e.b)
      [] e.op = "f64_mul" -> F!f64_mul(mode, e.a, e.b)
      [] e.op = "f64_eq" -> D!f64_eq(e.a, e.b)
      [] e.op = "f64_lt" -> D!f64_lt(e.a, e.b)
      [] e.op = "f64_le" -> D!f64_le(e.a, e.b)
      [] e.op = "f64_div" -> D!f64_div(mode, e.a, e.b, e.c)
      [] e.op = "f64_sqrt" -> D!f64_sqrt(mode, e.a, e.b)
      [] e.op = "f32_sqrt" -> D!f32_sqrt(mode, e.a, e.b)
      [] e.op = "f64_mulAdd" -> F!f64_mulAdd(mode, e.a, e.b, e.c)
      [] e.op = "strtod" -> R!parse(mode, e.a)
      [] e.op = "printf" -> [text |-> T!print(mode, e.a, e.b), raised |-> {}]
      [] e.op \in IntegerOps -> [value |-> Computed(e), raised |-> {}]
      [] e.op \in {"to_i32", "to_u32"} -> I!trunc_to_integer32(e.a, e.op = "to_i32")
      [] e.op = "to_i64" -> I!to_i64(e.a)
      [] e.op = "to_ui64" -> I!to_ui64(e.a)
      [] e.op \in {"trunc", "floor", "ceil", "round"} -> integral(e.op, e.a)
      [] e.op = "fmod" -> fmod(mode, e.a, e.b)
      [] e.op = "remquo" -> remquo(mode, e.a, e.b)
      [] e.op = "nextafter" -> nextafter(mode, e.a, e.b)
      [] e.op = "nexttoward" -> nexttoward(mode, e.a, e.b)
      [] e.op = "remainder" -> remainder(mode, e.a, e.b)
      [] e.op = "fmax" -> fmax(mode, e.a, e.b)
      [] e.op = "fmin" -> fmin(mode, e.a, e.b)
      [] e.op = "fdim" -> fdim(mode, e.a, e.b)
      [] e.op = "modf" -> modf(mode, e.a)
      [] e.op = "frexp" -> frexp(e.a)
      [] e.op = "ilogb" -> ilogb(e.a)
      [] e.op = "eq" -> Eq(e.a, e.b)
      [] e.op = "lt" -> Lt(e.a, e.b)
      [] OTHER -> Le(e.a, e.b)

Outcome(e, mode) ==
    LET z == Result(e, mode)
    IN  [result |-> z, raised |-> IF e.op \in {"frexp", "remquo", "modf"} THEN z.z.raised ELSE z.raised]

----------------------------------------------------------------------------
Answer(t) == local[t].answer[1]
Answered(t, ops) == local[t].answer # << >> /\ Answer(t).e.op \in ops

DoubleOps ==
    {"f64_add", "f64_sub", "f64_mul", "f64_div", "f64_sqrt", "f32_sqrt", "f64_mulAdd"}

(* The exact result of the operation, rounded once.                         *)
Reference(e, mode) ==
    CASE e.op = "add" -> RefSum(mode, e.a, e.b)
      [] e.op = "sub" -> RefSum(mode, e.a, Negated(e.b))
      [] e.op = "mul" -> RefProduct(mode, e.a, e.b)
      [] e.op = "div" -> RefQuotient(mode, e.a, e.b)
      [] e.op = "fma" -> RefFused(mode, e.a, e.b, e.c)
      [] e.op = "scalbn" -> RefScaled(mode, e.a, e.b)
      [] e.op = "fdim" -> RefPositiveDifference(mode, e.a, e.b)
      [] OTHER -> LET z == RefIntegral(mode, e.a)
                  IN  Raises(z, When(e.op = "rint" /\ z # e.a, {"inexact"}))

Operands(e) ==
    CASE e.op \in {"add", "sub", "mul", "div", "fdim",
                  "f64_add", "f64_sub", "f64_mul", "f64_div"} -> {e.a, e.b}
      [] e.op \in {"fma", "f64_mulAdd"} -> {e.a, e.b, e.c}
      [] OTHER -> {e.a}

RefDouble(e, mode) ==
    CASE e.op = "f64_add" -> D!RefSum(mode, e.a, e.b)
      [] e.op = "f64_sub" -> D!RefSum(mode, e.a, D!Negated(e.b))
      [] e.op = "f64_mul" -> F!RefProduct(mode, e.a, e.b)
      [] e.op = "f64_div" -> D!RefQuotient(mode, e.a, e.b)
      [] e.op = "f64_mulAdd" -> F!RefFused(mode, e.a, e.b, e.c)
      [] OTHER -> D!RefRoot(mode, e.a)

DoubleIsRounded(e, mode, z) ==
    IF D!NaNsOf(Operands(e)) = {} THEN z = RefDouble(e, mode)
    ELSE IF e.op = "f64_mulAdd" THEN F!FusedNaN(e.a, e.b, e.c, z) ELSE D!NaNFrom(Operands(e), z)

IsRounded(e, mode, z) ==
    CASE e.op = "f64_to_f32" -> CorrectNarrow(mode, e.a, z)
      [] e.op \in {"from_i32", "from_u32", "from_i64", "from_ui64",
                   "i64_to_f64", "ui64_to_f64", "i32_to_f64"} -> z = I!RefFromInteger(mode, e.a)
      [] e.op \in DoubleOps -> DoubleIsRounded(e, mode, z)
      [] e.op = "strtod" -> z = R!RefParse(mode, e.a)
      [] e.op = "printf" -> T!CorrectPrint(mode, e.a, e.b, z.text)
      [] OTHER ->
           IF NaNsOf(Operands(e)) = {} THEN z = Reference(e, mode)
           ELSE IF e.op = "fma" THEN FusedNaN(e.a, e.b, e.c, z) ELSE NaNFrom(Operands(e), z)

(* Addition, subtraction, multiplication, division, square root, fma,       *)
(* scalbn, rint, fdim, the conversions to the narrow format and from        *)
(* integers and the reading and printing of decimal and hexadecimal texts   *)
(* give the exact result, rounded once in the mode of the thread's own      *)
(* context, with exactly the exceptions of IEEE 754: to the last bit, over  *)
(* subnormal numbers, overflow, cancellation, signed zeros, NaNs, digits    *)
(* that are dropped and whatever estimate a table gives.                    *)
RoundedOnce ==
    \A t \in Threads :
      Answered(t, {"add", "sub", "mul", "div", "fma", "scalbn", "rint", "nearbyint", "f64_to_f32",
                   "from_i32", "from_u32", "from_i64", "from_ui64", "fdim",
                   "i64_to_f64", "ui64_to_f64", "i32_to_f64", "strtod", "printf"} \cup DoubleOps) =>
        IsRounded(Answer(t).e, contexts[t].rounding, Answer(t).outcome.result)

How(op) ==
    CASE op = "trunc" -> "zero" [] op = "floor" -> "down" [] op = "ceil" -> "up"
      [] OTHER -> "away on a tie"

CorrectIntegral(op, x, z) ==
    IF IsNaN(x) THEN NaNFrom({x}, z) ELSE z = Exact(RefIntegral(How(op), x))

Promised(e) ==
    CASE e.op = "mul64" -> Pair(e.a * e.b)
      [] e.op = "udivmod64" -> N!RefUnsignedDivision(Pair(e.a), Pair(e.b))
      [] e.op = "sdivmod64" -> N!RefSignedDivision(Pair(e.a), Pair(e.b))
      [] e.op = "mul64To128M" -> N!InWords(4, e.a * e.b)
      [] e.op = "shift_right_jam64" -> N!RefJam(Pair(e.a), e.b)
      [] e.op = "shift_right_jam32" -> N!RefJam(<<e.a>>, e.b)
      [] e.op = "addM" -> Triple(e.a + e.b)
      [] e.op = "subM" -> Triple(e.a - e.b)
      [] e.op = "negXM" -> Triple(-e.a)
      [] e.op = "shiftLeftM" -> Triple(e.a * 2^e.b)
      [] e.op = "shiftRightJamM" -> N!RefJam(Triple(e.a), e.b)
      [] e.op = "strtoul32" -> S!RefStrtoul(e.a, e.b)
      [] OTHER -> S!RefMoved(Memory, e.a.dest, e.a.src, e.a.size)

IsExact(e, z) ==
    CASE e.op = "fmod" -> CorrectMod(e.a, e.b, z)
      [] e.op = "remquo" -> CorrectRemquo(e.a, e.b, z)
      [] e.op = "nextafter" -> CorrectNext(e.a, e.b, z)
      [] e.op = "nexttoward" -> CorrectToward(e.a, e.b, z)
      [] e.op = "frexp" -> CorrectFrexp(e.a, z)
      [] e.op = "ilogb" -> CorrectIlogb(e.a, z)
      [] e.op \in {"eq", "lt", "le"} -> CorrectCompare(e.op, e.a, e.b, z)
      [] e.op = "f32_to_f64" -> CorrectWiden(e.a, z)
      [] e.op = "f64_eq" -> D!CorrectCompare("eq", e.a, e.b, z)
      [] e.op = "f64_lt" -> D!CorrectCompare("lt", e.a, e.b, z)
      [] e.op = "f64_le" -> D!CorrectCompare("le", e.a, e.b, z)
      [] e.op = "remainder" -> CorrectRemainder(e.a, e.b, z)
      [] e.op = "modf" -> CorrectModf(e.a, z)
      [] e.op = "fmax" -> CorrectExtreme(e.a, e.b, z, SignedLess)
      [] e.op = "fmin" -> CorrectExtreme(e.a, e.b, z, SignedMore)
      [] e.op = "f64_to_i32" -> z = I!RefToInteger(e.a, I!NarrowSigned)
      [] e.op = "f64_to_ui32" -> z = I!RefToInteger(e.a, I!Narrow)
      [] e.op \in {"to_i32", "to_i64", "f64_to_i64"} -> z = I!RefToInteger(e.a, I!Signed)
      [] e.op \in {"to_u32", "to_ui64", "f64_to_ui64"} -> z = I!RefToInteger(e.a, I!Unsigned)
      [] e.op \in IntegerOps -> z.value = Promised(e)
      [] OTHER -> CorrectIntegral(e.op, e.a, z)

(* Remainders, the next value, frexp, modf, ilogb, comparisons, maxima,     *)
(* rounding to integral values, the conversion to the wide format and the   *)
(* truncation to integers do not depend on the mode: they are exact, though *)
(* a remainder is found by shifting and its quotient is kept modulo 128,    *)
(* and what has no integer is invalid and becomes the nearest there is.  So *)
(* are integers computed word by word, with each carry and borrow between   *)
(* words, integers read up to the end of their range, and memory that moves *)
(* to where it overlaps itself.                                             *)
ExactWhateverTheMode ==
    \A t \in Threads :
      Answered(t, {"fmod", "remquo", "nextafter", "nexttoward", "frexp", "ilogb", "eq", "lt", "le",
                   "trunc", "floor", "ceil", "round", "f32_to_f64", "remainder", "modf", "fmax", "fmin",
                   "to_i32", "to_u32", "to_i64", "to_ui64",
                   "f64_to_i32", "f64_to_ui32", "f64_to_i64", "f64_to_ui64",
                   "f64_eq", "f64_lt", "f64_le"} \cup IntegerOps) =>
        IsExact(Answer(t).e, Answer(t).outcome.result)
=============================================================================
