----------------------------- MODULE GuestStrings -----------------------------
(***************************************************************************)
(* The functions of the guest runtime on strings and pieces of memory       *)
(* (strings.c, primitives.c).  A string is the sequence of its characters   *)
(* without the zero at its end, a pointer into it what stands before it.    *)
(***************************************************************************)
EXTENDS Integers, Sequences, SequencesExt

CONSTANT W     \* bits of an unsigned int: 32

(* Characters: digits and letters are the numbers they stand for.           *)
X == 33
Space == 36
Plus == 37
Minus == 38
Other == 39
Nul == 40
At(s, i) == IF i \in 1..Len(s) THEN s[i] ELSE Nul
Digit(c, radix) == c < radix

(* How many characters from i on are in set, as strspn counts them.         *)
Span(s, i, set) ==
    CHOOSE n \in 0..Len(s) :
      /\ \A j \in i..i + n - 1 : At(s, j) \in set
      /\ At(s, i + n) \notin set

----------------------------------------------------------------------------
(* cosmic_strtoul32: the value, how far the pointer goes and the status.    *)
Prefixed(s, i, base) ==
    base \in {0, 16} /\ At(s, i) = 0 /\ At(s, i + 1) = X /\ Digit(At(s, i + 2), 16)
Radix(s, i, base) ==
    CASE base # 0 -> base
      [] base = 0 /\ Prefixed(s, i, base) -> 16
      [] base = 0 /\ ~Prefixed(s, i, base) -> IF At(s, i) = 0 THEN 8 ELSE 10

(* One more digit, unless the value would not fit.                          *)
Cutoff(radix) == (2^W - 1) \div radix
Cutlim(radix) == (2^W - 1) % radix
Accumulate(radix, n, d) ==
    LET over == n.value > Cutoff(radix) \/ (n.value = Cutoff(radix) /\ d > Cutlim(radix))
    IN  IF n.overflow \/ over THEN [n EXCEPT !.overflow = TRUE] ELSE [n EXCEPT !.value = @ * radix + d]

strtoul32(s, base) ==
    LET blanks == Span(s, 1, {Space})
        signed == At(s, blanks + 1) \in {Plus, Minus}
        negative == At(s, blanks + 1) = Minus
        from == blanks + 1 + (IF signed THEN 1 ELSE 0)
        radix == Radix(s, from, base)
        first == IF Prefixed(s, from, base) THEN from + 2 ELSE from
        count == Span(s, first, {c \in 0..X + 2 : Digit(c, radix)})
        n == FoldLeft(LAMBDA m, d : Accumulate(radix, m, d), [value |-> 0, overflow |-> FALSE],
                      SubSeq(s, first, first + count - 1))
        Answer(value, end, status) == [value |-> value, end |-> end, status |-> status]
    IN  IF base \notin {0} \cup 2..36 THEN Answer(0, 0, 3)
        ELSE IF count = 0 THEN Answer(0, 0, 1)
        ELSE IF n.overflow THEN Answer(2^W - 1, first + count - 1, 2)
        ELSE Answer(IF negative THEN (2^W - n.value) % 2^W ELSE n.value, first + count - 1, 0)

----------------------------------------------------------------------------
(* cosmic_memmove: byte by byte, in the order of the addresses.             *)
memmove(memory, dest, src, size) ==
    LET upwards == [i \in 1..size |-> i - 1]
    IN  FoldLeft(LAMBDA m, i : [m EXCEPT ![dest + i] = m[src + i]], memory,
                 IF dest <= src THEN upwards ELSE Reverse(upwards))

----------------------------------------------------------------------------
(* C11 7.22.1.4: the subject is the longest text from the start that has    *)
(* the form of an integer in the base.                                      *)
RadixOf(base, prefix, leading) ==
    IF prefix = 2 THEN {16} ELSE IF base # 0 THEN {base} ELSE IF leading = 0 THEN {8} ELSE {10}
Forms(s, base) ==
    {[blanks |-> b, sign |-> g, prefix |-> p, count |-> n, radix |-> r] :
       b \in 0..Len(s), g \in 0..1, p \in {0, 2}, n \in 1..Len(s), r \in {base} \cup {8, 10, 16}}
Subjects(s, base) ==
    {x \in Forms(s, base) :
       LET digits == x.blanks + x.sign + x.prefix
       IN  /\ digits + x.count <= Len(s)
           /\ \A i \in 1..x.blanks : s[i] = Space
           /\ x.sign = 1 => s[x.blanks + 1] \in {Plus, Minus}
           /\ x.prefix = 2 => base \in {0, 16} /\ SubSeq(s, digits - 1, digits) = <<0, X>>
           /\ x.radix \in RadixOf(base, x.prefix, s[digits + 1])
           /\ \A i \in 1..x.count : s[digits + i] < x.radix}

RefStrtoul(s, base) ==
    LET End(x) == x.blanks + x.sign + x.prefix + x.count
        best == CHOOSE x \in Subjects(s, base) : \A y \in Subjects(s, base) : End(y) <= End(x)
        value == FoldLeft(LAMBDA n, d : n * best.radix + d, 0, SubSeq(s, End(best) - best.count + 1, End(best)))
        minus == best.sign = 1 /\ s[best.blanks + 1] = Minus
    IN  IF base = 1 \/ base > 36 THEN [value |-> 0, end |-> 0, status |-> 3]
        ELSE IF Subjects(s, base) = {} THEN [value |-> 0, end |-> 0, status |-> 1]
        ELSE IF value >= 2^W THEN [value |-> 2^W - 1, end |-> End(best), status |-> 2]
        ELSE [value |-> (IF minus THEN -value ELSE value) % 2^W, end |-> End(best), status |-> 0]

(* Each byte is what stood at its source before, and no other changes.      *)
RefMoved(memory, dest, src, size) ==
    [i \in DOMAIN memory |-> IF i \in dest..dest + size - 1 THEN memory[src + i - dest] ELSE memory[i]]
=============================================================================
