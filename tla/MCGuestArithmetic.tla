-------------------------- MODULE MCGuestArithmetic --------------------------
(* One task beside the first thread, and calls of each kind.  The formats   *)
(* have 2 bits of fraction and 3 of exponent, and 5 and 4.                  *)
EXTENDS GuestArithmetic

(* One divided by three.                                                    *)
MCProbes == {Expression("div", 12, 18, 0)}

Plain(op, env) == [op |-> op, excepts |-> {}, rounding |-> "other", env |-> env]
Masked(op, e) == [op |-> op, excepts |-> e, rounding |-> "other", env |-> "default"]
Rounding(r) == [Plain("fesetround", "default") EXCEPT !.rounding = r]
MCCalls ==
    [t \in Threads |->
       IF t # Boot
       THEN {Plain(op, "default") : op \in {"operation", "tgamma", "feholdexcept", "feupdateenv"}}
            \cup {Rounding("up")}
       ELSE {Plain(op, "default") : op \in {"operation", "tgamma", "fegetenv", "feholdexcept"}}
            \cup {Plain(op, env) : op \in {"fesetenv", "feupdateenv"}, env \in {"default", "saved"}}
            \cup {Masked("feclearexcept", {"divide"}), Masked("feraiseexcept", {"inexact", "divide"}),
                  Masked("fegetexceptflag", {"divide", "invalid"}),
                  Masked("fesetexceptflag", {"divide", "invalid"})}
            \cup {Rounding(r) : r \in {"zero", "up", "down", "other"}}]

MCMaxCalls == [t \in Threads |-> IF t = Boot THEN 3 ELSE 1]

(* Zero, subnormal values, one, the value below two and its negative, the   *)
(* largest, infinity, a signaling NaN.                                      *)
MCSamples == {0, 1, 3, 5, 12, 15, 22, 27, 28, 29, 33, 47}

(* The same of the format with 5 bits of fraction and 3 of exponent, with   *)
(* significands of few bits and of many, and a few to multiply and add.     *)
MCDoubles == {0, 1, 2, 31, 32, 33, 47, 63, 64, 65, 85, 95, 96, 97, 107, 112, 127, 128, 149, 161,
              190, 192, 203, 222, 223, 224, 229, 241, 256, 288, 352, 395, 480}
MCFactors == {0, 1, 33, 63, 80, 96, 127, 129, 161, 191, 223, 224, 245, 321, 352, 383, 446, 450}

(* Texts before and after the point with exponents, digits that are dropped *)
(* next to a value and next to the middle of two, digits of hexadecimal.    *)
Written(hex, before, after, exps) ==
    [sign : {0, 1}, hex : {hex}, whole : before, fraction : after, exp : exps]
MCTexts ==
    Written(FALSE, {<< >>, <<0>>, <<9>>, <<1, 5>>}, {<< >>, <<5>>, <<0, 7, 8>>, <<2, 5, 0>>, <<0, 1, 5, 6>>},
         {-3, -1, 0, 1, 3})
    \cup Written(FALSE, {<< >>, <<1, 1>>},
              {<<0, 3, 1, 2, 5>>, <<3, 7, 5, 0, 0, 1>>, <<3, 7, 4, 9, 9, 9>>, <<4, 6, 8, 7, 5, 1>>}, {0, 1})
    \cup Written(TRUE, {<< >>, <<1>>, <<1, 2>>}, {<<0>>, <<0, 3, 1>>, <<1, 0, 0, 1>>}, {-9, -4, -1, 0, 2, 8})
MCRead == 5

(* Conversions with few digits, with all of them and with more.             *)
MCPrinted ==
    [kind : {"f", "e"}, precision : 0..3, alternate : {FALSE}]
    \cup [kind : {"g"}, precision : {0, 1, 3}, alternate : BOOLEAN]
    \cup [kind : {"a"}, precision : {-1, 0, 1, 3}, alternate : {FALSE}]

MCScales == {-9, -3, -1, 0, 2, 9}

(* Numbers of two words of three bits, and of three, each word with bits at *)
(* its ends or none.                                                        *)
MCPairs == {0, 1, 2, 3, 7, 8, 9, 15, 16, 21, 31, 32, 33, 40, 55, 56, 57, 62, 63}
MCTriples == {x + 8 * y + 64 * z : x, y, z \in {0, 1, 4, 7}}

(* Blanks and a sign, or a sign too early, and digits of every base with a  *)
(* prefix or the beginning of one.                                          *)
DigitsUpTo(n, digits) == UNION {[1..k -> digits] : k \in 0..n}
MCStrings ==
    {before \o text : before \in {<< >>, <<S!Space>>, <<S!Space, S!Minus>>, <<S!Plus, S!Space>>},
                      text \in DigitsUpTo(2, {0, 1, 3, 6, 15, S!X}) \cup [1..3 -> {0, 1, 7}]
                               \cup {<<0, S!X>> \o t : t \in DigitsUpTo(2, {0, 3, 15, S!Other})}}
MCBases == {0, 1, 2, 8, 10, 16, 36, 37}

MCMoves ==
    {m \in [dest : 1..5, src : 1..5, size : 0..5] :
       m.dest + m.size <= 6 /\ m.src + m.size <= 6}
=============================================================================
