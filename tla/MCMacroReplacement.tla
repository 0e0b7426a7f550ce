------------------------ MODULE MCMacroReplacement ------------------------
(* Small families of programs for MacroStandard: A is an object macro,      *)
(* F and G are function macros.                                             *)
EXTENDS MacroStandard, TLC

Ids == {"A", "F", "G", "x", "y"}
Damages == {"error 1", "error 2"}

(* In a source text two words are never adjacent.                           *)
Words == Ids \cup {"1"}
Spaced(s) == FoldLeft(LAMBDA l, t : IF l # << >> /\ Last(l) \in Words /\ t \in Words
                                    THEN l \o <<Space, t>> ELSE Append(l, t), << >>, s)
Texts(n, S) == {Spaced(s) : s \in UNION {[1..k -> S] : k \in 0..n}}

Define(a, f, g) == [n \in Ids |-> CASE n = "A" -> Object(a) [] n = "F" -> f
                                    [] n = "G" -> g [] n \in {"x", "y"} -> Undefined]
Family(defs, texts) == [definitions |-> defs, text |-> texts]
One(b) == Function(<<"x">>, FALSE, b)
Use(f, arg) == <<f, "(">> \o arg \o <<")">>

(* Any short definitions of A and F, any short file that uses them.         *)
Short == Family({Define(a, One(f), Undefined) : a \in Texts(2, {"A", "F", "(", ")"}) \cup {<<"1">>},
                                                f \in Texts(2, {"x", "A", "F"})},
                {Spaced(<<h>> \o t) : h \in {"A", "F"},
                    t \in {u \in Texts(3, {"A", "F", "(", ")"}) : u = << >> \/ Head(u) # ")"}})

(* Calls in the bodies of macros and in arguments of calls.                 *)
Inner == {<<"x">>, <<"A">>, << >>} \cup {Use("F", <<t>>) : t \in {"x", "A", "G"}}
Nested == Family({Define(a, One(f), One(Spaced(g1 \o g2))) :
                    a \in {<<"1">>, <<",">>, <<"F">>, Use("F", <<"1">>)},
                    f \in {<<"x">>, Spaced(<<"x", "x">>), <<"1">>, Use("x", <<"1">>)},
                    g1 \in Inner, g2 \in Inner},
                 {Use("G", a) : a \in {<<"1">>, <<"A">>, <<"F">>, Use("F", <<"A">>), Use("G", <<"1">>)}})

(* Calls of a variadic macro, with all, some and none of its arguments.     *)
Bodies == {<<"y">>, <<"x", Space, "y">>, <<"x", ",", "#", "#", "y">>, <<"A", "(", "y", ")">>}
Variadic == Family({Define(a, Function(<<"x", "y">>, TRUE, f), One(<<"x">>)) : a \in {<<",">>, <<"G">>}, f \in Bodies},
                   {<<"F", "(">> \o s \o <<")">> : s \in Texts(4, {"1", ",", "A"})})

(* Files with lexical errors.                                               *)
\* bodies that refuse a call
Refusals == {<<"#", "G">>, <<"x", "#", "#", "G">>}
Damaged == Family({Define(<<"F">>, One(f), Function(<<"x", "y">>, FALSE, <<"x">>)) :
                     f \in Texts(1, {"x", "G", "1"}) \cup {<<"x", Space, "x">>} \cup Refusals},
                  {Spaced(<<h>> \o t) : h \in {"F", "G"}, t \in Texts(4, Damages \cup {"A", "(", ",", ")"})})

Files == {Short, Nested, Variadic, Damaged}

(* Definitions that refer to each other and to themselves in every way.     *)
Cyclic == {Family({Define(a, One(f), One(g)) : a \in {<<"F", "(">>, <<"A">>, Use("F", <<"A">>)},
                      f \in {<<"x">>, Use("F", <<"x">>), Use("G", <<"x">>), <<"G">>},
                      g \in {<<"x">>, Use("F", <<"x">>), Use("A", <<"x">>), <<"F">>}},
                  {<<h, "(">> \o Spaced(t) : h \in {"A", "F"}, t \in Texts(3, {"A", "F", ")"})})}

(* # and ## with operands that are parameters or not.                       *)
Joins == (<<"1", "1">> :> "1") @@ (<<"F", "1">> :> "A") @@ (<<"1", "A">> :> "G") @@ (<<"A", "A">> :> "F")
Operands == {"x", "y", "1", "A"}
PasteBodies ==
    {<<p>> \o q \o r : p \in Operands,
        q \in {<<"#", "#", o>> : o \in Operands} \cup {<<Space, "#", "#", Space, o>> : o \in {"x", "A"}},
        r \in {<< >>, <<",", "#", "x">>, <<"(", "y", ")">>} \cup {<<"#", "#", o>> : o \in Operands}}
Given == {<< >>, <<"1">>, <<"A">>, <<"F">>, Use("A", <<"1">>), <<Space, "1">>}
Pastes == {Family({Define(<<"1">>, Function(<<"x", "y">>, FALSE, f), One(<<"x", Space, "A">>)) : f \in PasteBodies},
                  {Use("F", p \o <<",">> \o q) \o r : p \in Given, q \in Given, r \in {<< >>, <<"(", "1", ")">>}})}

(* Macros that stand for a function macro.                                  *)
Aliases == {Family({Define(a, One(<<"x">>), One(<<"x">>)) : a \in {<<"F">>, <<"G">>, <<"1">>}},
                   {Use(h, Use(i, <<"1">>)) : h \in {"A", "F"}, i \in {"A", "G"}})}

All == Files \cup Pastes \cup Cyclic
=============================================================================
