--------------------------- MODULE MacroStandard ---------------------------
(***************************************************************************)
(* What replacement has to give: the hide-set algorithm behind C11 6.10.3.  *)
(* Every token carries the names it came from, also inside an argument, and *)
(* white space plays no part.                                               *)
(***************************************************************************)
EXTENDS MacroReplacement

(* `\o << >>` only makes TLC compute a sequence once.                       *)
Fresh(tokens) == [i \in DOMAIN tokens |-> [token |-> tokens[i], hide |-> {}]]
Plain(ts) == [i \in DOMAIN ts |-> ts[i].token] \o << >>
Hide(ts, names) == [i \in DOMAIN ts |-> [ts[i] EXCEPT !.hide = @ \cup names]] \o << >>

(* The body of a macro: no white space, and ## is one token.                *)
Body(m) == Fresh(FoldLeft(LAMBDA l, t : IF t = "#" /\ IsAt(l, Len(l), "#")
                                        THEN Append(Front(l), "##") ELSE Append(l, t),
                          << >>, Without(m.body, Space)))

RECURSIVE Expand(_, _)
RECURSIVE Instantiate(_, _, _, _, _)

(* The body of m from position i on, with the actual arguments.  `, ##` in  *)
(* front of the variadic parameter is the GNU extension.                    *)
Instantiate(D, m, args, i, out) ==
    LET items == m.body
        Raw(t) == IF IsParameter(m, t.token) THEN args[Position(m, t.token)] ELSE <<t>>
        Glue(l, r) == IF l = << >> THEN r ELSE IF r = << >> THEN l
                      ELSE Front(l) \o <<[token |-> Pasted(Last(l).token, Head(r).token),
                                          hide |-> Last(l).hide \cap Head(r).hide]>> \o Tail(r)
        operand == Raw(items[i])
        \* operands of ## from i on, glued
        RECURSIVE Chain(_, _)
        Chain(l, j) == IF IsAt(Plain(items), j, "##")
                       THEN Chain(Glue(l, Raw(items[j + 1])), j + 2) ELSE <<l, j>>
        chain == Chain(operand, i + 1)
    IN  IF i > Len(items) THEN out
        ELSE IF m.variadic /\ items[i].token = "," /\ IsAt(Plain(items), i + 1, "##")
                /\ items[i + 2].token = Last(m.params)
        THEN Instantiate(D, m, args, i + 3,
                         IF m.omitted THEN out ELSE Append(out, items[i]) \o Raw(items[i + 2]))
        ELSE IF items[i].token = "#"
        THEN IF i < Len(items) /\ IsParameter(m, items[i + 1].token)
             THEN Instantiate(D, m, args, i + 2, Append(out, [token |-> "string", hide |-> {}]))
             ELSE Append(out, [token |-> Refused, hide |-> {}])
        ELSE IF IsAt(Plain(items), i + 1, "##")
        THEN Instantiate(D, m, args, chain[2], out \o chain[1])
        ELSE Instantiate(D, m, args, i + 1,
                 out \o IF IsParameter(m, items[i].token) THEN Expand(D, operand) ELSE operand)

(* The result has Refused if a call is not closed or does not fit.          *)
Expand(D, ts) ==
    LET t    == Head(ts)
        rest == Tail(ts)
        m    == D[t.token]
        live == t.token \in Names /\ t.token \notin t.hide
        s    == Plain(ts)
        end  == Closing(s, 3)
        args == LET ends == Ends(s, 3)
                IN  [a \in DOMAIN ends |->
                        SubSeq(ts, IF a = 1 THEN 3 ELSE ends[a - 1] + 1, ends[a] - 1)]
        n    == Len(m.params)
        fit  == IF n = 0 THEN args = <<<< >>>>
                ELSE IF m.variadic THEN Len(args) >= n - 1 ELSE Len(args) = n
        actual == IF ~ m.variadic THEN args
                  ELSE Append(SubSeq(args, 1, n - 1),
                              IF Len(args) < n THEN << >>
                              ELSE FoldLeft(LAMBDA l, r : l \o Fresh(<<",">>) \o r,
                                            args[n], SubSeq(args, n + 1, Len(args))))
        used == [params |-> m.params, variadic |-> m.variadic, body |-> Body(m),
                 omitted |-> Len(args) < n]
    IN  IF ts = << >> THEN << >>
        ELSE IF live /\ m.kind = "object"
        THEN Expand(D, Hide(Body(m), t.hide \cup {t.token}) \o rest)
        ELSE IF live /\ m.kind = "function" /\ IsAt(s, 2, "(")
        THEN IF Closings(s, 3) = {} \/ ~ fit THEN Fresh(<<Refused>>)
             ELSE Expand(D, Hide(Instantiate(D, used, actual, 1, << >>),
                                 (t.hide \cap ts[end].hide) \cup {t.token})
                            \o SubSeq(ts, end + 1, Len(ts)))
        ELSE <<t>> \o Expand(D, rest)

----------------------------------------------------------------------------
(* What the standard makes of the file, with the names each token came from.*)
Standard == Expand(definitions, Fresh(Without(text, Space)))
Expected == Plain(Standard)
HasMeaning == Errors \cap (Range(text) \cup Range(Expected)) = {}

(* The tokens the standard leaves alone for coming from their own expansion.*)
Painted == {t \in Range(Standard) : t.token \in t.hide}

(* No identifier stands right behind a parenthesis.                         *)
Separated == \A i \in 2..Len(text) : text[i - 1] = ")" => text[i] \notin Names

AsStandard == Without(stack[1].replacements, Space) = Expected

(* The operands of # and ## are single tokens, but for `, ##` and the rest. *)
OperandsSingle ==
    \A n \in Names :
        /\ definitions[n].kind = "function"
        /\ "#" \in Range(definitions[n].body)
        /\ ~ definitions[n].variadic
        => /\ Closings(text, 3) # {}
           /\ \A a \in Range(Arguments(text, 3)) : Len(Without(a, Space)) = 1

(* An object macro that begins calls of the file begins one of them.        *)
BeginsCall(m) == \E n \in Names : definitions[n].kind = "function" /\ n \in Range(m.body)

Unrepeated ==
    \A n \in Names :
        definitions[n].kind = "object" /\ BeginsCall(definitions[n])
        => \A i, j \in DOMAIN text : text[i] = n /\ text[j] = n => i = j

(* A file in which no name turns up in its own expansion, or right behind a *)
(* parenthesis, is replaced as the standard says: argument prescan, rescan  *)
(* together with the rest of the file, calls that begin in one macro and    *)
(* end in another or in the file, chains of # and ## with what they make.   *)
ExpandsAsStandard ==
    Ended /\ HasMeaning /\ Separated /\ Painted = {} /\ OperandsSingle /\ Unrepeated
    => AsStandard

(* "Ordinary parameter occurrences are prescanned before the enclosing      *)
(* replacement list is rescanned", also with the names that led to the call.*)
ArgumentsPrescanned ==
    Ended /\ HasMeaning /\ Separated /\ Painted = {} /\ OperandsSingle => AsStandard
=============================================================================
