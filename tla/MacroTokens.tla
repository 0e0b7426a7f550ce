---------------------------- MODULE MacroTokens ----------------------------
(***************************************************************************)
(* Preprocessing tokens and macro definitions (saltwater-parser,            *)
(* lex/replace.rs).  A token is its spelling; white space is one token " ", *)
(* and the errors that stand between the tokens are told apart: those that  *)
(* the lexer found in the file, and the one that refuses a call.            *)
(***************************************************************************)
EXTENDS Integers, Sequences, FiniteSets, SequencesExt

CONSTANTS
    Names,      \* the identifiers
    Joined,     \* Joined[<<l, r>>]: the one token that l and r paste to
    Invalid     \* the lexical errors a file may have

Space == " "
Refused == "refused"    \* too few arguments, or a # or ## that cannot be
Errors == Invalid \cup {Refused}
Undefined == [kind |-> "none"]
Object(body) == [kind |-> "object", body |-> body]
Function(params, variadic, body) ==
    [kind |-> "function", params |-> params, variadic |-> variadic, body |-> body]

Count(s, t) == Cardinality({i \in DOMAIN s : s[i] = t})
Without(s, t) == SelectSeq(s, LAMBDA u : u # t)

IsAt(s, i, t) == i \in DOMAIN s /\ s[i] = t

(* The first position from i on that is not white space, or one past s.     *)
Solid(s, i) ==
    CHOOSE j \in i..(Len(s) + 1) :
        /\ j \in DOMAIN s => s[j] # Space
        /\ \A k \in i..(j - 1) : s[k] = Space

(* The result of ##, which has to be one token again.                       *)
Pasted(l, r) == IF <<l, r>> \in DOMAIN Joined THEN Joined[<<l, r>>] ELSE Refused

IsParameter(m, t) == t \in Range(m.params)
Position(m, t) == CHOOSE i \in DOMAIN m.params : m.params[i] = t

----------------------------------------------------------------------------
(* The arguments of a call whose first token after the parenthesis is       *)
(* s[start]: the commas and the parenthesis that are not nested.            *)
Nesting(s, start, i) ==
    1 + Count(SubSeq(s, start, i), "(") - Count(SubSeq(s, start, i), ")")
Closings(s, start) == {i \in start..Len(s) : s[i] = ")" /\ Nesting(s, start, i) = 0}
Closing(s, start) == CHOOSE i \in Closings(s, start) : \A j \in Closings(s, start) : i <= j
Ends(s, start) ==
    LET last == Closing(s, start)
    IN  SetToSortSeq({last} \cup {i \in start..last : s[i] = "," /\ Nesting(s, start, i) = 1},
                     LAMBDA i, j : i < j)
Arguments(s, start) ==
    LET ends == Ends(s, start)
    IN  [a \in DOMAIN ends |->
            SubSeq(s, IF a = 1 THEN start ELSE ends[a - 1] + 1, ends[a] - 1)]
=============================================================================
