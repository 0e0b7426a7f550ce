------------------------- MODULE ConditionalGroups -------------------------
(* The vocabulary of conditional inclusion, shared by its abstract          *)
(* specification and by the model of the preprocessor: the lines of a       *)
(* source file as far as #if, #elif, #else and #endif are concerned, and    *)
(* the stack of open groups a reader of the file keeps in mind.             *)
EXTENDS Naturals, Sequences

(* A line and, for #if and #elif, what its condition evaluates to.  #ifdef  *)
(* and #ifndef are #if lines; "bad" is a condition that does not evaluate.  *)
(* A "null" line is # alone, a "define" line any other directive (#define,  *)
(* #undef, #pragma ...), a "text" line one that yields tokens, an "invalid" *)
(* line one that the lexer or the directive parser rejects, "eof" the end.  *)
Conditions == {"true", "false", "bad"}
Line(k, c) == [kind |-> k, cond |-> c]
Plain(k) == Line(k, "none")

(* Lines that may begin with #.                                             *)
HashLines ==
    {Line(k, c) : k \in {"if", "elif"}, c \in Conditions}
        \cup {Plain(k) : k \in {"else", "endif", "null", "define", "invalid"}}

Lines == HashLines \cup {Plain("text"), Plain("eof")}

(* An open group is waiting for a true condition, selected (its current     *)
(* branch is compiled), done (an earlier branch was), or dead (it lies in a *)
(* branch that is not compiled).  Its last branch is the one of its #else.  *)
Statuses == {"waiting", "selected", "done", "dead"}
Branches == {"if", "else"}
Group(s, b) == [status |-> s, branch |-> b]
Groups == [status : Statuses, branch : Branches]

Top(g) == g[Len(g)]
Outer(g) == [i \in 1 .. Len(g) - 1 |-> g[i]]

(* Are the lines that follow compiled?                                      *)
Compiled(g) == \A i \in 1 .. Len(g) : g[i].status = "selected"

(* Is the line allowed where it stands?  A condition is evaluated only      *)
(* when its value decides which branch is compiled.                         *)
Allowed(g, l) ==
    \/ /\ l.kind = "if"
       /\ Compiled(g) => l.cond # "bad"
    \/ /\ l.kind = "elif"
       /\ Len(g) > 0
       /\ Top(g).branch # "else"
       /\ Top(g).status = "waiting" => l.cond # "bad"
    \/ /\ l.kind = "else"
       /\ Len(g) > 0
       /\ Top(g).branch # "else"
    \/ /\ l.kind = "endif"
       /\ Len(g) > 0
    \/ l.kind \in {"text", "null", "define"}
    \/ l.kind = "invalid" /\ ~ Compiled(g)
    \/ l.kind = "eof" /\ Len(g) = 0

Opened(g, c) ==
    IF ~ Compiled(g) THEN "dead" ELSE IF c = "true" THEN "selected" ELSE "waiting"

Switched(status, c) ==
    CASE status = "waiting" /\ c = "true" -> "selected"
      [] status = "selected" -> "done"
      [] OTHER -> status

(* The open groups once an allowed line is read.                            *)
After(g, l) ==
    CASE l.kind = "if" -> Append(g, Group(Opened(g, l.cond), "if"))
      [] l.kind = "elif" -> Append(Outer(g), Group(Switched(Top(g).status, l.cond), "if"))
      [] l.kind = "else" -> Append(Outer(g), Group(Switched(Top(g).status, "true"), "else"))
      [] l.kind = "endif" -> Outer(g)
      [] OTHER -> g
=============================================================================
