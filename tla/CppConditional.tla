-------------------------- MODULE CppConditional ---------------------------
(* Conditional inclusion as PreProcessor in saltwater-parser/lex/cpp.rs     *)
(* does it: the stack nested_ifs of branches being compiled, and            *)
(* consume_directive, which reads on without delivering anything.  A step   *)
(* reads one line.  The module also keeps what a reader of the file would   *)
(* know (groups, wellFormed), to compare the code with it.                  *)
EXTENDS ConditionalGroups

CONSTANTS
    MaxNested,  \* bound on nested_ifs, and on groups where an #if is swallowed
    MaxDepth    \* bound on the depth counter of consume_directive

ASSUME BoundsAssumption == MaxNested \in Nat /\ MaxDepth \in Nat \ {0}

VARIABLES
    nested_ifs,   \* IfState of every branch entered, innermost last
    mode,         \* "text", or the state consume_directive is in, or "eof"
    depth,        \* the depth counter of consume_directive
    hash,         \* the last line was # alone, and next_cpp_token still waits
                  \* for the word that is to follow it
    out,          \* "token", "none" or "diag": what the last line produced
    diagnosed,    \* some line produced a diagnostic
    swallowed,    \* history: some line that begins with # was taken for text
    consumedRest, \* history: consume_directive was once in state consume_all
    groups,       \* history: the open groups of the file
    wellFormed    \* history: every line so far is allowed where it stands

vars == <<nested_ifs, mode, depth, hash, out, diagnosed,
          swallowed, consumedRest, groups, wellFormed>>

IfState == {"If", "Elif", "Else"}
Modes == {"text", "consume_if", "consume_all", "eof"}

clean == wellFormed /\ ~ diagnosed /\ ~ swallowed

TypeOK ==
    /\ nested_ifs \in Seq(IfState)
    /\ mode \in Modes
    /\ depth \in Nat
    /\ hash \in BOOLEAN
    /\ out \in {"token", "none", "diag"}
    /\ diagnosed \in BOOLEAN
    /\ swallowed \in BOOLEAN
    /\ consumedRest \in BOOLEAN
    /\ groups \in Seq(Groups)
    /\ wellFormed \in BOOLEAN

Init ==
    /\ nested_ifs = << >>
    /\ mode = "text"
    /\ depth = 0
    /\ hash = FALSE
    /\ out = "none"
    /\ diagnosed = FALSE
    /\ swallowed = FALSE
    /\ consumedRest = FALSE
    /\ groups = << >>
    /\ wellFormed = TRUE

----------------------------------------------------------------------------
(* What a step produces, and the history of the line l it read.             *)

Produce(o) ==
    /\ out' = o
    /\ diagnosed' = (diagnosed \/ o = "diag")

Track(l) ==
    /\ consumedRest' = (consumedRest \/ mode' = "consume_all")
    /\ wellFormed' = (wellFormed /\ (diagnosed \/ Allowed(groups, l)))
    /\ groups' = IF wellFormed' /\ ~ diagnosed' THEN After(groups, l) ELSE << >>

(* next_cpp_token takes a line for what it is: always, when the # before it *)
(* has a word on its own line.                                              *)
Recognised == hash' = FALSE /\ UNCHANGED swallowed
Directive == ~ hash /\ Recognised

Push(state) ==
    /\ Len(nested_ifs) < MaxNested
    /\ nested_ifs' = Append(nested_ifs, state)

(* nested_ifs.last()                                                        *)
LastIf == IF Len(nested_ifs) = 0 THEN "None" ELSE nested_ifs[Len(nested_ifs)]

----------------------------------------------------------------------------
(* Lines read by PreProcessor::next, outside consume_directive.             *)

(* #if, #ifdef, #ifndef: if_directive                                       *)
TextIf(c) ==
    /\ mode = "text"
    /\ Directive
    /\ \/ /\ c = "true"
          /\ Push("If")
          /\ Produce("none")
          /\ UNCHANGED <<mode, depth>>
       \/ /\ c = "false"
          /\ mode' = "consume_if"
          /\ depth' = 1
          /\ Produce("none")
          /\ UNCHANGED nested_ifs
       \/ /\ c = "bad"
          /\ Produce("diag")
          /\ UNCHANGED <<nested_ifs, mode, depth>>
    /\ Track(Line("if", c))

(* #elif and #else alike: after a branch that was compiled the rest of the  *)
(* group is consumed; with no branch open, or after #else, they are         *)
(* diagnosed.                                                               *)
LeaveBranch ==
    /\ mode = "text"
    /\ Directive
    /\ \/ /\ LastIf \in {"If", "Elif"}
          /\ mode' = "consume_all"
          /\ depth' = 1
          /\ Produce("none")
       \/ /\ LastIf \in {"None", "Else"}
          /\ Produce("diag")
          /\ UNCHANGED <<mode, depth>>
    /\ UNCHANGED nested_ifs

TextElif(c) == LeaveBranch /\ Track(Line("elif", c))
TextElse == LeaveBranch /\ Track(Plain("else"))

TextEndIf ==
    /\ mode = "text"
    /\ Directive
    /\ \/ /\ Len(nested_ifs) > 0
          /\ nested_ifs' = Outer(nested_ifs)
          /\ Produce("none")
       \/ /\ Len(nested_ifs) = 0
          /\ UNCHANGED nested_ifs
          /\ Produce("diag")
    /\ UNCHANGED <<mode, depth>>
    /\ Track(Plain("endif"))

(* Text reaches the parser, another directive is obeyed, and a line         *)
(* next_cpp_token rejects is diagnosed.                                     *)
TextLine(k) ==
    /\ mode = "text"
    /\ Recognised
    /\ k = "define" => ~ hash
    /\ Produce(CASE k = "text" -> "token" [] k = "define" -> "none" [] OTHER -> "diag")
    /\ UNCHANGED <<nested_ifs, mode, depth>>
    /\ Track(Plain(k))

(* next returns None, whatever nested_ifs holds                             *)
TextEof ==
    /\ mode = "text"
    /\ Recognised
    /\ mode' = "eof"
    /\ Produce("none")
    /\ UNCHANGED <<nested_ifs, depth>>
    /\ Track(Plain("eof"))

----------------------------------------------------------------------------
(* Lines read by the loop of consume_directive.                             *)

Consuming == mode \in {"consume_if", "consume_all"}

(* Mutant: a nested #if is not counted.                                     *)
ConsumeIfUncounted(c) ==
    /\ Consuming
    /\ Directive
    /\ Produce("none")
    /\ UNCHANGED <<nested_ifs, mode, depth>>
    /\ Track(Line("if", c))

ConsumeIf(c) ==
    /\ Consuming
    /\ Directive
    /\ depth < MaxDepth
    /\ depth' = depth + 1
    /\ Produce("none")
    /\ UNCHANGED <<nested_ifs, mode>>
    /\ Track(Line("if", c))

ConsumeEndIf ==
    /\ Consuming
    /\ Directive
    /\ depth' = depth - 1
    /\ mode' = IF depth = 1 THEN "text" ELSE mode
    /\ Produce("none")
    /\ UNCHANGED nested_ifs
    /\ Track(Plain("endif"))

(* Mutant: the branch #elif begins is not recorded in nested_ifs.           *)
ConsumeElifUnrecorded(c) ==
    /\ Consuming
    /\ Directive
    /\ IF mode = "consume_if" /\ depth = 1 /\ c = "true"
       THEN mode' = "text" /\ depth' = 0
       ELSE UNCHANGED <<mode, depth>>
    /\ Produce("none")
    /\ UNCHANGED nested_ifs
    /\ Track(Line("elif", c))

(* Only consume_if at depth 1 looks at the condition; an error in it leaves *)
(* the loop, and the lines that follow are read as text.                    *)
ConsumeElif(c) ==
    /\ Consuming
    /\ Directive
    /\ \/ /\ mode = "consume_if" /\ depth = 1
          /\ \/ /\ c = "true"
                /\ Push("Elif")
                /\ mode' = "text"
                /\ depth' = 0
                /\ Produce("none")
             \/ /\ c = "false"
                /\ Produce("none")
                /\ UNCHANGED <<nested_ifs, mode, depth>>
             \/ /\ c = "bad"
                /\ mode' = "text"
                /\ depth' = 0
                /\ Produce("diag")
                /\ UNCHANGED nested_ifs
       \/ /\ mode = "consume_all" \/ depth > 1
          /\ Produce("none")
          /\ UNCHANGED <<nested_ifs, mode, depth>>
    /\ Track(Line("elif", c))

(* Mutant: the branch #else begins is recorded as one of #if.               *)
ConsumeElseAsIf ==
    /\ Consuming
    /\ Directive
    /\ IF mode = "consume_if" /\ depth = 1
       THEN Push("If") /\ mode' = "text" /\ depth' = 0
       ELSE UNCHANGED <<nested_ifs, mode, depth>>
    /\ Produce("none")
    /\ Track(Plain("else"))

ConsumeElse ==
    /\ Consuming
    /\ Directive
    /\ \/ /\ mode = "consume_if" /\ depth = 1
          /\ Push("Else")
          /\ mode' = "text"
          /\ depth' = 0
       \/ /\ mode = "consume_all" \/ depth > 1
          /\ UNCHANGED <<nested_ifs, mode, depth>>
    /\ Produce("none")
    /\ Track(Plain("else"))

ConsumeLine(k) ==
    /\ Consuming
    /\ Recognised
    /\ k = "define" => ~ hash
    /\ Produce("none")
    /\ UNCHANGED <<nested_ifs, mode, depth>>
    /\ Track(Plain(k))

(* UnterminatedIf, and the next call of next finds no line either           *)
ConsumeEof ==
    /\ Consuming
    /\ Recognised
    /\ mode' = "eof"
    /\ depth' = 0
    /\ Produce("diag")
    /\ UNCHANGED nested_ifs
    /\ Track(Plain("eof"))

----------------------------------------------------------------------------
(* The null directive, in either state.                                     *)

(* next_non_whitespace goes on to the next line for the directive's name.   *)
NullDirective ==
    /\ mode # "eof"
    /\ ~ hash
    /\ hash' = TRUE
    /\ Produce("none")
    /\ UNCHANGED <<nested_ifs, mode, depth, swallowed>>
    /\ Track(Plain("null"))

(* What it finds there is a token, also if it is the # of a directive: the  *)
(* directive is not seen, and in text its words reach the parser.           *)
Swallow(l) ==
    /\ mode # "eof"
    /\ hash
    /\ l.kind = "if" => Len(groups) < MaxNested
    /\ hash' = FALSE
    /\ swallowed' = TRUE
    /\ \/ mode = "text" /\ Produce("token")
       \/ mode = "text" /\ (l.cond = "bad" \/ l.kind = "invalid") /\ Produce("diag")
       \/ Consuming /\ Produce("none")
    /\ UNCHANGED <<nested_ifs, mode, depth>>
    /\ Track(l)

(* The iterator is exhausted.                                               *)
Finished == mode = "eof" /\ UNCHANGED vars

Next ==
    \/ \E c \in Conditions : \/ TextIf(c)
                             \/ TextElif(c)
                             \/ ConsumeIf(c)
                             \/ ConsumeElif(c)
    \/ \E k \in {"text", "define", "invalid"} : TextLine(k) \/ ConsumeLine(k)
    \/ \E l \in HashLines : Swallow(l)
    \/ NullDirective
    \/ TextElse
    \/ TextEndIf
    \/ TextEof
    \/ ConsumeElse
    \/ ConsumeEndIf
    \/ ConsumeEof
    \/ Finished

Spec == Init /\ [][Next]_vars

----------------------------------------------------------------------------
(* How the code's state follows the open groups of the file, as long as     *)
(* that file is clean.  Skipped lines start at group Base + 1: it is open,  *)
(* and the groups in it are dead.                                           *)

Base == Len(groups) - depth

TextAgrees ==
    mode = "text" =>
        /\ Compiled(groups)
        /\ Len(nested_ifs) >= Len(groups)

ConsumeAgrees ==
    Consuming =>
        /\ Base >= 0
        /\ \A i \in 1 .. Base : groups[i].status = "selected"
        /\ \A i \in Base + 2 .. Len(groups) : groups[i].status = "dead"
        /\ mode = "consume_if" => /\ groups[Base + 1] = Group("waiting", "if")
                                  /\ Len(nested_ifs) >= Base
        /\ mode = "consume_all" => /\ groups[Base + 1].status = "done"
                                   /\ Len(nested_ifs) > Base

(* Before consume_all is first entered, nested_ifs has exactly one entry    *)
(* per group that is being compiled.                                        *)
NestedMirrorsGroups ==
    ~ consumedRest =>
        /\ mode = "text" => Len(nested_ifs) = Len(groups)
        /\ mode = "consume_if" => Len(nested_ifs) = Base
        /\ mode # "consume_all"
        /\ mode # "eof" =>
             \A i \in 1 .. Len(nested_ifs) : nested_ifs[i] = "Else" <=> groups[i].branch = "else"

Inv ==
    /\ TypeOK
    /\ Consuming => depth > 0
    /\ mode = "text" => depth = 0
    /\ mode = "consume_all" => consumedRest
    /\ clean => TextAgrees /\ ConsumeAgrees /\ NestedMirrorsGroups

----------------------------------------------------------------------------
(* Properties.                                                              *)

Reference == INSTANCE ConditionalInclusion WITH clean <- clean

(* On a well-formed file, until a line is diagnosed or taken for text, the  *)
(* tokens that reach the parser are exactly those of the selected branches, *)
(* although nested_ifs keeps the entry of every group that ended in         *)
(* consume_all.                                                             *)
ImplementsReference == Reference!Spec

(* Until a taken branch is followed by #else or #elif for the first time, a *)
(* line is diagnosed exactly when it is not allowed where it stands, unless *)
(* it is swallowed behind a null directive, lies in a group nested in       *)
(* skipped lines, or is the end of the file read as text.                   *)
ExactUntilRestConsumed ==
    [][ /\ clean
        /\ ~ swallowed'
        /\ ~ consumedRest
        /\ mode = "text" \/ depth = 1
        /\ ~ TextEof
        => (diagnosed' <=> ~ wellFormed') ]_vars

(* A line that is allowed where it stands is never diagnosed, except that   *)
(* #else and #elif may be once some taken branch had an #else or #elif, and *)
(* any line once a directive was swallowed: the entries left in nested_ifs  *)
(* never make an #endif or a condition fail.                                *)
OnlyElseMisjudged ==
    [][ ~ diagnosed /\ diagnosed' /\ wellFormed' /\ ~ swallowed'
          => consumedRest /\ (TextElse \/ \E c \in Conditions : TextElif(c)) ]_vars

----------------------------------------------------------------------------
(* A statement of the source the code does not keep.                        *)

(* data/error.rs: UnexpectedElse is for an #else after #else or without     *)
(* #if, UnexpectedElif likewise.  So a well-formed file whose directives    *)
(* are all seen is never diagnosed.                                         *)
WellFormedAccepted == wellFormed /\ ~ swallowed => ~ diagnosed
=============================================================================
