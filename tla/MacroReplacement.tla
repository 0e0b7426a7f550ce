-------------------------- MODULE MacroReplacement --------------------------
(***************************************************************************)
(* Macro replacement as saltwater-parser does it (lex/replace.rs, driven by *)
(* PreProcessor::handle_token in lex/cpp.rs).  An engine (replace_boxed)    *)
(* keeps a queue of pending tokens, each with the names that are disabled   *)
(* for it, in front of the tokens still to be read.  Substituting the body  *)
(* of a function macro (replace_function) runs a nested engine for every    *)
(* argument, so the engines form a stack.                                   *)
(***************************************************************************)
EXTENDS MacroTokens

CONSTANT Programs   \* records of a set of definitions and a set of texts

Valid == Names \cup Range(Joined) \cup {"(", ")", ",", "1", "#", "string", Space}
Tokens == Valid \cup Errors
EndOfFile == "end of file"

IsDefinition(m) ==
    \/ m = Undefined
    \/ m \in [kind : {"object"}, body : Seq(Valid)]
    \/ /\ m \in [kind : {"function"}, params : Seq(Names), variadic : BOOLEAN, body : Seq(Valid)]
       /\ m.variadic => m.params # << >>      \* __VA_ARGS__ is one

(* An error is not a token, and only the file has lexical errors.           *)
Assumption ==
    /\ Errors \cap (Valid \cup {EndOfFile}) = {} /\ Refused \notin Invalid
    /\ \A p \in Programs :
          /\ \A d \in p.definitions : /\ DOMAIN d = Names
                                      /\ \A n \in Names : IsDefinition(d[n])
          /\ p.text \subseteq Seq(Valid \cup Invalid)
ASSUME MacroReplacementAssumption == Assumption

VARIABLES
    definitions,    \* [Names -> definition]
    text,           \* the tokens of the file
    stack,          \* the engines, the one that runs last
    panicked        \* an assertion failed

vars == <<definitions, text, stack, panicked>>

Hidden(tokens, hide) == [i \in DOMAIN tokens |-> [token |-> tokens[i], hide |-> hide]]
Spelled(queue) == [i \in DOMAIN queue |-> queue[i].token]

(* disabled: what every token read from inner starts with.  call: the body  *)
(* that is being substituted, if any.                                       *)
NoCall == [name |-> "none"]
Engine(tokens, disabled) ==
    [pending |-> << >>, inner |-> tokens, disabled |-> disabled,
     replacements |-> << >>, call |-> NoCall]

Init ==
    /\ \E p \in Programs : definitions \in p.definitions /\ text \in p.text
    /\ stack = <<Engine(text, {})>>
    /\ panicked = FALSE

top == Last(stack)
Run(engine) ==
    /\ stack' = Append(Front(stack), engine)
    /\ UNCHANGED <<definitions, text, panicked>>

Drained(e) == e.call = NoCall /\ e.pending \o e.inner = << >>
Ended == panicked \/ (Len(stack) = 1 /\ Drained(top))

(* The engine that runs is at a token, which is a macro of this kind to it. *)
At(kind) ==
    /\ ~ panicked /\ top.call = NoCall /\ top.pending # << >>
    /\ LET t == Head(top.pending)
       IN  kind = IF t.token \in Names \ t.hide THEN definitions[t.token].kind ELSE "none"

----------------------------------------------------------------------------
(* replace_boxed.                                                           *)

Take ==
    /\ ~ panicked /\ top.call = NoCall /\ top.pending = << >> /\ top.inner # << >>
    /\ Run([top EXCEPT !.pending = Hidden(<<Head(top.inner)>>, top.disabled), !.inner = Tail(@)])

Deliver ==
    /\ At("none")
    /\ Run([top EXCEPT !.pending = Tail(@), !.replacements = Append(@, Head(top.pending).token)])

(* Mutant of ReplaceObject: the name stays enabled in the body.             *)
ReplaceObjectUnmarked ==
    /\ At("object")
    /\ LET t == Head(top.pending)
       IN  Run([top EXCEPT !.pending = Hidden(definitions[t.token].body, t.hide) \o Tail(@)])

ReplaceObject ==
    /\ At("object")
    /\ LET t == Head(top.pending)
       IN  Run([top EXCEPT !.pending = Hidden(definitions[t.token].body, t.hide \cup {t.token}) \o Tail(@)])

(* Mutant of Requeued: what follows the call inherits its disabled names.   *)
RequeuedInheriting(e, name, hide, tokens) ==
    IF IsAt(tokens, 1, name)
    THEN [e EXCEPT !.call = NoCall, !.replacements = @ \o tokens]
    ELSE [e EXCEPT !.call = NoCall, !.pending = Hidden(tokens \o Spelled(@), hide)]

(* What a function macro gave goes back to the queue, unless it begins with *)
(* the name of the macro.                                                   *)
Requeued(e, name, hide, tokens) ==
    IF IsAt(tokens, 1, name)
    THEN [e EXCEPT !.call = NoCall, !.replacements = @ \o tokens]
    ELSE [e EXCEPT !.call = NoCall, !.pending = Hidden(tokens, hide) \o @]

----------------------------------------------------------------------------
(* replace_function first reads the call, token by token.                   *)

NextToken == IF top.pending # << >> THEN Head(top.pending).token
             ELSE IF top.inner # << >> THEN Head(top.inner) ELSE EndOfFile

(* The queue goes first.  closing: the names disabled for the last token    *)
(* that came from it, if that is a ")".                                     *)
Read(e) ==
    IF e.pending # << >>
    THEN LET t == Head(e.pending)
         IN  [e EXCEPT !.pending = Tail(@), !.call.closing = IF t.token = ")" THEN t.hide ELSE {}]
    ELSE [e EXCEPT !.inner = Tail(@)]

(* The invocation ends with these tokens.                                   *)
Reply(e, tokens) ==
    Run(Requeued(e, e.call.name, (e.call.disabled \cap e.call.closing) \cup {e.call.name}, tokens))

BeginCall ==
    /\ At("function")
    /\ LET t == Head(top.pending)
       IN  Run([top EXCEPT !.pending = Tail(@),
                           !.call = [phase |-> "name", name |-> t.token, disabled |-> t.hide,
                                     closing |-> {}, errors |-> << >>, args |-> << >>,
                                     current |-> << >>, nesting |-> 1, omitted |-> FALSE,
                                     at |-> 1, out |-> << >>]])

call == top.call
Calling(phase) == ~ panicked /\ call # NoCall /\ call.phase = phase
Opened(e) == [e EXCEPT !.call.phase = "arguments"]

(* Mutant of SkipError: the error is forgotten.                             *)
ForgetError ==
    /\ Calling("name") \/ Calling("arguments")
    /\ NextToken \in Errors
    /\ Run(Read(top))

(* Mutant of SkipError: the newest error comes first.                       *)
SkipErrorFirst ==
    /\ Calling("name") \/ Calling("arguments")
    /\ NextToken \in Errors
    /\ Run([Read(top) EXCEPT !.call.errors = <<NextToken>> \o @])

SkipError ==
    /\ Calling("name") \/ Calling("arguments")
    /\ NextToken \in Errors
    /\ Run([Read(top) EXCEPT !.call.errors = Append(@, NextToken)])

Open ==
    /\ Calling("name") /\ NextToken = "("
    /\ Run(Opened(Read(top)))

(* One space may stand between the name and the parenthesis.                *)
OpenAfterSpace ==
    /\ Calling("name") /\ NextToken = Space
    /\ LET e     == Read(top)
           after == IF e.pending # << >> THEN Head(e.pending).token
                    ELSE IF e.inner # << >> THEN Head(e.inner) ELSE EndOfFile
       IN  IF after = "(" THEN Run(Opened(Read(e)))
           ELSE Reply(e, call.errors \o <<call.name, Space>>)

(* The name alone, with the token that shows that it is alone.              *)
NotACall ==
    /\ Calling("name") /\ NextToken \notin Errors \cup {"(", Space}
    /\ IF NextToken = EndOfFile THEN Reply(top, Append(call.errors, call.name))
       ELSE Reply(Read(top), call.errors \o <<call.name, NextToken>>)

Stripped(a) ==
    LET b == IF a # << >> /\ Last(a) = Space THEN Front(a) ELSE a
    IN  IF b # << >> /\ Head(b) = Space THEN Tail(b) ELSE b

(* The two assertions of strip_whitespace.                                  *)
StripPanics(a) ==
    LET b == IF a # << >> /\ Last(a) = Space THEN Front(a) ELSE a
    IN  \/ b # << >> /\ Last(b) = Space
        \/ Stripped(a) # << >> /\ Head(Stripped(a)) = Space

WithCommas(parts) ==
    FlattenSeq([i \in DOMAIN parts |-> IF i = 1 THEN parts[1] ELSE <<",">> \o parts[i]])

(* The arguments after the last fixed one are a single, variadic argument.  *)
Collected(m, args) ==
    IF ~ m.variadic THEN args
    ELSE LET fixed == Len(m.params) - 1
         IN  Append(SubSeq(args, 1, fixed), WithCommas(SubSeq(args, fixed + 1, Len(args))))

MatchesParameters(m, args) ==
    IF m.variadic THEN Len(args) >= Len(m.params) - 1
    ELSE Len(args) = Len(m.params) \/ (m.params = << >> /\ args = <<<< >>>>)

(* A "," or the last ")" ends an argument; the last one begins the          *)
(* substitution, or refuses the call.  The refusal is all that the call     *)
(* gives then: the lexical errors it has collected are dropped.             *)
EndArgument ==
    /\ Calling("arguments") /\ NextToken \in {",", ")"} /\ call.nesting = 1
    /\ LET m    == definitions[call.name]
           e    == Read(top)
           args == Append(call.args, Stripped(call.current))
       IN  IF StripPanics(call.current)
           THEN panicked' = TRUE /\ UNCHANGED <<definitions, text, stack>>
           ELSE IF NextToken = ","
           THEN Run([e EXCEPT !.call.args = args, !.call.current = << >>])
           ELSE IF MatchesParameters(m, args)
           THEN Run([e EXCEPT !.call.args = Collected(m, args), !.call.phase = "body",
                              !.call.omitted = m.variadic /\ Len(args) < Len(m.params)])
           ELSE Reply(e, <<Refused>>)

ReadArgument ==
    /\ Calling("arguments")
    /\ NextToken \notin Errors \cup {EndOfFile}
    /\ ~ (NextToken \in {",", ")"} /\ call.nesting = 1)
    /\ Run([Read(top) EXCEPT
               !.call.current = Append(@, NextToken),
               !.call.nesting = @ + (CASE NextToken = "(" -> 1 [] NextToken = ")" -> -1 [] OTHER -> 0)])

(* The file ends inside the arguments.                                      *)
Unterminated ==
    /\ Calling("arguments") /\ NextToken = EndOfFile
    /\ Reply(top, call.errors)

----------------------------------------------------------------------------
(* Then it substitutes in the body of the macro, one token of it at a time. *)

TrimmedRight(s) ==
    LET n == CHOOSE n \in 0..Len(s) : /\ n > 0 => s[n] # Space
                                      /\ \A i \in (n + 1)..Len(s) : s[i] = Space
    IN  SubSeq(s, 1, n)

(* l pasted with all tokens of the operand, one after the other.            *)
PastedAll(l, operand) ==
    LET pasted[n \in 0..Len(operand)] ==
            IF n = 0 THEN l ELSE Pasted(pasted[n - 1], operand[n])
    IN  pasted[Len(operand)]

macro == definitions[call.name]
body == macro.body
Substituting == Calling("body") /\ call.at <= Len(body)

Operand(t) == IF IsParameter(macro, t) THEN call.args[Position(macro, t)] ELSE <<t>>
IsPaste(i) == IsAt(body, i, "#") /\ IsAt(body, Solid(body, i + 1), "#")

Emit(at, kept, tokens) ==
    Run([top EXCEPT !.call.at = at, !.call.out = kept \o tokens])
HashError == Reply(top, <<Refused>>)

(* `##`: the token before it and all tokens of the operand after it.        *)
Paste ==
    /\ Substituting /\ IsPaste(call.at)
    /\ LET right   == Solid(body, Solid(body, call.at + 1) + 1)
           left    == TrimmedRight(call.out)
           operand == Operand(body[right])
           joined  == PastedAll(Last(left), operand)
           chained == Solid(body, right + 1)
       IN  IF right > Len(body) THEN HashError
           ELSE IF macro.variadic /\ body[right] = Last(macro.params) /\ IsAt(left, Len(left), ",")
           THEN Emit(right + 1, IF call.omitted THEN Front(left) ELSE left, operand)
           ELSE IF operand = << >> THEN Emit(right + 1, left, << >>)
           ELSE IF left = << >> THEN HashError
           ELSE IF joined = Refused THEN HashError
           ELSE Emit(IF IsAt(body, chained, "#") THEN chained ELSE right + 1, Front(left), <<joined>>)

(* `#` before a parameter.                                                  *)
Stringify ==
    /\ Substituting /\ body[call.at] = "#" /\ ~ IsPaste(call.at)
    /\ LET parameter == Solid(body, call.at + 1)
       IN  IF parameter \in DOMAIN body /\ IsParameter(macro, body[parameter])
           THEN Emit(parameter + 1, call.out, <<"string">>)
           ELSE HashError

BeforePaste == body[call.at] \in Names /\ IsPaste(Solid(body, call.at + 1))

(* The left operand of `##`, and a token that stands for itself.            *)
Copy ==
    /\ Substituting /\ body[call.at] # "#"
    /\ \/ /\ BeforePaste
          /\ Emit(Solid(body, call.at + 1), TrimmedRight(call.out \o Operand(body[call.at])), << >>)
       \/ /\ ~ BeforePaste /\ ~ IsParameter(macro, body[call.at])
          /\ Emit(call.at + 1, call.out, <<body[call.at]>>)

(* Any other parameter: an engine replaces the argument on its own.         *)
Prescan ==
    /\ Substituting /\ ~ BeforePaste /\ IsParameter(macro, body[call.at])
    /\ stack' = Append(stack, Engine(Operand(body[call.at]), call.disabled))
    /\ UNCHANGED <<definitions, text, panicked>>

Sifted(s, errors) ==
    FlattenSeq([i \in DOMAIN s |-> IF (s[i] \in Errors) = errors THEN <<s[i]>> ELSE << >>])

Prescanned ==
    /\ ~ panicked /\ Len(stack) > 1 /\ Drained(top)
    /\ LET outer == stack[Len(stack) - 1]
       IN  stack' = Append(Front(Front(stack)),
                      [outer EXCEPT !.call.at = @ + 1,
                                    !.call.out = @ \o Sifted(top.replacements, FALSE),
                                    !.call.errors = @ \o Sifted(top.replacements, TRUE)])
    /\ UNCHANGED <<definitions, text, panicked>>

EndCall ==
    /\ Calling("body") /\ call.at > Len(body)
    /\ Reply(top, call.errors \o call.out)

----------------------------------------------------------------------------
Next ==
    \/ Take \/ Deliver \/ ReplaceObject
    \/ BeginCall \/ SkipError \/ Open \/ OpenAfterSpace \/ NotACall
    \/ EndArgument \/ ReadArgument \/ Unterminated
    \/ Paste \/ Stringify \/ Copy \/ Prescan \/ Prescanned \/ EndCall

(* The parser asks for tokens until the file ends.                          *)
Spec == Init /\ [][Next]_vars /\ WF_vars(Next)

----------------------------------------------------------------------------
(* The state of replace_function and of replace_boxed.                      *)
Calls ==
    [phase : {"name", "arguments", "body"}, name : Names, disabled : SUBSET Names,
     closing : SUBSET Names, errors : Seq(Errors), args : Seq(Seq(Tokens)),
     current : Seq(Tokens), nesting : Nat \ {0}, omitted : BOOLEAN,
     at : Nat \ {0}, out : Seq(Tokens)]

Engines ==
    [pending : Seq([token : Tokens, hide : SUBSET Names]), inner : Seq(Tokens),
     disabled : SUBSET Names, replacements : Seq(Tokens), call : {NoCall} \cup Calls]

(* Every variable has its type, and every engine but the last is in a call. *)
TypeOK ==
    /\ \E p \in Programs : definitions \in p.definitions /\ text \in p.text
    /\ panicked \in BOOLEAN
    /\ stack \in Seq(Engines) /\ stack # << >>
    /\ \A i \in 1..(Len(stack) - 1) : stack[i].call # NoCall

(* A lexical error in the file is delivered, also from inside a call whose  *)
(* macro does not use the argument.  It is lost only with a call that is    *)
(* refused, for its arguments or for a # or ##, and then some refusal is    *)
(* delivered: a file with errors is never replaced without one.             *)
ErrorsReported ==
    Ended /\ ~ panicked =>
        \A e \in Range(text) \cap Invalid :
            {e, Refused} \cap Range(stack[1].replacements) # {}

(* When no call is refused, the errors delivered are those of the file, each*)
(* as often as it is there and in its order, however calls put them aside   *)
(* and give them back to the queue.                                         *)
ErrorsInOrder ==
    Ended /\ ~ panicked /\ Refused \notin Range(stack[1].replacements)
    => Sifted(stack[1].replacements, TRUE) = Sifted(text, TRUE)

(* No definitions, however they refer to each other, keep it going for ever.*)
Terminates == <>Ended
=============================================================================
