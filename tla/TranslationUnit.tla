-------------------------- MODULE TranslationUnit --------------------------
(***************************************************************************)
(* File-scope declarations from the analyzer to the SIA32 object:          *)
(* declare() merges the declarations of a name (saltwater-parser,           *)
(* analyze/mod.rs), compile() picks the one declaration that stands for     *)
(* all of them, names its symbol and emits its definition (saltwater-sia,   *)
(* lib.rs).  A type is a model value, a body is the set of symbols it       *)
(* refers to.  Names are names other than main, whose signature is checked  *)
(* besides.                                                                *)
(***************************************************************************)
EXTENDS Naturals, Sequences

CONSTANTS Names,            \* file-scope identifiers
          Types,            \* pairwise different, complete, prototyped types
          Qualifiers,       \* the fields of FunctionQualifiers
          MaxDeclarations   \* bound on the length of a unit

ASSUME MaxAssumption == MaxDeclarations \in Nat

NoSymbol == 0               \* absent from a map; a Symbol is an index of unit

VARIABLES
    unit,          \* every Variable declared so far, with its initializer
    scope,         \* PureAnalyzer.scope: the newest symbol of each name
    initialized,   \* PureAnalyzer.initialized
    errors,        \* the diagnoses, [symbol, kind]
    pc,
    k,             \* the declaration a loop of compile() is at
    canonical,     \* compile()'s map from a name to one declaration
    artifact       \* [defined : sequence of [name, symbol], local : set of names]

analysis == <<unit, scope, initialized, errors>>
vars == <<unit, scope, initialized, errors, pc, k, canonical, artifact>>

Variable == [id : Names, kind : {"object", "function"}, type : Types,
             qualifiers : SUBSET Qualifiers,
             spec : {"none", "extern", "static", "typedef"},
             storage_class : {"Auto", "Extern", "Static", "Typedef"},
             init : BOOLEAN, uses : SUBSET (1..MaxDeclarations)]

Symbols == 1..Len(unit)
Of(n) == {s \in Symbols : unit[s].id = n}

Init ==
    /\ unit = << >> /\ initialized = {} /\ errors = {}
    /\ scope = [n \in Names |-> NoSymbol]
    /\ pc = "analyze" /\ k = 1
    /\ canonical = [n \in Names |-> NoSymbol]
    /\ artifact = [defined |-> << >>, local |-> {}]

----------------------------------------------------------------------------
(* The analyzer                                                             *)

Written(spec) == CASE spec = "none"    -> "Auto"
                   [] spec = "extern"  -> "Extern"
                   [] spec = "static"  -> "Static"
                   [] spec = "typedef" -> "Typedef"

(* existing == meta: Variables are equal.  No initializer is compared; const *)
(* and volatile count as part of the type.                                  *)
SameVariable(e, m) == /\ e.id = m.id /\ e.kind = m.kind /\ e.type = m.type
                      /\ e.storage_class = m.storage_class
                      /\ e.qualifiers = m.qualifiers

(* Mutants of Redeclares: the type is not compared; extern is no exception. *)
RedeclaresAnyType(e, m) ==
    \/ e.storage_class = m.storage_class
    \/ e.storage_class \in {"Static", "Auto"} /\ m.storage_class = "Extern"
    \/ e.storage_class = "Extern" /\ m.storage_class # "Static"
RedeclaresSame(e, m) == SameVariable(e, m)

Redeclares(e, m) ==
    \/ SameVariable(e, m)
    \/ e.storage_class \in {"Static", "Auto"} /\ m.storage_class = "Extern"
    \/ e.storage_class = "Extern" /\ m.storage_class # "Static"

Diagnosed(m) ==
    LET e == scope[m.id] IN
    IF e = NoSymbol THEN {}
    ELSE IF ~ Redeclares(unit[e], m) THEN {"IncompatibleRedeclaration"}
    ELSE IF m.init /\ e \in initialized THEN {"Redefinition"}
    ELSE {}

declare(m) ==
    /\ unit' = Append(unit, m)
    /\ scope' = [scope EXCEPT ![m.id] = Len(unit) + 1]
    /\ errors' = errors \cup {[symbol |-> Len(unit) + 1, kind |-> e] : e \in Diagnosed(m)}

Analyzing == /\ pc = "analyze" /\ Len(unit) < MaxDeclarations
             /\ UNCHANGED <<pc, k, canonical, artifact>>

(* One declarator of parse_declaration.  An initialized extern object is    *)
(* stored as if it had no specifier.                                        *)
DeclareObject ==
    /\ Analyzing
    /\ \E n \in Names, t \in Types, spec \in {"none", "extern", "static"}, i \in BOOLEAN :
          /\ declare([id |-> n, kind |-> "object", type |-> t, spec |-> spec,
                      storage_class |-> IF spec = "extern" /\ i THEN "Auto" ELSE Written(spec),
                      qualifiers |-> {}, init |-> i, uses |-> {}])
          /\ initialized' = IF i THEN initialized \cup {Len(unit) + 1} ELSE initialized

DeclareFunction ==
    /\ Analyzing
    /\ \E n \in Names, t \in Types, spec \in {"none", "extern", "static"}, q \in SUBSET Qualifiers :
          declare([id |-> n, kind |-> "function", type |-> t, spec |-> spec,
                   storage_class |-> Written(spec), qualifiers |-> q,
                   init |-> FALSE, uses |-> {}])
    /\ UNCHANGED initialized

DeclareTypedef ==
    /\ Analyzing
    /\ \E n \in Names, kind \in {"object", "function"}, t \in Types :
          declare([id |-> n, kind |-> kind, type |-> t, spec |-> "typedef",
                   storage_class |-> "Typedef", qualifiers |-> {}, init |-> FALSE, uses |-> {}])
    /\ UNCHANGED initialized

(* FunctionAnalyzer::analyze: the function is declared before its body is   *)
(* analyzed, and never joins initialized.                                   *)
DefineFunction ==
    /\ Analyzing
    /\ \E n \in Names, t \in Types, spec \in {"none", "extern", "static"}, q \in SUBSET Qualifiers :
       LET visible == {scope[m] : m \in Names \ {n}} \ {NoSymbol}
           usable  == {s \in visible : unit[s].storage_class # "Typedef"}
       IN  \E uses \in SUBSET (usable \cup {Len(unit) + 1}) :
              declare([id |-> n, kind |-> "function", type |-> t, spec |-> spec,
                       storage_class |-> IF spec = "static" THEN "Static" ELSE "Extern",
                       qualifiers |-> q, init |-> TRUE, uses |-> uses])
    /\ UNCHANGED initialized

(* check_semantics: one diagnosis refuses the program; otherwise compile()  *)
(* starts on its declarations.                                              *)
EndUnit ==
    /\ pc = "analyze" /\ unit # << >>
    /\ pc' = IF errors = {} THEN "canonicalize" ELSE "rejected"
    /\ UNCHANGED <<analysis, k, canonical, artifact>>

----------------------------------------------------------------------------
(* compile()                                                                *)

(* Mutant of Preferred: an initializer gives no precedence.                 *)
PreferredByStorage(s) ==
    LET c == canonical[unit[s].id] IN
    \/ c = NoSymbol
    \/ unit[s].storage_class # "Extern" /\ unit[c].storage_class = "Extern"

Preferred(s) ==
    LET c == canonical[unit[s].id] IN
    \/ c = NoSymbol
    \/ unit[s].init
    \/ unit[s].storage_class # "Extern" /\ unit[c].storage_class = "Extern"

Canonicalize ==
    /\ pc = "canonicalize" /\ k \in Symbols
    /\ canonical' = IF unit[k].storage_class # "Typedef" /\ Preferred(k)
                    THEN [canonical EXCEPT ![unit[k].id] = k] ELSE canonical
    /\ pc' = IF k < Len(unit) THEN pc ELSE "emit"
    /\ k' = IF k < Len(unit) THEN k + 1 ELSE 1
    /\ UNCHANGED <<analysis, artifact>>

(* Mutant of SymbolName: every declaration keeps a name of its own.         *)
OwnSymbolName(s) == [id |-> unit[s].id, static |-> unit[s].storage_class = "Static"]

(* translation_unit_symbol_name of the declaration that stands for s.       *)
SymbolName(s) == [id |-> unit[s].id,
                  static |-> unit[canonical[unit[s].id]].storage_class = "Static"]

HasName(s) == canonical[unit[s].id] # NoSymbol

IsDefinition(d) == \/ d.kind = "function" /\ d.init
                   \/ d.kind = "object" /\ (d.storage_class # "Extern" \/ d.init)

Emit ==
    /\ pc = "emit" /\ k \in Symbols
    /\ artifact' =
          IF /\ unit[k].storage_class # "Typedef"
             /\ canonical[unit[k].id] = k
             /\ IsDefinition(unit[k])
          THEN [artifact EXCEPT !.defined = Append(@, [name |-> SymbolName(k), symbol |-> k])]
          ELSE artifact
    /\ pc' = IF k < Len(unit) THEN pc ELSE "bind"
    /\ k' = IF k < Len(unit) THEN k + 1 ELSE 1
    /\ UNCHANGED <<analysis, canonical>>

Emitted == {artifact.defined[i].symbol : i \in DOMAIN artifact.defined}
Defined == {artifact.defined[i].name : i \in DOMAIN artifact.defined}
Referenced == {SymbolName(u) : u \in UNION {unit[s].uses : s \in Emitted}}
(* Mutant of LocalSymbols: only the declaration that is emitted is asked.   *)
EmittedLocalSymbols == {SymbolName(s) : s \in {t \in Emitted : unit[t].storage_class = "Static"}}
LocalSymbols == {SymbolName(s) : s \in {t \in Symbols : unit[t].storage_class = "Static" /\ HasName(t)}}

(* An object with no definition, or one that refers to a static that it     *)
(* does not define, is refused.                                             *)
Bind ==
    /\ pc = "bind"
    /\ IF Defined = {} \/ (Referenced \cap LocalSymbols) \ Defined # {}
       THEN /\ pc' = "refused"
            /\ UNCHANGED artifact
       ELSE /\ pc' = "done"
            /\ artifact' = [artifact EXCEPT !.local = LocalSymbols \cap Defined]
    /\ UNCHANGED <<analysis, k, canonical>>

Next == \/ DeclareObject \/ DeclareFunction \/ DeclareTypedef \/ DefineFunction
        \/ EndUnit \/ Canonicalize \/ Emit \/ Bind

Spec == Init /\ [][Next]_vars

----------------------------------------------------------------------------
(* What C requires of the declarations of one name (C11 6.2.2, 6.7, 6.9)    *)

UpTo(n, s) == {t \in Of(n) : t <= s}
Before(s) == {t \in Of(unit[s].id) : t < s}
Latest(S) == CHOOSE s \in S : \A t \in S : t <= s

SameEntity(s, t) == /\ unit[s].kind = unit[t].kind /\ unit[s].type = unit[t].type
                    /\ unit[s].spec = "typedef" <=> unit[t].spec = "typedef"

(* The first declaration settles the linkage.                               *)
Internal(n) == \E s \in Of(n) : unit[s].spec = "static" /\ Before(s) = {}
KeepsLinkage(s) ==
    CASE unit[s].spec = "static"  -> Internal(unit[s].id)
      [] unit[s].spec = "none"    -> unit[s].kind = "object" => ~ Internal(unit[s].id)
      [] OTHER                    -> TRUE

Valid(S) == /\ \A s, t \in S : SameEntity(s, t)
            /\ \A s \in S : KeepsLinkage(s)
            /\ \A s, t \in S : unit[s].init /\ unit[t].init => s = t

UnitIsValid == \A n \in Names : Valid(Of(n))
Accepted == pc \notin {"analyze", "rejected"}
Compiled == pc \in {"done", "refused"}

(* The declarations after which compile() takes a body for replaced.        *)
Displaces(t, s) == /\ unit[s].id = unit[t].id /\ s < t
                   /\ unit[s].storage_class = "Extern" /\ unit[t].storage_class = "Auto"

----------------------------------------------------------------------------
(* Properties                                                               *)

(* Every variable has its type.                                             *)
TypeOK ==
    /\ unit \in Seq(Variable) /\ Len(unit) <= MaxDeclarations
    /\ scope \in [Names -> 0..Len(unit)] /\ canonical \in [Names -> 0..Len(unit)]
    /\ initialized \subseteq Symbols
    /\ errors \subseteq [symbol : Symbols, kind : {"IncompatibleRedeclaration", "Redefinition"}]
    /\ pc \in {"analyze", "canonicalize", "emit", "bind", "done", "refused", "rejected"}
    /\ k \in Nat
    /\ artifact \in [defined : Seq([name : [id : Names, static : BOOLEAN], symbol : Symbols]),
                     local : SUBSET Defined]

(* declare() compares a declaration with its predecessor only.  A unit that *)
(* passes is valid C unless the predecessor hid the conflict: one of the two  *)
(* is extern, or the predecessor had no initializer of its own to be seen.  *)
ConflictsHiddenOnlyByPredecessor ==
    Accepted => \A n \in Names :
       \/ Valid(Of(n))
       \/ \E t \in Of(n) : Before(t) # {} /\
             LET e == Latest(Before(t)) IN
             \/ "Extern" \in {unit[e].storage_class, unit[t].storage_class}
             \/ unit[t].init /\ e \notin initialized

(* A declaration that is valid after the valid ones before it is diagnosed  *)
(* only when it repeats a static name without extern, or the reverse, or    *)
(* when it repeats a function that is not extern with another inline or     *)
(* _Noreturn.                                                               *)
ValidDiagnosedOnlyForSpecifiers ==
    \A e \in errors :
       Valid(UpTo(unit[e.symbol].id, e.symbol)) =>
          LET p == unit[Latest(Before(e.symbol))]
              s == unit[e.symbol]
          IN  /\ e.kind = "IncompatibleRedeclaration"
              /\ \/ {p.storage_class, s.storage_class} \in {{"Static", "Auto"}, {"Static", "Extern"}}
                 \/ /\ p.storage_class = s.storage_class /\ s.storage_class # "Extern"
                    /\ p.qualifiers # s.qualifiers

(* The object of a valid name is defined exactly when some declaration      *)
(* defines it, tentatively or not, from its initializer when it has one;    *)
(* a body is kept unless a later declaration displaces it.                  *)
DefinitionsSurvive ==
    Compiled => \A n \in Names : Valid(Of(n)) =>
       /\ \A s \in Of(n) : unit[s].init =>
             (s \in Emitted) # (\E t \in Of(n) : Displaces(t, s) /\ unit[t].kind = "function")
       /\ (\E s \in Of(n) \cap Emitted : unit[s].kind = "object") <=>
             \E s \in Of(n) : unit[s].kind = "object" /\ unit[s].storage_class \in {"Auto", "Static"}

(* One symbol per name, whose binding is the linkage C gives the name, even *)
(* when the declaration that is emitted does not say static.                *)
BindingIsLinkage ==
    Compiled =>
       /\ \A i, j \in DOMAIN artifact.defined :
             artifact.defined[i].name.id = artifact.defined[j].name.id => i = j
       /\ pc = "done" =>
             \A d \in Defined : Valid(Of(d.id)) => (d \in artifact.local <=> Internal(d.id))

(* The object of a valid unit leaves no use of a static name to the linker, *)
(* and the unit is refused only if it defines nothing, uses a static that   *)
(* it does not define, or a body was displaced.                             *)
StaticsResolvedHere ==
    UnitIsValid =>
       /\ pc = "done" => \A r \in Referenced : Internal(r.id) => r \in Defined
       /\ pc = "refused" =>
             \/ \A s \in Symbols : ~ IsDefinition(unit[s]) \/ unit[s].spec = "typedef"
             \/ \E s, t \in Symbols : unit[s].init /\ Displaces(t, s)
             \/ \E s \in Symbols : \E u \in unit[s].uses :
                   Internal(unit[u].id) /\ \A d \in Of(unit[u].id) : ~ IsDefinition(unit[d])

----------------------------------------------------------------------------
(* A statement of the source the code does not keep                         *)

(* "All declarations of a translation-unit identifier denote one object.    *)
(* Prefer its initialized definition to a tentative declaration."           *)
BodiesSurvive ==
    Compiled /\ UnitIsValid => \A s \in Symbols : unit[s].init => s \in Emitted

============================================================================
