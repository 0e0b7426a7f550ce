---------------------------- MODULE MCStaticLink ----------------------------
(* Three families of command lines for StaticLink: links that need archives,*)
(* merges of up to three objects whose external names include the spellings *)
(* that scoping generates for x, and relocation graphs of one object.       *)
EXTENDS StaticLink, SequencesExt

MCName == STRING
MCEntry == "main"

MCScoped(ordinal, n, j) ==
    "@tu" \o ToString(ordinal) \o ":" \o n \o (IF j = 0 THEN "" ELSE IF j = 1 THEN "@" ELSE "@@")

Reference(offset, target) == [offset |-> offset, target |-> target, addend |-> 0]

Definition(name, relocations) ==
    [name |-> name, size |-> 8, align |-> 4, zero |-> FALSE, readOnly |-> TRUE,
     relocations |-> relocations]

(* Relocations to at most two targets.                                      *)
To(targets) ==
    CASE Len(targets) = 0 -> << >>
      [] Len(targets) = 1 -> <<Reference(0, targets[1])>>
      [] Len(targets) = 2 -> <<Reference(0, targets[1]), Reference(4, targets[2])>>
Function(name, targets) == Definition(name, To(targets))

Object(version, locals, functions, data) ==
    [version |-> version, locals |-> locals, functions |-> functions, data |-> data]

Alone(objects_) == [explicit |-> objects_, archives |-> << >>]

(* One object that needs one or two names, an archive of up to three        *)
(* members, a second archive, and the first archive once more; or archives  *)
(* alone, with or without the entry.                                        *)
Unit(name, targets) == Object(4, {}, <<Function(name, targets)>>, << >>)

MemberObjects ==
    {Unit("f", <<"g">>), Unit("g", <<"h">>), Unit("h", <<"f">>), Unit("h", << >>),
     Object(4, {"g"}, <<Function("f", <<"g">>), Function("g", <<"h">>)>>, << >>),
     Object(4, {}, <<Function("g", << >>), Function("f", << >>)>>, << >>)}

Explicit ==
    {<<Unit("main", <<"f">>)>>, <<Unit("main", <<"g", "h">>)>>,
     <<Unit("h", << >>), Unit("main", <<"h">>)>>,
     <<Object(3, {}, <<Function("main", <<"f">>)>>, << >>)>>}

WithArchives ==
    {[explicit |-> e, archives |-> <<a, b, a>>] :
        e \in Explicit, a \in SeqOf(MemberObjects, 3) \ {<< >>}, b \in SeqOf(MemberObjects, 1)}
    \cup {[explicit |-> << >>, archives |-> <<a \o <<m>>>>] :
             m \in MemberObjects \cup {Unit("main", <<"g">>)}, a \in SeqOf(MemberObjects, 2)}

(* One, two and three objects with private names.                           *)
Wanted == {<< >>, <<"x">>, <<"@tu0:x">>, <<"@tu1:x">>}
Constant(name) == Function(name, << >>)

Scopes ==
    {Object(4, l, f[t], d) :
        l \in SUBSET {"x", "x@"},
        f \in {[t \in Wanted |-> <<Function("main", t)>>], [t \in Wanted |-> <<Function("x", t)>>],
               [t \in Wanted |-> <<Function("x", t), Function("main", t)>>]},
        d \in {<< >>, <<Constant("@tu0:x")>>, <<Constant("x@")>>, <<Constant("@tu0:x"), Constant("x@")>>},
        t \in Wanted}
    \cup {Object(3, {}, <<Function("main", << >>)>>, << >>)}

Sound == {o \in Scopes : o.locals \subseteq Symbols(o)}
Medium == {o \in Sound : Len(o.data) <= 1 /\ Named(o.functions) # {"x"}}
Small == {o \in Sound : Len(o.functions) = 1 /\ o.data = << >>}

Merges ==
    {<<a>> : a \in Scopes}
    \cup {<<a, b>> : a \in Sound, b \in Medium}
    \cup {<<a, b, c>> : a \in Small, b \in Small, c \in Small}

(* Three definitions and a name none defines, with all ways for the first   *)
(* two to refer to them, and relocations that do not fit.                   *)
Names == {"main", "f", "table", "missing"}
References == {<< >>} \cup {<<m>> : m \in Names} \cup (Names \X Names)

Graph(first, second, third, locals) ==
    <<Object(4, locals, <<Definition("f", first), Definition("main", second)>>,
             <<Definition("table", third)>>)>>

Bad == {<<Reference(6, "main")>>, <<Reference(4, "f"), Reference(2, "f")>>}

Graphs ==
    {Graph(To(f), To(m), t, l) :
        f \in References, m \in References,
        t \in {<< >>, <<Reference(4, "f")>>, <<Reference(0, "table"), Reference(4, "main")>>},
        l \in {{}, {"f", "table"}}}
    \cup {Graph(f, m, << >>, {}) : f \in Bad, m \in {<< >>, <<Reference(0, "f")>>}}

MCInputs == {<< >>} \cup Explicit \cup Merges \cup Graphs
MCCommandLines == WithArchives \cup {Alone(o) : o \in Merges \cup Graphs}
=============================================================================
