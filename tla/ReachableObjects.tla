--------------------------- MODULE ReachableObjects ---------------------------
(* Artifact::link_reachable_images (saltwater-sia/image.rs), the linker's   *)
(* --gc-sections: of the merged artifact, the entry and what its            *)
(* relocations lead to are kept.  A step pops one name of the worklist.     *)
EXTENDS ObjectMerge

VARIABLES
    kept,      \* what goes to link_image: of merged, its live part
    live,      \* names found reachable
    pending,   \* the worklist
    gc         \* "wait", "mark", "swept" or "failed"

gcVars == <<kept, live, pending, gc>>

GcInit ==
    /\ kept = Empty
    /\ live = {}
    /\ pending = {Entry}
    /\ gc = "wait"

----------------------------------------------------------------------------
DefinitionsOf(o) ==
    {o.functions[i] : i \in 1..Len(o.functions)} \cup {o.data[i] : i \in 1..Len(o.data)}

(* Relocations are checked in every input, also in what will be dropped.    *)
WellShaped(d) ==
    /\ \A i \in DOMAIN d.relocations : d.relocations[i].offset + 4 <= d.size
    /\ \A i, j \in DOMAIN d.relocations :
          i # j => \/ d.relocations[i].offset + 4 <= d.relocations[j].offset
                   \/ d.relocations[j].offset + 4 <= d.relocations[i].offset

CheckShapes ==
    /\ pc = "merged" /\ gc = "wait"
    /\ gc' = IF \A i \in 1..Len(objects) : \A d \in DefinitionsOf(objects[i]) : WellShaped(d)
             THEN "mark" ELSE "failed"
    /\ UNCHANGED <<kept, live, pending>>

(* The keys of dependencies, and the targets under one of them.             *)
Known == {d.name : d \in DefinitionsOf(merged)}

(* With the first relocation of each definition only.                       *)
FirstEdge(n) ==
    {d.relocations[1].target :
        d \in {e \in DefinitionsOf(merged) : e.name = n /\ e.relocations # << >>}}

Edges(n) ==
    UNION {{d.relocations[i].target : i \in DOMAIN d.relocations} :
              d \in {e \in DefinitionsOf(merged) : e.name = n}}

Marking == gc = "mark"

SkipLive ==
    /\ Marking
    /\ \E n \in pending \cap live : pending' = pending \ {n}
    /\ UNCHANGED <<kept, live, gc>>

(* Without the test whether n was live already.                             *)
MarkAgain ==
    /\ Marking
    /\ \E n \in pending \cap Known :
          /\ live' = live \cup {n}
          /\ pending' = (pending \ {n}) \cup Edges(n)
    /\ UNCHANGED <<kept, gc>>

Mark ==
    /\ Marking
    /\ \E n \in (pending \cap Known) \ live :
          /\ live' = live \cup {n}
          /\ pending' = (pending \ {n}) \cup Edges(n)
    /\ UNCHANGED <<kept, gc>>

(* Before the worklist: any missing symbol is an error.                     *)
RefuseUnresolved ==
    /\ Marking
    /\ \E n \in UNION {Edges(m) : m \in Known} : n \notin Known
    /\ gc' = "failed"
    /\ UNCHANGED <<kept, live, pending>>

RefuseMissing ==
    /\ Marking
    /\ \E n \in pending \ (Known \cup live) : live' = live \cup {n}
    /\ gc' = "failed"
    /\ UNCHANGED <<kept, pending>>

(* functions.retain and data.retain: the live definitions, in their order.  *)
LivePositions(defs) == {p \in 1..Len(defs) : defs[p].name \in live}

Rank(p, positions) == Cardinality({q \in positions : q <= p})

Retained(defs) ==
    [i \in 1..Cardinality(LivePositions(defs)) |->
        defs[CHOOSE p \in LivePositions(defs) : Rank(p, LivePositions(defs)) = i]]

(* Without locals.retain.                                                   *)
SweepKeepingLocals ==
    /\ Marking
    /\ pending = {}
    /\ kept' = [merged EXCEPT !.functions = Retained(@), !.data = Retained(@)]
    /\ gc' = "swept"
    /\ UNCHANGED <<live, pending>>

Sweep ==
    /\ Marking
    /\ pending = {}
    /\ kept' = [merged EXCEPT !.functions = Retained(@), !.data = Retained(@),
                              !.locals = @ \cap live]
    /\ gc' = "swept"
    /\ UNCHANGED <<live, pending>>

GcNext == CheckShapes \/ SkipLive \/ Mark \/ RefuseMissing \/ Sweep

----------------------------------------------------------------------------
(* Reachability by its definition: the least set of names with the entry    *)
(* that is closed under the relocations of the merged definitions.          *)
Targets(n) == UNION {Targeted(<<d>>) : d \in {e \in DefinitionsOf(merged) : e.name = n}}

Universe == Symbols(merged) \cup Targeted(merged.functions) \cup Targeted(merged.data) \cup {Entry}

Closed(S) == Entry \in S /\ \A n \in S : Targets(n) \subseteq S

Reachable == {n \in Universe : \A S \in SUBSET Universe : Closed(S) => n \in S}

(* What is kept is what the entry reaches, and it needs nothing that was    *)
(* dropped: the image links without it.                                     *)
KeepsExactlyReachable ==
    gc = "swept" =>
        /\ Symbols(kept) = Reachable
        /\ (Targeted(kept.functions) \cup Targeted(kept.data)) \subseteq Symbols(kept)

(* The swept artifact passes the validation at the start of link_image: the *)
(* merge gives a valid artifact and dropping definitions leaves no local    *)
(* symbol without one.                                                      *)
SweptIsValid == gc = "swept" => Valid(kept)

(* A missing symbol is an error only if the entry reaches it, and a bad     *)
(* relocation wherever it is.                                               *)
RefusesOnlyReachable ==
    gc = "failed" =>
        \/ \E n \in Reachable : n \notin Symbols(merged)
        \/ \E i \in 1..Len(objects) : \E d \in DefinitionsOf(objects[i]) : ~ WellShaped(d)
=============================================================================
