----------------------------- MODULE ObjectMerge -----------------------------
(* Artifact::merge_objects (saltwater-sia/image.rs): the objects of a link  *)
(* become one artifact in which a name means one thing.  External names are *)
(* kept; every TU-local name is replaced by a scoped one.  A step handles   *)
(* one object, or one local name of it.                                     *)
EXTENDS LinkCommand, FiniteSets

CONSTANTS
    Inputs,            \* sequences of objects
    Scoped(_, _, _)    \* Scoped(k, n, j): "@tu{k}:{n}" followed by j times "@"

ASSUME InputsAssumption == Inputs \subseteq Seq(Objects)

VARIABLES
    objects,   \* the inputs, in link order
    pc,        \* "collect", "scope", "merged" or "failed"
    k,         \* index in objects of the object handled next
    occupied,  \* names a scoped name must not have
    names,     \* scoped names of the locals of object k, as far as chosen
    merged     \* [locals, functions, data]; its definitions and relocations
               \* keep the object and the name they had (origin, was)

vars == <<objects, pc, k, occupied, names, merged>>

Empty == [locals |-> {}, functions |-> << >>, data |-> << >>]

Idle ==
    /\ pc = "collect"
    /\ k = 1
    /\ occupied = {}
    /\ names = << >>
    /\ merged = Empty

Init == objects \in Inputs /\ Idle

----------------------------------------------------------------------------
Several == Len(objects) > 1
Single == Len(objects) = 1

Fail ==
    /\ pc' = "failed"
    /\ UNCHANGED <<objects, k, occupied, names, merged>>

(* A definition of object i renamed by map, and where it came from.         *)
Rename(map, n) == IF n \in DOMAIN map THEN map[n] ELSE n

KeptReference(map, r) ==
    [offset |-> r.offset, addend |-> r.addend, target |-> r.target, was |-> r.target]

RenamedReference(map, r) ==
    [offset |-> r.offset, addend |-> r.addend,
     target |-> Rename(map, r.target), was |-> r.target]

RenamedTo(map, i, d, n) ==
    [name |-> n, size |-> d.size, align |-> d.align, zero |-> d.zero,
     readOnly |-> d.readOnly, origin |-> i, was |-> d.name,
     relocations |-> [j \in DOMAIN d.relocations |-> RenamedReference(map, d.relocations[j])]]

Renamed(map, i, defs) ==
    [j \in 1..Len(defs) |-> RenamedTo(map, i, defs[j], Rename(map, defs[j].name))]

(* One object is taken as it is: its locals cannot meet another's.          *)
TakeSingle ==
    /\ pc = "collect"
    /\ Single
    /\ LET o == objects[1]
       IN  /\ Valid(o)
           /\ merged' = [locals |-> o.locals,
                         functions |-> Renamed(<< >>, 1, o.functions),
                         data |-> Renamed(<< >>, 1, o.data)]
    /\ pc' = "merged"
    /\ UNCHANGED <<objects, k, occupied, names>>

(* The first loop: every external name is defined once.                     *)
Collecting == pc = "collect" /\ Several /\ k <= Len(objects)

(* Without the test of occupied.insert.                                     *)
AcceptableTwice(o) == Valid(o) /\ o.version = 4

Acceptable(o) ==
    /\ Valid(o)
    /\ o.version = 4
    /\ External(o) \cap occupied = {}

Collect ==
    /\ Collecting
    /\ Acceptable(objects[k])
    /\ occupied' = occupied \cup External(objects[k])
    /\ k' = k + 1
    /\ UNCHANGED <<objects, pc, names, merged>>

RefuseObject ==
    /\ \/ Collecting /\ ~ Acceptable(objects[k])
       \/ pc = "collect" /\ Single /\ ~ Valid(objects[1])
    /\ Fail

RefuseNothing ==
    /\ pc = "collect"
    /\ Len(objects) = 0
    /\ Fail

Collected == pc = "collect" /\ Several /\ k > Len(objects)

RefuseEntry ==
    /\ Collected
    /\ Entry \notin occupied
    /\ Fail

(* Unresolved external spellings must never alias generated local names.    *)
ReserveNothing ==
    /\ Collected
    /\ Entry \in occupied
    /\ pc' = "scope"
    /\ k' = 1
    /\ UNCHANGED <<objects, occupied, names, merged>>

ReserveImports ==
    /\ Collected
    /\ Entry \in occupied
    /\ occupied' = occupied \cup UNION {Imports(objects[i]) : i \in 1..Len(objects)}
    /\ pc' = "scope"
    /\ k' = 1
    /\ UNCHANGED <<objects, names, merged>>

Scoping == pc = "scope" /\ k <= Len(objects)

(* names.insert(n, scoped) and merged.local_symbols.insert(scoped)          *)
Choose(n, scoped) ==
    /\ names' = [m \in DOMAIN names \cup {n} |-> IF m = n THEN scoped ELSE names[m]]
    /\ merged' = [locals |-> merged.locals \cup {scoped},
                  functions |-> merged.functions, data |-> merged.data]

ScopeLocalUnreserved ==
    /\ Scoping
    /\ \E n \in objects[k].locals \ DOMAIN names, j \in 0..Cardinality(occupied) :
          LET scoped == Scoped(k - 1, n, j)
          IN  /\ scoped \notin occupied
              /\ \A i \in 0..j - 1 : Scoped(k - 1, n, i) \in occupied
              /\ Choose(n, scoped)
    /\ UNCHANGED <<objects, pc, k, occupied>>

(* The scoped name of local n: the first spelling that is free.             *)
ScopeLocal ==
    /\ Scoping
    /\ \E n \in objects[k].locals \ DOMAIN names, j \in 0..Cardinality(occupied) :
          LET scoped == Scoped(k - 1, n, j)
          IN  /\ scoped \notin occupied
              /\ \A i \in 0..j - 1 : Scoped(k - 1, n, i) \in occupied
              /\ occupied' = occupied \cup {scoped}
              /\ Choose(n, scoped)
    /\ UNCHANGED <<objects, pc, k>>

AppendRenamed ==
    /\ Scoping
    /\ DOMAIN names = objects[k].locals
    /\ merged' = [locals |-> merged.locals,
                  functions |-> merged.functions \o Renamed(names, k, objects[k].functions),
                  data |-> merged.data \o Renamed(names, k, objects[k].data)]
    /\ names' = << >>
    /\ k' = k + 1
    /\ UNCHANGED <<objects, pc, occupied>>

FinishMerge ==
    /\ pc = "scope"
    /\ k > Len(objects)
    /\ pc' = "merged"
    /\ UNCHANGED <<objects, k, occupied, names, merged>>

Next ==
    \/ RefuseNothing \/ TakeSingle \/ RefuseObject
    \/ Collect \/ RefuseEntry \/ ReserveImports
    \/ ScopeLocal \/ AppendRenamed \/ FinishMerge

(* A loop over finite inputs: it goes on until it returns.                  *)
Spec == Init /\ [][Next]_vars /\ WF_vars(Next)

----------------------------------------------------------------------------
TypeOK ==
    /\ objects \in Seq(Objects)
    /\ pc \in {"collect", "scope", "merged", "failed"}
    /\ k \in 1..Len(objects) + 1
    /\ DOMAIN names \subseteq (IF Scoping THEN objects[k].locals ELSE {})
    /\ DOMAIN merged = {"locals", "functions", "data"}

MergedDefinitions ==
    {merged.functions[i] : i \in 1..Len(merged.functions)} \cup
    {merged.data[i] : i \in 1..Len(merged.data)}

(* The definition m of object j is what object i means by n.                *)
Denotes(i, n, j, m) ==
    /\ n = m
    /\ IF n \in objects[i].locals THEN i = j ELSE m \notin objects[j].locals

(* After the merge a reference has the name of a definition exactly if it   *)
(* meant that definition in its own translation unit: no static function is *)
(* captured by another unit, whatever the external names look like.         *)
BindingPreserved ==
    \A d, e \in MergedDefinitions : \A r \in DOMAIN d.relocations :
        (d.relocations[r].target = e.name) <=>
            Denotes(d.origin, d.relocations[r].was, e.origin, e.was)

(* The generated names, and only they, are the locals of the result, and    *)
(* none of them is a name some object imports or exports.                   *)
LocalsStayPrivate ==
    Several =>
        \A i \in 1..Len(objects) :
            merged.locals \cap (External(objects[i]) \cup Imports(objects[i])) = {}

(* What merge_objects refuses: no objects, and of several, objects without  *)
(* binding metadata, an external name with two definitions, an entry that   *)
(* is not external.                                                         *)
Linkable ==
    /\ Len(objects) # 0
    /\ Several =>
          /\ \A i \in 1..Len(objects) : objects[i].version = 4
          /\ \A i, j \in 1..Len(objects) :
                External(objects[i]) \cap External(objects[j]) # {} => i = j
          /\ \E i \in 1..Len(objects) : Entry \in External(objects[i])

RefusesExactlyUnlinkable ==
    /\ pc \in {"scope", "merged"} => Linkable
    /\ pc = "failed" =>
          \/ ~ Linkable
          \/ \E i \in 1..Len(objects) : ~ Valid(objects[i])
=============================================================================
