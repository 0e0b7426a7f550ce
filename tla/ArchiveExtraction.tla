-------------------------- MODULE ArchiveExtraction --------------------------
(* How cosmic-link completes the explicit objects of its command line from  *)
(* its static archives: main in src/cosmic-link.rs hands every archive, in  *)
(* command order, to StaticArchive::extract_needed (archive.rs), which      *)
(* appends one member after another while a member defines a name that is   *)
(* still missing.  A step is one turn of that loop.                         *)
EXTENDS LinkCommand

CONSTANT CommandLines  \* set of records [explicit, archives]: the parsed inputs

VARIABLES
    archives,  \* the archives of the command line, in its order
    artifacts, \* the explicit objects, then the extracted members
    at,        \* the archive extract_needed works on
    selected,  \* the members of it that were extracted
    status,    \* "extracting", "extracted" or "failed"
    before     \* history: the number of objects when archive at was reached

extractionVars == <<archives, artifacts, at, selected, status, before>>

ASSUME CommandLinesAssumption ==
    CommandLines \subseteq [explicit : Seq(Objects), archives : Seq(Seq(Objects))]

(* StaticArchive::from_bytes lets no other member in.                       *)
ASSUME MembersAssumption ==
    \A line \in CommandLines : \A a \in 1..Len(line.archives) :
        \A m \in 1..Len(line.archives[a]) :
            Valid(line.archives[a][m]) /\ line.archives[a][m].version = 4

ExtractionInit ==
    \E line \in CommandLines :
        /\ archives = line.archives
        /\ artifacts = line.explicit
        /\ at = 1
        /\ selected = {}
        /\ status = "extracting"
        /\ before = Len(line.explicit)

----------------------------------------------------------------------------
DefinedBy(s) == UNION {External(s[i]) : i \in 1..Len(s)}
WantedBy(s) == {Entry} \cup UNION {Imports(s[i]) : i \in 1..Len(s)}

(* references after references.retain(...)                                  *)
Unresolved(s) == WantedBy(s) \ DefinedBy(s)

Members == archives[at]

(* Without references.retain.                                               *)
NeededByName(m) == External(Members[m]) \cap WantedBy(artifacts) # {}

Needed(m) == External(Members[m]) \cap Unresolved(artifacts) # {}

Candidates == {m \in 1..Len(Members) : m \notin selected /\ Needed(m)}

(* Extraction refuses an object it cannot tell local names of.              *)
Extractable == \A i \in 1..Len(artifacts) : Valid(artifacts[i]) /\ artifacts[i].version = 4

ReadingArchive == status = "extracting" /\ at <= Len(archives)

RefuseObjects ==
    /\ ReadingArchive
    /\ ~ Extractable
    /\ status' = "failed"
    /\ UNCHANGED <<before, archives, artifacts, at, selected>>

Extract ==
    /\ ReadingArchive
    /\ Extractable
    /\ \E m \in Candidates :
          /\ \A other \in Candidates : m <= other
          /\ selected' = selected \cup {m}
          /\ artifacts' = Append(artifacts, Members[m])
    /\ UNCHANGED <<before, archives, at, status>>

(* With one pass over the archive instead of the loop.                      *)
NextArchiveOnePass ==
    /\ ReadingArchive
    /\ Extractable
    /\ \A m \in Candidates : \E earlier \in selected : m < earlier
    /\ at' = at + 1
    /\ selected' = {}
    /\ before' = Len(artifacts)
    /\ UNCHANGED <<archives, artifacts, status>>

(* extract_needed returns; main goes on with the next archive.              *)
NextArchive ==
    /\ ReadingArchive
    /\ Extractable
    /\ Candidates = {}
    /\ at' = at + 1
    /\ selected' = {}
    /\ before' = Len(artifacts)
    /\ UNCHANGED <<archives, artifacts, status>>

EndOfCommandLine ==
    /\ status = "extracting"
    /\ at > Len(archives)
    /\ status' = "extracted"
    /\ UNCHANGED <<before, archives, artifacts, at, selected>>

ExtractionNext == RefuseObjects \/ Extract \/ NextArchive \/ EndOfCommandLine

(* The loop has nothing to wait for: it goes on while it can.               *)
ExtractionSpec == ExtractionInit /\ [][ExtractionNext]_extractionVars /\ WF_extractionVars(ExtractionNext)

----------------------------------------------------------------------------
ExtractionTypeOK ==
    /\ archives \in Seq(Seq(Objects))
    /\ artifacts \in Seq(Objects)
    /\ at \in 1..Len(archives) + 1
    /\ selected \subseteq (IF at <= Len(archives) THEN 1..Len(Members) ELSE {})
    /\ before \in 0..Len(artifacts)
    /\ status \in {"extracting", "extracted", "failed"}

(* An object that was not on the command line is in the link because, when  *)
(* it was added, something before it wanted a name that nothing before it   *)
(* defined.  Hence no member is linked twice, not even when the command     *)
(* line repeats an archive, and an archive cannot replace a definition.     *)
Prefix(n) == [i \in 1..n |-> artifacts[i]]

EveryMemberWasNeeded ==
    \A j \in before + 1..Len(artifacts) :
        External(artifacts[j]) \cap Unresolved(Prefix(j - 1)) # {}

(* What is left of an archive when the next one is reached: with the        *)
(* objects before it, the extracted members are the least set that leaves   *)
(* no member of the archive defining a missing name.  (Least, if no two     *)
(* members define the same name; otherwise the first one wins.)             *)
DefinedWith(S) == DefinedBy(Prefix(before)) \cup UNION {External(Members[m]) : m \in S}
WantedWith(S) == WantedBy(Prefix(before)) \cup UNION {Imports(Members[m]) : m \in S}

Complete(S) ==
    \A m \in 1..Len(Members) :
        External(Members[m]) \cap (WantedWith(S) \ DefinedWith(S)) # {} => m \in S

Unambiguous ==
    \A m, n \in 1..Len(Members) :
        External(Members[m]) \cap External(Members[n]) # {} => m = n

ExtractsLeastClosure ==
    [][at' # at =>
         /\ Complete(selected)
         /\ Unambiguous =>
               \A S \in SUBSET (1..Len(Members)) : Complete(S) => selected \subseteq S]_extractionVars
=============================================================================
