-------------------------- MODULE StaticLink_proofs --------------------------
(* Proofs about the linker: archive extraction, merging and reachability,   *)
(* each for every set of command lines, and the link that composes them.    *)
EXTENDS StaticLink, SequenceTheorems, FiniteSetTheorems, TLAPS

----------------------------------------------------------------------------
(* Archive extraction.  The invariant keeps what the objects define and     *)
(* want in terms of the members selected so far (Accounted) and that no     *)
(* complete set lacks one of them.                                          *)
Accounted ==
    at <= Len(archives) =>
        /\ DefinedBy(artifacts) = DefinedWith(selected)
        /\ WantedBy(artifacts) = WantedWith(selected)

Least ==
    at <= Len(archives) /\ Unambiguous =>
        \A S \in SUBSET (1..Len(Members)) : Complete(S) => selected \subseteq S

ExtractionInv == ExtractionTypeOK /\ Accounted /\ Least /\ EveryMemberWasNeeded

----------------------------------------------------------------------------
(* Appending an object adds what it offers and what it wants.               *)
LEMMA AppendedObject ==
    ASSUME NEW s \in Seq(Objects), NEW o \in Objects
    PROVE  /\ Append(s, o) \in Seq(Objects)
           /\ Len(Append(s, o)) = Len(s) + 1
           /\ \A i \in 1..Len(s) : Append(s, o)[i] = s[i]
           /\ Append(s, o)[Len(s) + 1] = o
           /\ DefinedBy(Append(s, o)) = DefinedBy(s) \cup External(o)
           /\ WantedBy(Append(s, o)) = WantedBy(s) \cup Imports(o)
<1> DEFINE t == Append(s, o)
<1>1. /\ t \in Seq(Objects)
      /\ Len(t) = Len(s) + 1
      /\ \A i \in 1..Len(s) : t[i] = s[i]
      /\ t[Len(s) + 1] = o
  OBVIOUS
<1>2. Len(s) \in Nat
  OBVIOUS
<1>3. 1..Len(t) = (1..Len(s)) \cup {Len(s) + 1}
  BY <1>1, <1>2
<1>4. DefinedBy(t) = DefinedBy(s) \cup External(o)
  <2> HIDE DEF t
  <2> QED BY <1>1, <1>3 DEF DefinedBy
<1>5. WantedBy(t) = WantedBy(s) \cup Imports(o)
  <2> HIDE DEF t
  <2> QED BY <1>1, <1>3 DEF WantedBy
<1> QED BY <1>1, <1>4, <1>5

LEMMA WholePrefix ==
    ASSUME ExtractionTypeOK
    PROVE  Prefix(Len(artifacts)) = artifacts
BY DEF ExtractionTypeOK, Prefix

THEOREM ExtractionInitially == ExtractionInit => ExtractionInv
<1> SUFFICES ASSUME ExtractionInit PROVE ExtractionInv
  OBVIOUS
<1>1. PICK line \in CommandLines :
          /\ archives = line.archives
          /\ artifacts = line.explicit
          /\ at = 1
          /\ selected = {}
          /\ status = "extracting"
          /\ before = Len(line.explicit)
  BY DEF ExtractionInit
<1>2. archives \in Seq(Seq(Objects)) /\ artifacts \in Seq(Objects)
  BY <1>1, CommandLinesAssumption
<1>3. ExtractionTypeOK
  BY <1>1, <1>2 DEF ExtractionTypeOK
<1>4. Prefix(before) = artifacts
  BY <1>1, <1>3, WholePrefix
<1>5. Accounted
  BY <1>1, <1>4 DEF Accounted, DefinedWith, WantedWith
<1>6. Least
  BY <1>1 DEF Least
<1>7. EveryMemberWasNeeded
  BY <1>1, <1>2 DEF EveryMemberWasNeeded
<1> QED BY <1>3, <1>5, <1>6, <1>7 DEF ExtractionInv

THEOREM ExtractPreserves == ExtractionInv /\ Extract => ExtractionInv'
<1> SUFFICES ASSUME ExtractionInv, Extract PROVE ExtractionInv'
  OBVIOUS
<1> USE DEF ExtractionInv
<1>1. PICK m \in Candidates :
          selected' = selected \cup {m} /\ artifacts' = Append(artifacts, Members[m])
  BY DEF Extract
<1>2. /\ UNCHANGED <<before, archives, at, status>>
      /\ at <= Len(archives)
      /\ at \in 1..Len(archives)
  BY DEF Extract, ReadingArchive, ExtractionTypeOK
<1>3. m \in 1..Len(Members) /\ Needed(m)
  BY <1>1 DEF Candidates
<1>4. Members \in Seq(Objects)
  BY <1>2 DEF ExtractionTypeOK, Members
<1>5. Members[m] \in Objects
  BY <1>3, <1>4
<1>6. /\ artifacts' \in Seq(Objects)
      /\ Len(artifacts') = Len(artifacts) + 1
      /\ \A i \in 1..Len(artifacts) : artifacts'[i] = artifacts[i]
      /\ artifacts'[Len(artifacts) + 1] = Members[m]
      /\ DefinedBy(artifacts') = DefinedBy(artifacts) \cup External(Members[m])
      /\ WantedBy(artifacts') = WantedBy(artifacts) \cup Imports(Members[m])
  BY <1>1, <1>5, AppendedObject DEF ExtractionTypeOK
<1>7. Members' = Members
  BY <1>2 DEF Members
<1>8. \A n \in 0..Len(artifacts) : Prefix(n)' = Prefix(n)
  <2> SUFFICES ASSUME NEW n \in 0..Len(artifacts)
               PROVE  [i \in 1..n |-> artifacts'[i]] = [i \in 1..n |-> artifacts[i]]
    BY DEF Prefix
  <2>1. Len(artifacts) \in Nat
    BY DEF ExtractionTypeOK
  <2>2. \A i \in 1..n : artifacts'[i] = artifacts[i]
    BY <1>6, <2>1
  <2> QED BY <2>2
<1>9. Prefix(before)' = Prefix(before)
  <2>1. before \in 0..Len(artifacts) /\ before' = before
    BY <1>2 DEF ExtractionTypeOK
  <2>2. [i \in 1..before' |-> artifacts'[i]] = [i \in 1..before |-> artifacts'[i]]
    BY <2>1
  <2> QED BY <1>8, <2>1, <2>2 DEF Prefix
<1>10. ExtractionTypeOK'
  <2>1. selected \subseteq 1..Len(Members)
    BY <1>2 DEF ExtractionTypeOK
  <2>2. selected' \subseteq 1..Len(Members')
    BY <1>1, <1>3, <1>7, <2>1
  <2>3. selected' \subseteq (IF at' <= Len(archives') THEN 1..Len(Members') ELSE {})
    BY <1>2, <2>2
  <2>4. before' \in 0..Len(artifacts')
    BY <1>2, <1>6 DEF ExtractionTypeOK
  <2> QED BY <1>2, <1>6, <2>3, <2>4 DEF ExtractionTypeOK
<1>11. Accounted'
  <2>1. DefinedWith(selected)' = DefinedWith(selected) \cup External(Members[m])
    BY <1>1, <1>7, <1>9 DEF DefinedWith
  <2>2. WantedWith(selected)' = WantedWith(selected) \cup Imports(Members[m])
    BY <1>1, <1>7, <1>9 DEF WantedWith
  <2> QED BY <1>2, <1>6, <2>1, <2>2 DEF Accounted
<1>12. Least'
  <2> SUFFICES ASSUME Unambiguous, NEW S \in SUBSET (1..Len(Members)), Complete(S)
               PROVE  selected \cup {m} \subseteq S
    <3>1. Unambiguous' = Unambiguous
      BY <1>7 DEF Unambiguous
    <3>2. \A S : Complete(S)' = Complete(S)
      BY <1>7, <1>9 DEF Complete, DefinedWith, WantedWith
    <3> QED BY <1>1, <1>7, <3>1, <3>2 DEF Least
  <2>1. selected \subseteq S
    BY <1>2 DEF Least
  <2>2. PICK n \in External(Members[m]) : n \in WantedBy(artifacts) /\ n \notin DefinedBy(artifacts)
    BY <1>3 DEF Needed, Unresolved
  <2>3. n \in WantedWith(selected) /\ n \notin DefinedWith(selected)
    BY <1>2, <2>2 DEF Accounted
  <2>4. n \in WantedWith(S)
    BY <2>1, <2>3 DEF WantedWith
  <2>5. CASE n \notin DefinedWith(S)
    BY <1>3, <2>1, <2>2, <2>4, <2>5 DEF Complete
  <2>6. CASE n \in DefinedWith(S)
    <3>1. n \notin DefinedBy(Prefix(before))
      BY <2>3 DEF DefinedWith
    <3>2. PICK x \in S : n \in External(Members[x])
      BY <2>6, <3>1 DEF DefinedWith
    <3>3. x = m
      BY <1>3, <2>2, <3>2 DEF Unambiguous
    <3> QED BY <2>1, <3>2, <3>3
  <2> QED BY <2>5, <2>6
<1>13. EveryMemberWasNeeded'
  <2> SUFFICES ASSUME NEW j \in before + 1..Len(artifacts) + 1
               PROVE  External(artifacts'[j]) \cap Unresolved(Prefix(j - 1)') # {}
    BY <1>2, <1>6 DEF EveryMemberWasNeeded
  <2>1. before \in Nat /\ Len(artifacts) \in Nat /\ before <= Len(artifacts)
    BY DEF ExtractionTypeOK
  <2>2. j - 1 \in 0..Len(artifacts)
    BY <2>1
  <2>3. Prefix(j - 1)' = Prefix(j - 1)
    BY <1>8, <2>2
  <2>4. CASE j <= Len(artifacts)
    <3>1. j \in 1..Len(artifacts) /\ j \in before + 1..Len(artifacts)
      BY <2>1, <2>4
    <3>2. artifacts'[j] = artifacts[j]
      BY <1>6, <3>1
    <3> QED BY <2>3, <3>1, <3>2 DEF EveryMemberWasNeeded
  <2>5. CASE j = Len(artifacts) + 1
    <3>1. Prefix(j - 1) = artifacts
      BY <2>1, <2>5, WholePrefix
    <3> QED BY <1>3, <1>6, <2>3, <2>5, <3>1 DEF Needed
  <2> QED BY <2>1, <2>4, <2>5
<1> QED BY <1>10, <1>11, <1>12, <1>13

THEOREM NextArchivePreserves == ExtractionInv /\ NextArchive => ExtractionInv'
<1> SUFFICES ASSUME ExtractionInv, NextArchive PROVE ExtractionInv'
  OBVIOUS
<1> USE DEF ExtractionInv
<1>1. /\ UNCHANGED <<archives, artifacts, status>>
      /\ at' = at + 1
      /\ selected' = {}
      /\ before' = Len(artifacts)
      /\ at <= Len(archives)
  BY DEF NextArchive, ReadingArchive
<1>2. ExtractionTypeOK'
  BY <1>1 DEF ExtractionTypeOK
<1>3. Prefix(before)' = artifacts
  BY <1>1, WholePrefix DEF Prefix
<1>4. Accounted'
  BY <1>1, <1>3 DEF Accounted, DefinedWith, WantedWith
<1>5. Least'
  BY <1>1 DEF Least
<1>6. EveryMemberWasNeeded'
  BY <1>1 DEF EveryMemberWasNeeded, ExtractionTypeOK
<1> QED BY <1>2, <1>4, <1>5, <1>6

LEMMA StatusOnly ==
    ASSUME ExtractionInv, UNCHANGED <<before, archives, artifacts, at, selected>>,
           status' \in {"extracting", "extracted", "failed"}
    PROVE  ExtractionInv'
<1>1. Members' = Members /\ \A n : Prefix(n)' = Prefix(n)
  BY DEF Members, Prefix
<1>2. ExtractionTypeOK'
  BY DEF ExtractionInv, ExtractionTypeOK, Members
<1>3. Accounted'
  BY <1>1 DEF ExtractionInv, Accounted, DefinedWith, WantedWith
<1>4. Least'
  BY <1>1 DEF ExtractionInv, Least, Unambiguous, Complete, DefinedWith, WantedWith
<1>5. EveryMemberWasNeeded'
  BY <1>1 DEF ExtractionInv, EveryMemberWasNeeded
<1> QED BY <1>2, <1>3, <1>4, <1>5 DEF ExtractionInv

THEOREM ExtractionInductive == ExtractionInv /\ [ExtractionNext]_extractionVars => ExtractionInv'
<1> SUFFICES ASSUME ExtractionInv, [ExtractionNext]_extractionVars PROVE ExtractionInv'
  OBVIOUS
<1>1. CASE RefuseObjects
  BY <1>1, StatusOnly DEF RefuseObjects
<1>2. CASE Extract
  BY <1>2, ExtractPreserves
<1>3. CASE NextArchive
  BY <1>3, NextArchivePreserves
<1>4. CASE EndOfCommandLine
  BY <1>4, StatusOnly DEF EndOfCommandLine
<1>5. CASE UNCHANGED extractionVars
  BY <1>5, StatusOnly DEF extractionVars, ExtractionInv, ExtractionTypeOK
<1> QED BY <1>1, <1>2, <1>3, <1>4, <1>5 DEF ExtractionNext

(* The inductive invariant of the extraction loop of archive.rs.            *)
THEOREM ExtractionInvariance == ExtractionSpec => []ExtractionInv
<1>1. ExtractionInit => ExtractionInv
  BY ExtractionInitially
<1>2. ExtractionInv /\ [ExtractionNext]_extractionVars => ExtractionInv'
  BY ExtractionInductive
<1> QED BY <1>1, <1>2, PTL DEF ExtractionSpec

(* extract_needed appends no member that nothing before it needed.          *)
THEOREM EveryMemberWasNeededHolds == ExtractionSpec => []EveryMemberWasNeeded
<1>1. ExtractionInv => EveryMemberWasNeeded
  BY DEF ExtractionInv
<1> QED BY <1>1, ExtractionInvariance, PTL

(* extract_needed returns with exactly the members the objects before the   *)
(* archive depend on.                                                       *)
THEOREM ExtractsLeastClosureHolds == ExtractionSpec => ExtractsLeastClosure
<1> DEFINE LeftClosed ==
        at' # at =>
            /\ Complete(selected)
            /\ Unambiguous =>
                  \A S \in SUBSET (1..Len(Members)) : Complete(S) => selected \subseteq S
<1>1. ExtractionInv /\ [ExtractionNext]_extractionVars => LeftClosed
  <2> SUFFICES ASSUME ExtractionInv, [ExtractionNext]_extractionVars, at' # at PROVE LeftClosed
    OBVIOUS
  <2>1. NextArchive
    BY DEF ExtractionNext, extractionVars, RefuseObjects, Extract, EndOfCommandLine
  <2>2. at <= Len(archives) /\ Candidates = {}
    BY <2>1 DEF NextArchive, ReadingArchive
  <2>3. Unresolved(artifacts) = WantedWith(selected) \ DefinedWith(selected)
    BY <2>2 DEF ExtractionInv, Accounted, Unresolved
  <2>4. Complete(selected)
    BY <2>2, <2>3 DEF Complete, Candidates, Needed
  <2> QED BY <2>2, <2>4 DEF ExtractionInv, Least
<1>2. ExtractionInv /\ [ExtractionNext]_extractionVars => [LeftClosed]_extractionVars
  BY <1>1
<1> QED BY <1>2, ExtractionInvariance, PTL DEF ExtractionSpec, ExtractsLeastClosure

----------------------------------------------------------------------------
(* Merging, for every set of inputs and every way to spell scoped names.    *)
(* The invariant speaks of the uses of names in the merged definitions: a   *)
(* use is a triple <<object, name there, name now>>.                        *)
Uses ==
    {<<d.origin, d.was, d.name>> : d \in MergedDefinitions} \cup
    UNION {{<<d.origin, d.relocations[r].was, d.relocations[r].target>> :
               r \in DOMAIN d.relocations} : d \in MergedDefinitions}

Public(i) == External(objects[i]) \cup Imports(objects[i])

Local(u) == u[2] \in objects[u[1]].locals

DisjointUpTo(n) ==
    \A i, j \in 1..n : External(objects[i]) \cap External(objects[j]) # {} => i = j

CollectInv ==
    /\ occupied = UNION {External(objects[i]) : i \in 1..k - 1}
    /\ \A i \in 1..k - 1 : objects[i].version = 4
    /\ DisjointUpTo(k - 1)

NamesInv ==
    /\ \A i \in 1..Len(objects) : Public(i) \subseteq occupied
    /\ merged.locals \subseteq occupied
    /\ \A n \in DOMAIN names : names[n] \in merged.locals
    /\ \A m, n \in DOMAIN names : names[m] = names[n] => m = n

UsesInv ==
    /\ \A u \in Uses :
          /\ u[1] \in 1..Len(objects)
          /\ pc = "scope" => u[1] < k
          /\ IF Local(u) THEN u[3] \in merged.locals ELSE u[3] = u[2] /\ u[3] \in Public(u[1])
    /\ \A u \in Uses : Local(u) => \A n \in DOMAIN names : names[n] # u[3]
    /\ \A u, v \in Uses :
          Local(u) /\ Local(v) => (u[3] = v[3] <=> u[1] = v[1] /\ u[2] = v[2])

SequencesInv ==
    \E S : merged.functions \in Seq(S) /\ merged.data \in Seq(S)

StateInv ==
    /\ pc \in {"collect", "failed"} => merged = Empty /\ names = << >>
    /\ pc = "scope" => Several
    /\ pc = "collect" /\ Several => CollectInv
    /\ pc \in {"scope", "merged"} /\ Several =>
          Linkable /\ LocalsStayPrivate /\ NamesInv /\ UsesInv
    /\ pc = "merged" /\ ~ Several => \A u \in Uses : u[1] = 1 /\ u[3] = u[2]

IInv == TypeOK /\ SequencesInv /\ StateInv /\ RefusesExactlyUnlinkable

----------------------------------------------------------------------------
Elements(s) == {s[i] : i \in 1..Len(s)}

LEMMA ElementsOfConcat ==
    ASSUME NEW S, NEW s \in Seq(S), NEW t \in Seq(S)
    PROVE  Elements(s \o t) = Elements(s) \cup Elements(t)
<1> DEFINE c == s \o t
<1>1. Len(s) \in Nat /\ Len(t) \in Nat
  BY LenProperties
<1>2. /\ Len(c) = Len(s) + Len(t)
      /\ \A i \in 1..Len(s) + Len(t) : c[i] = IF i <= Len(s) THEN s[i] ELSE t[i - Len(s)]
  BY ConcatProperties
<1>3. \A i \in 1..Len(s) : c[i] = s[i] /\ i \in 1..Len(c)
  BY <1>1, <1>2
<1>4. \A i \in 1..Len(t) : Len(s) + i \in 1..Len(c) /\ c[Len(s) + i] = t[i]
  BY <1>1, <1>2
<1>5. \A i \in 1..Len(c) : i \in 1..Len(s) \/ (i - Len(s) \in 1..Len(t) /\ c[i] = t[i - Len(s)])
  BY <1>1, <1>2
<1> HIDE DEF c
<1>6. {c[i] : i \in 1..Len(c)} \subseteq {s[i] : i \in 1..Len(s)} \cup {t[i] : i \in 1..Len(t)}
  BY <1>3, <1>5
<1>7. {s[i] : i \in 1..Len(s)} \subseteq {c[i] : i \in 1..Len(c)}
  BY <1>3
<1>8. {t[i] : i \in 1..Len(t)} \subseteq {c[i] : i \in 1..Len(c)}
  <2>1. \A i \in 1..Len(t) : t[i] \in {c[m] : m \in 1..Len(c)}
    <3> SUFFICES ASSUME NEW i \in 1..Len(t) PROVE t[i] \in {c[m] : m \in 1..Len(c)}
      OBVIOUS
    <3>1. Len(s) + i \in 1..Len(c) /\ c[Len(s) + i] = t[i]
      BY <1>4
    <3> QED BY <3>1
  <2> QED BY <2>1
<1> QED BY <1>6, <1>7, <1>8 DEF c, Elements

RenamedSet(map, i, defs) == {Renamed(map, i, defs)[j] : j \in 1..Len(defs)}

LEMMA RenamedSequence ==
    ASSUME NEW map, NEW i, NEW defs, Len(defs) \in Nat
    PROVE  /\ Renamed(map, i, defs) \in Seq(RenamedSet(map, i, defs))
           /\ Len(Renamed(map, i, defs)) = Len(defs)
           /\ {Renamed(map, i, defs)[j] : j \in 1..Len(Renamed(map, i, defs))} =
                  RenamedSet(map, i, defs)
<1> DEFINE r == Renamed(map, i, defs)
           S == {r[j] : j \in 1..Len(defs)}
<1>1. DOMAIN r = 1..Len(defs)
  BY DEF Renamed
<1>2. r = [j \in 1..Len(defs) |-> r[j]]
  BY DEF Renamed
<1>3. r \in [1..Len(defs) -> S]
  <2> HIDE DEF r
  <2>1. [j \in 1..Len(defs) |-> r[j]] \in [1..Len(defs) -> S]
    OBVIOUS
  <2> QED BY <1>2, <2>1
<1> HIDE DEF r, S
<1>4. r \in Seq(S)
  BY <1>3, SeqDef
<1>5. Len(r) = Len(defs)
  BY <1>1, <1>4, LenProperties
<1> QED BY <1>4, <1>5 DEF r, S, RenamedSet

(* What a renamed definition uses: names of its object, renamed by map.     *)
LEMMA UsesOfRenamed ==
    ASSUME NEW map, NEW i, NEW defs, NEW d \in RenamedSet(map, i, defs)
    PROVE  /\ d.origin = i
           /\ d.was \in Named(defs)
           /\ d.name = Rename(map, d.was)
           /\ \A r \in DOMAIN d.relocations :
                 /\ d.relocations[r].was \in Targeted(defs)
                 /\ d.relocations[r].target = Rename(map, d.relocations[r].was)
<1>1. PICK j \in 1..Len(defs) : d = Renamed(map, i, defs)[j]
  BY DEF RenamedSet
<1>2. d = RenamedTo(map, i, defs[j], Rename(map, defs[j].name))
  BY <1>1 DEF Renamed
<1>3. /\ d.origin = i
      /\ d.was = defs[j].name
      /\ d.name = Rename(map, defs[j].name)
      /\ d.relocations = [r \in DOMAIN defs[j].relocations |->
                             RenamedReference(map, defs[j].relocations[r])]
  BY <1>2 DEF RenamedTo
<1>4. d.was \in Named(defs)
  BY <1>3 DEF Named
<1>5. ASSUME NEW r \in DOMAIN d.relocations
      PROVE  /\ d.relocations[r].was \in Targeted(defs)
             /\ d.relocations[r].target = Rename(map, d.relocations[r].was)
  <2>1. DOMAIN d.relocations = 1..Len(defs[j].relocations)
    BY <1>3
  <2>2. d.relocations[r] = RenamedReference(map, defs[j].relocations[r])
    BY <1>3, <2>1
  <2>3. /\ d.relocations[r].was = defs[j].relocations[r].target
        /\ d.relocations[r].target = Rename(map, defs[j].relocations[r].target)
    BY <2>2 DEF RenamedReference
  <2> QED BY <2>1, <2>3 DEF Targeted
<1> QED BY <1>3, <1>4, <1>5

----------------------------------------------------------------------------
LEMMA NothingUsed ==
    ASSUME merged = Empty
    PROVE  MergedDefinitions = {} /\ Uses = {}
<1>1. merged.functions = << >> /\ merged.data = << >>
  BY DEF Empty
<1>2. Len(<< >>) = 0 /\ 1..0 = {}
  OBVIOUS
<1>3. MergedDefinitions = {}
  BY <1>1, <1>2 DEF MergedDefinitions
<1> QED BY <1>3 DEF Uses

LEMMA SameMerged ==
    ASSUME UNCHANGED <<objects, merged>>
    PROVE  /\ MergedDefinitions' = MergedDefinitions
           /\ Uses' = Uses
           /\ \A i : Public(i)' = Public(i)
           /\ \A u : Local(u)' = Local(u)
           /\ Several' = Several
           /\ Linkable' = Linkable
           /\ LocalsStayPrivate' = LocalsStayPrivate
           /\ SequencesInv' = SequencesInv
<1>1. MergedDefinitions' = MergedDefinitions
  BY DEF MergedDefinitions
<1>2. Uses' = Uses
  BY <1>1 DEF Uses
<1>3. Several' = Several
  BY DEF Several
<1>4. Linkable' = Linkable
  BY <1>3 DEF Linkable
<1>5. LocalsStayPrivate' = LocalsStayPrivate
  BY <1>3 DEF LocalsStayPrivate
<1>6. SequencesInv' = SequencesInv
  BY DEF SequencesInv
<1>7. \A i : Public(i)' = Public(i)
  BY DEF Public
<1>8. \A u : Local(u)' = Local(u)
  BY DEF Local
<1> QED BY <1>1, <1>2, <1>3, <1>4, <1>5, <1>6, <1>7, <1>8

LEMMA InputFacts ==
    ASSUME TypeOK
    PROVE  /\ Len(objects) \in Nat
           /\ \A i \in 1..Len(objects) :
                 /\ objects[i] \in Objects
                 /\ Len(objects[i].functions) \in Nat
                 /\ Len(objects[i].data) \in Nat
<1>1. objects \in Seq(Objects)
  BY DEF TypeOK
<1>2. Len(objects) \in Nat
  BY <1>1
<1>3. \A i \in 1..Len(objects) : objects[i] \in Objects
  BY <1>1
<1> QED BY <1>2, <1>3 DEF Objects

LEMMA BeforeTheMerge == objects \in Seq(Objects) /\ Idle => IInv
<1> SUFFICES ASSUME objects \in Seq(Objects), Idle PROVE IInv
  OBVIOUS
<1>1. /\ objects \in Seq(Objects)
      /\ pc = "collect"
      /\ k = 1
      /\ occupied = {}
      /\ names = << >>
      /\ merged = Empty
  BY DEF Idle
<1>2. Len(objects) \in Nat
  BY <1>1
<1>3. DOMAIN names = {}
  BY <1>1
<1>4. TypeOK
  BY <1>1, <1>2, <1>3 DEF TypeOK, Empty
<1>5. SequencesInv
  <2>1. << >> \in Seq({})
    OBVIOUS
  <2> QED BY <1>1, <2>1 DEF SequencesInv, Empty
<1>6. CollectInv
  <2>1. 1..k - 1 = {}
    BY <1>1
  <2> QED BY <1>1, <2>1 DEF CollectInv, DisjointUpTo
<1>7. StateInv
  BY <1>1, <1>6 DEF StateInv
<1>8. RefusesExactlyUnlinkable
  BY <1>1 DEF RefusesExactlyUnlinkable
<1> QED BY <1>4, <1>5, <1>7, <1>8 DEF IInv

THEOREM Initially == Init => IInv
  BY BeforeTheMerge, InputsAssumption DEF Init

LEMMA TakeSinglePreserves == IInv /\ TakeSingle => IInv'
<1> SUFFICES ASSUME IInv, TakeSingle PROVE IInv'
  OBVIOUS
<1> DEFINE o == objects[1]
           F == RenamedSet(<< >>, 1, o.functions)
           D == RenamedSet(<< >>, 1, o.data)
<1>1. /\ UNCHANGED <<objects, k, occupied, names>>
      /\ pc = "collect" /\ pc' = "merged"
      /\ Single
      /\ merged'.functions = Renamed(<< >>, 1, o.functions)
      /\ merged'.data = Renamed(<< >>, 1, o.data)
      /\ DOMAIN merged' = {"locals", "functions", "data"}
  BY DEF TakeSingle
<1>2. Len(o.functions) \in Nat /\ Len(o.data) \in Nat
  BY InputFacts DEF IInv
<1>3. /\ merged'.functions \in Seq(F)
      /\ {merged'.functions[j] : j \in 1..Len(merged'.functions)} = F
  <2> DEFINE r == Renamed(<< >>, 1, o.functions)
  <2>1. r \in Seq(F) /\ {r[j] : j \in 1..Len(r)} = F
    BY <1>2, RenamedSequence
  <2>2. merged'.functions = r
    BY <1>1
  <2> HIDE DEF r, F
  <2> QED BY <2>1, <2>2
<1>4. /\ merged'.data \in Seq(D)
      /\ {merged'.data[j] : j \in 1..Len(merged'.data)} = D
  <2> DEFINE r == Renamed(<< >>, 1, o.data)
  <2>1. r \in Seq(D) /\ {r[j] : j \in 1..Len(r)} = D
    BY <1>2, RenamedSequence
  <2>2. merged'.data = r
    BY <1>1
  <2> HIDE DEF r, D
  <2> QED BY <2>1, <2>2
<1>5. MergedDefinitions' = F \cup D
  BY <1>1, <1>3, <1>4 DEF MergedDefinitions
<1>6. ASSUME NEW d \in F \cup D
      PROVE  /\ d.origin = 1
             /\ d.name = d.was
             /\ \A r \in DOMAIN d.relocations : d.relocations[r].target = d.relocations[r].was
  <2>1. \A n : Rename(<< >>, n) = n
    BY DEF Rename
  <2>2. CASE d \in F
    BY <2>1, <2>2, UsesOfRenamed
  <2>3. CASE d \in D
    BY <2>1, <2>3, UsesOfRenamed
  <2> QED BY <2>2, <2>3
<1> HIDE DEF F, D
<1>7. \A u \in Uses' : u[1] = 1 /\ u[3] = u[2]
  BY <1>5, <1>6 DEF Uses
<1>8. SequencesInv'
  <2>1. merged'.functions \in Seq(F \cup D) /\ merged'.data \in Seq(F \cup D)
    BY <1>3, <1>4
  <2> QED BY <2>1 DEF SequencesInv
<1>9. TypeOK'
  BY <1>1 DEF IInv, TypeOK, Scoping, StateInv, Empty
<1>10. ~ Several'
  BY <1>1 DEF Several, Single
<1>11. StateInv'
  BY <1>1, <1>7, <1>10 DEF StateInv
<1>12. RefusesExactlyUnlinkable'
  BY <1>1, <1>10 DEF RefusesExactlyUnlinkable, Linkable, Single
<1> QED BY <1>8, <1>9, <1>11, <1>12 DEF IInv

LEMMA FailPreserves ==
    ASSUME IInv, pc = "collect", Fail,
           ~ Linkable \/ \E i \in 1..Len(objects) : ~ Valid(objects[i])
    PROVE  IInv'
<1>1. /\ UNCHANGED <<objects, k, occupied, names, merged>>
      /\ pc' = "failed"
      /\ merged = Empty /\ names = << >>
  BY DEF Fail, IInv, StateInv
<1>2. TypeOK'
  BY <1>1 DEF IInv, TypeOK, Scoping
<1>3. StateInv'
  BY <1>1 DEF StateInv
<1>4. SequencesInv' /\ Linkable' = Linkable
  BY <1>1, SameMerged DEF IInv
<1>5. RefusesExactlyUnlinkable'
  BY <1>1, <1>4 DEF RefusesExactlyUnlinkable
<1> QED BY <1>2, <1>3, <1>4, <1>5 DEF IInv

LEMMA RefuseNothingPreserves == IInv /\ RefuseNothing => IInv'
<1> SUFFICES ASSUME IInv, RefuseNothing PROVE IInv'
  OBVIOUS
<1>1. pc = "collect" /\ Fail /\ ~ Linkable
  BY DEF RefuseNothing, Linkable
<1> QED BY <1>1, FailPreserves

LEMMA RefuseObjectPreserves == IInv /\ RefuseObject => IInv'
<1> SUFFICES ASSUME IInv, RefuseObject PROVE IInv'
  OBVIOUS
<1>1. Len(objects) \in Nat /\ k \in 1..Len(objects) + 1
  BY InputFacts DEF IInv, TypeOK
<1>2. pc = "collect" /\ Fail
  BY DEF RefuseObject, Collecting
<1>3. CASE Collecting /\ ~ Acceptable(objects[k])
  <2>1. k \in 1..Len(objects) /\ Several
    BY <1>1, <1>3 DEF Collecting
  <2>2. CASE ~ Valid(objects[k])
    BY <1>2, <2>1, <2>2, FailPreserves
  <2>3. CASE objects[k].version # 4
    <3>1. ~ Linkable
      BY <2>1, <2>3 DEF Linkable
    <3> QED BY <1>2, <3>1, FailPreserves
  <2>4. CASE External(objects[k]) \cap occupied # {}
    <3>1. occupied = UNION {External(objects[i]) : i \in 1..k - 1}
      BY <1>2, <2>1 DEF IInv, StateInv, CollectInv
    <3>2. PICK i \in 1..k - 1 : External(objects[k]) \cap External(objects[i]) # {}
      BY <2>4, <3>1
    <3>3. i # k /\ i \in 1..Len(objects)
      BY <1>1, <2>1, <3>2
    <3>4. ~ Linkable
      BY <2>1, <3>2, <3>3 DEF Linkable
    <3> QED BY <1>2, <3>4, FailPreserves
  <2> QED BY <1>3, <2>2, <2>3, <2>4 DEF Acceptable
<1>4. CASE Single /\ ~ Valid(objects[1])
  BY <1>1, <1>2, <1>4, FailPreserves DEF Single
<1> QED BY <1>3, <1>4 DEF RefuseObject

LEMMA CollectPreserves == IInv /\ Collect => IInv'
<1> SUFFICES ASSUME IInv, Collect PROVE IInv'
  OBVIOUS
<1>1. /\ UNCHANGED <<objects, pc, names, merged>>
      /\ pc = "collect" /\ Several
      /\ k' = k + 1
      /\ occupied' = occupied \cup External(objects[k])
      /\ objects[k].version = 4
      /\ External(objects[k]) \cap occupied = {}
      /\ k <= Len(objects)
  BY DEF Collect, Collecting, Acceptable
<1>2. Len(objects) \in Nat /\ k \in 1..Len(objects)
  BY <1>1, InputFacts DEF IInv, TypeOK
<1>3. CollectInv
  BY <1>1 DEF IInv, StateInv
<1>4. 1..k' - 1 = (1..k - 1) \cup {k}
  BY <1>1, <1>2
<1>5. occupied' = UNION {External(objects[i]) : i \in 1..k' - 1}
  BY <1>1, <1>3, <1>4 DEF CollectInv
<1>6. \A i \in 1..k' - 1 : objects[i].version = 4
  BY <1>1, <1>3, <1>4 DEF CollectInv
<1>7. DisjointUpTo(k' - 1)
  <2> SUFFICES ASSUME NEW i \in 1..k' - 1, NEW j \in 1..k' - 1,
                      External(objects[i]) \cap External(objects[j]) # {}
               PROVE  i = j
    BY DEF DisjointUpTo
  <2>1. CASE i \in 1..k - 1 /\ j \in 1..k - 1
    BY <1>3, <2>1 DEF CollectInv, DisjointUpTo
  <2>2. CASE i = k /\ j \in 1..k - 1
    BY <1>1, <1>3, <2>2 DEF CollectInv
  <2>3. CASE j = k /\ i \in 1..k - 1
    BY <1>1, <1>3, <2>3 DEF CollectInv
  <2> QED BY <1>4, <2>1, <2>2, <2>3
<1>8. CollectInv'
  <2>1. objects' = objects
    BY <1>1
  <2>2. DisjointUpTo(k - 1)'
    BY <1>7, <2>1 DEF DisjointUpTo
  <2> QED BY <1>5, <1>6, <2>1, <2>2 DEF CollectInv
<1>9. TypeOK'
  BY <1>1, <1>2 DEF IInv, TypeOK, Scoping
<1>10. StateInv'
  BY <1>1, <1>8 DEF IInv, StateInv
<1>11. SequencesInv' /\ RefusesExactlyUnlinkable'
  BY <1>1, SameMerged DEF IInv, RefusesExactlyUnlinkable
<1> QED BY <1>9, <1>10, <1>11 DEF IInv

LEMMA RefuseEntryPreserves == IInv /\ RefuseEntry => IInv'
<1> SUFFICES ASSUME IInv, RefuseEntry PROVE IInv'
  OBVIOUS
<1>1. pc = "collect" /\ Several /\ Fail /\ Entry \notin occupied /\ k > Len(objects)
  BY DEF RefuseEntry, Collected
<1>2. Len(objects) \in Nat /\ k = Len(objects) + 1
  BY <1>1, InputFacts DEF IInv, TypeOK
<1>3. k - 1 = Len(objects)
  BY <1>2
<1>4. \A i \in 1..Len(objects) : Entry \notin External(objects[i])
  BY <1>1, <1>3 DEF IInv, StateInv, CollectInv
<1>5. ~ Linkable
  BY <1>1, <1>4 DEF Linkable
<1> QED BY <1>1, <1>5, FailPreserves

LEMMA ReserveImportsPreserves == IInv /\ ReserveImports => IInv'
<1> SUFFICES ASSUME IInv, ReserveImports PROVE IInv'
  OBVIOUS
<1>1. /\ UNCHANGED <<objects, names, merged>>
      /\ pc = "collect" /\ pc' = "scope" /\ Several
      /\ k' = 1 /\ k > Len(objects)
      /\ Entry \in occupied
      /\ occupied' = occupied \cup UNION {Imports(objects[i]) : i \in 1..Len(objects)}
      /\ merged = Empty /\ names = << >>
  BY DEF ReserveImports, Collected, IInv, StateInv
<1>2. Len(objects) \in Nat /\ k = Len(objects) + 1 /\ 1 <= Len(objects)
  BY <1>1, InputFacts DEF IInv, TypeOK, Several
<1>3. k - 1 = Len(objects)
  BY <1>2
<1>4. /\ occupied = UNION {External(objects[i]) : i \in 1..Len(objects)}
      /\ \A i \in 1..Len(objects) : objects[i].version = 4
      /\ DisjointUpTo(Len(objects))
  BY <1>1, <1>3 DEF IInv, StateInv, CollectInv
<1>5. Linkable
  <2>1. Len(objects) # 0
    BY <1>2
  <2>2. \E i \in 1..Len(objects) : Entry \in External(objects[i])
    BY <1>1, <1>4
  <2> QED BY <2>1, <2>2, <1>4 DEF Linkable, DisjointUpTo
<1>6. DOMAIN names = {} /\ merged.locals = {} /\ Uses = {}
  BY <1>1, NothingUsed DEF Empty
<1>7. LocalsStayPrivate
  BY <1>6 DEF LocalsStayPrivate
<1>8. NamesInv'
  BY <1>1, <1>4, <1>6 DEF NamesInv, Public
<1>9. UsesInv'
  <2>1. Uses' = {}
    BY <1>1, <1>6, SameMerged
  <2> QED BY <2>1 DEF UsesInv
<1>10. Several' /\ Linkable' /\ LocalsStayPrivate' /\ SequencesInv'
  BY <1>1, <1>5, <1>7, SameMerged DEF IInv
<1>11. StateInv'
  BY <1>1, <1>8, <1>9, <1>10 DEF StateInv
<1>12. TypeOK'
  BY <1>1, <1>2, <1>6 DEF IInv, TypeOK
<1> QED BY <1>1, <1>10, <1>11, <1>12 DEF IInv, RefusesExactlyUnlinkable

LEMMA ScopeFacts ==
    ASSUME IInv, Scoping
    PROVE  /\ Several /\ Linkable /\ LocalsStayPrivate /\ NamesInv /\ UsesInv
           /\ Len(objects) \in Nat
           /\ k \in 1..Len(objects)
           /\ DOMAIN names \subseteq objects[k].locals
<1>1. pc = "scope" /\ k <= Len(objects)
  BY DEF Scoping
<1>2. Len(objects) \in Nat /\ k \in 1..Len(objects)
  BY <1>1, InputFacts DEF IInv, TypeOK
<1>3. Several
  BY <1>1 DEF IInv, StateInv
<1>4. Linkable /\ LocalsStayPrivate /\ NamesInv /\ UsesInv
  BY <1>1, <1>3 DEF IInv, StateInv
<1> QED BY <1>2, <1>3, <1>4 DEF IInv, TypeOK

LEMMA ScopeLocalPreserves == IInv /\ ScopeLocal => IInv'
<1> SUFFICES ASSUME IInv, ScopeLocal PROVE IInv'
  OBVIOUS
<1>1. Scoping /\ UNCHANGED <<objects, pc, k>>
  BY DEF ScopeLocal
<1>2. PICK n \in objects[k].locals \ DOMAIN names, j \in 0..Cardinality(occupied) :
          /\ Scoped(k - 1, n, j) \notin occupied
          /\ occupied' = occupied \cup {Scoped(k - 1, n, j)}
          /\ Choose(n, Scoped(k - 1, n, j))
  BY DEF ScopeLocal
<1> DEFINE new == Scoped(k - 1, n, j)
<1>3. /\ new \notin occupied
      /\ occupied' = occupied \cup {new}
      /\ merged' = [locals |-> merged.locals \cup {new},
                    functions |-> merged.functions, data |-> merged.data]
      /\ names' = [m \in DOMAIN names \cup {n} |-> IF m = n THEN new ELSE names[m]]
  BY <1>2 DEF Choose
<1> HIDE DEF new
<1>4. /\ merged'.locals = merged.locals \cup {new}
      /\ merged'.functions = merged.functions
      /\ merged'.data = merged.data
      /\ DOMAIN merged' = {"locals", "functions", "data"}
  BY <1>3
<1>5. /\ DOMAIN names' = DOMAIN names \cup {n}
      /\ names'[n] = new
      /\ \A m \in DOMAIN names : names'[m] = names[m]
  BY <1>2, <1>3
<1>6. /\ Several /\ Linkable /\ LocalsStayPrivate /\ NamesInv /\ UsesInv
      /\ Len(objects) \in Nat /\ k \in 1..Len(objects)
      /\ DOMAIN names \subseteq objects[k].locals
  BY <1>1, ScopeFacts
<1>7. pc = "scope" /\ pc' = "scope"
  BY <1>1 DEF Scoping
<1>8. MergedDefinitions' = MergedDefinitions
  BY <1>4 DEF MergedDefinitions
<1>9. Uses' = Uses
  BY <1>8 DEF Uses
<1>10. /\ Several' = Several
       /\ \A i : Public(i)' = Public(i)
       /\ \A u : Local(u)' = Local(u)
  BY <1>1 DEF Several, Public, Local
<1>11. TypeOK'
  BY <1>1, <1>2, <1>4, <1>5, <1>6 DEF IInv, TypeOK, Scoping
<1>12. SequencesInv'
  BY <1>4 DEF IInv, SequencesInv
<1>13. Linkable'
  BY <1>1, <1>6, <1>10 DEF Linkable
<1>14. \A i \in 1..Len(objects) : new \notin Public(i)
  BY <1>3, <1>6 DEF NamesInv
<1>15. LocalsStayPrivate'
  BY <1>1, <1>4, <1>6, <1>14 DEF LocalsStayPrivate, Public
<1>16. new \notin merged.locals
  BY <1>3, <1>6 DEF NamesInv
<1>17. NamesInv'
  <2>1. \A i \in 1..Len(objects') : Public(i)' \subseteq occupied'
    BY <1>1, <1>3, <1>6, <1>10 DEF NamesInv
  <2>2. merged'.locals \subseteq occupied'
    BY <1>3, <1>4, <1>6 DEF NamesInv
  <2>3. \A m \in DOMAIN names' : names'[m] \in merged'.locals
    BY <1>4, <1>5, <1>6 DEF NamesInv
  <2>4. \A m \in DOMAIN names : names[m] \in merged.locals
    BY <1>6 DEF NamesInv
  <2>5. \A l, m \in DOMAIN names' : names'[l] = names'[m] => l = m
    BY <1>5, <1>6, <1>16, <2>4 DEF NamesInv
  <2> QED BY <2>1, <2>2, <2>3, <2>5 DEF NamesInv
<1>18. UsesInv'
  <2>1. \A u \in Uses : Local(u) => u[3] \in merged.locals
    BY <1>6 DEF UsesInv
  <2>2. \A u \in Uses : Local(u) => \A m \in DOMAIN names' : names'[m] # u[3]
    BY <1>5, <1>6, <1>16, <2>1 DEF UsesInv
  <2>3. \A u \in Uses :
           /\ u[1] \in 1..Len(objects)
           /\ u[1] < k
           /\ IF Local(u) THEN u[3] \in merged'.locals ELSE u[3] = u[2] /\ u[3] \in Public(u[1])
    BY <1>4, <1>6, <1>7 DEF UsesInv
  <2>4. \A u, v \in Uses :
           Local(u) /\ Local(v) => (u[3] = v[3] <=> u[1] = v[1] /\ u[2] = v[2])
    BY <1>6 DEF UsesInv
  <2> QED BY <1>1, <1>9, <1>10, <2>2, <2>3, <2>4 DEF UsesInv
<1>19. StateInv'
  BY <1>6, <1>7, <1>10, <1>13, <1>15, <1>17, <1>18 DEF StateInv
<1>20. RefusesExactlyUnlinkable'
  BY <1>7, <1>13 DEF RefusesExactlyUnlinkable
<1> QED BY <1>11, <1>12, <1>19, <1>20 DEF IInv

LEMMA AppendRenamedPreserves == IInv /\ AppendRenamed => IInv'
<1> SUFFICES ASSUME IInv, AppendRenamed PROVE IInv'
  OBVIOUS
<1> DEFINE o == objects[k]
           F == RenamedSet(names, k, o.functions)
           D == RenamedSet(names, k, o.data)
           f == Renamed(names, k, o.functions)
           g == Renamed(names, k, o.data)
<1>1. /\ Scoping /\ UNCHANGED <<objects, pc, occupied>>
      /\ DOMAIN names = o.locals
      /\ merged' = [locals |-> merged.locals,
                    functions |-> merged.functions \o f,
                    data |-> merged.data \o g]
      /\ names' = << >>
      /\ k' = k + 1
  BY DEF AppendRenamed
<1>2. /\ Several /\ Linkable /\ LocalsStayPrivate /\ NamesInv /\ UsesInv
      /\ Len(objects) \in Nat /\ k \in 1..Len(objects)
  BY <1>1, ScopeFacts
<1>3. pc = "scope" /\ pc' = "scope"
  BY <1>1 DEF Scoping
<1>4. Len(o.functions) \in Nat /\ Len(o.data) \in Nat
  BY <1>2, InputFacts DEF IInv
<1>5. /\ f \in Seq(F) /\ {f[j] : j \in 1..Len(f)} = F
      /\ g \in Seq(D) /\ {g[j] : j \in 1..Len(g)} = D
  BY <1>4, RenamedSequence
<1>6. PICK S : merged.functions \in Seq(S) /\ merged.data \in Seq(S)
  BY DEF IInv, SequencesInv
<1> DEFINE T == S \cup F \cup D
<1>7. /\ merged.functions \in Seq(T) /\ merged.data \in Seq(T)
      /\ f \in Seq(T) /\ g \in Seq(T)
  <2> HIDE DEF F, D, f, g
  <2> QED BY <1>5, <1>6
<1> HIDE DEF T, f, g
<1>8. /\ merged'.locals = merged.locals
      /\ merged'.functions = merged.functions \o f
      /\ merged'.data = merged.data \o g
      /\ DOMAIN merged' = {"locals", "functions", "data"}
  BY <1>1
<1>9. merged'.functions \in Seq(T) /\ merged'.data \in Seq(T)
  BY <1>7, <1>8, ConcatProperties
<1>10. SequencesInv'
  BY <1>9 DEF SequencesInv
<1>11. MergedDefinitions' = MergedDefinitions \cup (F \cup D)
  <2>1. {merged'.functions[i] : i \in 1..Len(merged'.functions)} =
           {merged.functions[i] : i \in 1..Len(merged.functions)} \cup F
    <3>1. Elements(merged.functions \o f) = Elements(merged.functions) \cup Elements(f)
      BY <1>7, ElementsOfConcat
    <3>2. Elements(f) = F
      BY <1>5 DEF Elements
    <3> HIDE DEF F
    <3> QED BY <1>8, <3>1, <3>2 DEF Elements
  <2>2. {merged'.data[i] : i \in 1..Len(merged'.data)} =
           {merged.data[i] : i \in 1..Len(merged.data)} \cup D
    <3>1. Elements(merged.data \o g) = Elements(merged.data) \cup Elements(g)
      BY <1>7, ElementsOfConcat
    <3>2. Elements(g) = D
      BY <1>5 DEF Elements
    <3> HIDE DEF D
    <3> QED BY <1>8, <3>1, <3>2 DEF Elements
  <2> HIDE DEF F, D
  <2> QED BY <2>1, <2>2 DEF MergedDefinitions
<1>12. ASSUME NEW d \in F \cup D
       PROVE  /\ d.origin = k
              /\ d.was \in Symbols(o)
              /\ d.name = Rename(names, d.was)
              /\ \A r \in DOMAIN d.relocations :
                    /\ d.relocations[r].was \in Targeted(o.functions) \cup Targeted(o.data)
                    /\ d.relocations[r].target = Rename(names, d.relocations[r].was)
  <2>1. CASE d \in F
    BY <2>1, UsesOfRenamed DEF Symbols
  <2>2. CASE d \in D
    BY <2>2, UsesOfRenamed DEF Symbols
  <2> QED BY <2>1, <2>2
<1> HIDE DEF F, D
<1> DEFINE Fresh(u) ==
        /\ u[1] = k
        /\ u[2] \in Symbols(o) \cup Targeted(o.functions) \cup Targeted(o.data)
        /\ u[3] = Rename(names, u[2])
<1>13. \A u \in Uses' : u \in Uses \/ Fresh(u)
  <2>1. \A d \in F \cup D : Fresh(<<d.origin, d.was, d.name>>)
    BY <1>12
  <2>2. \A d \in F \cup D : \A r \in DOMAIN d.relocations :
           Fresh(<<d.origin, d.relocations[r].was, d.relocations[r].target>>)
    BY <1>12
  <2> HIDE DEF Fresh
  <2> QED BY <1>11, <2>1, <2>2 DEF Uses
<1>14. \A u : Local(u)' = Local(u)
  BY <1>1 DEF Local
<1>15. \A i : Public(i)' = Public(i)
  BY <1>1 DEF Public
<1>16. ASSUME NEW u, Fresh(u)
       PROVE  /\ Local(u) => u[2] \in DOMAIN names /\ u[3] = names[u[2]]
              /\ ~ Local(u) => u[3] = u[2] /\ u[3] \in Public(k)
  <2>1. Local(u) <=> u[2] \in DOMAIN names
    BY <1>1, <1>16 DEF Local
  <2>2. ~ Local(u) => u[2] \in Public(k)
    BY <1>16 DEF Local, Public, External, Imports
  <2> QED BY <1>16, <2>1, <2>2 DEF Rename
<1>17. \A n \in DOMAIN names : names[n] \in merged.locals
  BY <1>2 DEF NamesInv
<1> HIDE DEF Fresh
<1>18. UsesInv'
  <2>1. ASSUME NEW u \in Uses'
        PROVE  /\ u[1] \in 1..Len(objects)
               /\ u[1] < k + 1
               /\ IF Local(u) THEN u[3] \in merged.locals
                              ELSE u[3] = u[2] /\ u[3] \in Public(u[1])
    <3>1. CASE u \in Uses
      <4>1. /\ u[1] \in 1..Len(objects)
            /\ u[1] < k
            /\ IF Local(u) THEN u[3] \in merged.locals
                           ELSE u[3] = u[2] /\ u[3] \in Public(u[1])
        BY <1>2, <1>3, <3>1 DEF UsesInv
      <4> QED BY <1>2, <4>1
    <3>2. CASE Fresh(u)
      <4>1. u[1] = k
        BY <3>2 DEF Fresh
      <4> QED BY <1>2, <1>16, <1>17, <3>2, <4>1
    <3> QED BY <1>13, <3>1, <3>2
  <2>2. ASSUME NEW u \in Uses', NEW v \in Uses', Local(u), Local(v)
        PROVE  u[3] = v[3] <=> u[1] = v[1] /\ u[2] = v[2]
    <3>1. CASE u \in Uses /\ v \in Uses
      BY <1>2, <2>2, <3>1 DEF UsesInv
    <3>2. ASSUME NEW x \in Uses, NEW y, Local(x), Local(y), Fresh(y)
          PROVE  x[3] # y[3] /\ x[1] # y[1]
      <4>1. x[1] < k /\ x[1] \in 1..Len(objects) /\ \A n \in DOMAIN names : names[n] # x[3]
        BY <1>2, <1>3, <3>2 DEF UsesInv
      <4>2. y[1] = k /\ y[2] \in DOMAIN names /\ y[3] = names[y[2]]
        BY <1>16, <3>2 DEF Fresh
      <4> QED BY <1>2, <4>1, <4>2
    <3>3. CASE u \in Uses /\ Fresh(v)
      BY <2>2, <3>2, <3>3
    <3>4. CASE v \in Uses /\ Fresh(u)
      BY <2>2, <3>2, <3>4
    <3>5. CASE Fresh(u) /\ Fresh(v)
      <4>1. u[1] = k /\ v[1] = k
        BY <3>5 DEF Fresh
      <4>2. /\ u[2] \in DOMAIN names /\ u[3] = names[u[2]]
            /\ v[2] \in DOMAIN names /\ v[3] = names[v[2]]
        BY <1>16, <2>2, <3>5
      <4>3. names[u[2]] = names[v[2]] => u[2] = v[2]
        BY <1>2, <4>2 DEF NamesInv
      <4> QED BY <4>1, <4>2, <4>3
    <3> QED BY <1>13, <3>1, <3>3, <3>4, <3>5
  <2>3. DOMAIN names' = {}
    BY <1>1
  <2> QED BY <1>1, <1>8, <1>14, <1>15, <2>1, <2>2, <2>3 DEF UsesInv
<1>19. NamesInv'
  <2>1. DOMAIN names' = {}
    BY <1>1
  <2> QED BY <1>1, <1>2, <1>8, <1>15, <2>1 DEF NamesInv
<1>20. Several' /\ Linkable' /\ LocalsStayPrivate'
  BY <1>1, <1>2, <1>8 DEF Several, Linkable, LocalsStayPrivate
<1>21. TypeOK'
  <2>1. DOMAIN names' = {}
    BY <1>1
  <2> QED BY <1>1, <1>2, <1>3, <1>8, <2>1 DEF IInv, TypeOK
<1>22. StateInv'
  BY <1>3, <1>18, <1>19, <1>20 DEF StateInv
<1> QED BY <1>3, <1>10, <1>20, <1>21, <1>22 DEF IInv, RefusesExactlyUnlinkable

LEMMA FinishMergePreserves == IInv /\ FinishMerge => IInv'
<1> SUFFICES ASSUME IInv, FinishMerge PROVE IInv'
  OBVIOUS
<1>1. pc = "scope" /\ pc' = "merged" /\ UNCHANGED <<objects, k, occupied, names, merged>>
  BY DEF FinishMerge
<1>2. Several /\ Linkable /\ LocalsStayPrivate /\ NamesInv /\ UsesInv
  BY <1>1 DEF IInv, StateInv
<1>3. Several' /\ Linkable' /\ LocalsStayPrivate' /\ SequencesInv'
  BY <1>1, <1>2, SameMerged DEF IInv
<1>4. NamesInv'
  BY <1>1, <1>2 DEF NamesInv, Public
<1>5. UsesInv'
  BY <1>1, <1>2, SameMerged DEF UsesInv
<1>6. TypeOK'
  <2>1. k > Len(objects)
    BY DEF FinishMerge
  <2>2. DOMAIN names \subseteq {}
    BY <2>1, InputFacts DEF IInv, TypeOK, Scoping
  <2> QED BY <1>1, <2>2 DEF IInv, TypeOK
<1>7. StateInv'
  BY <1>1, <1>3, <1>4, <1>5 DEF StateInv
<1> QED BY <1>1, <1>3, <1>6, <1>7 DEF IInv, RefusesExactlyUnlinkable

LEMMA StutterPreserves == IInv /\ UNCHANGED vars => IInv'
<1> SUFFICES ASSUME IInv, UNCHANGED vars PROVE IInv'
  OBVIOUS
<1>1. UNCHANGED <<objects, pc, k, occupied, names, merged>>
  BY DEF vars
<1>2. TypeOK' /\ SequencesInv'
  BY <1>1, SameMerged DEF IInv, TypeOK, Scoping
<1>3. CollectInv' = CollectInv
  BY <1>1 DEF CollectInv, DisjointUpTo
<1>4. NamesInv' = NamesInv
  BY <1>1 DEF NamesInv, Public
<1>5. UsesInv => UsesInv'
  BY <1>1, SameMerged DEF UsesInv
<1>6. StateInv'
  BY <1>1, <1>3, <1>4, <1>5, SameMerged DEF IInv, StateInv
<1>7. RefusesExactlyUnlinkable'
  BY <1>1, SameMerged DEF IInv, RefusesExactlyUnlinkable
<1> QED BY <1>2, <1>6, <1>7 DEF IInv

THEOREM Inductive == IInv /\ [Next]_vars => IInv'
<1> SUFFICES ASSUME IInv, [Next]_vars PROVE IInv'
  OBVIOUS
<1> QED BY RefuseNothingPreserves, TakeSinglePreserves, RefuseObjectPreserves, CollectPreserves,
           RefuseEntryPreserves, ReserveImportsPreserves, ScopeLocalPreserves,
           AppendRenamedPreserves, FinishMergePreserves, StutterPreserves DEF Next

(* The inductive invariant of merge_objects in image.rs.                    *)
THEOREM Invariance == Spec => []IInv
  BY Initially, Inductive, PTL DEF Spec

THEOREM TypeCorrectness == Spec => []TypeOK
<1>1. IInv => TypeOK
  BY DEF IInv
<1> QED BY <1>1, Invariance, PTL

LEMMA UseOfName ==
    ASSUME NEW d \in MergedDefinitions
    PROVE  /\ <<d.origin, d.was, d.name>> \in Uses
           /\ \A r \in DOMAIN d.relocations :
                 <<d.origin, d.relocations[r].was, d.relocations[r].target>> \in Uses
BY DEF Uses

LEMMA UsesAreBound == IInv => BindingPreserved
<1>1. ASSUME IInv, NEW d \in MergedDefinitions, NEW e \in MergedDefinitions,
             NEW r \in DOMAIN d.relocations
      PROVE  (d.relocations[r].target = e.name) <=>
                 Denotes(d.origin, d.relocations[r].was, e.origin, e.was)
  <2> DEFINE u == <<d.origin, d.relocations[r].was, d.relocations[r].target>>
             v == <<e.origin, e.was, e.name>>
  <2>1. u \in Uses /\ v \in Uses
    BY UseOfName
  <2>2. Uses # {}
    BY <2>1
  <2>3. pc \in {"scope", "merged"}
    BY <1>1, <2>2, NothingUsed DEF IInv, StateInv, TypeOK
  <2>4. CASE ~ Several
    <3>1. pc = "merged"
      BY <1>1, <2>3, <2>4 DEF IInv, StateInv
    <3>2. u[1] = 1 /\ u[3] = u[2] /\ v[1] = 1 /\ v[3] = v[2]
      BY <1>1, <2>1, <2>4, <3>1 DEF IInv, StateInv
    <3> QED BY <3>2 DEF Denotes
  <2>5. CASE Several
    <3>1. UsesInv /\ LocalsStayPrivate
      BY <1>1, <2>3, <2>5 DEF IInv, StateInv
    <3>2. \A w \in Uses :
             /\ w[1] \in 1..Len(objects)
             /\ Local(w) => w[3] \in merged.locals
             /\ ~ Local(w) => w[3] = w[2] /\ w[3] \notin merged.locals
      BY <2>5, <3>1 DEF UsesInv, LocalsStayPrivate, Public
    <3>3. CASE Local(u) /\ Local(v)
      <4>1. u[3] = v[3] <=> u[1] = v[1] /\ u[2] = v[2]
        BY <2>1, <3>1, <3>3 DEF UsesInv
      <4> QED BY <3>3, <4>1 DEF Denotes, Local
    <3>4. CASE Local(u) /\ ~ Local(v)
      <4>1. u[3] # v[3]
        BY <2>1, <3>2, <3>4
      <4> QED BY <3>4, <4>1 DEF Denotes, Local
    <3>5. CASE ~ Local(u) /\ Local(v)
      <4>1. u[3] # v[3]
        BY <2>1, <3>2, <3>5
      <4> QED BY <3>5, <4>1 DEF Denotes, Local
    <3>6. CASE ~ Local(u) /\ ~ Local(v)
      <4>1. u[3] = u[2] /\ v[3] = v[2]
        BY <2>1, <3>2, <3>6
      <4> QED BY <3>6, <4>1 DEF Denotes, Local
    <3> QED BY <3>3, <3>4, <3>5, <3>6
  <2> QED BY <2>4, <2>5
<1> QED BY <1>1 DEF BindingPreserved

(* Static functions stay bound in their own unit and external references    *)
(* to the one external definition, whatever names the objects use.          *)
THEOREM BindingPreservedHolds == Spec => []BindingPreserved
  BY UsesAreBound, Invariance, PTL

(* Scoped names are fresh: no object imports or exports one of them.        *)
THEOREM LocalsStayPrivateHolds == Spec => []LocalsStayPrivate
<1>1. IInv => LocalsStayPrivate
  <2> SUFFICES ASSUME IInv PROVE LocalsStayPrivate
    OBVIOUS
  <2>1. CASE pc \in {"collect", "failed"}
    BY <2>1 DEF IInv, StateInv, LocalsStayPrivate, Empty
  <2>2. CASE pc \in {"scope", "merged"}
    BY <2>2 DEF IInv, StateInv, LocalsStayPrivate
  <2> QED BY <2>1, <2>2 DEF IInv, TypeOK
<1> QED BY <1>1, Invariance, PTL

(* merge_objects accepts exactly the inputs that can be linked.             *)
THEOREM RefusesExactlyUnlinkableHolds == Spec => []RefusesExactlyUnlinkable
<1>1. IInv => RefusesExactlyUnlinkable
  BY DEF IInv
<1> QED BY <1>1, Invariance, PTL

----------------------------------------------------------------------------
(* The composed link.  What is proved of extraction and merging on their    *)
(* own holds of them as cosmic-link composes them: the merge starts, idle,  *)
(* from the objects that extraction ends with.                              *)
LinkInv ==
    /\ ExtractionInv
    /\ IInv
    /\ status # "extracted" => Idle /\ objects = artifacts

----------------------------------------------------------------------------
THEOREM LinkInitially == LinkInit => LinkInv
<1> SUFFICES ASSUME LinkInit PROVE LinkInv
  OBVIOUS
<1>1. ExtractionInv
  BY ExtractionInitially DEF LinkInit
<1>2. objects \in Seq(Objects)
  BY <1>1 DEF LinkInit, ExtractionInv, ExtractionTypeOK
<1>3. IInv
  BY <1>2, BeforeTheMerge DEF LinkInit
<1> QED BY <1>1, <1>3 DEF LinkInit, LinkInv

(* Extraction goes on only before the merge begins.                         *)
LEMMA ExtractMembersPreserves == LinkInv /\ ExtractMembers => LinkInv'
<1>1. ASSUME LinkInv, ExtractMembers
      PROVE  /\ ExtractionInv'
             /\ (objects \in Seq(Objects) /\ Idle)'
             /\ objects' = artifacts'
  <2>1. ExtractionInv'
    BY <1>1, ExtractionInductive DEF LinkInv, ExtractMembers
  <2>2. status = "extracting"
    BY <1>1 DEF ExtractMembers, ExtractionNext, RefuseObjects, Extract, NextArchive,
                EndOfCommandLine, ReadingArchive
  <2>3. Idle'
    BY <1>1, <2>2 DEF LinkInv, ExtractMembers, mergeVars, Idle
  <2>4. objects' = artifacts'
    BY <1>1 DEF ExtractMembers
  <2>5. objects' \in Seq(Objects)
    BY <2>1, <2>4 DEF ExtractionInv, ExtractionTypeOK
  <2> QED BY <2>1, <2>3, <2>4, <2>5
<1>2. (objects \in Seq(Objects) /\ Idle)' => IInv'
  BY BeforeTheMerge, PTL
<1> QED BY <1>1, <1>2 DEF LinkInv

(* A step that extraction has no part in.                                   *)
LEMMA ExtractionIsOver == ExtractionInv /\ UNCHANGED extractionVars => ExtractionInv'
  BY ExtractionInductive

LEMMA MergeObjectsPreserves == LinkInv /\ MergeObjects => LinkInv'
<1> SUFFICES ASSUME LinkInv, MergeObjects PROVE LinkInv'
  OBVIOUS
<1>1. ExtractionInv' /\ status' = "extracted"
  BY ExtractionIsOver DEF LinkInv, MergeObjects, extractionVars
<1>2. IInv'
  BY Inductive DEF LinkInv, MergeObjects
<1> QED BY <1>1, <1>2 DEF LinkInv

LEMMA CollectingPreserves ==
    LinkInv /\ UNCHANGED <<extractionVars, objects, mergeVars>> => LinkInv'
<1> SUFFICES ASSUME LinkInv, UNCHANGED <<extractionVars, objects, mergeVars>> PROVE LinkInv'
  OBVIOUS
<1>1. UNCHANGED vars
  BY DEF mergeVars, vars
<1>2. ExtractionInv' /\ status' = status /\ artifacts' = artifacts
  BY ExtractionIsOver DEF LinkInv, extractionVars
<1>3. IInv'
  BY <1>1, StutterPreserves DEF LinkInv
<1>4. Idle => Idle'
  BY DEF Idle, mergeVars
<1> QED BY <1>2, <1>3, <1>4 DEF LinkInv

(* The inductive invariant of the linker up to the layout.                  *)
THEOREM LinkInvariance == LinkSpec => []LinkInv
<1>1. LinkInv /\ [LinkNext]_linkVars => LinkInv'
  <2> SUFFICES ASSUME LinkInv, [LinkNext]_linkVars PROVE LinkInv'
    OBVIOUS
  <2>1. CASE KeepReachable
    BY <2>1, CollectingPreserves DEF KeepReachable
  <2>2. CASE KeepAll
    BY <2>2, CollectingPreserves DEF KeepAll
  <2>3. CASE UNCHANGED linkVars
    BY <2>3, CollectingPreserves DEF linkVars
  <2> QED BY <2>1, <2>2, <2>3, ExtractMembersPreserves, MergeObjectsPreserves DEF LinkNext
<1> QED BY <1>1, LinkInitially, PTL DEF LinkSpec

(* Every link, with archives or not, keeps the references of the merged     *)
(* definitions bound as they were.                                          *)
THEOREM LinkBindingPreserved == LinkSpec => []BindingPreserved
<1>1. LinkInv => BindingPreserved
  BY UsesAreBound DEF LinkInv
<1> QED BY <1>1, LinkInvariance, PTL

(* A link is refused by the merge only for what extraction and the command  *)
(* line gave it.                                                            *)
THEOREM LinkRefusesExactlyUnlinkable == LinkSpec => []RefusesExactlyUnlinkable
<1>1. LinkInv => RefusesExactlyUnlinkable
  BY DEF LinkInv, IInv
<1> QED BY <1>1, LinkInvariance, PTL

(* No member is in the link that nothing before it needed.                  *)
THEOREM LinkEveryMemberWasNeeded == LinkSpec => []EveryMemberWasNeeded
<1>1. LinkInv => EveryMemberWasNeeded
  BY DEF LinkInv, ExtractionInv
<1> QED BY <1>1, LinkInvariance, PTL

----------------------------------------------------------------------------
(* Reachability.  The worklist holds what is reachable and not yet looked   *)
(* at: what is live and known leads to nothing that is neither.             *)
(* The rank of a position numbers the positions from 1 without a gap.       *)
LEMMA RanksNumber ==
    ASSUME NEW n \in Nat, NEW P \in SUBSET (1..n)
    PROVE  /\ Cardinality(P) \in Nat
           /\ \A p, q \in P : Rank(p, P) = Rank(q, P) => p = q
           /\ \A i \in 1..Cardinality(P) : \E p \in P : Rank(p, P) = i
           /\ \A p \in P : Rank(p, P) \in 1..Cardinality(P)
<1> DEFINE UpTo(p) == {q \in P : q <= p}
<1>1. IsFiniteSet(P) /\ Cardinality(P) \in Nat
  <2>1. IsFiniteSet(1..n)
    BY FS_Interval
  <2>2. IsFiniteSet(P)
    BY <2>1, FS_Subset
  <2> QED BY <2>2, FS_CardinalityType
<1>2. ASSUME NEW p \in P
      PROVE  /\ IsFiniteSet(UpTo(p))
             /\ Cardinality(UpTo(p)) \in 1..Cardinality(P)
  <2>1. UpTo(p) \in SUBSET P
    OBVIOUS
  <2>2. IsFiniteSet(UpTo(p)) /\ Cardinality(UpTo(p)) <= Cardinality(P)
    BY <1>1, <2>1, FS_Subset
  <2>3. Cardinality(UpTo(p)) \in Nat
    BY <2>2, FS_CardinalityType
  <2>4. p \in UpTo(p)
    OBVIOUS
  <2>5. Cardinality(UpTo(p)) # 0
    BY <2>2, <2>4, FS_EmptySet
  <2> QED BY <1>1, <2>2, <2>3, <2>5
<1>3. ASSUME NEW p \in P, NEW q \in P, p < q
      PROVE  Cardinality(UpTo(p)) # Cardinality(UpTo(q))
  <2>1. UpTo(p) \in SUBSET UpTo(q)
    <3>1. \A r \in P : r <= p => r <= q
      BY <1>3
    <3> QED BY <3>1
  <2>2. q \in UpTo(q) /\ q \notin UpTo(p)
    BY <1>3
  <2>3. IsFiniteSet(UpTo(q))
    BY <1>2
  <2> HIDE DEF UpTo
  <2> QED BY <2>1, <2>2, <2>3, FS_Subset
<1>4. \A p, q \in P : Rank(p, P) = Rank(q, P) => p = q
  BY <1>3 DEF Rank
<1> DEFINE f == [p \in P |-> Rank(p, P)]
<1>5. f \in Injection(P, 1..Cardinality(P))
  <2>1. f \in [P -> 1..Cardinality(P)]
    BY <1>2 DEF Rank
  <2>2. \A p, q \in P : f[p] = f[q] => p = q
    BY <1>4
  <2> HIDE DEF f
  <2> QED BY <2>1, <2>2 DEF Injection, IsInjective
<1>6. IsFiniteSet(1..Cardinality(P)) /\ Cardinality(1..Cardinality(P)) = Cardinality(P)
  BY <1>1, FS_Interval
<1>7. f \in Surjection(P, 1..Cardinality(P))
  BY <1>5, <1>6, FS_Injection
<1>8. \A i \in 1..Cardinality(P) : \E p \in P : f[p] = i
  BY <1>7 DEF Surjection
<1> QED BY <1>1, <1>2, <1>4, <1>8 DEF Rank

(* retain keeps the live definitions, each once.                            *)
LEMMA RetainedDefinitions ==
    ASSUME NEW S, NEW defs \in Seq(S)
    PROVE  \E pos :
              /\ Len(Retained(defs)) \in Nat /\ Retained(defs) \in Seq(S)
              /\ DOMAIN Retained(defs) = 1..Len(Retained(defs))
              /\ \A i \in 1..Len(Retained(defs)) :
                    /\ pos[i] \in LivePositions(defs) /\ pos[i] \in 1..Len(defs)
                    /\ Retained(defs)[i] = defs[pos[i]]
              /\ \A i, j \in 1..Len(Retained(defs)) : pos[i] = pos[j] => i = j
              /\ \A p \in LivePositions(defs) : \E i \in 1..Len(Retained(defs)) : pos[i] = p
<1> DEFINE P == LivePositions(defs)
           c == Cardinality(P)
           pos == [i \in 1..c |-> CHOOSE p \in P : Rank(p, P) = i]
<1>1. Len(defs) \in Nat
  OBVIOUS
<1>2. P \in SUBSET (1..Len(defs))
  BY DEF LivePositions
<1> HIDE DEF P
<1>3. /\ c \in Nat
      /\ \A p, q \in P : Rank(p, P) = Rank(q, P) => p = q
      /\ \A i \in 1..c : \E p \in P : Rank(p, P) = i
      /\ \A p \in P : Rank(p, P) \in 1..c
  BY <1>1, <1>2, RanksNumber
<1>4. Retained(defs) = [i \in 1..c |-> defs[pos[i]]]
  BY DEF Retained, P
<1>5. \A i \in 1..c : pos[i] \in P /\ Rank(pos[i], P) = i
  BY <1>3
<1>6. \A p \in P : pos[Rank(p, P)] = p
  BY <1>3, <1>5
<1> HIDE DEF c, pos
<1>7. \A i \in 1..c : pos[i] \in 1..Len(defs) /\ defs[pos[i]] \in S
  <2>1. \A p \in 1..Len(defs) : defs[p] \in S
    OBVIOUS
  <2> QED BY <1>2, <1>5, <2>1
<1>8. Retained(defs) \in Seq(S) /\ Len(Retained(defs)) = c /\ DOMAIN Retained(defs) = 1..c
  BY <1>3, <1>4, <1>7
<1>9. \A i \in 1..c : Retained(defs)[i] = defs[pos[i]]
  BY <1>4
<1>10. \A i, j \in 1..c : pos[i] = pos[j] => i = j
  BY <1>5
<1>11. \A p \in P : \E i \in 1..c : pos[i] = p
  BY <1>3, <1>6
<1>12. Len(Retained(defs)) \in Nat
  BY <1>3, <1>8
<1>13. \A i \in 1..c : pos[i] \in LivePositions(defs)
  BY <1>5 DEF P
<1>14. \A p \in LivePositions(defs) : \E i \in 1..c : pos[i] = p
  BY <1>11 DEF P
<1> WITNESS pos
<1> QED BY <1>7, <1>8, <1>9, <1>10, <1>12, <1>13, <1>14

GcInv ==
    /\ gc = "wait" => live = {} /\ pending = {Entry}
    /\ gc # "wait" => pc = "merged"
    /\ Entry \in live \cup pending
    /\ live \cup pending \subseteq Reachable
    /\ \A n \in live \cap Known : Edges(n) \subseteq live \cup pending
    /\ gc = "mark" => live \subseteq Known
    /\ gc = "swept" =>
          /\ live = Reachable /\ live \subseteq Known
          /\ kept.functions = Retained(merged.functions)
          /\ kept.data = Retained(merged.data)
          /\ kept.locals = merged.locals \cap live
    /\ gc = "all" => kept = merged
    /\ RefusesOnlyReachable

LEMMA EdgesAreTargets == ASSUME NEW n PROVE Targets(n) = Edges(n)
<1> DEFINE Leads(d, t) == \E i \in DOMAIN d.relocations : t = d.relocations[i].target
<1>1. ASSUME NEW d, NEW t PROVE t \in Targeted(<<d>>) <=> Leads(d, t)
  <2>1. Len(<<d>>) = 1 /\ <<d>>[1] = d /\ 1..1 = {1}
    OBVIOUS
  <2> QED BY <2>1 DEF Targeted
<1>2. \A t : t \in Targets(n) <=>
                \E d \in DefinitionsOf(merged) : d.name = n /\ t \in Targeted(<<d>>)
  BY DEF Targets
<1>3. \A t : t \in Edges(n) <=> \E d \in DefinitionsOf(merged) : d.name = n /\ Leads(d, t)
  BY DEF Edges
<1> HIDE DEF Leads
<1>4. \A t : t \in Targets(n) <=> t \in Edges(n)
  BY <1>1, <1>2, <1>3
<1> QED BY <1>4

LEMMA KnownAreSymbols == ASSUME NEW S, merged.functions \in Seq(S), merged.data \in Seq(S)
  PROVE Known = Symbols(merged)
BY DEF Known, Symbols, Named, DefinitionsOf

LEMMA EdgesAreNames == ASSUME NEW n PROVE Edges(n) \subseteq Universe
<1> SUFFICES ASSUME NEW d \in DefinitionsOf(merged), NEW r \in DOMAIN d.relocations
             PROVE  d.relocations[r].target \in Targeted(merged.functions) \cup Targeted(merged.data)
  BY DEF Edges, Universe
<1> QED BY DEF DefinitionsOf, Targeted

(* Reachable is closed, and in every closed set of names.                   *)
LEMMA ReachableIsLeast ==
    /\ Entry \in Reachable
    /\ \A n \in Reachable : Edges(n) \subseteq Reachable
    /\ \A S \in SUBSET Universe :
          Entry \in S /\ (\A n \in S : Edges(n) \subseteq S) => Reachable \subseteq S
<1>1. \A S : Closed(S) <=> Entry \in S /\ \A n \in S : Edges(n) \subseteq S
  BY EdgesAreTargets DEF Closed
<1>2. Entry \in Reachable
  BY DEF Reachable, Universe, Closed
<1>3. ASSUME NEW n \in Reachable, NEW m \in Edges(n) PROVE m \in Reachable
  <2>1. m \in Universe
    BY EdgesAreNames
  <2>2. ASSUME NEW S \in SUBSET Universe, Closed(S) PROVE m \in S
    BY <1>1, <2>2 DEF Reachable
  <2> QED BY <2>1, <2>2 DEF Reachable
<1>4. ASSUME NEW S \in SUBSET Universe, Closed(S) PROVE Reachable \subseteq S
  BY <1>4 DEF Reachable
<1> QED BY <1>1, <1>2, <1>3, <1>4

LEMMA SameGraph ==
    ASSUME UNCHANGED merged
    PROVE  /\ Reachable' = Reachable /\ Known' = Known
           /\ \A n : Edges(n)' = Edges(n)
<1>1. DefinitionsOf(merged)' = DefinitionsOf(merged)
  BY DEF DefinitionsOf
<1>2. Known' = Known /\ \A n : Edges(n)' = Edges(n)
  BY <1>1 DEF Known, Edges
<1>3. \A n : Targets(n)' = Targets(n)
  BY <1>1 DEF Targets
<1>4. Universe' = Universe
  BY DEF Universe
<1>5. \A S : Closed(S)' = Closed(S)
  BY <1>3 DEF Closed
<1> QED BY <1>2, <1>4, <1>5 DEF Reachable

THEOREM GcInitially == LinkInit => GcInv
<1> SUFFICES ASSUME LinkInit PROVE GcInv
  OBVIOUS
<1>1. live = {} /\ pending = {Entry} /\ gc = "wait"
  BY DEF LinkInit, GcInit
<1> QED BY <1>1, ReachableIsLeast DEF GcInv, RefusesOnlyReachable

(* Nothing is marked before the merge is over.                              *)
LEMMA BeforeMarking ==
    ASSUME GcInv, gc = "wait", UNCHANGED gcVars
    PROVE  GcInv'
<1>1. live' = {} /\ pending' = {Entry} /\ gc' = "wait"
  BY DEF GcInv, gcVars
<1>2. Entry \in Reachable'
  <2>1. Entry' \in Universe'
    BY DEF Universe
  <2> QED BY <2>1 DEF Reachable, Closed
<1> QED BY <1>1, <1>2 DEF GcInv, RefusesOnlyReachable

LEMMA GcStutters ==
    ASSUME GcInv, UNCHANGED <<objects, pc, merged, gcVars>>
    PROVE  GcInv'
<1>1. UNCHANGED <<kept, live, pending, gc>>
  BY DEF gcVars
<1>2. Reachable' = Reachable /\ Known' = Known /\ \A n : Edges(n)' = Edges(n)
  BY SameGraph
<1>3. \A defs : Retained(defs)' = Retained(defs)
  BY <1>1 DEF Retained, LivePositions
<1>4. RefusesOnlyReachable'
  BY <1>1, <1>2 DEF GcInv, RefusesOnlyReachable
<1> QED BY <1>1, <1>2, <1>3, <1>4 DEF GcInv

LEMMA KeepReachablePreserves ==
    ASSUME LinkInv, GcInv, KeepReachable
    PROVE  GcInv'
<1>1. UNCHANGED <<objects, pc, merged>>
  BY DEF KeepReachable, mergeVars
<1>2. Reachable' = Reachable /\ Known' = Known /\ \A n : Edges(n)' = Edges(n)
  BY <1>1, SameGraph
<1>3. PICK S : merged.functions \in Seq(S) /\ merged.data \in Seq(S)
  BY DEF LinkInv, IInv, SequencesInv
<1>4. CASE CheckShapes
  <2>1. /\ pc = "merged" /\ gc = "wait" /\ UNCHANGED <<kept, live, pending>>
        /\ gc' \in {"mark", "failed"}
        /\ gc' = "failed" =>
              \E i \in 1..Len(objects) : \E d \in DefinitionsOf(objects[i]) : ~ WellShaped(d)
    BY <1>4 DEF CheckShapes
  <2>2. RefusesOnlyReachable'
    BY <1>1, <2>1 DEF RefusesOnlyReachable
  <2> QED BY <1>1, <1>2, <2>1, <2>2 DEF GcInv
<1>5. CASE SkipLive
  <2>1. PICK n \in pending \cap live : pending' = pending \ {n}
    BY <1>5 DEF SkipLive
  <2>2. gc = "mark" /\ UNCHANGED <<kept, live, gc>>
    BY <1>5 DEF SkipLive, Marking
  <2>3. live' \cup pending' = live \cup pending
    BY <2>1, <2>2
  <2>4. RefusesOnlyReachable'
    BY <2>2 DEF RefusesOnlyReachable
  <2> QED BY <1>1, <1>2, <2>2, <2>3, <2>4 DEF GcInv
<1>6. CASE Mark
  <2>1. PICK n \in (pending \cap Known) \ live :
            live' = live \cup {n} /\ pending' = (pending \ {n}) \cup Edges(n)
    BY <1>6 DEF Mark
  <2>2. gc = "mark" /\ UNCHANGED <<kept, gc>>
    BY <1>6 DEF Mark, Marking
  <2>3. live' \cup pending' = live \cup pending \cup Edges(n)
    BY <2>1
  <2>4. live' \cup pending' \subseteq Reachable
    BY <2>1, <2>3, ReachableIsLeast DEF GcInv
  <2>5. \A m \in live' \cap Known : Edges(m) \subseteq live' \cup pending'
    BY <2>1, <2>3 DEF GcInv
  <2>6. RefusesOnlyReachable'
    BY <2>2 DEF RefusesOnlyReachable
  <2>7. live' \subseteq Known
    BY <2>1, <2>2 DEF GcInv
  <2>8. Entry \in live' \cup pending'
    BY <2>3 DEF GcInv
  <2> QED BY <1>1, <1>2, <2>2, <2>4, <2>5, <2>6, <2>7, <2>8 DEF GcInv
<1>7. CASE RefuseMissing
  <2>1. PICK n \in pending \ (Known \cup live) : live' = live \cup {n}
    BY <1>7 DEF RefuseMissing
  <2>2. gc = "mark" /\ gc' = "failed" /\ UNCHANGED <<kept, pending>>
    BY <1>7 DEF RefuseMissing, Marking
  <2>3. n \in Reachable /\ n \notin Symbols(merged)
    BY <1>3, <2>1, KnownAreSymbols DEF GcInv
  <2>4. RefusesOnlyReachable'
    BY <1>1, <1>2, <2>3 DEF RefusesOnlyReachable
  <2>5. live' \cup pending' = live \cup pending
    BY <2>1, <2>2
  <2>6. \A m \in live' \cap Known : Edges(m) \subseteq live' \cup pending'
    BY <2>1, <2>5 DEF GcInv
  <2> QED BY <1>1, <1>2, <2>2, <2>4, <2>5, <2>6 DEF GcInv
<1>8. CASE Sweep
  <2>1. gc = "mark" /\ gc' = "swept" /\ UNCHANGED <<live, pending>> /\ pending = {}
    BY <1>8 DEF Sweep, Marking
  <2>2. DOMAIN merged = {"locals", "functions", "data"}
    BY DEF LinkInv, IInv, TypeOK
  <2>3. /\ kept'.functions = Retained(merged.functions)
        /\ kept'.data = Retained(merged.data)
        /\ kept'.locals = merged.locals \cap live
    BY <1>8, <2>2 DEF Sweep
  <2>4. live \subseteq Known /\ live \subseteq Reachable
    BY <2>1 DEF GcInv
  <2>5. Reachable \subseteq live
    <3>1. live \in SUBSET Universe
      BY <2>4 DEF Reachable
    <3>2. Entry \in live /\ \A n \in live : Edges(n) \subseteq live
      BY <2>1, <2>4 DEF GcInv
    <3> QED BY <3>1, <3>2, ReachableIsLeast
  <2>6. \A defs : Retained(defs)' = Retained(defs)
    BY <2>1 DEF Retained, LivePositions
  <2>7. RefusesOnlyReachable'
    BY <2>1 DEF RefusesOnlyReachable
  <2> QED BY <1>1, <1>2, <2>1, <2>3, <2>4, <2>5, <2>6, <2>7 DEF GcInv
<1> QED BY <1>4, <1>5, <1>6, <1>7, <1>8 DEF KeepReachable, GcNext

LEMMA MarkingPreserves == LinkInv /\ GcInv /\ [LinkNext]_linkVars => GcInv'
<1> SUFFICES ASSUME LinkInv, GcInv, [LinkNext]_linkVars PROVE GcInv'
  OBVIOUS
<1>1. CASE ExtractMembers
  <2>1. status = "extracting"
    BY <1>1 DEF ExtractMembers, ExtractionNext, RefuseObjects, Extract, NextArchive,
                EndOfCommandLine, ReadingArchive
  <2>2. gc = "wait"
    BY <2>1 DEF LinkInv, Idle, GcInv
  <2> QED BY <1>1, <2>2, BeforeMarking DEF ExtractMembers
<1>2. CASE MergeObjects
  <2>1. pc # "merged" \/ Next
    BY <1>2 DEF MergeObjects
  <2>2. Len(objects) \in Nat /\ k \in 1..Len(objects) + 1
    BY InputFacts DEF LinkInv, IInv, TypeOK
  <2>3. pc # "merged"
    BY <1>2 DEF MergeObjects, Next, RefuseNothing, TakeSingle, RefuseObject, Collect, Collecting,
                RefuseEntry, ReserveImports, Collected, ScopeLocal, AppendRenamed, Scoping, FinishMerge
  <2> QED BY <1>2, <2>3, BeforeMarking DEF MergeObjects, GcInv
<1>3. CASE KeepReachable
  BY <1>3, KeepReachablePreserves
<1>4. CASE KeepAll
  <2>1. /\ pc = "merged" /\ gc = "wait" /\ gc' = "all" /\ kept' = merged
        /\ UNCHANGED <<objects, pc, merged, live, pending>>
    BY <1>4 DEF KeepAll, mergeVars
  <2>2. Reachable' = Reachable /\ Known' = Known /\ \A n : Edges(n)' = Edges(n)
    BY <2>1, SameGraph
  <2> QED BY <2>1, <2>2 DEF GcInv, RefusesOnlyReachable
<1>5. CASE UNCHANGED linkVars
  BY <1>5, GcStutters DEF linkVars, mergeVars
<1> QED BY <1>1, <1>2, <1>3, <1>4, <1>5 DEF LinkNext

(* The inductive invariant of the worklist of link_reachable_images.        *)
THEOREM ReachabilityInvariance == LinkSpec => []GcInv
<1>1. LinkInv /\ GcInv /\ [LinkNext]_linkVars => GcInv'
  BY MarkingPreserves
<1> QED BY <1>1, GcInitially, LinkInvariance, PTL DEF LinkSpec

(* At the end nothing is pending, so what is live is closed.                *)
LEMMA SweptDefinitions ==
    ASSUME LinkInv, GcInv, gc = "swept"
    PROVE  /\ DefinitionsOf(kept) = {d \in DefinitionsOf(merged) : d.name \in live}
           /\ Symbols(kept) = Reachable
           /\ Targeted(kept.functions) \cup Targeted(kept.data) \subseteq Symbols(kept)
<1>1. PICK S : merged.functions \in Seq(S) /\ merged.data \in Seq(S)
  BY DEF LinkInv, IInv, SequencesInv
<1>2. ASSUME NEW defs \in Seq(S)
      PROVE  /\ Elements(Retained(defs)) = {d \in Elements(defs) : d.name \in live}
             /\ Len(Retained(defs)) \in Nat
  <2>1. PICK pos :
              /\ Len(Retained(defs)) \in Nat
              /\ \A i \in 1..Len(Retained(defs)) :
                    /\ pos[i] \in LivePositions(defs) /\ pos[i] \in 1..Len(defs)
                    /\ Retained(defs)[i] = defs[pos[i]]
              /\ \A p \in LivePositions(defs) : \E i \in 1..Len(Retained(defs)) : pos[i] = p
    BY RetainedDefinitions
  <2>2. \A d \in Elements(Retained(defs)) : d \in Elements(defs) /\ d.name \in live
    BY <2>1 DEF Elements, LivePositions
  <2>3. \A d \in Elements(defs) : d.name \in live => d \in Elements(Retained(defs))
    BY <2>1 DEF Elements, LivePositions
  <2> QED BY <2>1, <2>2, <2>3
<1>3. /\ live = Reachable /\ live \subseteq Known
      /\ kept.functions = Retained(merged.functions)
      /\ kept.data = Retained(merged.data)
  BY DEF GcInv
<1>4. \A o : DefinitionsOf(o) = Elements(o.functions) \cup Elements(o.data)
  BY DEF DefinitionsOf, Elements
<1>5. DefinitionsOf(kept) = {d \in DefinitionsOf(merged) : d.name \in live}
  BY <1>1, <1>2, <1>3, <1>4
<1>6. Symbols(kept) = {d.name : d \in DefinitionsOf(kept)}
  BY DEF Symbols, Named, DefinitionsOf
<1>7. Symbols(kept) = live
  BY <1>3, <1>5, <1>6 DEF Known
<1>8. \A t \in Targeted(kept.functions) \cup Targeted(kept.data) :
          \E d \in DefinitionsOf(kept) : \E r \in DOMAIN d.relocations : t = d.relocations[r].target
  BY DEF Targeted, DefinitionsOf
<1>9. \A n \in live : Edges(n) \subseteq live
  BY <1>3, ReachableIsLeast
<1>10. \A d \in DefinitionsOf(kept) : \A r \in DOMAIN d.relocations : d.relocations[r].target \in live
  BY <1>5, <1>9 DEF Edges
<1> QED BY <1>3, <1>5, <1>7, <1>8, <1>10

(* --gc-sections keeps what the entry reaches, no more and no less, and what *)
(* is kept refers to nothing else.                                          *)
THEOREM KeepsExactlyReachableHolds == LinkSpec => []KeepsExactlyReachable
<1>1. LinkInv /\ GcInv => KeepsExactlyReachable
  BY SweptDefinitions DEF KeepsExactlyReachable
<1> QED BY <1>1, LinkInvariance, ReachabilityInvariance, PTL

(* A missing name is an error only if the entry reaches it.                 *)
THEOREM RefusesOnlyReachableHolds == LinkSpec => []RefusesOnlyReachable
<1>1. GcInv => RefusesOnlyReachable
  BY DEF GcInv
<1> QED BY <1>1, ReachabilityInvariance, PTL

----------------------------------------------------------------------------
(* What the merge leaves: every definition of every object, once, with its  *)
(* contents, so that what was valid in each object is valid in the result.  *)
Key(d) == <<d.origin, d.was>>

(* No two definitions of an artifact have one value of what tells them apart. *)
ApartByKey(f, g) ==
    /\ \A i, j \in 1..Len(f) : Key(f[i]) = Key(f[j]) => i = j
    /\ \A i, j \in 1..Len(g) : Key(g[i]) = Key(g[j]) => i = j
    /\ \A i \in 1..Len(f), j \in 1..Len(g) : Key(f[i]) # Key(g[j])

ApartByName(f, g) ==
    /\ \A i, j \in 1..Len(f) : f[i].name = f[j].name => i = j
    /\ \A i, j \in 1..Len(g) : g[i].name = g[j].name => i = j
    /\ \A i \in 1..Len(f), j \in 1..Len(g) : f[i].name # g[j].name

(* What validation asks of the contents of a function and of data.          *)
GoodFunction(d) == d.size > 0 /\ d.size % 2 = 0

GoodData(d) ==
    /\ PowerOfTwo(d.align)
    /\ \A r \in DOMAIN d.relocations : d.relocations[r].offset + 4 <= d.size

Whole(i) == \A n \in Symbols(objects[i]) : \E d \in MergedDefinitions : d.origin = i /\ d.was = n

MergedInv ==
    /\ pc = "collect" /\ Several => \A i \in 1..k - 1 : Valid(objects[i])
    /\ pc \in {"scope", "merged"} => \A i \in 1..Len(objects) : Valid(objects[i])
    /\ pc = "scope" => \A i \in 1..k - 1 : Whole(i)
    /\ pc = "merged" => \A i \in 1..Len(objects) : Whole(i)
    /\ ApartByKey(merged.functions, merged.data)
    /\ \A d \in Elements(merged.functions) : GoodFunction(d)
    /\ \A d \in Elements(merged.data) : GoodData(d)
    /\ \A d \in MergedDefinitions : d.was \in Symbols(objects[d.origin])
    /\ pc = "merged" /\ ~ Several => \A d \in MergedDefinitions : d.origin = 1 /\ d.name = d.was

LEMMA ValidByParts ==
    ASSUME NEW o, NEW S, o.functions \in Seq(S), o.data \in Seq(S)
    PROVE  Valid(o) <=>
              /\ Len(o.functions) # 0 \/ Len(o.data) # 0
              /\ o.locals \subseteq Symbols(o)
              /\ ApartByName(o.functions, o.data)
              /\ \A d \in Elements(o.functions) : GoodFunction(d)
              /\ \A d \in Elements(o.data) : GoodData(d)
<1> DEFINE f == o.functions
           g == o.data
           c == f \o g
<1>1. Len(f) \in Nat /\ Len(g) \in Nat /\ DOMAIN f = 1..Len(f) /\ DOMAIN g = 1..Len(g)
  OBVIOUS
<1>2. /\ c \in Seq(S)
      /\ Len(c) = Len(f) + Len(g)
      /\ \A i \in 1..Len(f) + Len(g) : c[i] = IF i <= Len(f) THEN f[i] ELSE g[i - Len(f)]
  BY ConcatProperties
<1>3. DOMAIN c = 1..Len(f) + Len(g)
  BY <1>2
<1>4. c # << >> <=> Len(f) # 0 \/ Len(g) # 0
  <2>1. c = << >> <=> Len(c) = 0
    BY <1>2, EmptySeq
  <2> QED BY <1>1, <1>2, <2>1
<1> HIDE DEF f, g, c
<1>5. \A i \in 1..Len(f) : i \in DOMAIN c /\ c[i] = f[i]
  BY <1>1, <1>2, <1>3
<1>6. \A i \in 1..Len(g) : Len(f) + i \in DOMAIN c /\ c[Len(f) + i] = g[i]
  BY <1>1, <1>2, <1>3
<1>7. \A i \in DOMAIN c : \/ i \in 1..Len(f) /\ c[i] = f[i]
                          \/ i - Len(f) \in 1..Len(g) /\ c[i] = g[i - Len(f)]
  BY <1>1, <1>2, <1>3
<1>8. ASSUME \A i, j \in DOMAIN c : c[i].name = c[j].name => i = j
      PROVE  ApartByName(f, g)
  <2>1. \A i, j \in 1..Len(f) : f[i].name = f[j].name => i = j
    BY <1>5, <1>8
  <2>2. \A i, j \in 1..Len(g) : g[i].name = g[j].name => Len(f) + i = Len(f) + j
    BY <1>6, <1>8
  <2>3. \A i, j \in 1..Len(g) : Len(f) + i = Len(f) + j => i = j
    BY <1>1
  <2>4. \A i \in 1..Len(f), j \in 1..Len(g) : f[i].name = g[j].name => i = Len(f) + j
    BY <1>5, <1>6, <1>8
  <2>5. \A i \in 1..Len(f), j \in 1..Len(g) : i # Len(f) + j
    BY <1>1
  <2> QED BY <2>1, <2>2, <2>3, <2>4, <2>5 DEF ApartByName
<1>9. ASSUME ApartByName(f, g), NEW i \in DOMAIN c, NEW j \in DOMAIN c, c[i].name = c[j].name
      PROVE  i = j
  <2>1. i \in Int /\ j \in Int
    BY <1>1, <1>3
  <2>2. CASE i \in 1..Len(f) /\ c[i] = f[i] /\ j \in 1..Len(f) /\ c[j] = f[j]
    BY <1>9, <2>2 DEF ApartByName
  <2>3. CASE i - Len(f) \in 1..Len(g) /\ c[i] = g[i - Len(f)] /\ j - Len(f) \in 1..Len(g) /\ c[j] = g[j - Len(f)]
    <3>1. i - Len(f) = j - Len(f)
      BY <1>9, <2>3 DEF ApartByName
    <3> QED BY <1>1, <2>1, <3>1
  <2>4. CASE i \in 1..Len(f) /\ c[i] = f[i] /\ j - Len(f) \in 1..Len(g) /\ c[j] = g[j - Len(f)]
    BY <1>9, <2>4 DEF ApartByName
  <2>5. CASE j \in 1..Len(f) /\ c[j] = f[j] /\ i - Len(f) \in 1..Len(g) /\ c[i] = g[i - Len(f)]
    BY <1>9, <2>5 DEF ApartByName
  <2> QED BY <1>7, <2>2, <2>3, <2>4, <2>5
<1>10. (\A d \in Elements(f) : GoodFunction(d)) <=> \A i \in DOMAIN f : f[i].size > 0 /\ f[i].size % 2 = 0
  BY <1>1 DEF Elements, GoodFunction
<1>11. (\A d \in Elements(g) : GoodData(d)) <=>
          \A i \in DOMAIN g :
              /\ PowerOfTwo(g[i].align)
              /\ \A j \in DOMAIN g[i].relocations : g[i].relocations[j].offset + 4 <= g[i].size
  BY <1>1 DEF Elements, GoodData
<1>12. Valid(o) <=>
          /\ c # << >>
          /\ o.locals \subseteq Symbols(o)
          /\ \A i, j \in DOMAIN c : c[i].name = c[j].name => i = j
          /\ \A i \in DOMAIN f : f[i].size > 0 /\ f[i].size % 2 = 0
          /\ \A i \in DOMAIN g :
              /\ PowerOfTwo(g[i].align)
              /\ \A j \in DOMAIN g[i].relocations : g[i].relocations[j].offset + 4 <= g[i].size
  BY DEF Valid, c, f, g
<1> QED BY <1>4, <1>8, <1>9, <1>10, <1>11, <1>12 DEF f, g

(* Renaming keeps the number, the order and the contents of definitions.    *)
LEMMA RenamedContents ==
    ASSUME NEW map, NEW i, NEW defs, Len(defs) \in Nat
    PROVE  /\ \A j \in 1..Len(defs) :
                 /\ Renamed(map, i, defs)[j].origin = i
                 /\ Renamed(map, i, defs)[j].was = defs[j].name
           /\ (\A d \in Elements(defs) : GoodFunction(d)) =>
                 \A d \in Elements(Renamed(map, i, defs)) : GoodFunction(d)
           /\ (\A d \in Elements(defs) : GoodData(d)) =>
                 \A d \in Elements(Renamed(map, i, defs)) : GoodData(d)
<1> DEFINE s == Renamed(map, i, defs)
<1>1. Len(s) = Len(defs)
  BY RenamedSequence
<1>2. ASSUME NEW j \in 1..Len(defs)
      PROVE  /\ s[j].origin = i /\ s[j].was = defs[j].name
             /\ s[j].size = defs[j].size /\ s[j].align = defs[j].align
             /\ DOMAIN s[j].relocations = DOMAIN defs[j].relocations
             /\ \A r \in DOMAIN s[j].relocations :
                    s[j].relocations[r].offset = defs[j].relocations[r].offset
  <2>1. s[j] = RenamedTo(map, i, defs[j], Rename(map, defs[j].name))
    BY DEF Renamed
  <2>2. /\ s[j].origin = i /\ s[j].was = defs[j].name
        /\ s[j].size = defs[j].size /\ s[j].align = defs[j].align
        /\ s[j].relocations = [r \in DOMAIN defs[j].relocations |->
                                   RenamedReference(map, defs[j].relocations[r])]
    BY <2>1 DEF RenamedTo
  <2>3. \A r \in DOMAIN defs[j].relocations :
            s[j].relocations[r].offset = defs[j].relocations[r].offset
    BY <2>2 DEF RenamedReference
  <2> QED BY <2>2, <2>3
<1> HIDE DEF s
<1>3. ASSUME \A d \in Elements(defs) : GoodFunction(d), NEW j \in 1..Len(defs)
      PROVE  GoodFunction(s[j])
  BY <1>2, <1>3 DEF GoodFunction, Elements
<1>4. ASSUME \A d \in Elements(defs) : GoodData(d), NEW j \in 1..Len(defs)
      PROVE  GoodData(s[j])
  BY <1>2, <1>4 DEF GoodData, Elements
<1> QED BY <1>1, <1>2, <1>3, <1>4 DEF s, Elements

LEMMA RenamedApart ==
    ASSUME NEW map, NEW i, NEW f, NEW g, Len(f) \in Nat, Len(g) \in Nat, ApartByName(f, g)
    PROVE  ApartByKey(Renamed(map, i, f), Renamed(map, i, g))
<1> DEFINE s == Renamed(map, i, f)
           t == Renamed(map, i, g)
<1>1. Len(s) = Len(f) /\ Len(t) = Len(g)
  BY RenamedSequence
<1>2. \A j \in 1..Len(f) : Key(s[j]) = <<i, f[j].name>>
  BY RenamedContents DEF Key
<1>3. \A j \in 1..Len(g) : Key(t[j]) = <<i, g[j].name>>
  BY RenamedContents DEF Key
<1> HIDE DEF s, t
<1>4. ApartByKey(s, t)
  BY <1>1, <1>2, <1>3 DEF ApartByKey, ApartByName
<1> QED BY <1>4 DEF s, t

LEMMA ConcatPositions ==
    ASSUME NEW S, NEW s \in Seq(S), NEW t \in Seq(S), NEW i \in 1..Len(s \o t)
    PROVE  \/ i \in 1..Len(s) /\ (s \o t)[i] = s[i] /\ s[i] \in Elements(s)
           \/ i - Len(s) \in 1..Len(t) /\ (s \o t)[i] = t[i - Len(s)] /\ t[i - Len(s)] \in Elements(t)
<1>1. Len(s) \in Nat /\ Len(t) \in Nat
  OBVIOUS
<1>2. /\ Len(s \o t) = Len(s) + Len(t)
      /\ \A j \in 1..Len(s) + Len(t) : (s \o t)[j] = IF j <= Len(s) THEN s[j] ELSE t[j - Len(s)]
  BY ConcatProperties
<1>3. i \in 1..Len(s) + Len(t)
  BY <1>2
<1>4. CASE i <= Len(s)
  BY <1>1, <1>2, <1>3, <1>4 DEF Elements
<1>5. CASE i > Len(s)
  <2>1. i - Len(s) \in 1..Len(t)
    BY <1>1, <1>3, <1>5
  <2> QED BY <1>1, <1>2, <1>3, <1>5, <2>1 DEF Elements
<1> QED BY <1>1, <1>3, <1>4, <1>5

(* Definitions of another object do not meet those that are there.          *)
LEMMA ApartAppended ==
    ASSUME NEW S, NEW f \in Seq(S), NEW g \in Seq(S), NEW a \in Seq(S), NEW b \in Seq(S),
           ApartByKey(f, g), ApartByKey(a, b),
           \A x \in Elements(f) \cup Elements(g), y \in Elements(a) \cup Elements(b) : Key(x) # Key(y)
    PROVE  ApartByKey(f \o a, g \o b)
<1>0. Len(f) \in Nat /\ Len(g) \in Nat
  OBVIOUS
<1>1. ASSUME NEW i \in 1..Len(f \o a), NEW j \in 1..Len(f \o a), Key((f \o a)[i]) = Key((f \o a)[j])
      PROVE  i = j
  <2>1. \/ i \in 1..Len(f) /\ (f \o a)[i] = f[i] /\ f[i] \in Elements(f)
        \/ i - Len(f) \in 1..Len(a) /\ (f \o a)[i] = a[i - Len(f)] /\ a[i - Len(f)] \in Elements(a)
    BY ConcatPositions
  <2>2. \/ j \in 1..Len(f) /\ (f \o a)[j] = f[j] /\ f[j] \in Elements(f)
        \/ j - Len(f) \in 1..Len(a) /\ (f \o a)[j] = a[j - Len(f)] /\ a[j - Len(f)] \in Elements(a)
    BY ConcatPositions
  <2>3. i - Len(f) = j - Len(f) => i = j
    BY <1>0
  <2> QED BY <1>1, <2>1, <2>2, <2>3 DEF ApartByKey
<1>2. ASSUME NEW i \in 1..Len(g \o b), NEW j \in 1..Len(g \o b), Key((g \o b)[i]) = Key((g \o b)[j])
      PROVE  i = j
  <2>1. \/ i \in 1..Len(g) /\ (g \o b)[i] = g[i] /\ g[i] \in Elements(g)
        \/ i - Len(g) \in 1..Len(b) /\ (g \o b)[i] = b[i - Len(g)] /\ b[i - Len(g)] \in Elements(b)
    BY ConcatPositions
  <2>2. \/ j \in 1..Len(g) /\ (g \o b)[j] = g[j] /\ g[j] \in Elements(g)
        \/ j - Len(g) \in 1..Len(b) /\ (g \o b)[j] = b[j - Len(g)] /\ b[j - Len(g)] \in Elements(b)
    BY ConcatPositions
  <2>3. i - Len(g) = j - Len(g) => i = j
    BY <1>0
  <2> QED BY <1>2, <2>1, <2>2, <2>3 DEF ApartByKey
<1>3. ASSUME NEW i \in 1..Len(f \o a), NEW j \in 1..Len(g \o b)
      PROVE  Key((f \o a)[i]) # Key((g \o b)[j])
  <2>1. \/ i \in 1..Len(f) /\ (f \o a)[i] = f[i] /\ f[i] \in Elements(f)
        \/ i - Len(f) \in 1..Len(a) /\ (f \o a)[i] = a[i - Len(f)] /\ a[i - Len(f)] \in Elements(a)
    BY ConcatPositions
  <2>2. \/ j \in 1..Len(g) /\ (g \o b)[j] = g[j] /\ g[j] \in Elements(g)
        \/ j - Len(g) \in 1..Len(b) /\ (g \o b)[j] = b[j - Len(g)] /\ b[j - Len(g)] \in Elements(b)
    BY ConcatPositions
  <2> QED BY <2>1, <2>2 DEF ApartByKey
<1> QED BY <1>1, <1>2, <1>3 DEF ApartByKey

(* A valid object's parts, in the terms of ValidByParts.                    *)
LEMMA ValidInput ==
    ASSUME TypeOK, NEW i \in 1..Len(objects)
    PROVE  /\ Len(objects[i].functions) \in Nat /\ Len(objects[i].data) \in Nat
           /\ Valid(objects[i]) =>
                 /\ objects[i].locals \subseteq Symbols(objects[i])
                 /\ ApartByName(objects[i].functions, objects[i].data)
                 /\ \A d \in Elements(objects[i].functions) : GoodFunction(d)
                 /\ \A d \in Elements(objects[i].data) : GoodData(d)
<1>1. objects[i] \in Objects
  BY InputFacts
<1>2. objects[i].functions \in Seq(Definitions) /\ objects[i].data \in Seq(Definitions)
  BY <1>1 DEF Objects
<1> QED BY <1>1, <1>2, InputFacts, ValidByParts

(* What object i adds to the merged definitions, renamed by map.            *)
Contribution(map, i, f, g) ==
    /\ ApartByKey(f, g)
    /\ \A d \in Elements(f) : GoodFunction(d)
    /\ \A d \in Elements(g) : GoodData(d)
    /\ \A d \in Elements(f) \cup Elements(g) :
          d.origin = i /\ d.was \in Symbols(objects[i]) /\ d.name = Rename(map, d.was)
    /\ \A n \in Symbols(objects[i]) :
          \E d \in Elements(f) \cup Elements(g) : d.origin = i /\ d.was = n

LEMMA RenamedObject ==
    ASSUME TypeOK, NEW map, NEW i \in 1..Len(objects), Valid(objects[i])
    PROVE  Contribution(map, i, Renamed(map, i, objects[i].functions), Renamed(map, i, objects[i].data))
<1> DEFINE o == objects[i]
           f == Renamed(map, i, o.functions)
           g == Renamed(map, i, o.data)
<1>1. Len(o.functions) \in Nat /\ Len(o.data) \in Nat
  BY ValidInput
<1>2. Elements(f) = RenamedSet(map, i, o.functions) /\ Elements(g) = RenamedSet(map, i, o.data)
      /\ Len(f) = Len(o.functions) /\ Len(g) = Len(o.data)
  BY <1>1, RenamedSequence DEF Elements
<1>3. ApartByKey(f, g)
  BY <1>1, ValidInput, RenamedApart
<1>4. (\A d \in Elements(f) : GoodFunction(d)) /\ (\A d \in Elements(g) : GoodData(d))
  BY <1>1, ValidInput, RenamedContents
<1>5. \A d \in Elements(f) \cup Elements(g) :
          d.origin = i /\ d.was \in Symbols(o) /\ d.name = Rename(map, d.was)
  <2> HIDE DEF f, g
  <2> QED BY <1>2, UsesOfRenamed DEF Symbols
<1>6. ASSUME NEW n \in Symbols(o)
      PROVE  \E d \in Elements(f) \cup Elements(g) : d.origin = i /\ d.was = n
  <2>1. CASE n \in Named(o.functions)
    <3>1. PICK j \in 1..Len(o.functions) : n = o.functions[j].name
      BY <2>1 DEF Named
    <3>2. f[j].origin = i /\ f[j].was = n /\ f[j] \in Elements(f)
      BY <1>1, <1>2, <3>1, RenamedContents DEF Elements
    <3> QED BY <3>2
  <2>2. CASE n \in Named(o.data)
    <3>1. PICK j \in 1..Len(o.data) : n = o.data[j].name
      BY <2>2 DEF Named
    <3>2. g[j].origin = i /\ g[j].was = n /\ g[j] \in Elements(g)
      BY <1>1, <1>2, <3>1, RenamedContents DEF Elements
    <3> QED BY <3>2
  <2> QED BY <2>1, <2>2 DEF Symbols
<1> QED BY <1>3, <1>4, <1>5, <1>6 DEF Contribution

LEMMA MergedElements == MergedDefinitions = Elements(merged.functions) \cup Elements(merged.data)
BY DEF MergedDefinitions, Elements

LEMMA NothingMerged ==
    /\ merged = Empty /\ pc \notin {"scope", "merged"}
    /\ pc = "collect" /\ Several => \A i \in 1..k - 1 : Valid(objects[i])
    => MergedInv
<1> SUFFICES ASSUME merged = Empty, pc \notin {"scope", "merged"},
                    pc = "collect" /\ Several => \A i \in 1..k - 1 : Valid(objects[i])
             PROVE  MergedInv
  OBVIOUS
<1>1. merged.functions = << >> /\ merged.data = << >>
  BY DEF Empty
<1>2. Len(<< >>) = 0 /\ 1..0 = {}
  BY EmptySeq
<1>3. Elements(merged.functions) = {} /\ Elements(merged.data) = {}
  BY <1>1, <1>2 DEF Elements
<1>4. ApartByKey(merged.functions, merged.data)
  BY <1>1, <1>2 DEF ApartByKey
<1> QED BY <1>3, <1>4, MergedElements DEF MergedInv

(* Steps that leave the merged definitions alone.                           *)
LEMMA SameContents ==
    ASSUME MergedInv, merged'.functions = merged.functions, merged'.data = merged.data,
           UNCHANGED objects
    PROVE  /\ MergedDefinitions' = MergedDefinitions
           /\ \A i : Whole(i)' = Whole(i)
           /\ ApartByKey(merged.functions, merged.data)'
           /\ \A d \in Elements(merged'.functions) : GoodFunction(d)
           /\ \A d \in Elements(merged'.data) : GoodData(d)
           /\ \A d \in MergedDefinitions' : d.was \in Symbols(objects'[d.origin])
<1>1. MergedDefinitions' = MergedDefinitions
  BY DEF MergedDefinitions
<1>2. \A i : Whole(i)' = Whole(i)
  BY <1>1 DEF Whole
<1> QED BY <1>1, <1>2 DEF MergedInv, ApartByKey

LEMMA MergeOneKeeps == IInv /\ MergedInv /\ TakeSingle => MergedInv'
<1> SUFFICES ASSUME IInv, MergedInv, TakeSingle PROVE MergedInv'
  OBVIOUS
<1> DEFINE f == Renamed(<< >>, 1, objects[1].functions)
           g == Renamed(<< >>, 1, objects[1].data)
<1>1. /\ UNCHANGED <<objects, k, occupied, names>> /\ pc' = "merged"
      /\ Single /\ Valid(objects[1])
      /\ merged'.functions = f /\ merged'.data = g
  BY DEF TakeSingle
<1>2. 1 \in 1..Len(objects) /\ 1..Len(objects) = {1} /\ ~ Several'
  BY <1>1 DEF Single, Several
<1>3. TypeOK
  BY DEF IInv
<1>4. Contribution(<< >>, 1, f, g)
  BY <1>1, <1>2, <1>3, RenamedObject
<1>5. \A n : Rename(<< >>, n) = n
  BY DEF Rename
<1> HIDE DEF f, g
<1>6. MergedDefinitions' = Elements(f) \cup Elements(g)
  BY <1>1 DEF MergedDefinitions, Elements
<1>7. \A i \in 1..Len(objects) : Whole(i)'
  BY <1>1, <1>2, <1>4, <1>6 DEF Whole, Contribution
<1> QED BY <1>1, <1>2, <1>4, <1>5, <1>6, <1>7 DEF MergedInv, Contribution

LEMMA MergeCollectKeeps == IInv /\ MergedInv /\ Collect => MergedInv'
<1> SUFFICES ASSUME IInv, MergedInv, Collect PROVE MergedInv'
  OBVIOUS
<1>1. /\ pc = "collect" /\ pc' = "collect" /\ Several /\ k' = k + 1 /\ Valid(objects[k])
      /\ UNCHANGED <<objects, merged>> /\ merged = Empty
  BY DEF Collect, Collecting, Acceptable, IInv, StateInv
<1>2. k \in Nat
  BY DEF IInv, TypeOK
<1>3. 1..k' - 1 = (1..k - 1) \cup {k}
  <2>1. k \in 1..Len(objects) + 1
    BY DEF IInv, TypeOK
  <2> QED BY <1>1, <1>2, <2>1
<1>4. \A i \in 1..k' - 1 : Valid(objects[i])
  BY <1>1, <1>3 DEF MergedInv
<1>5. merged' = Empty
  BY <1>1
<1>6. pc' \notin {"scope", "merged"}
  BY <1>1
<1>7. (/\ merged = Empty /\ pc \notin {"scope", "merged"}
       /\ pc = "collect" /\ Several => \A i \in 1..k - 1 : Valid(objects[i]))'
  BY <1>1, <1>4, <1>5, <1>6
<1> QED BY <1>7, NothingMerged, PTL

LEMMA MergeReserveKeeps == IInv /\ MergedInv /\ ReserveImports => MergedInv'
<1> SUFFICES ASSUME IInv, MergedInv, ReserveImports PROVE MergedInv'
  OBVIOUS
<1>1. /\ UNCHANGED <<objects, names, merged>>
      /\ pc = "collect" /\ pc' = "scope" /\ Several /\ k' = 1 /\ k > Len(objects)
  BY DEF ReserveImports, Collected
<1>2. Len(objects) \in Nat /\ k = Len(objects) + 1
  BY <1>1, InputFacts DEF IInv, TypeOK
<1>3. k - 1 = Len(objects) /\ 1..k' - 1 = {}
  BY <1>1, <1>2
<1>4. \A i \in 1..Len(objects) : Valid(objects[i])
  BY <1>1, <1>3 DEF MergedInv
<1> QED BY <1>1, <1>3, <1>4, SameContents DEF MergedInv

LEMMA MergeScopeKeeps == IInv /\ MergedInv /\ ScopeLocal => MergedInv'
<1> SUFFICES ASSUME IInv, MergedInv, ScopeLocal PROVE MergedInv'
  OBVIOUS
<1>1. Scoping /\ UNCHANGED <<objects, pc, k>>
  BY DEF ScopeLocal
<1>2. merged'.functions = merged.functions /\ merged'.data = merged.data
  BY DEF ScopeLocal, Choose
<1>3. pc = "scope"
  BY <1>1 DEF Scoping
<1> QED BY <1>1, <1>2, <1>3, SameContents DEF MergedInv

LEMMA MergeFinishKeeps == IInv /\ MergedInv /\ FinishMerge => MergedInv'
<1> SUFFICES ASSUME IInv, MergedInv, FinishMerge PROVE MergedInv'
  OBVIOUS
<1>1. pc = "scope" /\ pc' = "merged" /\ UNCHANGED <<objects, k, merged>> /\ k > Len(objects) /\ Several
  BY DEF FinishMerge, IInv, StateInv
<1>2. Len(objects) \in Nat /\ k = Len(objects) + 1
  BY <1>1, InputFacts DEF IInv, TypeOK
<1>3. k - 1 = Len(objects)
  BY <1>2
<1>4. \A i \in 1..Len(objects) : Whole(i)
  BY <1>1, <1>3 DEF MergedInv
<1>5. Several'
  BY <1>1 DEF Several
<1> QED BY <1>1, <1>4, <1>5, SameContents DEF MergedInv

LEMMA MergeAppendKeeps == IInv /\ MergedInv /\ AppendRenamed => MergedInv'
<1> SUFFICES ASSUME IInv, MergedInv, AppendRenamed PROVE MergedInv'
  OBVIOUS
<1> DEFINE f == Renamed(names, k, objects[k].functions)
           g == Renamed(names, k, objects[k].data)
<1>1. /\ Scoping /\ UNCHANGED <<objects, pc>> /\ k' = k + 1
      /\ merged'.functions = merged.functions \o f
      /\ merged'.data = merged.data \o g
  BY DEF AppendRenamed
<1>2. UsesInv /\ Len(objects) \in Nat /\ k \in 1..Len(objects)
  BY <1>1, ScopeFacts
<1>3. pc = "scope" /\ pc' = "scope"
  BY <1>1 DEF Scoping
<1>4. Valid(objects[k]) /\ TypeOK
  BY <1>2, <1>3 DEF MergedInv, IInv
<1>5. /\ ApartByKey(f, g)
      /\ \A d \in Elements(f) : GoodFunction(d)
      /\ \A d \in Elements(g) : GoodData(d)
      /\ \A d \in Elements(f) \cup Elements(g) : d.origin = k /\ d.was \in Symbols(objects[k])
      /\ \A n \in Symbols(objects[k]) :
            \E d \in Elements(f) \cup Elements(g) : d.origin = k /\ d.was = n
  <2>1. Contribution(names, k, f, g)
    BY <1>2, <1>4, RenamedObject
  <2> HIDE DEF f, g
  <2> QED BY <2>1 DEF Contribution
<1>6. PICK S : merged.functions \in Seq(S) /\ merged.data \in Seq(S)
  BY DEF IInv, SequencesInv
<1>7. Len(objects[k].functions) \in Nat /\ Len(objects[k].data) \in Nat
  BY <1>2, <1>4, ValidInput
<1> DEFINE T == S \cup RenamedSet(names, k, objects[k].functions) \cup RenamedSet(names, k, objects[k].data)
<1>8. /\ merged.functions \in Seq(T) /\ merged.data \in Seq(T)
      /\ f \in Seq(T) /\ g \in Seq(T)
  <2>1. /\ f \in Seq(RenamedSet(names, k, objects[k].functions))
        /\ g \in Seq(RenamedSet(names, k, objects[k].data))
    BY <1>7, RenamedSequence
  <2> HIDE DEF f, g
  <2> QED BY <1>6, <2>1
<1> HIDE DEF f, g, T
<1>9. /\ Elements(merged'.functions) = Elements(merged.functions) \cup Elements(f)
      /\ Elements(merged'.data) = Elements(merged.data) \cup Elements(g)
  BY <1>1, <1>8, ElementsOfConcat
<1>10. MergedDefinitions = Elements(merged.functions) \cup Elements(merged.data)
  BY MergedElements
<1>11. MergedDefinitions' = Elements(merged'.functions) \cup Elements(merged'.data)
  BY DEF MergedDefinitions, Elements
<1>12. \A d \in MergedDefinitions : d.origin \in 1..k - 1
  <2> SUFFICES ASSUME NEW d \in MergedDefinitions PROVE d.origin \in 1..k - 1
    OBVIOUS
  <2>1. <<d.origin, d.was, d.name>> \in Uses
    BY UseOfName
  <2>2. d.origin \in 1..Len(objects) /\ d.origin < k
    BY <1>2, <1>3, <2>1 DEF UsesInv
  <2> QED BY <1>2, <2>2
<1>13. \A x \in Elements(merged.functions) \cup Elements(merged.data), y \in Elements(f) \cup Elements(g) :
           Key(x) # Key(y)
  BY <1>2, <1>5, <1>10, <1>12 DEF Key
<1>14. ApartByKey(merged.functions, merged.data)'
  <2>1. ApartByKey(merged.functions, merged.data)
    BY DEF MergedInv
  <2>2. ApartByKey(merged.functions \o f, merged.data \o g)
    BY <1>5, <1>8, <1>13, <2>1, ApartAppended
  <2> QED BY <1>1, <2>2 DEF ApartByKey
<1>15. \A d \in Elements(merged'.functions) : GoodFunction(d)
  BY <1>5, <1>9 DEF MergedInv
<1>16. \A d \in Elements(merged'.data) : GoodData(d)
  BY <1>5, <1>9 DEF MergedInv
<1>17. MergedDefinitions' = MergedDefinitions \cup Elements(f) \cup Elements(g)
  BY <1>9, <1>10, <1>11
<1>18. \A i \in 1..k : Whole(i)'
  <2>1. \A i \in 1..k - 1 : Whole(i)
    BY <1>3 DEF MergedInv
  <2> SUFFICES ASSUME NEW i \in 1..k, NEW n \in Symbols(objects[i])
               PROVE  \E d \in MergedDefinitions' : d.origin = i /\ d.was = n
    BY <1>1 DEF Whole
  <2>2. CASE i \in 1..k - 1
    BY <1>17, <2>1, <2>2 DEF Whole
  <2>3. CASE i = k
    BY <1>5, <1>17, <2>3
  <2>4. 1..k = (1..k - 1) \cup {k}
    BY <1>2
  <2> QED BY <2>2, <2>3, <2>4
<1>19. 1..k' - 1 = 1..k
  BY <1>1, <1>2
<1>20. \A d \in MergedDefinitions' : d.was \in Symbols(objects'[d.origin])
  BY <1>1, <1>5, <1>17 DEF MergedInv
<1> QED BY <1>1, <1>3, <1>14, <1>15, <1>16, <1>18, <1>19, <1>20 DEF MergedInv

LEMMA MergeFailKeeps == ASSUME IInv, MergedInv, pc = "collect", Fail PROVE MergedInv'
<1>1. UNCHANGED <<objects, merged>> /\ pc' = "failed"
  BY DEF Fail
<1> QED BY <1>1, SameContents DEF MergedInv

LEMMA MergeStutterKeeps == ASSUME MergedInv, UNCHANGED <<objects, pc, k, merged>> PROVE MergedInv'
<1>1. Several' = Several
  BY DEF Several
<1> QED BY <1>1, SameContents DEF MergedInv

THEOREM MergedInductive == IInv /\ MergedInv /\ [Next]_vars => MergedInv'
<1> SUFFICES ASSUME IInv, MergedInv, [Next]_vars PROVE MergedInv'
  OBVIOUS
<1>1. CASE RefuseNothing
  BY <1>1, MergeFailKeeps DEF RefuseNothing
<1>2. CASE RefuseObject
  BY <1>2, MergeFailKeeps DEF RefuseObject, Collecting
<1>3. CASE RefuseEntry
  BY <1>3, MergeFailKeeps DEF RefuseEntry, Collected
<1>4. CASE UNCHANGED vars
  BY <1>4, MergeStutterKeeps DEF vars
<1> QED BY <1>1, <1>2, <1>3, <1>4, MergeOneKeeps, MergeCollectKeeps, MergeReserveKeeps, MergeScopeKeeps,
           MergeAppendKeeps, MergeFinishKeeps DEF Next

LEMMA IdleIsMerged == Idle => MergedInv
<1> SUFFICES ASSUME Idle PROVE MergedInv
  OBVIOUS
<1>1. merged = Empty /\ pc = "collect" /\ k = 1
  BY DEF Idle
<1>2. 1..k - 1 = {}
  BY <1>1
<1> QED BY <1>1, <1>2, NothingMerged

(* Two uses of one name after the merge are uses of one definition.          *)
LEMMA SameNameSameDefinition ==
    ASSUME IInv, MergedInv, pc = "merged", NEW d \in MergedDefinitions, NEW e \in MergedDefinitions,
           d.name = e.name
    PROVE  Key(d) = Key(e)
<1> DEFINE u == <<d.origin, d.was, d.name>>
           v == <<e.origin, e.was, e.name>>
<1>1. u \in Uses /\ v \in Uses
  BY UseOfName
<1>2. CASE ~ Several
  BY <1>2 DEF MergedInv, Key
<1>3. CASE Several
  <2>1. UsesInv /\ LocalsStayPrivate /\ Linkable
    BY <1>3 DEF IInv, StateInv
  <2>2. d.origin \in 1..Len(objects) /\ e.origin \in 1..Len(objects)
    BY <1>1, <2>1 DEF UsesInv
  <2>3. CASE Local(u) /\ Local(v)
    BY <1>1, <2>1, <2>3 DEF UsesInv, Key
  <2>4. ASSUME NEW x \in Uses, NEW y \in Uses, Local(x), ~ Local(y) PROVE x[3] # y[3]
    <3>1. x[3] \in merged.locals /\ y[3] \in Public(y[1]) /\ y[1] \in 1..Len(objects)
      BY <2>1, <2>4 DEF UsesInv
    <3> QED BY <1>3, <2>1, <3>1 DEF LocalsStayPrivate, Public
  <2>5. CASE ~ Local(u) /\ ~ Local(v)
    <3>1. d.was = d.name /\ e.was = e.name
      BY <1>1, <2>1, <2>5 DEF UsesInv
    <3>2. d.was \in External(objects[d.origin]) /\ e.was \in External(objects[e.origin])
      BY <2>5 DEF MergedInv, Local, External
    <3>3. d.origin = e.origin
      BY <1>3, <2>1, <2>2, <3>1, <3>2 DEF Linkable
    <3> QED BY <3>1, <3>3 DEF Key
  <2>6. u[3] = v[3]
    OBVIOUS
  <2> QED BY <1>1, <2>3, <2>4, <2>5, <2>6
<1> QED BY <1>2, <1>3

LEMMA MergedNamesApart ==
    ASSUME IInv, MergedInv, pc = "merged"
    PROVE  ApartByName(merged.functions, merged.data)
<1>1. /\ \A i \in 1..Len(merged.functions) : merged.functions[i] \in MergedDefinitions
      /\ \A i \in 1..Len(merged.data) : merged.data[i] \in MergedDefinitions
  BY DEF MergedDefinitions
<1>2. ApartByKey(merged.functions, merged.data)
  BY DEF MergedInv
<1> QED BY <1>1, <1>2, SameNameSameDefinition DEF ApartByKey, ApartByName

LEMMA RetainedApart ==
    ASSUME NEW S, NEW f \in Seq(S), NEW g \in Seq(S), ApartByName(f, g)
    PROVE  /\ Retained(f) \in Seq(S) /\ Retained(g) \in Seq(S)
           /\ ApartByName(Retained(f), Retained(g))
           /\ Elements(Retained(f)) \subseteq Elements(f)
           /\ Elements(Retained(g)) \subseteq Elements(g)
<1>1. PICK pos :
          /\ Retained(f) \in Seq(S)
          /\ \A i \in 1..Len(Retained(f)) : pos[i] \in 1..Len(f) /\ Retained(f)[i] = f[pos[i]]
          /\ \A i, j \in 1..Len(Retained(f)) : pos[i] = pos[j] => i = j
  BY RetainedDefinitions
<1>2. PICK on :
          /\ Retained(g) \in Seq(S)
          /\ \A i \in 1..Len(Retained(g)) : on[i] \in 1..Len(g) /\ Retained(g)[i] = g[on[i]]
          /\ \A i, j \in 1..Len(Retained(g)) : on[i] = on[j] => i = j
  BY RetainedDefinitions
<1>3. ASSUME NEW i \in 1..Len(Retained(f)), NEW j \in 1..Len(Retained(f)),
             Retained(f)[i].name = Retained(f)[j].name
      PROVE  i = j
  <2>1. pos[i] \in 1..Len(f) /\ pos[j] \in 1..Len(f) /\ f[pos[i]].name = f[pos[j]].name
    BY <1>1, <1>3
  <2>2. pos[i] = pos[j]
    BY <2>1, Zenon DEF ApartByName
  <2> QED BY <1>1, <2>2
<1>4. ASSUME NEW i \in 1..Len(Retained(g)), NEW j \in 1..Len(Retained(g)),
             Retained(g)[i].name = Retained(g)[j].name
      PROVE  i = j
  <2>1. on[i] \in 1..Len(g) /\ on[j] \in 1..Len(g) /\ g[on[i]].name = g[on[j]].name
    BY <1>2, <1>4
  <2>2. on[i] = on[j]
    BY <2>1, Zenon DEF ApartByName
  <2> QED BY <1>2, <2>2
<1>5. ASSUME NEW i \in 1..Len(Retained(f)), NEW j \in 1..Len(Retained(g))
      PROVE  Retained(f)[i].name # Retained(g)[j].name
  <2>1. pos[i] \in 1..Len(f) /\ on[j] \in 1..Len(g) /\ f[pos[i]] = Retained(f)[i] /\ g[on[j]] = Retained(g)[j]
    BY <1>1, <1>2
  <2>2. f[pos[i]].name # g[on[j]].name
    BY <2>1, Zenon DEF ApartByName
  <2> QED BY <2>1, <2>2
<1>6. Elements(Retained(f)) \subseteq Elements(f) /\ Elements(Retained(g)) \subseteq Elements(g)
  <2>1. \A i \in 1..Len(Retained(f)) : Retained(f)[i] \in Elements(f)
    BY <1>1, Zenon DEF Elements
  <2>2. \A i \in 1..Len(Retained(g)) : Retained(g)[i] \in Elements(g)
    BY <1>2, Zenon DEF Elements
  <2> QED BY <2>1, <2>2 DEF Elements
<1>7. ApartByName(Retained(f), Retained(g))
  BY <1>3, <1>4, <1>5 DEF ApartByName
<1> QED BY <1>1, <1>2, <1>6, <1>7

LEMMA SweptValid ==
    ASSUME LinkInv, MergedInv, GcInv
    PROVE  SweptIsValid
<1> SUFFICES ASSUME gc = "swept" PROVE Valid(kept)
  BY DEF SweptIsValid
<1>1. PICK S : merged.functions \in Seq(S) /\ merged.data \in Seq(S)
  BY DEF LinkInv, IInv, SequencesInv
<1>2. /\ live = Reachable /\ pc = "merged"
      /\ kept.functions = Retained(merged.functions)
      /\ kept.data = Retained(merged.data)
      /\ kept.locals = merged.locals \cap live
  BY DEF GcInv
<1>3. ApartByName(merged.functions, merged.data)
  BY <1>2, MergedNamesApart DEF LinkInv
<1>4. /\ kept.functions \in Seq(S) /\ kept.data \in Seq(S)
      /\ ApartByName(kept.functions, kept.data)
      /\ Elements(kept.functions) \subseteq Elements(merged.functions)
      /\ Elements(kept.data) \subseteq Elements(merged.data)
  BY <1>1, <1>2, <1>3, RetainedApart
<1>7. \A d \in Elements(kept.functions) : GoodFunction(d)
  BY <1>4 DEF MergedInv
<1>8. \A d \in Elements(kept.data) : GoodData(d)
  BY <1>4 DEF MergedInv
<1>9. Symbols(kept) = Reachable
  BY SweptDefinitions
<1>10. kept.locals \subseteq Symbols(kept)
  BY <1>2, <1>9
<1>11. Len(kept.functions) # 0 \/ Len(kept.data) # 0
  <2>1. Entry \in Symbols(kept)
    BY <1>9, ReachableIsLeast
  <2> QED BY <2>1 DEF Symbols, Named
<1> QED BY <1>4, <1>7, <1>8, <1>10, <1>11, ValidByParts

LEMMA LinkedDangles ==
    ASSUME LinkInv, MergedInv, GcInv
    PROVE  NothingDangles
<1> SUFFICES ASSUME Linked PROVE NothingDangles
  BY DEF NothingDangles
<1>1. pc = "merged" /\ gc \in {"all", "swept"}
  BY DEF Linked, GcInv
<1>2. DefinitionsOf(merged) = MergedDefinitions
  BY DEF DefinitionsOf, MergedDefinitions
<1>3. DefinitionsOf(kept) \subseteq MergedDefinitions
  <2>1. CASE gc = "all"
    BY <1>2, <2>1 DEF GcInv
  <2>2. CASE gc = "swept"
    BY <1>2, <2>2, SweptDefinitions
  <2> QED BY <1>1, <2>1, <2>2
<1>4. \A d, e \in DefinitionsOf(kept) : d.name = e.name => d.origin = e.origin /\ d.was = e.was
  BY <1>1, <1>3, SameNameSameDefinition DEF LinkInv, Key
<1>5. ASSUME NEW d \in DefinitionsOf(kept), NEW r \in DOMAIN d.relocations,
             d.relocations[r].was \in Symbols(objects[d.origin])
                \cup UNION {External(objects[i]) : i \in 1..Len(objects)}
      PROVE  d.relocations[r].target \in Symbols(kept)
  <2> DEFINE n == d.relocations[r].was
  <2>1. d \in MergedDefinitions
    BY <1>3
  <2>2. d.origin \in 1..Len(objects)
    <3>1. <<d.origin, d.was, d.name>> \in Uses
      BY <2>1, UseOfName
    <3>2. CASE Several
      BY <1>1, <3>1, <3>2 DEF LinkInv, IInv, StateInv, UsesInv
    <3>3. CASE ~ Several
      <4>1. d.origin = 1
        BY <1>1, <2>1, <3>3 DEF MergedInv
      <4>2. Len(objects) \in Nat /\ Len(objects) # 0
        BY <1>1, InputFacts DEF LinkInv, IInv, RefusesExactlyUnlinkable, Linkable
      <4> QED BY <4>1, <4>2
    <3> QED BY <3>2, <3>3
  <2>3. PICK i \in 1..Len(objects) :
            /\ n \in Symbols(objects[i])
            /\ IF n \in objects[d.origin].locals THEN i = d.origin ELSE n \notin objects[i].locals
    <3>1. CASE n \in Symbols(objects[d.origin])
      BY <2>2, <3>1
    <3>2. CASE n \notin Symbols(objects[d.origin])
      <4>1. Valid(objects[d.origin])
        BY <1>1, <2>2 DEF MergedInv
      <4>2. n \notin objects[d.origin].locals
        BY <2>2, <3>2, <4>1, ValidInput DEF LinkInv, IInv
      <4>3. PICK i \in 1..Len(objects) : n \in External(objects[i])
        BY <1>5, <3>2
      <4> QED BY <4>2, <4>3 DEF External
    <3> QED BY <3>1, <3>2
  <2>4. PICK e \in MergedDefinitions : e.origin = i /\ e.was = n
    BY <1>1, <2>3 DEF MergedInv, Whole
  <2>5. Denotes(d.origin, n, e.origin, e.was)
    BY <2>3, <2>4 DEF Denotes
  <2>6. d.relocations[r].target = e.name
    BY <2>1, <2>4, <2>5, UsesAreBound DEF LinkInv, BindingPreserved
  <2>7. CASE gc = "all"
    <3>1. Symbols(kept) = {c.name : c \in MergedDefinitions}
      BY <2>7 DEF GcInv, Symbols, Named, MergedDefinitions
    <3> QED BY <2>4, <2>6, <3>1
  <2>8. CASE gc = "swept"
    <3>1. d.relocations[r].target \in Targeted(kept.functions) \cup Targeted(kept.data)
      BY DEF Targeted, DefinitionsOf
    <3> QED BY <2>8, <3>1, SweptDefinitions
  <2> QED BY <1>1, <2>7, <2>8
<1> QED BY <1>4, <1>5 DEF NothingDangles

(* The inductive invariant of what merge_objects puts into its result.      *)
THEOREM MergedInvariance == LinkSpec => []MergedInv
<1>1. LinkInit => MergedInv
  BY IdleIsMerged DEF LinkInit
<1>2. LinkInv /\ MergedInv /\ [LinkNext]_linkVars => MergedInv'
  <2> SUFFICES ASSUME LinkInv, MergedInv, [LinkNext]_linkVars PROVE MergedInv'
    OBVIOUS
  <2>1. CASE ExtractMembers
    <3>1. status = "extracting"
      BY <2>1 DEF ExtractMembers, ExtractionNext, RefuseObjects, Extract, NextArchive,
                  EndOfCommandLine, ReadingArchive
    <3>2. Idle'
      BY <2>1, <3>1 DEF LinkInv, ExtractMembers, mergeVars, Idle
    <3> QED BY <3>2, IdleIsMerged, PTL
  <2>2. CASE MergeObjects
    BY <2>2, MergedInductive DEF LinkInv, MergeObjects
  <2>3. CASE KeepReachable
    BY <2>3, MergeStutterKeeps DEF KeepReachable, mergeVars
  <2>4. CASE KeepAll
    BY <2>4, MergeStutterKeeps DEF KeepAll, mergeVars
  <2>5. CASE UNCHANGED linkVars
    BY <2>5, MergeStutterKeeps DEF linkVars, mergeVars
  <2> QED BY <2>1, <2>2, <2>3, <2>4, <2>5 DEF LinkNext
<1> QED BY <1>1, <1>2, LinkInvariance, PTL DEF LinkSpec

(* What is left of a merge of valid objects passes validation.              *)
THEOREM SweptIsValidHolds == LinkSpec => []SweptIsValid
  BY SweptValid, LinkInvariance, MergedInvariance, ReachabilityInvariance, PTL

(* Whichever way the link went, a reference that had a definition among the *)
(* objects has one in what is laid out, and no name has two.                *)
THEOREM NothingDanglesHolds == LinkSpec => []NothingDangles
  BY LinkedDangles, LinkInvariance, MergedInvariance, ReachabilityInvariance, PTL
=============================================================================
