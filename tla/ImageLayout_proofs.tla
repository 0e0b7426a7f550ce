------------------------- MODULE ImageLayout_proofs -------------------------
(* Proofs about ImageLayout for every address space, job and alignment.     *)
EXTENDS ImageLayout, WellFoundedInduction, TLAPS

IInv ==
    /\ job \in Jobs
    /\ \E S : regions \in Seq(S)
    /\ Len(regions) <= Len(Defs)
    /\ pc = "check" => regions = << >>
    /\ pc \notin {"check", "failed"} => Valid(job.artifact)
    /\ cursor \in Nat /\ job.base <= cursor /\ cursor <= Limit
    /\ \A i \in 1..Len(regions) :
          /\ regions[i].address \in Nat
          /\ regions[i].size \in Nat
    /\ StorageIsApart

----------------------------------------------------------------------------
LEMMA MultipleMod ==
    ASSUME NEW a \in Nat \ {0}, NEW m \in Int
    PROVE  (a * m) % a = 0
OBVIOUS

LEMMA DivMod ==
    ASSUME NEW a \in Nat \ {0}, NEW x \in Int
    PROVE  \E q \in Int : x = (a * q) + (x % a)
<1>1. x \div a \in Int
  OBVIOUS
<1>2. x = (a * (x \div a)) + (x % a)
  OBVIOUS
<1> QED BY <1>1, <1>2

(* Rounding up: by less than the alignment, to a multiple of it.            *)
LEMMA AlignUpProperties ==
    ASSUME NEW c \in Nat, NEW a \in Nat \ {0}
    PROVE  /\ AlignUp(c, a) \in Nat
           /\ c <= AlignUp(c, a)
           /\ AlignUp(c, a) < c + a
           /\ AlignUp(c, a) % a = 0
<1>1. (-c) % a \in 0..a - 1
  OBVIOUS
<1>2. PICK q \in Int : 0 - c = (a * q) + ((0 - c) % a)
  <2>1. 0 - c \in Int
    OBVIOUS
  <2> QED BY <2>1, DivMod
<1> DEFINE m == 0 - q
<1>3. c + ((-c) % a) = a * m
  BY <1>1, <1>2
<1>4. (a * m) % a = 0
  <2>1. m \in Int
    OBVIOUS
  <2> HIDE DEF m
  <2> QED BY <2>1, MultipleMod
<1> QED BY <1>1, <1>3, <1>4 DEF AlignUp

----------------------------------------------------------------------------
(* The definitions of an artifact: its functions, then its data.            *)
IsDefinition(d) ==
    /\ d.size \in Nat /\ d.align \in Nat
    /\ Len(d.relocations) \in Nat
    /\ DOMAIN d.relocations = 1..Len(d.relocations)
    /\ \A k \in 1..Len(d.relocations) :
          d.relocations[k].offset \in Nat /\ d.relocations[k].addend \in Int

LEMMA SequenceFacts == ASSUME NEW s, IsSequence(s) PROVE Len(s) \in Nat /\ DOMAIN s = 1..Len(s)
BY DEF IsSequence

LEMMA Appended ==
    ASSUME NEW s, NEW t, IsSequence(s), IsSequence(t)
    PROVE  /\ DOMAIN (s \o t) = 1..Len(s \o t)
           /\ Len(s \o t) = Len(s) + Len(t)
           /\ \A i \in 1..Len(s) : (s \o t)[i] = s[i]
           /\ \A i \in 1..Len(t) : (s \o t)[Len(s) + i] = t[i]
           /\ \A i \in 1..Len(s) + Len(t) : i > Len(s) => (s \o t)[i] = t[i - Len(s)]
<1> DEFINE S == {s[i] : i \in DOMAIN s} \cup {t[i] : i \in DOMAIN t}
<1>1. s \in Seq(S) /\ t \in Seq(S)
  BY DEF IsSequence
<1> HIDE DEF S
<1> QED BY <1>1

LEMMA FromEither ==
    ASSUME NEW s, NEW t, IsSequence(s), IsSequence(t), NEW i \in 1..Len(s \o t)
    PROVE  \/ \E k \in DOMAIN s : (s \o t)[i] = s[k]
           \/ \E k \in DOMAIN t : (s \o t)[i] = t[k]
<1> DEFINE m == Len(s)
           n == Len(t)
<1>1. /\ m \in Nat /\ n \in Nat /\ DOMAIN s = 1..m /\ DOMAIN t = 1..n
      /\ i \in 1..m + n
      /\ \A k \in 1..m : (s \o t)[k] = s[k]
      /\ \A k \in 1..m + n : k > m => (s \o t)[k] = t[k - m]
  BY SequenceFacts, Appended
<1> HIDE DEF m, n
<1>2. CASE i <= m
  BY <1>1, <1>2
<1>3. CASE i > m
  <2>1. i - m \in 1..n
    BY <1>1, <1>3
  <2> QED BY <1>1, <1>3, <2>1
<1> QED BY <1>1, <1>2, <1>3

LEMMA DefsFacts ==
    ASSUME job \in Jobs
    PROVE  /\ Len(job.artifact.functions) \in Nat /\ Len(job.artifact.data) \in Nat
           /\ DOMAIN job.artifact.functions = 1..Len(job.artifact.functions)
           /\ DOMAIN job.artifact.data = 1..Len(job.artifact.data)
           /\ Len(Defs) = Len(job.artifact.functions) + Len(job.artifact.data)
           /\ DOMAIN Defs = 1..Len(Defs)
           /\ \A i \in 1..Len(job.artifact.functions) : Defs[i] = job.artifact.functions[i]
           /\ \A i \in 1..Len(Defs) : i > Len(job.artifact.functions) =>
                 Defs[i] = job.artifact.data[i - Len(job.artifact.functions)]
           /\ \A i \in 1..Len(job.artifact.data) :
                 Defs[Len(job.artifact.functions) + i] = job.artifact.data[i]
           /\ \A i \in 1..Len(Defs) : IsDefinition(Defs[i])
<1>1. IsSequence(job.artifact.functions) /\ IsSequence(job.artifact.data)
  BY JobsAssumption
<1>2. ASSUME NEW defs \in {job.artifact.functions, job.artifact.data}, NEW i \in DOMAIN defs
      PROVE  IsDefinition(defs[i])
  <2>1. /\ defs[i].size \in Nat /\ defs[i].align \in Nat
        /\ IsSequence(defs[i].relocations)
        /\ \A k \in DOMAIN defs[i].relocations :
              defs[i].relocations[k].offset \in Nat /\ defs[i].relocations[k].addend \in Int
    BY JobsAssumption
  <2> QED BY <2>1, SequenceFacts DEF IsDefinition
<1> DEFINE f == job.artifact.functions
           d == job.artifact.data
<1>3. IsSequence(f) /\ IsSequence(d) /\ Defs = f \o d
  BY <1>1 DEF Defs
<1>2f. \A i \in DOMAIN f : IsDefinition(f[i])
  BY <1>2
<1>2d. \A i \in DOMAIN d : IsDefinition(d[i])
  BY <1>2
<1> HIDE DEF f, d
<1>4. ASSUME NEW i \in 1..Len(f \o d) PROVE IsDefinition((f \o d)[i])
  <2>1. \/ \E k \in DOMAIN f : (f \o d)[i] = f[k]
        \/ \E k \in DOMAIN d : (f \o d)[i] = d[k]
    BY <1>3, FromEither
  <2> QED BY <1>2f, <1>2d, <2>1
<1>5. /\ Len(f) \in Nat /\ Len(d) \in Nat /\ DOMAIN f = 1..Len(f) /\ DOMAIN d = 1..Len(d)
  BY <1>3, SequenceFacts
<1>6. /\ DOMAIN (f \o d) = 1..Len(f \o d) /\ Len(f \o d) = Len(f) + Len(d)
      /\ \A i \in 1..Len(f) : (f \o d)[i] = f[i]
      /\ \A i \in 1..Len(d) : (f \o d)[Len(f) + i] = d[i]
      /\ \A i \in 1..Len(f) + Len(d) : i > Len(f) => (f \o d)[i] = d[i - Len(f)]
  BY <1>3, Appended
<1> QED BY <1>3, <1>4, <1>5, <1>6, Zenon DEF f, d

LEMMA JobFacts ==
    ASSUME job \in Jobs
    PROVE  /\ job.base \in Nat /\ job.base < AddressSpace /\ job.max \in Nat
           /\ Limit \in Nat /\ Limit <= AddressSpace /\ job.base <= Limit
           /\ Len(Defs) \in Nat
           /\ \A i \in 1..Len(Defs) : Defs[i].size \in Nat /\ Defs[i].align \in Nat
           /\ Valid(job.artifact) => \A i \in 1..Len(Defs) : Align(i) \in Nat \ {0}
<1>1. AddressSpace \in Nat
  BY AddressSpaceAssumption
<1>2. /\ job.base \in 0..AddressSpace - 1
      /\ job.max \in Nat
      /\ Len(job.artifact.functions) \in Nat
      /\ Len(job.artifact.data) \in Nat
      /\ DOMAIN job.artifact.data = 1..Len(job.artifact.data)
      /\ Len(Defs) = Len(job.artifact.functions) + Len(job.artifact.data)
      /\ \A i \in 1..Len(job.artifact.data) :
            Defs[Len(job.artifact.functions) + i] = job.artifact.data[i]
      /\ \A i \in 1..Len(Defs) : i > Len(job.artifact.functions) =>
            Defs[i] = job.artifact.data[i - Len(job.artifact.functions)]
      /\ \A i \in 1..Len(Defs) : Defs[i].size \in Nat /\ Defs[i].align \in Nat
  BY JobsAssumption, DefsFacts DEF IsDefinition
<1>3. ASSUME Valid(job.artifact), NEW i \in 1..Len(Defs)
      PROVE  Align(i) \in Nat \ {0}
  <2>1. CASE IsFunction(i)
    BY <2>1 DEF Align
  <2>2. CASE ~ IsFunction(i)
    <3>1. i - Len(job.artifact.functions) \in 1..Len(job.artifact.data)
      <4> DEFINE f == Len(job.artifact.functions)
                 n == Len(job.artifact.data)
      <4>1. f \in Nat /\ n \in Nat /\ Len(Defs) = f + n /\ ~ (i <= f)
        BY <1>2, <2>2 DEF IsFunction
      <4>2. i \in 1..f + n
        BY <4>1
      <4> HIDE DEF f, n
      <4>3. i - f \in 1..n
        BY <4>1, <4>2
      <4> QED BY <4>3 DEF f, n
    <3>2. Defs[i] = job.artifact.data[i - Len(job.artifact.functions)]
      BY <1>2, <3>1
    <3>3. PowerOfTwo(job.artifact.data[i - Len(job.artifact.functions)].align)
      <4>1. i - Len(job.artifact.functions) \in DOMAIN job.artifact.data
        BY <1>2, <3>1
      <4> QED BY <1>3, <4>1 DEF Valid
    <3>4. Defs[i].align # 0
      BY <3>2, <3>3 DEF PowerOfTwo
    <3> QED BY <1>2, <2>2, <3>4 DEF Align
  <2> QED BY <2>1, <2>2
<1>4. Limit \in Nat /\ Limit <= AddressSpace /\ job.base <= Limit
  BY <1>1, <1>2 DEF Limit
<1>5. Len(Defs) \in Nat
  <2> DEFINE f == Len(job.artifact.functions)
             n == Len(job.artifact.data)
  <2>1. f \in Nat /\ n \in Nat /\ Len(Defs) = f + n
    BY <1>2
  <2> HIDE DEF f, n
  <2> QED BY <2>1
<1>6. Valid(job.artifact) => \A i \in 1..Len(Defs) : Align(i) \in Nat \ {0}
  BY <1>3
<1>7. job.base \in Nat /\ job.base < AddressSpace
  BY <1>1, <1>2
<1> QED BY <1>2, <1>4, <1>5, <1>6, <1>7

THEOREM Initially == Init => IInv
<1> SUFFICES ASSUME Init PROVE IInv
  OBVIOUS
<1>1. job \in Jobs /\ pc = "check" /\ cursor = job.base /\ regions = << >>
  BY DEF Init
<1>2. Len(regions) = 0 /\ regions \in Seq({})
  BY <1>1
<1>3. 1..Len(regions) = {}
  BY <1>2
<1> QED BY <1>1, <1>2, <1>3, JobFacts DEF IInv, StorageIsApart

LEMMA PlacePreserves == IInv /\ Place => IInv'
<1> SUFFICES ASSUME IInv, Place PROVE IInv'
  OBVIOUS
<1> DEFINE i == Len(regions) + 1
           d == Defs[i]
           start == AlignUp(cursor, Align(i))
           r == Region(i, start)
<1>1. /\ UNCHANGED <<job, pc, index, patches, bytes, ram, startup>>
      /\ pc = "place"
      /\ Len(regions) < Len(Defs)
      /\ start < AddressSpace /\ start + d.size <= Limit
      /\ cursor' = start + d.size
      /\ regions' = Append(regions, r)
  BY DEF Place, Placing, Current, Fits
<1>2. PICK S : regions \in Seq(S)
  BY DEF IInv
<1>3. Len(regions) \in Nat
  BY <1>2
<1>4. /\ regions' \in Seq(S \cup {r})
      /\ Len(regions') = i
      /\ \A n \in 1..Len(regions) : regions'[n] = regions[n]
      /\ regions'[i] = r
  <2>1. regions \in Seq(S \cup {r})
    BY <1>2
  <2> HIDE DEF r
  <2> QED BY <1>1, <2>1
<1>5. job \in Jobs /\ Valid(job.artifact)
  BY <1>1 DEF IInv
<1>6. Len(Defs) \in Nat /\ i \in 1..Len(Defs)
  BY <1>1, <1>3, <1>5, JobFacts
<1>7. d.size \in Nat /\ Align(i) \in Nat \ {0}
  BY <1>5, <1>6, JobFacts
<1>8. start \in Nat /\ cursor <= start /\ start % Align(i) = 0
  BY <1>7, AlignUpProperties DEF IInv
<1>9. r.address = start /\ r.size = d.size
  BY DEF Region
<1> HIDE DEF start, r, d
<1>10. 1..Len(regions') = 1..Len(regions) \cup {i}
  BY <1>3, <1>4
<1>11. /\ Defs' = Defs /\ Limit' = Limit
       /\ \A n : Align(n)' = Align(n)
  BY <1>1 DEF Defs, Limit, Align, IsFunction
<1>12. cursor' \in Nat /\ job.base <= cursor' /\ cursor' <= Limit
  BY <1>1, <1>5, <1>7, <1>8, JobFacts DEF IInv
<1>13. cursor <= cursor'
  BY <1>1, <1>7, <1>8 DEF IInv
<1>14. ASSUME NEW n \in 1..Len(regions)
       PROVE  /\ regions'[n].address \in Nat /\ regions'[n].size \in Nat
              /\ regions'[n].address >= job.base
              /\ End(regions'[n]) <= cursor
              /\ regions'[n].address < AddressSpace
              /\ regions'[n].address % Align(n) = 0
  BY <1>4 DEF IInv, StorageIsApart
<1>15. /\ regions'[i].address = start /\ regions'[i].size = d.size
       /\ regions'[i].address >= job.base
       /\ End(regions'[i]) = cursor'
       /\ regions'[i].address < AddressSpace
       /\ regions'[i].address % Align(i) = 0
  <2>1. job.base <= start
    BY <1>5, <1>8, JobFacts DEF IInv
  <2> QED BY <1>1, <1>4, <1>8, <1>9, <2>1 DEF End
<1>16. ASSUME NEW n \in 1..Len(regions')
       PROVE  /\ regions'[n].address \in Nat /\ regions'[n].size \in Nat
              /\ regions'[n].address >= job.base
              /\ End(regions'[n]) <= cursor'
              /\ regions'[n].address < AddressSpace
              /\ regions'[n].address % Align(n) = 0
  <2>1. CASE n \in 1..Len(regions)
    <3>1. End(regions'[n]) \in Nat
      BY <1>14, <2>1 DEF End
    <3>2. cursor \in Nat
      BY DEF IInv
    <3> QED BY <1>12, <1>13, <1>14, <2>1, <3>1, <3>2
  <2>2. CASE n = i
    BY <1>7, <1>8, <1>12, <1>15, <2>2
  <2> QED BY <1>10, <2>1, <2>2
<1>17. ASSUME NEW m \in 1..Len(regions'), NEW n \in 1..Len(regions'), m < n
       PROVE  End(regions'[m]) <= regions'[n].address
  <2>1. m \in 1..Len(regions)
    BY <1>3, <1>10, <1>17
  <2>2. CASE n \in 1..Len(regions)
    BY <1>4, <1>17, <2>1, <2>2 DEF IInv, StorageIsApart
  <2>3. CASE n = i
    <3>1. End(regions'[m]) <= cursor
      BY <1>14, <2>1
    <3>2. regions'[n].address = start
      BY <1>15, <2>3
    <3>3. End(regions'[m]) \in Nat /\ cursor \in Nat
      BY <1>14, <2>1 DEF End, IInv
    <3> QED BY <1>8, <3>1, <3>2, <3>3
  <2> QED BY <1>10, <2>2, <2>3
<1>18. StorageIsApart'
  <2>1. \A n \in 1..Len(regions') :
           /\ regions'[n].address >= job.base
           /\ End(regions'[n]) <= cursor'
           /\ cursor' <= Limit
           /\ regions'[n].address < AddressSpace
           /\ regions'[n].address % Align(n) = 0
    BY <1>12, <1>16
  <2>2. \A m, n \in 1..Len(regions') : m < n => End(regions'[m]) <= regions'[n].address
    BY <1>17
  <2> QED BY <1>1, <1>11, <2>1, <2>2 DEF StorageIsApart, End
<1>19. \E T : regions' \in Seq(T)
  BY <1>4
<1>20. Len(regions') <= Len(Defs')
  BY <1>4, <1>6, <1>11
<1> QED BY <1>1, <1>5, <1>11, <1>12, <1>16, <1>18, <1>19, <1>20 DEF IInv

(* No other step moves storage.                                             *)
LEMMA OthersPreserve ==
    ASSUME IInv, UNCHANGED <<job, cursor, regions>>,
           pc' = "check" => pc = "check",
           pc' \notin {"check", "failed"} => Valid(job.artifact)
    PROVE  IInv'
<1>1. Defs' = Defs /\ Limit' = Limit /\ \A n : Align(n)' = Align(n)
  BY DEF Defs, Limit, Align, IsFunction
<1>2. StorageIsApart'
  BY <1>1 DEF IInv, StorageIsApart, End
<1>3. (\E S : regions \in Seq(S)) => (\E S : regions' \in Seq(S))
  OBVIOUS
<1> QED BY <1>1, <1>2, <1>3 DEF IInv

(* The inductive invariant of link_image's layout.                          *)
THEOREM Invariance == Spec => []IInv
<1>1. Init => IInv
  BY Initially
<1>2. IInv /\ [Next]_vars => IInv'
  <2> SUFFICES ASSUME IInv, [Next]_vars PROVE IInv'
    OBVIOUS
  <2>1. CASE Place
    BY <2>1, PlacePreserves
  <2>2. CASE Check
    BY <2>2, OthersPreserve DEF Check, Acceptable
  <2>3. CASE Allocate \/ AllocateFails
    BY <2>3, OthersPreserve DEF Allocate, AllocateFails, IInv
  <2>4. CASE Copy
    BY <2>4, OthersPreserve DEF Copy, Writing, IInv
  <2>5. CASE Patch
    BY <2>5, OthersPreserve DEF Patch, Patching, Writing, IInv
  <2>6. CASE NextDefinition
    BY <2>6, OthersPreserve DEF NextDefinition, Writing, IInv
  <2>7. CASE FinishLink
    BY <2>7, OthersPreserve DEF FinishLink, IInv
  <2>8. CASE Refuse
    BY <2>8, OthersPreserve DEF Refuse, Fail
  <2>9. CASE Load
    BY <2>9, OthersPreserve DEF Load, IInv
  <2>10. CASE RefuseLoad
    BY <2>10, OthersPreserve DEF RefuseLoad, IInv
  <2>11. CASE UNCHANGED vars
    BY <2>11, OthersPreserve DEF vars, IInv
  <2> QED BY <2>1, <2>2, <2>3, <2>4, <2>5, <2>6, <2>7, <2>8, <2>9, <2>10, <2>11 DEF Next
<1> QED BY <1>1, <1>2, PTL DEF Spec

(* The storage of the definitions is disjoint, aligned and inside budget    *)
(* and address space, whatever the sizes and alignments.                    *)
THEOREM StorageIsApartHolds == Spec => []StorageIsApart
<1>1. IInv => StorageIsApart
  BY DEF IInv
<1> QED BY <1>1, Invariance, PTL

----------------------------------------------------------------------------
(* Where the definitions are: each behind the one before it, rounded up.    *)
Before(i) == IF i = 1 THEN job.base ELSE End(regions[i - 1])

PlacedInv ==
    /\ pc \notin {"check", "failed"} => Acceptable
    /\ pc \notin {"check", "place", "failed"} => Len(regions) = Len(Defs)
    /\ cursor = Before(Len(regions) + 1)
    /\ \A i \in 1..Len(regions) :
          /\ regions[i].address = AlignUp(Before(i), Align(i))
          /\ regions[i] = Region(i, regions[i].address)

LEMMA JobUnchanged ==
    ASSUME UNCHANGED job
    PROVE  /\ Defs' = Defs /\ Limit' = Limit /\ (Acceptable <=> Acceptable')
           /\ \A i : Align(i)' = Align(i) /\ (IsFunction(i) <=> IsFunction(i)')
           /\ \A i, a : Region(i, a)' = Region(i, a)
BY DEF Defs, Limit, Acceptable, Align, IsFunction, Region

LEMMA PlaceKeepsPlaced == IInv /\ PlacedInv /\ Place => PlacedInv'
<1> SUFFICES ASSUME IInv, PlacedInv, Place PROVE PlacedInv'
  OBVIOUS
<1> DEFINE k == Len(regions) + 1
           start == AlignUp(cursor, Align(k))
           r == Region(k, start)
<1>1. /\ UNCHANGED <<job, pc>> /\ pc = "place" /\ regions' = Append(regions, r)
      /\ cursor' = start + Defs[k].size
  BY DEF Place, Placing, Current
<1>2. PICK S : regions \in Seq(S)
  BY DEF IInv
<1>3. /\ Len(regions) \in Nat /\ Len(regions') = k
      /\ \A i \in 1..Len(regions) : regions'[i] = regions[i]
      /\ regions'[k] = r
  <2>1. regions \in Seq(S \cup {r})
    BY <1>2
  <2> HIDE DEF r
  <2> QED BY <1>1, <2>1
<1>4. r.address = start /\ r.size = Defs[k].size
  BY DEF Region
<1> HIDE DEF r, start
<1>5. ASSUME NEW i \in 1..k PROVE Before(i)' = Before(i)
  <2>1. CASE i = 1
    BY <1>1, <2>1 DEF Before
  <2>2. CASE i # 1
    <3>1. i - 1 \in 1..Len(regions)
      BY <1>3, <2>2
    <3> QED BY <1>3, <2>2, <3>1 DEF Before, End
  <2> QED BY <2>1, <2>2
<1>6. (Before(Len(regions) + 1) = cursor)'
  <2>1. Len(regions') + 1 # 1 /\ Len(regions') + 1 - 1 = k
    BY <1>3
  <2>2. End(regions'[k]) = cursor'
    BY <1>1, <1>3, <1>4 DEF End
  <2> QED BY <1>1, <2>1, <2>2 DEF Before, End
<1>7. ASSUME NEW i \in 1..k
      PROVE  /\ regions'[i].address = AlignUp(Before(i), Align(i))
             /\ regions'[i] = Region(i, regions'[i].address)
  <2>1. CASE i \in 1..Len(regions)
    BY <1>3, <2>1 DEF PlacedInv
  <2>2. CASE i = k
    <3>1. cursor = Before(k)
      BY DEF PlacedInv
    <3>2. regions'[i].address = start /\ regions'[i] = r
      BY <1>3, <1>4, <2>2
    <3>3. start = AlignUp(Before(k), Align(k)) /\ r = Region(k, start)
      BY <3>1 DEF start, r
    <3> QED BY <2>2, <3>2, <3>3
  <2> QED BY <1>3, <2>1, <2>2
<1>8. Acceptable
  BY <1>1 DEF PlacedInv
<1>9. (\A i \in 1..Len(regions) :
          /\ regions[i].address = AlignUp(Before(i), Align(i))
          /\ regions[i] = Region(i, regions[i].address))'
  <2> SUFFICES ASSUME NEW i \in 1..k
               PROVE  /\ regions'[i].address = AlignUp(Before(i)', Align(i)')
                      /\ regions'[i] = Region(i, regions[i].address)'
    BY <1>3 DEF AlignUp
  <2>1. Region(i, regions[i].address)' = Region(i, regions'[i].address)
    BY <1>1 DEF Region, IsFunction, Defs
  <2>2. Align(i)' = Align(i)
    BY <1>1, JobUnchanged
  <2> QED BY <1>5, <1>7, <2>1, <2>2
<1> QED BY <1>1, <1>3, <1>6, <1>8, <1>9, JobUnchanged DEF PlacedInv

LEMMA OthersKeepPlaced ==
    ASSUME PlacedInv, UNCHANGED <<job, cursor, regions>>,
           pc' \notin {"check", "failed"} => Acceptable,
           pc' \notin {"check", "place", "failed"} => Len(regions) = Len(Defs)
    PROVE  PlacedInv'
<1>1. \A i \in 1..Len(regions) :
         /\ regions[i].address = AlignUp(Before(i), Align(i))
         /\ regions[i] = Region(i, regions[i].address)
  BY DEF PlacedInv
<1>2. (\A i \in 1..Len(regions) :
          /\ regions[i].address = AlignUp(Before(i), Align(i))
          /\ regions[i] = Region(i, regions[i].address))'
  BY <1>1 DEF Before, End, AlignUp, Align, Region, IsFunction, Defs
<1>3. (cursor = Before(Len(regions) + 1))'
  BY DEF PlacedInv, Before, End
<1> QED BY <1>2, <1>3, JobUnchanged DEF PlacedInv

LEMMA NextKeepsPlaced == IInv /\ PlacedInv /\ [Next]_vars => PlacedInv'
<1> SUFFICES ASSUME IInv, PlacedInv, [Next]_vars PROVE PlacedInv'
  OBVIOUS
<1>1. CASE Place
  BY <1>1, PlaceKeepsPlaced
<1>2. CASE Check
  BY <1>2, OthersKeepPlaced DEF Check
<1>3. CASE Allocate \/ AllocateFails
  BY <1>3, OthersKeepPlaced DEF Allocate, AllocateFails, PlacedInv
<1>4. CASE Copy
  BY <1>4, OthersKeepPlaced DEF Copy, Writing, PlacedInv
<1>5. CASE Patch
  BY <1>5, OthersKeepPlaced DEF Patch, Patching, Writing, PlacedInv
<1>6. CASE NextDefinition
  BY <1>6, OthersKeepPlaced DEF NextDefinition, Writing, PlacedInv
<1>7. CASE FinishLink
  BY <1>7, OthersKeepPlaced DEF FinishLink, PlacedInv
<1>8. CASE Refuse
  BY <1>8, OthersKeepPlaced DEF Refuse, Fail
<1>9. CASE Load
  BY <1>9, OthersKeepPlaced DEF Load, PlacedInv
<1>10. CASE RefuseLoad
  BY <1>10, OthersKeepPlaced DEF RefuseLoad, PlacedInv
<1>11. CASE UNCHANGED vars
  BY <1>11, OthersKeepPlaced DEF vars, PlacedInv
<1> QED BY <1>1, <1>2, <1>3, <1>4, <1>5, <1>6, <1>7, <1>8, <1>9, <1>10, <1>11 DEF Next

LEMMA InitiallyPlaced == Init => PlacedInv
<1> SUFFICES ASSUME Init PROVE PlacedInv
  OBVIOUS
<1>1. pc = "check" /\ cursor = job.base /\ Len(regions) = 0 /\ 1..Len(regions) = {}
  <2>1. regions = << >>
    BY DEF Init
  <2> QED BY <2>1 DEF Init
<1> QED BY <1>1 DEF PlacedInv, Before

THEOREM Placement == Spec => [](IInv /\ PlacedInv)
<1> QED BY Invariance, InitiallyPlaced, NextKeepsPlaced, PTL DEF Spec

----------------------------------------------------------------------------
(* What the image buffer holds while the definitions are written: those     *)
(* before x as linked, x with p of its relocations applied.                 *)
Settled == {"write", "linked", "running", "not loaded"}
Relocations(i) == Defs[i].relocations
Begun(i, x, p) == i < x \/ (i = x /\ p >= 0)
Done(i, x, p) == IF i < x THEN Len(Relocations(i)) ELSE p

Applies(i, j) ==
    /\ Relocations(i)[j].offset + 4 <= Defs[i].size
    /\ \A l \in 1..j - 1 : Apart(Relocations(i)[l], Relocations(i)[j])
    /\ Relocations(i)[j].target \in Symbols(job.artifact)
    /\ Address(Relocations(i)[j].target) + Relocations(i)[j].addend \in 0..AddressSpace - 1

Patched(i, j, o) ==
    <<"abs", Address(Relocations(i)[j].target) + Relocations(i)[j].addend,
      o - Relocations(i)[j].offset>>

Holds(b, i, n) ==
    \A o \in 0..Defs[i].size - 1 :
        /\ \A j \in 1..n : Covers(Relocations(i)[j], o) => b[Offset(i) + o] = Patched(i, j, o)
        /\ (\A j \in 1..n : ~ Covers(Relocations(i)[j], o)) => b[Offset(i) + o] = Raw(i, o)

Contents(b, x, p) ==
    /\ x \in 1..Len(Defs) + 1 /\ p \in Int
    /\ DOMAIN b = 0..cursor - job.base - 1
    /\ x <= Len(Defs) => p \in -1..Len(Relocations(x))
    /\ \A i \in 1..Len(Defs) : Begun(i, x, p) =>
          Holds(b, i, Done(i, x, p)) /\ \A j \in 1..Done(i, x, p) : Applies(i, j)
    /\ \A a \in DOMAIN b :
          (\A i \in 1..Len(Defs) : Begun(i, x, p) => a \notin Cells(i)) => b[a] = Zero

PatchInv ==
    /\ pc \in {"check", "place"} => index = 1 /\ patches = -1
    /\ pc \in Settled => Contents(bytes, index, patches)
    /\ pc \in Settled /\ pc # "write" => index = Len(Defs) + 1

(* Once all are placed, the cells of the definitions are in the buffer and  *)
(* apart.                                                                   *)
Laid ==
    /\ Len(Defs) \in Nat /\ Len(regions) = Len(Defs)
    /\ cursor - job.base \in Nat
    /\ \A i \in 1..Len(Defs) :
          /\ IsDefinition(Defs[i])
          /\ regions[i].size = Defs[i].size
          /\ Offset(i) \in Nat
          /\ Offset(i) + Defs[i].size <= cursor - job.base
    /\ \A i, j \in 1..Len(Defs) : i < j => Offset(i) + Defs[i].size <= Offset(j)

LEMMA RegionFields ==
    ASSUME NEW i, NEW a
    PROVE  /\ Region(i, a).name = Defs[i].name
           /\ Region(i, a).size = Defs[i].size
           /\ Region(i, a).readOnly <=> IsFunction(i) \/ Defs[i].readOnly
           /\ Region(i, a).executable <=> IsFunction(i)
           /\ Region(i, a).zeroFill <=>
                 ~ IsFunction(i) /\ ~ Defs[i].readOnly /\ Defs[i].zero /\ Relocations(i) = << >>
BY DEF Region, Relocations

LEMMA AllPlacedIsLaid == ASSUME IInv, PlacedInv, Len(regions) = Len(Defs) PROVE Laid
<1>1. /\ Len(Defs) \in Nat /\ Len(regions) = Len(Defs) /\ job.base \in Nat
      /\ \A i \in 1..Len(Defs) : IsDefinition(Defs[i])
  BY JobFacts, DefsFacts DEF IInv, PlacedInv
<1>2. ASSUME NEW i \in 1..Len(Defs) PROVE regions[i].size = Defs[i].size
  <2>1. regions[i] = Region(i, regions[i].address)
    BY <1>1 DEF PlacedInv
  <2>2. Region(i, regions[i].address).size = Defs[i].size
    BY RegionFields
  <2> QED BY <2>1, <2>2
<1>3. ASSUME NEW i \in 1..Len(Defs)
      PROVE  /\ regions[i].address \in Nat /\ Defs[i].size \in Nat
             /\ regions[i].address >= job.base
             /\ regions[i].address + Defs[i].size <= cursor
  BY <1>1, <1>2 DEF IInv, StorageIsApart, End, IsDefinition
<1>4. ASSUME NEW i \in 1..Len(Defs), NEW j \in 1..Len(Defs), i < j
      PROVE  regions[i].address + Defs[i].size <= regions[j].address
  BY <1>1, <1>2, <1>4 DEF IInv, StorageIsApart, End
<1>5. cursor \in Nat /\ job.base <= cursor
  BY DEF IInv
<1>6. \A i \in 1..Len(Defs) :
         Offset(i) \in Nat /\ Offset(i) + Defs[i].size <= cursor - job.base
  BY <1>1, <1>3, <1>5 DEF Offset
<1>7. \A i, j \in 1..Len(Defs) : i < j => Offset(i) + Defs[i].size <= Offset(j)
  BY <1>1, <1>3, <1>4 DEF Offset
<1> QED BY <1>1, <1>2, <1>5, <1>6, <1>7 DEF Laid

LEMMA SettledIsLaid == ASSUME IInv, PlacedInv, pc \notin {"check", "place", "failed"} PROVE Laid
BY AllPlacedIsLaid DEF PlacedInv

LEMMA CellsApart ==
    ASSUME Laid, NEW i \in 1..Len(Defs)
    PROVE  /\ Cells(i) \subseteq 0..cursor - job.base - 1
           /\ \A o \in 0..Defs[i].size - 1 : Offset(i) + o \in Cells(i)
           /\ \A j \in 1..Len(Defs) : i # j => Cells(i) \cap Cells(j) = {}
<1>1. Offset(i) \in Nat /\ Defs[i].size \in Nat /\ cursor - job.base \in Nat /\ Len(Defs) \in Nat
  BY DEF Laid, IsDefinition
<1>2. Offset(i) + Defs[i].size <= cursor - job.base
  BY DEF Laid
<1>3. ASSUME NEW j \in 1..Len(Defs), i # j PROVE Cells(i) \cap Cells(j) = {}
  <2>1. Offset(j) \in Nat /\ Defs[j].size \in Nat
    BY DEF Laid, IsDefinition
  <2>2. \/ Offset(i) + Defs[i].size <= Offset(j)
        \/ Offset(j) + Defs[j].size <= Offset(i)
    BY <1>1, <1>3 DEF Laid
  <2> QED BY <1>1, <2>1, <2>2 DEF Cells
<1> DEFINE end == cursor - job.base
<1>4. Cells(i) \subseteq 0..end - 1
  <2> HIDE DEF end
  <2>1. end \in Nat /\ Offset(i) + Defs[i].size <= end
    BY <1>1, <1>2 DEF end
  <2> QED BY <1>1, <2>1 DEF Cells
<1>5. \A o \in 0..Defs[i].size - 1 : Offset(i) + o \in Cells(i)
  BY <1>1 DEF Cells
<1>6. 0..end - 1 = 0..cursor - job.base - 1
  BY <1>1
<1> QED BY <1>3, <1>4, <1>5, <1>6

(* A definition holds what it held when its cells are left alone.           *)
LEMMA HoldsElsewhere ==
    ASSUME Laid, NEW i \in 1..Len(Defs), NEW n, NEW b, NEW c, Holds(b, i, n),
           \A a \in Cells(i) : c[a] = b[a]
    PROVE  Holds(c, i, n)
BY CellsApart DEF Holds

LEMMA CopyWrites ==
    ASSUME Laid, Contents(bytes, index, patches), Copy
    PROVE  Contents(bytes', index', patches')
<1>1. /\ index <= Len(Defs) /\ patches = -1 /\ patches' = 0 /\ index' = index
      /\ bytes' = [a \in DOMAIN bytes |->
                     IF a \in Cells(index) THEN Raw(index, a - Offset(index)) ELSE bytes[a]]
  BY DEF Copy, Writing
<1>2. Len(Defs) \in Nat /\ index \in 1..Len(Defs)
  BY <1>1 DEF Contents, Laid
<1>3. /\ Offset(index) \in Nat /\ IsDefinition(Defs[index])
  BY <1>2 DEF Laid
<1>4. DOMAIN bytes = 0..cursor - job.base - 1 /\ DOMAIN bytes' = DOMAIN bytes
  BY <1>1 DEF Contents
<1>5. /\ \A a \in Cells(index) : bytes'[a] = Raw(index, a - Offset(index))
      /\ \A a \in DOMAIN bytes : a \notin Cells(index) => bytes'[a] = bytes[a]
  BY <1>1, <1>2, <1>4, CellsApart
<1>6. Holds(bytes', index, 0)
  <2>1. ASSUME NEW o \in 0..Defs[index].size - 1 PROVE bytes'[Offset(index) + o] = Raw(index, o)
    <3>1. Offset(index) + o \in Cells(index)
      BY <1>2, CellsApart
    <3>2. (Offset(index) + o) - Offset(index) = o
      BY <1>3 DEF IsDefinition
    <3> DEFINE a == Offset(index) + o
    <3> HIDE DEF a
    <3>3. a \in Cells(index) /\ a - Offset(index) = o
      BY <3>1, <3>2 DEF a
    <3>4. bytes'[a] = Raw(index, o)
      BY <1>5, <3>3
    <3> QED BY <3>4 DEF a
  <2> QED BY <2>1 DEF Holds
<1>7. ASSUME NEW i \in 1..Len(Defs), Begun(i, index', patches')
      PROVE  /\ Holds(bytes', i, Done(i, index', patches'))
             /\ \A j \in 1..Done(i, index', patches') : Applies(i, j)
  <2>1. CASE i = index
    <3>1. Done(i, index', patches') = 0
      BY <1>1, <1>2, <2>1 DEF Done
    <3> QED BY <1>6, <2>1, <3>1
  <2>2. CASE i # index
    <3>1. i < index
      BY <1>1, <1>7, <2>2 DEF Begun
    <3>2. Begun(i, index, patches) /\ Done(i, index', patches') = Done(i, index, patches)
      BY <1>1, <3>1 DEF Begun, Done
    <3>3. \A a \in Cells(i) : bytes'[a] = bytes[a]
      BY <1>2, <1>4, <1>5, <2>2, CellsApart
    <3>4. /\ Holds(bytes, i, Done(i, index, patches))
          /\ \A j \in 1..Done(i, index, patches) : Applies(i, j)
      BY <3>2 DEF Contents
    <3> QED BY <3>2, <3>3, <3>4, HoldsElsewhere
  <2> QED BY <2>1, <2>2
<1>8. ASSUME NEW a \in DOMAIN bytes',
             \A i \in 1..Len(Defs) : Begun(i, index', patches') => a \notin Cells(i)
      PROVE  bytes'[a] = Zero
  <2>1. a \notin Cells(index)
    BY <1>1, <1>2, <1>8 DEF Begun
  <2>2. \A i \in 1..Len(Defs) : Begun(i, index, patches) => a \notin Cells(i)
    BY <1>1, <1>8 DEF Begun
  <2> QED BY <1>4, <1>5, <2>1, <2>2 DEF Contents
<1>9. patches' \in -1..Len(Relocations(index))
  BY <1>1, <1>3 DEF IsDefinition, Relocations
<1>10. /\ index' \in 1..Len(Defs) + 1 /\ patches' \in Int
       /\ DOMAIN bytes' = 0..cursor - job.base - 1
       /\ index' <= Len(Defs) => patches' \in -1..Len(Relocations(index'))
  BY <1>1, <1>2, <1>4, <1>9
<1> QED BY <1>7, <1>8, <1>10 DEF Contents

LEMMA PatchWrites ==
    ASSUME Laid, Contents(bytes, index, patches), Patch
    PROVE  Contents(bytes', index', patches')
<1> DEFINE k == patches + 1
           r == Relocations(index)[k]
           at == Offset(index) + r.offset
           value == Address(r.target) + r.addend
<1>1. /\ index <= Len(Defs) /\ patches \in 0..Len(Relocations(index)) - 1
      /\ patches' = k /\ index' = index /\ Patchable(r)
      /\ bytes' = [a \in DOMAIN bytes |->
                     IF a \in at..at + 3 THEN <<"abs", value, a - at>> ELSE bytes[a]]
  BY DEF Patch, Patching, Writing, Relocation, Relocations
<1>2. Len(Defs) \in Nat /\ index \in 1..Len(Defs)
  BY <1>1 DEF Contents, Laid
<1>3. /\ Offset(index) \in Nat /\ Defs[index].size \in Nat
      /\ Len(Relocations(index)) \in Nat
      /\ \A j \in 1..Len(Relocations(index)) : Relocations(index)[j].offset \in Nat
  BY <1>2 DEF Laid, IsDefinition, Relocations
<1>4. DOMAIN bytes = 0..cursor - job.base - 1 /\ DOMAIN bytes' = DOMAIN bytes
  BY <1>1 DEF Contents
<1>5. k \in 1..Len(Relocations(index)) /\ r.offset \in Nat /\ at \in Nat
  BY <1>1, <1>3
<1>6. /\ r.offset + 4 <= Defs[index].size
      /\ \A j \in 1..patches : Apart(Relocations(index)[j], r)
      /\ r.target \in Symbols(job.artifact)
      /\ value \in 0..AddressSpace - 1
  BY <1>1 DEF Patchable, Relocations
<1>0. /\ Offset(index) \in Nat /\ Defs[index].size \in Nat
      /\ r.offset \in Nat /\ r.offset + 4 <= Defs[index].size
  BY <1>3, <1>5, <1>6
<1>7. Applies(index, k)
  <2>1. 1..k - 1 = 1..patches
    BY <1>1
  <2> QED BY <1>6, <2>1 DEF Applies
<1>8. at..at + 3 \subseteq Cells(index)
  <2> HIDE DEF r
  <2> QED BY <1>0 DEF Cells
<1>9. \A a \in DOMAIN bytes : a \notin at..at + 3 => bytes'[a] = bytes[a]
  BY <1>1
<1>10. Begun(index, index, patches) /\ Done(index, index, patches) = patches
  BY <1>1, <1>2 DEF Begun, Done
<1>11. Holds(bytes, index, patches) /\ \A j \in 1..patches : Applies(index, j)
  BY <1>2, <1>10 DEF Contents
<1>12. ASSUME NEW o \in 0..Defs[index].size - 1
       PROVE  /\ Offset(index) + o \in DOMAIN bytes
              /\ Covers(r, o) => bytes'[Offset(index) + o] = Patched(index, k, o)
              /\ ~ Covers(r, o) => bytes'[Offset(index) + o] = bytes[Offset(index) + o]
  <2> DEFINE a == Offset(index) + o
  <2>1. a \in DOMAIN bytes
    BY <1>2, <1>4, CellsApart
  <2>2. a - at = o - r.offset /\ (Covers(r, o) <=> a \in at..at + 3)
    <3> HIDE DEF r
    <3> QED BY <1>0 DEF Covers
  <2>3. Patched(index, k, o) = <<"abs", value, o - r.offset>>
    BY DEF Patched
  <2> HIDE DEF a, at, value, r
  <2>4. CASE Covers(r, o)
    <3>1. bytes'[a] = <<"abs", value, a - at>>
      BY <1>1, <2>1, <2>2, <2>4
    <3> QED BY <2>1, <2>2, <2>3, <2>4, <3>1 DEF a
  <2>5. CASE ~ Covers(r, o)
    <3>1. bytes'[a] = bytes[a]
      BY <1>9, <2>1, <2>2, <2>5
    <3> QED BY <2>1, <2>5, <3>1 DEF a
  <2> QED BY <2>4, <2>5
<1>13. ASSUME NEW o \in 0..Defs[index].size - 1, NEW j \in 1..k, Covers(Relocations(index)[j], o)
       PROVE  bytes'[Offset(index) + o] = Patched(index, j, o)
  <2>1. CASE j = k
    BY <1>12, <1>13, <2>1
  <2>2. CASE j # k
    <3>1. j \in 1..patches /\ j \in 1..Len(Relocations(index))
      BY <1>1, <1>3, <2>2
    <3>2. ~ Covers(r, o)
      <4>1. Apart(Relocations(index)[j], r) /\ Relocations(index)[j].offset \in Nat
        BY <1>3, <1>6, <3>1
      <4> HIDE DEF r
      <4> QED BY <1>0, <1>13, <4>1 DEF Apart, Covers
    <3>3. bytes[Offset(index) + o] = Patched(index, j, o)
      BY <1>11, <1>13, <3>1 DEF Holds
    <3> QED BY <1>12, <3>2, <3>3
  <2> QED BY <2>1, <2>2
<1>14. ASSUME NEW o \in 0..Defs[index].size - 1,
              \A j \in 1..k : ~ Covers(Relocations(index)[j], o)
       PROVE  bytes'[Offset(index) + o] = Raw(index, o)
  <2>1. ~ Covers(r, o) /\ \A j \in 1..patches : ~ Covers(Relocations(index)[j], o)
    BY <1>1, <1>5, <1>14
  <2>2. bytes[Offset(index) + o] = Raw(index, o)
    BY <1>11, <2>1 DEF Holds
  <2> QED BY <1>12, <2>1, <2>2
<1>15. Holds(bytes', index, k)
  BY <1>13, <1>14 DEF Holds
<1>16. ASSUME NEW i \in 1..Len(Defs), Begun(i, index', patches')
      PROVE  /\ Holds(bytes', i, Done(i, index', patches'))
             /\ \A j \in 1..Done(i, index', patches') : Applies(i, j)
  <2>1. CASE i = index
    <3>1. Done(i, index', patches') = k
      BY <1>1, <1>2, <2>1 DEF Done
    <3>2. \A j \in 1..k : Applies(i, j)
      <4>1. 1..k = 1..patches \cup {k}
        BY <1>1
      <4> QED BY <1>7, <1>11, <2>1, <4>1
    <3> QED BY <1>15, <2>1, <3>1, <3>2
  <2>2. CASE i # index
    <3>1. i < index
      BY <1>1, <1>16, <2>2 DEF Begun
    <3>2. Begun(i, index, patches) /\ Done(i, index', patches') = Done(i, index, patches)
      BY <1>1, <3>1 DEF Begun, Done
    <3>3. \A a \in Cells(i) : bytes'[a] = bytes[a]
      <4>1. Cells(i) \subseteq DOMAIN bytes /\ Cells(i) \cap Cells(index) = {}
        BY <1>2, <1>4, <2>2, CellsApart
      <4> HIDE DEF at
      <4> QED BY <1>8, <1>9, <4>1
    <3>4. /\ Holds(bytes, i, Done(i, index, patches))
          /\ \A j \in 1..Done(i, index, patches) : Applies(i, j)
      BY <3>2 DEF Contents
    <3> QED BY <3>2, <3>3, <3>4, HoldsElsewhere
  <2> QED BY <2>1, <2>2
<1>17. ASSUME NEW a \in DOMAIN bytes',
             \A i \in 1..Len(Defs) : Begun(i, index', patches') => a \notin Cells(i)
      PROVE  bytes'[a] = Zero
  <2>1. patches' >= 0 /\ index' = index
    BY <1>1
  <2>2. a \notin Cells(index)
    BY <1>2, <1>17, <2>1 DEF Begun
  <2>3. \A i \in 1..Len(Defs) : Begun(i, index, patches) => a \notin Cells(i)
    BY <1>17, <2>1 DEF Begun
  <2>4. bytes'[a] = bytes[a]
    <3> HIDE DEF at
    <3> QED BY <1>4, <1>8, <1>9, <2>2
  <2> QED BY <1>4, <2>3, <2>4 DEF Contents
<1>18. /\ index' \in 1..Len(Defs) + 1 /\ patches' \in Int
       /\ DOMAIN bytes' = 0..cursor - job.base - 1
       /\ index' <= Len(Defs) => patches' \in -1..Len(Relocations(index'))
  BY <1>1, <1>2, <1>3, <1>4
<1> QED BY <1>16, <1>17, <1>18 DEF Contents

LEMMA NextDefinitionWrites ==
    ASSUME Laid, Contents(bytes, index, patches), NextDefinition
    PROVE  Contents(bytes', index', patches')
<1>1. /\ index <= Len(Defs) /\ patches = Len(Relocations(index))
      /\ index' = index + 1 /\ patches' = -1 /\ bytes' = bytes
  BY DEF NextDefinition, Writing, Relocations
<1>2. /\ Len(Defs) \in Nat /\ index \in 1..Len(Defs)
      /\ \A i \in 1..Len(Defs) : Len(Relocations(i)) \in Nat
  BY <1>1 DEF Contents, Laid, IsDefinition, Relocations
<1>3. ASSUME NEW i \in 1..Len(Defs)
      PROVE  Begun(i, index', patches') <=> Begun(i, index, patches)
  <2>1. patches >= 0 /\ ~ (-1 >= 0)
    BY <1>1, <1>2
  <2>2. i < index + 1 <=> i < index \/ i = index
    BY <1>2
  <2> QED BY <1>1, <2>1, <2>2 DEF Begun
<1>4. ASSUME NEW i \in 1..Len(Defs), Begun(i, index, patches)
      PROVE  Done(i, index', patches') = Done(i, index, patches)
  <2>1. i < index + 1 /\ (i < index \/ i = index)
    BY <1>2, <1>4 DEF Begun
  <2> QED BY <1>1, <2>1 DEF Done
<1>5. index' \in 1..Len(Defs) + 1 /\ patches' \in Int
  BY <1>1, <1>2
<1>6. index' <= Len(Defs) => patches' \in -1..Len(Relocations(index'))
  <2> SUFFICES ASSUME index' <= Len(Defs) PROVE -1 \in -1..Len(Relocations(index'))
    BY <1>1
  <2>1. index' \in 1..Len(Defs)
    BY <1>2, <1>5
  <2>2. Len(Relocations(index')) \in Nat
    BY <1>2, <2>1
  <2> QED BY <2>2
<1>7. ASSUME NEW i \in 1..Len(Defs), Begun(i, index', patches')
      PROVE  /\ Holds(bytes', i, Done(i, index', patches'))
             /\ \A j \in 1..Done(i, index', patches') : Applies(i, j)
  BY <1>1, <1>3, <1>4, <1>7 DEF Contents
<1>8. ASSUME NEW a \in DOMAIN bytes',
             \A i \in 1..Len(Defs) : Begun(i, index', patches') => a \notin Cells(i)
      PROVE  bytes'[a] = Zero
  BY <1>1, <1>3, <1>8 DEF Contents
<1>9. DOMAIN bytes' = 0..cursor - job.base - 1
  BY <1>1 DEF Contents
<1> QED BY <1>5, <1>6, <1>7, <1>8, <1>9 DEF Contents

LEMMA AllocateWrites ==
    ASSUME IInv, PlacedInv, PatchInv, Allocate
    PROVE  Contents(bytes', index', patches')
<1>1. /\ pc = "place" /\ bytes' = [o \in 0..cursor - job.base - 1 |-> Zero]
      /\ index' = 1 /\ patches' = -1
  BY DEF Allocate, PatchInv
<1>2. Len(Defs) \in Nat /\ \A i \in 1..Len(Defs) : Len(Relocations(i)) \in Nat
  BY JobFacts, DefsFacts DEF IInv, IsDefinition, Relocations
<1>3. \A i \in 1..Len(Defs) : ~ Begun(i, index', patches')
  BY <1>1, <1>2 DEF Begun
<1>4. index' \in 1..Len(Defs) + 1 /\ patches' \in Int
  BY <1>1, <1>2
<1>5. index' <= Len(Defs) => patches' \in -1..Len(Relocations(index'))
  <2> SUFFICES ASSUME 1 <= Len(Defs) PROVE -1 \in -1..Len(Relocations(1))
    BY <1>1
  <2>1. Len(Relocations(1)) \in Nat
    BY <1>2
  <2> QED BY <2>1
<1> QED BY <1>1, <1>3, <1>4, <1>5 DEF Contents

LEMMA ContentsPrimed ==
    ASSUME UNCHANGED <<job, regions, cursor>>, Contents(bytes', index', patches')
    PROVE  Contents(bytes, index, patches)'
<1>1. Defs' = Defs /\ \A n : Address(n)' = Address(n)
  BY DEF Address, Defs
<1>2. \A i : Relocations(i)' = Relocations(i) /\ Offset(i)' = Offset(i) /\ Cells(i)' = Cells(i)
  BY DEF Relocations, Defs, Offset, Cells
<1>3. \A i, o : Raw(i, o)' = Raw(i, o)
  BY DEF Raw, Defs
<1>4. \A i, j : Applies(i, j)' <=> Applies(i, j)
  BY <1>1, <1>2 DEF Applies
<1>5. \A i, j, o : Patched(i, j, o)' = Patched(i, j, o)
  BY <1>1, <1>2 DEF Patched
<1>6. \A b, i, n : Holds(b, i, n)' <=> Holds(b, i, n)
  BY <1>1, <1>2, <1>3, <1>5 DEF Holds
<1> QED BY <1>1, <1>2, <1>4, <1>6 DEF Contents, Begun, Done

LEMMA NextKeepsPatches ==
    ASSUME IInv, PlacedInv, PatchInv, [Next]_vars
    PROVE  PatchInv'
<1>1. CASE Place
  BY <1>1 DEF Place, Placing, PatchInv, Settled
<1>2. CASE Check \/ AllocateFails
  BY <1>2 DEF Check, AllocateFails, PatchInv, Settled
<1>3. CASE Allocate
  BY <1>3, AllocateWrites, ContentsPrimed DEF Allocate, PatchInv, Settled
<1>4. ASSUME pc = "write" PROVE Laid /\ Contents(bytes, index, patches)
  BY <1>4, SettledIsLaid DEF PatchInv, Settled
<1>5. CASE Copy
  <2>1. Contents(bytes', index', patches')
    BY <1>4, <1>5, CopyWrites DEF Copy, Writing
  <2> QED BY <1>5, <2>1, ContentsPrimed DEF Copy, Writing, PatchInv
<1>6. CASE Patch
  <2>1. Contents(bytes', index', patches')
    BY <1>4, <1>6, PatchWrites DEF Patch, Patching, Writing
  <2> QED BY <1>6, <2>1, ContentsPrimed DEF Patch, Patching, Writing, PatchInv
<1>7. CASE NextDefinition
  <2>1. Contents(bytes', index', patches')
    BY <1>4, <1>7, NextDefinitionWrites DEF NextDefinition, Writing
  <2> QED BY <1>7, <2>1, ContentsPrimed DEF NextDefinition, Writing, PatchInv
<1>8. ASSUME UNCHANGED <<job, cursor, regions, index, patches, bytes>>, pc \in Settled
      PROVE  Contents(bytes, index, patches)'
  BY <1>8, ContentsPrimed DEF PatchInv
<1>9. CASE FinishLink
  <2>1. pc \in Settled /\ pc' = "linked" /\ index' = Len(Defs') + 1
    <3>1. index > Len(Defs) /\ index' = index /\ Defs' = Defs /\ pc = "write" /\ pc' = "linked"
      BY <1>9, JobUnchanged DEF FinishLink
    <3>2. index \in 1..Len(Defs) + 1 /\ Len(Defs) \in Nat
      BY <1>4, <3>1 DEF Contents, Laid
    <3>3. index = Len(Defs) + 1
      BY <3>1, <3>2
    <3> QED BY <3>1, <3>3 DEF Settled
  <2> QED BY <1>8, <1>9, <2>1 DEF FinishLink, PatchInv
<1>10. CASE Refuse
  BY <1>10 DEF Refuse, Fail, PatchInv, Settled
<1>11. CASE Load \/ RefuseLoad
  <2>1. /\ pc \in Settled /\ pc # "write" /\ pc' \notin {"check", "place", "write"}
        /\ UNCHANGED <<job, cursor, regions, index, patches, bytes>>
    BY <1>11 DEF Load, RefuseLoad, Settled
  <2> QED BY <1>8, <2>1, JobUnchanged DEF PatchInv
<1>12. CASE UNCHANGED vars
  <2>1. UNCHANGED <<job, cursor, regions, index, patches, bytes, pc>>
    BY <1>12 DEF vars
  <2> QED BY <1>8, <2>1, JobUnchanged DEF PatchInv
<1> QED BY <1>1, <1>2, <1>3, <1>5, <1>6, <1>7, <1>9, <1>10, <1>11, <1>12 DEF Next

LEMMA InitiallyUnpatched == Init => PatchInv
BY DEF Init, PatchInv, Settled

LEMMA NextKeepsAll ==
    IInv /\ PlacedInv /\ PatchInv /\ [Next]_vars => PatchInv'
BY NextKeepsPatches

(* The inductive invariant of link_image: where the definitions are, and    *)
(* what the image buffer holds after every copy and patch.                  *)
THEOREM ImageInvariance == Spec => [](IInv /\ PlacedInv /\ PatchInv)
<1> QED BY Placement, InitiallyUnpatched, NextKeepsAll, PTL DEF Spec

----------------------------------------------------------------------------
(* What the linked image is.                                                *)

(* Names are unique, so that a name has the address of its definition.      *)
LEMMA NamesAreUnique ==
    ASSUME job \in Jobs, Valid(job.artifact), NEW i \in 1..Len(Defs), NEW j \in 1..Len(Defs),
           Defs[i].name = Defs[j].name
    PROVE  i = j
<1>1. DOMAIN Defs = 1..Len(Defs)
  BY DefsFacts
<1> QED BY <1>1 DEF Valid, Defs

LEMMA AddressOf ==
    ASSUME job \in Jobs, Valid(job.artifact), Len(regions) = Len(Defs), NEW i \in 1..Len(Defs)
    PROVE  Address(Defs[i].name) = regions[i].address
<1> DEFINE k == CHOOSE l \in 1..Len(regions) : Defs[l].name = Defs[i].name
<1>1. k \in 1..Len(Defs) /\ Defs[k].name = Defs[i].name
  OBVIOUS
<1>2. k = i
  <2> HIDE DEF k
  <2> QED BY <1>1, NamesAreUnique
<1> QED BY <1>2 DEF Address

LEMMA FunctionFacts ==
    ASSUME job \in Jobs, Valid(job.artifact), NEW i \in 1..Len(Defs), IsFunction(i)
    PROVE  Defs[i].size \in Nat /\ Defs[i].size > 0 /\ Align(i) = 4
<1>1. Len(job.artifact.functions) \in Nat /\ Len(Defs) \in Nat
  BY DefsFacts, JobFacts
<1>2. i \in 1..Len(job.artifact.functions)
  <2> DEFINE m == Len(job.artifact.functions)
  <2> HIDE DEF m
  <2>1. m \in Nat /\ i <= m /\ i \in Nat /\ i >= 1
    BY <1>1 DEF IsFunction, m
  <2>2. i \in 1..m
    BY <2>1
  <2> QED BY <2>2 DEF m
<1>3. i \in DOMAIN job.artifact.functions /\ Defs[i] = job.artifact.functions[i]
  BY <1>2, DefsFacts
<1>4. job.artifact.functions[i].size > 0
  BY <1>3 DEF Valid
<1> QED BY <1>3, <1>4, JobFacts DEF Align

LEMMA EntryIsFunction ==
    ASSUME job \in Jobs, Acceptable
    PROVE  \E k \in 1..Len(Defs) : IsFunction(k) /\ Defs[k].name = job.entry
<1>1. PICK k \in 1..Len(job.artifact.functions) : job.artifact.functions[k].name = job.entry
  BY DEF Acceptable, Named
<1>2. Defs[k] = job.artifact.functions[k]
  BY DefsFacts
<1>3. k \in 1..Len(Defs) /\ IsFunction(k)
  <2> DEFINE m == Len(job.artifact.functions)
             n == Len(job.artifact.data)
  <2>1. m \in Nat /\ n \in Nat /\ Len(Defs) = m + n /\ k \in 1..m
    BY DefsFacts
  <2> HIDE DEF m, n
  <2>2. k \in 1..m + n /\ k <= m
    BY <2>1
  <2> QED BY <2>1, <2>2 DEF IsFunction, m
<1> QED BY <1>1, <1>2, <1>3

(* The definitions of a linked image hold what they were linked to.         *)
Complete ==
    /\ Laid /\ Acceptable /\ job \in Jobs /\ Valid(job.artifact)
    /\ DOMAIN bytes = 0..cursor - job.base - 1
    /\ \A i \in 1..Len(Defs) :
          /\ Holds(bytes, i, Len(Relocations(i)))
          /\ \A j \in 1..Len(Relocations(i)) : Applies(i, j)
    /\ \A a \in DOMAIN bytes : (\A i \in 1..Len(Defs) : a \notin Cells(i)) => bytes[a] = Zero

LEMMA LinkedIsComplete ==
    ASSUME IInv, PlacedInv, PatchInv, pc \in Settled, pc # "write"
    PROVE  Complete
<1>1. Laid /\ Acceptable /\ job \in Jobs /\ Valid(job.artifact)
  BY SettledIsLaid DEF IInv, PlacedInv, Settled, Acceptable
<1>2. Contents(bytes, index, patches) /\ index = Len(Defs) + 1 /\ Len(Defs) \in Nat
  BY <1>1 DEF PatchInv, Laid
<1>3. ASSUME NEW i \in 1..Len(Defs)
      PROVE  Begun(i, index, patches) /\ Done(i, index, patches) = Len(Relocations(i))
  <2>1. i < index
    BY <1>2
  <2> QED BY <2>1 DEF Begun, Done
<1> QED BY <1>1, <1>2, <1>3 DEF Contents, Complete

(* The linked image holds, byte by byte, what was compiled, the addresses   *)
(* that the relocations ask for, and zero between the definitions.          *)
THEOREM ImageIsFaithfulHolds == Spec => []ImageIsFaithful
<1>1. IInv /\ PlacedInv /\ PatchInv => ImageIsFaithful
  <2> SUFFICES ASSUME Complete
               PROVE  /\ \A i \in 1..Len(Defs) : Written(i, Len(Defs[i].relocations))
                      /\ \A a \in DOMAIN bytes :
                            (\A i \in 1..Len(Defs) : a \notin Cells(i)) => bytes[a] = Zero
    BY LinkedIsComplete DEF ImageIsFaithful, Settled
  <2>1. ASSUME NEW i \in 1..Len(Defs) PROVE Written(i, Len(Defs[i].relocations))
    <3>1. Holds(bytes, i, Len(Relocations(i)))
      BY DEF Complete
    <3> QED BY <3>1 DEF Holds, Written, Patched, Relocations
  <2> QED BY <2>1 DEF Complete
<1> QED BY <1>1, ImageInvariance, PTL

LEMMA CompleteIsValid ==
    ASSUME IInv, PlacedInv, Complete
    PROVE  ValidImage
<1>1. /\ Laid /\ job \in Jobs /\ Valid(job.artifact) /\ Acceptable
      /\ Len(Defs) \in Nat /\ Len(regions) = Len(Defs)
  BY DEF Complete, Laid
<1>2. /\ job.base \in Nat /\ cursor \in Nat /\ cursor <= AddressSpace /\ AddressSpace \in Nat
      /\ job.base % 4 = 0
  <2>1. cursor \in Nat /\ cursor <= Limit /\ Limit \in Nat /\ Limit <= AddressSpace
        /\ job.base \in Nat /\ AddressSpace \in Nat
    BY <1>1, JobFacts, AddressSpaceAssumption DEF IInv
  <2> QED BY <1>1, <2>1 DEF Acceptable
<1>3. ASSUME NEW i \in 1..Len(regions)
      PROVE  /\ regions[i].name = Defs[i].name
             /\ regions[i].size = Defs[i].size
             /\ regions[i].readOnly <=> IsFunction(i) \/ Defs[i].readOnly
             /\ regions[i].executable <=> IsFunction(i)
             /\ regions[i].zeroFill <=>
                  ~ IsFunction(i) /\ ~ Defs[i].readOnly /\ Defs[i].zero /\ Relocations(i) = << >>
  <2>1. regions[i] = Region(i, regions[i].address)
    BY DEF PlacedInv
  <2> DEFINE a == regions[i].address
             q == regions[i]
  <2> HIDE DEF a, q
  <2>2. q = Region(i, a)
    BY <2>1 DEF a, q
  <2>3. q.name = Defs[i].name /\ q.size = Defs[i].size
    BY <2>2, RegionFields
  <2>4. q.readOnly <=> IsFunction(i) \/ Defs[i].readOnly
    BY <2>2, RegionFields
  <2>5. q.executable <=> IsFunction(i)
    BY <2>2, RegionFields
  <2>6. q.zeroFill <=>
           ~ IsFunction(i) /\ ~ Defs[i].readOnly /\ Defs[i].zero /\ Relocations(i) = << >>
    BY <2>2, RegionFields
  <2> QED BY <2>3, <2>4, <2>5, <2>6 DEF q
<1>4. ASSUME NEW i \in 1..Len(regions)
      PROVE  /\ regions[i].address \in Nat /\ regions[i].size \in Nat
             /\ regions[i].address >= job.base /\ End(regions[i]) <= cursor
             /\ regions[i].address % Align(i) = 0
  BY DEF IInv, StorageIsApart
<1>5. ASSUME NEW i \in 1..Len(regions), NEW j \in 1..Len(regions)
      PROVE  /\ regions[i].name = regions[j].name => i = j
             /\ i < j => End(regions[i]) <= regions[j].address
  BY <1>1, <1>3, NamesAreUnique DEF IInv, StorageIsApart
<1>6. ASSUME NEW i \in 1..Len(regions), regions[i].executable
      PROVE  /\ regions[i].readOnly /\ regions[i].address % 4 = 0
             /\ regions[i].size > 0 /\ regions[i].size # 0
  <2>1. IsFunction(i)
    BY <1>3, <1>6
  <2>2. Defs[i].size \in Nat /\ Defs[i].size > 0 /\ Align(i) = 4
    BY <1>1, <2>1, FunctionFacts
  <2>3. regions[i].readOnly
    BY <1>3, <2>1
  <2>4. regions[i].size = Defs[i].size /\ regions[i].address % 4 = 0
    BY <1>3, <1>4, <2>2
  <2> QED BY <2>2, <2>3, <2>4
<1>7. ASSUME NEW i \in 1..Len(regions), regions[i].zeroFill
      PROVE  /\ ~ regions[i].readOnly /\ ~ regions[i].executable
             /\ \A a \in Cells(i) : bytes[a] = Zero
  <2>1. ~ IsFunction(i) /\ ~ Defs[i].readOnly /\ Defs[i].zero /\ Relocations(i) = << >>
    BY <1>3, <1>7
  <2>2. Holds(bytes, i, 0)
    <3>1. Len(Relocations(i)) = 0
      BY <2>1
    <3> QED BY <1>1, <3>1 DEF Complete
  <2>3. ASSUME NEW a \in Cells(i) PROVE bytes[a] = Zero
    <3>1. Offset(i) \in Nat /\ Defs[i].size \in Nat
      BY <1>1 DEF Laid, IsDefinition
    <3>2. a - Offset(i) \in 0..Defs[i].size - 1 /\ Offset(i) + (a - Offset(i)) = a
      BY <3>1 DEF Cells
    <3> DEFINE o == a - Offset(i)
    <3> HIDE DEF o
    <3>3. bytes[Offset(i) + o] = Raw(i, o)
      BY <2>2, <3>2 DEF Holds, o
    <3> QED BY <2>1, <3>2, <3>3 DEF Raw, o
  <2> QED BY <1>3, <2>1, <2>3
<1>8. PICK k \in 1..Len(Defs) : IsFunction(k) /\ Defs[k].name = job.entry
  BY <1>1, EntryIsFunction
<1>9. /\ k \in 1..Len(regions) /\ regions[k].executable /\ Entry = regions[k].address
  <2>1. Address(Defs[k].name) = regions[k].address
    BY <1>1, AddressOf
  <2> QED BY <1>1, <1>3, <1>8, <2>1 DEF Entry
<1>10. /\ Entry \in regions[k].address..End(regions[k]) - 1 /\ Entry % 4 = 0
       /\ cursor > job.base
  <2>1. /\ regions[k].address \in Nat /\ regions[k].size \in Nat /\ regions[k].size > 0
        /\ regions[k].address % 4 = 0 /\ regions[k].address >= job.base
        /\ regions[k].address + regions[k].size <= cursor
    BY <1>4, <1>6, <1>9 DEF End
  <2> QED BY <1>2, <1>9, <2>1 DEF End
<1>11. \A i, j \in 1..Len(regions) :
          /\ regions[i].name = regions[j].name => i = j
          /\ i < j /\ regions[i].size # 0 /\ regions[j].size # 0 =>
                End(regions[i]) <= regions[j].address \/ End(regions[j]) <= regions[i].address
  BY <1>5
<1>12. \A i \in 1..Len(regions) :
          LET r == regions[i]
          IN  /\ r.address >= job.base /\ End(r) <= cursor
              /\ r.executable => r.readOnly /\ r.address % 4 = 0 /\ r.size # 0
              /\ r.zeroFill => /\ ~ r.readOnly /\ ~ r.executable
                               /\ \A a \in Cells(i) : bytes[a] = Zero
  BY <1>4, <1>6, <1>7
<1> QED BY <1>2, <1>9, <1>10, <1>11, <1>12 DEF ValidImage

(* Whoever validates a linked image finds nothing wrong with it.            *)
THEOREM LinkedIsAcceptedHolds == Spec => []LinkedIsAccepted
<1>1. IInv /\ PlacedInv /\ PatchInv => LinkedIsAccepted
  BY LinkedIsComplete, CompleteIsValid DEF LinkedIsAccepted, Settled
<1> QED BY <1>1, ImageInvariance, PTL

----------------------------------------------------------------------------
(* What a loaded program finds.                                             *)

LEMMA LoadKeepsImage ==
    ASSUME IInv, PlacedInv, Complete, ValidImage, NEW s \in Starts, Loadable(s), startup' = s,
           ram' = [a \in 0..s.ram - 1 |->
                     IF ZeroFilled(a) THEN Zero
                     ELSE IF a \in job.base..cursor - 1 THEN bytes[a - job.base]
                     ELSE Dirty]
    PROVE  LET image == job.base..cursor - 1
               stack == s.bottom..s.top - 1
           IN  /\ image \cup stack \cup {s.trap} \subseteq DOMAIN ram'
               /\ \A a \in DOMAIN ram' :
                     ram'[a] = IF a \in image THEN bytes[a - job.base] ELSE Dirty
               /\ image \cap stack = {}
               /\ s.trap \notin image \cup stack
<1>1. /\ job.base \in Nat /\ cursor \in Nat
      /\ s.ram \in Nat /\ s.bottom \in Nat /\ s.top \in Nat /\ s.trap \in Nat
  BY JobFacts, StartsAssumption DEF IInv
<1>2. /\ cursor <= s.ram /\ s.bottom < s.top /\ s.top <= s.ram
      /\ s.bottom >= cursor \/ s.top <= job.base
      /\ s.trap < s.ram
      /\ s.trap < job.base \/ s.trap >= cursor
      /\ s.trap < s.bottom \/ s.trap >= s.top
  BY DEF Loadable
<1>3. DOMAIN ram' = 0..s.ram - 1
  OBVIOUS
<1>4. /\ job.base..cursor - 1 \subseteq 0..s.ram - 1
      /\ s.bottom..s.top - 1 \subseteq 0..s.ram - 1
      /\ s.trap \in 0..s.ram - 1
      /\ (job.base..cursor - 1) \cap (s.bottom..s.top - 1) = {}
      /\ s.trap \notin job.base..cursor - 1 /\ s.trap \notin s.bottom..s.top - 1
  <2>1. job.base..cursor - 1 \subseteq 0..s.ram - 1
    BY <1>1, <1>2
  <2>2. s.bottom..s.top - 1 \subseteq 0..s.ram - 1
    BY <1>1, <1>2
  <2>3. ASSUME NEW a \in job.base..cursor - 1, a \in s.bottom..s.top - 1 PROVE FALSE
    BY <1>1, <1>2, <2>3
  <2>4. s.trap \in 0..s.ram - 1 /\ s.trap \notin job.base..cursor - 1
    BY <1>1, <1>2
  <2>5. s.trap \notin s.bottom..s.top - 1
    BY <1>1, <1>2
  <2>6. (job.base..cursor - 1) \cap (s.bottom..s.top - 1) = {}
    BY <2>3, Zenon
  <2> QED BY <2>1, <2>2, <2>4, <2>5, <2>6
<1>5. ASSUME NEW a \in 0..s.ram - 1, ZeroFilled(a)
      PROVE  a \in job.base..cursor - 1 /\ bytes[a - job.base] = Zero
  <2>1. PICK i \in 1..Len(regions) : regions[i].zeroFill /\ a - job.base \in Cells(i)
    BY <1>5 DEF ZeroFilled
  <2>2. bytes[a - job.base] = Zero
    BY <2>1 DEF ValidImage
  <2>3. a - job.base \in 0..cursor - job.base - 1
    BY <2>1, CellsApart DEF Complete, Laid
  <2> QED BY <1>1, <2>2, <2>3
<1>6. \A a \in 0..s.ram - 1 :
         ram'[a] = IF a \in job.base..cursor - 1 THEN bytes[a - job.base] ELSE Dirty
  BY <1>5
<1> QED BY <1>3, <1>4, <1>6

(* A loaded program finds the image that was linked, whatever the RAM held, *)
(* and neither its stack nor its exit trap is in it.                        *)
THEOREM LoadedAsLinkedHolds == Spec => []LoadedAsLinked
<1>1. Init => LoadedAsLinked
  BY DEF Init, LoadedAsLinked
<1>2. IInv /\ PlacedInv /\ PatchInv /\ LoadedAsLinked /\ [Next]_vars => LoadedAsLinked'
  <2> SUFFICES ASSUME IInv, PlacedInv, PatchInv, LoadedAsLinked, [Next]_vars, pc' = "running"
               PROVE  LoadedAsLinked'
    BY DEF LoadedAsLinked
  <2>1. CASE Load
    <3>1. Complete /\ ValidImage /\ UNCHANGED <<job, cursor, bytes>>
      BY <2>1, LinkedIsComplete DEF Load, Settled
    <3>2. PICK s \in Starts :
             /\ Loadable(s) /\ startup' = s
             /\ ram' = [a \in 0..s.ram - 1 |->
                          IF ZeroFilled(a) THEN Zero
                          ELSE IF a \in job.base..cursor - 1 THEN bytes[a - job.base]
                          ELSE Dirty]
      BY <2>1 DEF Load
    <3> QED BY <3>1, <3>2, LoadKeepsImage DEF LoadedAsLinked
  <2>2. CASE UNCHANGED vars
    BY <2>2 DEF vars, LoadedAsLinked
  <2>3. ~ (Check \/ Place \/ Allocate \/ AllocateFails \/ Copy \/ Patch \/ NextDefinition
           \/ FinishLink \/ Refuse \/ RefuseLoad)
    BY DEF Check, Place, Placing, Allocate, AllocateFails, Copy, Patch, Patching,
           NextDefinition, Writing, FinishLink, Refuse, Fail, RefuseLoad
  <2> QED BY <2>1, <2>2, <2>3 DEF Next
<1> QED BY <1>1, <1>2, ImageInvariance, PTL DEF Spec

----------------------------------------------------------------------------
(* What link_image refuses.                                                 *)

LEMMA LeastNatural == ASSUME NEW T \in SUBSET Nat, T # {} PROVE \E n \in T : \A m \in T : n <= m
<1> DEFINE R == OpToRel(<, Nat)
<1>1. IsWellFoundedOn(R, Nat)
  BY NatLessThanWellFounded
<1>2. PICK n \in T : \A m \in T : ~ (<<m, n>> \in R)
  <2> HIDE DEF R
  <2> QED BY <1>1, WFMin
<1>3. ASSUME NEW m \in T PROVE n <= m
  <2>1. m \in Nat /\ n \in Nat
    OBVIOUS
  <2>2. ~ (<<m, n>> \in R)
    BY <1>2
  <2>3. ~ (m < n)
    BY <2>1, <2>2 DEF OpToRel
  <2> QED BY <2>1, <2>3
<1> QED BY <1>3

(* The recursion of Extent, of the definitions up to the n-th.              *)
EndOf(f, i) == IF i = 0 THEN job.base ELSE AlignUp(f[i - 1], Align(i)) + Defs[i].size
Extends(f, n) == f = [i \in 0..n |-> EndOf(f, i)]

LEMMA ExtentExists == ASSUME NEW n \in Nat PROVE \E f : Extends(f, n)
<1> DEFINE T == {k \in Nat : ~ \E f : Extends(f, k)}
<1> SUFFICES ASSUME T # {} PROVE FALSE
  OBVIOUS
<1>1. T \in SUBSET Nat
  OBVIOUS
<1>2. PICK k \in T : \A m \in T : k <= m
  <2> HIDE DEF T
  <2> QED BY <1>1, LeastNatural
<1>3. CASE k = 0
  <2> DEFINE f == [i \in 0..0 |-> job.base]
  <2>1. f = [i \in 0..0 |-> EndOf(f, i)]
    BY DEF EndOf
  <2> QED BY <1>3, <2>1 DEF Extends
<1>4. CASE k # 0
  <2>1. k - 1 \in Nat /\ k - 1 \notin T /\ k \in Nat
    BY <1>1, <1>2, <1>4
  <2>2. PICK f : Extends(f, k - 1)
    BY <2>1
  <2> DEFINE g == [i \in 0..k |-> IF i = k THEN EndOf(f, k) ELSE f[i]]
  <2>3. ASSUME NEW i \in 0..k PROVE g[i] = EndOf(g, i)
    <3>1. CASE i = 0
      BY <1>4, <2>1, <2>2, <3>1 DEF EndOf, Extends
    <3>2. CASE i # 0
      <4>1. i - 1 \in 0..k - 1 /\ i - 1 # k /\ i - 1 \in 0..k
        BY <2>1, <3>2
      <4>2. g[i - 1] = f[i - 1]
        BY <4>1
      <4>3. EndOf(g, i) = EndOf(f, i)
        BY <3>2, <4>2 DEF EndOf
      <4>4. g[i] = EndOf(f, i)
        <5>1. CASE i = k
          BY <5>1
        <5>2. CASE i # k
          <6>1. i \in 0..k - 1
            BY <2>1, <5>2
          <6> QED BY <2>2, <5>2, <6>1 DEF Extends
        <5> QED BY <5>1, <5>2
      <4> QED BY <4>3, <4>4
    <3> QED BY <3>1, <3>2
  <2>4. g = [i \in 0..k |-> EndOf(g, i)]
    BY <2>3
  <2> HIDE DEF g
  <2>5. Extends(g, k)
    BY <2>4 DEF Extends
  <2> QED BY <1>2, <2>5
<1> QED BY <1>3, <1>4

LEMMA ExtentEquation ==
    ASSUME Len(Defs) \in Nat
    PROVE  \A i \in 0..Len(Defs) : Extent[i] = EndOf(Extent, i)
<1>1. PICK f : Extends(f, Len(Defs))
  BY ExtentExists
<1>2. Extent = CHOOSE end : end = [i \in 0..Len(Defs) |->
                 IF i = 0 THEN job.base ELSE AlignUp(end[i - 1], Align(i)) + Defs[i].size]
  BY DEF Extent
<1>3. f = [i \in 0..Len(Defs) |->
             IF i = 0 THEN job.base ELSE AlignUp(f[i - 1], Align(i)) + Defs[i].size]
  BY <1>1 DEF Extends, EndOf
<1>4. Extent = [i \in 0..Len(Defs) |->
                 IF i = 0 THEN job.base ELSE AlignUp(Extent[i - 1], Align(i)) + Defs[i].size]
  BY <1>2, <1>3
<1> QED BY <1>4 DEF EndOf

(* Told from the job alone, the definitions end where they were placed.     *)
LEMMA ExtentIsPlaced ==
    ASSUME IInv, PlacedInv
    PROVE  \A i \in 1..Len(regions) + 1 : Extent[i - 1] = Before(i)
<1> DEFINE T == {i \in Nat : i \in 1..Len(regions) + 1 /\ Extent[i - 1] # Before(i)}
<1> SUFFICES ASSUME T # {} PROVE FALSE
  <2>1. Len(regions) \in Nat
    BY DEF IInv
  <2> QED BY <2>1
<1>1. PICK k \in T : \A m \in T : k <= m
  <2>1. T \in SUBSET Nat
    OBVIOUS
  <2> HIDE DEF T
  <2> QED BY <2>1, LeastNatural
<1>2. Len(regions) \in Nat /\ Len(Defs) \in Nat /\ Len(regions) <= Len(Defs)
  BY JobFacts DEF IInv
<1>3. \A i \in 0..Len(Defs) : Extent[i] = EndOf(Extent, i)
  BY <1>2, ExtentEquation
<1>4. CASE k = 1
  BY <1>1, <1>2, <1>3, <1>4 DEF EndOf, Before
<1>5. CASE k # 1
  <2>1. /\ k - 1 \in 1..Len(regions) /\ k - 1 \in 1..Len(regions) + 1 /\ k - 1 \in Nat
        /\ k - 1 \in 0..Len(Defs) /\ k - 1 # 0 /\ ~ (k <= k - 1)
    BY <1>1, <1>2, <1>5
  <2>2. Extent[k - 1 - 1] = Before(k - 1)
    BY <1>1, <2>1
  <2>3. Extent[k - 1] = AlignUp(Before(k - 1), Align(k - 1)) + Defs[k - 1].size
    BY <1>3, <2>1, <2>2 DEF EndOf
  <2>4. /\ regions[k - 1].address = AlignUp(Before(k - 1), Align(k - 1))
        /\ regions[k - 1] = Region(k - 1, regions[k - 1].address)
    BY <2>1 DEF PlacedInv
  <2>5. regions[k - 1].size = Defs[k - 1].size
    <3>1. Region(k - 1, regions[k - 1].address).size = Defs[k - 1].size
      BY RegionFields
    <3> QED BY <2>4, <3>1
  <2>6. Before(k) = regions[k - 1].address + regions[k - 1].size
    BY <1>5 DEF Before, End
  <2> QED BY <1>1, <2>3, <2>4, <2>5, <2>6
<1> QED BY <1>4, <1>5

LEMMA NamedDefs ==
    ASSUME job \in Jobs
    PROVE  \A n : n \in Symbols(job.artifact) <=> \E i \in 1..Len(Defs) : Defs[i].name = n
<1> DEFINE f == job.artifact.functions
           d == job.artifact.data
<1>1. IsSequence(f) /\ IsSequence(d) /\ Defs = f \o d
  BY JobsAssumption DEF Defs
<1> SUFFICES ASSUME NEW n
             PROVE  (\E i \in 1..Len(f) : f[i].name = n) \/ (\E i \in 1..Len(d) : d[i].name = n)
                    <=> \E i \in 1..Len(Defs) : Defs[i].name = n
  BY DEF Symbols, Named
<1> HIDE DEF f, d
<1>2. /\ DOMAIN f = 1..Len(f) /\ DOMAIN d = 1..Len(d) /\ Len(f) \in Nat /\ Len(d) \in Nat
      /\ Len(f \o d) = Len(f) + Len(d)
      /\ \A i \in 1..Len(f) : (f \o d)[i] = f[i]
      /\ \A i \in 1..Len(d) : (f \o d)[Len(f) + i] = d[i]
  BY <1>1, SequenceFacts, Appended
<1>3. ASSUME NEW i \in 1..Len(f), f[i].name = n PROVE \E j \in 1..Len(Defs) : Defs[j].name = n
  <2>1. i \in 1..Len(f \o d)
    BY <1>2
  <2> QED BY <1>1, <1>2, <1>3, <2>1
<1>4. ASSUME NEW i \in 1..Len(d), d[i].name = n PROVE \E j \in 1..Len(Defs) : Defs[j].name = n
  <2>1. Len(f) + i \in 1..Len(f \o d)
    BY <1>2
  <2> QED BY <1>1, <1>2, <1>4, <2>1
<1>5. ASSUME NEW i \in 1..Len(Defs), Defs[i].name = n
      PROVE  (\E j \in 1..Len(f) : f[j].name = n) \/ (\E j \in 1..Len(d) : d[j].name = n)
  <2>1. i \in 1..Len(f \o d)
    BY <1>1
  <2>2. \/ \E k \in DOMAIN f : (f \o d)[i] = f[k]
        \/ \E k \in DOMAIN d : (f \o d)[i] = d[k]
    BY <1>1, <2>1, FromEither
  <2> QED BY <1>1, <1>2, <1>5, <2>2
<1> QED BY <1>3, <1>4, <1>5

(* What stops a link: the artifact itself, a definition that does not fit,  *)
(* or a relocation that cannot be applied.                                  *)
Overrun ==
    /\ Len(regions) < Len(Defs)
    /\ ~ Fits(AlignUp(cursor, Align(Current)), Defs[Current].size)

Unpatchable ==
    /\ Len(regions) = Len(Defs) /\ index \in 1..Len(Defs)
    /\ patches \in 0..Len(Relocations(index)) - 1
    /\ ~ Patchable(Relocation)

Stuck == ~ Acceptable \/ Overrun \/ Unpatchable

LEMMA OverrunIsTooLarge ==
    ASSUME IInv, PlacedInv, Valid(job.artifact), Overrun
    PROVE  TooLarge
<1> DEFINE k == Len(regions) + 1
           start == AlignUp(cursor, Align(k))
<1>1. Len(regions) \in Nat /\ Len(Defs) \in Nat /\ k \in 1..Len(Defs) /\ job \in Jobs
  BY JobFacts DEF IInv, Overrun
<1>2. start \in Nat /\ Defs[k].size \in Nat
  <2>1. Align(k) \in Nat \ {0} /\ Defs[k].size \in Nat /\ cursor \in Nat
    BY <1>1, JobFacts DEF IInv
  <2> QED BY <2>1, AlignUpProperties
<1>3. Extent[k - 1] = cursor
  <2>1. cursor = Before(k)
    BY DEF PlacedInv
  <2>2. k \in 1..Len(regions) + 1
    BY <1>1
  <2> QED BY <2>1, <2>2, ExtentIsPlaced
<1>4. Extent[k] = start + Defs[k].size
  <2>1. k \in 0..Len(Defs) /\ k # 0
    BY <1>1
  <2> QED BY <1>1, <1>3, <2>1, ExtentEquation DEF EndOf
<1>5. Limit \in Nat /\ AddressSpace \in Nat
  BY <1>1, JobFacts, AddressSpaceAssumption
<1>6. start >= AddressSpace \/ start + Defs[k].size > Limit
  <2>1. ~ (start < AddressSpace /\ start + Defs[k].size <= Limit)
    BY DEF Overrun, Fits, Current
  <2> HIDE DEF start, k
  <2> QED BY <1>2, <1>5, <2>1
<1> QED BY <1>1, <1>3, <1>4, <1>6 DEF TooLarge

LEMMA UnpatchableIsBad ==
    ASSUME IInv, PlacedInv, Valid(job.artifact), Unpatchable
    PROVE  \E i \in 1..Len(Defs) : \E j \in DOMAIN Defs[i].relocations : BadRelocation(i, j)
<1> DEFINE k == patches + 1
           r == Relocations(index)[k]
<1>1. /\ index \in 1..Len(Defs) /\ Len(regions) = Len(Defs) /\ job \in Jobs
      /\ patches \in 0..Len(Relocations(index)) - 1
      /\ ~ Patchable(r)
  BY DEF Unpatchable, Relocation, Relocations, IInv
<1>2. /\ Len(Relocations(index)) \in Nat
      /\ DOMAIN Defs[index].relocations = 1..Len(Relocations(index))
      /\ Defs[index].size \in Nat
      /\ \A j \in 1..Len(Relocations(index)) : Relocations(index)[j].offset \in Nat
  BY <1>1, DefsFacts DEF IsDefinition, Relocations
<1>3. k \in 1..Len(Relocations(index)) /\ patches \in Nat
  BY <1>1, <1>2
<1>4. r.offset \in Nat
  BY <1>2, <1>3
<1>5. CASE ~ (r.offset + 4 <= Defs[index].size)
  <2>1. r.offset + 4 > Defs[index].size
    <3> HIDE DEF r
    <3> QED BY <1>2, <1>4, <1>5
  <2>2. BadRelocation(index, k)
    BY <2>1 DEF BadRelocation, Relocations
  <2> QED BY <1>1, <1>2, <1>3, <2>2
<1>6. ASSUME NEW j \in 1..patches, ~ Apart(Relocations(index)[j], r)
      PROVE  BadRelocation(index, k)
  <2>1. j \in 1..Len(Relocations(index)) /\ j # k
    BY <1>1, <1>2
  <2>2. ~ Apart(r, Relocations(index)[j])
    BY <1>6 DEF Apart
  <2> QED BY <2>1, <2>2 DEF BadRelocation, Relocations
<1>7. CASE r.target \notin Symbols(job.artifact)
  <2>1. r.target \notin Named(Defs)
    BY <1>1, <1>7, NamedDefs DEF Named
  <2>2. BadRelocation(index, k)
    BY <2>1 DEF BadRelocation, Relocations
  <2> QED BY <1>1, <1>2, <1>3, <2>2
<1>8. CASE /\ r.target \in Symbols(job.artifact)
           /\ Address(r.target) + r.addend \notin 0..AddressSpace - 1
  <2>1. PICK t \in 1..Len(Defs) : Defs[t].name = r.target
    BY <1>1, <1>8, NamedDefs
  <2>2. Address(r.target) = regions[t].address
    BY <1>1, <2>1, AddressOf
  <2>3. regions[t].address = AlignUp(Extent[t - 1], Align(t))
    <3>1. regions[t].address = AlignUp(Before(t), Align(t))
      BY <1>1, <2>1 DEF PlacedInv
    <3>2. Extent[t - 1] = Before(t)
      <4>1. Len(Defs) \in Nat
        BY <1>1, JobFacts
      <4>2. t \in 1..Len(regions) + 1
        BY <1>1, <4>1
      <4> QED BY <4>2, ExtentIsPlaced
    <3> QED BY <3>1, <3>2
  <2>4. BadRelocation(index, k)
    BY <1>8, <2>1, <2>2, <2>3 DEF BadRelocation, Relocations
  <2> QED BY <1>1, <1>2, <1>3, <2>4
<1> QED BY <1>1, <1>2, <1>3, <1>5, <1>6, <1>7, <1>8 DEF Patchable, Relocations

LEMMA StuckIsUnlinkable ==
    ASSUME IInv, PlacedInv, Stuck
    PROVE  ~ Linkable
<1> SUFFICES ASSUME Linkable PROVE FALSE
  OBVIOUS
<1>1. /\ Acceptable /\ Valid(job.artifact) /\ ~ TooLarge
      /\ \A i \in 1..Len(Defs) : \A j \in DOMAIN Defs[i].relocations : ~ BadRelocation(i, j)
  BY DEF Linkable, Acceptable
<1> QED BY <1>1, OverrunIsTooLarge, UnpatchableIsBad DEF Stuck

LEMMA PlacedIsNotTooLarge ==
    ASSUME IInv, PlacedInv, Len(regions) = Len(Defs)
    PROVE  /\ ~ TooLarge
           /\ \A i \in 1..Len(Defs) :
                 /\ AlignUp(Extent[i - 1], Align(i)) = regions[i].address
                 /\ Extent[i] = regions[i].address + regions[i].size
<1>1. job \in Jobs /\ Len(Defs) \in Nat
  BY JobFacts DEF IInv
<1>2. ASSUME NEW i \in 1..Len(Defs)
      PROVE  /\ AlignUp(Extent[i - 1], Align(i)) = regions[i].address
             /\ Extent[i] = regions[i].address + regions[i].size
  <2>1. i \in 1..Len(regions) + 1 /\ i + 1 \in 1..Len(regions) + 1 /\ i + 1 - 1 = i /\ i + 1 # 1
    BY <1>1
  <2>2. Extent[i - 1] = Before(i) /\ Extent[i] = Before(i + 1)
    BY <2>1, ExtentIsPlaced
  <2>3. Before(i + 1) = regions[i].address + regions[i].size
    BY <2>1 DEF Before, End
  <2> QED BY <1>1, <2>2, <2>3 DEF PlacedInv
<1>3. ~ TooLarge
  <2> SUFFICES ASSUME NEW i \in 1..Len(Defs),
                      Extent[i] > Limit \/ AlignUp(Extent[i - 1], Align(i)) >= AddressSpace
               PROVE  FALSE
    BY DEF TooLarge
  <2>1. /\ regions[i].address \in Nat /\ regions[i].size \in Nat /\ cursor \in Nat
        /\ regions[i].address + regions[i].size <= cursor /\ cursor <= Limit
        /\ regions[i].address < AddressSpace
    BY <1>1 DEF IInv, StorageIsApart, End
  <2>2. Limit \in Nat /\ AddressSpace \in Nat
    BY <1>1, JobFacts, AddressSpaceAssumption
  <2>3. regions[i].address + regions[i].size > Limit \/ regions[i].address >= AddressSpace
    BY <1>2
  <2> QED BY <2>1, <2>2, <2>3
<1> QED BY <1>2, <1>3

LEMMA CompleteIsLinkable ==
    ASSUME IInv, PlacedInv, Complete
    PROVE  Linkable
<1>1. /\ Laid /\ job \in Jobs /\ Valid(job.artifact) /\ Acceptable
      /\ Len(Defs) \in Nat /\ Len(regions) = Len(Defs)
  BY DEF Complete, Laid
<1>2. /\ ~ TooLarge
      /\ \A i \in 1..Len(Defs) :
            /\ AlignUp(Extent[i - 1], Align(i)) = regions[i].address
            /\ Extent[i] = regions[i].address + regions[i].size
  BY <1>1, PlacedIsNotTooLarge
<1>4. ASSUME NEW i \in 1..Len(Defs), NEW j \in DOMAIN Defs[i].relocations
      PROVE  ~ BadRelocation(i, j)
  <2> DEFINE r == Relocations(i)[j]
  <2>1. /\ Len(Relocations(i)) \in Nat /\ Defs[i].size \in Nat
        /\ DOMAIN Defs[i].relocations = 1..Len(Relocations(i))
        /\ j \in 1..Len(Relocations(i))
        /\ \A l \in 1..Len(Relocations(i)) : Relocations(i)[l].offset \in Nat
    BY <1>1, DefsFacts DEF IsDefinition, Relocations
  <2>2. \A l \in 1..Len(Relocations(i)) : Applies(i, l)
    BY DEF Complete
  <2>3. ~ (r.offset + 4 > Defs[i].size)
    <3>1. r.offset \in Nat /\ Defs[i].size \in Nat
      BY <2>1
    <3>2. r.offset + 4 <= Defs[i].size
      BY <2>1, <2>2 DEF Applies
    <3> HIDE DEF r
    <3> QED BY <3>1, <3>2
  <2>4. ASSUME NEW l \in 1..Len(Relocations(i)), l # j PROVE Apart(r, Relocations(i)[l])
    <3>1. CASE l < j
      <4>1. l \in 1..j - 1
        BY <2>1, <3>1
      <4>2. Apart(Relocations(i)[l], r)
        BY <2>1, <2>2, <4>1 DEF Applies
      <4> QED BY <4>2 DEF Apart
    <3>2. CASE j < l
      <4>1. j \in 1..l - 1
        BY <2>1, <3>2
      <4> QED BY <2>2, <4>1 DEF Applies
    <3> QED BY <2>1, <2>4, <3>1, <3>2
  <2>5. r.target \in Symbols(job.artifact) /\ Address(r.target) + r.addend \in 0..AddressSpace - 1
    BY <2>1, <2>2 DEF Applies
  <2>6. r.target \in Named(Defs)
    BY <1>1, <2>5, NamedDefs DEF Named
  <2>7. ASSUME NEW t \in 1..Len(Defs), Defs[t].name = r.target
        PROVE  AlignUp(Extent[t - 1], Align(t)) + r.addend \in 0..AddressSpace - 1
    <3>1. Address(r.target) = regions[t].address
      BY <1>1, <2>7, AddressOf
    <3> QED BY <1>2, <2>5, <3>1
  <2>8. \A l \in 1..Len(Defs[i].relocations) :
           l # j => Apart(Defs[i].relocations[j], Defs[i].relocations[l])
    BY <2>4 DEF Relocations
  <2>9. Relocations(i) = Defs[i].relocations
    BY DEF Relocations
  <2> QED BY <2>3, <2>6, <2>7, <2>8, <2>9 DEF BadRelocation
<1> QED BY <1>1, <1>2, <1>4 DEF Linkable

FailedInv == pc = "failed" => Stuck

LEMMA StuckPrimed ==
    ASSUME Stuck, UNCHANGED <<job, cursor, regions, index, patches>>
    PROVE  Stuck'
<1>1. Defs' = Defs /\ Limit' = Limit /\ \A n : Address(n)' = Address(n)
  BY DEF Address, Defs, Limit
<1>2. \A i : Relocations(i)' = Relocations(i) /\ Align(i)' = Align(i)
  BY DEF Relocations, Defs, Align, IsFunction
<1>3. Relocation' = Relocation /\ Current' = Current
  BY DEF Relocation, Defs, Current
<1>4. Acceptable' <=> Acceptable
  BY JobUnchanged
<1>5. \A r : Patchable(r)' <=> Patchable(r)
  BY <1>1 DEF Patchable
<1>6. \A a, b : Fits(a, b)' <=> Fits(a, b)
  BY <1>1 DEF Fits
<1>7. Overrun' <=> Overrun
  BY <1>1, <1>2, <1>3, <1>6 DEF Overrun, AlignUp
<1>8. Unpatchable' <=> Unpatchable
  BY <1>1, <1>2, <1>3, <1>5 DEF Unpatchable
<1> QED BY <1>4, <1>7, <1>8 DEF Stuck

LEMMA NextKeepsFailed ==
    IInv /\ PlacedInv /\ PatchInv /\ FailedInv /\ [Next]_vars => FailedInv'
<1> SUFFICES ASSUME IInv, PlacedInv, PatchInv, FailedInv, [Next]_vars, pc' = "failed"
             PROVE  Stuck'
  BY DEF FailedInv
<1>1. CASE Refuse
  <2>1. UNCHANGED <<job, cursor, regions, index, patches>>
    BY <1>1 DEF Refuse, Fail
  <2>2. CASE ~ Acceptable
    BY <2>1, <2>2, StuckPrimed DEF Stuck
  <2>3. CASE Placing /\ ~ Fits(AlignUp(cursor, Align(Current)), Defs[Current].size)
    BY <2>1, <2>3, StuckPrimed DEF Stuck, Overrun, Placing
  <2>4. CASE Patching /\ ~ Patchable(Relocation)
    <3>1. /\ pc = "write" /\ index <= Len(Defs)
          /\ patches \in 0..Len(Relocations(index)) - 1
      BY <2>4 DEF Patching, Writing, Relocations
    <3>2. Laid /\ index \in 1..Len(Defs) + 1
      BY <3>1, SettledIsLaid DEF PatchInv, Settled, Contents
    <3>3. Len(regions) = Len(Defs) /\ index \in 1..Len(Defs)
      BY <3>1, <3>2 DEF Laid
    <3> QED BY <2>1, <2>4, <3>1, <3>3, StuckPrimed DEF Stuck, Unpatchable
  <2> QED BY <1>1, <2>2, <2>3, <2>4 DEF Refuse
<1>2. CASE UNCHANGED vars
  BY <1>2, StuckPrimed DEF vars, FailedInv
<1>3. ~ (Check \/ Place \/ Allocate \/ AllocateFails \/ Copy \/ Patch \/ NextDefinition
         \/ FinishLink \/ Load \/ RefuseLoad)
  BY DEF Check, Place, Placing, Allocate, AllocateFails, Copy, Patch, Patching, NextDefinition,
         Writing, FinishLink, Load, RefuseLoad
<1> QED BY <1>1, <1>2, <1>3 DEF Next

(* link_image gives up an artifact only when it cannot be laid out and      *)
(* patched, told from the job alone, or for want of memory for an image     *)
(* that fits; and it links none that cannot.                                *)
THEOREM RefusesExactlyUnlinkableHolds == Spec => []RefusesExactlyUnlinkable
<1>1. Init => FailedInv
  BY DEF Init, FailedInv
<1>2. IInv /\ PlacedInv /\ PatchInv /\ FailedInv => RefusesExactlyUnlinkable
  BY StuckIsUnlinkable, LinkedIsComplete, CompleteIsLinkable, PlacedIsNotTooLarge
     DEF FailedInv, RefusesExactlyUnlinkable, Settled, PlacedInv
<1> QED BY <1>1, <1>2, NextKeepsFailed, ImageInvariance, PTL DEF Spec

=============================================================================
