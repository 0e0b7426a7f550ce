----------------------- MODULE TranslationUnit_proofs -----------------------
(* Proofs about file-scope declarations, for every set of names and of      *)
(* types and every length of a unit.                                        *)
EXTENDS TranslationUnit, SequenceTheorems, FiniteSetTheorems, TLAPS

(* The storage class follows from what is written: an initialized extern    *)
(* object loses its specifier, a defined function is extern unless static.  *)
StorageOf(v) ==
    CASE v.spec = "typedef" -> "Typedef"
      [] v.spec = "static"  -> "Static"
      [] v.spec = "extern"  -> IF v.kind = "object" /\ v.init THEN "Auto" ELSE "Extern"
      [] OTHER              -> IF v.kind = "function" /\ v.init THEN "Extern" ELSE "Auto"

(* A use is of the symbol itself or of an earlier one that is no typedef.   *)
WellShaped(s) ==
    /\ unit[s].storage_class = StorageOf(unit[s])
    /\ unit[s].spec = "typedef" => ~ unit[s].init
    /\ \A u \in unit[s].uses : /\ u <= s
                               /\ unit[u].storage_class # "Typedef"

(* p is the declaration of its name just before s.                          *)
Precedes(p, s) == p \in Before(s) /\ \A t \in Before(s) : t <= p

(* What scope held when s was declared is what precedes s.                  *)
ErrorsExact ==
    /\ \A e \in errors : \E p \in Symbols : Precedes(p, e.symbol)
    /\ \A s \in Symbols, p \in Symbols : Precedes(p, s) =>
          /\ [symbol |-> s, kind |-> "IncompatibleRedeclaration"] \in errors
                <=> ~ Redeclares(unit[p], unit[s])
          /\ [symbol |-> s, kind |-> "Redefinition"] \in errors
                <=> Redeclares(unit[p], unit[s]) /\ unit[s].init /\ p \in initialized

ScopeIsNewest ==
    \A n \in Names : IF scope[n] = NoSymbol THEN Of(n) = {}
                     ELSE scope[n] \in Of(n) /\ \A s \in Of(n) : s <= scope[n]

Analyzed ==
    /\ \A s \in Symbols : WellShaped(s)
    /\ initialized = {s \in Symbols : unit[s].kind = "object" /\ unit[s].init}
    /\ ScopeIsNewest
    /\ ErrorsExact

(* The declarations of n that canonicalization has seen.                    *)
Seen == CASE pc \in {"analyze", "rejected"} -> 0
          [] pc = "canonicalize"            -> k - 1
          [] OTHER                          -> Len(unit)
Candidates(n) == {s \in Of(n) : s <= Seen /\ unit[s].storage_class # "Typedef"}

(* c stands for the candidates of n: the last with an initializer, or the   *)
(* first if none has one, or, when that one is extern, the first after it   *)
(* that is not.                                                             *)
Base(b, n) == /\ b \in Candidates(n)
              /\ unit[b].init \/ \A s \in Candidates(n) : b <= s
              /\ \A s \in Candidates(n) : b < s => ~ unit[s].init
Stands(c, b, n) ==
    \/ c = b /\ (unit[b].storage_class = "Extern" =>
                    \A s \in Candidates(n) : b < s => unit[s].storage_class = "Extern")
    \/ /\ c \in Candidates(n) /\ b < c
       /\ unit[b].storage_class = "Extern" /\ unit[c].storage_class # "Extern"
       /\ \A s \in Candidates(n) : b < s /\ s < c => unit[s].storage_class = "Extern"
Canonicalized ==
    \A n \in Names : IF Candidates(n) = {} THEN canonical[n] = NoSymbol
                     ELSE \E b \in Candidates(n) : Base(b, n) /\ Stands(canonical[n], b, n)

(* The declarations emission has passed, and those of them it emits.        *)
Passed == CASE pc \in {"analyze", "rejected", "canonicalize"} -> 0
            [] pc = "emit"                                    -> k - 1
            [] OTHER                                          -> Len(unit)
Emits(s) == /\ unit[s].storage_class # "Typedef"
            /\ canonical[unit[s].id] = s
            /\ IsDefinition(unit[s])
EmittedSoFar ==
    /\ \A i \in DOMAIN artifact.defined :
          /\ artifact.defined[i].symbol <= Passed
          /\ Emits(artifact.defined[i].symbol)
          /\ artifact.defined[i].name = SymbolName(artifact.defined[i].symbol)
    /\ \A s \in 1..Passed : Emits(s) =>
          \E i \in DOMAIN artifact.defined : artifact.defined[i].symbol = s
    /\ \A i, j \in DOMAIN artifact.defined :
          i < j => artifact.defined[i].symbol < artifact.defined[j].symbol

(* What Bind asks of the object that emission has left.                     *)
Resolved == (Referenced \cap LocalSymbols) \ Defined = {}
Unresolved == Defined = {} \/ (Referenced \cap LocalSymbols) \ Defined # {}

Stages ==
    /\ pc = "analyze" => k = 1
    /\ pc \in {"canonicalize", "emit"} => k \in Symbols
    /\ Accepted => errors = {}
    /\ pc = "done" => artifact.local = LocalSymbols \cap Defined
    /\ pc = "done" => Resolved
    /\ pc = "refused" => Unresolved
    /\ pc # "done" => artifact.local = {}

UnitInv == TypeOK /\ Analyzed /\ Stages /\ Canonicalized /\ EmittedSoFar

----------------------------------------------------------------------------
(* Declarations                                                             *)

LEMMA Units == ASSUME TypeOK
    PROVE  /\ unit \in Seq(Variable) /\ Len(unit) \in Nat /\ DOMAIN unit = Symbols
           /\ \A s \in Symbols : unit[s] \in Variable /\ s \in Nat /\ s > 0 /\ s <= Len(unit)
           /\ \A s \in Symbols : unit[s].id \in Names
           /\ artifact.defined \in Seq([name : [id : Names, static : BOOLEAN], symbol : Symbols])
           /\ Len(artifact.defined) \in Nat
           /\ DOMAIN artifact.defined = 1..Len(artifact.defined)
           /\ \A i \in DOMAIN artifact.defined : artifact.defined[i].symbol \in Symbols
<1>1. unit \in Seq(Variable)
  BY DEF TypeOK
<1>2. Len(unit) \in Nat /\ DOMAIN unit = 1..Len(unit)
  BY <1>1
<1>3. \A s \in 1..Len(unit) : unit[s] \in Variable /\ s \in Nat /\ s > 0 /\ s <= Len(unit)
  BY <1>1, <1>2
<1>4. artifact.defined \in Seq([name : [id : Names, static : BOOLEAN], symbol : Symbols])
  BY DEF TypeOK
<1>5. Len(artifact.defined) \in Nat /\ DOMAIN artifact.defined = 1..Len(artifact.defined)
  BY <1>4
<1>6. \A v \in Variable : v.id \in Names
  BY DEF Variable
<1>7. \A i \in DOMAIN artifact.defined :
         artifact.defined[i] \in [name : [id : Names, static : BOOLEAN], symbol : Symbols]
  BY <1>4, <1>5, ElementOfSeq
<1>8. \A i \in DOMAIN artifact.defined : artifact.defined[i].symbol \in Symbols
  BY <1>7
<1> QED BY <1>1, <1>2, <1>3, <1>4, <1>5, <1>6, <1>8 DEF Symbols

(* What a declaration adds, and what it leaves as it was.                   *)
LEMMA Appends ==
    ASSUME TypeOK, NEW m \in Variable, NEW z, z = Len(unit) + 1, unit' = Append(unit, m)
    PROVE  /\ z \in Nat /\ z > 0 /\ z \notin Symbols
           /\ unit' \in Seq(Variable) /\ Len(unit)' = z
           /\ Symbols' = Symbols \cup {z}
           /\ unit'[z] = m
           /\ \A s \in Symbols : unit'[s] = unit[s]
           /\ \A n : Of(n)' = IF n = m.id THEN Of(n) \cup {z} ELSE Of(n)
           /\ \A s \in Symbols : Before(s)' = Before(s)
           /\ Before(z)' = Of(m.id)
<1>1. unit \in Seq(Variable) /\ Len(unit) \in Nat
  BY Units
<1>2. /\ unit' \in Seq(Variable) /\ Len(unit') = z
      /\ \A s \in 1..Len(unit) : unit'[s] = unit[s]
      /\ unit'[z] = m
  BY <1>1
<1>3. z \in Nat /\ z > 0 /\ z \notin Symbols /\ Symbols' = Symbols \cup {z}
  BY <1>1, <1>2 DEF Symbols
<1>4. \A s \in Symbols : unit'[s] = unit[s] /\ s < z /\ s # z
  BY <1>1, <1>2 DEF Symbols
<1>5. ASSUME NEW n PROVE Of(n)' = IF n = m.id THEN Of(n) \cup {z} ELSE Of(n)
  BY <1>2, <1>3, <1>4 DEF Of
<1>6. ASSUME NEW s \in Symbols PROVE Before(s)' = Before(s)
  <2>1. Before(s)' = {t \in {x \in Symbols' : unit'[x].id = unit'[s].id} : t < s}
    BY DEF Before, Of
  <2>2. ~ (z < s)
    BY <1>3, <1>4 DEF Symbols
  <2> QED BY <1>3, <1>4, <2>1, <2>2 DEF Before, Of
<1>7. Before(z)' = Of(m.id)
  <2>1. Before(z)' = {t \in {x \in Symbols' : unit'[x].id = unit'[z].id} : t < z}
    BY DEF Before, Of
  <2>2. \A t \in Symbols : t < z
    BY <1>4
  <2>3. ~ (z < z)
    BY <1>3
  <2> QED BY <1>2, <1>3, <1>4, <2>1, <2>2, <2>3 DEF Of
<1> QED BY <1>2, <1>3, <1>4, <1>5, <1>6, <1>7

(* Nothing is canonicalized or emitted before the end of the unit.          *)
LEMMA NothingSeen ==
    ASSUME TypeOK, pc \in {"analyze", "rejected"}
    PROVE  /\ \A n : Candidates(n) = {}
           /\ Canonicalized <=> \A n \in Names : canonical[n] = NoSymbol
           /\ EmittedSoFar <=> artifact.defined = << >>
<1>1. \A s \in Symbols : ~ (s <= 0)
  BY Units
<1>2. \A n : Candidates(n) = {}
  BY <1>1 DEF Candidates, Seen, Of
<1>3. \A i \in DOMAIN artifact.defined : artifact.defined[i].symbol \in Symbols
  BY Units
<1>4. Passed = 0
  BY DEF Passed
<1>5. EmittedSoFar <=> DOMAIN artifact.defined = {}
  BY <1>1, <1>3, <1>4 DEF EmittedSoFar
<1>6. DOMAIN artifact.defined = {} <=> artifact.defined = << >>
  <2>1. /\ artifact.defined \in Seq([name : [id : Names, static : BOOLEAN], symbol : Symbols])
        /\ Len(artifact.defined) \in Nat
        /\ DOMAIN artifact.defined = 1..Len(artifact.defined)
    BY Units
  <2>2. artifact.defined = << >> <=> Len(artifact.defined) = 0
    BY <2>1, EmptySeq
  <2>3. \A l \in Nat : 1..l = {} <=> l = 0
    OBVIOUS
  <2> QED BY <2>1, <2>2, <2>3
<1> QED BY <1>2, <1>5, <1>6 DEF Canonicalized

Untouched == artifact.defined = << >> /\ \A n \in Names : canonical[n] = NoSymbol
LEMMA NothingSeenYet ==
    TypeOK /\ pc \in {"analyze", "rejected"} /\ Untouched => Canonicalized /\ EmittedSoFar
BY NothingSeen DEF Untouched

(* Any declaration whose storage class is the one that is written keeps the *)
(* invariant.                                                               *)
LEMMA DeclareHolds ==
    ASSUME UnitInv, Analyzing, NEW m \in Variable, declare(m),
           m.storage_class = StorageOf(m), m.spec = "typedef" => ~ m.init,
           \A u \in m.uses : IF u \in Symbols THEN unit[u].storage_class # "Typedef"
                             ELSE u = Len(unit) + 1 /\ m.storage_class # "Typedef",
           initialized' = IF m.kind = "object" /\ m.init THEN initialized \cup {Len(unit) + 1}
                          ELSE initialized
    PROVE  UnitInv'
<1> DEFINE e == scope[m.id]
<1>1. PICK z : z = Len(unit) + 1
  OBVIOUS
<1>2. /\ z \in Nat /\ z > 0 /\ z \notin Symbols
      /\ unit' \in Seq(Variable) /\ Len(unit)' = z
      /\ Symbols' = Symbols \cup {z}
      /\ unit'[z] = m
      /\ \A s \in Symbols : unit'[s] = unit[s]
      /\ \A n : Of(n)' = IF n = m.id THEN Of(n) \cup {z} ELSE Of(n)
      /\ \A s \in Symbols : Before(s)' = Before(s)
      /\ Before(z)' = Of(m.id)
  BY <1>1, Appends DEF UnitInv, declare
<1>3. /\ \A s \in Symbols : unit[s] \in Variable /\ s \in Nat /\ s > 0 /\ s < z
      /\ m.id \in Names /\ Len(unit) \in Nat /\ z <= MaxDeclarations /\ m.kind \in {"object", "function"}
  <2>1. \A s \in Symbols : unit[s] \in Variable /\ s \in Nat /\ s > 0 /\ s <= Len(unit)
    BY Units DEF UnitInv
  <2>2. Len(unit) \in Nat
    BY Units DEF UnitInv
  <2> QED BY <1>1, <2>1, <2>2, MaxAssumption DEF Variable, Analyzing
<1>4. /\ pc = "analyze" /\ pc' = "analyze" /\ k' = k /\ canonical' = canonical /\ artifact' = artifact
      /\ scope' = [scope EXCEPT ![m.id] = z]
      /\ errors' = errors \cup {[symbol |-> z, kind |-> q] : q \in Diagnosed(m)}
      /\ initialized' = IF m.kind = "object" /\ m.init THEN initialized \cup {z} ELSE initialized
  BY <1>1 DEF Analyzing, declare
<1>5. TypeOK /\ Analyzed /\ Stages
  BY DEF UnitInv
<1>6. /\ artifact.defined = << >>
      /\ \A n \in Names : canonical[n] = NoSymbol
      /\ canonical \in [Names -> 0..Len(unit)] /\ scope \in [Names -> 0..Len(unit)]
      /\ initialized \subseteq Symbols
      /\ errors \subseteq [symbol : Symbols, kind : {"IncompatibleRedeclaration", "Redefinition"}]
      /\ artifact.local = {} /\ k = 1
  BY <1>4, <1>5, NothingSeen, Units DEF UnitInv, Stages, TypeOK
<1>7. Diagnosed(m) \subseteq {"IncompatibleRedeclaration", "Redefinition"}
  BY DEF Diagnosed
<1>8. e \in 0..Len(unit) /\ (e = NoSymbol => Of(m.id) = {})
      /\ (e # NoSymbol => e \in Of(m.id) /\ \A s \in Of(m.id) : s <= e)
  BY <1>3, <1>5, <1>6 DEF Analyzed, ScopeIsNewest
<1>9. \A p : Precedes(p, z)' <=> p = e /\ e # NoSymbol
  <2>1. \A p : Precedes(p, z)' <=> p \in Of(m.id) /\ \A t \in Of(m.id) : t <= p
    BY <1>2 DEF Precedes
  <2>2. \A p \in Of(m.id) : p \in Nat
    BY <1>3 DEF Of
  <2> HIDE DEF e
  <2>3. ASSUME NEW p \in Of(m.id), \A t \in Of(m.id) : t <= p PROVE p = e /\ e # NoSymbol
    <3>1. e # NoSymbol /\ e <= p /\ p <= e /\ e \in Nat /\ p \in Nat
      BY <1>8, <2>2, <2>3
    <3> QED BY <3>1
  <2> QED BY <1>8, <2>1, <2>3
<1>10. \A s \in Symbols : \A p : Precedes(p, s)' <=> Precedes(p, s)
  BY <1>2 DEF Precedes
<1>11. TypeOK'
  <2>2. artifact'.defined \in Seq([name : [id : Names, static : BOOLEAN], symbol : Symbols'])
    BY <1>4, <1>6, EmptySeq
  <2>1. artifact' = [defined |-> artifact'.defined, local |-> {}]
    BY <1>4, <1>5, <1>6 DEF TypeOK
  <2>3. scope' \in [Names -> 0..z] /\ canonical' \in [Names -> 0..z]
    BY <1>1, <1>3, <1>4, <1>6
  <2>4. initialized' \subseteq Symbols'
    BY <1>2, <1>4, <1>6
  <2>5. errors' \subseteq [symbol : Symbols', kind : {"IncompatibleRedeclaration", "Redefinition"}]
    BY <1>2, <1>4, <1>6, <1>7
  <2> QED BY <1>2, <1>3, <1>4, <1>6, <2>1, <2>2, <2>3, <2>4, <2>5 DEF TypeOK
<1>12. \A s \in Symbols' : WellShaped(s)'
  <2>1. ASSUME NEW s \in Symbols PROVE WellShaped(s)'
    <3>1. WellShaped(s) /\ unit'[s] = unit[s]
      BY <1>2, <1>5 DEF Analyzed
    <3>2. \A u \in unit[s].uses : u \in Symbols
      <4>1. \A u \in unit[s].uses : u \in 1..MaxDeclarations /\ u <= s
        BY <1>3, <3>1 DEF WellShaped, Variable
      <4> QED BY <1>3, <4>1 DEF Symbols
    <3> QED BY <1>2, <3>1, <3>2 DEF WellShaped, StorageOf
  <2>2. WellShaped(z)'
    <3>1. \A u \in m.uses : u <= z /\ unit'[u].storage_class # "Typedef"
      BY <1>1, <1>2, <1>3
    <3> QED BY <1>2, <3>1 DEF WellShaped, StorageOf
  <2> QED BY <1>2, <2>1, <2>2
<1>13. initialized' = {s \in Symbols' : unit'[s].kind = "object" /\ unit'[s].init}
  BY <1>2, <1>4, <1>5 DEF Analyzed
<1>14. ScopeIsNewest'
  <2>1. ASSUME NEW n \in Names, n # m.id
        PROVE  scope'[n] = scope[n] /\ Of(n)' = Of(n)
    BY <1>2, <1>4, <1>6, <2>1
  <2>2. scope'[m.id] = z /\ Of(m.id)' = Of(m.id) \cup {z}
    BY <1>2, <1>3, <1>4, <1>6
  <2>3. \A s \in Of(m.id)' : s <= z
    BY <1>2, <1>3, <2>2 DEF Of
  <2>4. ScopeIsNewest /\ z # NoSymbol
    BY <1>2, <1>5 DEF Analyzed, NoSymbol
  <2> HIDE DEF Of
  <2> QED BY <2>1, <2>2, <2>3, <2>4 DEF ScopeIsNewest
<1>15. ErrorsExact'
  <2>1. ErrorsExact
    BY <1>5 DEF Analyzed
  <2>2. \A x \in errors : x.symbol \in Symbols /\ x.symbol # z
    BY <1>2, <1>6
  <2>3. \A s \in Symbols : \A q : [symbol |-> s, kind |-> q] \in errors' <=> [symbol |-> s, kind |-> q] \in errors
    BY <1>2, <1>4
  <2>4. \A q : [symbol |-> z, kind |-> q] \in errors' <=> q \in Diagnosed(m)
    BY <1>4, <2>2
  <2>5. ASSUME NEW x \in errors' PROVE \E p \in Symbols' : Precedes(p, x.symbol)'
    <3>1. CASE x \in errors
      BY <1>2, <1>10, <2>1, <2>2, <3>1 DEF ErrorsExact
    <3>2. CASE x \notin errors
      <4>1. x.symbol = z /\ Diagnosed(m) # {}
        BY <1>4, <3>2
      <4>2. e # NoSymbol
        BY <4>1 DEF Diagnosed
      <4> QED BY <1>2, <1>8, <1>9, <4>1, <4>2 DEF Of
    <3> QED BY <3>1, <3>2
  <2>6. ASSUME NEW s \in Symbols', NEW p \in Symbols', Precedes(p, s)'
        PROVE  /\ [symbol |-> s, kind |-> "IncompatibleRedeclaration"] \in errors'
                     <=> ~ Redeclares(unit'[p], unit'[s])
               /\ [symbol |-> s, kind |-> "Redefinition"] \in errors'
                     <=> Redeclares(unit'[p], unit'[s]) /\ unit'[s].init /\ p \in initialized'
    <3>1. CASE s \in Symbols
      <4>1. Precedes(p, s) /\ p \in Symbols
        BY <1>10, <2>6, <3>1 DEF Precedes, Before, Of
      <4>2. unit'[p] = unit[p] /\ unit'[s] = unit[s] /\ (p \in initialized' <=> p \in initialized)
        BY <1>2, <1>4, <3>1, <4>1
      <4>3. /\ [symbol |-> s, kind |-> "IncompatibleRedeclaration"] \in errors
                  <=> ~ Redeclares(unit[p], unit[s])
            /\ [symbol |-> s, kind |-> "Redefinition"] \in errors
                  <=> Redeclares(unit[p], unit[s]) /\ unit[s].init /\ p \in initialized
        BY <2>1, <3>1, <4>1 DEF ErrorsExact
      <4> QED BY <2>3, <3>1, <4>2, <4>3
    <3>2. CASE s = z
      <4>1. p = e /\ e # NoSymbol /\ e \in Symbols
        BY <1>8, <1>9, <2>6, <3>2 DEF Of
      <4>2. unit'[p] = unit[e] /\ unit'[s] = m /\ (p \in initialized' <=> e \in initialized)
        BY <1>2, <1>4, <3>2, <4>1
      <4>3. /\ "IncompatibleRedeclaration" \in Diagnosed(m) <=> ~ Redeclares(unit[e], m)
            /\ "Redefinition" \in Diagnosed(m) <=> Redeclares(unit[e], m) /\ m.init /\ e \in initialized
        BY <4>1 DEF Diagnosed
      <4> QED BY <2>4, <3>2, <4>2, <4>3
    <3> QED BY <1>2, <3>1, <3>2
  <2> QED BY <2>5, <2>6 DEF ErrorsExact, Redeclares, SameVariable
<1>16. Analyzed'
  BY <1>12, <1>13, <1>14, <1>15 DEF Analyzed
<1>17. Stages'
  BY <1>4, <1>6 DEF Stages, Accepted
<1>18. Canonicalized' /\ EmittedSoFar'
  <2>1. (TypeOK /\ pc \in {"analyze", "rejected"} /\ Untouched)'
    BY <1>4, <1>6, <1>11 DEF Untouched
  <2> QED BY <2>1, NothingSeenYet, PTL
<1> QED BY <1>11, <1>16, <1>17, <1>18 DEF UnitInv

LEMMA DeclarationHolds ==
    ASSUME UnitInv, DeclareObject \/ DeclareFunction \/ DeclareTypedef \/ DefineFunction
    PROVE  UnitInv'
<1>0. /\ Len(unit) \in Nat /\ TypeOK /\ Analyzed
      /\ \A s \in Symbols : s \in 1..MaxDeclarations
  <2>1. TypeOK /\ Analyzed
    BY DEF UnitInv
  <2>2. Len(unit) \in Nat /\ Len(unit) <= MaxDeclarations
    BY <2>1, Units DEF TypeOK
  <2> QED BY <2>1, <2>2, MaxAssumption DEF Symbols
<1>1. ASSUME DeclareObject PROVE UnitInv'
  <2>1. PICK n \in Names, t \in Types, spec \in {"none", "extern", "static"}, i \in BOOLEAN :
          /\ declare([id |-> n, kind |-> "object", type |-> t, spec |-> spec,
                      storage_class |-> IF spec = "extern" /\ i THEN "Auto" ELSE Written(spec),
                      qualifiers |-> {}, init |-> i, uses |-> {}])
          /\ initialized' = IF i THEN initialized \cup {Len(unit) + 1} ELSE initialized
    BY <1>1 DEF DeclareObject
  <2> DEFINE m == [id |-> n, kind |-> "object", type |-> t, spec |-> spec,
                   storage_class |-> IF spec = "extern" /\ i THEN "Auto" ELSE Written(spec),
                   qualifiers |-> {}, init |-> i, uses |-> {}]
  <2>2. m \in Variable
    BY DEF Variable, Written
  <2>3. m.storage_class = StorageOf(m) /\ (m.spec = "typedef" => ~ m.init) /\ m.uses = {}
    BY DEF Written, StorageOf
  <2>4. declare(m) /\ Analyzing /\ m.kind = "object" /\ m.init = i
    BY <1>1, <2>1 DEF DeclareObject
  <2> HIDE DEF m
  <2> QED BY <2>1, <2>2, <2>3, <2>4, DeclareHolds
<1>2. ASSUME DeclareFunction PROVE UnitInv'
  <2>1. PICK n \in Names, t \in Types, spec \in {"none", "extern", "static"},
            q \in SUBSET Qualifiers :
          declare([id |-> n, kind |-> "function", type |-> t, spec |-> spec,
                   storage_class |-> Written(spec), qualifiers |-> q, init |-> FALSE, uses |-> {}])
    BY <1>2 DEF DeclareFunction
  <2> DEFINE m == [id |-> n, kind |-> "function", type |-> t, spec |-> spec,
                   storage_class |-> Written(spec), qualifiers |-> q, init |-> FALSE, uses |-> {}]
  <2>2. m \in Variable
    BY DEF Variable, Written
  <2>3. m.storage_class = StorageOf(m) /\ (m.spec = "typedef" => ~ m.init) /\ m.uses = {}
    BY DEF Written, StorageOf
  <2>4. declare(m) /\ Analyzing /\ m.kind = "function" /\ initialized' = initialized
    BY <1>2, <2>1 DEF DeclareFunction
  <2> HIDE DEF m
  <2> QED BY <2>2, <2>3, <2>4, DeclareHolds
<1>3. ASSUME DeclareTypedef PROVE UnitInv'
  <2>1. PICK n \in Names, kind \in {"object", "function"}, t \in Types :
          declare([id |-> n, kind |-> kind, type |-> t, spec |-> "typedef",
                   storage_class |-> "Typedef", qualifiers |-> {}, init |-> FALSE, uses |-> {}])
    BY <1>3 DEF DeclareTypedef
  <2> DEFINE m == [id |-> n, kind |-> kind, type |-> t, spec |-> "typedef",
                   storage_class |-> "Typedef", qualifiers |-> {}, init |-> FALSE, uses |-> {}]
  <2>2. m \in Variable
    BY DEF Variable
  <2>3. m.storage_class = StorageOf(m) /\ ~ m.init /\ m.uses = {}
    BY DEF StorageOf
  <2>4. declare(m) /\ Analyzing /\ initialized' = initialized
    BY <1>3, <2>1 DEF DeclareTypedef
  <2> HIDE DEF m
  <2> QED BY <2>2, <2>3, <2>4, DeclareHolds
<1>4. ASSUME DefineFunction PROVE UnitInv'
  <2> DEFINE visible(n) == {scope[a] : a \in Names \ {n}} \ {NoSymbol}
             usable(n) == {s \in visible(n) : unit[s].storage_class # "Typedef"}
  <2>0. PICK n \in Names, t \in Types, spec \in {"none", "extern", "static"},
             q \in SUBSET Qualifiers :
          \E uses \in SUBSET (usable(n) \cup {Len(unit) + 1}) :
              declare([id |-> n, kind |-> "function", type |-> t, spec |-> spec,
                       storage_class |-> IF spec = "static" THEN "Static" ELSE "Extern",
                       qualifiers |-> q, init |-> TRUE, uses |-> uses])
    BY <1>4 DEF DefineFunction
  <2>1. PICK uses \in SUBSET (usable(n) \cup {Len(unit) + 1}) :
              declare([id |-> n, kind |-> "function", type |-> t, spec |-> spec,
                       storage_class |-> IF spec = "static" THEN "Static" ELSE "Extern",
                       qualifiers |-> q, init |-> TRUE, uses |-> uses])
    BY <2>0
  <2> DEFINE m == [id |-> n, kind |-> "function", type |-> t, spec |-> spec,
                   storage_class |-> IF spec = "static" THEN "Static" ELSE "Extern",
                   qualifiers |-> q, init |-> TRUE, uses |-> uses]
  <2>2. \A u \in usable(n) : u \in Symbols /\ unit[u].storage_class # "Typedef"
    <3>1. \A a \in Names : scope[a] = NoSymbol \/ scope[a] \in Symbols
      BY <1>0 DEF Analyzed, ScopeIsNewest, Of
    <3> QED BY <3>1
  <2>3. uses \subseteq 1..MaxDeclarations
    <3>1. Len(unit) + 1 \in 1..MaxDeclarations
      BY <1>0, <1>4, MaxAssumption DEF DefineFunction, Analyzing
    <3> QED BY <1>0, <2>2, <3>1
  <2>4. m \in Variable
    BY <2>3 DEF Variable
  <2>5. m.storage_class = StorageOf(m) /\ m.spec # "typedef" /\ m.uses = uses
        /\ m.storage_class # "Typedef"
    BY DEF StorageOf
  <2>6. declare(m) /\ Analyzing /\ m.kind = "function" /\ initialized' = initialized
    BY <1>4, <2>1 DEF DefineFunction
  <2>7. \A u \in uses : IF u \in Symbols THEN unit[u].storage_class # "Typedef"
                        ELSE u = Len(unit) + 1 /\ m.storage_class # "Typedef"
    <3>1. Len(unit) + 1 \notin Symbols
      BY <1>0 DEF Symbols
    <3> HIDE DEF m, usable
    <3> QED BY <2>2, <2>5, <3>1
  <2> HIDE DEF m
  <2> QED BY <2>4, <2>5, <2>6, <2>7, DeclareHolds
<1> QED BY <1>1, <1>2, <1>3, <1>4

----------------------------------------------------------------------------
(* compile()                                                                *)

(* Nothing compile() does touches what the analyzer has left.               *)
LEMMA AnalysisKept ==
    ASSUME UnitInv, UNCHANGED analysis
    PROVE  /\ Analyzed' /\ Symbols' = Symbols
           /\ \A n : Of(n)' = Of(n)
<1> QED BY DEF UnitInv, analysis, Analyzed, Symbols, Of, WellShaped, ScopeIsNewest, ErrorsExact,
               Precedes, Before, Redeclares, SameVariable, StorageOf

LEMMA EndUnitHolds == ASSUME UnitInv, EndUnit PROVE UnitInv'
<1>1. /\ pc = "analyze" /\ unit # << >> /\ pc' = IF errors = {} THEN "canonicalize" ELSE "rejected"
      /\ UNCHANGED <<unit, scope, initialized, errors, k, canonical, artifact>>
  BY DEF EndUnit, analysis
<1>2. Analyzed' /\ Symbols' = Symbols /\ \A n : Of(n)' = Of(n)
  BY <1>1, AnalysisKept DEF analysis
<1>3. k = 1 /\ k \in Symbols /\ artifact.local = {}
  <2>1. k = 1 /\ artifact.local = {}
    BY <1>1 DEF UnitInv, Stages
  <2>2. unit \in Seq(Variable) /\ Len(unit) \in Nat
    BY Units DEF UnitInv
  <2>3. Len(unit) # 0
    BY <1>1, <2>2, EmptySeq
  <2> QED BY <2>1, <2>2, <2>3 DEF Symbols
<1>4. TypeOK'
  BY <1>1 DEF UnitInv, TypeOK, Symbols, Defined
<1>5. Stages'
  BY <1>1, <1>2, <1>3 DEF Stages, Accepted
<1>6. Canonicalized' /\ EmittedSoFar'
  <2>1. artifact.defined = << >> /\ \A n \in Names : canonical[n] = NoSymbol
    BY <1>1, NothingSeen DEF UnitInv
  <2>2. DOMAIN artifact'.defined = {}
    BY <1>1, <2>1
  <2>3. Seen' = 0 /\ Passed' = 0
    BY <1>1, <1>3 DEF Seen, Passed
  <2>4. \A s \in Symbols : ~ (s <= 0)
    BY Units DEF UnitInv
  <2>5. \A n : Candidates(n)' = {}
    BY <1>2, <2>3, <2>4 DEF Candidates, Of
  <2> QED BY <1>1, <2>1, <2>2, <2>3, <2>5 DEF Canonicalized, EmittedSoFar
<1> QED BY <1>2, <1>4, <1>5, <1>6 DEF UnitInv

(* A declaration with an initializer becomes the new base; one that is not  *)
(* extern takes the place of an extern one; any other changes nothing.      *)
LEMMA CanonicalizeHolds == ASSUME UnitInv, Canonicalize PROVE UnitInv'
<1>1. /\ pc = "canonicalize" /\ k \in Symbols
      /\ canonical' = IF unit[k].storage_class # "Typedef" /\ Preferred(k)
                      THEN [canonical EXCEPT ![unit[k].id] = k] ELSE canonical
      /\ pc' = IF k < Len(unit) THEN pc ELSE "emit"
      /\ k' = IF k < Len(unit) THEN k + 1 ELSE 1
      /\ UNCHANGED <<unit, scope, initialized, errors, artifact>>
  BY DEF Canonicalize, analysis
<1>2. /\ TypeOK /\ Stages /\ Canonicalized /\ EmittedSoFar
      /\ Len(unit) \in Nat /\ k > 0 /\ k <= Len(unit) /\ k \in Nat
      /\ unit[k].id \in Names /\ canonical \in [Names -> 0..Len(unit)]
      /\ \A s \in Symbols : s \in Nat /\ s > 0
  <2>1. TypeOK
    BY DEF UnitInv
  <2> QED BY <1>1, <2>1, Units DEF UnitInv, TypeOK
<1>3. Analyzed' /\ Symbols' = Symbols /\ \A n : Of(n)' = Of(n)
  BY <1>1, AnalysisKept DEF analysis
<1>4. TypeOK'
  <2>1. canonical' \in [Names -> 0..Len(unit)]
    BY <1>1, <1>2
  <2> QED BY <1>1, <1>2, <1>3, <2>1 DEF TypeOK, Defined
<1>5. Stages'
  BY <1>1, <1>2, <1>3 DEF Stages, Accepted, Symbols
<1>6. Seen = k - 1 /\ Seen' = k /\ Passed = 0 /\ Passed' = 0
  BY <1>1, <1>2 DEF Seen, Passed
<1>7. EmittedSoFar'
  <2>1. DOMAIN artifact.defined = {}
    <3>1. \A i \in DOMAIN artifact.defined : artifact.defined[i].symbol \in Symbols
      BY <1>2, Units
    <3>2. \A s \in Symbols : ~ (s <= 0)
      BY <1>2
    <3> QED BY <1>2, <1>6, <3>1, <3>2 DEF EmittedSoFar
  <2> QED BY <1>1, <1>6, <2>1 DEF EmittedSoFar
<1>8. ASSUME NEW n \in Names
      PROVE  /\ \A s \in Candidates(n) : s \in Nat /\ s > 0 /\ s < k /\ s # k
             /\ Candidates(n)' = IF unit[k].id = n /\ unit[k].storage_class # "Typedef"
                                 THEN Candidates(n) \cup {k} ELSE Candidates(n)
  <2>1. \A s \in Symbols : s <= k <=> s <= k - 1 \/ s = k
    BY <1>2
  <2>2. Candidates(n)' = {s \in Of(n) : s <= k /\ unit[s].storage_class # "Typedef"}
    BY <1>1, <1>3, <1>6 DEF Candidates
  <2>3. Candidates(n) = {s \in Of(n) : s <= k - 1 /\ unit[s].storage_class # "Typedef"}
    BY <1>6 DEF Candidates
  <2>4. \A s \in Of(n) : s \in Symbols /\ unit[s].id = n
    BY DEF Of
  <2>5. unit[k].id = n => k \in Of(n)
    BY <1>1 DEF Of
  <2>6. \A s \in Candidates(n) : s \in Nat /\ s > 0 /\ s < k /\ s # k
    BY <1>2, <2>3, <2>4
  <2> QED BY <2>1, <2>2, <2>3, <2>4, <2>5, <2>6
<1>9. ASSUME NEW n \in Names
      PROVE  IF Candidates(n)' = {} THEN canonical'[n] = NoSymbol
             ELSE \E b \in Candidates(n)' : Base(b, n)' /\ Stands(canonical[n], b, n)'
  <2>0. /\ \A s \in Candidates(n) : s \in Nat /\ s > 0 /\ s < k /\ s # k
        /\ Candidates(n)' = IF unit[k].id = n /\ unit[k].storage_class # "Typedef"
                            THEN Candidates(n) \cup {k} ELSE Candidates(n)
    BY <1>8
  <2>1. IF Candidates(n) = {} THEN canonical[n] = NoSymbol
        ELSE \E b \in Candidates(n) : Base(b, n) /\ Stands(canonical[n], b, n)
    BY <1>2 DEF Canonicalized
  <2>2. CASE unit[k].id # n \/ unit[k].storage_class = "Typedef"
    <3>1. canonical'[n] = canonical[n] /\ Candidates(n)' = Candidates(n)
      BY <1>1, <1>2, <2>0, <2>2
    <3> QED BY <1>1, <2>1, <3>1 DEF Base, Stands
  <2>3. CASE unit[k].id = n /\ unit[k].storage_class # "Typedef"
    <3>1. Candidates(n)' = Candidates(n) \cup {k}
      BY <2>0, <2>3
    <3>2. Preferred(k) => canonical'[n] = k
      BY <1>1, <1>2, <2>3
    <3>3. ~ Preferred(k) => canonical'[n] = canonical[n]
      BY <1>1
    <3>6. PICK z : z = k
      OBVIOUS
    <3>4. CASE Candidates(n) = {}
      <4>1. Preferred(k)
        BY <2>1, <2>3, <3>4 DEF Preferred
      <4>2. z \in Candidates(n)' /\ Base(z, n)' /\ Stands(canonical[n], z, n)'
        BY <1>2, <3>6, <3>1, <3>2, <3>4, <4>1 DEF Base, Stands
      <4> QED BY <3>1, <4>2
    <3>5. CASE Candidates(n) # {}
      <4>1. PICK b \in Candidates(n) : Base(b, n) /\ Stands(canonical[n], b, n)
        BY <2>1, <3>5
      <4>2. canonical[n] \in Candidates(n) /\ canonical[n] # NoSymbol
        BY <2>0, <4>1 DEF Stands, NoSymbol
      <4>3. CASE unit[k].init
        <5>1. Preferred(k)
          BY <4>3 DEF Preferred
        <5>2. z \in Candidates(n)' /\ Base(z, n)' /\ Stands(canonical[n], z, n)'
          BY <3>6, <1>1, <1>2, <2>0, <3>1, <3>2, <4>3, <5>1 DEF Base, Stands
        <5> QED BY <3>1, <5>2
      <4>4. CASE ~ unit[k].init
        <5>1. Base(b, n)'
          BY <1>1, <1>2, <2>0, <3>1, <4>1, <4>4 DEF Base
        <5>2. CASE Preferred(k)
          <6>1. unit[k].storage_class # "Extern" /\ unit[canonical[n]].storage_class = "Extern"
            BY <2>3, <4>2, <4>4, <5>2 DEF Preferred
          <6>2. canonical[n] = b /\ \A s \in Candidates(n) : b < s => unit[s].storage_class = "Extern"
            BY <4>1, <6>1 DEF Stands
          <6>3. Stands(canonical[n], b, n)'
            BY <1>1, <1>2, <2>0, <3>1, <3>2, <5>2, <6>1, <6>2 DEF Stands
          <6> QED BY <3>1, <5>1, <6>3
        <5>3. CASE ~ Preferred(k)
          <6>1. unit[k].storage_class = "Extern" \/ unit[canonical[n]].storage_class # "Extern"
            BY <2>3, <5>3 DEF Preferred
          <6>2. Stands(canonical[n], b, n)'
            BY <1>1, <1>2, <2>0, <3>1, <3>3, <4>1, <5>3, <6>1 DEF Stands
          <6> QED BY <3>1, <5>1, <6>2
        <5> QED BY <5>2, <5>3
      <4> QED BY <4>3, <4>4
    <3> QED BY <3>4, <3>5
  <2> QED BY <2>2, <2>3
<1>10. Canonicalized'
  BY <1>9 DEF Canonicalized
<1> QED BY <1>3, <1>4, <1>5, <1>7, <1>10 DEF UnitInv

LEMMA EmitHolds == ASSUME UnitInv, Emit PROVE UnitInv'
<1> DEFINE name == [id : Names, static : BOOLEAN]
           entry == [name : name, symbol : Symbols]
<1>1. /\ pc = "emit" /\ k \in Symbols
      /\ artifact' = IF Emits(k)
                     THEN [artifact EXCEPT !.defined = Append(@, [name |-> SymbolName(k), symbol |-> k])]
                     ELSE artifact
      /\ pc' = IF k < Len(unit) THEN pc ELSE "bind"
      /\ k' = IF k < Len(unit) THEN k + 1 ELSE 1
      /\ UNCHANGED <<unit, scope, initialized, errors, canonical>>
  BY DEF Emit, Emits, analysis
<1>2. /\ TypeOK /\ Stages /\ Canonicalized /\ EmittedSoFar
      /\ Len(unit) \in Nat /\ k > 0 /\ k <= Len(unit) /\ k \in Nat
      /\ unit[k].id \in Names
      /\ \A s \in Symbols : s \in Nat /\ s > 0
  <2>1. TypeOK
    BY DEF UnitInv
  <2> QED BY <1>1, <2>1, Units DEF UnitInv
<1>3. Analyzed' /\ Symbols' = Symbols /\ \A n : Of(n)' = Of(n)
  BY <1>1, AnalysisKept DEF analysis
<1>4. PICK z, e : z = k /\ e = [name |-> SymbolName(k), symbol |-> k]
  OBVIOUS
<1>5. e \in entry /\ e.symbol = z /\ e.name = SymbolName(z) /\ z \in Symbols
  BY <1>1, <1>2, <1>4 DEF SymbolName
<1>6. /\ artifact \in [defined : Seq(entry), local : SUBSET Defined]
      /\ artifact.local = {}
  BY <1>1, <1>2 DEF TypeOK, Stages
<1>7. /\ artifact'.local = {}
      /\ artifact' = [defined |-> artifact'.defined, local |-> {}]
      /\ artifact'.defined = IF Emits(z) THEN Append(artifact.defined, e) ELSE artifact.defined
  <2> HIDE DEF entry, name
  <2> QED BY <1>1, <1>4, <1>6
<1>8. PICK old : old = artifact.defined
  OBVIOUS
<1>9. PICK new : new = artifact'.defined
  OBVIOUS
<1>10. old \in Seq(entry) /\ new = IF Emits(z) THEN Append(old, e) ELSE old
  BY <1>6, <1>7, <1>8, <1>9
<1>11. new \in Seq(entry)
  <2> HIDE DEF entry
  <2> QED BY <1>5, <1>10
<1>12. /\ Len(old) \in Nat /\ DOMAIN old = 1..Len(old) /\ DOMAIN new = 1..Len(new)
       /\ ~ Emits(z) => new = old
       /\ Emits(z) => /\ Len(new) = Len(old) + 1 /\ new[Len(old) + 1] = e
                      /\ \A i \in 1..Len(old) : new[i] = old[i]
  <2> HIDE DEF entry
  <2> QED BY <1>5, <1>10, <1>11
<1>13. TypeOK'
  <2>1. artifact' \in [defined : Seq(entry), local : SUBSET Defined']
    <3> HIDE DEF entry, name
    <3> QED BY <1>7, <1>9, <1>11
  <2>2. artifact' \in [defined : Seq([name : name, symbol : Symbols']), local : SUBSET Defined']
    BY <1>3, <2>1
  <2>3. k' \in Nat /\ pc' \in {"emit", "bind"}
    BY <1>1, <1>2
  <2>4. /\ unit' \in Seq(Variable) /\ Len(unit') <= MaxDeclarations
        /\ scope' \in [Names -> 0..Len(unit')] /\ canonical' \in [Names -> 0..Len(unit')]
        /\ initialized' \subseteq Symbols'
        /\ errors' \subseteq [symbol : Symbols', kind : {"IncompatibleRedeclaration", "Redefinition"}]
    BY <1>1, <1>2, <1>3 DEF TypeOK
  <2> QED BY <2>2, <2>3, <2>4 DEF TypeOK
<1>14. Stages'
  BY <1>1, <1>2, <1>3, <1>7 DEF Stages, Accepted, Symbols
<1>15. /\ Seen = Len(unit) /\ Seen' = Len(unit) /\ Passed = z - 1 /\ Passed' = z
  BY <1>1, <1>2, <1>4 DEF Seen, Passed
<1>16. Canonicalized'
  <2>1. \A n : Candidates(n)' = Candidates(n)
    BY <1>1, <1>3, <1>15 DEF Candidates
  <2> QED BY <1>1, <1>2, <2>1 DEF Canonicalized, Base, Stands
<1>17. /\ \A s : Emits(s)' <=> Emits(s)
       /\ \A s : SymbolName(s)' = SymbolName(s)
  BY <1>1 DEF Emits, IsDefinition, SymbolName
<1>18. /\ \A i \in 1..Len(old) : old[i].symbol \in Nat /\ old[i].symbol < z /\ old[i].symbol <= z
                                 /\ Emits(old[i].symbol) /\ old[i].name = SymbolName(old[i].symbol)
       /\ \A s \in 1..(z - 1) : Emits(s) => \E i \in 1..Len(old) : old[i].symbol = s
       /\ \A i, j \in 1..Len(old) : i < j => old[i].symbol < old[j].symbol
  <2>1. \A i \in 1..Len(old) : old[i].symbol \in Symbols
    BY <1>2, <1>8, <1>12, Units
  <2>2. \A i \in 1..Len(old) : old[i].symbol <= z - 1
    BY <1>2, <1>8, <1>12, <1>15 DEF EmittedSoFar
  <2>3. \A i \in 1..Len(old) : old[i].symbol \in Nat /\ old[i].symbol < z /\ old[i].symbol <= z
    BY <1>2, <1>4, <2>1, <2>2
  <2> QED BY <1>2, <1>8, <1>12, <1>15, <2>3 DEF EmittedSoFar
<1>19. z \in Nat /\ z > 0
  BY <1>2, <1>4
<1>20. /\ \A i \in 1..Len(new) : new[i].symbol <= z /\ Emits(new[i].symbol)
                                 /\ new[i].name = SymbolName(new[i].symbol)
       /\ \A s \in 1..z : Emits(s) => \E i \in 1..Len(new) : new[i].symbol = s
       /\ \A i, j \in 1..Len(new) : i < j => new[i].symbol < new[j].symbol
  <2> HIDE DEF entry, name
  <2>1. CASE Emits(z)
    <3>1. \A i \in 1..Len(new) : i \in 1..Len(old) \/ i = Len(old) + 1
      BY <1>12, <2>1
    <3>2. 1..Len(old) \subseteq 1..Len(new) /\ Len(old) + 1 \in 1..Len(new)
      BY <1>12, <2>1
    <3>3. new[Len(old) + 1].symbol = z /\ new[Len(old) + 1].name = SymbolName(z) /\ z <= z
      BY <1>5, <1>12, <1>19, <2>1
    <3>4. \A i \in 1..Len(new) : new[i].symbol <= z /\ Emits(new[i].symbol)
                                 /\ new[i].name = SymbolName(new[i].symbol)
      BY <1>12, <1>18, <2>1, <3>1, <3>3
    <3>5. ASSUME NEW s \in 1..z, Emits(s) PROVE \E i \in 1..Len(new) : new[i].symbol = s
      <4>1. s = z \/ s \in 1..(z - 1)
        BY <1>19
      <4> QED BY <1>12, <1>18, <2>1, <3>2, <3>3, <3>5, <4>1
    <3>6. ASSUME NEW i \in 1..Len(new), NEW j \in 1..Len(new), i < j
          PROVE  new[i].symbol < new[j].symbol
      <4>1. i \in 1..Len(old)
        BY <1>12, <2>1, <3>6
      <4> QED BY <1>12, <1>18, <2>1, <3>1, <3>3, <3>6, <4>1
    <3> QED BY <3>4, <3>5, <3>6
  <2>2. CASE ~ Emits(z)
    <3>1. \A s \in 1..z : s = z \/ s \in 1..(z - 1)
      BY <1>19
    <3> QED BY <1>12, <1>18, <2>2, <3>1
  <2> QED BY <2>1, <2>2
<1>21. EmittedSoFar'
  <2> HIDE DEF entry, name
  <2> QED BY <1>9, <1>12, <1>15, <1>17, <1>20 DEF EmittedSoFar
<1> QED BY <1>3, <1>13, <1>14, <1>16, <1>21 DEF UnitInv

LEMMA BindHolds == ASSUME UnitInv, Bind PROVE UnitInv'
<1>1. /\ pc = "bind" /\ pc' \in {"refused", "done"}
      /\ UNCHANGED <<unit, scope, initialized, errors, k, canonical>>
      /\ pc' = "refused" => artifact' = artifact
      /\ pc' = "done" => artifact' = [artifact EXCEPT !.local = LocalSymbols \cap Defined]
  BY DEF Bind, analysis
<1>2. TypeOK /\ Stages /\ Canonicalized /\ EmittedSoFar
  BY DEF UnitInv
<1>3. Analyzed' /\ Symbols' = Symbols /\ \A n : Of(n)' = Of(n)
  BY <1>1, AnalysisKept DEF analysis
<1>4. artifact \in [defined : Seq([name : [id : Names, static : BOOLEAN], symbol : Symbols]),
                    local : SUBSET Defined]
  BY <1>2 DEF TypeOK
<1>5. /\ artifact'.defined = artifact.defined
      /\ artifact' = [defined |-> artifact.defined, local |-> artifact'.local]
      /\ artifact'.local = IF pc' = "done" THEN LocalSymbols \cap Defined ELSE artifact.local
  BY <1>1, <1>4
<1>6. Defined' = Defined /\ LocalSymbols' = LocalSymbols
  BY <1>1, <1>3, <1>5 DEF Defined, LocalSymbols, SymbolName, HasName
<1>7. TypeOK'
  <2>1. artifact.local \subseteq Defined /\ artifact'.local \subseteq Defined
    BY <1>4, <1>5
  <2> QED BY <1>1, <1>2, <1>3, <1>4, <1>5, <1>6, <2>1 DEF TypeOK
<1>8. Stages'
  <2>1. Referenced' = Referenced
    BY <1>1, <1>5 DEF Referenced, Emitted, SymbolName
  <2>2. IF Unresolved THEN pc' = "refused" ELSE pc' = "done"
    BY DEF Bind, Unresolved
  <2>3. pc' = "refused" => Unresolved'
    BY <1>6, <2>1, <2>2 DEF Unresolved
  <2>4. pc' = "done" => Resolved'
    BY <1>6, <2>1, <2>2 DEF Unresolved, Resolved
  <2> QED BY <1>1, <1>2, <1>5, <1>6, <2>3, <2>4 DEF Stages, Accepted
<1>9. Seen' = Seen /\ Passed' = Passed
  BY <1>1 DEF Seen, Passed
<1>10. Canonicalized'
  <2>1. \A n : Candidates(n)' = Candidates(n)
    BY <1>1, <1>3, <1>9 DEF Candidates
  <2> QED BY <1>1, <1>2, <2>1 DEF Canonicalized, Base, Stands
<1>11. EmittedSoFar'
  <2>1. /\ \A s : Emits(s)' <=> Emits(s)
        /\ \A s : SymbolName(s)' = SymbolName(s)
    BY <1>1 DEF Emits, IsDefinition, SymbolName
  <2> QED BY <1>2, <1>5, <1>9, <2>1 DEF EmittedSoFar
<1> QED BY <1>3, <1>7, <1>8, <1>10, <1>11 DEF UnitInv

LEMMA InitHolds == Init => UnitInv
<1> SUFFICES ASSUME Init PROVE UnitInv
  OBVIOUS
<1>1. /\ unit = << >> /\ initialized = {} /\ errors = {}
      /\ scope = [n \in Names |-> NoSymbol] /\ canonical = [n \in Names |-> NoSymbol]
      /\ pc = "analyze" /\ k = 1 /\ artifact = [defined |-> << >>, local |-> {}]
  BY DEF Init
<1>2. Symbols = {} /\ Len(unit) = 0
  BY <1>1, EmptySeq DEF Symbols
<1>3. TypeOK
  <2>1. << >> \in Seq(Variable)
    BY EmptySeq
  <2>2. << >> \in Seq([name : [id : Names, static : BOOLEAN], symbol : Symbols])
    BY EmptySeq
  <2> QED BY <1>1, <1>2, <2>1, <2>2, MaxAssumption DEF TypeOK, NoSymbol
<1>4. Analyzed
  BY <1>1, <1>2 DEF Analyzed, ScopeIsNewest, ErrorsExact, Of, NoSymbol
<1>5. Stages
  BY <1>1 DEF Stages, Accepted
<1>6. Canonicalized /\ EmittedSoFar
  BY <1>1, <1>3, NothingSeenYet DEF Untouched
<1> QED BY <1>3, <1>4, <1>5, <1>6 DEF UnitInv

(* The inductive invariant of the whole front end of the object: the scope  *)
(* and the diagnoses are exact, each name is stood for by the declaration    *)
(* canonicalization means, and the emitted entries are those so far.        *)
THEOREM UnitInvariance == Spec => []UnitInv
<1>1. UnitInv /\ [Next]_vars => UnitInv'
  <2> SUFFICES ASSUME UnitInv, [Next]_vars PROVE UnitInv'
    OBVIOUS
  <2>1. CASE DeclareObject \/ DeclareFunction \/ DeclareTypedef \/ DefineFunction
    BY <2>1, DeclarationHolds
  <2>2. CASE EndUnit
    BY <2>2, EndUnitHolds
  <2>3. CASE Canonicalize
    BY <2>3, CanonicalizeHolds
  <2>4. CASE Emit
    BY <2>4, EmitHolds
  <2>5. CASE Bind
    BY <2>5, BindHolds
  <2>6. CASE UNCHANGED vars
    <3>1. UNCHANGED <<unit, scope, initialized, errors, pc, k, canonical, artifact>>
      BY <2>6 DEF vars
    <3>2. Analyzed' /\ Symbols' = Symbols /\ \A n : Of(n)' = Of(n)
      BY <3>1, AnalysisKept DEF analysis
    <3>3. TypeOK' /\ Stages'
      <4>1. Defined' = Defined /\ LocalSymbols' = LocalSymbols /\ Symbols' = Symbols
        BY <3>1 DEF Defined, LocalSymbols, SymbolName, HasName, Symbols
      <4>2. Referenced' = Referenced
        BY <3>1 DEF Referenced, Emitted, SymbolName
      <4>3. Stages'
        BY <3>1, <4>1, <4>2 DEF UnitInv, Stages, Accepted, Resolved, Unresolved
      <4> QED BY <3>1, <4>1, <4>3 DEF UnitInv, TypeOK
    <3>4. Seen' = Seen /\ Passed' = Passed
      BY <3>1 DEF Seen, Passed
    <3>5. Canonicalized' /\ EmittedSoFar'
      <4>1. \A n : Candidates(n)' = Candidates(n)
        BY <3>1, <3>2, <3>4 DEF Candidates
      <4>2. Canonicalized'
        BY <3>1, <4>1 DEF UnitInv, Canonicalized, Base, Stands
      <4>3. EmittedSoFar'
        BY <3>1, <3>4 DEF UnitInv, EmittedSoFar, Emits, IsDefinition, SymbolName
      <4> QED BY <4>2, <4>3
    <3> QED BY <3>2, <3>3, <3>5 DEF UnitInv
  <2> QED BY <2>1, <2>2, <2>3, <2>4, <2>5, <2>6 DEF Next
<1> QED BY <1>1, InitHolds, PTL DEF Spec

(* Every variable of the front end has its type.                            *)
THEOREM TypeCorrectness == Spec => []TypeOK
<1>1. UnitInv => TypeOK
  BY DEF UnitInv
<1> QED BY <1>1, UnitInvariance, PTL

----------------------------------------------------------------------------
(* The declarations of one name                                             *)

LEMMA LeastNatural == ASSUME NEW T \in SUBSET Nat, T # {} PROVE \E n \in T : \A m \in T : n <= m
<1> DEFINE R == OpToRel(<, Nat)
<1>1. IsWellFoundedOn(R, Nat)
  BY NatLessThanWellFounded
<1>2. PICK n \in T : \A m \in T : ~ (<<m, n>> \in R)
  <2> HIDE DEF R
  <2> QED BY <1>1, WFMin
<1>3. ASSUME NEW m \in T PROVE n <= m
  <2>1. m \in Nat /\ n \in Nat
    OBVIOUS
  <2>2. ~ (<<m, n>> \in R)
    BY <1>2
  <2>3. ~ (m < n)
    BY <2>1, <2>2 DEF OpToRel
  <2> QED BY <2>1, <2>3
<1> QED BY <1>3

(* Among some declarations there is an oldest one and a newest one.         *)
LEMMA Oldest == ASSUME TypeOK, NEW S \in SUBSET Symbols, S # {}
                PROVE  \E m \in S : \A t \in S : m <= t
<1>1. S \in SUBSET Nat
  BY Units
<1> QED BY <1>1, LeastNatural

LEMMA Newest == ASSUME TypeOK, NEW S \in SUBSET Symbols, S # {}
                PROVE  Latest(S) \in S /\ \A t \in S : t <= Latest(S)
<1> DEFINE U == {m \in Nat : \A t \in S : t <= m}
<1>1. \A s \in S : s \in Nat /\ s > 0 /\ s <= Len(unit)
  BY Units
<1>2. Len(unit) \in U
  BY <1>1, Units
<1>3. PICK m \in U : \A x \in U : m <= x
  <2> HIDE DEF U
  <2>1. U \in SUBSET Nat
    BY DEF U
  <2> QED BY <1>2, <2>1, LeastNatural
<1>4. m \in S
  <2> SUFFICES ASSUME m \notin S PROVE FALSE
    OBVIOUS
  <2>1. \A t \in S : t < m
    BY <1>1, <1>3
  <2>2. m > 0
    BY <1>1, <2>1
  <2>3. m - 1 \in U
    BY <1>1, <2>1, <2>2
  <2>4. m <= m - 1
    BY <1>3, <2>3
  <2> QED BY <2>4, <2>2
<1>5. \A t \in S : t <= m
  BY <1>3
<1> HIDE DEF U
<1> QED BY <1>4, <1>5 DEF Latest

LEMMA LatestPrecedes ==
    ASSUME TypeOK, NEW s \in Symbols, Before(s) # {}
    PROVE  /\ Latest(Before(s)) \in Before(s) /\ Latest(Before(s)) \in Symbols
           /\ Latest(Before(s)) < s /\ unit[Latest(Before(s))].id = unit[s].id
           /\ Precedes(Latest(Before(s)), s)
<1>1. Before(s) \in SUBSET Symbols /\ \A t \in Before(s) : t < s /\ unit[t].id = unit[s].id
  BY DEF Before, Of
<1>2. Latest(Before(s)) \in Before(s) /\ \A t \in Before(s) : t <= Latest(Before(s))
  BY <1>1, Newest
<1> QED BY <1>1, <1>2 DEF Precedes

(* What the written specifier and the storage class say of each other.      *)
LEMMA Shapes ==
    ASSUME UnitInv, NEW s \in Symbols
    PROVE  /\ unit[s].storage_class \in {"Auto", "Extern", "Static", "Typedef"}
           /\ unit[s].kind \in {"object", "function"} /\ unit[s].id \in Names
           /\ unit[s].spec \in {"none", "extern", "static", "typedef"}
           /\ unit[s].storage_class = "Static" <=> unit[s].spec = "static"
           /\ unit[s].storage_class = "Typedef" <=> unit[s].spec = "typedef"
           /\ unit[s].init => unit[s].storage_class # "Typedef"
           /\ unit[s].init /\ unit[s].storage_class = "Extern" => unit[s].kind = "function"
           /\ unit[s].init /\ unit[s].kind = "function" => unit[s].storage_class \in {"Static", "Extern"}
           /\ s \in initialized <=> unit[s].kind = "object" /\ unit[s].init
<1>1. unit[s] \in Variable
  BY Units DEF UnitInv
<1>2. WellShaped(s) /\ initialized = {t \in Symbols : unit[t].kind = "object" /\ unit[t].init}
  BY DEF UnitInv, Analyzed
<1> QED BY <1>1, <1>2 DEF WellShaped, StorageOf, Variable

(* What a unit without a diagnosis says of a declaration and the one before. *)
LEMMA NoDiagnosis ==
    ASSUME UnitInv, errors = {}, NEW s \in Symbols, Before(s) # {}
    PROVE  LET p == Latest(Before(s)) IN
           Redeclares(unit[p], unit[s]) /\ ~ (unit[s].init /\ p \in initialized)
<1>1. Latest(Before(s)) \in Symbols /\ Precedes(Latest(Before(s)), s)
  BY LatestPrecedes DEF UnitInv
<1> QED BY <1>1 DEF UnitInv, Analyzed, ErrorsExact

(* A static declaration is the first of its name or follows a static one.   *)
LEMMA StaticFromTheStart ==
    ASSUME UnitInv, errors = {}, NEW n \in Names, NEW s \in Of(n), NEW c \in Of(n), s < c,
           unit[c].storage_class = "Static"
    PROVE  unit[s].storage_class = "Static"
<1> SUFFICES ASSUME unit[s].storage_class # "Static" PROVE FALSE
  OBVIOUS
<1> DEFINE T == {t \in Of(n) : s < t /\ unit[t].storage_class = "Static"}
<1>1. TypeOK /\ \A t \in Of(n) : t \in Symbols /\ t \in Nat /\ unit[t].id = n
  BY Units DEF UnitInv, Of
<1>2. PICK t \in T : \A x \in T : t <= x
  <2>1. T \in SUBSET Symbols /\ c \in T
    BY <1>1
  <2> HIDE DEF T
  <2> QED BY <1>1, <2>1, Oldest
<1>3. s \in Before(t) /\ t \in Symbols
  BY <1>1 DEF Before
<1>4. PICK p : p = Latest(Before(t))
  OBVIOUS
<1>5. p \in Of(n) /\ p < t /\ s <= p
  <2>1. p \in Before(t) /\ Precedes(p, t)
    BY <1>1, <1>3, <1>4, LatestPrecedes
  <2> QED BY <1>1, <1>3, <2>1 DEF Before, Precedes
<1>6. unit[p].storage_class # "Static"
  <2>1. p # s => p \notin T
    BY <1>1, <1>2, <1>5
  <2> QED BY <1>1, <1>5, <2>1
<1>7. Redeclares(unit[p], unit[t])
  BY <1>3, <1>4, NoDiagnosis
<1> QED BY <1>6, <1>7 DEF Redeclares, SameVariable

----------------------------------------------------------------------------
(* Properties                                                               *)

LEMMA ConflictsHidden == UnitInv => ConflictsHiddenOnlyByPredecessor
<1> SUFFICES ASSUME UnitInv, Accepted, NEW n \in Names,
                    \A t \in Of(n) : Before(t) # {} =>
                       LET e == Latest(Before(t)) IN
                       /\ unit[e].storage_class # "Extern" /\ unit[t].storage_class # "Extern"
                       /\ unit[t].init => e \in initialized
             PROVE  Valid(Of(n))
  BY DEF ConflictsHiddenOnlyByPredecessor
<1>1. TypeOK /\ errors = {} /\ \A t \in Of(n) : t \in Symbols /\ t \in Nat /\ unit[t].id = n
  BY Units DEF UnitInv, Of, Stages
<1>2. ASSUME NEW t \in Of(n), Before(t) # {}
      PROVE  /\ Latest(Before(t)) \in Of(n) /\ Latest(Before(t)) < t
             /\ SameVariable(unit[Latest(Before(t))], unit[t])
             /\ ~ unit[t].init
  <2>1. PICK e : e = Latest(Before(t))
    OBVIOUS
  <2>2. e \in Before(t) /\ e < t
    BY <1>1, <1>2, <2>1, LatestPrecedes
  <2>3. e \in Of(n)
    BY <1>1, <2>2 DEF Before
  <2>4. /\ unit[e].storage_class # "Extern" /\ unit[t].storage_class # "Extern"
        /\ unit[t].init => e \in initialized
    BY <1>2, <2>1
  <2>5. Redeclares(unit[e], unit[t]) /\ ~ (unit[t].init /\ e \in initialized)
    BY <1>1, <1>2, <2>1, NoDiagnosis
  <2> QED BY <2>1, <2>2, <2>3, <2>4, <2>5 DEF Redeclares
<1>3. CASE Of(n) = {}
  BY <1>3 DEF Valid
<1>4. CASE Of(n) # {}
  <2>1. PICK f \in Of(n) : \A t \in Of(n) : f <= t
    BY <1>1, <1>4, Oldest
  <2> DEFINE T == {t \in Of(n) : ~ SameVariable(unit[f], unit[t])}
  <2>2. \A t \in Of(n) : t # f => Before(t) # {}
    BY <1>1, <2>1 DEF Before
  <2>3. T = {}
    <3> SUFFICES ASSUME T # {} PROVE FALSE
      OBVIOUS
    <3>1. PICK t \in T : \A x \in T : t <= x
      <4>1. T \in SUBSET Symbols
        BY <1>1
      <4> HIDE DEF T
      <4> QED BY <1>1, <4>1, Oldest
    <3>2. t # f
      BY DEF SameVariable
    <3>3. PICK e : e = Latest(Before(t))
      OBVIOUS
    <3>4. e \in Of(n) /\ e < t /\ SameVariable(unit[e], unit[t])
      BY <1>2, <2>2, <3>2, <3>3
    <3>5. e \notin T
      BY <1>1, <3>1, <3>4
    <3>6. SameVariable(unit[f], unit[e])
      BY <3>4, <3>5
    <3> QED BY <3>4, <3>6 DEF SameVariable
  <2>4. \A t \in Of(n) : /\ unit[t].kind = unit[f].kind /\ unit[t].type = unit[f].type
                         /\ unit[t].storage_class = unit[f].storage_class
    BY <2>3 DEF SameVariable
  <2>5. \A t \in Of(n) : /\ unit[t].storage_class = "Static" <=> unit[t].spec = "static"
                         /\ unit[t].storage_class = "Typedef" <=> unit[t].spec = "typedef"
    BY <1>1, Shapes
  <2>6. \A s, t \in Of(n) : SameEntity(s, t)
    BY <2>4, <2>5 DEF SameEntity
  <2>7. \A s \in Of(n) : KeepsLinkage(s)
    <3>1. Before(f) = {}
      BY <1>1, <2>1 DEF Before
    <3>2. unit[f].spec = "static" => Internal(n)
      BY <3>1 DEF Internal
    <3>3. Internal(n) => unit[f].spec = "static"
      BY <2>4, <2>5 DEF Internal
    <3>4. \A s \in Of(n) : unit[s].spec = "static" <=> unit[f].spec = "static"
      BY <2>4, <2>5
    <3> QED BY <1>1, <3>2, <3>3, <3>4 DEF KeepsLinkage
  <2>8. \A s \in Of(n) : unit[s].init => s = f
    BY <1>2, <2>2
  <2> QED BY <2>6, <2>7, <2>8 DEF Valid
<1> QED BY <1>3, <1>4

(* declare() compares a declaration with its predecessor only: a unit that  *)
(* passes is valid C unless the predecessor hid the conflict.               *)
THEOREM ConflictsHiddenOnlyByPredecessorHolds == Spec => []ConflictsHiddenOnlyByPredecessor
BY ConflictsHidden, UnitInvariance, PTL

(* How a diagnosed declaration s differs from its predecessor p.            *)
Differ(p, s) ==
    \/ {p.storage_class, s.storage_class} \in {{"Static", "Auto"}, {"Static", "Extern"}}
    \/ /\ p.storage_class = s.storage_class /\ s.storage_class # "Extern"
       /\ p.qualifiers # s.qualifiers

LEMMA ValidDiagnosed == UnitInv => ValidDiagnosedOnlyForSpecifiers
<1> SUFFICES ASSUME UnitInv, NEW e \in errors, Valid(UpTo(unit[e.symbol].id, e.symbol))
             PROVE  /\ e.kind = "IncompatibleRedeclaration"
                    /\ Differ(unit[Latest(Before(e.symbol))], unit[e.symbol])
  BY DEF ValidDiagnosedOnlyForSpecifiers, Differ
<1>1. PICK s : s = e.symbol
  OBVIOUS
<1>2. TypeOK /\ e \in [symbol : Symbols, kind : {"IncompatibleRedeclaration", "Redefinition"}]
  BY DEF UnitInv, TypeOK
<1>3. s \in Symbols /\ e = [symbol |-> s, kind |-> e.kind]
      /\ e.kind \in {"IncompatibleRedeclaration", "Redefinition"}
  BY <1>1, <1>2
<1>4. ErrorsExact
  BY DEF UnitInv, Analyzed
<1>5. Before(s) # {}
  BY <1>1, <1>4 DEF ErrorsExact, Precedes
<1>6. PICK p : p = Latest(Before(s))
  OBVIOUS
<1>7. p \in Symbols /\ p < s /\ unit[p].id = unit[s].id /\ Precedes(p, s) /\ p \in Before(s)
  BY <1>2, <1>3, <1>5, <1>6, LatestPrecedes
<1>8. p \in UpTo(unit[s].id, s) /\ s \in UpTo(unit[s].id, s)
  <2>1. s \in Nat /\ p \in Nat
    BY <1>2, <1>3, <1>7, Units
  <2> QED BY <1>3, <1>7, <2>1 DEF UpTo, Of
<1>9. SameEntity(p, s) /\ ~ (unit[p].init /\ unit[s].init)
  <2>1. s \in Nat /\ p \in Nat
    BY <1>2, <1>3, <1>7, Units
  <2> QED BY <1>1, <1>7, <1>8, <2>1 DEF Valid
<1>10. e.kind # "Redefinition"
  <2>1. p \in initialized => unit[p].init
    BY <1>7, Shapes
  <2> QED BY <1>3, <1>4, <1>7, <1>9, <2>1 DEF ErrorsExact
<1>11. ~ Redeclares(unit[p], unit[s])
  BY <1>3, <1>4, <1>7, <1>10 DEF ErrorsExact
<1>12. /\ unit[s].storage_class = "Typedef" <=> unit[p].storage_class = "Typedef"
       /\ unit[s].storage_class \in {"Auto", "Extern", "Static", "Typedef"}
       /\ unit[p].storage_class \in {"Auto", "Extern", "Static", "Typedef"}
       /\ unit[p].kind = unit[s].kind /\ unit[p].type = unit[s].type
  <2>1. /\ unit[s].storage_class = "Typedef" <=> unit[s].spec = "typedef"
        /\ unit[s].storage_class \in {"Auto", "Extern", "Static", "Typedef"}
    BY <1>3, Shapes
  <2>2. /\ unit[p].storage_class = "Typedef" <=> unit[p].spec = "typedef"
        /\ unit[p].storage_class \in {"Auto", "Extern", "Static", "Typedef"}
    BY <1>7, Shapes
  <2> QED BY <1>9, <2>1, <2>2 DEF SameEntity
<1>13. Differ(unit[p], unit[s])
  BY <1>7, <1>11, <1>12 DEF Redeclares, SameVariable, Differ
<1> QED BY <1>1, <1>3, <1>6, <1>10, <1>13

(* A declaration that is valid after the valid ones before it is diagnosed  *)
(* only when it repeats a static name without extern, or the reverse, or    *)
(* when it repeats a function that is not extern with another inline or     *)
(* _Noreturn.                                                               *)
THEOREM ValidDiagnosedOnlyForSpecifiersHolds == Spec => []ValidDiagnosedOnlyForSpecifiers
BY ValidDiagnosed, UnitInvariance, PTL

(* The symbols of the object are those that are emitted, by their names.    *)
LEMMA EmittedExactly ==
    ASSUME UnitInv, Compiled
    PROVE  /\ Emitted = {s \in Symbols : Emits(s)}
           /\ Defined = {SymbolName(s) : s \in Emitted}
           /\ \A n : Candidates(n) = {s \in Of(n) : unit[s].storage_class # "Typedef"}
<1>1. /\ TypeOK /\ EmittedSoFar /\ Passed = Len(unit) /\ Seen = Len(unit)
      /\ \A i \in DOMAIN artifact.defined : artifact.defined[i].symbol \in Symbols
      /\ \A s \in Symbols : s <= Len(unit)
  BY Units DEF UnitInv, Compiled, Passed, Seen
<1>2. Emitted = {s \in Symbols : Emits(s)}
  <2>1. \A s \in Emitted : s \in Symbols /\ Emits(s)
    BY <1>1 DEF Emitted, EmittedSoFar
  <2>2. \A s \in Symbols : Emits(s) => s \in Emitted
    BY <1>1 DEF Emitted, EmittedSoFar, Symbols
  <2> QED BY <2>1, <2>2
<1>3. Defined = {SymbolName(s) : s \in Emitted}
  <2>1. \A i \in DOMAIN artifact.defined :
           artifact.defined[i].name = SymbolName(artifact.defined[i].symbol)
    BY <1>1 DEF EmittedSoFar
  <2>2. \A d : d \in Defined <=> \E i \in DOMAIN artifact.defined : d = artifact.defined[i].name
    BY DEF Defined
  <2>3. \A s : s \in Emitted <=> \E i \in DOMAIN artifact.defined : s = artifact.defined[i].symbol
    BY DEF Emitted
  <2> HIDE DEF SymbolName, Emitted, Defined
  <2>4. \A d : d \in Defined <=> \E s \in Emitted : d = SymbolName(s)
    BY <2>1, <2>2, <2>3
  <2> QED BY <2>4
<1>4. \A n : Candidates(n) = {s \in Of(n) : unit[s].storage_class # "Typedef"}
  BY <1>1 DEF Candidates, Of
<1> QED BY <1>2, <1>3, <1>4

(* The declaration that stands for a name that is no typedef is one of its  *)
(* declarations.                                                            *)
LEMMA StandsForOwn ==
    ASSUME UnitInv, Compiled, NEW n \in Names, NEW s \in Of(n), unit[s].storage_class # "Typedef"
    PROVE  /\ canonical[n] \in Of(n) /\ canonical[n] \in Symbols /\ canonical[n] # NoSymbol
           /\ unit[canonical[n]].id = n /\ unit[canonical[n]].storage_class # "Typedef"
           /\ \E b \in Candidates(n) : Base(b, n) /\ Stands(canonical[n], b, n)
<1>1. s \in Candidates(n)
  BY EmittedExactly
<1>2. PICK b \in Candidates(n) : Base(b, n) /\ Stands(canonical[n], b, n)
  BY <1>1 DEF UnitInv, Canonicalized
<1>3. canonical[n] \in Candidates(n)
  BY <1>2 DEF Stands
<1>4. \A t \in Symbols : t # NoSymbol
  BY Units DEF UnitInv, NoSymbol
<1> QED BY <1>2, <1>3, <1>4 DEF Candidates, Of

(* The only initialized declaration of a valid name is emitted unless a     *)
(* later one displaces it: the one that stands for it instead does.         *)
LEMMA BodySurvives ==
    ASSUME UnitInv, Compiled, NEW n \in Names, Valid(Of(n)), NEW s \in Of(n), unit[s].init
    PROVE  s \in Emitted <=> ~ \E t \in Of(n) : Displaces(t, s) /\ unit[t].kind = "function"
<1>1. /\ \A t \in Of(n) : t \in Symbols /\ t \in Nat /\ unit[t].id = n
      /\ errors = {} /\ unit[s].storage_class # "Typedef"
      /\ unit[s].storage_class = "Extern" => unit[s].kind = "function"
  BY Units, Shapes DEF UnitInv, Of, Stages, Compiled, Accepted
<1>2. PICK c : c = canonical[n]
  OBVIOUS
<1>3. c \in Of(n) /\ unit[c].storage_class # "Typedef" /\ c \in Nat /\ s \in Nat
  BY <1>1, <1>2, StandsForOwn
<1>4. PICK b \in Candidates(n) : Base(b, n) /\ Stands(c, b, n)
  BY <1>1, <1>2, StandsForOwn
<1>5. Candidates(n) = {t \in Of(n) : unit[t].storage_class # "Typedef"}
  BY EmittedExactly
<1>6. b = s
  <2>1. s \in Candidates(n) /\ b \in Of(n) /\ b \in Nat
    BY <1>1, <1>5
  <2>2. ~ (b < s)
    BY <1>4, <2>1 DEF Base
  <2>3. unit[b].init \/ b <= s
    BY <1>4, <2>1 DEF Base
  <2>4. unit[b].init => b = s
    BY <2>1 DEF Valid
  <2> QED BY <1>3, <2>1, <2>2, <2>3, <2>4
<1>7. s \in Emitted <=> c = s
  <2>1. s \in Symbols /\ unit[s].id = n /\ unit[s].kind \in {"object", "function"}
    BY <1>1, Shapes
  <2>2. IsDefinition(unit[s])
    BY <2>1 DEF IsDefinition
  <2> QED BY <1>1, <1>2, <2>1, <2>2, EmittedExactly DEF Emits
<1>8. CASE c = s
  <2>1. ASSUME NEW t \in Of(n), Displaces(t, s) PROVE FALSE
    <3>1. t \in Candidates(n) /\ s < t /\ unit[s].storage_class = "Extern" /\ unit[t].storage_class = "Auto"
      BY <1>5, <2>1 DEF Displaces
    <3> QED BY <1>3, <1>4, <1>6, <1>8, <3>1 DEF Stands
  <2> QED BY <1>7, <1>8, <2>1
<1>9. CASE c # s
  <2>1. s < c /\ unit[s].storage_class = "Extern" /\ unit[c].storage_class # "Extern"
    BY <1>4, <1>6, <1>9 DEF Stands
  <2>2. unit[c].storage_class # "Static"
    BY <1>1, <1>3, <2>1, StaticFromTheStart
  <2>3. unit[c].storage_class = "Auto"
    BY <1>1, <1>3, <2>1, <2>2, Shapes
  <2>4. unit[c].kind = "function"
    BY <1>1, <1>3, <2>1 DEF Valid, SameEntity
  <2>5. Displaces(c, s)
    BY <1>1, <1>3, <2>1, <2>3 DEF Displaces
  <2> QED BY <1>3, <1>7, <1>9, <2>4, <2>5
<1> QED BY <1>8, <1>9

(* An object of a valid name is emitted when a declaration is not extern.   *)
LEMMA ObjectSurvives ==
    ASSUME UnitInv, Compiled, NEW n \in Names, Valid(Of(n))
    PROVE  (\E s \in Of(n) \cap Emitted : unit[s].kind = "object") <=>
             \E s \in Of(n) : unit[s].kind = "object" /\ unit[s].storage_class \in {"Auto", "Static"}
<1>1. \A t \in Of(n) : t \in Symbols /\ t \in Nat /\ unit[t].id = n
  BY Units DEF UnitInv, Of
<1>2. Emitted = {s \in Symbols : Emits(s)}
  BY EmittedExactly
<1>3. \A t \in Of(n) : /\ unit[t].storage_class \in {"Auto", "Extern", "Static", "Typedef"}
                       /\ unit[t].kind = "object" /\ unit[t].storage_class = "Extern" => ~ unit[t].init
  BY <1>1, Shapes
<1>4. ASSUME NEW s \in Of(n) \cap Emitted, unit[s].kind = "object"
      PROVE  unit[s].storage_class \in {"Auto", "Static"}
  <2>1. Emits(s)
    BY <1>2
  <2> QED BY <1>3, <1>4, <2>1 DEF Emits, IsDefinition
<1>5. ASSUME NEW s \in Of(n), unit[s].kind = "object", unit[s].storage_class \in {"Auto", "Static"}
      PROVE  \E t \in Of(n) \cap Emitted : unit[t].kind = "object"
  <2>1. PICK c : c = canonical[n]
    OBVIOUS
  <2>2. c \in Of(n) /\ unit[c].storage_class # "Typedef"
    BY <1>5, <2>1, StandsForOwn
  <2>3. PICK b \in Candidates(n) : Base(b, n) /\ Stands(c, b, n)
    BY <1>5, <2>1, StandsForOwn
  <2>4. /\ Candidates(n) = {t \in Of(n) : unit[t].storage_class # "Typedef"}
        /\ s \in Candidates(n) /\ b \in Of(n)
    <3>1. Candidates(n) = {t \in Of(n) : unit[t].storage_class # "Typedef"}
      BY EmittedExactly
    <3> QED BY <1>5, <3>1
  <2>5. unit[c].kind = "object" /\ unit[b].kind = "object"
    BY <1>5, <2>2, <2>4 DEF Valid, SameEntity
  <2>6. unit[c].storage_class # "Extern"
    <3> SUFFICES ASSUME unit[c].storage_class = "Extern" PROVE FALSE
      OBVIOUS
    <3>1. c = b /\ \A t \in Candidates(n) : b < t => unit[t].storage_class = "Extern"
      BY <2>3 DEF Stands
    <3>2. ~ unit[b].init
      BY <1>3, <2>2, <2>5, <3>1
    <3>3. b <= s
      BY <2>3, <2>4, <3>2 DEF Base
    <3>4. b = s \/ b < s
      BY <1>1, <2>4, <3>3
    <3> QED BY <1>5, <2>4, <3>1, <3>4
  <2>7. Emits(c)
    BY <1>1, <2>1, <2>2, <2>5, <2>6 DEF Emits, IsDefinition
  <2> QED BY <1>1, <1>2, <2>2, <2>5, <2>7
<1> QED BY <1>4, <1>5

(* The object of a valid name is defined exactly when some declaration      *)
(* defines it, from its initializer when it has one; a body is kept unless  *)
(* a later declaration displaces it.                                        *)
THEOREM DefinitionsSurviveHolds == Spec => []DefinitionsSurvive
<1>1. UnitInv => DefinitionsSurvive
  <2> SUFFICES ASSUME UnitInv, Compiled, NEW n \in Names, Valid(Of(n))
               PROVE  /\ \A s \in Of(n) : unit[s].init =>
                            (s \in Emitted) # (\E t \in Of(n) : Displaces(t, s) /\ unit[t].kind = "function")
                      /\ (\E s \in Of(n) \cap Emitted : unit[s].kind = "object") <=>
                            \E s \in Of(n) : unit[s].kind = "object"
                                             /\ unit[s].storage_class \in {"Auto", "Static"}
    BY DEF DefinitionsSurvive
  <2>1. ASSUME NEW s \in Of(n), unit[s].init
        PROVE  (s \in Emitted) # (\E t \in Of(n) : Displaces(t, s) /\ unit[t].kind = "function")
    <3>1. s \in Emitted <=> ~ \E t \in Of(n) : Displaces(t, s) /\ unit[t].kind = "function"
      BY <2>1, BodySurvives
    <3> QED BY <3>1
  <2> QED BY <2>1, ObjectSurvives
<1> QED BY <1>1, UnitInvariance, PTL

(* The name of a symbol depends on the name that is declared only.          *)
LEMMA OneNameEach ==
    \A s, t : unit[s].id = unit[t].id => SymbolName(s) = SymbolName(t)
BY DEF SymbolName

LEMMA StaticIsInternal ==
    ASSUME UnitInv, NEW n \in Names, Valid(Of(n))
    PROVE  Internal(n) <=> \E s \in Of(n) : unit[s].storage_class = "Static"
<1>1. \A t \in Of(n) : t \in Symbols /\ unit[t].id = n
  BY DEF Of
<1>2. \A t \in Of(n) : unit[t].storage_class = "Static" <=> unit[t].spec = "static"
  BY <1>1, Shapes
<1>3. ASSUME Internal(n) PROVE \E s \in Of(n) : unit[s].storage_class = "Static"
  BY <1>2, <1>3 DEF Internal
<1>4. ASSUME NEW s \in Of(n), unit[s].storage_class = "Static" PROVE Internal(n)
  <2>1. KeepsLinkage(s) /\ unit[s].spec = "static" /\ unit[s].id = n
    BY <1>1, <1>2, <1>4 DEF Valid
  <2> QED BY <2>1 DEF KeepsLinkage
<1> QED BY <1>3, <1>4

(* LocalSymbols holds the name of a symbol of n exactly when n has a static *)
(* declaration.                                                             *)
LEMMA LocalNames ==
    ASSUME UnitInv, Compiled, NEW n \in Names, NEW s \in Of(n)
    PROVE  SymbolName(s) \in LocalSymbols <=> \E t \in Of(n) : unit[t].storage_class = "Static"
<1>1. /\ \A t \in Of(n) : t \in Symbols /\ unit[t].id = n
      /\ \A t \in Symbols : unit[t].id = n => t \in Of(n)
  BY DEF Of
<1>2. ASSUME SymbolName(s) \in LocalSymbols PROVE \E t \in Of(n) : unit[t].storage_class = "Static"
  <2>1. PICK t \in Symbols : unit[t].storage_class = "Static" /\ SymbolName(t) = SymbolName(s)
    BY <1>2 DEF LocalSymbols
  <2>2. unit[t].id = n
    BY <1>1, <2>1 DEF SymbolName
  <2> QED BY <1>1, <2>1, <2>2
<1>3. ASSUME NEW t \in Of(n), unit[t].storage_class = "Static" PROVE SymbolName(s) \in LocalSymbols
  <2>1. HasName(t)
    <3>1. canonical[n] # NoSymbol
      BY <1>3, StandsForOwn
    <3> QED BY <1>1, <3>1 DEF HasName
  <2>2. SymbolName(t) = SymbolName(s)
    BY <1>1, OneNameEach
  <2> QED BY <1>1, <1>3, <2>1, <2>2 DEF LocalSymbols
<1> QED BY <1>2, <1>3

LEMMA BindsLinkage == UnitInv => BindingIsLinkage
<1> SUFFICES ASSUME UnitInv, Compiled PROVE BindingIsLinkage
  BY DEF BindingIsLinkage
<1>1. ASSUME NEW i \in DOMAIN artifact.defined, NEW j \in DOMAIN artifact.defined,
             artifact.defined[i].name.id = artifact.defined[j].name.id
      PROVE  i = j
  <2>1. /\ DOMAIN artifact.defined = 1..Len(artifact.defined) /\ Len(artifact.defined) \in Nat
        /\ artifact.defined[i].symbol \in Symbols /\ artifact.defined[j].symbol \in Symbols
    BY Units DEF UnitInv
  <2>2. /\ Emits(artifact.defined[i].symbol) /\ Emits(artifact.defined[j].symbol)
        /\ artifact.defined[i].name = SymbolName(artifact.defined[i].symbol)
        /\ artifact.defined[j].name = SymbolName(artifact.defined[j].symbol)
    BY DEF UnitInv, EmittedSoFar
  <2>3. artifact.defined[i].symbol = artifact.defined[j].symbol
    BY <1>1, <2>2 DEF Emits, SymbolName
  <2>4. /\ i < j => artifact.defined[i].symbol < artifact.defined[j].symbol
        /\ j < i => artifact.defined[j].symbol < artifact.defined[i].symbol
    BY DEF UnitInv, EmittedSoFar
  <2>5. ~ (artifact.defined[i].symbol < artifact.defined[j].symbol)
        /\ ~ (artifact.defined[j].symbol < artifact.defined[i].symbol)
    <3>1. \A s \in Symbols : ~ (s < s)
      BY Units DEF UnitInv
    <3> QED BY <2>1, <2>3, <3>1
  <2>6. i \in Nat /\ j \in Nat
    BY <2>1
  <2> QED BY <2>4, <2>5, <2>6
<1>2. ASSUME pc = "done", NEW d \in Defined, Valid(Of(d.id))
      PROVE  d \in artifact.local <=> Internal(d.id)
  <2>1. PICK s \in Emitted : d = SymbolName(s)
    BY EmittedExactly
  <2>2. s \in Symbols /\ unit[s].id \in Names
    <3>1. s \in Symbols
      BY EmittedExactly
    <3> QED BY <3>1, Shapes
  <2>3. s \in Of(d.id) /\ d.id \in Names
    BY <2>1, <2>2 DEF SymbolName, Of
  <2>4. d \in artifact.local <=> d \in LocalSymbols
    BY <1>2 DEF UnitInv, Stages
  <2>5. d \in LocalSymbols <=> \E t \in Of(d.id) : unit[t].storage_class = "Static"
    BY <2>1, <2>3, LocalNames
  <2>6. Internal(d.id) <=> \E t \in Of(d.id) : unit[t].storage_class = "Static"
    BY <1>2, <2>3, StaticIsInternal
  <2> QED BY <2>4, <2>5, <2>6
<1> QED BY <1>1, <1>2 DEF BindingIsLinkage

(* One symbol per name, whose binding is the linkage C gives the name.      *)
THEOREM BindingIsLinkageHolds == Spec => []BindingIsLinkage
BY BindsLinkage, UnitInvariance, PTL

(* The symbols an emitted body refers to are declared and are no typedefs.  *)
LEMMA UsesDeclared ==
    ASSUME UnitInv, NEW s \in Symbols, NEW u \in unit[s].uses
    PROVE  u \in Symbols /\ unit[u].storage_class # "Typedef" /\ unit[u].id \in Names
           /\ u \in Of(unit[u].id)
<1>1. unit[s] \in Variable /\ s \in Nat /\ s <= Len(unit) /\ Len(unit) \in Nat
  BY Units DEF UnitInv
<1>2. WellShaped(s)
  BY DEF UnitInv, Analyzed
<1>3. u \in 1..MaxDeclarations
  BY <1>1 DEF Variable
<1>4. u \in Symbols
  BY <1>1, <1>2, <1>3, MaxAssumption DEF WellShaped, Symbols
<1> QED BY <1>2, <1>4, Shapes DEF WellShaped, Of

(* Whatever some declaration of a valid name defines is defined, unless a   *)
(* body was displaced.                                                      *)
LEMMA DefinedWhole ==
    ASSUME UnitInv, Compiled, NEW n \in Names, Valid(Of(n)), NEW d \in Of(n),
           IsDefinition(unit[d]), unit[d].storage_class # "Typedef",
           ~ \E s, t \in Symbols : unit[s].init /\ Displaces(t, s)
    PROVE  \E s \in Of(n) : s \in Emitted
<1>1. \A t \in Of(n) : t \in Symbols
  BY DEF Of
<1>2. CASE unit[d].init
  <2>1. ~ \E t \in Of(n) : Displaces(t, d) /\ unit[t].kind = "function"
    BY <1>1, <1>2
  <2>2. d \in Emitted <=> ~ \E t \in Of(n) : Displaces(t, d) /\ unit[t].kind = "function"
    BY <1>2, BodySurvives
  <2> QED BY <2>1, <2>2
<1>3. CASE ~ unit[d].init
  <2>1. unit[d].kind = "object" /\ unit[d].storage_class \in {"Auto", "Static"}
    BY <1>1, <1>3, Shapes DEF IsDefinition
  <2> QED BY <2>1, ObjectSurvives
<1> QED BY <1>2, <1>3

LEMMA ResolvesStatics == ASSUME UnitInv, UnitIsValid, pc = "done", Resolved, NEW r \in Referenced, Internal(r.id)
                         PROVE  r \in Defined
<1>0. Compiled
  BY DEF Compiled
<1>9. PICK s \in Emitted : \E u \in unit[s].uses : r = SymbolName(u)
  BY DEF Referenced
<1>1. PICK u \in unit[s].uses : r = SymbolName(u)
  BY <1>9
<1>2. s \in Symbols
  BY <1>0, EmittedExactly
<1>3. u \in Of(r.id) /\ r.id \in Names
  BY <1>1, <1>2, UsesDeclared DEF SymbolName
<1>4. \E t \in Of(r.id) : unit[t].storage_class = "Static"
  BY <1>3, StaticIsInternal DEF UnitIsValid
<1>5. r \in LocalSymbols
  BY <1>0, <1>1, <1>3, <1>4, LocalNames
<1> QED BY <1>5 DEF Resolved

LEMMA RefusedForCause ==
    ASSUME UnitInv, UnitIsValid, pc = "refused", Unresolved,
           ~ \E s, t \in Symbols : unit[s].init /\ Displaces(t, s),
           NEW w \in Symbols, IsDefinition(unit[w]), unit[w].spec # "typedef"
    PROVE  \E s \in Symbols : \E u \in unit[s].uses :
              Internal(unit[u].id) /\ \A d \in Of(unit[u].id) : ~ IsDefinition(unit[d])
<1>0. Compiled
  BY DEF Compiled
<1>1. \A n \in Names : Valid(Of(n))
  BY DEF UnitIsValid
<1>2. Defined # {}
  <2>1. unit[w].id \in Names /\ w \in Of(unit[w].id) /\ unit[w].storage_class # "Typedef"
    BY Shapes DEF Of
  <2>2. \E s \in Of(unit[w].id) : s \in Emitted
    BY <1>0, <1>1, <2>1, DefinedWhole
  <2> QED BY <1>0, <2>2, EmittedExactly
<1>3. PICK r \in Referenced : r \in LocalSymbols /\ r \notin Defined
  BY <1>2 DEF Unresolved
<1>10. PICK s \in Emitted : \E u \in unit[s].uses : r = SymbolName(u)
  BY DEF Referenced
<1>4. PICK u \in unit[s].uses : r = SymbolName(u)
  BY <1>10
<1>5. s \in Symbols
  BY <1>0, EmittedExactly
<1>6. PICK n : n = unit[u].id
  OBVIOUS
<1>7. n \in Names /\ u \in Of(n) /\ u \in Symbols /\ unit[u].storage_class # "Typedef"
  BY <1>5, <1>6, UsesDeclared
<1>8. Internal(n)
  BY <1>0, <1>1, <1>3, <1>4, <1>7, LocalNames, StaticIsInternal
<1>9. ASSUME NEW d \in Of(n), IsDefinition(unit[d]) PROVE FALSE
  <2>1. unit[d].storage_class # "Typedef"
    <3>1. SameEntity(d, u) /\ d \in Symbols
      BY <1>1, <1>7 DEF Valid, Of
    <3> QED BY <1>7, <3>1, Shapes DEF SameEntity
  <2>2. PICK t \in Of(n) : t \in Emitted
    BY <1>0, <1>1, <1>7, <1>9, <2>1, DefinedWhole
  <2>3. SymbolName(t) = r
    <3>1. unit[t].id = n
      BY DEF Of
    <3> QED BY <1>4, <1>6, <3>1, OneNameEach
  <2> QED BY <1>0, <1>3, <2>2, <2>3, EmittedExactly
<1> QED BY <1>5, <1>6, <1>8, <1>9

(* The object of a valid unit leaves no use of a static name to the linker, *)
(* and the unit is refused only if it defines nothing, uses a static that   *)
(* it does not define, or a body was displaced.                             *)
THEOREM StaticsResolvedHereHolds == Spec => []StaticsResolvedHere
<1>1. UnitInv => StaticsResolvedHere
  <2> SUFFICES ASSUME UnitInv, UnitIsValid PROVE StaticsResolvedHere
    BY DEF StaticsResolvedHere
  <2>1. ASSUME pc = "done" PROVE \A r \in Referenced : Internal(r.id) => r \in Defined
    BY <2>1, ResolvesStatics DEF UnitInv, Stages
  <2>2. ASSUME pc = "refused"
        PROVE  \/ \A s \in Symbols : ~ IsDefinition(unit[s]) \/ unit[s].spec = "typedef"
               \/ \E s, t \in Symbols : unit[s].init /\ Displaces(t, s)
               \/ \E s \in Symbols : \E u \in unit[s].uses :
                     Internal(unit[u].id) /\ \A d \in Of(unit[u].id) : ~ IsDefinition(unit[d])
    BY <2>2, RefusedForCause DEF UnitInv, Stages
  <2> QED BY <2>1, <2>2 DEF StaticsResolvedHere
<1> QED BY <1>1, UnitInvariance, PTL
=============================================================================
