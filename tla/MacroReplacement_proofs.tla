---------------------- MODULE MacroReplacement_proofs ----------------------
(* Proofs about MacroReplacement for every family of programs.              *)
EXTENDS MacroReplacement, SequenceTheorems, NaturalsInduction, WellFoundedInduction, TLAPS

Pending == Seq([token : Tokens, hide : SUBSET Names])

(* A lexical error w, or the refusal of a call it may be lost with, is among *)
(* these tokens, or is kept by this engine.                                 *)
Has(w, s) == \E i \in DOMAIN s : s[i] \in {w, Refused}
Queued(w, q) == \E i \in DOMAIN q : q[i].token \in {w, Refused}
Keeps(w, e) ==
    \/ Queued(w, e.pending) \/ Has(w, e.inner) \/ Has(w, e.replacements)
    \/ e.call # NoCall /\ Has(w, e.call.errors)

(* A call is one of a function macro, and has its arguments once they are   *)
(* read.                                                                    *)
Fits(c) ==
    LET m == definitions[c.name]
    IN  /\ m.kind = "function"
        /\ c.phase = "body" => Len(m.params) <= Len(c.args)

Sound(e) == e \in Engines /\ (e.call # NoCall => Fits(e.call))

(* The errors of the file stay in the outermost engine, or a refusal does.  *)
IInv ==
    /\ TypeOK
    /\ \A i \in DOMAIN stack : Sound(stack[i])
    /\ \A i \in 1..(Len(stack) - 1) : stack[i].call # NoCall /\ stack[i].call.phase = "body"
    /\ \A w \in Invalid : Has(w, text) => Keeps(w, stack[1])

----------------------------------------------------------------------------
(* Sequences.                                                               *)

LEMMA HasAppend ==
    ASSUME NEW w, NEW S, NEW s \in Seq(S), NEW x
    PROVE  Has(w, Append(s, x)) <=> Has(w, s) \/ x \in {w, Refused}
<1>1. /\ DOMAIN s = 1..Len(s) /\ Len(s) \in Nat /\ DOMAIN Append(s, x) = 1..(Len(s) + 1)
      /\ \A i \in 1..Len(s) : Append(s, x)[i] = s[i]
      /\ Append(s, x)[Len(s) + 1] = x
  OBVIOUS
<1>2. \A i \in 1..(Len(s) + 1) : i \in 1..Len(s) \/ i = Len(s) + 1
  BY <1>1
<1>3. 1..Len(s) \subseteq 1..(Len(s) + 1) /\ Len(s) + 1 \in 1..(Len(s) + 1)
  BY <1>1
<1> QED BY <1>1, <1>2, <1>3 DEF Has

LEMMA HasConcat ==
    ASSUME NEW w, NEW S, NEW s \in Seq(S), NEW t \in Seq(S)
    PROVE  Has(w, s \o t) <=> Has(w, s) \/ Has(w, t)
<1> DEFINE u == s \o t
<1>1. /\ DOMAIN s = 1..Len(s) /\ DOMAIN t = 1..Len(t) /\ Len(s) \in Nat /\ Len(t) \in Nat
      /\ Len(u) = Len(s) + Len(t) /\ DOMAIN u = 1..Len(u)
      /\ \A i \in 1..Len(u) : u[i] = IF i <= Len(s) THEN s[i] ELSE t[i - Len(s)]
  OBVIOUS
<1>2. ASSUME Has(w, s) PROVE Has(w, u)
  BY <1>1, <1>2 DEF Has
<1>3. ASSUME Has(w, t) PROVE Has(w, u)
  <2>1. PICK i \in 1..Len(t) : t[i] \in {w, Refused}
    BY <1>1, <1>3 DEF Has
  <2>2. Len(s) + i \in 1..Len(u) /\ u[Len(s) + i] = t[i]
    BY <1>1
  <2> QED BY <1>1, <2>1, <2>2 DEF Has
<1>4. ASSUME Has(w, u) PROVE Has(w, s) \/ Has(w, t)
  <2>1. PICK i \in 1..Len(u) : u[i] \in {w, Refused}
    BY <1>1, <1>4 DEF Has
  <2>2. CASE i <= Len(s)
    BY <1>1, <2>1, <2>2 DEF Has
  <2>3. CASE ~ (i <= Len(s))
    <3>1. i - Len(s) \in 1..Len(t)
      BY <1>1, <2>3
    <3> QED BY <1>1, <2>1, <2>3, <3>1 DEF Has
  <2> QED BY <2>2, <2>3
<1> QED BY <1>2, <1>3, <1>4

LEMMA HasRest ==
    ASSUME NEW w, NEW S, NEW s \in Seq(S), s # << >>, Has(w, s)
    PROVE  Head(s) \in {w, Refused} \/ Has(w, Tail(s))
<1>1. PICK i \in 1..Len(s) : s[i] \in {w, Refused}
  BY DEF Has
<1>2. CASE i = 1
  BY <1>1, <1>2
<1>3. CASE i # 1
  <2>1. Len(s) \in Nat /\ DOMAIN Tail(s) = 1..Len(s) - 1
    OBVIOUS
  <2>2. i - 1 \in DOMAIN Tail(s) /\ Tail(s)[i - 1] = s[i]
    BY <1>3, <2>1
  <2> QED BY <1>1, <2>2 DEF Has
<1> QED BY <1>2, <1>3

LEMMA QueuedConcat ==
    ASSUME NEW w, NEW S, NEW s \in Seq(S), NEW t \in Seq(S)
    PROVE  Queued(w, s \o t) <=> Queued(w, s) \/ Queued(w, t)
<1> DEFINE u == s \o t
<1>1. /\ DOMAIN s = 1..Len(s) /\ DOMAIN t = 1..Len(t) /\ Len(s) \in Nat /\ Len(t) \in Nat
      /\ Len(u) = Len(s) + Len(t) /\ DOMAIN u = 1..Len(u)
      /\ \A i \in 1..Len(u) : u[i] = IF i <= Len(s) THEN s[i] ELSE t[i - Len(s)]
  OBVIOUS
<1>2. ASSUME Queued(w, s) PROVE Queued(w, u)
  BY <1>1, <1>2 DEF Queued
<1>3. ASSUME Queued(w, t) PROVE Queued(w, u)
  <2>1. PICK i \in 1..Len(t) : t[i].token \in {w, Refused}
    BY <1>1, <1>3 DEF Queued
  <2>2. Len(s) + i \in 1..Len(u) /\ u[Len(s) + i] = t[i]
    BY <1>1
  <2> QED BY <1>1, <2>1, <2>2 DEF Queued
<1>4. ASSUME Queued(w, u) PROVE Queued(w, s) \/ Queued(w, t)
  <2>1. PICK i \in 1..Len(u) : u[i].token \in {w, Refused}
    BY <1>1, <1>4 DEF Queued
  <2>2. CASE i <= Len(s)
    BY <1>1, <2>1, <2>2 DEF Queued
  <2>3. CASE ~ (i <= Len(s))
    <3>1. i - Len(s) \in 1..Len(t)
      BY <1>1, <2>3
    <3> QED BY <1>1, <2>1, <2>3, <3>1 DEF Queued
  <2> QED BY <2>2, <2>3
<1> QED BY <1>2, <1>3, <1>4

LEMMA QueuedRest ==
    ASSUME NEW w, NEW S, NEW s \in Seq(S), s # << >>, Queued(w, s)
    PROVE  Head(s).token \in {w, Refused} \/ Queued(w, Tail(s))
<1>1. PICK i \in 1..Len(s) : s[i].token \in {w, Refused}
  BY DEF Queued
<1>2. CASE i = 1
  BY <1>1, <1>2
<1>3. CASE i # 1
  <2>1. Len(s) \in Nat /\ DOMAIN Tail(s) = 1..Len(s) - 1
    OBVIOUS
  <2>2. i - 1 \in DOMAIN Tail(s) /\ Tail(s)[i - 1] = s[i]
    BY <1>3, <2>1
  <2> QED BY <1>1, <2>2 DEF Queued
<1> QED BY <1>2, <1>3

LEMMA HiddenFacts ==
    ASSUME NEW s \in Seq(Tokens), NEW hide \in SUBSET Names
    PROVE  Hidden(s, hide) \in Pending /\ \A w : Has(w, s) => Queued(w, Hidden(s, hide))
<1>1. DOMAIN s = 1..Len(s) /\ Len(s) \in Nat
  OBVIOUS
<1>2. Hidden(s, hide) \in Pending
  BY <1>1 DEF Hidden, Pending
<1>3. \A w : Has(w, s) => Queued(w, Hidden(s, hide))
  BY DEF Hidden, Has, Queued
<1> QED BY <1>2, <1>3

LEMMA MakesSeq ==
    ASSUME NEW S, NEW n \in Nat, NEW s \in [1..n -> S]
    PROVE  s \in Seq(S) /\ Len(s) = n
  BY SeqDef

LEMMA Singleton ==
    ASSUME NEW S, NEW x \in S
    PROVE  <<x>> \in Seq(S)
<1>1. <<x>> \in [1..1 -> S]
  OBVIOUS
<1> QED BY <1>1, SeqDef

LEMMA FrontAndLast ==
    ASSUME NEW S, NEW s \in Seq(S), s # << >>
    PROVE  Front(s) \in Seq(S) /\ Last(s) \in S
  BY DEF Front, Last

----------------------------------------------------------------------------
(* The recursions of the model, each a case of this one.                    *)

LEMMA LeastNatural == ASSUME NEW T \in SUBSET Nat, T # {} PROVE \E n \in T : \A m \in T : n <= m
<1> DEFINE R == OpToRel(<, Nat)
<1>1. IsWellFoundedOn(R, Nat)
  BY NatLessThanWellFounded
<1>2. PICK n \in T : \A m \in T : ~ (<<m, n>> \in R)
  <2> HIDE DEF R
  <2> QED BY <1>1, WFMin
<1>3. ASSUME NEW m \in T PROVE n <= m
  <2>1. m \in Nat /\ n \in Nat
    OBVIOUS
  <2>2. ~ (<<m, n>> \in R)
    BY <1>2
  <2>3. ~ (m < n)
    BY <2>1, <2>2 DEF OpToRel
  <2> QED BY <2>1, <2>3
<1> QED BY <1>3

Steps(f, low, n, base, step) ==
    f = [i \in low..n |-> IF i = low THEN base ELSE step[<<f[i - 1], i>>]]

LEMMA StepsExist ==
    ASSUME NEW D, NEW low \in Nat, NEW high \in Nat, NEW base \in D,
           NEW step \in [D \X (low + 1..high) -> D]
    PROVE  \A n \in low..high : \E f \in [low..n -> D] : Steps(f, low, n, base, step)
<1> DEFINE P(n) == \E f \in [low..n -> D] : Steps(f, low, n, base, step)
           T == {n \in low..high : ~ P(n)}
<1> SUFFICES ASSUME T # {} PROVE FALSE
  OBVIOUS
<1>1. T \in SUBSET Nat
  OBVIOUS
<1>2. PICK n \in T : \A m \in T : n <= m
  <2> HIDE DEF T
  <2> QED BY <1>1, LeastNatural
<1>3. CASE n = low
  <2> DEFINE f == [i \in low..low |-> base]
  <2>1. f = [i \in low..low |-> IF i = low THEN base ELSE step[<<f[i - 1], i>>]]
    OBVIOUS
  <2>2. f \in [low..low -> D]
    OBVIOUS
  <2> QED BY <1>3, <2>1, <2>2 DEF Steps
<1>4. CASE n # low
  <2>1. n - 1 \in low..high /\ n - 1 \notin T /\ n \in low + 1..high /\ n \in Nat
    BY <1>1, <1>2, <1>4
  <2>2. PICK f \in [low..(n - 1) -> D] : Steps(f, low, n - 1, base, step)
    BY <2>1
  <2>3. f[n - 1] \in D
    BY <2>1
  <2> DEFINE g == [i \in low..n |-> IF i = n THEN step[<<f[n - 1], n>>] ELSE f[i]]
  <2>4. step[<<f[n - 1], n>>] \in D
    BY <2>1, <2>3
  <2>5. \A i \in low..n : i # n => i \in low..(n - 1)
    BY <2>1
  <2>6. g \in [low..n -> D]
    BY <2>4, <2>5
  <2>7. ASSUME NEW i \in low..n PROVE g[i] = IF i = low THEN base ELSE step[<<g[i - 1], i>>]
    <3>1. CASE i = n
      <4>1. n - 1 \in low..n /\ n - 1 # n
        BY <2>1
      <4>2. g[n - 1] = f[n - 1]
        BY <4>1
      <4> QED BY <1>4, <3>1, <4>2
    <3>2. CASE i # n
      <4>1. i \in low..(n - 1)
        BY <2>5, <3>2
      <4>2. f[i] = IF i = low THEN base ELSE step[<<f[i - 1], i>>]
        BY <2>2, <4>1 DEF Steps
      <4>3. i # low => g[i - 1] = f[i - 1]
        BY <2>1, <4>1
      <4> QED BY <3>2, <4>2, <4>3
    <3> QED BY <3>1, <3>2
  <2>8. g = [i \in low..n |-> IF i = low THEN base ELSE step[<<g[i - 1], i>>]]
    BY <2>7
  <2> HIDE DEF g
  <2>9. P(n)
    BY <2>6, <2>8 DEF Steps
  <2> QED BY <1>2, <2>9
<1> QED BY <1>3, <1>4

(* Concatenating sequences of tokens gives one.                             *)
LEMMA FlattenSeqType ==
    ASSUME NEW S, NEW parts \in Seq(Seq(S))
    PROVE  FlattenSeq(parts) \in Seq(S)
<1> DEFINE n == Len(parts)
           step == [p \in Seq(S) \X (2..n) |-> p[1] \o parts[p[2]]]
           Flat(f) == f = [i \in 1..n |-> IF i = 1 THEN parts[1] ELSE f[i - 1] \o parts[i]]
<1>1. n \in Nat /\ DOMAIN parts = 1..n /\ \A i \in 1..n : parts[i] \in Seq(S)
  OBVIOUS
<1>2. CASE n = 0
  BY <1>2 DEF FlattenSeq
<1>3. CASE n # 0
  <2>1. parts[1] \in Seq(S) /\ n \in 1..n
    BY <1>1, <1>3
  <2>2. step \in [Seq(S) \X (1 + 1..n) -> Seq(S)]
    <3>1. ASSUME NEW p \in Seq(S) \X (2..n) PROVE p[1] \o parts[p[2]] \in Seq(S)
      <4>1. p[1] \in Seq(S) /\ p[2] \in 1..n
        BY <1>1
      <4>2. parts[p[2]] \in Seq(S)
        BY <1>1, <4>1
      <4> QED BY <4>1, <4>2
    <3> QED BY <3>1
  <2>3. PICK f \in [1..n -> Seq(S)] : Steps(f, 1, n, parts[1], step)
    <3> HIDE DEF step, n
    <3> QED BY <1>1, <2>1, <2>2, StepsExist
  <2>4. ASSUME NEW i \in 1..n, i # 1 PROVE step[<<f[i - 1], i>>] = f[i - 1] \o parts[i]
    <3>1. i - 1 \in 1..n /\ i \in 2..n
      BY <1>1, <2>4
    <3>2. <<f[i - 1], i>> \in Seq(S) \X (2..n)
      BY <3>1
    <3> QED BY <3>2
  <2>5. Flat(f)
    <3> HIDE DEF step, n
    <3> QED BY <2>3, <2>4 DEF Steps
  <2> DEFINE g == CHOOSE f1 : Flat(f1)
  <2>6. Flat(g)
    <3> HIDE DEF Flat
    <3> QED BY <2>5
  <2>7. FlattenSeq(parts) = g[n]
    BY <1>3 DEF FlattenSeq
  <2>8. ASSUME NEW T, T = {i \in 1..n : g[i] \notin Seq(S)}, T # {} PROVE FALSE
    <3>1. T \in SUBSET Nat
      BY <1>1, <2>8
    <3>2. PICK i \in T : \A j \in T : i <= j
      BY <2>8, <3>1, LeastNatural
    <3>3. i \in 1..n /\ g[i] \notin Seq(S)
      BY <2>8, <3>2
    <3>4. g[i] = IF i = 1 THEN parts[1] ELSE g[i - 1] \o parts[i]
      <4> HIDE DEF g
      <4> QED BY <2>6, <3>3
    <3> HIDE DEF g
    <3>5. i # 1 => i - 1 \in 1..n /\ ~ (i <= i - 1)
      BY <1>1, <3>3
    <3>6. i # 1 => g[i - 1] \in Seq(S)
      BY <2>8, <3>2, <3>5
    <3> QED BY <1>1, <2>1, <3>3, <3>4, <3>6
  <2>9. g[n] \in Seq(S)
    <3> HIDE DEF g
    <3> QED BY <2>1, <2>8
  <2> QED BY <2>7, <2>9
<1> QED BY <1>2, <1>3

LEMMA WithCommasType ==
    ASSUME NEW parts \in Seq(Seq(Tokens))
    PROVE  WithCommas(parts) \in Seq(Tokens)
<1> DEFINE comma == <<",">>
           part(i) == IF i = 1 THEN parts[1] ELSE comma \o parts[i]
           joined == [i \in DOMAIN parts |-> part(i)]
<1>1. comma \in Seq(Tokens)
  <2>1. "," \in Tokens
    BY DEF Tokens, Valid
  <2> QED BY <2>1, Singleton
<1>2. DOMAIN parts = 1..Len(parts) /\ Len(parts) \in Nat
  OBVIOUS
<1>3. ASSUME NEW i \in 1..Len(parts) PROVE part(i) \in Seq(Tokens)
  <2>1. parts[i] \in Seq(Tokens) /\ 1 \in 1..Len(parts)
    BY <1>2
  <2>2. comma \o parts[i] \in Seq(Tokens)
    <3> HIDE DEF comma
    <3> QED BY <1>1, <2>1, ConcatProperties
  <2>3. parts[1] \in Seq(Tokens)
    BY <2>1
  <2> QED BY <2>2, <2>3
<1>4. joined \in [1..Len(parts) -> Seq(Tokens)]
  <2> HIDE DEF part
  <2> QED BY <1>2, <1>3
<1>5. joined \in Seq(Seq(Tokens))
  <2> HIDE DEF joined
  <2> QED BY <1>2, <1>4, MakesSeq
<1>6. WithCommas(parts) = FlattenSeq(joined)
  BY DEF WithCommas
<1> HIDE DEF joined
<1> QED BY <1>5, <1>6, FlattenSeqType

LEMMA SiftedType ==
    ASSUME NEW s \in Seq(Tokens)
    PROVE  Sifted(s, TRUE) \in Seq(Errors) /\ Sifted(s, FALSE) \in Seq(Tokens)
<1> DEFINE errors == [i \in DOMAIN s |-> IF (s[i] \in Errors) = TRUE THEN <<s[i]>> ELSE << >>]
           others == [i \in DOMAIN s |-> IF (s[i] \in Errors) = FALSE THEN <<s[i]>> ELSE << >>]
<1>1. DOMAIN s = 1..Len(s) /\ Len(s) \in Nat /\ \A i \in 1..Len(s) : s[i] \in Tokens
  OBVIOUS
<1>2. errors \in Seq(Seq(Errors))
  <2>1. ASSUME NEW i \in 1..Len(s)
        PROVE  (IF (s[i] \in Errors) = TRUE THEN <<s[i]>> ELSE << >>) \in Seq(Errors)
    <3>1. CASE s[i] \in Errors
      BY <3>1, Singleton
    <3>2. CASE s[i] \notin Errors
      BY <3>2
    <3> QED BY <3>1, <3>2
  <2>2. errors \in [1..Len(s) -> Seq(Errors)]
    BY <1>1, <2>1
  <2> HIDE DEF errors
  <2> QED BY <1>1, <2>2, MakesSeq
<1>3. others \in Seq(Seq(Tokens))
  <2>1. \A i \in 1..Len(s) : (IF (s[i] \in Errors) = FALSE THEN <<s[i]>> ELSE << >>) \in Seq(Tokens)
    BY <1>1, Singleton
  <2>2. others \in [1..Len(s) -> Seq(Tokens)]
    BY <1>1, <2>1
  <2> HIDE DEF others
  <2> QED BY <1>1, <2>2, MakesSeq
<1>4. Sifted(s, TRUE) = FlattenSeq(errors) /\ Sifted(s, FALSE) = FlattenSeq(others)
  BY DEF Sifted
<1> HIDE DEF errors, others
<1> QED BY <1>2, <1>3, <1>4, FlattenSeqType

(* Pasting tokens gives a token.                                            *)
LEMMA PastedAllType ==
    ASSUME NEW l \in Tokens, NEW operand \in Seq(Tokens)
    PROVE  PastedAll(l, operand) \in Tokens
<1> DEFINE n == Len(operand)
           step == [p \in Tokens \X (1..n) |-> Pasted(p[1], operand[p[2]])]
           Pastes(f) == f = [i \in 0..n |-> IF i = 0 THEN l ELSE Pasted(f[i - 1], operand[i])]
<1>1. n \in Nat /\ 0 + 1 = 1
  OBVIOUS
<1>2. \A x, y : Pasted(x, y) \in Tokens
  BY DEF Pasted, Tokens, Valid, Errors, Range
<1>3. step \in [Tokens \X (1..n) -> Tokens]
  BY <1>2
<1>4. PICK f \in [0..n -> Tokens] : Steps(f, 0, n, l, step)
  <2>1. 0 \in Nat /\ n \in 0..n /\ step \in [Tokens \X (0 + 1..n) -> Tokens]
    BY <1>1, <1>3
  <2> HIDE DEF step, n
  <2> QED BY <1>1, <2>1, StepsExist
<1>5. ASSUME NEW i \in 0..n, i # 0 PROVE step[<<f[i - 1], i>>] = Pasted(f[i - 1], operand[i])
  <2>1. i - 1 \in 0..n /\ i \in 1..n
    BY <1>1, <1>5
  <2>2. <<f[i - 1], i>> \in Tokens \X (1..n)
    BY <2>1
  <2> QED BY <2>2
<1>6. Pastes(f)
  <2> HIDE DEF step, n
  <2> QED BY <1>4, <1>5 DEF Steps
<1> DEFINE g == CHOOSE f1 : Pastes(f1)
<1>7. Pastes(g)
  <2> HIDE DEF Pastes
  <2> QED BY <1>6
<1>8. PastedAll(l, operand) = g[n]
  BY DEF PastedAll
<1> HIDE DEF g
<1>9. g[n] \in Tokens
  <2>1. n \in 0..n /\ g[n] = IF n = 0 THEN l ELSE Pasted(g[n - 1], operand[n])
    BY <1>1, <1>7
  <2> QED BY <1>2, <2>1
<1> QED BY <1>8, <1>9

----------------------------------------------------------------------------
(* White space.                                                             *)

LEMMA SolidFacts ==
    ASSUME NEW s \in Seq(Tokens), NEW i \in 1..(Len(s) + 1)
    PROVE  Solid(s, i) \in i..(Len(s) + 1)
<1> DEFINE n == Len(s) + 1
           T == {j \in i..n : j \in DOMAIN s => s[j] # Space}
           Ok(j) == /\ j \in DOMAIN s => s[j] # Space
                    /\ \A k \in i..(j - 1) : s[k] = Space
<1>1. n \in Nat /\ DOMAIN s = 1..Len(s) /\ Len(s) \in Nat /\ n \notin DOMAIN s /\ n \in i..n
  OBVIOUS
<1>2. PICK j \in T : \A k \in T : j <= k
  <2>1. T \in SUBSET Nat /\ n \in T
    BY <1>1
  <2> HIDE DEF T
  <2> QED BY <2>1, LeastNatural
<1>3. j \in i..n /\ Ok(j)
  <2>1. ASSUME NEW k \in i..(j - 1) PROVE s[k] = Space
    <3>1. k \in i..n /\ ~ (j <= k)
      BY <1>1, <1>2, <2>1
    <3>2. k \notin T
      BY <1>2, <3>1
    <3> QED BY <3>1, <3>2
  <2> QED BY <1>2, <2>1
<1>4. Solid(s, i) = CHOOSE j1 \in i..n : Ok(j1)
  BY DEF Solid
<1> HIDE DEF Ok
<1> QED BY <1>3, <1>4

LEMMA TrimmedRightType ==
    ASSUME NEW S, NEW s \in Seq(S)
    PROVE  TrimmedRight(s) \in Seq(S)
<1> DEFINE len == Len(s)
           T == {k \in 0..len : \A i \in (k + 1)..len : s[i] = Space}
           Ok(n) == /\ n > 0 => s[n] # Space
                    /\ \A i \in (n + 1)..len : s[i] = Space
<1>1. len \in Nat /\ len \in T
  OBVIOUS
<1>2. PICK n \in T : \A k \in T : n <= k
  <2>1. T \in SUBSET Nat
    BY <1>1
  <2> HIDE DEF T
  <2> QED BY <1>1, <2>1, LeastNatural
<1>3. n \in 0..len /\ Ok(n)
  <2>1. ASSUME n > 0, s[n] = Space PROVE FALSE
    <3>1. n - 1 \in 0..len /\ ~ (n <= n - 1)
      BY <1>1, <1>2, <2>1
    <3>2. \A i \in (n - 1 + 1)..len : s[i] = Space
      <4>1. \A i \in (n - 1 + 1)..len : i = n \/ i \in (n + 1)..len
        BY <1>1, <1>2
      <4> QED BY <1>2, <2>1, <4>1
    <3>3. n - 1 \in T
      BY <3>1, <3>2
    <3> QED BY <1>2, <3>1, <3>3
  <2> QED BY <1>2, <2>1
<1> DEFINE m == CHOOSE n1 \in 0..len : Ok(n1)
<1>4. m \in 0..len
  <2> HIDE DEF Ok
  <2> QED BY <1>3
<1>5. TrimmedRight(s) = SubSeq(s, 1, m)
  BY DEF TrimmedRight
<1> HIDE DEF m
<1>6. \A i \in 1..m : s[i] \in S
  BY <1>4
<1> QED BY <1>4, <1>5, <1>6, SubSeqProperties

LEMMA StrippedType ==
    ASSUME NEW S, NEW a \in Seq(S)
    PROVE  Stripped(a) \in Seq(S)
<1> DEFINE b == IF a # << >> /\ Last(a) = Space THEN Front(a) ELSE a
<1>1. b \in Seq(S)
  BY FrontAndLast
<1> HIDE DEF b
<1>2. b # << >> => Tail(b) \in Seq(S)
  BY <1>1
<1>3. Stripped(a) = IF b # << >> /\ Head(b) = Space THEN Tail(b) ELSE b
  BY DEF Stripped, b
<1> QED BY <1>1, <1>2, <1>3

----------------------------------------------------------------------------
(* Engines.                                                                 *)

LEMMA TopFacts ==
    ASSUME IInv
    PROVE  /\ Len(stack) \in Nat \ {0} /\ DOMAIN stack = 1..Len(stack) /\ stack \in Seq(Engines)
           /\ top = stack[Len(stack)] /\ top \in Engines /\ Sound(top)
<1>1. stack \in Seq(Engines) /\ stack # << >>
  BY DEF IInv, TypeOK
<1>2. Len(stack) \in Nat \ {0} /\ DOMAIN stack = 1..Len(stack)
  BY <1>1
<1>3. top = stack[Len(stack)]
  BY DEF top, Last
<1> QED BY <1>1, <1>2, <1>3 DEF IInv

LEMMA EngineFields ==
    ASSUME NEW e \in Engines
    PROVE  /\ e.pending \in Pending /\ e.inner \in Seq(Tokens) /\ e.disabled \in SUBSET Names
           /\ e.replacements \in Seq(Tokens)
           /\ e.call # NoCall => e.call \in Calls
  BY DEF Engines, Pending

LEMMA CallFields ==
    ASSUME NEW c \in Calls
    PROVE  /\ c # NoCall /\ c.name \in Names /\ c.disabled \in SUBSET Names
           /\ c.closing \in SUBSET Names /\ c.errors \in Seq(Errors) /\ c.errors \in Seq(Tokens)
           /\ c.args \in Seq(Seq(Tokens)) /\ c.current \in Seq(Tokens)
           /\ c.nesting \in Nat \ {0} /\ c.at \in Nat \ {0} /\ c.out \in Seq(Tokens)
<1>1. c.errors \in Seq(Errors)
  BY DEF Calls
<1>2. c.errors \in Seq(Tokens)
  <2>1. Errors \subseteq Tokens
    BY DEF Tokens
  <2> QED BY <1>1, <2>1
<1>3. c # NoCall
  <2>1. "phase" \in DOMAIN c
    BY DEF Calls
  <2>2. "phase" \notin DOMAIN NoCall
    BY DEF NoCall
  <2> QED BY <2>1, <2>2
<1> QED BY <1>1, <1>2, <1>3 DEF Calls

LEMMA Definitions ==
    ASSUME IInv, NEW n \in Names
    PROVE  LET m == definitions[n]
           IN  /\ m.kind = "object" => m.body \in Seq(Tokens)
               /\ m.kind = "function" =>
                     /\ m.params \in Seq(Names) /\ m.variadic \in BOOLEAN /\ m.body \in Seq(Tokens)
                     /\ m.variadic => m.params # << >>
<1>1. IsDefinition(definitions[n])
  BY MacroReplacementAssumption DEF IInv, TypeOK, Assumption
<1>2. Seq(Valid) \subseteq Seq(Tokens)
  BY DEF Tokens
<1> QED BY <1>1, <1>2 DEF IsDefinition, Undefined

(* The engine that runs becomes f.                                          *)
LEMMA RunPreserves ==
    ASSUME IInv, NEW f, Run(f), Sound(f), \A w \in Invalid : Keeps(w, top) => Keeps(w, f)
    PROVE  IInv'
<1>1. PICK n \in Nat \ {0} :
            /\ n = Len(stack) /\ DOMAIN stack = 1..n /\ stack \in Seq(Engines) /\ top = stack[n]
            /\ \A i \in 1..n : stack[i] \in Engines
  <2> DEFINE n == Len(stack)
  <2>1. n \in Nat \ {0} /\ DOMAIN stack = 1..n /\ stack \in Seq(Engines) /\ top = stack[n]
    BY TopFacts
  <2>2. \A i \in 1..n : stack[i] \in Engines
    BY <2>1
  <2> HIDE DEF n
  <2>3. n = Len(stack)
    BY DEF n
  <2> QED BY <2>1, <2>2, <2>3
<1>2. /\ stack' \in Seq(Engines) /\ Len(stack') = n /\ DOMAIN stack' = 1..n
      /\ \A i \in 1..n : stack'[i] = IF i = n THEN f ELSE stack[i]
  <2> DEFINE front == SubSeq(stack, 1, n - 1)
  <2>1. stack' = Append(front, f)
    BY <1>1 DEF Run, Front
  <2>2. /\ front \in Seq(Engines) /\ Len(front) = n - 1 /\ DOMAIN front = 1..(n - 1)
        /\ \A i \in 1..(n - 1) : front[i] = stack[i]
    BY <1>1, SubSeqProperties
  <2> HIDE DEF front
  <2>3. f \in Engines
    BY DEF Sound
  <2>4. /\ stack' \in Seq(Engines) /\ Len(stack') = n - 1 + 1 /\ DOMAIN stack' = 1..(n - 1 + 1)
        /\ stack'[n - 1 + 1] = f /\ \A i \in 1..(n - 1) : stack'[i] = front[i]
    BY <2>1, <2>2, <2>3, AppendProperties
  <2>5. n - 1 + 1 = n /\ \A i \in 1..n : i # n => i \in 1..(n - 1)
    BY <1>1
  <2> QED BY <2>2, <2>4, <2>5
<1>3. definitions' = definitions /\ text' = text /\ panicked' = panicked
  BY DEF Run
<1>4. \A i \in 1..(n - 1) : i \in 1..n /\ i # n /\ stack'[i] = stack[i]
  BY <1>1, <1>2
<1>5. \A i \in 1..(n - 1) : stack'[i].call # NoCall /\ stack'[i].call.phase = "body"
  BY <1>1, <1>4 DEF IInv
<1>6. TypeOK'
  <2>1. stack' # << >>
    BY <1>1, <1>2
  <2>2. TypeOK
    BY DEF IInv
  <2> QED BY <1>2, <1>3, <1>5, <2>1, <2>2 DEF TypeOK
<1>7. (\A i \in DOMAIN stack : Sound(stack[i]))'
  <2>1. \A i \in 1..n : Sound(stack[i])
    BY <1>1 DEF IInv
  <2> QED BY <1>1, <1>2, <1>3, <2>1 DEF Sound, Fits
<1>8. (\A w \in Invalid : Has(w, text) => Keeps(w, stack[1]))'
  <2>1. 1 \in 1..n /\ (n = 1 => stack'[1] = f /\ top = stack[1]) /\ (n # 1 => stack'[1] = stack[1])
    BY <1>1, <1>2
  <2>2. \A w \in Invalid : Has(w, text) => Keeps(w, stack[1])
    BY DEF IInv
  <2>3. \A w \in Invalid : Has(w, text') => Keeps(w, stack'[1])
    BY <1>3, <2>1, <2>2
  <2> QED BY <2>3 DEF Has, Keeps, Queued
<1> QED BY <1>2, <1>5, <1>6, <1>7, <1>8 DEF IInv

----------------------------------------------------------------------------
(* Reading a call, and what its invocation gives.                           *)

NextIn(e) == IF e.pending # << >> THEN Head(e.pending).token
             ELSE IF e.inner # << >> THEN Head(e.inner) ELSE EndOfFile

LEMMA ReadFacts ==
    ASSUME NEW e \in Engines, e.call \in Calls, e.pending # << >> \/ e.inner # << >>
    PROVE  /\ NextIn(e) \in Tokens
           /\ Read(e) \in Engines /\ Read(e).call \in Calls
           /\ \E closing : Read(e).call = [e.call EXCEPT !.closing = closing]
           /\ \A w : Keeps(w, e) => NextIn(e) \in {w, Refused} \/ Keeps(w, Read(e))
<1>1. e.pending \in Pending /\ e.inner \in Seq(Tokens)
  BY EngineFields
<1>2. CASE e.pending # << >>
  <2> DEFINE t == Head(e.pending)
             closing == IF t.token = ")" THEN t.hide ELSE {}
             c == [e.call EXCEPT !.closing = closing]
  <2>1. t \in [token : Tokens, hide : SUBSET Names] /\ Tail(e.pending) \in Pending
    BY <1>1, <1>2, HeadTailProperties DEF Pending
  <2>2. c \in Calls
    BY <2>1 DEF Calls
  <2>3. Read(e) = [e EXCEPT !.pending = Tail(@), !.call = c]
    BY <1>2 DEF Read, Engines
  <2>4. Read(e) \in Engines /\ Read(e).call = c
    <3> HIDE DEF c
    <3> QED BY <2>1, <2>2, <2>3 DEF Engines, Pending
  <2>5. NextIn(e) = t.token
    BY <1>2 DEF NextIn
  <2>6. ASSUME NEW w, Keeps(w, e) PROVE t.token \in {w, Refused} \/ Keeps(w, Read(e))
    <3>1. /\ Read(e).pending = Tail(e.pending) /\ Read(e).inner = e.inner
          /\ Read(e).replacements = e.replacements /\ Read(e).call.errors = e.call.errors
      BY <2>3 DEF Engines, Calls
    <3>2. Queued(w, e.pending) => t.token \in {w, Refused} \/ Queued(w, Tail(e.pending))
      BY <1>1, <1>2, QueuedRest DEF Pending
    <3>3. e.call # NoCall /\ Read(e).call # NoCall
      BY <2>2, <2>4, CallFields
    <3> QED BY <2>6, <3>1, <3>2, <3>3 DEF Keeps
  <2> QED BY <2>1, <2>2, <2>4, <2>5, <2>6
<1>3. CASE e.pending = << >>
  <2>1. Head(e.inner) \in Tokens /\ Tail(e.inner) \in Seq(Tokens)
    BY <1>1, <1>3
  <2>2. Read(e) = [e EXCEPT !.inner = Tail(@)]
    BY <1>3 DEF Read
  <2>3. Read(e) \in Engines /\ Read(e).call = e.call
    BY <2>1, <2>2 DEF Engines
  <2>4. e.call = [e.call EXCEPT !.closing = e.call.closing]
    BY DEF Calls
  <2>5. NextIn(e) = Head(e.inner)
    BY <1>3 DEF NextIn
  <2>6. ASSUME NEW w, Keeps(w, e)
        PROVE  Head(e.inner) \in {w, Refused} \/ Keeps(w, Read(e))
    <3>1. /\ Read(e).pending = e.pending /\ Read(e).inner = Tail(e.inner)
          /\ Read(e).replacements = e.replacements /\ Read(e).call = e.call
      BY <2>2 DEF Engines
    <3>2. Has(w, e.inner) => Head(e.inner) \in {w, Refused} \/ Has(w, Tail(e.inner))
      BY <1>1, <1>3, HasRest
    <3> QED BY <2>6, <3>1, <3>2 DEF Keeps
  <2> QED BY <2>1, <2>3, <2>4, <2>5, <2>6
<1> QED BY <1>2, <1>3

LEMMA RequeuedFacts ==
    ASSUME NEW e \in Engines, NEW name, NEW hide \in SUBSET Names, NEW tokens \in Seq(Tokens)
    PROVE  LET f == Requeued(e, name, hide, tokens)
           IN  /\ f \in Engines /\ f.call = NoCall
               /\ \A w : Has(w, tokens) \/ Queued(w, e.pending) \/ Has(w, e.inner) \/ Has(w, e.replacements) => Keeps(w, f)
<1> DEFINE f == Requeued(e, name, hide, tokens)
<1>1. e.pending \in Pending /\ e.replacements \in Seq(Tokens)
  BY EngineFields
<1>2. CASE IsAt(tokens, 1, name)
  <2>1. e.replacements \o tokens \in Seq(Tokens)
    BY <1>1, ConcatProperties
  <2>2. f = [e EXCEPT !.call = NoCall, !.replacements = @ \o tokens]
    BY <1>2 DEF Requeued
  <2>3. f \in Engines /\ f.call = NoCall
    BY <2>1, <2>2 DEF Engines
  <2>4. f.pending = e.pending /\ f.inner = e.inner /\ f.replacements = e.replacements \o tokens
    BY <2>2 DEF Engines
  <2>5. \A w : Has(w, e.replacements \o tokens) <=> Has(w, e.replacements) \/ Has(w, tokens)
    BY <1>1, HasConcat
  <2> QED BY <2>3, <2>4, <2>5 DEF Keeps
<1>3. CASE ~ IsAt(tokens, 1, name)
  <2> DEFINE hidden == Hidden(tokens, hide)
  <2>1. hidden \in Pending /\ \A w : Has(w, tokens) => Queued(w, hidden)
    BY HiddenFacts
  <2> HIDE DEF hidden
  <2>2. hidden \o e.pending \in Pending
    BY <1>1, <2>1, ConcatProperties DEF Pending
  <2>3. f = [e EXCEPT !.call = NoCall, !.pending = hidden \o @]
    BY <1>3 DEF Requeued, hidden
  <2>4. f \in Engines /\ f.call = NoCall
    BY <2>2, <2>3 DEF Engines, Pending
  <2>5. f.pending = hidden \o e.pending /\ f.inner = e.inner /\ f.replacements = e.replacements
    BY <2>3 DEF Engines
  <2>6. \A w : Queued(w, hidden \o e.pending) <=> Queued(w, hidden) \/ Queued(w, e.pending)
    BY <1>1, <2>1, QueuedConcat DEF Pending
  <2> QED BY <2>1, <2>4, <2>5, <2>6 DEF Keeps
<1> QED BY <1>2, <1>3

(* An invocation ends, with e as it stands then.                            *)
LEMMA ReplyPreserves ==
    ASSUME IInv, NEW e \in Engines, e.call \in Calls, NEW tokens \in Seq(Tokens), Reply(e, tokens),
           \A w \in Invalid : Keeps(w, top) => Keeps(w, e) \/ Has(w, tokens),
           \A w \in Invalid : Has(w, e.call.errors) => Has(w, tokens)
    PROVE  IInv'
<1> DEFINE hide == (e.call.disabled \cap e.call.closing) \cup {e.call.name}
           f == Requeued(e, e.call.name, hide, tokens)
<1>1. hide \in SUBSET Names
  BY CallFields
<1>2. /\ f \in Engines /\ f.call = NoCall
      /\ \A w : Has(w, tokens) \/ Queued(w, e.pending) \/ Has(w, e.inner) \/ Has(w, e.replacements) => Keeps(w, f)
  <2> HIDE DEF hide
  <2> QED BY <1>1, RequeuedFacts
<1>3. Run(f)
  BY DEF Reply
<1> HIDE DEF f
<1>4. Sound(f)
  BY <1>2 DEF Sound
<1>5. \A w \in Invalid : Keeps(w, top) => Keeps(w, f)
  BY <1>2 DEF Keeps
<1> QED BY <1>3, <1>4, <1>5, RunPreserves

(* What reading a token leaves of the call.                                 *)
LEMMA ReadKeepsCall ==
    ASSUME NEW e \in Engines, e.call \in Calls, e.pending # << >> \/ e.inner # << >>
    PROVE  LET c == Read(e).call
           IN  /\ c.phase = e.call.phase /\ c.name = e.call.name /\ c.errors = e.call.errors
               /\ c.args = e.call.args /\ c.current = e.call.current /\ c.nesting = e.call.nesting
<1>1. PICK closing : Read(e).call = [e.call EXCEPT !.closing = closing]
  BY ReadFacts
<1> DEFINE c == Read(e).call
<1>2. c = [e.call EXCEPT !.closing = closing]
  BY <1>1
<1> HIDE DEF c
<1>3. /\ c.phase = e.call.phase /\ c.name = e.call.name /\ c.errors = e.call.errors
      /\ c.args = e.call.args /\ c.current = e.call.current /\ c.nesting = e.call.nesting
  BY <1>2 DEF Calls
<1> QED BY <1>3 DEF c

(* The engine in a call: what is known before a step of it.                 *)
LEMMA InCall ==
    ASSUME IInv, call # NoCall
    PROVE  /\ top \in Engines /\ top.call \in Calls /\ call = top.call /\ Fits(call)
           /\ NextToken = NextIn(top)
           /\ NextToken # EndOfFile => top.pending # << >> \/ top.inner # << >>
<1>1. top \in Engines /\ Sound(top)
  BY TopFacts
<1>2. call = top.call
  BY DEF call
<1>3. NextToken = NextIn(top)
  BY DEF NextToken, NextIn
<1>4. NextToken # EndOfFile => top.pending # << >> \/ top.inner # << >>
  BY DEF NextToken
<1> QED BY <1>1, <1>2, <1>3, <1>4, EngineFields DEF Sound

(* e is the engine that runs, perhaps after it has read; its call becomes c.*)
LEMMA CallPreserves ==
    ASSUME IInv, NEW e \in Engines, NEW c \in Calls, Fits(c), Run([e EXCEPT !.call = c]),
           \A w \in Invalid : Keeps(w, top) => Keeps(w, e) \/ Has(w, c.errors),
           e.call \in Calls, \A w \in Invalid : Has(w, e.call.errors) => Has(w, c.errors)
    PROVE  IInv'
<1> DEFINE f == [e EXCEPT !.call = c]
<1>1. f \in Engines
  BY DEF Engines
<1>2. /\ f.call = c /\ f.pending = e.pending /\ f.inner = e.inner
      /\ f.replacements = e.replacements
  BY DEF Engines
<1>3. c # NoCall
  BY CallFields
<1>4. Run(f)
  OBVIOUS
<1> HIDE DEF f
<1>5. Sound(f)
  BY <1>1, <1>2 DEF Sound
<1>6. \A w \in Invalid : Keeps(w, top) => Keeps(w, f)
  BY <1>2, <1>3 DEF Keeps
<1> QED BY <1>4, <1>5, <1>6, RunPreserves

LEMMA Pair ==
    ASSUME NEW S, NEW x \in S, NEW y \in S
    PROVE  <<x, y>> \in Seq(S)
<1>1. <<x, y>> \in [1..2 -> S]
  OBVIOUS
<1> QED BY <1>1, SeqDef

LEMMA HasRefused == <<Refused>> \in Seq(Tokens) /\ \A w : Has(w, <<Refused>>)
<1>1. Refused \in Tokens
  BY DEF Tokens, Errors
<1>2. 1 \in DOMAIN <<Refused>> /\ <<Refused>>[1] = Refused
  OBVIOUS
<1> QED BY <1>1, <1>2, Singleton DEF Has

(* An error is no punctuation, no name and not the end of the file.         *)
LEMMA ErrorsApart ==
    /\ \A n \in Names : n \notin Errors
    /\ {"(", ")", ",", Space, EndOfFile} \cap Errors = {}
  BY MacroReplacementAssumption DEF Assumption, Valid

----------------------------------------------------------------------------
(* Outside of calls.                                                        *)

LEMMA TakePreserves == ASSUME IInv, Take PROVE IInv'
<1> DEFINE t == Head(top.inner)
           one == <<t>>
           f == [top EXCEPT !.pending = Hidden(one, top.disabled), !.inner = Tail(@)]
<1>1. /\ top \in Engines /\ top.call = NoCall /\ top.pending = << >> /\ top.inner # << >>
      /\ top.inner \in Seq(Tokens) /\ top.disabled \in SUBSET Names
  BY TopFacts, EngineFields DEF Take
<1>2. t \in Tokens /\ Tail(top.inner) \in Seq(Tokens)
  BY <1>1, HeadTailProperties
<1>3. one \in Seq(Tokens) /\ \A w : t \in {w, Refused} => Has(w, one)
  <2>1. 1 \in DOMAIN one /\ one[1] = t
    OBVIOUS
  <2> QED BY <1>2, <2>1, Singleton DEF Has
<1> HIDE DEF one
<1>4. /\ Hidden(one, top.disabled) \in Pending
      /\ \A w : t \in {w, Refused} => Queued(w, Hidden(one, top.disabled))
  BY <1>1, <1>3, HiddenFacts
<1>5. f \in Engines
  BY <1>1, <1>2, <1>4 DEF Engines, Pending
<1>6. /\ f.pending = Hidden(one, top.disabled) /\ f.inner = Tail(top.inner)
      /\ f.replacements = top.replacements /\ f.call = NoCall
  BY <1>1 DEF Engines
<1>7. Run(f)
  BY DEF Take, one
<1> HIDE DEF f
<1>8. \A w \in Invalid : Keeps(w, top) => Keeps(w, f)
  <2>1. \A w : ~ Queued(w, top.pending)
    BY <1>1 DEF Queued
  <2>2. ASSUME NEW w \in Invalid, Has(w, top.inner)
        PROVE  t \in {w, Refused} \/ Has(w, Tail(top.inner))
    BY <1>1, <2>2, HasRest
  <2> QED BY <1>1, <1>4, <1>6, <2>1, <2>2 DEF Keeps
<1> QED BY <1>5, <1>6, <1>7, <1>8, RunPreserves DEF Sound

LEMMA AtFacts ==
    ASSUME IInv, NEW kind, At(kind)
    PROVE  /\ top \in Engines /\ top.call = NoCall /\ top.pending # << >>
           /\ top.pending \in Pending /\ top.inner \in Seq(Tokens)
           /\ top.replacements \in Seq(Tokens)
           /\ Head(top.pending) \in [token : Tokens, hide : SUBSET Names]
           /\ Tail(top.pending) \in Pending
           /\ kind # "none" =>
                 /\ Head(top.pending).token \in Names
                 /\ definitions[Head(top.pending).token].kind = kind
                 /\ Head(top.pending).token \notin Errors
           /\ \A w \in Invalid : Queued(w, top.pending) => \/ Head(top.pending).token \in {w, Refused}
                                                         \/ Queued(w, Tail(top.pending))
<1>1. /\ top \in Engines /\ top.call = NoCall /\ top.pending # << >>
      /\ top.pending \in Pending /\ top.inner \in Seq(Tokens)
      /\ top.replacements \in Seq(Tokens)
  BY TopFacts, EngineFields DEF At
<1>2. /\ Head(top.pending) \in [token : Tokens, hide : SUBSET Names]
      /\ Tail(top.pending) \in Pending
  BY <1>1, HeadTailProperties DEF Pending
<1>3. kind # "none" =>
         /\ Head(top.pending).token \in Names
         /\ definitions[Head(top.pending).token].kind = kind
  BY DEF At
<1>4. \A n \in Names : n \notin Errors
  BY ErrorsApart
<1>5. ASSUME NEW w \in Invalid, Queued(w, top.pending)
      PROVE  Head(top.pending).token \in {w, Refused} \/ Queued(w, Tail(top.pending))
  BY <1>1, <1>5, QueuedRest DEF Pending
<1> QED BY <1>1, <1>2, <1>3, <1>4, <1>5

LEMMA DeliverPreserves == ASSUME IInv, Deliver PROVE IInv'
<1> DEFINE t == Head(top.pending).token
           f == [top EXCEPT !.pending = Tail(@), !.replacements = Append(@, t)]
<1>1. At("none") /\ Run(f)
  BY DEF Deliver
<1>2. /\ top \in Engines /\ top.call = NoCall /\ top.pending \in Pending
      /\ top.replacements \in Seq(Tokens) /\ Tail(top.pending) \in Pending /\ t \in Tokens
      /\ \A w \in Invalid : Queued(w, top.pending)
                            => t \in {w, Refused} \/ Queued(w, Tail(top.pending))
  BY <1>1, AtFacts
<1>3. Append(top.replacements, t) \in Seq(Tokens)
  BY <1>2, AppendProperties
<1>4. f \in Engines
  BY <1>2, <1>3 DEF Engines, Pending
<1>5. /\ f.pending = Tail(top.pending) /\ f.inner = top.inner
      /\ f.replacements = Append(top.replacements, t) /\ f.call = NoCall
  BY <1>2 DEF Engines
<1> HIDE DEF f
<1>6. \A w : Has(w, Append(top.replacements, t)) <=> Has(w, top.replacements) \/ t \in {w, Refused}
  BY <1>2, HasAppend
<1>7. \A w \in Invalid : Keeps(w, top) => Keeps(w, f)
  BY <1>2, <1>5, <1>6 DEF Keeps
<1> QED BY <1>1, <1>4, <1>5, <1>7, RunPreserves DEF Sound

LEMMA ReplaceObjectPreserves == ASSUME IInv, ReplaceObject PROVE IInv'
<1> DEFINE t == Head(top.pending)
           b == Hidden(definitions[t.token].body, t.hide \cup {t.token})
           f == [top EXCEPT !.pending = b \o Tail(@)]
<1>1. At("object") /\ Run(f)
  BY DEF ReplaceObject
<1>2. /\ top \in Engines /\ top.call = NoCall /\ top.pending \in Pending
      /\ Tail(top.pending) \in Pending /\ t \in [token : Tokens, hide : SUBSET Names]
      /\ t.token \in Names /\ definitions[t.token].kind = "object" 
      /\ \A w \in Invalid : Queued(w, top.pending) => Queued(w, Tail(top.pending))
  <2>1. "object" # "none"
    OBVIOUS
  <2> QED BY <1>1, <2>1, AtFacts DEF Errors
<1>3. definitions[t.token].body \in Seq(Tokens)
  BY <1>2, Definitions
<1>4. b \in Pending
  BY <1>2, <1>3, HiddenFacts
<1> HIDE DEF b
<1>5. b \o Tail(top.pending) \in Pending
  BY <1>2, <1>4, ConcatProperties DEF Pending
<1>6. f \in Engines
  BY <1>2, <1>5 DEF Engines, Pending
<1>7. /\ f.pending = b \o Tail(top.pending) /\ f.inner = top.inner
      /\ f.replacements = top.replacements /\ f.call = NoCall
  BY <1>2 DEF Engines
<1> HIDE DEF f
<1>8. \A w : Queued(w, b \o Tail(top.pending)) <=> Queued(w, b) \/ Queued(w, Tail(top.pending))
  BY <1>2, <1>4, QueuedConcat DEF Pending
<1>9. \A w \in Invalid : Keeps(w, top) => Keeps(w, f)
  BY <1>2, <1>7, <1>8 DEF Keeps
<1> QED BY <1>1, <1>6, <1>7, <1>9, RunPreserves DEF Sound

LEMMA BeginCallPreserves == ASSUME IInv, BeginCall PROVE IInv'
<1> DEFINE t == Head(top.pending)
           c == [phase |-> "name", name |-> t.token, disabled |-> t.hide,
                 closing |-> {}, errors |-> << >>, args |-> << >>,
                 current |-> << >>, nesting |-> 1, omitted |-> FALSE,
                 at |-> 1, out |-> << >>]
           f == [top EXCEPT !.pending = Tail(@), !.call = c]
<1>1. At("function") /\ Run(f)
  BY DEF BeginCall
<1>2. /\ top \in Engines /\ top.call = NoCall /\ top.pending \in Pending
      /\ Tail(top.pending) \in Pending /\ t \in [token : Tokens, hide : SUBSET Names]
      /\ t.token \in Names /\ definitions[t.token].kind = "function" 
      /\ \A w \in Invalid : Queued(w, top.pending) => Queued(w, Tail(top.pending))
  <2>1. "function" # "none"
    OBVIOUS
  <2> QED BY <1>1, <2>1, AtFacts DEF Errors
<1>3. c \in Calls /\ c.name = t.token /\ c.phase = "name"
  BY <1>2 DEF Calls
<1>4. Fits(c)
  BY <1>2, <1>3 DEF Fits
<1> HIDE DEF c
<1>5. f \in Engines
  BY <1>2, <1>3 DEF Engines, Pending
<1>6. /\ f.pending = Tail(top.pending) /\ f.inner = top.inner
      /\ f.replacements = top.replacements /\ f.call = c
  BY <1>2 DEF Engines
<1> HIDE DEF f
<1>7. \A w \in Invalid : Keeps(w, top) => Keeps(w, f)
  BY <1>2, <1>6 DEF Keeps
<1> QED BY <1>1, <1>4, <1>5, <1>6, <1>7, RunPreserves DEF Sound

----------------------------------------------------------------------------
(* Reading the call.                                                        *)

(* After a token has been read that is not an error.                        *)
LEMMA AfterRead ==
    ASSUME IInv, call # NoCall, NextToken # EndOfFile
    PROVE  /\ NextToken \in Tokens
           /\ Read(top) \in Engines /\ Read(top).call \in Calls
           /\ Read(top).call.phase = call.phase /\ Read(top).call.name = call.name
           /\ Read(top).call.errors = call.errors /\ Read(top).call.args = call.args
           /\ Read(top).call.current = call.current /\ Read(top).call.nesting = call.nesting
           /\ call.phase # "body" => Fits(Read(top).call)
           /\ \A w : Keeps(w, top) => NextToken \in {w, Refused} \/ Keeps(w, Read(top))
           /\ NextToken \notin Errors => \A w \in Invalid : Keeps(w, top) => Keeps(w, Read(top))
<1>1. /\ top \in Engines /\ top.call \in Calls /\ call = top.call /\ Fits(call)
      /\ NextToken = NextIn(top) /\ (top.pending # << >> \/ top.inner # << >>)
  BY InCall
<1>2. /\ NextToken \in Tokens /\ Read(top) \in Engines /\ Read(top).call \in Calls
      /\ \A w : Keeps(w, top) => NextToken \in {w, Refused} \/ Keeps(w, Read(top))
  BY <1>1, ReadFacts
<1>3. /\ Read(top).call.phase = call.phase /\ Read(top).call.name = call.name
      /\ Read(top).call.errors = call.errors /\ Read(top).call.args = call.args
      /\ Read(top).call.current = call.current /\ Read(top).call.nesting = call.nesting
  BY <1>1, ReadKeepsCall
<1>4. call.phase # "body" => Fits(Read(top).call)
  BY <1>1, <1>3 DEF Fits
<1>5. NextToken \notin Errors => \A w \in Invalid : Keeps(w, top) => Keeps(w, Read(top))
  BY <1>2 DEF Errors
<1> QED BY <1>2, <1>3, <1>4, <1>5

LEMMA SkipErrorPreserves == ASSUME IInv, SkipError PROVE IInv'
<1> DEFINE e == Read(top)
           c == [e.call EXCEPT !.errors = Append(@, NextToken)]
<1>1. call # NoCall /\ call.phase # "body" /\ NextToken \in Errors /\ NextToken # EndOfFile
  BY ErrorsApart DEF SkipError, Calling
<1>2. e \in Engines /\ e.call \in Calls /\ Fits(e.call)
  BY <1>1, AfterRead
<1>3. Run([e EXCEPT !.call = c])
  BY <1>2 DEF SkipError, Engines
<1>4. \A w \in Invalid : Keeps(w, top) => Keeps(w, e) \/ NextToken \in {w, Refused}
  BY <1>1, AfterRead
<1> HIDE DEF e
<1>5. c \in Calls /\ c.errors = Append(e.call.errors, NextToken) /\ Fits(c)
  <2>1. Append(e.call.errors, NextToken) \in Seq(Errors)
    BY <1>1, <1>2, CallFields, AppendProperties
  <2>2. c \in Calls
    BY <1>2, <2>1 DEF Calls
  <2>3. /\ c.errors = Append(e.call.errors, NextToken) /\ c.name = e.call.name
        /\ c.phase = e.call.phase /\ c.args = e.call.args
    BY <1>2 DEF Calls
  <2>4. Fits(c)
    BY <1>2, <2>3 DEF Fits
  <2> QED BY <2>2, <2>3, <2>4
<1>6. \A w : Has(w, c.errors) <=> Has(w, e.call.errors) \/ NextToken \in {w, Refused}
  <2>1. e.call.errors \in Seq(Errors)
    BY <1>2, CallFields
  <2>2. \A w : Has(w, Append(e.call.errors, NextToken))
                <=> Has(w, e.call.errors) \/ NextToken \in {w, Refused}
    BY <2>1, HasAppend
  <2> QED BY <1>5, <2>2
<1> HIDE DEF c
<1> QED BY <1>2, <1>3, <1>4, <1>5, <1>6, CallPreserves

(* The parenthesis opens the arguments.                                     *)
LEMMA OpenedPreserves ==
    ASSUME IInv, NEW e \in Engines, e.call \in Calls, Fits(e.call), Run(Opened(e)),
           \A w \in Invalid : Keeps(w, top) => Keeps(w, e)
    PROVE  IInv'
<1> DEFINE c == [e.call EXCEPT !.phase = "arguments"]
<1>1. c \in Calls /\ c.errors = e.call.errors
  BY DEF Calls
<1>2. c.name = e.call.name /\ c.phase = "arguments"
  BY DEF Calls
<1>3. Fits(c)
  BY <1>2 DEF Fits
<1>4. Opened(e) = [e EXCEPT !.call = c]
  BY DEF Opened, Engines
<1> HIDE DEF c
<1> QED BY <1>1, <1>3, <1>4, CallPreserves

LEMMA OpenPreserves == ASSUME IInv, Open PROVE IInv'
<1>1. call # NoCall /\ call.phase # "body" /\ NextToken = "("
  BY DEF Open, Calling
<1>2. NextToken # EndOfFile /\ NextToken \notin Errors
  BY <1>1, ErrorsApart DEF EndOfFile
<1>3. /\ Read(top) \in Engines /\ Read(top).call \in Calls /\ Fits(Read(top).call)
      /\ \A w \in Invalid : Keeps(w, top) => Keeps(w, Read(top))
  BY <1>1, <1>2, AfterRead
<1>4. Run(Opened(Read(top)))
  BY DEF Open
<1> QED BY <1>3, <1>4, OpenedPreserves

(* The errors of the call come before what it gives.                        *)
LEMMA ErrorsFirst ==
    ASSUME NEW c \in Calls, NEW tokens \in Seq(Tokens)
    PROVE  /\ c.errors \o tokens \in Seq(Tokens)
           /\ \A w : Has(w, c.errors) => Has(w, c.errors \o tokens)
  BY CallFields, HasConcat, ConcatProperties

LEMMA OpenAfterSpacePreserves == ASSUME IInv, OpenAfterSpace PROVE IInv'
<1> DEFINE e == Read(top)
<1>1. call # NoCall /\ call.phase # "body" /\ NextToken = Space
  BY DEF OpenAfterSpace, Calling
<1>2. NextToken # EndOfFile /\ NextToken \notin Errors
  BY <1>1, ErrorsApart DEF EndOfFile, Space
<1>3. /\ e \in Engines /\ e.call \in Calls /\ Fits(e.call) /\ e.call.errors = call.errors
      /\ NextToken \in Tokens /\ e.call.phase # "body" /\ (\A w \in Invalid : Keeps(w, top) => Keeps(w, e))
  BY <1>1, <1>2, AfterRead
<1>4. IF NextIn(e) = "(" THEN Run(Opened(Read(e)))
      ELSE Reply(e, call.errors \o <<call.name, Space>>)
  BY DEF OpenAfterSpace, NextIn
<1> HIDE DEF e
<1>5. CASE NextIn(e) = "("
  <2>1. e.pending # << >> \/ e.inner # << >>
    BY <1>5 DEF NextIn, EndOfFile
  <2>2. /\ Read(e) \in Engines /\ Read(e).call \in Calls
        /\ \A w : Keeps(w, e) => NextIn(e) \in {w, Refused} \/ Keeps(w, Read(e))
    BY <1>3, <2>1, ReadFacts
  <2>3. Read(e).call.name = e.call.name /\ Read(e).call.phase = e.call.phase
    BY <1>3, <2>1, ReadKeepsCall
  <2>4. Fits(Read(e).call)
    BY <1>3, <2>3 DEF Fits
  <2>5. NextIn(e) \notin Errors
    BY <1>5, ErrorsApart
  <2>6. \A w \in Invalid : Keeps(w, top) => Keeps(w, Read(e))
    BY <1>3, <2>2, <2>5 DEF Errors
  <2> QED BY <1>4, <1>5, <2>2, <2>4, <2>6, OpenedPreserves
<1>6. CASE NextIn(e) # "("
  <2> DEFINE two == <<call.name, Space>>
  <2>1. call.name \in Tokens /\ Space \in Tokens /\ call \in Calls
    BY <1>1, InCall, CallFields DEF Tokens, Valid
  <2>2. two \in Seq(Tokens)
    BY <2>1, Pair
  <2>3. Reply(e, call.errors \o two)
    BY <1>4, <1>6
  <2> HIDE DEF two
  <2> QED BY <1>3, <2>1, <2>2, <2>3, ErrorsFirst, ReplyPreserves
<1> QED BY <1>5, <1>6

LEMMA NotACallPreserves == ASSUME IInv, NotACall PROVE IInv'
<1>1. call # NoCall /\ call.phase # "body" /\ NextToken \notin Errors
  BY DEF NotACall, Calling
<1>2. top \in Engines /\ top.call \in Calls /\ call = top.call /\ call.name \in Tokens
  <2>1. top \in Engines /\ top.call \in Calls /\ call = top.call
    BY <1>1, InCall
  <2> QED BY <2>1, CallFields DEF Tokens, Valid
<1>3. CASE NextToken = EndOfFile
  <2>1. Reply(top, Append(call.errors, call.name))
    BY <1>3 DEF NotACall
  <2>2. Append(call.errors, call.name) \in Seq(Tokens)
    BY <1>2, CallFields, AppendProperties
  <2>3. \A w : Has(w, call.errors) => Has(w, Append(call.errors, call.name))
    BY <1>2, CallFields, HasAppend
  <2> QED BY <1>2, <2>1, <2>2, <2>3, ReplyPreserves
<1>4. CASE NextToken # EndOfFile
  <2> DEFINE two == <<call.name, NextToken>>
             e == Read(top)
  <2>1. /\ e \in Engines /\ e.call \in Calls /\ e.call.errors = call.errors
        /\ NextToken \in Tokens /\ (\A w \in Invalid : Keeps(w, top) => Keeps(w, e))
    BY <1>1, <1>4, AfterRead
  <2>2. two \in Seq(Tokens)
    BY <1>2, <2>1, Pair
  <2>3. Reply(e, call.errors \o two)
    BY <1>4 DEF NotACall
  <2> HIDE DEF two, e
  <2> QED BY <1>2, <2>1, <2>2, <2>3, ErrorsFirst, ReplyPreserves
<1> QED BY <1>3, <1>4

LEMMA CollectedFacts ==
    ASSUME NEW m, NEW args \in Seq(Seq(Tokens)), m.params \in Seq(Names), m.variadic \in BOOLEAN,
           m.variadic => m.params # << >>, MatchesParameters(m, args)
    PROVE  Collected(m, args) \in Seq(Seq(Tokens)) /\ Len(m.params) <= Len(Collected(m, args))
<1>1. CASE ~ m.variadic
  <2>1. Len(m.params) <= Len(args)
    BY <1>1 DEF MatchesParameters
  <2> QED BY <1>1, <2>1 DEF Collected
<1>2. CASE m.variadic
  <2> DEFINE fixed == Len(m.params) - 1
             first == SubSeq(args, 1, fixed)
             others == SubSeq(args, fixed + 1, Len(args))
  <2>1. fixed \in Nat /\ Len(m.params) = fixed + 1 /\ Len(args) \in Nat /\ fixed <= Len(args)
    <3>1. Len(m.params) \in Nat /\ Len(m.params) # 0
      BY <1>2
    <3>2. Len(args) >= fixed
      BY <1>2 DEF MatchesParameters
    <3> QED BY <3>1, <3>2
  <2>2. Collected(m, args) = Append(first, WithCommas(others))
    BY <1>2 DEF Collected
  <2> HIDE DEF fixed
  <2>3. first \in Seq(Seq(Tokens)) /\ Len(first) = fixed /\ others \in Seq(Seq(Tokens))
    BY <2>1
  <2>4. WithCommas(others) \in Seq(Tokens)
    <3> HIDE DEF others
    <3> QED BY <2>3, WithCommasType
  <2> HIDE DEF first, others
  <2> QED BY <2>1, <2>2, <2>3, <2>4, AppendProperties
<1> QED BY <1>1, <1>2

LEMMA EndArgumentPreserves == ASSUME IInv, EndArgument PROVE IInv'
<1> DEFINE m    == definitions[call.name]
           e    == Read(top)
           args == Append(call.args, Stripped(call.current))
<1>1. /\ call # NoCall /\ call.phase = "arguments" /\ NextToken \in {",", ")"}
      /\ IF StripPanics(call.current)
         THEN panicked' = TRUE /\ UNCHANGED <<definitions, text, stack>>
         ELSE IF NextToken = ","
         THEN Run([e EXCEPT !.call.args = args, !.call.current = << >>])
         ELSE IF MatchesParameters(m, args)
         THEN Run([e EXCEPT !.call.args = Collected(m, args), !.call.phase = "body",
                            !.call.omitted = m.variadic /\ Len(args) < Len(m.params)])
         ELSE Reply(e, <<Refused>>)
  BY DEF EndArgument, Calling
<1>2. NextToken # EndOfFile /\ NextToken \notin Errors
  BY <1>1, ErrorsApart DEF EndOfFile
<1>3. call \in Calls /\ Fits(call)
  BY <1>1, InCall
<1>4. /\ e \in Engines /\ e.call \in Calls /\ e.call.errors = call.errors /\ Fits(e.call)
      /\ e.call.name = call.name /\ e.call.phase = "arguments" /\ (\A w \in Invalid : Keeps(w, top) => Keeps(w, e))
  BY <1>1, <1>2, AfterRead
<1>5. args \in Seq(Seq(Tokens))
  <2>1. Stripped(call.current) \in Seq(Tokens)
    BY <1>3, CallFields, StrippedType
  <2> QED BY <1>3, <2>1, CallFields, AppendProperties
<1>6. /\ m.kind = "function" /\ m.params \in Seq(Names) /\ m.variadic \in BOOLEAN
      /\ m.variadic => m.params # << >>
  <2>1. m.kind = "function" /\ call.name \in Names
    BY <1>3, CallFields DEF Fits
  <2> QED BY <2>1, Definitions
<1> HIDE DEF e, args, m
<1>7. CASE StripPanics(call.current)
  BY <1>1, <1>7 DEF IInv, TypeOK, Sound, Fits, Has, Keeps, Queued
<1>8. CASE ~ StripPanics(call.current) /\ NextToken = ","
  <2> DEFINE c == [e.call EXCEPT !.args = args, !.current = << >>]
  <2>1. Run([e EXCEPT !.call = c])
    <3>1. Run([e EXCEPT !.call.args = args, !.call.current = << >>])
      BY <1>1, <1>8
    <3>2. [e EXCEPT !.call.args = args, !.call.current = << >>] = [e EXCEPT !.call = c]
      BY <1>4 DEF Engines
    <3> QED BY <3>1, <3>2
  <2>2. c \in Calls /\ c.errors = e.call.errors
    <3>1. \A none \in Seq(Tokens) : [e.call EXCEPT !.args = args, !.current = none] \in Calls
      BY <1>4, <1>5 DEF Calls
    <3>2. << >> \in Seq(Tokens)
      OBVIOUS
    <3>3. c.errors = e.call.errors
      BY <1>4 DEF Calls
    <3> QED BY <3>1, <3>2, <3>3
  <2>3. c.name = e.call.name /\ c.phase = "arguments"
    BY <1>4 DEF Calls
  <2>4. Fits(c)
    BY <1>4, <2>3 DEF Fits
  <2> HIDE DEF c
  <2> QED BY <1>4, <2>1, <2>2, <2>4, CallPreserves
<1>9. CASE ~ StripPanics(call.current) /\ NextToken # "," /\ MatchesParameters(m, args)
  <2> DEFINE collected == Collected(m, args)
             omitted == m.variadic /\ Len(args) < Len(m.params)
             c == [e.call EXCEPT !.args = collected, !.phase = "body", !.omitted = omitted]
  <2>1. collected \in Seq(Seq(Tokens)) /\ Len(m.params) <= Len(collected)
    BY <1>5, <1>6, <1>9, CollectedFacts
  <2>2. omitted \in BOOLEAN
    BY <1>6
  <2>3. Run([e EXCEPT !.call.args = collected, !.call.phase = "body", !.call.omitted = omitted])
    BY <1>1, <1>9
  <2> HIDE DEF collected, omitted
  <2>4. [e EXCEPT !.call.args = collected, !.call.phase = "body", !.call.omitted = omitted]
        = [e EXCEPT !.call = c]
    BY <1>4 DEF Engines
  <2>5. c \in Calls /\ c.errors = e.call.errors
    BY <1>4, <2>1, <2>2 DEF Calls
  <2>6. c.name = e.call.name /\ c.args = collected
    BY <1>4 DEF Calls
  <2>7. Fits(c)
    BY <1>4, <1>6, <2>1, <2>6 DEF Fits, m
  <2>8. Run([e EXCEPT !.call = c])
    BY <2>3, <2>4
  <2> HIDE DEF c
  <2> QED BY <1>4, <2>5, <2>7, <2>8, CallPreserves
<1>10. CASE ~ StripPanics(call.current) /\ NextToken # "," /\ ~ MatchesParameters(m, args)
  <2>1. Reply(e, <<Refused>>)
    BY <1>1, <1>10
  <2> QED BY <1>4, <2>1, HasRefused, ReplyPreserves
<1> QED BY <1>7, <1>8, <1>9, <1>10

LEMMA ReadArgumentPreserves == ASSUME IInv, ReadArgument PROVE IInv'
<1> DEFINE e == Read(top)
           depth == call.nesting + (CASE NextToken = "(" -> 1 [] NextToken = ")" -> -1 [] OTHER -> 0)
           c == [e.call EXCEPT !.current = Append(@, NextToken),
                    !.nesting = @ + (CASE NextToken = "(" -> 1 [] NextToken = ")" -> -1 [] OTHER -> 0)]
<1>1. /\ call # NoCall /\ call.phase = "arguments" /\ NextToken # EndOfFile /\ NextToken \notin Errors
      /\ NextToken = ")" => call.nesting # 1
  BY DEF ReadArgument, Calling
<1>2. /\ e \in Engines /\ e.call \in Calls /\ e.call.errors = call.errors /\ Fits(e.call)
      /\ e.call.nesting = call.nesting /\ e.call.current = call.current /\ NextToken \in Tokens
      /\ e.call.phase = "arguments" /\ (\A w \in Invalid : Keeps(w, top) => Keeps(w, e))
  BY <1>1, AfterRead
<1>3. depth \in Nat \ {0}
  <2>1. call.nesting \in Nat \ {0}
    BY <1>1, InCall, CallFields
  <2>2. CASE NextToken = "("
    BY <2>1, <2>2
  <2>3. CASE NextToken = ")"
    BY <1>1, <2>1, <2>3
  <2>4. CASE NextToken # "(" /\ NextToken # ")"
    BY <2>1, <2>4
  <2> QED BY <2>2, <2>3, <2>4
<1>4. Append(e.call.current, NextToken) \in Seq(Tokens)
  BY <1>2, CallFields, AppendProperties
<1>5. Run([e EXCEPT !.call = c])
  BY <1>2 DEF ReadArgument, Engines
<1>6. c = [e.call EXCEPT !.current = Append(e.call.current, NextToken), !.nesting = depth]
  BY <1>2 DEF Calls
<1> HIDE DEF e, c, depth
<1>7. c \in Calls /\ c.errors = e.call.errors
  BY <1>2, <1>3, <1>4, <1>6 DEF Calls
<1>8. c.name = e.call.name /\ c.phase = "arguments"
  BY <1>2, <1>6 DEF Calls
<1>9. Fits(c)
  BY <1>2, <1>8 DEF Fits
<1> QED BY <1>2, <1>5, <1>7, <1>9, CallPreserves

LEMMA UnterminatedPreserves == ASSUME IInv, Unterminated PROVE IInv'
<1>1. call # NoCall /\ Reply(top, call.errors)
  BY DEF Unterminated, Calling
<1>2. top \in Engines /\ top.call \in Calls /\ call = top.call
  BY <1>1, InCall
<1>3. call.errors \in Seq(Tokens)
  BY <1>2, CallFields
<1> QED BY <1>1, <1>2, <1>3, ReplyPreserves

----------------------------------------------------------------------------
(* Substituting in the body.                                                *)

LEMMA InBody ==
    ASSUME IInv, Calling("body")
    PROVE  /\ top \in Engines /\ top.call \in Calls /\ call = top.call /\ Fits(call)
           /\ call.phase = "body" /\ call.at \in Nat \ {0} /\ call.out \in Seq(Tokens)
           /\ body \in Seq(Tokens) /\ macro.params \in Seq(Names) /\ macro.variadic \in BOOLEAN
           /\ call.args \in Seq(Seq(Tokens)) /\ Len(macro.params) <= Len(call.args)
<1>1. call # NoCall /\ call.phase = "body"
  BY DEF Calling
<1>2. top \in Engines /\ top.call \in Calls /\ call = top.call /\ Fits(call)
  BY <1>1, InCall
<1>3. /\ call.name \in Names /\ call.at \in Nat \ {0} /\ call.out \in Seq(Tokens)
      /\ call.args \in Seq(Seq(Tokens))
  BY <1>2, CallFields
<1>4. macro.kind = "function" /\ Len(macro.params) <= Len(call.args)
  BY <1>1, <1>2 DEF Fits, macro
<1>5. macro.body \in Seq(Tokens) /\ macro.params \in Seq(Names) /\ macro.variadic \in BOOLEAN
  BY <1>3, <1>4, Definitions DEF macro
<1> QED BY <1>1, <1>2, <1>3, <1>4, <1>5 DEF body

LEMMA OperandType ==
    ASSUME IInv, Calling("body"), NEW t \in Tokens
    PROVE  Operand(t) \in Seq(Tokens)
<1>1. /\ macro.params \in Seq(Names) /\ call.args \in Seq(Seq(Tokens))
      /\ Len(macro.params) <= Len(call.args)
  BY InBody
<1>2. CASE IsParameter(macro, t)
  <2> DEFINE Named(i) == macro.params[i] = t
             i == CHOOSE j \in DOMAIN macro.params : Named(j)
  <2>1. \E j \in DOMAIN macro.params : Named(j)
    BY <1>2 DEF IsParameter, Range
  <2>2. i \in DOMAIN macro.params
    <3> HIDE DEF Named
    <3> QED BY <2>1
  <2>3. Position(macro, t) = i
    BY DEF Position
  <2> HIDE DEF i
  <2>4. i \in 1..Len(call.args)
    BY <1>1, <2>2
  <2>5. call.args[i] \in Seq(Tokens)
    BY <1>1, <2>4
  <2> QED BY <1>2, <2>3, <2>5 DEF Operand
<1>3. CASE ~ IsParameter(macro, t)
  BY <1>3, Singleton DEF Operand
<1> QED BY <1>2, <1>3

LEMMA EmitPreserves ==
    ASSUME IInv, Calling("body"), NEW at \in Nat \ {0}, NEW kept \in Seq(Tokens),
           NEW tokens \in Seq(Tokens), Emit(at, kept, tokens)
    PROVE  IInv'
<1> DEFINE out == kept \o tokens
           c == [call EXCEPT !.at = at, !.out = out]
<1>1. top \in Engines /\ top.call \in Calls /\ call = top.call /\ Fits(call)
  BY InBody
<1>2. out \in Seq(Tokens)
  BY ConcatProperties
<1>3. Run([top EXCEPT !.call.at = at, !.call.out = out])
  BY DEF Emit
<1> HIDE DEF out
<1>4. [top EXCEPT !.call.at = at, !.call.out = out] = [top EXCEPT !.call = c]
  BY <1>1 DEF Engines
<1>5. Run([top EXCEPT !.call = c])
  BY <1>3, <1>4
<1>6. c \in Calls /\ c.errors = call.errors
  BY <1>1, <1>2 DEF Calls
<1>7. c.name = call.name /\ c.phase = call.phase /\ c.args = call.args
  BY <1>1 DEF Calls
<1>8. Fits(c)
  BY <1>1, <1>7 DEF Fits
<1> HIDE DEF c
<1> QED BY <1>1, <1>5, <1>6, <1>8, CallPreserves

LEMMA HashErrorPreserves == ASSUME IInv, Calling("body"), HashError PROVE IInv'
<1>1. top \in Engines /\ top.call \in Calls
  BY InBody
<1>2. Reply(top, <<Refused>>)
  BY DEF HashError
<1> QED BY <1>1, <1>2, HasRefused, ReplyPreserves

(* What is at, and behind, a token of the body.                             *)
LEMMA SolidInBody ==
    ASSUME IInv, Calling("body"), NEW i \in 1..Len(body)
    PROVE  /\ Len(body) \in Nat /\ DOMAIN body = 1..Len(body) /\ body[i] \in Tokens
           /\ Solid(body, i + 1) \in (i + 1)..(Len(body) + 1)
           /\ Solid(body, i + 1) \in Nat \ {0}
<1>1. body \in Seq(Tokens)
  BY InBody
<1>2. Len(body) \in Nat /\ DOMAIN body = 1..Len(body) /\ body[i] \in Tokens
  BY <1>1
<1>3. i + 1 \in 1..(Len(body) + 1)
  BY <1>2
<1>4. Solid(body, i + 1) \in (i + 1)..(Len(body) + 1)
  BY <1>1, <1>3, SolidFacts
<1>5. Solid(body, i + 1) \in Nat \ {0}
  BY <1>2, <1>4
<1> QED BY <1>2, <1>4, <1>5

LEMMA SubstitutingFacts ==
    ASSUME IInv, Substituting
    PROVE  Calling("body") /\ call.at \in 1..Len(body) /\ body[call.at] \in Tokens
<1>1. Calling("body") /\ call.at <= Len(body)
  BY DEF Substituting
<1>2. call.at \in Nat \ {0} /\ body \in Seq(Tokens)
  BY <1>1, InBody
<1>3. Len(body) \in Nat
  BY <1>2
<1>4. call.at \in 1..Len(body)
  BY <1>1, <1>2, <1>3
<1> QED BY <1>1, <1>2, <1>4

LEMMA PastePreserves == ASSUME IInv, Paste PROVE IInv'
<1> DEFINE right   == Solid(body, Solid(body, call.at + 1) + 1)
           left    == TrimmedRight(call.out)
           operand == Operand(body[right])
           joined  == PastedAll(Last(left), operand)
           chained == Solid(body, right + 1)
<1>1. /\ Substituting /\ IsPaste(call.at)
      /\ IF right > Len(body) THEN HashError
         ELSE IF macro.variadic /\ body[right] = Last(macro.params) /\ IsAt(left, Len(left), ",")
         THEN Emit(right + 1, IF call.omitted THEN Front(left) ELSE left, operand)
         ELSE IF operand = << >> THEN Emit(right + 1, left, << >>)
         ELSE IF left = << >> THEN HashError
         ELSE IF joined = Refused THEN HashError
         ELSE Emit(IF IsAt(body, chained, "#") THEN chained ELSE right + 1, Front(left), <<joined>>)
  BY DEF Paste
<1>2. Calling("body") /\ call.at \in 1..Len(body)
  BY <1>1, SubstitutingFacts
<1>3. DOMAIN body = 1..Len(body) /\ Len(body) \in Nat
  BY <1>2, SolidInBody
<1>4. Solid(body, call.at + 1) \in 1..Len(body)
  BY <1>1, <1>3 DEF IsPaste, IsAt
<1>5. right \in Nat \ {0}
  BY <1>2, <1>4, SolidInBody
<1>6. left \in Seq(Tokens)
  BY <1>2, InBody, TrimmedRightType
<1>7. ~ (right > Len(body)) => right \in 1..Len(body)
  BY <1>3, <1>5
<1>8. ~ (right > Len(body)) => operand \in Seq(Tokens)
  BY <1>2, <1>7, SolidInBody, OperandType
<1>9. ~ (right > Len(body)) => chained \in Nat \ {0}
  BY <1>2, <1>7, SolidInBody
<1>10. right + 1 \in Nat \ {0} /\ << >> \in Seq(Tokens)
  BY <1>5
<1>11. left # << >> => Front(left) \in Seq(Tokens) /\ Last(left) \in Tokens
  BY <1>6, FrontAndLast
<1>12. ~ (right > Len(body)) /\ left # << >> => joined \in Tokens
  BY <1>8, <1>11, PastedAllType
<1> HIDE DEF right, left, operand, joined, chained
<1>13. CASE HashError
  BY <1>2, <1>13, HashErrorPreserves
<1>14. CASE ~ (right > Len(body)) /\ IsAt(left, Len(left), ",")
            /\ Emit(right + 1, IF call.omitted THEN Front(left) ELSE left, operand)
  <2> DEFINE kept == IF call.omitted THEN Front(left) ELSE left
  <2>1. left # << >>
    <3>1. Len(left) \in DOMAIN left
      BY <1>14 DEF IsAt
    <3>2. DOMAIN left = 1..Len(left) /\ Len(left) \in Nat
      BY <1>6
    <3>3. Len(left) # 0
      BY <3>1, <3>2
    <3> QED BY <3>3
  <2>2. kept \in Seq(Tokens)
    BY <1>6, <1>11, <2>1
  <2>3. Emit(right + 1, kept, operand)
    BY <1>14
  <2> HIDE DEF kept
  <2> QED BY <1>2, <1>8, <1>10, <1>14, <2>2, <2>3, EmitPreserves
<1>15. CASE Emit(right + 1, left, << >>)
  BY <1>2, <1>6, <1>10, <1>15, EmitPreserves
<1>16. CASE /\ ~ (right > Len(body)) /\ left # << >>
            /\ Emit(IF IsAt(body, chained, "#") THEN chained ELSE right + 1, Front(left), <<joined>>)
  <2> DEFINE at == IF IsAt(body, chained, "#") THEN chained ELSE right + 1
             one == <<joined>>
  <2>1. at \in Nat \ {0}
    BY <1>9, <1>10, <1>16
  <2>2. one \in Seq(Tokens)
    BY <1>12, <1>16, Singleton
  <2>3. Emit(at, Front(left), one)
    BY <1>16
  <2> HIDE DEF at, one
  <2> QED BY <1>2, <1>11, <1>16, <2>1, <2>2, <2>3, EmitPreserves
<1> QED BY <1>1, <1>13, <1>14, <1>15, <1>16

LEMMA StringifyPreserves == ASSUME IInv, Stringify PROVE IInv'
<1> DEFINE parameter == Solid(body, call.at + 1)
           one == <<"string">>
<1>1. /\ Substituting
      /\ HashError \/ Emit(parameter + 1, call.out, one)
  BY DEF Stringify
<1>2. Calling("body") /\ call.at \in 1..Len(body)
  BY <1>1, SubstitutingFacts
<1>3. parameter \in Nat \ {0}
  BY <1>2, SolidInBody
<1>4. one \in Seq(Tokens)
  <2>1. "string" \in Tokens
    BY DEF Tokens, Valid
  <2> QED BY <2>1, Singleton
<1>5. call.out \in Seq(Tokens)
  BY <1>2, InBody
<1> HIDE DEF parameter, one
<1>6. parameter + 1 \in Nat \ {0}
  BY <1>3
<1> QED BY <1>1, <1>2, <1>4, <1>5, <1>6, HashErrorPreserves, EmitPreserves

LEMMA CopyPreserves == ASSUME IInv, Copy PROVE IInv'
<1> DEFINE here == body[call.at]
           next == Solid(body, call.at + 1)
<1>1. /\ Substituting
      /\ \/ Emit(next, TrimmedRight(call.out \o Operand(here)), << >>)
         \/ Emit(call.at + 1, call.out, <<here>>)
  BY DEF Copy
<1>2. Calling("body") /\ call.at \in 1..Len(body) /\ here \in Tokens
  BY <1>1, SubstitutingFacts
<1>3. call.out \in Seq(Tokens) /\ call.at + 1 \in Nat \ {0}
  BY <1>2, InBody
<1>4. next \in Nat \ {0}
  BY <1>2, SolidInBody
<1>5. Operand(here) \in Seq(Tokens)
  BY <1>2, OperandType
<1>6. TrimmedRight(call.out \o Operand(here)) \in Seq(Tokens)
  <2>1. call.out \o Operand(here) \in Seq(Tokens)
    BY <1>3, <1>5, ConcatProperties
  <2> QED BY <2>1, TrimmedRightType
<1>7. <<here>> \in Seq(Tokens) /\ << >> \in Seq(Tokens)
  BY <1>2, Singleton
<1> HIDE DEF here, next
<1>8. CASE Emit(next, TrimmedRight(call.out \o Operand(here)), << >>)
  BY <1>2, <1>4, <1>6, <1>7, <1>8, EmitPreserves
<1>9. CASE Emit(call.at + 1, call.out, <<here>>)
  <2> DEFINE one == <<here>>
  <2>1. one \in Seq(Tokens) /\ Emit(call.at + 1, call.out, one)
    BY <1>7, <1>9
  <2> HIDE DEF one
  <2> QED BY <1>2, <1>3, <2>1, EmitPreserves
<1> QED BY <1>1, <1>8, <1>9

LEMMA EndCallPreserves == ASSUME IInv, EndCall PROVE IInv'
<1>1. Calling("body") /\ Reply(top, call.errors \o call.out)
  BY DEF EndCall
<1>2. top \in Engines /\ top.call \in Calls /\ call = top.call /\ call.out \in Seq(Tokens)
  BY <1>1, InBody
<1> QED BY <1>1, <1>2, ErrorsFirst, ReplyPreserves

----------------------------------------------------------------------------
(* Nested engines.                                                          *)

LEMMA NewEngine ==
    ASSUME NEW tokens \in Seq(Tokens), NEW disabled \in SUBSET Names
    PROVE  LET e == Engine(tokens, disabled)
           IN  Sound(e) /\ e.call = NoCall /\ e.inner = tokens
<1> DEFINE e == Engine(tokens, disabled)
<1>1. \A q \in Pending, r \in Seq(Tokens) :
         [pending |-> q, inner |-> tokens, disabled |-> disabled, replacements |-> r, call |-> NoCall]
         \in Engines
  BY DEF Engines, Pending
<1>2. << >> \in Pending /\ << >> \in Seq(Tokens)
  BY DEF Pending
<1>3. e \in Engines
  BY <1>1, <1>2 DEF Engine
<1>4. e.call = NoCall /\ e.inner = tokens
  BY DEF Engine
<1> QED BY <1>3, <1>4 DEF Sound

LEMMA PrescanPreserves == ASSUME IInv, Prescan PROVE IInv'
<1> DEFINE f == Engine(Operand(body[call.at]), call.disabled)
<1>1. /\ Substituting /\ stack' = Append(stack, f)
      /\ definitions' = definitions /\ text' = text /\ panicked' = panicked
  BY DEF Prescan
<1>2. Calling("body") /\ body[call.at] \in Tokens
  BY <1>1, SubstitutingFacts
<1>3. top.call \in Calls /\ call = top.call /\ call.phase = "body" /\ call # NoCall
  BY <1>2, InBody, CallFields
<1>4. Sound(f) /\ f.call = NoCall
  BY <1>2, <1>3, OperandType, CallFields, NewEngine
<1>5. PICK n \in Nat \ {0} :
            n = Len(stack) /\ DOMAIN stack = 1..n /\ stack \in Seq(Engines) /\ top = stack[n]
  BY TopFacts
<1> HIDE DEF f
<1>6. /\ stack' \in Seq(Engines) /\ Len(stack') = n + 1 /\ DOMAIN stack' = 1..(n + 1)
      /\ stack'[n + 1] = f /\ \A i \in 1..n : stack'[i] = stack[i]
  <2>1. f \in Engines
    BY <1>4 DEF Sound
  <2> QED BY <1>1, <1>5, <2>1, AppendProperties
<1>7. \A i \in 1..n : stack'[i].call # NoCall /\ stack'[i].call.phase = "body"
  <2>1. \A i \in 1..n : i = n \/ i \in 1..(n - 1)
    BY <1>5
  <2>2. \A i \in 1..(n - 1) : stack[i].call # NoCall /\ stack[i].call.phase = "body"
    BY <1>5 DEF IInv
  <2> QED BY <1>3, <1>5, <1>6, <2>1, <2>2
<1>8. Len(stack') - 1 = n /\ stack' # << >>
  BY <1>5, <1>6
<1>9. TypeOK'
  <2>1. TypeOK
    BY DEF IInv
  <2> QED BY <1>1, <1>6, <1>7, <1>8, <2>1 DEF TypeOK
<1>10. (\A i \in DOMAIN stack : Sound(stack[i]))'
  <2>1. \A i \in 1..n : Sound(stack[i])
    BY <1>5 DEF IInv
  <2>2. \A i \in 1..(n + 1) : i = n + 1 \/ i \in 1..n
    BY <1>5
  <2> QED BY <1>1, <1>4, <1>6, <2>1, <2>2 DEF Sound, Fits
<1>11. (\A w \in Invalid : Has(w, text) => Keeps(w, stack[1]))'
  <2>1. stack'[1] = stack[1]
    BY <1>5, <1>6
  <2>2. \A w \in Invalid : Has(w, text) => Keeps(w, stack[1])
    BY DEF IInv
  <2> QED BY <1>1, <2>1, <2>2 DEF Has, Keeps, Queued
<1> QED BY <1>7, <1>8, <1>9, <1>10, <1>11 DEF IInv

LEMMA PrescannedPreserves == ASSUME IInv, Prescanned PROVE IInv'
<1> DEFINE outer == stack[Len(stack) - 1]
           out == outer.call.out \o Sifted(top.replacements, FALSE)
           errors == outer.call.errors \o Sifted(top.replacements, TRUE)
           c == [outer.call EXCEPT !.at = @ + 1, !.out = out, !.errors = errors]
           f == [outer EXCEPT !.call = c]
           front == Front(Front(stack))
<1>1. PICK n \in Nat \ {0} :
            n = Len(stack) /\ DOMAIN stack = 1..n /\ stack \in Seq(Engines) /\ top = stack[n]
  BY TopFacts
<1>2. n > 1 /\ definitions' = definitions /\ text' = text /\ panicked' = panicked
  BY <1>1 DEF Prescanned
<1>3. n - 1 \in 1..n /\ n - 1 \in 1..(n - 1)
  BY <1>1, <1>2
<1>4. /\ outer \in Engines /\ outer.call \in Calls /\ Fits(outer.call)
      /\ outer.call.phase = "body" /\ outer = stack[n - 1]
  <2>1. Sound(stack[n - 1]) /\ stack[n - 1].call # NoCall /\ stack[n - 1].call.phase = "body"
    BY <1>1, <1>3 DEF IInv
  <2>2. outer = stack[n - 1]
    BY <1>1
  <2> QED BY <2>1, <2>2, EngineFields DEF Sound
<1>5. stack' = Append(front, f)
  BY <1>4 DEF Prescanned, Engines, Calls
<1>6. /\ out \in Seq(Tokens) /\ errors \in Seq(Errors) 
      /\ \A w : Has(w, outer.call.errors) => Has(w, errors)
  <2> DEFINE kept == Sifted(top.replacements, FALSE)
             found == Sifted(top.replacements, TRUE)
  <2>1. kept \in Seq(Tokens) /\ found \in Seq(Errors)
    BY TopFacts, EngineFields, SiftedType
  <2>2. outer.call.out \in Seq(Tokens) /\ outer.call.errors \in Seq(Errors)
    BY <1>4, CallFields
  <2> HIDE DEF kept, found, outer
  <2>3. outer.call.out \o kept \in Seq(Tokens) /\ outer.call.errors \o found \in Seq(Errors)
    BY <2>1, <2>2, ConcatProperties
  <2>4. \A w : Has(w, outer.call.errors) => Has(w, outer.call.errors \o found)
    BY <2>1, <2>2, HasConcat
  <2> QED BY <2>3, <2>4 DEF kept, found
<1> HIDE DEF outer, out, errors
<1>7. c \in Calls
  <2>1. outer.call.at + 1 \in Nat \ {0}
    BY <1>4, CallFields
  <2> QED BY <1>4, <1>6, <2>1 DEF Calls
<1>8. c.name = outer.call.name /\ c.phase = "body" /\ c.args = outer.call.args /\ c.errors = errors
  BY <1>4 DEF Calls
<1>9. Fits(c) /\ c # NoCall
  BY <1>4, <1>7, <1>8, CallFields DEF Fits
<1> HIDE DEF c
<1>10. /\ f \in Engines /\ f.call = c /\ f.pending = outer.pending /\ f.inner = outer.inner
       /\ f.replacements = outer.replacements
  BY <1>4, <1>7 DEF Engines
<1> HIDE DEF f
<1>11. \A w \in Invalid : Keeps(w, outer) => Keeps(w, f)
  BY <1>6, <1>8, <1>9, <1>10 DEF Keeps
<1>12. /\ front \in Seq(Engines) /\ Len(front) = n - 2 /\ DOMAIN front = 1..(n - 2)
       /\ \A i \in 1..(n - 2) : front[i] = stack[i]
  <2> DEFINE once == SubSeq(stack, 1, n - 1)
  <2>1. /\ once \in Seq(Engines) /\ Len(once) = n - 1 /\ DOMAIN once = 1..(n - 1)
        /\ \A i \in 1..(n - 1) : once[i] = stack[i]
    BY <1>1, SubSeqProperties
  <2>2. Front(stack) = once
    BY <1>1 DEF Front
  <2> HIDE DEF once
  <2>3. front = SubSeq(once, 1, n - 1 - 1)
    BY <2>1, <2>2 DEF Front
  <2>4. n - 1 - 1 = n - 2 /\ n - 2 \in Nat /\ \A i \in 1..(n - 2) : i \in 1..(n - 1)
    BY <1>1, <1>2
  <2> QED BY <2>1, <2>3, <2>4, SubSeqProperties
<1> HIDE DEF front
<1>13. /\ stack' \in Seq(Engines) /\ Len(stack') = n - 1 /\ DOMAIN stack' = 1..(n - 1)
       /\ \A i \in 1..(n - 1) : stack'[i] = IF i = n - 1 THEN f ELSE stack[i]
  <2>1. /\ stack' \in Seq(Engines) /\ Len(stack') = n - 2 + 1 /\ DOMAIN stack' = 1..(n - 2 + 1)
        /\ stack'[n - 2 + 1] = f /\ \A i \in 1..(n - 2) : stack'[i] = front[i]
    BY <1>5, <1>10, <1>12, AppendProperties
  <2>2. n - 2 + 1 = n - 1 /\ \A i \in 1..(n - 1) : i # n - 1 => i \in 1..(n - 2)
    BY <1>1, <1>2
  <2> QED BY <1>12, <2>1, <2>2
<1>14. \A i \in 1..(n - 2) : stack'[i].call # NoCall /\ stack'[i].call.phase = "body"
  <2>1. \A i \in 1..(n - 2) : i \in 1..(n - 1) /\ i # n - 1
    BY <1>1, <1>2
  <2>2. \A i \in 1..(n - 1) : stack[i].call # NoCall /\ stack[i].call.phase = "body"
    BY <1>1 DEF IInv
  <2> QED BY <1>13, <2>1, <2>2
<1>15. Len(stack') - 1 = n - 2 /\ stack' # << >>
  BY <1>1, <1>2, <1>13
<1>16. TypeOK'
  <2>1. TypeOK
    BY DEF IInv
  <2> QED BY <1>2, <1>13, <1>14, <1>15, <2>1 DEF TypeOK
<1>17. (\A i \in DOMAIN stack : Sound(stack[i]))'
  <2>1. \A i \in 1..(n - 1) : Sound(stack[i])
    BY <1>1 DEF IInv
  <2>2. Sound(f)
    BY <1>9, <1>10 DEF Sound
  <2> QED BY <1>2, <1>13, <2>1, <2>2 DEF Sound, Fits
<1>18. (\A w \in Invalid : Has(w, text) => Keeps(w, stack[1]))'
  <2>1. 1 \in 1..(n - 1) /\ (n - 1 = 1 => outer = stack[1])
    BY <1>2, <1>4
  <2>2. \A w \in Invalid : Has(w, text) => Keeps(w, stack[1])
    BY DEF IInv
  <2>3. \A w \in Invalid : Has(w, text') => Keeps(w, stack'[1])
    BY <1>2, <1>11, <1>13, <2>1, <2>2
  <2> QED BY <2>3 DEF Has, Keeps, Queued
<1> QED BY <1>14, <1>15, <1>16, <1>17, <1>18 DEF IInv

----------------------------------------------------------------------------
LEMMA Initially == Init => IInv
<1> SUFFICES ASSUME Init PROVE IInv
  OBVIOUS
<1> DEFINE e == Engine(text, {})
<1>1. PICK p \in Programs : definitions \in p.definitions /\ text \in p.text
  BY DEF Init
<1>2. text \in Seq(Tokens)
  <2>1. text \in Seq(Valid \cup Invalid)
    BY <1>1, MacroReplacementAssumption DEF Assumption
  <2>2. Valid \cup Invalid \subseteq Tokens
    BY DEF Tokens, Errors
  <2> QED BY <2>1, <2>2
<1>3. Sound(e) /\ e.inner = text
  BY <1>2, NewEngine
<1>4. stack = <<e>> /\ panicked = FALSE
  BY DEF Init
<1> HIDE DEF e
<1>5. e \in Engines
  BY <1>3 DEF Sound
<1>6. stack \in Seq(Engines) /\ Len(stack) = 1 /\ DOMAIN stack = {1} /\ stack[1] = e
  BY <1>4, <1>5, Singleton
<1>7. TypeOK
  <2>1. stack # << >> /\ panicked \in BOOLEAN
    BY <1>4, <1>6
  <2>2. \A i \in 1..(Len(stack) - 1) : FALSE
    BY <1>6
  <2> QED BY <1>1, <1>6, <2>1, <2>2 DEF TypeOK
<1>8. \A w \in Invalid : Has(w, text) => Keeps(w, stack[1])
  BY <1>3, <1>6 DEF Keeps
<1> QED BY <1>3, <1>6, <1>7, <1>8 DEF IInv

LEMMA StepPreserves == IInv /\ [Next]_vars => IInv'
<1> SUFFICES ASSUME IInv, [Next]_vars PROVE IInv'
  OBVIOUS
<1>1. CASE Take
  BY <1>1, TakePreserves
<1>2. CASE Deliver
  BY <1>2, DeliverPreserves
<1>3. CASE ReplaceObject
  BY <1>3, ReplaceObjectPreserves
<1>4. CASE BeginCall
  BY <1>4, BeginCallPreserves
<1>5. CASE SkipError
  BY <1>5, SkipErrorPreserves
<1>6. CASE Open
  BY <1>6, OpenPreserves
<1>7. CASE OpenAfterSpace
  BY <1>7, OpenAfterSpacePreserves
<1>8. CASE NotACall
  BY <1>8, NotACallPreserves
<1>9. CASE EndArgument
  BY <1>9, EndArgumentPreserves
<1>10. CASE ReadArgument
  BY <1>10, ReadArgumentPreserves
<1>11. CASE Unterminated
  BY <1>11, UnterminatedPreserves
<1>12. CASE Paste
  BY <1>12, PastePreserves
<1>13. CASE Stringify
  BY <1>13, StringifyPreserves
<1>14. CASE Copy
  BY <1>14, CopyPreserves
<1>15. CASE Prescan
  BY <1>15, PrescanPreserves
<1>16. CASE Prescanned
  BY <1>16, PrescannedPreserves
<1>17. CASE EndCall
  BY <1>17, EndCallPreserves
<1>18. CASE UNCHANGED vars
  BY <1>18 DEF vars, IInv, TypeOK, Sound, Fits, Has, Keeps, Queued
<1> QED BY <1>1, <1>2, <1>3, <1>4, <1>5, <1>6, <1>7, <1>8, <1>9, <1>10, <1>11, <1>12, <1>13,
           <1>14, <1>15, <1>16, <1>17, <1>18 DEF Next

(* The invariant of the engines: only the last one is not in a call, a call *)
(* being substituted has an argument for every parameter, and the outermost *)
(* engine still has every lexical error of the file, or a refusal.          *)
THEOREM MacroInvariance == Spec => []IInv
<1> QED BY Initially, StepPreserves, PTL DEF Spec

(* Every variable has its type: tokens stay tokens, and no nesting of       *)
(* parentheses, argument or position of a call leaves its range.            *)
THEOREM TypeCorrectness == Spec => []TypeOK
<1>1. IInv => TypeOK
  BY DEF IInv
<1> QED BY <1>1, MacroInvariance, PTL

(* Whatever macros are defined, a lexical error in the file is delivered, or*)
(* the refusal of a call is: only a refused call drops the errors it has    *)
(* collected.                                                               *)
THEOREM ErrorsReportedHolds == Spec => []ErrorsReported
<1>1. IInv => ErrorsReported
  <2> SUFFICES ASSUME IInv, Ended, ~ panicked, NEW w \in Range(text) \cap Invalid
               PROVE  {w, Refused} \cap Range(stack[1].replacements) # {}
    BY DEF ErrorsReported
  <2>1. Len(stack) = 1 /\ Drained(top)
    BY DEF Ended
  <2>2. top = stack[1] /\ top \in Engines
    BY <2>1, TopFacts
  <2>3. top.call = NoCall /\ top.pending \o top.inner = << >>
    BY <2>1 DEF Drained
  <2>4. top.pending = << >> /\ top.inner = << >>
    <3> DEFINE p == top.pending
               q == top.inner
    <3>1. p \in Pending /\ q \in Seq(Tokens)
      BY <2>2, EngineFields
    <3>2. p \o q = << >>
      BY <2>3
    <3> HIDE DEF p, q
    <3>3. /\ Len(p) \in Nat /\ Len(q) \in Nat
          /\ DOMAIN (p \o q) = 1..(Len(p) + Len(q))
      BY <3>1 DEF Pending
    <3>4. Len(p) + Len(q) = 0
      BY <3>2, <3>3
    <3>5. p = << >> /\ q = << >>
      BY <3>1, <3>3, <3>4 DEF Pending
    <3> QED BY <3>5 DEF p, q
  <2>5. Keeps(w, stack[1])
    BY DEF IInv, Has, Range
  <2>6. Has(w, top.replacements)
    BY <2>2, <2>3, <2>4, <2>5 DEF Keeps, Has, Queued
  <2> QED BY <2>2, <2>6 DEF Has, Range
<1> QED BY <1>1, MacroInvariance, PTL
=============================================================================
