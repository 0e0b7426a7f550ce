----------------------- MODULE CppConditional_proofs -----------------------
(* Proofs about CppConditional, for every value of its bounds.              *)
EXTENDS CppConditional, SequenceTheorems, TLAPS

----------------------------------------------------------------------------
(* Removing the last entry of a stack leaves the others in place.           *)
LEMMA OuterProperties ==
    ASSUME NEW S, NEW g \in Seq(S), Len(g) > 0
    PROVE  /\ Outer(g) \in Seq(S)
           /\ Len(Outer(g)) = Len(g) - 1
           /\ \A i \in 1 .. Len(g) - 1 : Outer(g)[i] = g[i]
  BY DEF Outer

(* Adding an entry on top of a stack.                                       *)
LEMMA PushEntry ==
    ASSUME NEW S, NEW g \in Seq(S), NEW e \in S
    PROVE  /\ Append(g, e) \in Seq(S)
           /\ Len(Append(g, e)) = Len(g) + 1
           /\ \A i \in 1 .. Len(g) : Append(g, e)[i] = g[i]
           /\ Append(g, e)[Len(g) + 1] = e
  OBVIOUS

(* Replacing the last entry of a stack.                                     *)
LEMMA ReplaceTop ==
    ASSUME NEW S, NEW g \in Seq(S), Len(g) > 0, NEW e \in S
    PROVE  /\ Append(Outer(g), e) \in Seq(S)
           /\ Len(Append(Outer(g), e)) = Len(g)
           /\ \A i \in 1 .. Len(g) - 1 : Append(Outer(g), e)[i] = g[i]
           /\ Append(Outer(g), e)[Len(g)] = e
  BY OuterProperties, PushEntry

LEMMA GroupType ==
    ASSUME NEW s \in Statuses, NEW b \in Branches
    PROVE  Group(s, b) \in Groups
  BY DEF Group, Groups

LEMMA SwitchedType ==
    ASSUME NEW s \in Statuses, NEW c
    PROVE  Switched(s, c) \in Statuses
  BY DEF Switched, Statuses

LEMMA OpenedType ==
    ASSUME NEW g, NEW c
    PROVE  Opened(g, c) \in Statuses
  BY DEF Opened, Statuses

(* The stack after each kind of line, entry by entry.                       *)
LEMMA AfterIf ==
    ASSUME NEW g \in Seq(Groups), NEW c \in Conditions,
           NEW h, h = After(g, Line("if", c))
    PROVE  /\ h \in Seq(Groups)
           /\ Len(h) = Len(g) + 1
           /\ \A i \in 1 .. Len(g) : h[i] = g[i]
           /\ h[Len(g) + 1] = Group(Opened(g, c), "if")
<1>1. Group(Opened(g, c), "if") \in Groups
  BY OpenedType, GroupType DEF Branches
<1>2. h = Append(g, Group(Opened(g, c), "if"))
  BY DEF After, Line
<1> QED
  BY <1>1, <1>2, PushEntry

LEMMA AfterSwitch ==
    ASSUME NEW g \in Seq(Groups), Len(g) > 0, NEW c, NEW b \in Branches
    PROVE  LET h == Append(Outer(g), Group(Switched(Top(g).status, c), b))
           IN  /\ h \in Seq(Groups)
               /\ Len(h) = Len(g)
               /\ \A i \in 1 .. Len(g) - 1 : h[i] = g[i]
               /\ h[Len(g)] = Group(Switched(g[Len(g)].status, c), b)
<1>1. Top(g) \in Groups
  BY DEF Top
<1>2. Top(g).status \in Statuses
  BY <1>1 DEF Groups
<1>3. Group(Switched(Top(g).status, c), b) \in Groups
  BY <1>2, SwitchedType, GroupType
<1> QED
  BY <1>3, ReplaceTop DEF Top

LEMMA AfterElif ==
    ASSUME NEW g \in Seq(Groups), NEW c \in Conditions, Allowed(g, Line("elif", c)),
           NEW h, h = After(g, Line("elif", c))
    PROVE  /\ Len(g) > 0
           /\ h \in Seq(Groups)
           /\ Len(h) = Len(g)
           /\ \A i \in 1 .. Len(g) - 1 : h[i] = g[i]
           /\ h[Len(g)] = Group(Switched(g[Len(g)].status, c), "if")
<1>1. Len(g) > 0
  BY DEF Allowed, Line
<1>2. h = Append(Outer(g), Group(Switched(Top(g).status, c), "if"))
  BY DEF After, Line
<1>3. LET k == Append(Outer(g), Group(Switched(Top(g).status, c), "if"))
      IN  /\ k \in Seq(Groups)
          /\ Len(k) = Len(g)
          /\ \A i \in 1 .. Len(g) - 1 : k[i] = g[i]
          /\ k[Len(g)] = Group(Switched(g[Len(g)].status, c), "if")
  <2>1. "if" \in Branches
    BY DEF Branches
  <2> QED
    BY <1>1, <2>1, AfterSwitch
<1> QED
  BY <1>1, <1>2, <1>3

LEMMA AfterElse ==
    ASSUME NEW g \in Seq(Groups), Allowed(g, Plain("else")),
           NEW h, h = After(g, Plain("else"))
    PROVE  /\ Len(g) > 0
           /\ h \in Seq(Groups)
           /\ Len(h) = Len(g)
           /\ \A i \in 1 .. Len(g) - 1 : h[i] = g[i]
           /\ h[Len(g)] = Group(Switched(g[Len(g)].status, "true"), "else")
<1>1. Len(g) > 0
  BY DEF Allowed, Plain, Line
<1>2. h = Append(Outer(g), Group(Switched(Top(g).status, "true"), "else"))
  BY DEF After, Plain, Line
<1>3. LET k == Append(Outer(g), Group(Switched(Top(g).status, "true"), "else"))
      IN  /\ k \in Seq(Groups)
          /\ Len(k) = Len(g)
          /\ \A i \in 1 .. Len(g) - 1 : k[i] = g[i]
          /\ k[Len(g)] = Group(Switched(g[Len(g)].status, "true"), "else")
  <2>1. "else" \in Branches
    BY DEF Branches
  <2> QED
    BY <1>1, <2>1, AfterSwitch
<1> QED
  BY <1>1, <1>2, <1>3

LEMMA AfterEndIf ==
    ASSUME NEW g \in Seq(Groups), Allowed(g, Plain("endif")),
           NEW h, h = After(g, Plain("endif"))
    PROVE  /\ Len(g) > 0
           /\ h \in Seq(Groups)
           /\ Len(h) = Len(g) - 1
           /\ \A i \in 1 .. Len(g) - 1 : h[i] = g[i]
<1>1. Len(g) > 0
  BY DEF Allowed, Plain, Line
<1>2. h = Outer(g)
  BY DEF After, Plain, Line
<1> QED
  BY <1>1, <1>2, OuterProperties

LEMMA AfterOther ==
    ASSUME NEW g \in Seq(Groups), NEW k \in {"text", "null", "define", "invalid", "eof"}
    PROVE  After(g, Plain(k)) = g
  BY DEF After, Plain, Line

(* A line that is allowed keeps the open groups well typed.                 *)
LEMMA AfterType ==
    ASSUME NEW g \in Seq(Groups), NEW l \in Lines, Allowed(g, l)
    PROVE  After(g, l) \in Seq(Groups)
<1>1. ASSUME NEW c \in Conditions, l = Line("if", c)
      PROVE  After(g, l) \in Seq(Groups)
  BY <1>1, AfterIf
<1>2. ASSUME NEW c \in Conditions, l = Line("elif", c)
      PROVE  After(g, l) \in Seq(Groups)
  BY <1>2, AfterElif
<1>3. CASE l = Plain("else")
  BY <1>3, AfterElse
<1>4. CASE l = Plain("endif")
  BY <1>4, AfterEndIf
<1>5. ASSUME NEW k \in {"text", "null", "define", "invalid", "eof"}, l = Plain(k)
      PROVE  After(g, l) \in Seq(Groups)
  BY <1>5, AfterOther
<1> QED
  BY <1>1, <1>2, <1>3, <1>4, <1>5 DEF Lines, HashLines

----------------------------------------------------------------------------
(* A line after which the file is still clean was allowed, was read from a  *)
(* clean file, and produced no diagnostic.                                  *)
LEMMA CleanStep ==
    ASSUME TypeOK, NEW l, NEW o, Produce(o), Track(l), UNCHANGED swallowed, clean'
    PROVE  clean /\ Allowed(groups, l) /\ o # "diag" /\ groups' = After(groups, l)
  BY DEF TypeOK, Produce, Track, clean

LEMMA RestTracked ==
    ASSUME TypeOK, NEW l, Track(l)
    PROVE  /\ mode' = "consume_all" => consumedRest'
           /\ mode' # "consume_all" => (consumedRest' <=> consumedRest)
           /\ ~ consumedRest' => ~ consumedRest
  BY Zenon DEF TypeOK, Track

LEMMA HistoryType ==
    ASSUME TypeOK, NEW l \in Lines, NEW o \in {"token", "none", "diag"},
           Produce(o), Track(l)
    PROVE  /\ out' \in {"token", "none", "diag"}
           /\ diagnosed' \in BOOLEAN
           /\ consumedRest' \in BOOLEAN
           /\ wellFormed' \in BOOLEAN
           /\ groups' \in Seq(Groups)
<1>1. groups' \in Seq(Groups)
  <2>1. CASE wellFormed' /\ ~ diagnosed'
    <3>1. Allowed(groups, l) /\ groups' = After(groups, l)
      BY <2>1 DEF Track, Produce, TypeOK
    <3> QED
      BY <3>1, AfterType DEF TypeOK
  <2>2. CASE ~ (wellFormed' /\ ~ diagnosed')
    BY <2>2 DEF Track
  <2> QED
    BY <2>1, <2>2
<1> QED
  BY <1>1 DEF TypeOK, Produce, Track

----------------------------------------------------------------------------
(* Every action preserves Inv.                                              *)

LEMMA PushProperties ==
    ASSUME TypeOK, NEW state \in IfState, Push(state)
    PROVE  /\ nested_ifs' \in Seq(IfState)
           /\ Len(nested_ifs') = Len(nested_ifs) + 1
           /\ \A i \in 1 .. Len(nested_ifs) : nested_ifs'[i] = nested_ifs[i]
           /\ nested_ifs'[Len(nested_ifs) + 1] = state
  BY PushEntry DEF TypeOK, Push

(* The part of TypeOK that Produce and Track leave open.                    *)
LEMMA TypeStep ==
    ASSUME TypeOK, NEW l \in Lines, NEW o \in {"token", "none", "diag"},
           Produce(o), Track(l), hash' \in BOOLEAN, swallowed' \in BOOLEAN,
           nested_ifs' \in Seq(IfState), mode' \in Modes, depth' \in Nat
    PROVE  TypeOK'
<1>1. /\ out' \in {"token", "none", "diag"}
      /\ diagnosed' \in BOOLEAN
      /\ consumedRest' \in BOOLEAN
      /\ wellFormed' \in BOOLEAN
      /\ groups' \in Seq(Groups)
  BY HistoryType
<1> QED
  BY <1>1 DEF TypeOK

LEMMA TextIfStep ==
    ASSUME Inv, NEW c \in Conditions, TextIf(c)
    PROVE  Inv'
<1>0. hash' \in BOOLEAN /\ swallowed' \in BOOLEAN /\ UNCHANGED swallowed
  BY DEF TextIf, Directive, Recognised, Inv, TypeOK
<1>1. Line("if", c) \in Lines
  BY DEF Lines, HashLines
<1>2. PICK o \in {"none", "diag"} : Produce(o) /\ Track(Line("if", c)) /\ (o = "diag" <=> c = "bad")
  BY DEF TextIf, Conditions
<1>3. TypeOK'
  <2>1. nested_ifs' \in Seq(IfState)
    BY PushProperties DEF Inv, TypeOK, TextIf, IfState
  <2>2. mode' \in Modes /\ depth' \in Nat
    BY DEF Inv, TypeOK, TextIf, Modes
  <2> QED
    BY <1>1, <1>2, <2>1, <2>2, <1>0, TypeStep DEF Inv
<1>4. /\ Consuming' => depth' > 0
      /\ mode' = "text" => depth' = 0
      /\ mode' = "consume_all" => consumedRest'
  BY DEF Inv, TextIf, Consuming, Track
<1>5. ASSUME clean'
      PROVE  (TextAgrees /\ ConsumeAgrees /\ NestedMirrorsGroups)'
  <2>1. clean /\ groups' = After(groups, Line("if", c)) /\ c # "bad"
    BY <1>2, <1>5, <1>0, CleanStep DEF Inv
  <2>2. /\ mode = "text"
        /\ depth = 0
        /\ \A i \in 1 .. Len(groups) : groups[i].status = "selected"
        /\ Compiled(groups)
        /\ Len(nested_ifs) >= Len(groups)
        /\ ~ consumedRest => Len(nested_ifs) = Len(groups)
        /\ ~ consumedRest =>
              \A i \in 1 .. Len(nested_ifs) : nested_ifs[i] = "Else" <=> groups[i].branch = "else"
    BY <2>1 DEF Inv, TextIf, TextAgrees, NestedMirrorsGroups, Compiled
  <2>3. /\ Len(groups') = Len(groups) + 1
        /\ \A i \in 1 .. Len(groups) : groups'[i] = groups[i]
        /\ groups'[Len(groups) + 1] = Group(Opened(groups, c), "if")
    BY <2>1, AfterIf DEF Inv, TypeOK
  <2>4. /\ Len(groups) \in Nat
        /\ Len(nested_ifs) \in Nat
    BY DEF Inv, TypeOK
  <2>5. consumedRest' = consumedRest
    BY <2>2 DEF TextIf, Track, Inv, TypeOK
  <2>6. CASE c = "true"
    <3>1. groups'[Len(groups) + 1] = Group("selected", "if")
      BY <2>2, <2>3, <2>6 DEF Opened
    <3>2. mode' = "text" /\ Push("If")
      BY <2>2, <2>6 DEF TextIf
    <3>3. /\ Len(nested_ifs') = Len(nested_ifs) + 1
          /\ \A i \in 1 .. Len(nested_ifs) : nested_ifs'[i] = nested_ifs[i]
          /\ nested_ifs'[Len(nested_ifs) + 1] = "If"
      BY <3>2, PushProperties DEF Inv, IfState
    <3>4. TextAgrees'
      BY <2>2, <2>3, <2>4, <3>1, <3>3 DEF TextAgrees, Compiled, Group
    <3>5. NestedMirrorsGroups'
      BY <2>2, <2>3, <2>4, <2>5, <3>1, <3>2, <3>3 DEF NestedMirrorsGroups, Group
    <3> QED
      BY <3>2, <3>4, <3>5 DEF ConsumeAgrees, Consuming
  <2>7. CASE c = "false"
    <3>1. groups'[Len(groups) + 1] = Group("waiting", "if")
      BY <2>2, <2>3, <2>7 DEF Opened
    <3>2. /\ mode' = "consume_if"
          /\ depth' = 1
          /\ nested_ifs' = nested_ifs
      BY <2>2, <2>7 DEF TextIf
    <3>3. Base' = Len(groups)
      BY <2>3, <2>4, <3>2 DEF Base
    <3>4. ConsumeAgrees'
      BY <2>2, <2>3, <2>4, <3>1, <3>2, <3>3 DEF ConsumeAgrees
    <3>5. NestedMirrorsGroups'
      BY <2>2, <2>3, <2>4, <2>5, <3>1, <3>2, <3>3 DEF NestedMirrorsGroups
    <3> QED
      BY <3>2, <3>4, <3>5 DEF TextAgrees
  <2> QED
    BY <2>1, <2>6, <2>7 DEF Conditions
<1> QED
  BY <1>3, <1>4, <1>5 DEF Inv

LEMMA SwitchedNotWaiting ==
    ASSUME NEW s, NEW c, s # "waiting"
    PROVE  Switched(s, c) = IF s = "selected" THEN "done" ELSE s
  BY DEF Switched

LEMMA GroupFields ==
    ASSUME NEW s, NEW b
    PROVE  Group(s, b).status = s /\ Group(s, b).branch = b
  BY DEF Group

(* What #elif and #else do to the group they belong to.                     *)
LEMMA SwitchedBranch ==
    ASSUME NEW g \in Seq(Groups), NEW l, Allowed(g, l),
           \/ \E c \in Conditions : l = Line("elif", c)
           \/ l = Plain("else")
    PROVE  /\ Len(g) > 0
           /\ g[Len(g)].branch = "if"
           /\ Len(After(g, l)) = Len(g)
           /\ \A i \in 1 .. Len(g) - 1 : After(g, l)[i] = g[i]
           /\ \E c \in Conditions : After(g, l)[Len(g)].status = Switched(g[Len(g)].status, c)
<1>1. Len(g) > 0 /\ Top(g).branch # "else"
  BY DEF Allowed, Line, Plain
<1>2. g[Len(g)] \in Groups
  BY <1>1
<1>3. g[Len(g)].branch = "if"
  BY <1>1, <1>2 DEF Top, Groups, Branches
<1>4. ASSUME NEW c \in Conditions, l = Line("elif", c)
      PROVE  /\ Len(After(g, l)) = Len(g)
             /\ \A i \in 1 .. Len(g) - 1 : After(g, l)[i] = g[i]
             /\ After(g, l)[Len(g)].status = Switched(g[Len(g)].status, c)
  BY <1>4, AfterElif, GroupFields
<1>5. ASSUME l = Plain("else")
      PROVE  /\ Len(After(g, l)) = Len(g)
             /\ \A i \in 1 .. Len(g) - 1 : After(g, l)[i] = g[i]
             /\ After(g, l)[Len(g)].status = Switched(g[Len(g)].status, "true")
  BY <1>5, AfterElse, GroupFields
<1> QED
  BY <1>1, <1>3, <1>4, <1>5 DEF Conditions

(* #elif and #else read as text.                                            *)
LEMMA LeaveBranchStep ==
    ASSUME Inv, NEW l \in Lines, LeaveBranch, Track(l),
           \/ \E c \in Conditions : l = Line("elif", c)
           \/ l = Plain("else")
    PROVE  Inv'
<1>0. hash' \in BOOLEAN /\ swallowed' \in BOOLEAN /\ UNCHANGED swallowed
  BY DEF LeaveBranch, Directive, Recognised, Inv, TypeOK
<1>1. PICK o \in {"none", "diag"} : Produce(o) /\ (o = "none" <=> LastIf \in {"If", "Elif"})
  BY DEF LeaveBranch
<1>2. TypeOK'
  <2>1. nested_ifs' \in Seq(IfState) /\ mode' \in Modes /\ depth' \in Nat
    BY DEF Inv, TypeOK, LeaveBranch, Modes
  <2> QED
    BY <1>1, <2>1, <1>0, TypeStep DEF Inv
<1>3. /\ Consuming' => depth' > 0
      /\ mode' = "text" => depth' = 0
      /\ mode' = "consume_all" => consumedRest'
  <2>1. mode' = "consume_all" => consumedRest'
    BY RestTracked DEF Inv
  <2> QED
    BY <2>1 DEF Inv, LeaveBranch, Consuming
<1>4. ASSUME clean'
      PROVE  (TextAgrees /\ ConsumeAgrees /\ NestedMirrorsGroups)'
  <2>1. clean /\ Allowed(groups, l) /\ o # "diag" /\ groups' = After(groups, l)
    BY <1>1, <1>4, <1>0, CleanStep DEF Inv
  <2>2. /\ \A i \in 1 .. Len(groups) : groups[i].status = "selected"
        /\ Len(nested_ifs) >= Len(groups)
    BY <2>1 DEF Inv, LeaveBranch, TextAgrees, Compiled
  <2>3. /\ Len(groups) > 0
        /\ Len(groups') = Len(groups)
        /\ \A i \in 1 .. Len(groups) - 1 : groups'[i] = groups[i]
        /\ \E c \in Conditions :
              groups'[Len(groups)].status = Switched(groups[Len(groups)].status, c)
    BY <2>1, SwitchedBranch DEF Inv, TypeOK
  <2>4. Len(groups) \in Nat /\ Len(nested_ifs) \in Nat
    BY DEF Inv, TypeOK
  <2>5. groups'[Len(groups)].status = "done"
    BY <2>2, <2>3, <2>4, SwitchedNotWaiting
  <2>6. /\ mode' = "consume_all"
        /\ depth' = 1
        /\ nested_ifs' = nested_ifs
    BY <1>1, <2>1 DEF LeaveBranch
  <2>7. Base' = Len(groups) - 1
    BY <2>3, <2>6 DEF Base
  <2>8. ConsumeAgrees'
    BY <2>2, <2>3, <2>4, <2>5, <2>6, <2>7 DEF ConsumeAgrees
  <2>9. consumedRest'
    BY <2>6, RestTracked DEF Inv
  <2> QED
    BY <2>6, <2>8, <2>9 DEF TextAgrees, NestedMirrorsGroups
<1> QED
  BY <1>2, <1>3, <1>4 DEF Inv

LEMMA TextEndIfStep ==
    ASSUME Inv, TextEndIf
    PROVE  Inv'
<1>0. hash' \in BOOLEAN /\ swallowed' \in BOOLEAN /\ UNCHANGED swallowed
  BY DEF TextEndIf, Directive, Recognised, Inv, TypeOK
<1>1. Plain("endif") \in Lines
  BY DEF Lines, HashLines
<1>2. PICK o \in {"none", "diag"} : Produce(o) /\ Track(Plain("endif"))
  BY DEF TextEndIf
<1>3. \/ /\ Len(nested_ifs) > 0
         /\ nested_ifs' \in Seq(IfState)
         /\ Len(nested_ifs') = Len(nested_ifs) - 1
         /\ \A i \in 1 .. Len(nested_ifs) - 1 : nested_ifs'[i] = nested_ifs[i]
      \/ /\ Len(nested_ifs) = 0
         /\ nested_ifs' = nested_ifs
  BY OuterProperties DEF TextEndIf, Inv, TypeOK
<1>4. TypeOK'
  <2>1. nested_ifs' \in Seq(IfState) /\ mode' \in Modes /\ depth' \in Nat
    BY <1>3 DEF Inv, TypeOK, TextEndIf, Modes
  <2> QED
    BY <1>1, <1>2, <2>1, <1>0, TypeStep DEF Inv
<1>5. mode = "text" /\ mode' = "text" /\ depth' = 0
  BY DEF Inv, TextEndIf
<1>6. ASSUME clean'
      PROVE  (TextAgrees /\ ConsumeAgrees /\ NestedMirrorsGroups)'
  <2>1. clean /\ Allowed(groups, Plain("endif")) /\ groups' = After(groups, Plain("endif"))
    BY <1>2, <1>6, <1>0, CleanStep DEF Inv
  <2>2. /\ Len(groups) > 0
        /\ Len(groups') = Len(groups) - 1
        /\ \A i \in 1 .. Len(groups) - 1 : groups'[i] = groups[i]
    BY <2>1, AfterEndIf DEF Inv, TypeOK
  <2>3. /\ \A i \in 1 .. Len(groups) : groups[i].status = "selected"
        /\ Len(nested_ifs) >= Len(groups)
        /\ ~ consumedRest => Len(nested_ifs) = Len(groups)
        /\ ~ consumedRest =>
              \A i \in 1 .. Len(nested_ifs) : nested_ifs[i] = "Else" <=> groups[i].branch = "else"
    BY <1>5, <2>1 DEF Inv, TextAgrees, NestedMirrorsGroups, Compiled
  <2>4. Len(groups) \in Nat /\ Len(nested_ifs) \in Nat
    BY DEF Inv, TypeOK
  <2>5. /\ Len(nested_ifs') = Len(nested_ifs) - 1
        /\ \A i \in 1 .. Len(nested_ifs) - 1 : nested_ifs'[i] = nested_ifs[i]
    BY <1>3, <2>2, <2>3, <2>4
  <2>6. TextAgrees'
    BY <2>2, <2>3, <2>4, <2>5 DEF TextAgrees, Compiled
  <2>7. consumedRest' = consumedRest
    BY <1>2, <1>5 DEF Track, Inv, TypeOK
  <2>8. NestedMirrorsGroups'
    BY <1>5, <2>2, <2>3, <2>4, <2>5, <2>7 DEF NestedMirrorsGroups
  <2> QED
    BY <1>5, <2>6, <2>8 DEF ConsumeAgrees, Consuming
<1> QED
  BY <1>4, <1>5, <1>6 DEF Inv, Consuming

(* Lines that are not conditional directives, read as text or skipped, and  *)
(* the null directive.                                                      *)
LEMMA LineStep ==
    ASSUME Inv, NEW k \in {"text", "null", "define", "invalid"},
           TextLine(k) \/ ConsumeLine(k) \/ (k = "null" /\ NullDirective)
    PROVE  Inv'
<1>0. hash' \in BOOLEAN /\ swallowed' \in BOOLEAN /\ UNCHANGED swallowed
  BY DEF TextLine, ConsumeLine, NullDirective, Directive, Recognised, Inv, TypeOK
<1>1. Plain(k) \in Lines
  BY DEF Lines, HashLines
<1>2. PICK o \in {"token", "none", "diag"} : Produce(o) /\ Track(Plain(k))
  BY DEF TextLine, ConsumeLine, NullDirective
<1>3. UNCHANGED <<nested_ifs, mode, depth>>
  BY DEF TextLine, ConsumeLine, NullDirective
<1>4. TypeOK'
  BY <1>1, <1>2, <1>3, <1>0, TypeStep DEF Inv, TypeOK
<1>5. consumedRest' <=> consumedRest
  BY <1>2, <1>3, RestTracked DEF Inv
<1>6. ASSUME clean'
      PROVE  (TextAgrees /\ ConsumeAgrees /\ NestedMirrorsGroups)'
  <2>1. clean /\ groups' = After(groups, Plain(k))
    BY <1>2, <1>6, <1>0, CleanStep DEF Inv
  <2>2. groups' = groups
    BY <2>1, AfterOther DEF Inv, TypeOK
  <2>3. TextAgrees /\ ConsumeAgrees /\ NestedMirrorsGroups
    BY <2>1 DEF Inv
  <2>4. TextAgrees'
    BY <1>3, <2>2, <2>3 DEF TextAgrees, Compiled
  <2>5. ConsumeAgrees'
    BY <1>3, <2>2, <2>3 DEF ConsumeAgrees, Consuming, Base
  <2>6. NestedMirrorsGroups'
    BY <1>3, <1>5, <2>2, <2>3 DEF NestedMirrorsGroups, Base
  <2> QED
    BY <2>4, <2>5, <2>6
<1>7. /\ Consuming' => depth' > 0
      /\ mode' = "text" => depth' = 0
      /\ mode' = "consume_all" => consumedRest'
  BY <1>3, <1>5 DEF Inv, Consuming
<1> QED
  BY <1>4, <1>6, <1>7 DEF Inv

(* The end of the file, read as text or skipped.                            *)
LEMMA EofStep ==
    ASSUME Inv, TextEof \/ ConsumeEof
    PROVE  Inv'
<1>0. hash' \in BOOLEAN /\ swallowed' \in BOOLEAN /\ UNCHANGED swallowed
  BY DEF TextEof, ConsumeEof, Directive, Recognised, Inv, TypeOK
<1>1. Plain("eof") \in Lines
  BY DEF Lines, HashLines
<1>2. PICK o \in {"none", "diag"} : Produce(o) /\ Track(Plain("eof"))
  BY DEF TextEof, ConsumeEof
<1>3. mode' = "eof" /\ nested_ifs' = nested_ifs /\ depth' \in Nat
  BY DEF TextEof, ConsumeEof, Inv, TypeOK
<1>4. TypeOK'
  <2>1. nested_ifs' \in Seq(IfState) /\ mode' \in Modes
    BY <1>3 DEF Inv, TypeOK, Modes
  <2> QED
    BY <1>1, <1>2, <1>3, <2>1, <1>0, TypeStep DEF Inv
<1> QED
  BY <1>3, <1>4 DEF Inv, Consuming, TextAgrees, ConsumeAgrees, NestedMirrorsGroups

----------------------------------------------------------------------------
(* Skipped directives.                                                      *)

LEMMA ConsumeIfStep ==
    ASSUME Inv, NEW c \in Conditions, ConsumeIf(c)
    PROVE  Inv'
<1>0. hash' \in BOOLEAN /\ swallowed' \in BOOLEAN /\ UNCHANGED swallowed
  BY DEF ConsumeIf, Directive, Recognised, Inv, TypeOK
<1>1. Line("if", c) \in Lines
  BY DEF Lines, HashLines
<1>2. Produce("none") /\ Track(Line("if", c))
  BY DEF ConsumeIf
<1>3. /\ UNCHANGED <<nested_ifs, mode>>
      /\ depth' = depth + 1
      /\ Consuming /\ Consuming'
      /\ mode \in {"consume_if", "consume_all"}
  BY DEF ConsumeIf, Consuming
<1>4. TypeOK'
  BY <1>1, <1>2, <1>3, <1>0, TypeStep DEF Inv, TypeOK
<1>5. consumedRest' <=> consumedRest
  BY <1>2, <1>3, RestTracked DEF Inv
<1>6. ASSUME clean'
      PROVE  (TextAgrees /\ ConsumeAgrees /\ NestedMirrorsGroups)'
  <2>1. clean /\ groups' = After(groups, Line("if", c))
    BY <1>2, <1>6, <1>0, CleanStep DEF Inv
  <2>2. /\ Len(groups') = Len(groups) + 1
        /\ \A i \in 1 .. Len(groups) : groups'[i] = groups[i]
        /\ groups'[Len(groups) + 1] = Group(Opened(groups, c), "if")
    BY <2>1, AfterIf DEF Inv, TypeOK
  <2>3. TextAgrees /\ ConsumeAgrees /\ NestedMirrorsGroups
    BY <2>1 DEF Inv
  <2>4. Len(groups) \in Nat /\ depth \in Nat /\ depth > 0
    BY <1>3 DEF Inv, TypeOK
  <2>5. Base' = Base /\ Base \in Nat /\ Base + 1 \in 1 .. Len(groups)
    BY <1>3, <2>2, <2>3, <2>4 DEF Base, ConsumeAgrees
  <2>6. groups[Base + 1].status \in {"waiting", "done"}
    BY <1>3, <2>3, GroupFields DEF ConsumeAgrees
  <2>7. Opened(groups, c) = "dead"
    BY <2>5, <2>6 DEF Opened, Compiled
  <2>8. groups'[Len(groups) + 1].status = "dead"
    BY <2>2, <2>7, GroupFields
  <2>9. ConsumeAgrees'
    <3>1. \A i \in Base' + 2 .. Len(groups') : groups'[i].status = "dead"
      <4>1. \A i \in Base + 2 .. Len(groups) : groups[i].status = "dead"
        BY <1>3, <2>3 DEF ConsumeAgrees
      <4>2. \A i \in Base + 2 .. Len(groups) : groups'[i] = groups[i]
        BY <2>2, <2>4, <2>5
      <4>3. \A i \in Base + 2 .. Len(groups') : i \in Base + 2 .. Len(groups) \/ i = Len(groups) + 1
        BY <2>2, <2>4, <2>5
      <4> QED
        BY <2>5, <2>8, <4>1, <4>2, <4>3
    <3>2. \A i \in 1 .. Base' : groups'[i].status = "selected"
      BY <1>3, <2>2, <2>3, <2>4, <2>5 DEF ConsumeAgrees, Base
    <3> QED
      BY <1>3, <2>2, <2>3, <2>4, <2>5, <3>1, <3>2 DEF ConsumeAgrees, Base
  <2>10. NestedMirrorsGroups'
    <3>1. mode = "consume_if" /\ ~ consumedRest => Len(nested_ifs) = Base
      BY <2>3 DEF NestedMirrorsGroups
    <3> QED
      BY <1>3, <1>5, <2>2, <2>3, <2>4, <2>5, <3>1 DEF NestedMirrorsGroups
  <2> QED
    BY <1>3, <2>9, <2>10 DEF TextAgrees
<1>7. /\ depth' > 0
      /\ mode' # "text"
      /\ mode' = "consume_all" => consumedRest'
  BY <1>3, <1>5 DEF Inv, TypeOK
<1> QED
  BY <1>4, <1>6, <1>7 DEF Inv

LEMMA ConsumeEndIfStep ==
    ASSUME Inv, ConsumeEndIf
    PROVE  Inv'
<1>0. hash' \in BOOLEAN /\ swallowed' \in BOOLEAN /\ UNCHANGED swallowed
  BY DEF ConsumeEndIf, Directive, Recognised, Inv, TypeOK
<1>1. Plain("endif") \in Lines
  BY DEF Lines, HashLines
<1>2. Produce("none") /\ Track(Plain("endif"))
  BY DEF ConsumeEndIf
<1>3. /\ nested_ifs' = nested_ifs
      /\ depth' = depth - 1
      /\ depth \in Nat /\ depth > 0
      /\ mode \in {"consume_if", "consume_all"} /\ Consuming
      /\ mode' = IF depth = 1 THEN "text" ELSE mode
  BY DEF ConsumeEndIf, Consuming, Inv, TypeOK
<1>4. TypeOK'
  <2>1. nested_ifs' \in Seq(IfState) /\ mode' \in Modes /\ depth' \in Nat
    BY <1>3 DEF Inv, TypeOK, Modes
  <2> QED
    BY <1>1, <1>2, <2>1, <1>0, TypeStep DEF Inv
<1>5. /\ Consuming' => depth' > 0
      /\ mode' = "text" => depth' = 0
      /\ mode' = "consume_all" => consumedRest'
  <2>1. mode' = "consume_all" => consumedRest'
    BY <1>2, RestTracked DEF Inv
  <2> QED
    BY <1>3, <2>1 DEF Consuming
<1>6. ASSUME clean'
      PROVE  (TextAgrees /\ ConsumeAgrees /\ NestedMirrorsGroups)'
  <2>1. clean /\ Allowed(groups, Plain("endif")) /\ groups' = After(groups, Plain("endif"))
    BY <1>2, <1>6, <1>0, CleanStep DEF Inv
  <2>2. /\ Len(groups) > 0
        /\ Len(groups') = Len(groups) - 1
        /\ \A i \in 1 .. Len(groups) - 1 : groups'[i] = groups[i]
    BY <2>1, AfterEndIf DEF Inv, TypeOK
  <2>3. ConsumeAgrees /\ NestedMirrorsGroups
    BY <2>1 DEF Inv
  <2>4. Len(groups) \in Nat /\ Len(nested_ifs) \in Nat
    BY DEF Inv, TypeOK
  <2>5. Base' = Base
    BY <1>3, <2>2, <2>4 DEF Base
  <2>6. consumedRest <=> consumedRest'
    BY <1>2, <1>3, RestTracked DEF Inv
  <2>7. CASE depth = 1
    <3>1. mode' = "text" /\ Base = Len(groups')
      BY <1>3, <2>2, <2>4, <2>7 DEF Base
    <3>2. TextAgrees'
      BY <1>3, <2>2, <2>3, <2>4, <3>1 DEF TextAgrees, ConsumeAgrees, Compiled
    <3>3. NestedMirrorsGroups'
      BY <1>3, <2>2, <2>3, <2>4, <2>6, <3>1 DEF NestedMirrorsGroups
    <3> QED
      BY <3>1, <3>2, <3>3 DEF ConsumeAgrees, Consuming
  <2>8. CASE depth > 1
    <3>1. mode' = mode /\ Base \in Nat /\ Base + 1 \in 1 .. Len(groups) - 1
      BY <1>3, <2>2, <2>3, <2>4, <2>8 DEF Base, ConsumeAgrees
    <3>2. ConsumeAgrees'
      <4>1. /\ \A i \in 1 .. Base : groups'[i] = groups[i]
            /\ groups'[Base + 1] = groups[Base + 1]
            /\ \A i \in Base + 2 .. Len(groups') : groups'[i] = groups[i] /\ i <= Len(groups)
        BY <2>2, <2>4, <3>1
      <4>2. \A i \in Base + 2 .. Len(groups') : groups'[i].status = "dead"
        BY <1>3, <2>2, <2>3, <2>4, <3>1, <4>1 DEF ConsumeAgrees
      <4>3. \A i \in 1 .. Base : groups'[i].status = "selected"
        BY <1>3, <2>3, <4>1 DEF ConsumeAgrees
      <4> QED
        BY <1>3, <2>3, <2>5, <3>1, <4>1, <4>2, <4>3 DEF ConsumeAgrees
    <3>3. NestedMirrorsGroups'
      BY <1>3, <2>2, <2>3, <2>4, <2>5, <2>6, <3>1 DEF NestedMirrorsGroups
    <3> QED
      BY <1>3, <3>1, <3>2, <3>3 DEF TextAgrees
  <2> QED
    BY <1>3, <2>7, <2>8
<1> QED
  BY <1>4, <1>5, <1>6 DEF Inv

(* #elif and #else of a group in skipped lines, or of one whose branch was  *)
(* compiled before: nothing changes but the state of the innermost group.   *)
LEMMA StaySkipping ==
    ASSUME Inv, Consuming, clean, NEW l, Allowed(groups, l), Track(l),
           groups' = After(groups, l),
           \/ \E c \in Conditions : l = Line("elif", c)
           \/ l = Plain("else"),
           UNCHANGED <<nested_ifs, mode, depth>>,
           mode = "consume_all" \/ depth > 1
    PROVE  (TextAgrees /\ ConsumeAgrees /\ NestedMirrorsGroups)'
<1>1. /\ Len(groups) > 0
      /\ Len(groups') = Len(groups)
      /\ \A i \in 1 .. Len(groups) - 1 : groups'[i] = groups[i]
      /\ \E c \in Conditions : groups'[Len(groups)].status = Switched(groups[Len(groups)].status, c)
  BY SwitchedBranch DEF Inv, TypeOK
<1>2. ConsumeAgrees /\ NestedMirrorsGroups
  BY DEF Inv
<1>3. /\ Len(groups) \in Nat /\ Len(nested_ifs) \in Nat
      /\ depth \in Nat /\ depth > 0
      /\ mode \in {"consume_if", "consume_all"}
  BY DEF Inv, TypeOK, Consuming
<1>4. Base' = Base /\ Base \in Nat
  BY <1>1, <1>2, <1>3 DEF Base, ConsumeAgrees
<1>5. consumedRest' <=> consumedRest
  <2>1. mode = "consume_all" => consumedRest /\ consumedRest'
    BY RestTracked DEF Inv
  <2> QED
    BY <2>1, RestTracked DEF Inv
<1>6. groups'[Len(groups)].status = groups[Len(groups)].status
  <2>1. groups[Len(groups)].status \in {"dead", "done"}
    <3>1. CASE depth > 1
      <4>1. Len(groups) \in Base + 2 .. Len(groups)
        BY <1>3, <1>4, <3>1 DEF Base
      <4> QED
        BY <1>2, <4>1 DEF ConsumeAgrees
    <3>2. CASE depth = 1
      <4>1. Base + 1 = Len(groups) /\ mode = "consume_all"
        BY <1>3, <3>2 DEF Base
      <4> QED
        BY <1>2, <4>1 DEF ConsumeAgrees
    <3> QED
      BY <1>3, <3>1, <3>2
  <2> QED
    BY <1>1, <2>1, SwitchedNotWaiting
<1>7. \A i \in 1 .. Len(groups) : groups'[i].status = groups[i].status
  BY <1>1, <1>3, <1>6
<1>8. mode = "consume_if" => groups'[Base + 1] = groups[Base + 1]
  BY <1>1, <1>3, <1>4 DEF Base
<1>9. ConsumeAgrees'
  <2>1. Base + 1 \in 1 .. Len(groups)
    BY <1>3, <1>4 DEF Base
  <2>2. \A i \in 1 .. Base : groups'[i].status = "selected"
    <3>1. \A i \in 1 .. Base : groups[i].status = "selected"
      BY <1>2 DEF ConsumeAgrees
    <3>2. \A i \in 1 .. Base : i \in 1 .. Len(groups)
      BY <1>3, <1>4, <2>1
    <3> QED
      BY <1>7, <3>1, <3>2
  <2>3. \A i \in Base + 2 .. Len(groups') : groups'[i].status = "dead"
    BY <1>1, <1>2, <1>3, <1>4, <1>7 DEF ConsumeAgrees
  <2>4. mode = "consume_all" => groups'[Base + 1].status = "done"
    BY <1>2, <1>7, <2>1 DEF ConsumeAgrees
  <2> QED
    BY <1>2, <1>4, <1>8, <2>2, <2>3, <2>4 DEF ConsumeAgrees
<1>10. NestedMirrorsGroups'
  <2>1. ~ consumedRest => mode = "consume_if" /\ Len(nested_ifs) = Base
    BY <1>2, <1>3 DEF NestedMirrorsGroups
  <2>2. \A i \in 1 .. Base : groups'[i] = groups[i]
    BY <1>1, <1>3, <1>4 DEF Base
  <2> QED
    BY <1>2, <1>3, <1>4, <1>5, <2>1, <2>2 DEF NestedMirrorsGroups
<1> QED
  BY <1>3, <1>9, <1>10 DEF TextAgrees

(* The branch that is waited for begins: its state is pushed on nested_ifs. *)
LEMMA BranchBegins ==
    ASSUME Inv, clean, mode = "consume_if", depth = 1,
           NEW l, Allowed(groups, l), groups' = After(groups, l), Track(l),
           NEW state \in IfState, Push(state),
           \/ l = Line("elif", "true") /\ state = "Elif"
           \/ l = Plain("else") /\ state = "Else",
           mode' = "text"
    PROVE  (TextAgrees /\ ConsumeAgrees /\ NestedMirrorsGroups)'
<1>1. /\ Base = Len(groups) - 1 /\ Base >= 0
      /\ \A i \in 1 .. Base : groups[i].status = "selected"
      /\ groups[Len(groups)] = Group("waiting", "if")
      /\ Len(nested_ifs) >= Len(groups) - 1
      /\ Len(groups) \in Nat /\ Len(nested_ifs) \in Nat
  BY DEF Inv, TypeOK, ConsumeAgrees, Consuming, Base
<1>2. Switched(groups[Len(groups)].status, "true") = "selected"
  BY <1>1, GroupFields DEF Switched
<1>3. /\ Len(groups) > 0
      /\ Len(groups') = Len(groups)
      /\ \A i \in 1 .. Len(groups) - 1 : groups'[i] = groups[i]
      /\ groups'[Len(groups)] = Group("selected", IF state = "Else" THEN "else" ELSE "if")
  <2>1. CASE l = Line("elif", "true")
    BY <1>2, <2>1, AfterElif DEF Inv, TypeOK, Conditions, Line, Plain
  <2>2. CASE l = Plain("else")
    BY <1>2, <2>2, AfterElse DEF Inv, TypeOK, Line, Plain
  <2> QED
    BY <2>1, <2>2
<1>4. /\ groups'[Len(groups)].status = "selected"
      /\ groups'[Len(groups)].branch = "else" <=> state = "Else"
  BY <1>3, GroupFields
<1>5. /\ Len(nested_ifs') = Len(nested_ifs) + 1
      /\ \A i \in 1 .. Len(nested_ifs) : nested_ifs'[i] = nested_ifs[i]
      /\ nested_ifs'[Len(nested_ifs) + 1] = state
  BY PushProperties DEF Inv
<1>6. TextAgrees'
  BY <1>1, <1>3, <1>4, <1>5 DEF TextAgrees, Compiled
<1>7. consumedRest' <=> consumedRest
  BY RestTracked DEF Inv
<1>8. NestedMirrorsGroups'
  <2>1. ~ consumedRest =>
           /\ Len(nested_ifs) = Len(groups) - 1
           /\ \A i \in 1 .. Len(nested_ifs) : nested_ifs[i] = "Else" <=> groups[i].branch = "else"
    BY <1>1 DEF Inv, NestedMirrorsGroups
  <2>2. ~ consumedRest => Len(nested_ifs') = Len(groups')
    BY <1>1, <1>3, <1>5, <2>1
  <2>3. ~ consumedRest =>
          \A i \in 1 .. Len(nested_ifs') : nested_ifs'[i] = "Else" <=> groups'[i].branch = "else"
    <3>1. SUFFICES ASSUME ~ consumedRest, NEW i \in 1 .. Len(nested_ifs')
                   PROVE  nested_ifs'[i] = "Else" <=> groups'[i].branch = "else"
      OBVIOUS
    <3>2. CASE i = Len(groups)
      BY <1>1, <1>4, <1>5, <2>1, <3>1, <3>2
    <3>3. CASE i \in 1 .. Len(nested_ifs)
      BY <1>1, <1>3, <1>5, <2>1, <3>1, <3>3
    <3> QED
      BY <1>1, <1>5, <2>1, <3>1, <3>2, <3>3
  <2> QED
    BY <1>7, <2>2, <2>3 DEF NestedMirrorsGroups
<1> QED
  BY <1>6, <1>8 DEF ConsumeAgrees, Consuming

LEMMA ConsumeElifStep ==
    ASSUME Inv, NEW c \in Conditions, ConsumeElif(c)
    PROVE  Inv'
<1>0. hash' \in BOOLEAN /\ swallowed' \in BOOLEAN /\ UNCHANGED swallowed
  BY DEF ConsumeElif, Directive, Recognised, Inv, TypeOK
<1>1. Line("elif", c) \in Lines
  BY DEF Lines, HashLines
<1>2. PICK o \in {"none", "diag"} :
         /\ Produce(o)
         /\ Track(Line("elif", c))
         /\ mode = "consume_if" /\ depth = 1 /\ c = "bad" => o = "diag"
  BY DEF ConsumeElif
<1>3. /\ Consuming
      /\ mode \in {"consume_if", "consume_all"}
      /\ depth \in Nat /\ depth > 0
  BY DEF ConsumeElif, Consuming, Inv, TypeOK
<1>4. TypeOK'
  <2>1. nested_ifs' \in Seq(IfState)
    BY PushProperties DEF ConsumeElif, Inv, TypeOK, IfState
  <2>2. mode' \in Modes /\ depth' \in Nat
    BY DEF ConsumeElif, Inv, TypeOK, Modes
  <2> QED
    BY <1>1, <1>2, <2>1, <2>2, <1>0, TypeStep DEF Inv
<1>5. /\ Consuming' => depth' > 0
      /\ mode' = "text" => depth' = 0
      /\ mode' = "consume_all" => consumedRest'
  <2>1. mode' = "consume_all" => consumedRest'
    BY <1>2, RestTracked DEF Inv
  <2> QED
    BY <1>3, <2>1 DEF ConsumeElif, Consuming
<1>6. ASSUME clean'
      PROVE  (TextAgrees /\ ConsumeAgrees /\ NestedMirrorsGroups)'
  <2>1. /\ clean /\ o # "diag"
        /\ Allowed(groups, Line("elif", c))
        /\ groups' = After(groups, Line("elif", c))
    BY <1>2, <1>6, <1>0, CleanStep DEF Inv
  <2>2. CASE mode = "consume_all" \/ depth > 1
    <3>1. UNCHANGED <<nested_ifs, mode, depth>>
      BY <1>3, <2>2 DEF ConsumeElif
    <3> QED
      BY <1>2, <1>3, <2>1, <2>2, <3>1, StaySkipping
  <2>3. CASE mode = "consume_if" /\ depth = 1 /\ c = "true"
    <3>1. Push("Elif") /\ mode' = "text"
      BY <2>3 DEF ConsumeElif
    <3> QED
      BY <1>2, <2>1, <2>3, <3>1, BranchBegins DEF IfState
  <2>4. CASE mode = "consume_if" /\ depth = 1 /\ c = "false"
    <3>1. UNCHANGED <<nested_ifs, mode, depth>>
      BY <2>4 DEF ConsumeElif
    <3>2. /\ Base = Len(groups) - 1 /\ Base >= 0
          /\ groups[Len(groups)] = Group("waiting", "if")
          /\ Len(groups) \in Nat
      BY <1>3, <2>1, <2>4 DEF Inv, TypeOK, ConsumeAgrees, Base
    <3>3. Switched(groups[Len(groups)].status, c) = "waiting"
      BY <2>4, <3>2, GroupFields DEF Switched
    <3>4. /\ Len(groups') = Len(groups)
          /\ \A i \in 1 .. Len(groups) - 1 : groups'[i] = groups[i]
          /\ groups'[Len(groups)] = Group("waiting", "if")
      BY <2>1, <3>3, AfterElif DEF Inv, TypeOK
    <3>5. \A i \in 1 .. Len(groups) : groups'[i] = groups[i]
      BY <3>2, <3>4
    <3>6. Base' = Base
      BY <3>1, <3>4 DEF Base
    <3>7. ConsumeAgrees /\ NestedMirrorsGroups
      BY <2>1 DEF Inv
    <3>8. ConsumeAgrees'
      BY <1>3, <3>1, <3>2, <3>4, <3>5, <3>6, <3>7 DEF ConsumeAgrees
    <3>9. consumedRest' <=> consumedRest
      BY <1>2, <2>4, <3>1, RestTracked DEF Inv
    <3>10. NestedMirrorsGroups'
      BY <2>4, <3>1, <3>2, <3>4, <3>5, <3>6, <3>7, <3>9 DEF NestedMirrorsGroups
    <3> QED
      BY <2>4, <3>1, <3>8, <3>10 DEF TextAgrees
  <2> QED
    BY <1>2, <1>3, <2>1, <2>2, <2>3, <2>4 DEF Conditions
<1> QED
  BY <1>4, <1>5, <1>6 DEF Inv

LEMMA ConsumeElseStep ==
    ASSUME Inv, ConsumeElse
    PROVE  Inv'
<1>0. hash' \in BOOLEAN /\ swallowed' \in BOOLEAN /\ UNCHANGED swallowed
  BY DEF ConsumeElse, Directive, Recognised, Inv, TypeOK
<1>1. Plain("else") \in Lines
  BY DEF Lines, HashLines
<1>2. Produce("none") /\ Track(Plain("else"))
  BY DEF ConsumeElse
<1>3. /\ Consuming
      /\ mode \in {"consume_if", "consume_all"}
      /\ depth \in Nat /\ depth > 0
  BY DEF ConsumeElse, Consuming, Inv, TypeOK
<1>4. TypeOK'
  <2>1. nested_ifs' \in Seq(IfState)
    BY PushProperties DEF ConsumeElse, Inv, TypeOK, IfState
  <2>2. mode' \in Modes /\ depth' \in Nat
    BY DEF ConsumeElse, Inv, TypeOK, Modes
  <2> QED
    BY <1>1, <1>2, <2>1, <2>2, <1>0, TypeStep DEF Inv
<1>5. /\ Consuming' => depth' > 0
      /\ mode' = "text" => depth' = 0
      /\ mode' = "consume_all" => consumedRest'
  <2>1. mode' = "consume_all" => consumedRest'
    BY <1>2, RestTracked DEF Inv
  <2> QED
    BY <1>3, <2>1 DEF ConsumeElse, Consuming
<1>6. ASSUME clean'
      PROVE  (TextAgrees /\ ConsumeAgrees /\ NestedMirrorsGroups)'
  <2>1. /\ clean
        /\ Allowed(groups, Plain("else"))
        /\ groups' = After(groups, Plain("else"))
    BY <1>2, <1>6, <1>0, CleanStep DEF Inv
  <2>2. CASE mode = "consume_all" \/ depth > 1
    <3>1. UNCHANGED <<nested_ifs, mode, depth>>
      BY <1>3, <2>2 DEF ConsumeElse
    <3> QED
      BY <1>2, <1>3, <2>1, <2>2, <3>1, StaySkipping
  <2>3. CASE mode = "consume_if" /\ depth = 1
    <3>1. Push("Else") /\ mode' = "text"
      BY <2>3 DEF ConsumeElse
    <3> QED
      BY <1>2, <2>1, <2>3, <3>1, BranchBegins DEF IfState
  <2> QED
    BY <1>3, <2>2, <2>3
<1> QED
  BY <1>4, <1>5, <1>6 DEF Inv

(* A line behind a null directive: from now on the file is not clean.       *)
LEMMA SwallowStep ==
    ASSUME Inv, NEW l \in HashLines, Swallow(l)
    PROVE  Inv'
<1>1. PICK o \in {"token", "none", "diag"} : Produce(o) /\ Track(l)
  BY DEF Swallow
<1>2. UNCHANGED <<nested_ifs, mode, depth>> /\ hash' = FALSE /\ swallowed' = TRUE
  BY DEF Swallow
<1>3. TypeOK'
  BY <1>1, <1>2, TypeStep DEF Inv, TypeOK, Lines
<1>4. mode' = "consume_all" => consumedRest'
  BY <1>1, RestTracked DEF Inv
<1> QED
  BY <1>2, <1>3, <1>4 DEF Inv, Consuming, clean

----------------------------------------------------------------------------
(* The code's state agrees with the open groups of the file: type           *)
(* correctness, the depth of consume_directive, and for a clean file what   *)
(* is compiled and how long nested_ifs is.                                  *)
THEOREM Invariance == Spec => []Inv
<1>1. Init => Inv
  <2> SUFFICES ASSUME Init
               PROVE  Inv
    OBVIOUS
  <2>1. TypeOK
    <3>1. nested_ifs \in Seq(IfState) /\ groups \in Seq(Groups)
      BY EmptySeq DEF Init
    <3> QED
      BY <3>1 DEF Init, TypeOK, Modes
  <2>2. TextAgrees /\ NestedMirrorsGroups
    BY DEF Init, TextAgrees, NestedMirrorsGroups, Compiled
  <2> QED
    BY <2>1, <2>2 DEF Init, Inv, ConsumeAgrees, Consuming
<1>2. Inv /\ [Next]_vars => Inv'
  <2> SUFFICES ASSUME Inv, [Next]_vars
               PROVE  Inv'
    OBVIOUS
  <2>1. ASSUME NEW c \in Conditions, TextIf(c)
        PROVE  Inv'
    BY <2>1, TextIfStep
  <2>2. ASSUME NEW c \in Conditions, TextElif(c)
        PROVE  Inv'
    <3>1. Line("elif", c) \in Lines
      BY DEF Lines, HashLines
    <3> QED
      BY <2>2, <3>1, LeaveBranchStep DEF TextElif
  <2>3. ASSUME NEW c \in Conditions, ConsumeIf(c)
        PROVE  Inv'
    BY <2>3, ConsumeIfStep
  <2>4. ASSUME NEW c \in Conditions, ConsumeElif(c)
        PROVE  Inv'
    BY <2>4, ConsumeElifStep
  <2>5. ASSUME NEW k \in {"text", "define", "invalid"}, TextLine(k) \/ ConsumeLine(k)
        PROVE  Inv'
    BY <2>5, LineStep
  <2>12. CASE NullDirective
    BY <2>12, LineStep
  <2>13. ASSUME NEW l \in HashLines, Swallow(l)
         PROVE  Inv'
    BY <2>13, SwallowStep
  <2>6. CASE TextElse
    <3>1. Plain("else") \in Lines
      BY DEF Lines, HashLines
    <3> QED
      BY <2>6, <3>1, LeaveBranchStep DEF TextElse
  <2>7. CASE TextEndIf
    BY <2>7, TextEndIfStep
  <2>8. CASE TextEof \/ ConsumeEof
    BY <2>8, EofStep
  <2>9. CASE ConsumeElse
    BY <2>9, ConsumeElseStep
  <2>10. CASE ConsumeEndIf
    BY <2>10, ConsumeEndIfStep
  <2>11. CASE UNCHANGED vars
    BY <2>11 DEF Inv, TypeOK, clean, TextAgrees, ConsumeAgrees, NestedMirrorsGroups,
                 Compiled, Consuming, Base, vars
  <2> QED
    BY <2>1, <2>2, <2>3, <2>4, <2>5, <2>6, <2>7, <2>8, <2>9, <2>10, <2>11, <2>12, <2>13
       DEF Next, Finished
<1> QED
  BY <1>1, <1>2, PTL DEF Spec

(* Every variable keeps its type.                                           *)
THEOREM TypeCorrectness == Spec => []TypeOK
<1>1. Inv => TypeOK
  BY DEF Inv
<1> QED
  BY <1>1, Invariance, PTL

----------------------------------------------------------------------------
(* Which lines are diagnosed.                                               *)

(* In skipped lines the group that is skipped is open and not compiled.     *)
LEMMA SkippedGroup ==
    ASSUME Inv, clean, Consuming
    PROVE  /\ Len(groups) > 0
           /\ ~ Compiled(groups)
           /\ mode = "consume_if" /\ depth = 1 => Top(groups) = Group("waiting", "if")
<1>1. /\ Len(groups) \in Nat /\ depth \in Nat /\ depth > 0
      /\ mode \in {"consume_if", "consume_all"}
      /\ ConsumeAgrees
  BY DEF Inv, TypeOK, Consuming
<1>2. Base \in Nat /\ Base + 1 \in 1 .. Len(groups)
  BY <1>1 DEF ConsumeAgrees, Base
<1>3. groups[Base + 1].status \in {"waiting", "done"}
  BY <1>1, GroupFields DEF ConsumeAgrees
<1>4. mode = "consume_if" /\ depth = 1 => Top(groups) = Group("waiting", "if")
  <2>1. depth = 1 => Base + 1 = Len(groups)
    BY <1>1 DEF Base
  <2> QED
    BY <1>1, <2>1 DEF ConsumeAgrees, Top
<1> QED
  BY <1>1, <1>2, <1>3, <1>4 DEF Compiled

(* Until consume_all is entered, the last entry of nested_ifs tells whether *)
(* #else and #elif are allowed.                                             *)
LEMMA LastIfMirrorsTop ==
    ASSUME Inv, clean, mode = "text", ~ consumedRest
    PROVE  LastIf \in {"If", "Elif"} <=> Len(groups) > 0 /\ Top(groups).branch # "else"
<1>1. /\ Len(nested_ifs) = Len(groups)
      /\ \A i \in 1 .. Len(nested_ifs) : nested_ifs[i] = "Else" <=> groups[i].branch = "else"
      /\ Len(groups) \in Nat
  BY DEF Inv, TypeOK, NestedMirrorsGroups
<1>2. Len(nested_ifs) > 0 => nested_ifs[Len(nested_ifs)] \in IfState
  BY DEF Inv, TypeOK
<1> QED
  BY <1>1, <1>2 DEF LastIf, IfState, Top

(* What is compiled decides whether a condition is evaluated.               *)
LEMMA CompiledTop ==
    ASSUME Inv, clean, mode = "text"
    PROVE  /\ Compiled(groups)
           /\ Len(groups) > 0 => Top(groups).status = "selected"
           /\ Len(nested_ifs) >= Len(groups)
<1>1. TextAgrees /\ Len(groups) \in Nat
  BY DEF Inv, TypeOK
<1> QED
  BY <1>1 DEF TextAgrees, Compiled, Top

(* Is the line diagnosed, and is it allowed?                                *)
LEMMA DiagnosedStep ==
    ASSUME TypeOK, clean, NEW l, NEW o, Produce(o), Track(l)
    PROVE  /\ diagnosed' <=> o = "diag"
           /\ wellFormed' <=> Allowed(groups, l)
  BY Zenon DEF TypeOK, clean, Produce, Track

LEMMA AllowedIf ==
    ASSUME NEW g, NEW c
    PROVE  Allowed(g, Line("if", c)) <=> (Compiled(g) => c # "bad")
  BY DEF Allowed, Line

LEMMA AllowedElif ==
    ASSUME NEW g, NEW c
    PROVE  Allowed(g, Line("elif", c)) <=>
               /\ Len(g) > 0
               /\ Top(g).branch # "else"
               /\ Top(g).status = "waiting" => c # "bad"
  BY DEF Allowed, Line

LEMMA AllowedPlain ==
    ASSUME NEW g
    PROVE  /\ Allowed(g, Plain("else")) <=> Len(g) > 0 /\ Top(g).branch # "else"
           /\ Allowed(g, Plain("endif")) <=> Len(g) > 0
           /\ Allowed(g, Plain("text"))
           /\ Allowed(g, Plain("null"))
           /\ Allowed(g, Plain("define"))
           /\ Allowed(g, Plain("invalid")) <=> ~ Compiled(g)
           /\ Allowed(g, Plain("eof")) <=> Len(g) = 0
  BY DEF Allowed, Line, Plain

(* What a step from a clean state diagnoses.                                *)
LEMMA Verdict ==
    ASSUME Inv, clean, Next, ~ swallowed'
    PROVE  /\ diagnosed' /\ wellFormed' =>
                 consumedRest /\ (TextElse \/ \E c \in Conditions : TextElif(c))
           /\ ~ consumedRest /\ (mode = "text" \/ depth = 1) /\ ~ TextEof =>
                 (diagnosed' <=> ~ wellFormed')
<1>1. /\ Len(groups) \in Nat /\ Len(nested_ifs) \in Nat
      /\ TypeOK
      /\ ~ consumedRest => mode # "consume_all"
  BY DEF Inv, TypeOK, NestedMirrorsGroups
<1>2. ASSUME NEW c \in Conditions, TextIf(c)
      PROVE  diagnosed' <=> ~ wellFormed'
  <2>1. PICK o \in {"none", "diag"} :
           Produce(o) /\ Track(Line("if", c)) /\ (o = "diag" <=> c = "bad")
    BY <1>2 DEF TextIf, Conditions
  <2>2. Compiled(groups)
    BY <1>2, CompiledTop DEF TextIf
  <2> QED
    BY <1>1, <2>1, <2>2, DiagnosedStep, AllowedIf
<1>3. ASSUME NEW l, LeaveBranch, Track(l), ~ consumedRest,
             \/ \E c \in Conditions : l = Line("elif", c)
             \/ l = Plain("else")
      PROVE  diagnosed' <=> ~ wellFormed'
  <2>1. PICK o \in {"none", "diag"} : Produce(o) /\ (o = "none" <=> LastIf \in {"If", "Elif"})
    BY <1>3 DEF LeaveBranch
  <2>2. mode = "text"
    BY <1>3 DEF LeaveBranch
  <2>3. LastIf \in {"If", "Elif"} <=> Len(groups) > 0 /\ Top(groups).branch # "else"
    BY <1>3, <2>2, LastIfMirrorsTop
  <2>4. Len(groups) > 0 => Top(groups).status = "selected"
    BY <2>2, CompiledTop
  <2>5. Allowed(groups, l) <=> Len(groups) > 0 /\ Top(groups).branch # "else"
    BY <1>3, <2>4, AllowedElif, AllowedPlain
  <2>6. (diagnosed' <=> o = "diag") /\ (wellFormed' <=> Allowed(groups, l))
    BY <1>1, <1>3, <2>1, DiagnosedStep
  <2> QED
    BY <2>1, <2>3, <2>5, <2>6
<1>4. CASE TextEndIf
  <2>1. PICK o \in {"none", "diag"} :
           Produce(o) /\ Track(Plain("endif")) /\ (o = "diag" <=> Len(nested_ifs) = 0)
    BY <1>1, <1>4 DEF TextEndIf
  <2>2. mode = "text"
    BY <1>4 DEF TextEndIf
  <2>3. Len(nested_ifs) >= Len(groups)
    BY <2>2, CompiledTop
  <2>4. ~ consumedRest => Len(nested_ifs) = Len(groups)
    BY <2>2 DEF Inv, NestedMirrorsGroups
  <2>5. /\ diagnosed' <=> o = "diag"
        /\ wellFormed' <=> Len(groups) > 0
    BY <1>1, <2>1, DiagnosedStep, AllowedPlain
  <2> QED
    BY <1>1, <2>1, <2>3, <2>4, <2>5
<1>5. ASSUME NEW k \in {"text", "define", "invalid"}, TextLine(k)
      PROVE  diagnosed' <=> ~ wellFormed'
  <2>1. PICK o \in {"token", "none", "diag"} :
           Produce(o) /\ Track(Plain(k)) /\ (o = "diag" <=> k = "invalid")
    BY <1>5 DEF TextLine
  <2>2. Compiled(groups)
    BY <1>5, CompiledTop DEF TextLine
  <2>3. Allowed(groups, Plain(k)) <=> k # "invalid"
    BY <2>2, AllowedPlain
  <2> QED
    BY <1>1, <2>1, <2>3, DiagnosedStep
<1>6. CASE TextEof
  <2>1. Produce("none") /\ Track(Plain("eof"))
    BY <1>6 DEF TextEof
  <2>2. ~ diagnosed'
    BY <1>1, <2>1, DiagnosedStep
  <2> QED
    BY <1>6, <2>2
<1>7. ASSUME NEW c \in Conditions, ConsumeIf(c)
      PROVE  ~ diagnosed' /\ wellFormed'
  <2>1. Produce("none") /\ Track(Line("if", c)) /\ Consuming
    BY <1>7 DEF ConsumeIf
  <2>2. Allowed(groups, Line("if", c))
    BY <2>1, SkippedGroup, AllowedIf
  <2> QED
    BY <1>1, <2>1, <2>2, DiagnosedStep
<1>8. ASSUME NEW c \in Conditions, ConsumeElif(c)
      PROVE  /\ diagnosed' => ~ wellFormed'
             /\ mode = "consume_if" /\ depth = 1 => (diagnosed' <=> ~ wellFormed')
  <2>1. PICK o \in {"none", "diag"} :
           /\ Produce(o) /\ Track(Line("elif", c))
           /\ o = "diag" <=> mode = "consume_if" /\ depth = 1 /\ c = "bad"
    BY <1>1, <1>8 DEF ConsumeElif, Consuming, Conditions, Inv, TypeOK
  <2>2. /\ Len(groups) > 0
        /\ mode = "consume_if" /\ depth = 1 => Top(groups) = Group("waiting", "if")
    BY <1>8, SkippedGroup DEF ConsumeElif
  <2>3. mode = "consume_if" /\ depth = 1 => (Allowed(groups, Line("elif", c)) <=> c # "bad")
    BY <2>2, AllowedElif, GroupFields
  <2>4. /\ diagnosed' <=> o = "diag"
        /\ wellFormed' <=> Allowed(groups, Line("elif", c))
    BY <1>1, <2>1, DiagnosedStep
  <2> QED
    BY <2>1, <2>3, <2>4
<1>9. CASE ConsumeElse
  <2>1. Produce("none") /\ Track(Plain("else")) /\ Consuming
    BY <1>9 DEF ConsumeElse
  <2>2. ~ diagnosed' /\ (wellFormed' <=> Allowed(groups, Plain("else")))
    BY <1>1, <2>1, DiagnosedStep
  <2>3. mode = "consume_if" /\ depth = 1 => Allowed(groups, Plain("else"))
    BY <2>1, SkippedGroup, AllowedPlain, GroupFields
  <2> QED
    BY <1>1, <2>1, <2>2, <2>3 DEF Consuming
<1>10. CASE ConsumeEndIf
  <2>1. Produce("none") /\ Track(Plain("endif")) /\ Consuming
    BY <1>10 DEF ConsumeEndIf
  <2>2. Allowed(groups, Plain("endif"))
    BY <2>1, SkippedGroup, AllowedPlain
  <2> QED
    BY <1>1, <2>1, <2>2, DiagnosedStep
<1>11. ASSUME NEW k \in {"text", "define", "invalid"}, ConsumeLine(k)
       PROVE  ~ diagnosed' /\ wellFormed'
  <2>1. Produce("none") /\ Track(Plain(k)) /\ Consuming
    BY <1>11 DEF ConsumeLine
  <2>2. Allowed(groups, Plain(k))
    BY <2>1, SkippedGroup, AllowedPlain
  <2> QED
    BY <1>1, <2>1, <2>2, DiagnosedStep
<1>12. CASE ConsumeEof
  <2>1. Produce("diag") /\ Track(Plain("eof")) /\ Consuming
    BY <1>12 DEF ConsumeEof
  <2>2. ~ Allowed(groups, Plain("eof"))
    BY <1>1, <2>1, SkippedGroup, AllowedPlain
  <2> QED
    BY <1>1, <2>1, <2>2, DiagnosedStep
<1>13. CASE Finished
  BY <1>13, <1>1 DEF Finished, vars, clean, Inv, TypeOK
<1>16. CASE NullDirective
  <2>1. Produce("none") /\ Track(Plain("null"))
    BY <1>16 DEF NullDirective
  <2> QED
    BY <1>1, <2>1, DiagnosedStep, AllowedPlain
<1>17. ASSUME NEW l \in HashLines, Swallow(l)
       PROVE  FALSE
  BY <1>17 DEF Swallow
<1>14. CASE TextElse \/ \E c \in Conditions : TextElif(c)
  <2>1. ~ consumedRest => (diagnosed' <=> ~ wellFormed')
    BY <1>3, <1>14 DEF TextElse, TextElif
  <2> QED
    BY <1>14, <2>1
<1>15. CASE \E c \in Conditions : ConsumeElif(c)
  <2>1. Consuming
    BY <1>15 DEF ConsumeElif
  <2> QED
    BY <1>1, <1>8, <1>15, <2>1 DEF Consuming
<1> QED
  BY <1>2, <1>4, <1>5, <1>6, <1>7, <1>9, <1>10, <1>11, <1>12, <1>13, <1>14, <1>15,
     <1>16, <1>17, Zenon DEF Next

(* A line that is allowed where it stands is never diagnosed, but for #else *)
(* and #elif once consume_all was entered, and after a swallowed directive. *)
THEOREM OnlyElseMisjudgedHolds == Spec => OnlyElseMisjudged
<1>1. Inv /\ [Next]_vars =>
        [ ~ diagnosed /\ diagnosed' /\ wellFormed' /\ ~ swallowed'
            => consumedRest /\ (TextElse \/ \E c \in Conditions : TextElif(c)) ]_vars
  <2> SUFFICES ASSUME Inv, [Next]_vars,
                      ~ diagnosed, diagnosed', wellFormed', ~ swallowed'
               PROVE  consumedRest /\ (TextElse \/ \E c \in Conditions : TextElif(c))
    OBVIOUS
  <2>1. Next
    BY DEF vars
  <2>2. wellFormed
    BY <2>1 DEF Next, NullDirective, Swallow, TextIf, TextElif, TextElse, TextEndIf, TextLine,
               TextEof, ConsumeIf,
               ConsumeElif, ConsumeElse, ConsumeEndIf, ConsumeLine, ConsumeEof, Finished,
               Track, vars, Inv, TypeOK
  <2>3. ~ swallowed
    BY <2>1 DEF Next, NullDirective, Swallow, TextIf, TextElif, TextElse, LeaveBranch, TextEndIf,
               TextLine, TextEof, ConsumeIf, ConsumeElif, ConsumeElse, ConsumeEndIf, ConsumeLine,
               ConsumeEof, Finished, Directive, Recognised, vars
  <2> QED
    BY <2>1, <2>2, <2>3, Verdict DEF clean
<1> QED
  BY <1>1, Invariance, PTL DEF Spec, OnlyElseMisjudged

(* Before consume_all is entered, outside groups nested in skipped lines,   *)
(* a line that is not swallowed is diagnosed exactly when it is not         *)
(* allowed.                                                                 *)
THEOREM ExactUntilRestConsumedHolds == Spec => ExactUntilRestConsumed
<1>1. Inv /\ [Next]_vars =>
        [ clean /\ ~ swallowed' /\ ~ consumedRest /\ (mode = "text" \/ depth = 1) /\ ~ TextEof
            => (diagnosed' <=> ~ wellFormed') ]_vars
  BY Verdict
<1> QED
  BY <1>1, Invariance, PTL DEF Spec, ExactUntilRestConsumed

----------------------------------------------------------------------------
(* The preprocessor implements conditional inclusion until it reports a     *)
(* diagnostic or the file is ill-formed.                                    *)

(* The instance Reference has its own copy of the vocabulary.               *)
LEMMA SameVocabulary ==
    /\ Reference!Conditions = Conditions
    /\ \A k, c : Reference!Line(k, c) = Line(k, c)
    /\ \A k : Reference!Plain(k) = Plain(k)
    /\ \A g : Reference!Compiled(g) = Compiled(g)
    /\ \A g, l : Reference!Allowed(g, l) = Allowed(g, l)
    /\ \A g, l : Reference!After(g, l) = After(g, l)
    /\ Reference!Lines = Lines
<1>1. \A g : Reference!Compiled(g) = Compiled(g)
  BY DEF Reference!Compiled, Compiled
<1>2. \A g : Reference!Top(g) = Top(g)
  BY DEF Reference!Top, Top
<1>3. \A g : Reference!Outer(g) = Outer(g)
  BY DEF Reference!Outer, Outer
<1>4. \A s, c : Reference!Switched(s, c) = Switched(s, c) /\ Reference!Group(s, c) = Group(s, c)
  BY DEF Reference!Switched, Switched, Reference!Group, Group
<1>5. \A g, c : Reference!Opened(g, c) = Opened(g, c)
  BY <1>1 DEF Reference!Opened, Opened
<1>6. \A g, l : Reference!Allowed(g, l) = Allowed(g, l)
  BY <1>1, <1>2 DEF Reference!Allowed, Allowed
<1>7. \A g, l : Reference!After(g, l) = After(g, l)
  BY <1>2, <1>3, <1>4, <1>5 DEF Reference!After, After
<1>8. /\ Reference!Conditions = Conditions
      /\ \A k, c : Reference!Line(k, c) = Line(k, c)
      /\ \A k : Reference!Plain(k) = Plain(k)
  BY DEF Reference!Conditions, Conditions, Reference!Line, Line, Reference!Plain, Plain
<1>9. Reference!Lines = Lines
  BY <1>8 DEF Reference!Lines, Lines, Reference!HashLines, HashLines
<1> QED
  BY <1>1, <1>6, <1>7, <1>8, <1>9

LEMMA LineOfReference ==
    ASSUME NEW l \in Lines
    PROVE  Reference!Read(l) => Reference!Next
  BY SameVocabulary DEF Reference!Next

(* A step that leaves the file clean reads an allowed line and delivers     *)
(* what the reference delivers.                                             *)
LEMMA CleanStepReads ==
    ASSUME Inv, NEW l \in Lines, NEW o, Produce(o), Track(l), UNCHANGED swallowed, clean',
           o # "diag" => (o = IF l.kind = "text" /\ Compiled(groups) THEN "token" ELSE "none")
    PROVE  Reference!Next
<1>1. clean /\ Allowed(groups, l) /\ o # "diag" /\ groups' = After(groups, l)
  BY CleanStep DEF Inv
<1>2. Reference!Read(l)
  BY <1>1, SameVocabulary DEF Reference!Read, Produce, clean
<1> QED
  BY <1>2, LineOfReference

LEMMA StepImplements ==
    ASSUME Inv, [Next]_vars
    PROVE  [Reference!Next]_(Reference!avars)
<1>1. CASE UNCHANGED vars
  BY <1>1 DEF vars, clean, Reference!avars
<1>2. CASE ~ clean'
  <2>1. clean' = FALSE
    BY <1>2 DEF clean
  <2> QED
    BY <2>1 DEF Reference!Next, Reference!GiveUp
<1>3. CASE clean' /\ Next
  <2>0. UNCHANGED swallowed
    BY <1>3 DEF clean, Next, NullDirective, Swallow, TextIf, TextElif, TextElse, LeaveBranch,
               TextEndIf, TextLine, TextEof, ConsumeIf, ConsumeElif, ConsumeElse, ConsumeEndIf,
               ConsumeLine, ConsumeEof, Finished, Directive, Recognised, vars
  <2>1. ASSUME NEW c \in Conditions, TextIf(c) \/ ConsumeIf(c) \/ TextElif(c) \/ ConsumeElif(c)
        PROVE  Reference!Next
    <3>1. PICK k \in {"if", "elif"}, o \in {"none", "diag"} : Produce(o) /\ Track(Line(k, c))
      BY <2>1 DEF TextIf, ConsumeIf, TextElif, ConsumeElif, LeaveBranch
    <3>2. Line(k, c) \in Lines /\ Line(k, c).kind # "text"
      BY DEF Lines, HashLines, Line
    <3> QED
      BY <1>3, <3>1, <3>2, <2>0, CleanStepReads
  <2>2. CASE TextElse \/ ConsumeElse \/ TextEndIf \/ ConsumeEndIf \/ TextEof \/ ConsumeEof
    <3>1. PICK k \in {"else", "endif", "eof"}, o \in {"none", "diag"} :
             Produce(o) /\ Track(Plain(k))
      BY <2>2 DEF TextElse, ConsumeElse, TextEndIf, ConsumeEndIf, TextEof, ConsumeEof, LeaveBranch
    <3>2. Plain(k) \in Lines /\ Plain(k).kind # "text"
      BY DEF Lines, HashLines, Plain, Line
    <3> QED
      BY <1>3, <3>1, <3>2, <2>0, CleanStepReads
  <2>3. ASSUME NEW k \in {"text", "define", "invalid"}, TextLine(k)
        PROVE  Reference!Next
    <3>1. PICK o : /\ o = CASE k = "text" -> "token" [] k = "define" -> "none" [] OTHER -> "diag"
                   /\ Produce(o) /\ Track(Plain(k))
      BY <2>3 DEF TextLine
    <3>2. Plain(k) \in Lines /\ Plain(k).kind = k
      BY DEF Lines, HashLines, Plain, Line
    <3>3. clean
      BY <1>3, <3>1, <2>0, CleanStep DEF Inv
    <3>4. Compiled(groups)
      BY <2>3, <3>3, CompiledTop DEF TextLine
    <3> QED
      BY <1>3, <3>1, <3>2, <3>4, <2>0, CleanStepReads
  <2>4. ASSUME NEW k \in {"text", "define", "invalid"}, ConsumeLine(k)
        PROVE  Reference!Next
    <3>1. Produce("none") /\ Track(Plain(k)) /\ Consuming
      BY <2>4 DEF ConsumeLine
    <3>2. Plain(k) \in Lines
      BY DEF Lines, HashLines
    <3>3. clean
      BY <1>3, <3>1, <2>0, CleanStep DEF Inv
    <3>4. ~ Compiled(groups)
      BY <3>1, <3>3, SkippedGroup
    <3> QED
      BY <1>3, <3>1, <3>2, <3>4, <2>0, CleanStepReads
  <2>6. CASE NullDirective
    <3>1. Produce("none") /\ Track(Plain("null"))
      BY <2>6 DEF NullDirective
    <3>2. Plain("null") \in Lines /\ Plain("null").kind # "text"
      BY DEF Lines, HashLines, Plain, Line
    <3> QED
      BY <1>3, <3>1, <3>2, <2>0, CleanStepReads
  <2>7. ASSUME NEW l \in HashLines, Swallow(l)
        PROVE  FALSE
    BY <1>3, <2>7 DEF Swallow, clean
  <2>5. CASE Finished
    BY <2>5 DEF Finished, vars, clean, Reference!avars
  <2> QED
    BY <1>3, <2>1, <2>2, <2>3, <2>4, <2>5, <2>6, <2>7 DEF Next
<1> QED
  BY <1>1, <1>2, <1>3

(* On a clean file exactly the lines of the selected branches are compiled. *)
THEOREM Refinement == Spec => ImplementsReference
<1>1. Init => Reference!Init
  BY DEF Init, Reference!Init, clean
<1>2. Inv /\ [Next]_vars => [Reference!Next]_(Reference!avars)
  BY StepImplements
<1> QED
  BY <1>1, <1>2, Invariance, PTL DEF Spec, ImplementsReference, Reference!Spec
=============================================================================
