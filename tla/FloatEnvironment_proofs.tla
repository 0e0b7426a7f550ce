----------------------- MODULE FloatEnvironment_proofs -----------------------
(***************************************************************************)
(* Theorems of FloatEnvironment.                                            *)
(***************************************************************************)
EXTENDS FloatEnvironment, SequenceTheorems, TLAPS

(* The contexts that a call of thread t has fetched are its own.            *)
IsOwn(t, l) ==
    /\ DOMAIN l = {"todo", "call", "at", "c", "mode", "flags", "answer"}
    /\ l.at \in {t, Null}
    /\ l.c \in {t, Null}

(* The context that is bound is the running thread's.                       *)
EnvironmentInvariant ==
    /\ DOMAIN contexts = Threads
    /\ DOMAIN local = Threads
    /\ running \in Threads
    /\ Current = running
    /\ \A t \in Threads : IsOwn(t, local[t])

LEMMA NullIsNoThread == Null \notin Threads /\ Boot \in Threads
    BY ThreadsAssumption DEF Threads, Null, Boot

LEMMA BlankIsOwn == ASSUME NEW t PROVE IsOwn(t, Blank)
    BY DEF IsOwn, Blank

(* What a call does to the locals, and what it stores.                      *)
LEMMA OnwardIsOwn ==
    ASSUME EnvironmentInvariant, NEW t \in Threads, NEW l, IsOwn(t, l), Onward(t, l)
    PROVE  DOMAIN local' = Threads /\ \A u \in Threads : IsOwn(u, local'[u])
<1>1. local' = [local EXCEPT ![t] = local'[t]]
    BY DEF Onward, EnvironmentInvariant
<1>2. local'[t] = Blank \/ local'[t] = [l EXCEPT !.todo = Tail(@)]
    BY DEF Onward, EnvironmentInvariant
<1>3. IsOwn(t, [l EXCEPT !.todo = Tail(@)])
    BY DEF IsOwn
<1> QED
    BY <1>1, <1>2, <1>3, BlankIsOwn DEF EnvironmentInvariant

LEMMA StoreIsOwn ==
    ASSUME EnvironmentInvariant, NEW t \in Threads, NEW p \in {t, Null},
           NEW flags, NEW rounding, Store(p, flags, rounding)
    PROVE  DOMAIN contexts' = Threads /\ \A u \in Threads : u # t => contexts'[u] = contexts[u]
BY NullIsNoThread DEF Store, EnvironmentInvariant

(* What every step of thread t does.                                        *)
Private(t) ==
    /\ running = t
    /\ UNCHANGED <<running, bound>>
    /\ DOMAIN contexts' = Threads
    /\ \A u \in Threads : u # t => contexts'[u] = contexts[u]
    /\ DOMAIN local' = Threads
    /\ \A u \in Threads : IsOwn(u, local'[u])

LEMMA StepIsPrivate ==
    ASSUME EnvironmentInvariant, NEW t \in Threads, Step(t)
    PROVE  Private(t)
<1> DEFINE own == IsOwn(t, local[t])
<1>own. own
    BY DEF EnvironmentInvariant
<1>here. local[t].at \in {t, Null} /\ local[t].c \in {t, Null}
    BY <1>own DEF IsOwn
<1>same. UNCHANGED contexts => DOMAIN contexts' = Threads /\ \A u \in Threads : u # t => contexts'[u] = contexts[u]
    BY DEF EnvironmentInvariant
<1>1. CASE Fetch(t)
  <2>1. running = t /\ Current = t
      BY <1>1 DEF Fetch, Next1, EnvironmentInvariant
  <2>2. IsOwn(t, [local[t] EXCEPT !.at = Current])
      BY <1>own, <2>1 DEF IsOwn
  <2> QED
      BY <1>1, <2>1, <2>2, <1>same, OnwardIsOwn DEF Fetch, Private
<1>2. CASE Clear(t)
    BY <1>2, <1>own, <1>here, OnwardIsOwn, StoreIsOwn DEF Clear, Next1, Private
<1>3. CASE Raise(t)
  <2>1. IsOwn(t, [local[t] EXCEPT !.answer = << >>])
      BY <1>own DEF IsOwn
  <2> QED
      BY <1>3, <1>here, <2>1, OnwardIsOwn, StoreIsOwn DEF Raise, Next1, Private
<1>4. CASE GetFlags(t)
    BY <1>4, <1>own, <1>same, OnwardIsOwn DEF GetFlags, Next1, Private
<1>5. CASE GetEnvironment(t)
    BY <1>5, <1>own, <1>same, OnwardIsOwn DEF GetEnvironment, Next1, Private
<1>6. CASE TakeFlags(t)
  <2>1. IsOwn(t, [local[t] EXCEPT !.flags = Here(t).flags])
      BY <1>own DEF IsOwn
  <2> QED
      BY <1>6, <1>same, <2>1, OnwardIsOwn DEF TakeFlags, Next1, Private
<1>7. CASE SetFlags(t)
    BY <1>7, <1>own, <1>here, OnwardIsOwn, StoreIsOwn DEF SetFlags, Next1, Private
<1>8. CASE RejectEnvironment(t)
    BY <1>8, <1>same, BlankIsOwn DEF RejectEnvironment, Next1, Private, EnvironmentInvariant
<1>9. CASE SetRounding(t)
  <2>1. PICK rounding : Store(local[t].at, Here(t).flags, rounding)
      BY <1>9 DEF SetRounding
  <2> QED
      BY <1>9, <2>1, <1>own, <1>here, OnwardIsOwn, StoreIsOwn DEF SetRounding, Next1, Private
<1>10. CASE Evaluate(t)
  <2>1. PICK answer : Onward(t, [local[t] EXCEPT !.answer = answer])
      BY <1>10 DEF Evaluate
  <2>2. IsOwn(t, [local[t] EXCEPT !.answer = answer])
      BY <1>own DEF IsOwn
  <2> QED
      BY <1>10, <1>same, <2>1, <2>2, OnwardIsOwn DEF Evaluate, Next1, Private
<1>11. CASE Swap(t)
  <2>1. UNCHANGED contexts \/ \E flags, rounding : Store(local[t].c, flags, rounding)
      BY <1>11 DEF Swap
  <2>2. DOMAIN contexts' = Threads /\ \A u \in Threads : u # t => contexts'[u] = contexts[u]
      BY <2>1, <1>same, <1>here, StoreIsOwn
  <2> QED
      BY <1>11, <1>own, <2>2, OnwardIsOwn DEF Swap, Next1, Private
<1>12. CASE Restore(t)
    BY <1>12, <1>own, <1>here, OnwardIsOwn, StoreIsOwn DEF Restore, Next1, Private
<1>13. CASE TakeMode(t)
  <2>1. IsOwn(t, [local[t] EXCEPT !.c = local[t].at, !.mode = Here(t).rounding])
      BY <1>own DEF IsOwn
  <2> QED
      BY <1>13, <1>same, <2>1, OnwardIsOwn DEF TakeMode, Next1, Private
<1>14. CASE Again(t)
  <2>1. running = t /\ UNCHANGED <<contexts, running, bound>>
      BY <1>14 DEF Again, Next1
  <2>2. PICK todo : local' = [local EXCEPT ![t] = [local[t] EXCEPT !.todo = todo]]
      BY <1>14 DEF Again
  <2>3. IsOwn(t, [local[t] EXCEPT !.todo = todo])
      BY <1>own DEF IsOwn
  <2> QED
      BY <1>same, <2>1, <2>2, <2>3 DEF Private, EnvironmentInvariant
<1>15. CASE Return(t)
    BY <1>15, <1>same, BlankIsOwn DEF Return, Next1, Private, EnvironmentInvariant
<1>16. CASE Pole(t)
  <2>1. running = t /\ UNCHANGED <<running, bound>> /\ local' = [local EXCEPT ![t] = Blank]
      BY <1>16 DEF Pole, Next1
  <2>2. \E flags, rounding : Store(local[t].c, flags, rounding)
      BY <1>16 DEF Pole
  <2>3. DOMAIN contexts' = Threads /\ \A u \in Threads : u # t => contexts'[u] = contexts[u]
      BY <2>2, <1>here, StoreIsOwn
  <2> QED
      BY <2>1, <2>3, BlankIsOwn DEF Private, EnvironmentInvariant
<1> QED
    BY <1>1, <1>2, <1>3, <1>4, <1>5, <1>6, <1>7, <1>8, <1>9, <1>10, <1>11, <1>12, <1>13,
       <1>14, <1>15, <1>16 DEF Step

LEMMA CallIsPrivate ==
    ASSUME EnvironmentInvariant, NEW t \in Threads, NEW c, Call(t, c)
    PROVE  Private(t)
<1>1. IsOwn(t, [Blank EXCEPT !.todo = Script(c), !.call = c])
    BY DEF IsOwn, Blank
<1> QED
    BY <1>1 DEF Call, Private, EnvironmentInvariant

LEMMA PrivateKeepsInvariant ==
    ASSUME EnvironmentInvariant, NEW t \in Threads, Private(t)
    PROVE  EnvironmentInvariant'
BY DEF Private, EnvironmentInvariant, Current

LEMMA SwitchKeepsInvariant ==
    ASSUME EnvironmentInvariant, NEW t \in Threads, Switch(t)
    PROVE  EnvironmentInvariant'
BY NullIsNoThread DEF Switch, Pointers, EnvironmentInvariant, Current

LEMMA InitialEnvironment == Init => EnvironmentInvariant
    BY NullIsNoThread, BlankIsOwn DEF Init, EnvironmentInvariant, Current

LEMMA NextKeepsEnvironment == EnvironmentInvariant /\ [Next]_vars => EnvironmentInvariant'
<1> SUFFICES ASSUME EnvironmentInvariant, [Next]_vars PROVE EnvironmentInvariant'
    OBVIOUS
<1>1. CASE UNCHANGED vars
    BY <1>1 DEF vars, EnvironmentInvariant, Current
<1>2. ASSUME NEW t \in Threads, Switch(t) PROVE EnvironmentInvariant'
    BY <1>2, SwitchKeepsInvariant
<1>3. ASSUME NEW t \in Threads, Step(t) PROVE EnvironmentInvariant'
    BY <1>3, StepIsPrivate, PrivateKeepsInvariant
<1>4. ASSUME NEW t \in Threads, NEW c, Call(t, c) PROVE EnvironmentInvariant'
    BY <1>4, CallIsPrivate, PrivateKeepsInvariant
<1> QED
    BY <1>1, <1>2, <1>3, <1>4 DEF Next

(* Whatever the threads call and wherever the scheduler stops them, the     *)
(* context that is current is the running thread's, and the contexts that   *)
(* its calls go on to read and write are its own.                           *)
THEOREM CurrentIsOwn == Spec => []EnvironmentInvariant
<1> QED
    BY InitialEnvironment, NextKeepsEnvironment, PTL DEF Spec

(* The environment of a thread is changed only by the thread.               *)
THEOREM EnvironmentsArePrivate == Spec => PrivateEnvironments
<1>1. EnvironmentInvariant /\ [Next]_vars
        => [\A t \in Threads : contexts'[t] # contexts[t] => running = t]_vars
  <2> SUFFICES ASSUME EnvironmentInvariant, Next, NEW u \in Threads, contexts'[u] # contexts[u]
               PROVE  running = u
      OBVIOUS
  <2>1. ASSUME NEW t \in Threads, Switch(t) PROVE FALSE
      BY <2>1 DEF Switch
  <2>2. ASSUME NEW t \in Threads, Private(t) PROVE running = u
      BY <2>2 DEF Private
  <2> QED
      BY <2>1, <2>2, StepIsPrivate, CallIsPrivate DEF Next
<1> QED
    BY <1>1, CurrentIsOwn, PTL DEF Spec, PrivateEnvironments

----------------------------------------------------------------------------
(* When a call takes effect                                                 *)

(* What is left of a sequence of steps is determined by how many are left.   *)
Left2(s, a, b) ==
    \/ s = <<a, b>> /\ Len(s) = 2 /\ Head(s) = a /\ Tail(s) = <<b>>
    \/ s = <<b>> /\ Len(s) = 1 /\ Head(s) = b

LEMMA RestOf2 ==
    ASSUME NEW a, NEW b, NEW s,
           s \in {<<a, b>>, <<b>>}
    PROVE  Left2(s, a, b) /\ s # << >>
<1>1. CASE s = <<a, b>>
    BY <1>1 DEF Left2
<1>2. CASE s = <<b>>
    BY <1>2 DEF Left2
<1> QED
    BY <1>1, <1>2

Left3(s, a, b, c) ==
    \/ s = <<a, b, c>> /\ Len(s) = 3 /\ Head(s) = a /\ Tail(s) = <<b, c>>
    \/ s = <<b, c>> /\ Len(s) = 2 /\ Head(s) = b /\ Tail(s) = <<c>>
    \/ s = <<c>> /\ Len(s) = 1 /\ Head(s) = c

LEMMA RestOf3 ==
    ASSUME NEW a, NEW b, NEW c, NEW s,
           s \in {<<a, b, c>>, <<b, c>>, <<c>>}
    PROVE  Left3(s, a, b, c) /\ s # << >>
<1>1. CASE s = <<a, b, c>>
    BY <1>1 DEF Left3
<1>2. CASE s = <<b, c>>
    BY <1>2 DEF Left3
<1>3. CASE s = <<c>>
    BY <1>3 DEF Left3
<1> QED
    BY <1>1, <1>2, <1>3

Left4(s, a, b, c, d) ==
    \/ s = <<a, b, c, d>> /\ Len(s) = 4 /\ Head(s) = a /\ Tail(s) = <<b, c, d>>
    \/ s = <<b, c, d>> /\ Len(s) = 3 /\ Head(s) = b /\ Tail(s) = <<c, d>>
    \/ s = <<c, d>> /\ Len(s) = 2 /\ Head(s) = c /\ Tail(s) = <<d>>
    \/ s = <<d>> /\ Len(s) = 1 /\ Head(s) = d

LEMMA RestOf4 ==
    ASSUME NEW a, NEW b, NEW c, NEW d, NEW s,
           s \in {<<a, b, c, d>>, <<b, c, d>>, <<c, d>>, <<d>>}
    PROVE  Left4(s, a, b, c, d) /\ s # << >>
<1>1. CASE s = <<a, b, c, d>>
    BY <1>1 DEF Left4
<1>2. CASE s = <<b, c, d>>
    BY <1>2 DEF Left4
<1>3. CASE s = <<c, d>>
    BY <1>3 DEF Left4
<1>4. CASE s = <<d>>
    BY <1>4 DEF Left4
<1> QED
    BY <1>1, <1>2, <1>3, <1>4

Left7(s, a, b, c, d, e, f, g) ==
    \/ s = <<a, b, c, d, e, f, g>> /\ Len(s) = 7 /\ Head(s) = a /\ Tail(s) = <<b, c, d, e, f, g>>
    \/ s = <<b, c, d, e, f, g>> /\ Len(s) = 6 /\ Head(s) = b /\ Tail(s) = <<c, d, e, f, g>>
    \/ s = <<c, d, e, f, g>> /\ Len(s) = 5 /\ Head(s) = c /\ Tail(s) = <<d, e, f, g>>
    \/ s = <<d, e, f, g>> /\ Len(s) = 4 /\ Head(s) = d /\ Tail(s) = <<e, f, g>>
    \/ s = <<e, f, g>> /\ Len(s) = 3 /\ Head(s) = e /\ Tail(s) = <<f, g>>
    \/ s = <<f, g>> /\ Len(s) = 2 /\ Head(s) = f /\ Tail(s) = <<g>>
    \/ s = <<g>> /\ Len(s) = 1 /\ Head(s) = g

LEMMA RestOf7 ==
    ASSUME NEW a, NEW b, NEW c, NEW d, NEW e, NEW f, NEW g, NEW s,
           s \in {<<a, b, c, d, e, f, g>>, <<b, c, d, e, f, g>>, <<c, d, e, f, g>>, <<d, e, f, g>>, <<e, f, g>>, <<f, g>>, <<g>>}
    PROVE  Left7(s, a, b, c, d, e, f, g) /\ s # << >>
<1>1. CASE s = <<a, b, c, d, e, f, g>>
    BY <1>1 DEF Left7
<1>2. CASE s = <<b, c, d, e, f, g>>
    BY <1>2 DEF Left7
<1>3. CASE s = <<c, d, e, f, g>>
    BY <1>3 DEF Left7
<1>4. CASE s = <<d, e, f, g>>
    BY <1>4 DEF Left7
<1>5. CASE s = <<e, f, g>>
    BY <1>5 DEF Left7
<1>6. CASE s = <<f, g>>
    BY <1>6 DEF Left7
<1>7. CASE s = <<g>>
    BY <1>7 DEF Left7
<1> QED
    BY <1>1, <1>2, <1>3, <1>4, <1>5, <1>6, <1>7

Left10(s, a, b, c, d, e, f, g, h, i, j) ==
    \/ s = <<a, b, c, d, e, f, g, h, i, j>> /\ Len(s) = 10 /\ Head(s) = a /\ Tail(s) = <<b, c, d, e, f, g, h, i, j>>
    \/ s = <<b, c, d, e, f, g, h, i, j>> /\ Len(s) = 9 /\ Head(s) = b /\ Tail(s) = <<c, d, e, f, g, h, i, j>>
    \/ s = <<c, d, e, f, g, h, i, j>> /\ Len(s) = 8 /\ Head(s) = c /\ Tail(s) = <<d, e, f, g, h, i, j>>
    \/ s = <<d, e, f, g, h, i, j>> /\ Len(s) = 7 /\ Head(s) = d /\ Tail(s) = <<e, f, g, h, i, j>>
    \/ s = <<e, f, g, h, i, j>> /\ Len(s) = 6 /\ Head(s) = e /\ Tail(s) = <<f, g, h, i, j>>
    \/ s = <<f, g, h, i, j>> /\ Len(s) = 5 /\ Head(s) = f /\ Tail(s) = <<g, h, i, j>>
    \/ s = <<g, h, i, j>> /\ Len(s) = 4 /\ Head(s) = g /\ Tail(s) = <<h, i, j>>
    \/ s = <<h, i, j>> /\ Len(s) = 3 /\ Head(s) = h /\ Tail(s) = <<i, j>>
    \/ s = <<i, j>> /\ Len(s) = 2 /\ Head(s) = i /\ Tail(s) = <<j>>
    \/ s = <<j>> /\ Len(s) = 1 /\ Head(s) = j

LEMMA RestOf10 ==
    ASSUME NEW a, NEW b, NEW c, NEW d, NEW e, NEW f, NEW g, NEW h, NEW i, NEW j,
           NEW s,
           s \in {<<a, b, c, d, e, f, g, h, i, j>>,
                  <<b, c, d, e, f, g, h, i, j>>,
                  <<c, d, e, f, g, h, i, j>>,
                  <<d, e, f, g, h, i, j>>,
                  <<e, f, g, h, i, j>>,
                  <<f, g, h, i, j>>,
                  <<g, h, i, j>>,
                  <<h, i, j>>,
                  <<i, j>>,
                  <<j>>}
    PROVE  Left10(s, a, b, c, d, e, f, g, h, i, j) /\ s # << >>
<1>1. CASE s = <<a, b, c, d, e, f, g, h, i, j>>
    BY <1>1 DEF Left10
<1>2. CASE s = <<b, c, d, e, f, g, h, i, j>>
    BY <1>2 DEF Left10
<1>3. CASE s = <<c, d, e, f, g, h, i, j>>
    BY <1>3 DEF Left10
<1>4. CASE s = <<d, e, f, g, h, i, j>>
    BY <1>4 DEF Left10
<1>5. CASE s = <<e, f, g, h, i, j>>
    BY <1>5 DEF Left10
<1>6. CASE s = <<f, g, h, i, j>>
    BY <1>6 DEF Left10
<1>7. CASE s = <<g, h, i, j>>
    BY <1>7 DEF Left10
<1>8. CASE s = <<h, i, j>>
    BY <1>8 DEF Left10
<1>9. CASE s = <<i, j>>
    BY <1>9 DEF Left10
<1>10. CASE s = <<j>>
    BY <1>10 DEF Left10
<1> QED
    BY <1>1, <1>2, <1>3, <1>4, <1>5, <1>6, <1>7, <1>8, <1>9, <1>10

(* What may be left of a call, its first step included, and which step is    *)
(* next when there are n of them.                                           *)
Due(op, todo) ==
    \/ /\ op = "feclearexcept"
       /\ todo \in {<<"fetch", "clear">>, <<"clear">>}
    \/ /\ op = "feraiseexcept"
       /\ todo \in {<<"fetch", "raise">>, <<"raise">>}
    \/ /\ op = "fegetexceptflag"
       /\ todo \in {<<"fetch", "get_flags">>, <<"get_flags">>}
    \/ /\ op = "fesetexceptflag"
       /\ todo \in {<<"fetch", "clear", "raise">>,
                     <<"clear", "raise">>,
                     <<"raise">>}
    \/ /\ op = "fesetround"
       /\ todo \in {<<"fetch", "set_rounding">>, <<"set_rounding">>}
    \/ /\ op = "fegetenv"
       /\ todo \in {<<"fetch", "get_environment">>, <<"get_environment">>}
    \/ /\ op = "feholdexcept"
       /\ todo \in {<<"fetch", "get_environment", "fetch", "clear">>,
                     <<"get_environment", "fetch", "clear">>,
                     <<"fetch", "clear">>,
                     <<"clear">>}
    \/ /\ op = "fesetenv"
       /\ todo \in {<<"fetch", "set_flags", "set_rounding">>,
                     <<"set_flags", "set_rounding">>,
                     <<"set_rounding">>}
    \/ /\ op = "feupdateenv"
       /\ todo \in {<<"fetch", "take_flags", "fetch", "set_flags", "set_rounding", "fetch", "raise">>,
                     <<"take_flags", "fetch", "set_flags", "set_rounding", "fetch", "raise">>,
                     <<"fetch", "set_flags", "set_rounding", "fetch", "raise">>,
                     <<"set_flags", "set_rounding", "fetch", "raise">>,
                     <<"set_rounding", "fetch", "raise">>,
                     <<"fetch", "raise">>,
                     <<"raise">>}
    \/ /\ op = "tgamma"
       /\ todo \in {<<"fetch", "take_mode", "fetch", "evaluate", "raise", "swap", "fetch", "evaluate", "raise", "restore">>,
                     <<"take_mode", "fetch", "evaluate", "raise", "swap", "fetch", "evaluate", "raise", "restore">>,
                     <<"fetch", "evaluate", "raise", "swap", "fetch", "evaluate", "raise", "restore">>,
                     <<"evaluate", "raise", "swap", "fetch", "evaluate", "raise", "restore">>,
                     <<"raise", "swap", "fetch", "evaluate", "raise", "restore">>,
                     <<"swap", "fetch", "evaluate", "raise", "restore">>,
                     <<"fetch", "evaluate", "raise", "restore">>,
                     <<"evaluate", "raise", "restore">>,
                     <<"raise", "restore">>,
                     <<"restore">>}
    \/ /\ op = "operation"
       /\ todo \in {<<"fetch", "evaluate", "raise">>,
                     <<"evaluate", "raise">>,
                     <<"raise">>}

Stage(op, n, step) ==
    \/ op = "feclearexcept"
       /\ \/ n = 2 /\ step = "fetch"
          \/ n = 1 /\ step = "clear"
    \/ op = "feraiseexcept"
       /\ \/ n = 2 /\ step = "fetch"
          \/ n = 1 /\ step = "raise"
    \/ op = "fegetexceptflag"
       /\ \/ n = 2 /\ step = "fetch"
          \/ n = 1 /\ step = "get_flags"
    \/ op = "fesetexceptflag"
       /\ \/ n = 3 /\ step = "fetch"
          \/ n = 2 /\ step = "clear"
          \/ n = 1 /\ step = "raise"
    \/ op = "fesetround"
       /\ \/ n = 2 /\ step = "fetch"
          \/ n = 1 /\ step = "set_rounding"
    \/ op = "fegetenv"
       /\ \/ n = 2 /\ step = "fetch"
          \/ n = 1 /\ step = "get_environment"
    \/ op = "feholdexcept"
       /\ \/ n = 4 /\ step = "fetch"
          \/ n = 3 /\ step = "get_environment"
          \/ n = 2 /\ step = "fetch"
          \/ n = 1 /\ step = "clear"
    \/ op = "fesetenv"
       /\ \/ n = 3 /\ step = "fetch"
          \/ n = 2 /\ step = "set_flags"
          \/ n = 1 /\ step = "set_rounding"
    \/ op = "feupdateenv"
       /\ \/ n = 7 /\ step = "fetch"
          \/ n = 6 /\ step = "take_flags"
          \/ n = 5 /\ step = "fetch"
          \/ n = 4 /\ step = "set_flags"
          \/ n = 3 /\ step = "set_rounding"
          \/ n = 2 /\ step = "fetch"
          \/ n = 1 /\ step = "raise"
    \/ op = "tgamma"
       /\ \/ n = 10 /\ step = "fetch"
          \/ n = 9 /\ step = "take_mode"
          \/ n = 8 /\ step = "fetch"
          \/ n = 7 /\ step = "evaluate"
          \/ n = 6 /\ step = "raise"
          \/ n = 5 /\ step = "swap"
          \/ n = 4 /\ step = "fetch"
          \/ n = 3 /\ step = "evaluate"
          \/ n = 2 /\ step = "raise"
          \/ n = 1 /\ step = "restore"
    \/ op = "operation"
       /\ \/ n = 3 /\ step = "fetch"
          \/ n = 2 /\ step = "evaluate"
          \/ n = 1 /\ step = "raise"

Count(todo) == Len(todo)
Less(n) == n - 1

Follows(op, todo) ==
    /\ todo # << >>
    /\ Stage(op, Count(todo), Head(todo))
    /\ Count(todo) # 1 => Due(op, Tail(todo)) /\ Count(Tail(todo)) = Less(Count(todo))

LEMMA Due_feclearexcept ==
    ASSUME NEW todo, Due("feclearexcept", todo)
    PROVE  Follows("feclearexcept", todo)
<1>0. PICK fetch, clear :
          /\ fetch = "fetch"
          /\ clear = "clear"
    OBVIOUS
<1> DEFINE all == {<<fetch, clear>>,
                   <<clear>>}
<1>1. todo \in all
    BY <1>0 DEF Due
<1>2. Left2(todo, fetch, clear) /\ todo # << >>
    BY <1>1, RestOf2
<1>3. \/ Len(todo) = 2 /\ Head(todo) = fetch /\ Tail(todo) \in all /\ Len(Tail(todo)) = 1
      \/ Len(todo) = 1 /\ Head(todo) = clear
    BY <1>2 DEF Left2
<1>4. Tail(todo) \in all => Due("feclearexcept", Tail(todo))
    BY <1>0 DEF Due
<1> HIDE DEF all
<1>5. Stage("feclearexcept", Len(todo), Head(todo))
    BY <1>3, <1>0 DEF Stage
<1> QED
    BY <1>2, <1>3, <1>4, <1>5 DEF Follows, Count, Less

LEMMA Due_feraiseexcept ==
    ASSUME NEW todo, Due("feraiseexcept", todo)
    PROVE  Follows("feraiseexcept", todo)
<1>0. PICK fetch, raise :
          /\ fetch = "fetch"
          /\ raise = "raise"
    OBVIOUS
<1> DEFINE all == {<<fetch, raise>>,
                   <<raise>>}
<1>1. todo \in all
    BY <1>0 DEF Due
<1>2. Left2(todo, fetch, raise) /\ todo # << >>
    BY <1>1, RestOf2
<1>3. \/ Len(todo) = 2 /\ Head(todo) = fetch /\ Tail(todo) \in all /\ Len(Tail(todo)) = 1
      \/ Len(todo) = 1 /\ Head(todo) = raise
    BY <1>2 DEF Left2
<1>4. Tail(todo) \in all => Due("feraiseexcept", Tail(todo))
    BY <1>0 DEF Due
<1> HIDE DEF all
<1>5. Stage("feraiseexcept", Len(todo), Head(todo))
    BY <1>3, <1>0 DEF Stage
<1> QED
    BY <1>2, <1>3, <1>4, <1>5 DEF Follows, Count, Less

LEMMA Due_fegetexceptflag ==
    ASSUME NEW todo, Due("fegetexceptflag", todo)
    PROVE  Follows("fegetexceptflag", todo)
<1>0. PICK fetch, get_flags :
          /\ fetch = "fetch"
          /\ get_flags = "get_flags"
    OBVIOUS
<1> DEFINE all == {<<fetch, get_flags>>,
                   <<get_flags>>}
<1>1. todo \in all
    BY <1>0 DEF Due
<1>2. Left2(todo, fetch, get_flags) /\ todo # << >>
    BY <1>1, RestOf2
<1>3. \/ Len(todo) = 2 /\ Head(todo) = fetch /\ Tail(todo) \in all /\ Len(Tail(todo)) = 1
      \/ Len(todo) = 1 /\ Head(todo) = get_flags
    BY <1>2 DEF Left2
<1>4. Tail(todo) \in all => Due("fegetexceptflag", Tail(todo))
    BY <1>0 DEF Due
<1> HIDE DEF all
<1>5. Stage("fegetexceptflag", Len(todo), Head(todo))
    BY <1>3, <1>0 DEF Stage
<1> QED
    BY <1>2, <1>3, <1>4, <1>5 DEF Follows, Count, Less

LEMMA Due_fesetexceptflag ==
    ASSUME NEW todo, Due("fesetexceptflag", todo)
    PROVE  Follows("fesetexceptflag", todo)
<1>0. PICK fetch, clear, raise :
          /\ fetch = "fetch"
          /\ clear = "clear"
          /\ raise = "raise"
    OBVIOUS
<1> DEFINE all == {<<fetch, clear, raise>>,
                   <<clear, raise>>,
                   <<raise>>}
<1>1. todo \in all
    BY <1>0 DEF Due
<1>2. Left3(todo, fetch, clear, raise) /\ todo # << >>
    BY <1>1, RestOf3
<1>3. \/ Len(todo) = 3 /\ Head(todo) = fetch /\ Tail(todo) \in all /\ Len(Tail(todo)) = 2
      \/ Len(todo) = 2 /\ Head(todo) = clear /\ Tail(todo) \in all /\ Len(Tail(todo)) = 1
      \/ Len(todo) = 1 /\ Head(todo) = raise
    BY <1>2 DEF Left3
<1>4. Tail(todo) \in all => Due("fesetexceptflag", Tail(todo))
    BY <1>0 DEF Due
<1> HIDE DEF all
<1>5. Stage("fesetexceptflag", Len(todo), Head(todo))
    BY <1>3, <1>0 DEF Stage
<1> QED
    BY <1>2, <1>3, <1>4, <1>5 DEF Follows, Count, Less

LEMMA Due_fesetround ==
    ASSUME NEW todo, Due("fesetround", todo)
    PROVE  Follows("fesetround", todo)
<1>0. PICK fetch, set_rounding :
          /\ fetch = "fetch"
          /\ set_rounding = "set_rounding"
    OBVIOUS
<1> DEFINE all == {<<fetch, set_rounding>>,
                   <<set_rounding>>}
<1>1. todo \in all
    BY <1>0 DEF Due
<1>2. Left2(todo, fetch, set_rounding) /\ todo # << >>
    BY <1>1, RestOf2
<1>3. \/ Len(todo) = 2 /\ Head(todo) = fetch /\ Tail(todo) \in all /\ Len(Tail(todo)) = 1
      \/ Len(todo) = 1 /\ Head(todo) = set_rounding
    BY <1>2 DEF Left2
<1>4. Tail(todo) \in all => Due("fesetround", Tail(todo))
    BY <1>0 DEF Due
<1> HIDE DEF all
<1>5. Stage("fesetround", Len(todo), Head(todo))
    BY <1>3, <1>0 DEF Stage
<1> QED
    BY <1>2, <1>3, <1>4, <1>5 DEF Follows, Count, Less

LEMMA Due_fegetenv ==
    ASSUME NEW todo, Due("fegetenv", todo)
    PROVE  Follows("fegetenv", todo)
<1>0. PICK fetch, get_environment :
          /\ fetch = "fetch"
          /\ get_environment = "get_environment"
    OBVIOUS
<1> DEFINE all == {<<fetch, get_environment>>,
                   <<get_environment>>}
<1>1. todo \in all
    BY <1>0 DEF Due
<1>2. Left2(todo, fetch, get_environment) /\ todo # << >>
    BY <1>1, RestOf2
<1>3. \/ Len(todo) = 2 /\ Head(todo) = fetch /\ Tail(todo) \in all /\ Len(Tail(todo)) = 1
      \/ Len(todo) = 1 /\ Head(todo) = get_environment
    BY <1>2 DEF Left2
<1>4. Tail(todo) \in all => Due("fegetenv", Tail(todo))
    BY <1>0 DEF Due
<1> HIDE DEF all
<1>5. Stage("fegetenv", Len(todo), Head(todo))
    BY <1>3, <1>0 DEF Stage
<1> QED
    BY <1>2, <1>3, <1>4, <1>5 DEF Follows, Count, Less

LEMMA Due_feholdexcept ==
    ASSUME NEW todo, Due("feholdexcept", todo)
    PROVE  Follows("feholdexcept", todo)
<1>0. PICK fetch, get_environment, clear :
          /\ fetch = "fetch"
          /\ get_environment = "get_environment"
          /\ clear = "clear"
    OBVIOUS
<1> DEFINE all == {<<fetch, get_environment, fetch, clear>>,
                   <<get_environment, fetch, clear>>,
                   <<fetch, clear>>,
                   <<clear>>}
<1>1. todo \in all
    BY <1>0 DEF Due
<1>2. Left4(todo, fetch, get_environment, fetch, clear) /\ todo # << >>
    BY <1>1, RestOf4
<1>3. \/ Len(todo) = 4 /\ Head(todo) = fetch /\ Tail(todo) \in all /\ Len(Tail(todo)) = 3
      \/ Len(todo) = 3 /\ Head(todo) = get_environment /\ Tail(todo) \in all /\ Len(Tail(todo)) = 2
      \/ Len(todo) = 2 /\ Head(todo) = fetch /\ Tail(todo) \in all /\ Len(Tail(todo)) = 1
      \/ Len(todo) = 1 /\ Head(todo) = clear
    BY <1>2 DEF Left4
<1>4. Tail(todo) \in all => Due("feholdexcept", Tail(todo))
    BY <1>0 DEF Due
<1> HIDE DEF all
<1>5. Stage("feholdexcept", Len(todo), Head(todo))
    BY <1>3, <1>0 DEF Stage
<1> QED
    BY <1>2, <1>3, <1>4, <1>5 DEF Follows, Count, Less

LEMMA Due_fesetenv ==
    ASSUME NEW todo, Due("fesetenv", todo)
    PROVE  Follows("fesetenv", todo)
<1>0. PICK fetch, set_flags, set_rounding :
          /\ fetch = "fetch"
          /\ set_flags = "set_flags"
          /\ set_rounding = "set_rounding"
    OBVIOUS
<1> DEFINE all == {<<fetch, set_flags, set_rounding>>,
                   <<set_flags, set_rounding>>,
                   <<set_rounding>>}
<1>1. todo \in all
    BY <1>0 DEF Due
<1>2. Left3(todo, fetch, set_flags, set_rounding) /\ todo # << >>
    BY <1>1, RestOf3
<1>3. \/ Len(todo) = 3 /\ Head(todo) = fetch /\ Tail(todo) \in all /\ Len(Tail(todo)) = 2
      \/ Len(todo) = 2 /\ Head(todo) = set_flags /\ Tail(todo) \in all /\ Len(Tail(todo)) = 1
      \/ Len(todo) = 1 /\ Head(todo) = set_rounding
    BY <1>2 DEF Left3
<1>4. Tail(todo) \in all => Due("fesetenv", Tail(todo))
    BY <1>0 DEF Due
<1> HIDE DEF all
<1>5. Stage("fesetenv", Len(todo), Head(todo))
    BY <1>3, <1>0 DEF Stage
<1> QED
    BY <1>2, <1>3, <1>4, <1>5 DEF Follows, Count, Less

LEMMA Due_feupdateenv ==
    ASSUME NEW todo, Due("feupdateenv", todo)
    PROVE  Follows("feupdateenv", todo)
<1>0. PICK fetch, take_flags, set_flags, set_rounding, raise :
          /\ fetch = "fetch"
          /\ take_flags = "take_flags"
          /\ set_flags = "set_flags"
          /\ set_rounding = "set_rounding"
          /\ raise = "raise"
    OBVIOUS
<1> DEFINE all == {<<fetch, take_flags, fetch, set_flags, set_rounding, fetch, raise>>,
                   <<take_flags, fetch, set_flags, set_rounding, fetch, raise>>,
                   <<fetch, set_flags, set_rounding, fetch, raise>>,
                   <<set_flags, set_rounding, fetch, raise>>,
                   <<set_rounding, fetch, raise>>,
                   <<fetch, raise>>,
                   <<raise>>}
<1>1. todo \in all
    BY <1>0 DEF Due
<1>2. Left7(todo, fetch, take_flags, fetch, set_flags, set_rounding, fetch, raise) /\ todo # << >>
    BY <1>1, RestOf7
<1>3. \/ Len(todo) = 7 /\ Head(todo) = fetch /\ Tail(todo) \in all /\ Len(Tail(todo)) = 6
      \/ Len(todo) = 6 /\ Head(todo) = take_flags /\ Tail(todo) \in all /\ Len(Tail(todo)) = 5
      \/ Len(todo) = 5 /\ Head(todo) = fetch /\ Tail(todo) \in all /\ Len(Tail(todo)) = 4
      \/ Len(todo) = 4 /\ Head(todo) = set_flags /\ Tail(todo) \in all /\ Len(Tail(todo)) = 3
      \/ Len(todo) = 3 /\ Head(todo) = set_rounding /\ Tail(todo) \in all /\ Len(Tail(todo)) = 2
      \/ Len(todo) = 2 /\ Head(todo) = fetch /\ Tail(todo) \in all /\ Len(Tail(todo)) = 1
      \/ Len(todo) = 1 /\ Head(todo) = raise
    BY <1>2 DEF Left7
<1>4. Tail(todo) \in all => Due("feupdateenv", Tail(todo))
    BY <1>0 DEF Due
<1> HIDE DEF all
<1>5. Stage("feupdateenv", Len(todo), Head(todo))
    BY <1>3, <1>0 DEF Stage
<1> QED
    BY <1>2, <1>3, <1>4, <1>5 DEF Follows, Count, Less

LEMMA Due_tgamma ==
    ASSUME NEW todo, Due("tgamma", todo)
    PROVE  Follows("tgamma", todo)
<1>0. PICK fetch, take_mode, evaluate, raise, swap, restore :
          /\ fetch = "fetch"
          /\ take_mode = "take_mode"
          /\ evaluate = "evaluate"
          /\ raise = "raise"
          /\ swap = "swap"
          /\ restore = "restore"
    OBVIOUS
<1> DEFINE t10 == <<fetch, take_mode, fetch, evaluate, raise, swap, fetch, evaluate, raise, restore>>
           t9 == <<take_mode, fetch, evaluate, raise, swap, fetch, evaluate, raise, restore>>
           t8 == <<fetch, evaluate, raise, swap, fetch, evaluate, raise, restore>>
           t7 == <<evaluate, raise, swap, fetch, evaluate, raise, restore>>
           t6 == <<raise, swap, fetch, evaluate, raise, restore>>
           t5 == <<swap, fetch, evaluate, raise, restore>>
           t4 == <<fetch, evaluate, raise, restore>>
           t3 == <<evaluate, raise, restore>>
           t2 == <<raise, restore>>
           t1 == <<restore>>
           all == {t10, t9, t8, t7, t6, t5, t4, t3, t2, t1}
<1>1. todo \in all
    BY <1>0 DEF Due
<1>2. Left10(todo, fetch, take_mode, fetch, evaluate, raise, swap, fetch, evaluate, raise, restore) /\ todo # << >>
    BY <1>1, RestOf10
<1>3. \/ Len(todo) = 10 /\ Head(todo) = fetch /\ Tail(todo) = t9
      \/ Len(todo) = 9 /\ Head(todo) = take_mode /\ Tail(todo) = t8
      \/ Len(todo) = 8 /\ Head(todo) = fetch /\ Tail(todo) = t7
      \/ Len(todo) = 7 /\ Head(todo) = evaluate /\ Tail(todo) = t6
      \/ Len(todo) = 6 /\ Head(todo) = raise /\ Tail(todo) = t5
      \/ Len(todo) = 5 /\ Head(todo) = swap /\ Tail(todo) = t4
      \/ Len(todo) = 4 /\ Head(todo) = fetch /\ Tail(todo) = t3
      \/ Len(todo) = 3 /\ Head(todo) = evaluate /\ Tail(todo) = t2
      \/ Len(todo) = 2 /\ Head(todo) = raise /\ Tail(todo) = t1
      \/ Len(todo) = 1 /\ Head(todo) = restore
  <2>1. CASE todo = t10
    <3>1. Len(todo) = 10 /\ Head(todo) = fetch /\ Tail(todo) = t9
        BY <2>1
    <3> QED
        BY <3>1, Zenon
  <2>2. CASE todo = t9
    <3>1. Len(todo) = 9 /\ Head(todo) = take_mode /\ Tail(todo) = t8
        BY <2>2
    <3> QED
        BY <3>1, Zenon
  <2>3. CASE todo = t8
    <3>1. Len(todo) = 8 /\ Head(todo) = fetch /\ Tail(todo) = t7
        BY <2>3
    <3> QED
        BY <3>1, Zenon
  <2>4. CASE todo = t7
    <3>1. Len(todo) = 7 /\ Head(todo) = evaluate /\ Tail(todo) = t6
        BY <2>4
    <3> QED
        BY <3>1, Zenon
  <2>5. CASE todo = t6
    <3>1. Len(todo) = 6 /\ Head(todo) = raise /\ Tail(todo) = t5
        BY <2>5
    <3> QED
        BY <3>1, Zenon
  <2>6. CASE todo = t5
    <3>1. Len(todo) = 5 /\ Head(todo) = swap /\ Tail(todo) = t4
        BY <2>6
    <3> QED
        BY <3>1, Zenon
  <2>7. CASE todo = t4
    <3>1. Len(todo) = 4 /\ Head(todo) = fetch /\ Tail(todo) = t3
        BY <2>7
    <3> QED
        BY <3>1, Zenon
  <2>8. CASE todo = t3
    <3>1. Len(todo) = 3 /\ Head(todo) = evaluate /\ Tail(todo) = t2
        BY <2>8
    <3> QED
        BY <3>1, Zenon
  <2>9. CASE todo = t2
    <3>1. Len(todo) = 2 /\ Head(todo) = raise /\ Tail(todo) = t1
        BY <2>9
    <3> QED
        BY <3>1, Zenon
  <2>10. CASE todo = t1
    <3>1. Len(todo) = 1 /\ Head(todo) = restore
        BY <2>10
    <3> QED
        BY <3>1, Zenon
  <2> QED
      BY <1>1, <2>1, <2>2, <2>3, <2>4, <2>5, <2>6, <2>7, <2>8, <2>9, <2>10
<1>t. Len(todo) # 1 => Tail(todo) \in all /\ Len(Tail(todo)) = Len(todo) - 1
  <2>1. /\ t9 \in all /\ Len(t9) = 9
        /\ t8 \in all /\ Len(t8) = 8
        /\ t7 \in all /\ Len(t7) = 7
        /\ t6 \in all /\ Len(t6) = 6
        /\ t5 \in all /\ Len(t5) = 5
        /\ t4 \in all /\ Len(t4) = 4
        /\ t3 \in all /\ Len(t3) = 3
        /\ t2 \in all /\ Len(t2) = 2
        /\ t1 \in all /\ Len(t1) = 1
      OBVIOUS
  <2> HIDE DEF all, t10, t9, t8, t7, t6, t5, t4, t3, t2, t1
  <2>2. CASE Len(todo) = 2 /\ Tail(todo) = t1
    <3>1. Tail(todo) \in all /\ Len(Tail(todo)) = 1
        BY <2>1, <2>2, Zenon
    <3> QED
        BY <2>2, <3>1
  <2>3. CASE Len(todo) = 3 /\ Tail(todo) = t2
    <3>1. Tail(todo) \in all /\ Len(Tail(todo)) = 2
        BY <2>1, <2>3, Zenon
    <3> QED
        BY <2>3, <3>1
  <2>4. CASE Len(todo) = 4 /\ Tail(todo) = t3
    <3>1. Tail(todo) \in all /\ Len(Tail(todo)) = 3
        BY <2>1, <2>4, Zenon
    <3> QED
        BY <2>4, <3>1
  <2>5. CASE Len(todo) = 5 /\ Tail(todo) = t4
    <3>1. Tail(todo) \in all /\ Len(Tail(todo)) = 4
        BY <2>1, <2>5, Zenon
    <3> QED
        BY <2>5, <3>1
  <2>6. CASE Len(todo) = 6 /\ Tail(todo) = t5
    <3>1. Tail(todo) \in all /\ Len(Tail(todo)) = 5
        BY <2>1, <2>6, Zenon
    <3> QED
        BY <2>6, <3>1
  <2>7. CASE Len(todo) = 7 /\ Tail(todo) = t6
    <3>1. Tail(todo) \in all /\ Len(Tail(todo)) = 6
        BY <2>1, <2>7, Zenon
    <3> QED
        BY <2>7, <3>1
  <2>8. CASE Len(todo) = 8 /\ Tail(todo) = t7
    <3>1. Tail(todo) \in all /\ Len(Tail(todo)) = 7
        BY <2>1, <2>8, Zenon
    <3> QED
        BY <2>8, <3>1
  <2>9. CASE Len(todo) = 9 /\ Tail(todo) = t8
    <3>1. Tail(todo) \in all /\ Len(Tail(todo)) = 8
        BY <2>1, <2>9, Zenon
    <3> QED
        BY <2>9, <3>1
  <2>10. CASE Len(todo) = 10 /\ Tail(todo) = t9
    <3>1. Tail(todo) \in all /\ Len(Tail(todo)) = 9
        BY <2>1, <2>10, Zenon
    <3> QED
        BY <2>10, <3>1
  <2> QED
      BY <1>3, <2>2, <2>3, <2>4, <2>5, <2>6, <2>7, <2>8, <2>9, <2>10
<1>4. Tail(todo) \in all => Due("tgamma", Tail(todo))
    BY <1>0 DEF Due
<1> HIDE DEF all, t10, t9, t8, t7, t6, t5, t4, t3, t2, t1
<1>5. Stage("tgamma", Len(todo), Head(todo))
    BY <1>3, <1>0 DEF Stage
<1> QED
    BY <1>2, <1>t, <1>4, <1>5 DEF Follows, Count, Less

LEMMA Prepended ==
    /\ <<"fetch", "evaluate", "raise">> \o <<"swap", "fetch", "evaluate", "raise", "restore">>
         = <<"fetch", "evaluate", "raise", "swap", "fetch", "evaluate", "raise", "restore">>
    /\ <<"fetch", "evaluate", "raise">> \o <<"restore">> = <<"fetch", "evaluate", "raise", "restore">>
<1>0. PICK a, b, c, d, e :
          a = "fetch" /\ b = "evaluate" /\ c = "raise" /\ d = "swap" /\ e = "restore"
    OBVIOUS
<1> DEFINE S == {a, b, c, d, e}
           s == <<a, b, c>>  t == <<d, a, b, c, e>>  u == <<e>>
<1>1. s \in Seq(S) /\ Len(s) = 3 /\ s[1] = a /\ s[2] = b /\ s[3] = c
    OBVIOUS
<1>2. /\ t \in Seq(S) /\ Len(t) = 5
      /\ t[1] = d /\ t[2] = a /\ t[3] = b /\ t[4] = c /\ t[5] = e
    OBVIOUS
<1>3. u \in Seq(S) /\ Len(u) = 1 /\ u[1] = e
    OBVIOUS
<1>4. s \o t = <<a, b, c, d, a, b, c, e>>
  <2> DEFINE r == <<a, b, c, d, a, b, c, e>>
  <2>1. /\ r \in Seq(S) /\ Len(r) = 8 /\ r[1] = a /\ r[2] = b /\ r[3] = c
        /\ r[4] = d /\ r[5] = a /\ r[6] = b /\ r[7] = c /\ r[8] = e
      OBVIOUS
  <2> HIDE DEF S, s, t, r
  <2>2. PICK q : q = s \o t
      OBVIOUS
  <2>3. /\ q \in Seq(S) /\ Len(q) = Len(s) + Len(t)
        /\ \A i \in 1 .. Len(s) + Len(t) : q[i] = IF i <= Len(s) THEN s[i] ELSE t[i - Len(s)]
      BY <1>1, <1>2, <2>2, ConcatProperties, Zenon
  <2>4. q \in Seq(S) /\ Len(q) = 8 /\ \A i \in 1..8 : q[i] = IF i <= 3 THEN s[i] ELSE t[i - 3]
      BY <1>1, <1>2, <2>3
  <2>5. \A i \in 1..8 : q[i] = r[i]
      BY <1>1, <1>2, <2>1, <2>4
  <2>6. q = r
      BY <2>1, <2>4, <2>5, SeqEqual
  <2> QED
      BY <2>2, <2>6 DEF r
<1>5. s \o u = <<a, b, c, e>>
  <2> DEFINE r == <<a, b, c, e>>
  <2>1. r \in Seq(S) /\ Len(r) = 4 /\ r[1] = a /\ r[2] = b /\ r[3] = c /\ r[4] = e
      OBVIOUS
  <2> HIDE DEF S, s, u, r
  <2>2. PICK q : q = s \o u
      OBVIOUS
  <2>3. /\ q \in Seq(S) /\ Len(q) = Len(s) + Len(u)
        /\ \A i \in 1 .. Len(s) + Len(u) : q[i] = IF i <= Len(s) THEN s[i] ELSE u[i - Len(s)]
      BY <1>1, <1>3, <2>2, ConcatProperties, Zenon
  <2>4. q \in Seq(S) /\ Len(q) = 4 /\ \A i \in 1..4 : q[i] = IF i <= 3 THEN s[i] ELSE u[i - 3]
      BY <1>1, <1>3, <2>3
  <2>5. \A i \in 1..4 : q[i] = r[i]
      BY <1>1, <1>3, <2>1, <2>4
  <2>6. q = r
      BY <2>1, <2>4, <2>5, SeqEqual
  <2> QED
      BY <2>2, <2>6 DEF r
<1> QED
    BY <1>0, <1>4, <1>5, Zenon

(* Between the operations of lgamma and what follows them, and of exp.      *)
LEMMA AtJunction ==
    ASSUME NEW todo, Due("tgamma", todo), Head(todo) \in {"swap", "restore"}
    PROVE  \/ todo = <<"swap", "fetch", "evaluate", "raise", "restore">> /\ Count(todo) = 5
           \/ todo = <<"restore">> /\ Count(todo) = 1
<1>0. PICK fetch, take_mode, evaluate, raise, swap, restore :
          /\ fetch = "fetch"
          /\ take_mode = "take_mode"
          /\ evaluate = "evaluate"
          /\ raise = "raise"
          /\ swap = "swap"
          /\ restore = "restore"
    OBVIOUS
<1>1. {fetch, take_mode, evaluate, raise} \cap {swap, restore} = {} /\ Head(todo) \in {swap, restore}
    BY <1>0
<1>2. Left10(todo, fetch, take_mode, fetch, evaluate, raise, swap, fetch, evaluate, raise, restore)
    BY <1>0, RestOf10 DEF Due
<1>3. \/ todo = <<swap, fetch, evaluate, raise, restore>> /\ Len(todo) = 5
      \/ todo = <<restore>> /\ Len(todo) = 1
    BY <1>1, <1>2 DEF Left10
<1> QED
    BY <1>0, <1>3 DEF Count

LEMMA Due_operation ==
    ASSUME NEW todo, Due("operation", todo)
    PROVE  Follows("operation", todo)
<1>0. PICK fetch, evaluate, raise :
          /\ fetch = "fetch"
          /\ evaluate = "evaluate"
          /\ raise = "raise"
    OBVIOUS
<1> DEFINE all == {<<fetch, evaluate, raise>>,
                   <<evaluate, raise>>,
                   <<raise>>}
<1>1. todo \in all
    BY <1>0 DEF Due
<1>2. Left3(todo, fetch, evaluate, raise) /\ todo # << >>
    BY <1>1, RestOf3
<1>3. \/ Len(todo) = 3 /\ Head(todo) = fetch /\ Tail(todo) \in all /\ Len(Tail(todo)) = 2
      \/ Len(todo) = 2 /\ Head(todo) = evaluate /\ Tail(todo) \in all /\ Len(Tail(todo)) = 1
      \/ Len(todo) = 1 /\ Head(todo) = raise
    BY <1>2 DEF Left3
<1>4. Tail(todo) \in all => Due("operation", Tail(todo))
    BY <1>0 DEF Due
<1> HIDE DEF all
<1>5. Stage("operation", Len(todo), Head(todo))
    BY <1>3, <1>0 DEF Stage
<1> QED
    BY <1>2, <1>3, <1>4, <1>5 DEF Follows, Count, Less

LEMMA DueFollows ==
    ASSUME NEW op, NEW todo, Due(op, todo)
    PROVE  op \in Entries /\ Follows(op, todo)
<1>1. op \in Entries
    BY DEF Due, Entries
<1> QED
    BY <1>1, Due_feclearexcept, Due_feraiseexcept, Due_fegetexceptflag, Due_fesetexceptflag,
       Due_fesetround, Due_fegetenv, Due_feholdexcept, Due_fesetenv, Due_feupdateenv, Due_tgamma,
       Due_operation DEF Entries

(* A call of thread t with locals l, whose context is x and whose stored     *)
(* environment is e.                                                        *)
Aim(l, e) == IF l.call.env = "default" THEN Fresh ELSE e
Installs(op, n) == (op = "fesetenv" /\ n = 1) \/ (op = "feupdateenv" /\ n \in 1..3)
Holds(op, n) == op = "feholdexcept" /\ n \in 1..2
Replaces(op, n) == op = "fesetexceptflag" /\ n = 1
Borrows(op, n) == op = "tgamma" /\ n \in 1..8
Remembers(op, n) == op = "tgamma" /\ n \in 5..8
HasFlags(op, n) == op = "feupdateenv" /\ n \in 4..5
HasMode(op, n) == op = "feupdateenv" /\ n \in 1..2

Context == [flags : SUBSET Exceptions, rounding : Roundings]
Stored == [flags : SUBSET Exceptions, rounding : Roundings \cup {"other"}]

InCall(t, l, x, e) ==
    /\ l.call \in Request
    /\ Due(l.call.op, l.todo)
    /\ Head(l.todo) # "fetch" => l.at = t
    /\ l.call.op = "fesetround" => l.call.rounding \in Roundings
    /\ IF Borrows(l.call.op, Count(l.todo)) THEN l.c = t /\ l.mode \in Roundings ELSE l.c = Null
    /\ Remembers(l.call.op, Count(l.todo)) => l.mode = x.rounding
    /\ l.flags \subseteq Exceptions
    /\ l.call.op # "feupdateenv" => l.flags = {}
    /\ HasFlags(l.call.op, Count(l.todo)) => l.flags = x.flags
    /\ HasMode(l.call.op, Count(l.todo)) => x.rounding = Aim(l, e).rounding
    /\ Installs(l.call.op, Count(l.todo)) => Aim(l, e).rounding \in Roundings

Proper(t, l, x, e, f) ==
    /\ x \in Context /\ e \in Stored /\ f \subseteq Exceptions
    /\ IsOwn(t, l)
    /\ l = Blank \/ InCall(t, l, x, e)

(* The environment of the thread, and the call that has yet to take effect. *)
EnvOf(l, x, e, f) ==
    [flags |-> IF Holds(l.call.op, Count(l.todo)) THEN {}
               ELSE x.flags \cup (IF Installs(l.call.op, Count(l.todo)) THEN l.flags
                                  ELSE IF Replaces(l.call.op, Count(l.todo)) THEN f \cap l.call.excepts ELSE {}),
     rounding |-> IF Installs(l.call.op, Count(l.todo)) THEN Aim(l, e).rounding
                  ELSE IF l.call.op = "tgamma" /\ l.c # Null THEN l.mode
                  ELSE x.rounding]
Asked(l) == IF Installs(l.call.op, Count(l.todo)) \/ Holds(l.call.op, Count(l.todo)) \/ Replaces(l.call.op, Count(l.todo)) THEN NoCall ELSE l.call
Onto(l) == IF Count(l.todo) = 1 THEN Blank ELSE [l EXCEPT !.todo = Tail(@)]

(* What a step may do to the environment v, the stored environment e and    *)
(* flags f, and the call r that has yet to take effect.                     *)
Env(flags, rounding) == [flags |-> flags, rounding |-> rounding]
Goal(r, e) == IF r.env = "default" THEN Fresh ELSE e
Effect(r, v, e, f, v2, e2, f2) ==
    \/ r.op = "feclearexcept" /\ v2 = Env(v.flags \ r.excepts, v.rounding) /\ e2 = e /\ f2 = f
    \/ r.op = "feraiseexcept" /\ v2 = Env(v.flags \cup r.excepts, v.rounding) /\ e2 = e /\ f2 = f
    \/ /\ r.op \in {"operation", "tgamma"}
       /\ \E a \in SUBSET Exceptions : v2 = Env(v.flags \cup a, v.rounding)
       /\ e2 = e /\ f2 = f
    \/ r.op = "fegetexceptflag" /\ v2 = v /\ e2 = e /\ f2 = v.flags \cap r.excepts
    \/ /\ r.op = "fesetexceptflag"
       /\ v2 = Env((v.flags \ r.excepts) \cup (f \cap r.excepts), v.rounding)
       /\ e2 = e /\ f2 = f
    \/ r.op = "fesetround" /\ v2 = Env(v.flags, r.rounding) /\ e2 = e /\ f2 = f
    \/ r.op = "fegetenv" /\ v2 = v /\ e2 = v /\ f2 = f
    \/ r.op = "feholdexcept" /\ v2 = Env({}, v.rounding) /\ e2 = v /\ f2 = f
    \/ /\ r.op = "fesetenv" /\ Goal(r, e).rounding \in Roundings
       /\ v2 = Env(Goal(r, e).flags, Goal(r, e).rounding)
       /\ e2 = e /\ f2 = f
    \/ /\ r.op = "feupdateenv" /\ Goal(r, e).rounding \in Roundings
       /\ v2 = Env(Goal(r, e).flags \cup v.flags, Goal(r, e).rounding)
       /\ e2 = e /\ f2 = f
    \/ /\ r.op \in {"fesetenv", "feupdateenv"} /\ Goal(r, e).rounding \notin Roundings
       /\ v2 = v /\ e2 = e /\ f2 = f
Acts(r, v, e, f, r2, v2, e2, f2) ==
    \/ (r2 = r \/ r = NoCall) /\ v2 = v /\ e2 = e /\ f2 = f
    \/ r2 = NoCall /\ Effect(r, v, e, f, v2, e2, f2)
    \/ /\ r2 = r /\ r.op = "tgamma"
       /\ \E a \in SUBSET Exceptions : v2 = Env(v.flags \cup a, v.rounding)
       /\ e2 = e /\ f2 = f

Does(t, l, x, e, f, m, x2, e2, f2) ==
    /\ Proper(t, m, x2, e2, f2)
    /\ Acts(Asked(l), EnvOf(l, x, e, f), e, f, Asked(m), EnvOf(m, x2, e2, f2), e2, f2)

LEMMA BlankRests ==
    ASSUME NEW t, NEW x \in Context, NEW e \in Stored, NEW f, f \subseteq Exceptions
    PROVE  Proper(t, Blank, x, e, f) /\ EnvOf(Blank, x, e, f) = x /\ Asked(Blank) = NoCall
<1>1. Blank.call.op = "none" /\ Blank.call = NoCall
    BY DEF Blank, NoCall
<1>2. ~ Installs(Blank.call.op, Count(Blank.todo)) /\ ~ Holds(Blank.call.op, Count(Blank.todo)) /\ ~ Replaces(Blank.call.op, Count(Blank.todo))
    BY <1>1 DEF Installs, Holds, Replaces
<1>3. EnvOf(Blank, x, e, f) = x
    BY <1>1, <1>2 DEF EnvOf, Context
<1> QED
    BY <1>1, <1>2, <1>3, BlankIsOwn DEF Proper, Asked

(* A call that is not at its end is in one of the stages.                   *)
LEMMA InStage ==
    ASSUME NEW t, NEW l, NEW x, NEW e, NEW f, Proper(t, l, x, e, f), l.todo # << >>
    PROVE  /\ InCall(t, l, x, e) /\ IsOwn(t, l) /\ l.call.op \in Entries
           /\ Stage(l.call.op, Count(l.todo), Head(l.todo))
<1>1. InCall(t, l, x, e) /\ IsOwn(t, l)
    BY DEF Proper, Blank
<1> QED
    BY <1>1, DueFollows DEF InCall, Follows

(* The locals after a step: the rest of the call.                           *)
Rest(t, k, m) ==
    /\ IsOwn(t, m) /\ m.call = k.call
    /\ Due(k.call.op, m.todo) /\ Count(m.todo) = Less(Count(k.todo))
    /\ m.at = k.at /\ m.c = k.c /\ m.mode = k.mode /\ m.flags = k.flags

LEMMA OntoRest ==
    ASSUME NEW t, NEW k, IsOwn(t, k), Due(k.call.op, k.todo), Count(k.todo) # 1,
           NEW m, m = Onto(k)
    PROVE  Rest(t, k, m)
<1>1. Follows(k.call.op, k.todo)
    BY DueFollows
<1>2. m = [k EXCEPT !.todo = Tail(k.todo)]
    BY DEF Onto
<1>3. /\ IsOwn(t, m) /\ m.call = k.call /\ m.todo = Tail(k.todo)
      /\ m.at = k.at /\ m.c = k.c /\ m.mode = k.mode /\ m.flags = k.flags
    BY <1>2 DEF IsOwn
<1> QED
    BY <1>1, <1>3 DEF Follows, Rest

LEMMA AtFetch == ASSUME NEW op, NEW n, Stage(op, n, "fetch")
    PROVE  /\ n # 1 /\ n \in Nat
           /\ Installs(op, Less(n)) <=> Installs(op, n)
           /\ Holds(op, Less(n)) <=> Holds(op, n)
           /\ Replaces(op, Less(n)) <=> Replaces(op, n)
           /\ Borrows(op, Less(n)) <=> Borrows(op, n)
           /\ Remembers(op, Less(n)) <=> Remembers(op, n)
           /\ HasFlags(op, Less(n)) <=> HasFlags(op, n)
           /\ HasMode(op, Less(n)) => HasMode(op, n)
BY DEF Less, Stage, Installs, Holds, Replaces, Borrows, Remembers, HasFlags, HasMode

LEMMA FetchEffect ==
    ASSUME NEW t, NEW l, NEW x, NEW e, NEW f, Proper(t, l, x, e, f), l.todo # << >>,
           Head(l.todo) = "fetch", NEW k, k = [l EXCEPT !.at = t], NEW m, m = Onto(k)
    PROVE  Does(t, l, x, e, f, m, x, e, f)
<1>1. /\ InCall(t, l, x, e) /\ IsOwn(t, l) /\ l.call.op \in Entries
      /\ Stage(l.call.op, Count(l.todo), "fetch")
    BY InStage
<1>2. Count(l.todo) # 1
    BY <1>1, AtFetch
<1>3. IsOwn(t, k) /\ k.todo = l.todo /\ k.call = l.call /\ k.at = t /\ k.c = l.c /\ k.mode = l.mode /\ k.flags = l.flags
    BY <1>1 DEF IsOwn
<1>due. Due(k.call.op, k.todo)
    BY <1>1, <1>3 DEF InCall
<1>rest. Rest(t, k, m)
  BY <1>2, <1>3, <1>due, OntoRest
<1>4. /\ IsOwn(t, m) /\ m.call = l.call
      /\ Due(l.call.op, m.todo) /\ Count(m.todo) = Less(Count(l.todo))
      /\ m.at = t /\ m.c = l.c /\ m.mode = l.mode /\ m.flags = l.flags
    BY <1>3, <1>rest DEF Rest
<1>n. PICK n : n = Count(l.todo)
    OBVIOUS
<1>o. PICK op : op = l.call.op
    OBVIOUS
<1>a. /\ Installs(op, Less(n)) <=> Installs(op, n)
      /\ Holds(op, Less(n)) <=> Holds(op, n)
      /\ Replaces(op, Less(n)) <=> Replaces(op, n)
      /\ Borrows(op, Less(n)) <=> Borrows(op, n)
      /\ Remembers(op, Less(n)) <=> Remembers(op, n)
      /\ HasFlags(op, Less(n)) <=> HasFlags(op, n)
      /\ HasMode(op, Less(n)) => HasMode(op, n)
    BY <1>1, <1>n, <1>o, AtFetch
<1>b. m.call.op = op /\ l.call.op = op /\ Count(l.todo) = n /\ Count(m.todo) = Less(n)
   BY <1>4, <1>n, <1>o
<1>5. EnvOf(m, x, e, f) = EnvOf(l, x, e, f) /\ Asked(m) = Asked(l) /\ Aim(m, e) = Aim(l, e)
    BY <1>4, <1>a, <1>b DEF EnvOf, Asked, Aim
<1>6. InCall(t, m, x, e)
    BY <1>1, <1>4, <1>5, <1>a, <1>b DEF InCall
<1> QED
    BY <1>4, <1>5, <1>6 DEF Does, Proper, Acts

(* A call that ends leaves the environment as its context is.               *)
LEMMA LastStep ==
    ASSUME NEW t, NEW l, Count(l.todo) = 1, NEW m, m = Onto(l),
           NEW x2 \in Context, NEW e2 \in Stored, NEW f2, f2 \subseteq Exceptions
    PROVE  Proper(t, m, x2, e2, f2) /\ EnvOf(m, x2, e2, f2) = x2 /\ Asked(m) = NoCall
BY BlankRests DEF Onto

LEMMA AtClear ==
    ASSUME NEW op, NEW n, Stage(op, n, "clear")
    PROVE  \/ op = "feclearexcept" /\ n = 1
           \/ op = "feholdexcept" /\ n = 1
           \/ op = "fesetexceptflag" /\ n = 2
BY DEF Stage

LEMMA ClearEffect ==
    ASSUME NEW t, NEW l, NEW x, NEW e, NEW f, Proper(t, l, x, e, f), l.todo # << >>,
           Head(l.todo) = "clear",
           NEW mask, mask = IF l.call.op = "feholdexcept" THEN Exceptions ELSE l.call.excepts,
           NEW x2, x2 = Env(x.flags \ mask, x.rounding), NEW m, m = Onto(l)
    PROVE  Does(t, l, x, e, f, m, x2, e, f)
<1>1. /\ InCall(t, l, x, e) /\ IsOwn(t, l) /\ l.call.op \in Entries
      /\ Stage(l.call.op, Count(l.todo), "clear")
    BY InStage
<1>2. x \in Context /\ e \in Stored /\ f \subseteq Exceptions /\ x2 \in Context
    BY DEF Proper, Context, Env
<1>3. x = Env(x.flags, x.rounding)
    BY <1>2 DEF Context, Env
<1>4. CASE l.call.op = "feclearexcept" /\ Count(l.todo) = 1
  <2>1. EnvOf(l, x, e, f) = x /\ Asked(l) = l.call
      BY <1>4, <1>3 DEF EnvOf, Asked, Installs, Holds, Replaces, Env
  <2> QED
    <3>1. Effect(l.call, x, e, f, x2, e, f)
        BY <1>4 DEF Effect
    <3>2. Proper(t, m, x2, e, f) /\ EnvOf(m, x2, e, f) = x2 /\ Asked(m) = NoCall
        BY <1>2, <1>4, LastStep
    <3> QED
        BY <2>1, <3>1, <3>2 DEF Does, Acts
<1>5. CASE l.call.op = "feholdexcept" /\ Count(l.todo) = 1
  <2>1. EnvOf(l, x, e, f) = Env({}, x.rounding) /\ Asked(l) = NoCall
      BY <1>5 DEF EnvOf, Asked, Installs, Holds, Replaces, Env
  <2>2. x2 = Env({}, x.rounding)
      BY <1>2, <1>5 DEF Env, Context
  <2> QED
      BY <1>2, <1>5, <2>1, <2>2, LastStep DEF Does, Acts
<1>6. CASE l.call.op = "fesetexceptflag" /\ Count(l.todo) = 2
  <2>1. EnvOf(l, x, e, f) = x /\ Asked(l) = l.call
      BY <1>6, <1>3 DEF EnvOf, Asked, Installs, Holds, Replaces, Env
  <2>2. Rest(t, l, m)
      BY <1>1, <1>6, OntoRest DEF InCall
  <2>3. m.call = l.call /\ Count(m.todo) = 1 /\ m.at = l.at /\ m.c = l.c /\ m.flags = l.flags /\ IsOwn(t, m) /\ Due(m.call.op, m.todo)
      BY <1>6, <2>2 DEF Rest, Less
  <2>4. InCall(t, m, x2, e)
      BY <1>1, <1>6, <2>3 DEF InCall, Stage, Installs, Borrows, Remembers, HasFlags, HasMode
  <2>5. EnvOf(m, x2, e, f) = Env(x2.flags \cup (f \cap l.call.excepts), x.rounding) /\ Asked(m) = NoCall
      BY <1>6, <2>3 DEF EnvOf, Asked, Installs, Holds, Replaces, Env
  <2>6. x2.flags = x.flags \ l.call.excepts
      BY <1>6 DEF Env
  <2> QED
      BY <1>2, <1>6, <2>1, <2>3, <2>4, <2>5, <2>6 DEF Does, Proper, Acts, Effect
<1> QED
    BY <1>1, <1>4, <1>5, <1>6, AtClear

LEMMA AtRaise ==
    ASSUME NEW op, NEW n, Stage(op, n, "raise")
    PROVE  \/ op \in {"feraiseexcept", "fesetexceptflag", "feupdateenv", "operation"} /\ n = 1
           \/ op = "tgamma" /\ (n = 2 \/ n = 6)
BY DEF Stage

LEMMA RaiseEffect ==
    ASSUME NEW t \in Threads, NEW l, NEW x, NEW e, NEW f, Proper(t, l, x, e, f), l.todo # << >>,
           Head(l.todo) = "raise",
           NEW raised, raised \subseteq Exceptions,
           l.call.op = "feraiseexcept" => raised = l.call.excepts \cap Exceptions,
           l.call.op = "fesetexceptflag" => raised = f \cap l.call.excepts \cap Exceptions,
           l.call.op = "feupdateenv" => raised = l.flags \cap Exceptions,
           NEW x2, x2 = Env(x.flags \cup raised, x.rounding),
           NEW k, k = [l EXCEPT !.answer = << >>], NEW m, m = Onto(k)
    PROVE  Does(t, l, x, e, f, m, x2, e, f)
<1>1. /\ InCall(t, l, x, e) /\ IsOwn(t, l) /\ l.call.op \in Entries
      /\ Stage(l.call.op, Count(l.todo), "raise")
    BY InStage
<1>2. x \in Context /\ e \in Stored /\ f \subseteq Exceptions /\ x2 \in Context
    BY DEF Proper, Context, Env
<1>3. x = Env(x.flags, x.rounding)
    BY <1>2 DEF Context, Env
<1>4. /\ IsOwn(t, k) /\ k.todo = l.todo /\ k.call = l.call /\ k.at = l.at /\ k.c = l.c
      /\ k.mode = l.mode /\ k.flags = l.flags
    BY <1>1 DEF IsOwn
<1>last. ASSUME Count(l.todo) = 1
         PROVE  Proper(t, m, x2, e, f) /\ EnvOf(m, x2, e, f) = x2 /\ Asked(m) = NoCall
  <2>1. Count(k.todo) = 1
      BY <1>4, <1>last
  <2>2. m = Blank
      BY <2>1 DEF Onto
  <2> QED
      BY <1>2, <2>2, BlankRests
<1>5. CASE l.call.op = "feraiseexcept" /\ Count(l.todo) = 1
  <2>1. EnvOf(l, x, e, f) = x /\ Asked(l) = l.call
      BY <1>5, <1>3 DEF EnvOf, Asked, Installs, Holds, Replaces, Env
  <2>2. l.call.excepts \subseteq Exceptions
      BY <1>1 DEF InCall, Request
  <2>3. raised = l.call.excepts
      BY <1>5, <2>2
  <2>4. Effect(l.call, x, e, f, x2, e, f)
      BY <1>5, <2>3 DEF Effect
  <2> QED
      BY <1>2, <1>4, <1>5, <2>1, <2>4, <1>last DEF Does, Acts
<1>6. CASE l.call.op = "fesetexceptflag" /\ Count(l.todo) = 1
  <2>1. EnvOf(l, x, e, f) = Env(x.flags \cup (f \cap l.call.excepts), x.rounding) /\ Asked(l) = NoCall
      BY <1>6 DEF EnvOf, Asked, Installs, Holds, Replaces, Env
  <2>2. raised = f \cap l.call.excepts
      BY <1>2, <1>6
  <2> QED
      BY <1>2, <1>4, <1>6, <2>1, <2>2, <1>last DEF Does, Acts
<1>7. CASE l.call.op = "feupdateenv" /\ Count(l.todo) = 1
  <2>1. EnvOf(l, x, e, f) = Env(x.flags \cup l.flags, Aim(l, e).rounding) /\ Asked(l) = NoCall
      BY <1>7 DEF EnvOf, Asked, Installs, Holds, Replaces, Env
  <2>2. x.rounding = Aim(l, e).rounding /\ raised = l.flags
      BY <1>1, <1>7 DEF InCall, HasMode
  <2> QED
      BY <1>2, <1>4, <1>7, <2>1, <2>2, <1>last DEF Does, Acts
<1>8. CASE l.call.op = "operation" /\ Count(l.todo) = 1
  <2>1. EnvOf(l, x, e, f) = x /\ Asked(l) = l.call
      BY <1>8, <1>3 DEF EnvOf, Asked, Installs, Holds, Replaces, Env
  <2>2. Effect(l.call, x, e, f, x2, e, f)
      BY <1>8 DEF Effect
  <2> QED
      BY <1>2, <1>4, <1>8, <2>1, <2>2, <1>last DEF Does, Acts
<1>9. CASE l.call.op = "tgamma" /\ (Count(l.todo) = 2 \/ Count(l.todo) = 6)
  <2>1. l.c = t /\ l.mode \in Roundings
      BY <1>1, <1>9 DEF InCall, Borrows
  <2>2. Rest(t, k, m)
    <3>1. Due(k.call.op, k.todo) /\ Count(k.todo) # 1
        BY <1>1, <1>4, <1>9 DEF InCall
    <3> QED
        BY <1>4, <3>1, OntoRest
  <2>n. (Count(l.todo) = 2 /\ Count(m.todo) = 1) \/ (Count(l.todo) = 6 /\ Count(m.todo) = 5)
    <3>1. Count(m.todo) = Less(Count(l.todo))
        BY <1>4, <2>2 DEF Rest
    <3>2. Count(l.todo) = 2 => Count(m.todo) = 1
        BY <3>1 DEF Less
    <3>3. Count(l.todo) = 6 => Count(m.todo) = 5
        BY <3>1 DEF Less
    <3>4. Count(l.todo) = 2 \/ Count(l.todo) = 6
        BY <1>9, Zenon
    <3> QED
        BY <3>2, <3>3, <3>4
  <2>3. /\ m.call = l.call /\ m.at = l.at /\ m.c = l.c /\ m.flags = l.flags
        /\ m.mode = l.mode /\ IsOwn(t, m) /\ Due(m.call.op, m.todo)
      BY <1>4, <2>2 DEF Rest
  <2>4. Borrows(m.call.op, Count(m.todo))
      BY <1>9, <2>n, <2>3 DEF Borrows
  <2>5. Remembers(m.call.op, Count(m.todo)) => l.mode = x2.rounding
    <3>1. Remembers(m.call.op, Count(m.todo)) => Remembers(l.call.op, Count(l.todo))
        BY <1>9, <2>n, <2>3 DEF Remembers
    <3> QED
        BY <1>1, <3>1 DEF InCall, Env
  <2>6. InCall(t, m, x2, e)
      BY <1>1, <1>9, <2>1, <2>3, <2>4, <2>5 DEF InCall, Installs, HasFlags, HasMode
  <2>7. EnvOf(l, x, e, f) = Env(x.flags, l.mode) /\ Asked(l) = l.call
      BY <1>9, <2>1, NullIsNoThread DEF EnvOf, Asked, Installs, Holds, Replaces, Env
  <2>8. EnvOf(m, x2, e, f) = Env(x2.flags, l.mode) /\ Asked(m) = l.call
      BY <1>9, <2>1, <2>3, NullIsNoThread DEF EnvOf, Asked, Installs, Holds, Replaces, Env
  <2>9. x2.flags = x.flags \cup raised
      BY DEF Env
  <2>10. Acts(l.call, Env(x.flags, l.mode), e, f, l.call, Env(x2.flags, l.mode), e, f)
      BY <1>9, <2>9 DEF Acts, Env
  <2> QED
      BY <1>2, <2>3, <2>6, <2>7, <2>8, <2>10 DEF Does, Proper
<1> QED
    BY <1>1, <1>5, <1>6, <1>7, <1>8, <1>9, AtRaise

LEMMA AtGet ==
    ASSUME NEW op, NEW n
    PROVE  /\ Stage(op, n, "get_flags") => op = "fegetexceptflag" /\ n = 1
           /\ Stage(op, n, "get_environment")
                => (op = "fegetenv" /\ n = 1) \/ (op = "feholdexcept" /\ n = 3)
           /\ Stage(op, n, "take_flags") => op = "feupdateenv" /\ n = 6
BY DEF Stage

LEMMA GetFlagsEffect ==
    ASSUME NEW t, NEW l, NEW x, NEW e, NEW f, Proper(t, l, x, e, f), l.todo # << >>,
           Head(l.todo) = "get_flags",
           NEW f2, f2 = x.flags \cap l.call.excepts, NEW m, m = Onto(l)
    PROVE  Does(t, l, x, e, f, m, x, e, f2)
<1>1. /\ InCall(t, l, x, e) /\ IsOwn(t, l) /\ l.call.op \in Entries
      /\ Stage(l.call.op, Count(l.todo), "get_flags")
    BY InStage
<1>2. x \in Context /\ e \in Stored /\ f \subseteq Exceptions /\ f2 \subseteq Exceptions
    BY DEF Proper, Context
<1>3. x = Env(x.flags, x.rounding)
    BY <1>2 DEF Context, Env
<1>4. l.call.op = "fegetexceptflag" /\ Count(l.todo) = 1
    BY <1>1, AtGet
<1>5. EnvOf(l, x, e, f) = x /\ Asked(l) = l.call
    BY <1>4, <1>3 DEF EnvOf, Asked, Installs, Holds, Replaces, Env
<1>6. Effect(l.call, x, e, f, x, e, f2)
    BY <1>4 DEF Effect
<1>7. m = Blank
    BY <1>4 DEF Onto
<1>8. Proper(t, m, x, e, f2) /\ EnvOf(m, x, e, f2) = x /\ Asked(m) = NoCall
    BY <1>2, <1>7, BlankRests
<1> QED
    BY <1>5, <1>6, <1>8 DEF Does, Acts

LEMMA GetEnvironmentEffect ==
    ASSUME NEW t, NEW l, NEW x, NEW e, NEW f, Proper(t, l, x, e, f), l.todo # << >>,
           Head(l.todo) = "get_environment", NEW m, m = Onto(l)
    PROVE  Does(t, l, x, e, f, m, x, x, f)
<1>1. /\ InCall(t, l, x, e) /\ IsOwn(t, l) /\ l.call.op \in Entries
      /\ Stage(l.call.op, Count(l.todo), "get_environment")
    BY InStage
<1>2. x \in Context /\ x \in Stored /\ e \in Stored /\ f \subseteq Exceptions
    BY DEF Proper, Context, Stored
<1>3. x = Env(x.flags, x.rounding)
    BY <1>2 DEF Context, Env
<1>stage. (l.call.op = "fegetenv" /\ Count(l.todo) = 1) \/ (l.call.op = "feholdexcept" /\ Count(l.todo) = 3)
    BY <1>1, AtGet
<1>4. EnvOf(l, x, e, f) = x /\ Asked(l) = l.call
    BY <1>stage, <1>3 DEF EnvOf, Asked, Installs, Holds, Replaces, Env
<1>5. CASE l.call.op = "fegetenv" /\ Count(l.todo) = 1
  <2>1. Effect(l.call, x, e, f, x, x, f)
      BY <1>5 DEF Effect
  <2>2. m = Blank
      BY <1>5 DEF Onto
  <2>3. Proper(t, m, x, x, f) /\ EnvOf(m, x, x, f) = x /\ Asked(m) = NoCall
      BY <1>2, <2>2, BlankRests
  <2> QED
      BY <1>4, <2>1, <2>3 DEF Does, Acts
<1>6. CASE l.call.op = "feholdexcept" /\ Count(l.todo) = 3
  <2>1. Rest(t, l, m)
    <3>1. Due(l.call.op, l.todo) /\ Count(l.todo) # 1
        BY <1>1, <1>6 DEF InCall
    <3> QED
        BY <1>1, <3>1, OntoRest
  <2>n. Count(m.todo) = 2
      BY <1>6, <2>1 DEF Rest, Less
  <2>2. /\ m.call = l.call /\ Count(m.todo) = 2 /\ m.at = l.at /\ m.c = l.c /\ m.flags = l.flags
        /\ IsOwn(t, m) /\ Due(m.call.op, m.todo)
      BY <2>1, <2>n DEF Rest
  <2>3. InCall(t, m, x, x)
      BY <1>1, <1>6, <2>2 DEF InCall, Installs, Borrows, Remembers, HasFlags, HasMode
  <2>h. Holds(m.call.op, Count(m.todo)) /\ ~ Installs(m.call.op, Count(m.todo))
      BY <1>6, <2>2 DEF Installs, Holds
  <2>4. EnvOf(m, x, x, f) = Env({}, x.rounding) /\ Asked(m) = NoCall
      BY <1>6, <2>2, <2>h DEF EnvOf, Asked, Env
  <2>5. Effect(l.call, x, e, f, Env({}, x.rounding), x, f)
      BY <1>6 DEF Effect
  <2> QED
      BY <1>2, <1>4, <2>2, <2>3, <2>4, <2>5 DEF Does, Acts, Proper
<1> QED
    BY <1>stage, <1>5, <1>6

LEMMA TakeFlagsEffect ==
    ASSUME NEW t, NEW l, NEW x, NEW e, NEW f, Proper(t, l, x, e, f), l.todo # << >>,
           Head(l.todo) = "take_flags", NEW k, k = [l EXCEPT !.flags = x.flags],
           NEW m, m = Onto(k)
    PROVE  Does(t, l, x, e, f, m, x, e, f)
<1>1. /\ InCall(t, l, x, e) /\ IsOwn(t, l) /\ l.call.op \in Entries
      /\ Stage(l.call.op, Count(l.todo), "take_flags")
    BY InStage
<1>2. x \in Context /\ e \in Stored /\ f \subseteq Exceptions /\ x.flags \subseteq Exceptions
    BY DEF Proper, Context
<1>3. l.call.op = "feupdateenv" /\ Count(l.todo) = 6
    BY <1>1, AtGet
<1>4. /\ IsOwn(t, k) /\ k.todo = l.todo /\ k.call = l.call /\ k.at = l.at /\ k.c = l.c
      /\ k.mode = l.mode /\ k.flags = x.flags
    BY <1>1 DEF IsOwn
<1>5. Rest(t, k, m)
  <2>1. Due(k.call.op, k.todo) /\ Count(k.todo) # 1
      BY <1>1, <1>3, <1>4 DEF InCall
  <2> QED
      BY <1>4, <2>1, OntoRest
<1>n. Count(m.todo) = 5
    BY <1>3, <1>4, <1>5 DEF Rest, Less
<1>6. /\ m.call = l.call /\ Count(m.todo) = 5 /\ m.c = l.c /\ m.flags = x.flags
      /\ IsOwn(t, m) /\ Due(m.call.op, m.todo)
    BY <1>4, <1>5, <1>n DEF Rest
<1>7. Head(m.todo) = "fetch"
  <2>1. Stage(m.call.op, Count(m.todo), Head(m.todo))
      BY <1>6, DueFollows DEF Follows
  <2>2. m.call.op = "feupdateenv" /\ Count(m.todo) = 5
      BY <1>3, <1>6
  <2> QED
      BY <2>1, <2>2 DEF Stage
<1>8. InCall(t, m, x, e)
    BY <1>1, <1>2, <1>3, <1>6, <1>7 DEF InCall, Installs, Borrows, Remembers, HasFlags, HasMode
<1>9. EnvOf(m, x, e, f) = EnvOf(l, x, e, f) /\ Asked(m) = Asked(l)
  <2>1. /\ ~ Installs(m.call.op, Count(m.todo)) /\ ~ Holds(m.call.op, Count(m.todo))
        /\ ~ Replaces(m.call.op, Count(m.todo))
      BY <1>3, <1>6 DEF Installs, Holds, Replaces
  <2>2. /\ ~ Installs(l.call.op, Count(l.todo)) /\ ~ Holds(l.call.op, Count(l.todo))
        /\ ~ Replaces(l.call.op, Count(l.todo))
      BY <1>3 DEF Installs, Holds, Replaces
  <2> QED
      BY <1>3, <1>6, <2>1, <2>2 DEF EnvOf, Asked
<1> QED
    BY <1>2, <1>6, <1>8, <1>9 DEF Does, Acts, Proper

LEMMA AtSet ==
    ASSUME NEW op, NEW n
    PROVE  /\ Stage(op, n, "set_flags")
                => (op = "fesetenv" /\ n = 2) \/ (op = "feupdateenv" /\ n = 4)
           /\ Stage(op, n, "set_rounding")
                => \/ op \in {"fesetround", "fesetenv"} /\ n = 1
                   \/ op = "feupdateenv" /\ n = 3
BY DEF Stage

(* The target of a call that is about to set the environment.               *)
LEMMA AimIsGoal ==
    ASSUME NEW l, NEW e \in Stored
    PROVE  Aim(l, e) = Goal(l.call, e) /\ Aim(l, e) \in Stored
BY DEF Aim, Goal, Stored, Fresh, Roundings

LEMMA SetFlagsEffect ==
    ASSUME NEW t, NEW l, NEW x, NEW e, NEW f, Proper(t, l, x, e, f), l.todo # << >>,
           Head(l.todo) = "set_flags", Aim(l, e).rounding \in Roundings,
           NEW x2, x2 = Env(Aim(l, e).flags, x.rounding), NEW m, m = Onto(l)
    PROVE  Does(t, l, x, e, f, m, x2, e, f)
<1>1. /\ InCall(t, l, x, e) /\ IsOwn(t, l) /\ l.call.op \in Entries
      /\ Stage(l.call.op, Count(l.todo), "set_flags")
    BY InStage
<1>2. x \in Context /\ e \in Stored /\ f \subseteq Exceptions
    BY DEF Proper
<1>3. x = Env(x.flags, x.rounding)
    BY <1>2 DEF Context, Env
<1>4. Aim(l, e) = Goal(l.call, e) /\ Aim(l, e) \in Stored
    BY <1>2, AimIsGoal
<1>5. x2 \in Context
    BY <1>2, <1>4 DEF Context, Stored, Env
<1>6. \/ l.call.op = "fesetenv" /\ Count(l.todo) = 2
      \/ l.call.op = "feupdateenv" /\ Count(l.todo) = 4
    BY <1>1, AtSet
<1>7. EnvOf(l, x, e, f) = x /\ Asked(l) = l.call
    BY <1>3, <1>6 DEF EnvOf, Asked, Installs, Holds, Replaces, Env
<1>8. Rest(t, l, m)
    BY <1>1, <1>6, OntoRest DEF InCall
<1>9. /\ m.call = l.call /\ m.at = l.at /\ m.c = l.c /\ m.flags = l.flags
      /\ IsOwn(t, m) /\ Due(m.call.op, m.todo)
      /\ (l.call.op = "fesetenv" /\ Count(m.todo) = 1) \/ (l.call.op = "feupdateenv" /\ Count(m.todo) = 3)
    BY <1>6, <1>8 DEF Rest, Less
<1>10. Installs(m.call.op, Count(m.todo)) /\ ~ Holds(m.call.op, Count(m.todo))
    BY <1>9 DEF Installs, Holds
<1>11. Aim(m, e) = Aim(l, e)
    BY <1>9 DEF Aim
<1>12. InCall(t, m, x2, e)
    BY <1>1, <1>6, <1>9, <1>11 DEF InCall, Borrows, Remembers, HasFlags, HasMode
<1>13. /\ EnvOf(m, x2, e, f) = Env(Aim(l, e).flags \cup l.flags, Aim(l, e).rounding)
       /\ Asked(m) = NoCall
    BY <1>9, <1>10, <1>11 DEF EnvOf, Asked, Env
<1>14. Effect(l.call, x, e, f, Env(Aim(l, e).flags \cup l.flags, Aim(l, e).rounding), e, f)
  <2>1. CASE l.call.op = "fesetenv" /\ Count(l.todo) = 2
    <3>1. l.flags = {}
        BY <1>1, <2>1 DEF InCall
    <3>2. Aim(l, e).flags \cup l.flags = Goal(l.call, e).flags
        BY <1>4, <3>1
    <3> QED
        BY <1>4, <2>1, <3>2 DEF Effect
  <2>2. CASE l.call.op = "feupdateenv" /\ Count(l.todo) = 4
    <3>1. l.flags = x.flags
        BY <1>1, <2>2 DEF InCall, HasFlags
    <3> QED
        BY <1>4, <2>2, <3>1 DEF Effect
  <2> QED
      BY <1>6, <2>1, <2>2
<1> QED
    BY <1>2, <1>5, <1>7, <1>9, <1>12, <1>13, <1>14 DEF Does, Acts, Proper

LEMMA RejectEffect ==
    ASSUME NEW t, NEW l, NEW x, NEW e, NEW f, Proper(t, l, x, e, f), l.todo # << >>,
           Head(l.todo) = "set_flags", Aim(l, e).rounding \notin Roundings
    PROVE  Does(t, l, x, e, f, Blank, x, e, f)
<1>1. Stage(l.call.op, Count(l.todo), "set_flags") /\ InCall(t, l, x, e)
    BY InStage
<1>2. x \in Context /\ e \in Stored /\ f \subseteq Exceptions
    BY DEF Proper
<1>3. x = Env(x.flags, x.rounding)
    BY <1>2 DEF Context, Env
<1>4. Aim(l, e) = Goal(l.call, e)
    BY <1>2, AimIsGoal
<1>6. \/ l.call.op = "fesetenv" /\ Count(l.todo) = 2
      \/ l.call.op = "feupdateenv" /\ Count(l.todo) = 4
    BY <1>1, AtSet
<1>7. EnvOf(l, x, e, f) = x /\ Asked(l) = l.call
    BY <1>3, <1>6 DEF EnvOf, Asked, Installs, Holds, Replaces, Env
<1>8. Effect(l.call, x, e, f, x, e, f)
    BY <1>4, <1>6 DEF Effect
<1> QED
    BY <1>2, <1>7, <1>8, BlankRests DEF Does, Acts

LEMMA SetRoundingEffect ==
    ASSUME NEW t, NEW l, NEW x, NEW e, NEW f, Proper(t, l, x, e, f), l.todo # << >>,
           Head(l.todo) = "set_rounding",
           NEW r, r = IF l.call.op = "fesetround" THEN l.call.rounding ELSE Aim(l, e).rounding,
           NEW x2, x2 = Env(x.flags, r), NEW m, m = Onto(l)
    PROVE  Does(t, l, x, e, f, m, x2, e, f)
<1>1. /\ InCall(t, l, x, e) /\ IsOwn(t, l) /\ l.call.op \in Entries
      /\ Stage(l.call.op, Count(l.todo), "set_rounding")
    BY InStage
<1>2. x \in Context /\ e \in Stored /\ f \subseteq Exceptions
    BY DEF Proper
<1>3. x = Env(x.flags, x.rounding)
    BY <1>2 DEF Context, Env
<1>4. CASE l.call.op = "fesetround" /\ Count(l.todo) = 1
  <2>1. EnvOf(l, x, e, f) = x /\ Asked(l) = l.call
      BY <1>3, <1>4 DEF EnvOf, Asked, Installs, Holds, Replaces, Env
  <2>2. Effect(l.call, x, e, f, x2, e, f)
      BY <1>4 DEF Effect
  <2>3. x2 \in Context
      BY <1>1, <1>2, <1>4 DEF InCall, Context, Env
  <2>4. m = Blank
      BY <1>4 DEF Onto
  <2> QED
      BY <1>2, <2>1, <2>2, <2>3, <2>4, BlankRests DEF Does, Acts
<1>5. CASE l.call.op = "fesetenv" /\ Count(l.todo) = 1
  <2>1. Installs(l.call.op, Count(l.todo)) /\ ~ Holds(l.call.op, Count(l.todo))
      BY <1>5 DEF Installs, Holds
  <2>2. l.flags = {} /\ Aim(l, e).rounding \in Roundings /\ r = Aim(l, e).rounding
      BY <1>1, <1>5, <2>1 DEF InCall
  <2>3. EnvOf(l, x, e, f) = Env(x.flags \cup l.flags, r) /\ Asked(l) = NoCall
      BY <2>1, <2>2 DEF EnvOf, Asked, Env
  <2>4. x.flags \cup l.flags = x.flags
      BY <2>2
  <2>5. x2 \in Context
      BY <1>2, <2>2 DEF Context, Env
  <2>6. m = Blank
      BY <1>5 DEF Onto
  <2>7. EnvOf(l, x, e, f) = x2
      BY <2>3, <2>4
  <2> QED
      BY <1>2, <2>3, <2>5, <2>6, <2>7, BlankRests DEF Does, Acts
<1>6. CASE l.call.op = "feupdateenv" /\ Count(l.todo) = 3
  <2>1. Installs(l.call.op, Count(l.todo)) /\ ~ Holds(l.call.op, Count(l.todo))
      BY <1>6 DEF Installs, Holds
  <2>2. Aim(l, e).rounding \in Roundings /\ r = Aim(l, e).rounding
      BY <1>1, <1>6, <2>1 DEF InCall
  <2>3. EnvOf(l, x, e, f) = Env(x.flags \cup l.flags, r) /\ Asked(l) = NoCall
      BY <2>1, <2>2 DEF EnvOf, Asked, Env
  <2>5. x2 \in Context /\ x2.rounding = r /\ x2.flags = x.flags
      BY <1>2, <2>2 DEF Context, Env
  <2>6. Rest(t, l, m)
      BY <1>1, <1>6, OntoRest DEF InCall
  <2>7. /\ m.call = l.call /\ m.at = l.at /\ m.c = l.c /\ m.flags = l.flags
        /\ IsOwn(t, m) /\ Due(m.call.op, m.todo) /\ Count(m.todo) = 2
      BY <1>6, <2>6 DEF Rest, Less
  <2>8. Installs(m.call.op, Count(m.todo)) /\ ~ Holds(m.call.op, Count(m.todo))
      BY <1>6, <2>7 DEF Installs, Holds
  <2>9. Aim(m, e) = Aim(l, e)
      BY <2>7 DEF Aim
  <2>10. InCall(t, m, x2, e)
      BY <1>1, <1>6, <2>2, <2>5, <2>7, <2>9 DEF InCall, Borrows, Remembers, HasFlags, HasMode
  <2>11. EnvOf(m, x2, e, f) = Env(x.flags \cup l.flags, r) /\ Asked(m) = NoCall
      BY <2>2, <2>5, <2>7, <2>8, <2>9 DEF EnvOf, Asked, Env
  <2> QED
      BY <1>2, <2>3, <2>5, <2>7, <2>10, <2>11 DEF Does, Acts, Proper
<1> QED
    BY <1>1, <1>4, <1>5, <1>6, AtSet

LEMMA AtOperation ==
    ASSUME NEW op, NEW n
    PROVE  /\ Stage(op, n, "evaluate")
                => (op = "tgamma" /\ n \in {3, 7}) \/ (op = "operation" /\ n = 2)
           /\ Stage(op, n, "take_mode") => op = "tgamma" /\ n = 9
           /\ Stage(op, n, "swap") => op = "tgamma" /\ n = 5
           /\ Stage(op, n, "restore") => op = "tgamma" /\ n = 1
BY DEF Stage

LEMMA EvaluateEffect ==
    ASSUME NEW t, NEW l, NEW x, NEW e, NEW f, Proper(t, l, x, e, f), l.todo # << >>,
           Head(l.todo) = "evaluate", NEW a, NEW k, k = [l EXCEPT !.answer = a],
           NEW m, m = Onto(k)
    PROVE  Does(t, l, x, e, f, m, x, e, f)
<1>1. /\ InCall(t, l, x, e) /\ IsOwn(t, l) /\ l.call.op \in Entries
      /\ Stage(l.call.op, Count(l.todo), "evaluate")
    BY InStage
<1>2. x \in Context /\ e \in Stored /\ f \subseteq Exceptions
    BY DEF Proper
<1>3. \/ l.call.op = "tgamma" /\ Count(l.todo) \in {3, 7}
      \/ l.call.op = "operation" /\ Count(l.todo) = 2
    BY <1>1, AtOperation
<1>4. /\ IsOwn(t, k) /\ k.todo = l.todo /\ k.call = l.call /\ k.at = l.at /\ k.c = l.c
      /\ k.mode = l.mode /\ k.flags = l.flags
    BY <1>1 DEF IsOwn
<1>5. Rest(t, k, m)
  <2>1. Due(k.call.op, k.todo) /\ Count(k.todo) # 1
      BY <1>1, <1>3, <1>4 DEF InCall
  <2> QED
      BY <1>4, <2>1, OntoRest
<1>6. /\ m.call = l.call /\ m.at = l.at /\ m.c = l.c /\ m.mode = l.mode /\ m.flags = l.flags
      /\ IsOwn(t, m) /\ Due(m.call.op, m.todo)
      /\ \/ l.call.op = "tgamma" /\ Count(l.todo) = 3 /\ Count(m.todo) = 2
         \/ l.call.op = "tgamma" /\ Count(l.todo) = 7 /\ Count(m.todo) = 6
         \/ l.call.op = "operation" /\ Count(m.todo) = 1
    BY <1>3, <1>4, <1>5 DEF Rest, Less
<1>7. /\ Borrows(m.call.op, Count(m.todo)) <=> Borrows(l.call.op, Count(l.todo))
      /\ Remembers(m.call.op, Count(m.todo)) <=> Remembers(l.call.op, Count(l.todo))
    BY <1>3, <1>6 DEF Borrows, Remembers
<1>8. InCall(t, m, x, e)
    BY <1>1, <1>3, <1>6, <1>7 DEF InCall, Installs, HasFlags, HasMode
<1>9. /\ ~ Installs(m.call.op, Count(m.todo)) /\ ~ Holds(m.call.op, Count(m.todo))
      /\ ~ Replaces(m.call.op, Count(m.todo))
    BY <1>6 DEF Installs, Holds, Replaces
<1>10. /\ ~ Installs(l.call.op, Count(l.todo)) /\ ~ Holds(l.call.op, Count(l.todo))
       /\ ~ Replaces(l.call.op, Count(l.todo))
    BY <1>3 DEF Installs, Holds, Replaces
<1>11. EnvOf(m, x, e, f) = EnvOf(l, x, e, f) /\ Asked(m) = Asked(l)
    BY <1>6, <1>9, <1>10 DEF EnvOf, Asked
<1> QED
    BY <1>2, <1>6, <1>8, <1>11 DEF Does, Acts, Proper

LEMMA TakeModeEffect ==
    ASSUME NEW t \in Threads, NEW l, NEW x, NEW e, NEW f, Proper(t, l, x, e, f), l.todo # << >>,
           Head(l.todo) = "take_mode",
           NEW k, k = [l EXCEPT !.c = l.at, !.mode = x.rounding], NEW m, m = Onto(k)
    PROVE  Does(t, l, x, e, f, m, x, e, f)
<1>1. /\ InCall(t, l, x, e) /\ IsOwn(t, l) /\ l.call.op \in Entries
      /\ Stage(l.call.op, Count(l.todo), "take_mode")
    BY InStage
<1>2. x \in Context /\ e \in Stored /\ f \subseteq Exceptions
    BY DEF Proper
<1>3. l.call.op = "tgamma" /\ Count(l.todo) = 9
    BY <1>1, AtOperation
<1>4. l.at = t /\ l.c = Null /\ x.rounding \in Roundings /\ t # Null
    BY <1>1, <1>2, <1>3, NullIsNoThread DEF InCall, Borrows, Context
<1>5. /\ IsOwn(t, k) /\ k.todo = l.todo /\ k.call = l.call /\ k.at = t /\ k.c = t
      /\ k.mode = x.rounding /\ k.flags = l.flags
    BY <1>1, <1>4 DEF IsOwn
<1>6. Rest(t, k, m)
  <2>1. Due(k.call.op, k.todo) /\ Count(k.todo) # 1
      BY <1>1, <1>3, <1>5 DEF InCall
  <2> QED
      BY <1>5, <2>1, OntoRest
<1>7. /\ m.call = l.call /\ m.at = t /\ m.c = t /\ m.mode = x.rounding /\ m.flags = l.flags
      /\ IsOwn(t, m) /\ Due(m.call.op, m.todo) /\ m.call.op = "tgamma" /\ Count(m.todo) = 8
    BY <1>3, <1>5, <1>6 DEF Rest, Less
<1>8. Borrows(m.call.op, Count(m.todo))
    BY <1>7 DEF Borrows
<1>9. InCall(t, m, x, e)
    BY <1>1, <1>4, <1>7, <1>8 DEF InCall, Installs, HasFlags, HasMode
<1>10. /\ ~ Installs(m.call.op, Count(m.todo)) /\ ~ Holds(m.call.op, Count(m.todo))
       /\ ~ Replaces(m.call.op, Count(m.todo))
    BY <1>7 DEF Installs, Holds, Replaces
<1>11. /\ ~ Installs(l.call.op, Count(l.todo)) /\ ~ Holds(l.call.op, Count(l.todo))
       /\ ~ Replaces(l.call.op, Count(l.todo))
    BY <1>3 DEF Installs, Holds, Replaces
<1>12. EnvOf(m, x, e, f) = EnvOf(l, x, e, f) /\ Asked(m) = Asked(l)
    BY <1>3, <1>4, <1>7, <1>10, <1>11 DEF EnvOf, Asked
<1> QED
    BY <1>2, <1>7, <1>9, <1>12 DEF Does, Acts, Proper

(* tgamma between its operations: it has a call to finish, and the mode it  *)
(* took is its thread's.                                                    *)
LEMMA InGamma ==
    ASSUME NEW t \in Threads, NEW l, NEW x, NEW e, NEW f, Proper(t, l, x, e, f), l.todo # << >>,
           \/ Head(l.todo) = "swap"
           \/ Head(l.todo) = "restore"
    PROVE  /\ InCall(t, l, x, e) /\ IsOwn(t, l) /\ l.call.op = "tgamma"
           /\ x \in Context /\ e \in Stored /\ f \subseteq Exceptions
           /\ l.c = t /\ l.mode \in Roundings /\ t # Null
           /\ Head(l.todo) = "swap" => Count(l.todo) = 5 /\ l.mode = x.rounding
           /\ Head(l.todo) = "restore" => Count(l.todo) = 1
           /\ EnvOf(l, x, e, f) = Env(x.flags, l.mode) /\ Asked(l) = l.call
<1>1. /\ InCall(t, l, x, e) /\ IsOwn(t, l)
      /\ Stage(l.call.op, Count(l.todo), Head(l.todo))
    BY InStage
<1>2. /\ l.call.op = "tgamma"
      /\ Head(l.todo) = "swap" => Count(l.todo) = 5
      /\ Head(l.todo) = "restore" => Count(l.todo) = 1
    BY <1>1, AtOperation
<1>3. /\ Borrows(l.call.op, Count(l.todo))
      /\ Head(l.todo) = "swap" => Remembers(l.call.op, Count(l.todo))
    BY <1>2 DEF Borrows, Remembers
<1>4. /\ l.c = t /\ l.mode \in Roundings /\ t # Null
      /\ Head(l.todo) = "swap" => l.mode = x.rounding
    BY <1>1, <1>3, NullIsNoThread DEF InCall
<1>5. /\ ~ Installs(l.call.op, Count(l.todo)) /\ ~ Holds(l.call.op, Count(l.todo))
      /\ ~ Replaces(l.call.op, Count(l.todo))
    BY <1>2 DEF Installs, Holds, Replaces
<1>6. EnvOf(l, x, e, f) = Env(x.flags, l.mode) /\ Asked(l) = l.call
    BY <1>2, <1>4, <1>5 DEF EnvOf, Asked, Env
<1> QED
    BY <1>1, <1>2, <1>4, <1>6 DEF Proper

LEMMA AgainEffect ==
    ASSUME NEW t \in Threads, NEW l, NEW x, NEW e, NEW f, Proper(t, l, x, e, f), l.todo # << >>,
           Head(l.todo) = "swap" \/ Head(l.todo) = "restore",
           NEW m, m = [l EXCEPT !.todo = <<"fetch", "evaluate", "raise">> \o l.todo]
    PROVE  Does(t, l, x, e, f, m, x, e, f)
<1>1. /\ InCall(t, l, x, e) /\ IsOwn(t, l) /\ l.call.op = "tgamma"
      /\ x \in Context /\ e \in Stored /\ f \subseteq Exceptions
      /\ l.c = t /\ l.mode \in Roundings /\ t # Null
      /\ Head(l.todo) = "swap" => l.mode = x.rounding
      /\ EnvOf(l, x, e, f) = Env(x.flags, l.mode) /\ Asked(l) = l.call
    BY InGamma
<1>more. PICK more : more = <<"fetch", "evaluate", "raise">> \o l.todo
    OBVIOUS
<1>2. /\ IsOwn(t, m) /\ m.call = l.call /\ m.at = l.at /\ m.c = l.c /\ m.mode = l.mode
      /\ m.flags = l.flags /\ m.todo = more
  <2>1. m = [l EXCEPT !.todo = more]
      BY <1>more, Zenon
  <2> QED
      BY <1>1, <2>1 DEF IsOwn
<1>todo. m.todo = <<"fetch", "evaluate", "raise">> \o l.todo
    BY <1>2, <1>more, Zenon
<1>3. /\ Due("tgamma", m.todo) /\ Head(m.todo) = "fetch"
      /\ \/ Head(l.todo) = "swap" /\ Count(m.todo) = 8
         \/ Count(m.todo) = 4
  <2>1. Due("tgamma", l.todo)
      BY <1>1 DEF InCall
  <2>2. CASE l.todo = <<"swap", "fetch", "evaluate", "raise", "restore">>
    <3>1. m.todo = <<"fetch", "evaluate", "raise", "swap", "fetch", "evaluate", "raise", "restore">>
        BY <1>todo, <2>2, Prepended, Zenon
    <3>2. Head(l.todo) = "swap" /\ Head(m.todo) = "fetch" /\ Len(m.todo) = 8
        BY <2>2, <3>1
    <3>3. Due("tgamma", m.todo)
        BY <3>1 DEF Due
    <3> QED
        BY <3>2, <3>3 DEF Count
  <2>3. CASE l.todo = <<"restore">>
    <3>1. m.todo = <<"fetch", "evaluate", "raise", "restore">>
        BY <1>todo, <2>3, Prepended, Zenon
    <3>2. Head(m.todo) = "fetch" /\ Len(m.todo) = 4
        BY <3>1
    <3>3. Due("tgamma", m.todo)
        BY <3>1 DEF Due
    <3> QED
        BY <3>2, <3>3 DEF Count
  <2> QED
      BY <2>1, <2>2, <2>3, AtJunction
<1>4. /\ Borrows(m.call.op, Count(m.todo))
      /\ Remembers(m.call.op, Count(m.todo)) => l.mode = x.rounding
    BY <1>1, <1>2, <1>3 DEF Borrows, Remembers
<1>5. InCall(t, m, x, e)
    BY <1>1, <1>2, <1>3, <1>4 DEF InCall, Installs, HasFlags, HasMode
<1>6. /\ ~ Installs(m.call.op, Count(m.todo)) /\ ~ Holds(m.call.op, Count(m.todo))
      /\ ~ Replaces(m.call.op, Count(m.todo))
    BY <1>1, <1>2 DEF Installs, Holds, Replaces
<1>7. EnvOf(m, x, e, f) = EnvOf(l, x, e, f) /\ Asked(m) = Asked(l)
    BY <1>1, <1>2, <1>6 DEF EnvOf, Asked, Env
<1> QED
    BY <1>1, <1>2, <1>5, <1>7 DEF Does, Acts, Proper

LEMMA ReturnEffect ==
    ASSUME NEW t \in Threads, NEW l, NEW x, NEW e, NEW f, Proper(t, l, x, e, f), l.todo # << >>,
           Head(l.todo) = "swap", NEW a, a \subseteq Exceptions,
           NEW x2, x2 = Env(x.flags \cup a, x.rounding)
    PROVE  Does(t, l, x, e, f, Blank, x2, e, f)
<1>1. /\ l.call.op = "tgamma" /\ x \in Context /\ e \in Stored /\ f \subseteq Exceptions
      /\ l.mode = x.rounding
      /\ EnvOf(l, x, e, f) = Env(x.flags, l.mode) /\ Asked(l) = l.call
    BY InGamma
<1>2. x2 \in Context
    BY <1>1 DEF Context, Env
<1>3. Effect(l.call, Env(x.flags, x.rounding), e, f, x2, e, f)
    BY <1>1 DEF Effect, Env
<1> QED
    BY <1>1, <1>2, <1>3, BlankRests DEF Does, Acts

LEMMA SwapEffect ==
    ASSUME NEW t \in Threads, NEW l, NEW x, NEW e, NEW f, Proper(t, l, x, e, f), l.todo # << >>,
           Head(l.todo) = "swap", NEW r \in Roundings, NEW x2, x2 = Env(x.flags, r),
           NEW m, m = Onto(l)
    PROVE  Does(t, l, x, e, f, m, x2, e, f)
<1>1. /\ InCall(t, l, x, e) /\ IsOwn(t, l) /\ l.call.op = "tgamma"
      /\ x \in Context /\ e \in Stored /\ f \subseteq Exceptions
      /\ l.c = t /\ l.mode \in Roundings /\ t # Null /\ Count(l.todo) = 5
      /\ EnvOf(l, x, e, f) = Env(x.flags, l.mode) /\ Asked(l) = l.call
    BY InGamma
<1>2. x2 \in Context /\ x2.flags = x.flags
    BY <1>1 DEF Context, Env
<1>3. l.at = t
    BY <1>1 DEF InCall
<1>4. Rest(t, l, m)
  <2>1. Due(l.call.op, l.todo) /\ Count(l.todo) # 1
      BY <1>1 DEF InCall
  <2> QED
      BY <1>1, <2>1, OntoRest
<1>5. /\ m.call = l.call /\ m.at = t /\ m.c = t /\ m.mode = l.mode /\ m.flags = l.flags
      /\ IsOwn(t, m) /\ Due(m.call.op, m.todo) /\ m.call.op = "tgamma" /\ Count(m.todo) = 4
    BY <1>1, <1>3, <1>4 DEF Rest, Less
<1>6. Borrows(m.call.op, Count(m.todo)) /\ ~ Remembers(m.call.op, Count(m.todo))
    BY <1>5 DEF Borrows, Remembers
<1>7. InCall(t, m, x2, e)
    BY <1>1, <1>5, <1>6 DEF InCall, Installs, HasFlags, HasMode
<1>8. /\ ~ Installs(m.call.op, Count(m.todo)) /\ ~ Holds(m.call.op, Count(m.todo))
      /\ ~ Replaces(m.call.op, Count(m.todo))
    BY <1>5 DEF Installs, Holds, Replaces
<1>9. EnvOf(m, x2, e, f) = EnvOf(l, x, e, f) /\ Asked(m) = Asked(l)
    BY <1>1, <1>2, <1>5, <1>8 DEF EnvOf, Asked, Env
<1> QED
    BY <1>1, <1>2, <1>5, <1>7, <1>9 DEF Does, Acts, Proper

LEMMA RestoreEffect ==
    ASSUME NEW t \in Threads, NEW l, NEW x, NEW e, NEW f, Proper(t, l, x, e, f), l.todo # << >>,
           Head(l.todo) = "restore", NEW x2, x2 = Env(x.flags, l.mode), NEW m, m = Onto(l)
    PROVE  Does(t, l, x, e, f, m, x2, e, f)
<1>1. /\ l.call.op = "tgamma" /\ x \in Context /\ e \in Stored /\ f \subseteq Exceptions
      /\ l.mode \in Roundings /\ Count(l.todo) = 1
      /\ EnvOf(l, x, e, f) = x2 /\ Asked(l) = l.call
    BY InGamma
<1>2. x2 \in Context /\ x2 = Env(x2.flags \cup {}, x2.rounding)
    BY <1>1 DEF Context, Env
<1>3. Effect(l.call, x2, e, f, x2, e, f)
    BY <1>1, <1>2 DEF Effect
<1>4. m = Blank
    BY <1>1 DEF Onto
<1> QED
    BY <1>1, <1>2, <1>3, <1>4, BlankRests DEF Does, Acts

LEMMA ScriptIsDue ==
    ASSUME NEW c \in Request
    PROVE  /\ Due(c.op, Script(c)) /\ Head(Script(c)) = "fetch"
           /\ ~ Installs(c.op, Count(Script(c))) /\ ~ Holds(c.op, Count(Script(c)))
           /\ ~ Replaces(c.op, Count(Script(c)))
           /\ ~ Borrows(c.op, Count(Script(c))) /\ ~ HasFlags(c.op, Count(Script(c)))
           /\ ~ HasMode(c.op, Count(Script(c))) /\ ~ Remembers(c.op, Count(Script(c)))
<1>1. c.op \in Entries
    BY DEF Request
<1>2. Due(c.op, Script(c)) /\ Head(Script(c)) = "fetch"
    BY <1>1 DEF Entries, Script, Due
<1>3. CASE c.op = "feupdateenv"
  <2>1. Count(Script(c)) = 7
      BY <1>3 DEF Script, Count
  <2> QED
      BY <1>2, <1>3, <2>1 DEF Installs, Holds, Replaces, Borrows, Remembers, HasFlags, HasMode
<1>4. CASE c.op = "tgamma"
  <2>1. Count(Script(c)) = 10
      BY <1>4 DEF Script, Count
  <2> QED
      BY <1>2, <1>4, <2>1 DEF Installs, Holds, Replaces, Borrows, Remembers, HasFlags, HasMode
<1>5. CASE c.op \notin {"feupdateenv", "tgamma"}
  <2>1. c.op = "fesetenv" => Count(Script(c)) = 3
      BY <1>5 DEF Script, Count
  <2>2. c.op = "feholdexcept" => Count(Script(c)) = 4
      BY <1>5 DEF Script, Count
  <2>3. c.op = "fesetexceptflag" => Count(Script(c)) = 3
      BY <1>5 DEF Script, Count
  <2> QED
      BY <1>2, <1>5, <2>1, <2>2, <2>3
      DEF Installs, Holds, Replaces, Borrows, Remembers, HasFlags, HasMode
<1> QED
    BY <1>3, <1>4, <1>5

LEMMA Marks ==
    ASSUME NEW op, NEW todo, Due(op, todo)
    PROVE  /\ op = "fesetenv" => (todo \in {<<"set_rounding">>} <=> Count(todo) = 1)
           /\ op = "feupdateenv"
                => (todo \in {<<"set_rounding", "fetch", "raise">>, <<"fetch", "raise">>, <<"raise">>}
                      <=> Count(todo) \in 1..3)
           /\ op = "feholdexcept"
                => (todo \in {<<"fetch", "clear">>, <<"clear">>} <=> Count(todo) \in 1..2)
           /\ op = "fesetexceptflag" => (todo \in {<<"raise">>} <=> Count(todo) = 1)
<1>1. CASE op = "fesetenv"
    BY <1>1 DEF Due, Count
<1>2. CASE op = "feupdateenv"
    BY <1>2 DEF Due, Count
<1>3. CASE op = "feholdexcept"
    BY <1>3 DEF Due, Count
<1>4. CASE op = "fesetexceptflag"
    BY <1>4 DEF Due, Count
<1> QED
    BY <1>1, <1>2, <1>3, <1>4

EffectInvariant ==
    /\ EnvironmentInvariant
    /\ saved \in [Threads -> Stored]
    /\ flag \in [Threads -> SUBSET Exceptions]
    /\ \A t \in Threads : Proper(t, local[t], contexts[t], saved[t], flag[t])

LEMMA Seen ==
    ASSUME NEW t \in Threads, Proper(t, local[t], contexts[t], saved[t], flag[t])
    PROVE  /\ Environment(t) = EnvOf(local[t], contexts[t], saved[t], flag[t])
           /\ Pending(t) = Asked(local[t])
<1> DEFINE op == local[t].call.op  todo == local[t].todo  n == Count(todo)
<1>1. /\ Installing(t) <=> Installs(op, n)
      /\ Holding(t) <=> Holds(op, n)
      /\ Replacing(t) <=> Replaces(op, n)
  <2>1. CASE local[t] = Blank
    <3>1. op = "none"
        BY <2>1 DEF Blank, NoCall
    <3> QED
        BY <3>1 DEF Installing, Holding, Replacing, Writing, Installs, Holds, Replaces
  <2>2. CASE Due(op, todo)
    <3> HIDE DEF op, todo, n
    <3>1. Installing(t) <=> (op = "fesetenv" /\ todo \in {<<"set_rounding">>}) \/ (op = "feupdateenv" /\ todo \in {<<"set_rounding", "fetch", "raise">>, <<"fetch", "raise">>, <<"raise">>})
        BY DEF Installing, Writing, op, todo
    <3>2. Holding(t) <=> op = "feholdexcept" /\ todo \in {<<"fetch", "clear">>, <<"clear">>}
        BY DEF Holding, Writing, op, todo
    <3>3. Replacing(t) <=> op = "fesetexceptflag" /\ todo \in {<<"raise">>}
        BY DEF Replacing, Writing, op, todo
    <3> QED
        BY <2>2, <3>1, <3>2, <3>3, Marks DEF n, Installs, Holds, Replaces
  <2> QED
      BY <2>1, <2>2 DEF Proper, InCall
<1>2. Replaces(op, n) => Raised(t) = flag[t] \cap local[t].call.excepts
    BY DEF Replaces, Raised
<1>3. Target(t) = Aim(local[t], saved[t])
    BY DEF Target, Aim
<1>4. Swapped(t) <=> op = "tgamma" /\ local[t].c # Null
    BY DEF Swapped
<1>5. Pending(t) = Asked(local[t])
    BY <1>1 DEF Pending, Asked
<1>6. Environment(t) = EnvOf(local[t], contexts[t], saved[t], flag[t])
    BY <1>1, <1>2, <1>3, <1>4 DEF Environment, EnvOf, FlagsToCome
<1> QED
    BY <1>5, <1>6

LEMMA OnwardOnto ==
    ASSUME EnvironmentInvariant, NEW t \in Threads, NEW k, Onward(t, k)
    PROVE  local'[t] = Onto(k) /\ \A u \in Threads \ {t} : local'[u] = local[u]
BY DEF Onward, Onto, Count, EnvironmentInvariant

LEMMA StoreOwn ==
    ASSUME EnvironmentInvariant, NEW t \in Threads, NEW flags, NEW rounding,
           Store(t, flags, rounding)
    PROVE  contexts'[t] = Env(flags, rounding) /\ \A u \in Threads \ {t} : contexts'[u] = contexts[u]
BY DEF Store, Env, EnvironmentInvariant

(* What a call of thread t does to the thread, and to no other.             *)
Changes(t) ==
    /\ saved' = [saved EXCEPT ![t] = saved'[t]]
    /\ flag' = [flag EXCEPT ![t] = flag'[t]]
    /\ \A u \in Threads \ {t} : local'[u] = local[u] /\ contexts'[u] = contexts[u]
    /\ Does(t, local[t], contexts[t], saved[t], flag[t], local'[t], contexts'[t], saved'[t], flag'[t])

LEMMA StepChanges ==
    ASSUME EffectInvariant, NEW t \in Threads, Step(t)
    PROVE  Changes(t)
<1> DEFINE l == local[t]  x == contexts[t]  e == saved[t]  f == flag[t]
<1>1. EnvironmentInvariant /\ Proper(t, l, x, e, f)
    BY DEF EffectInvariant
<1>2. x \in Context /\ e \in Stored /\ f \subseteq Exceptions
    BY <1>1 DEF Proper
<1>3. UNCHANGED saved => saved' = [saved EXCEPT ![t] = saved'[t]] /\ saved'[t] = e
    BY DEF EffectInvariant
<1>4. UNCHANGED flag => flag' = [flag EXCEPT ![t] = flag'[t]] /\ flag'[t] = f
    BY DEF EffectInvariant
<1>5. l.todo # << >> /\ Head(l.todo) # "fetch" => l.at = t
    BY <1>1, InStage DEF InCall
<1>6. Target(t) = Aim(l, e) /\ Here(t) = contexts[l.at]
    BY DEF Target, Aim, Here
<1> HIDE DEF l, x, e, f
<1>a. CASE Fetch(t)
  <2>1. l.todo # << >> /\ Head(l.todo) = "fetch" /\ Current = t /\ Onward(t, [l EXCEPT !.at = t])
      BY <1>1, <1>a DEF Fetch, Next1, EnvironmentInvariant, l
  <2>2. local'[t] = Onto([l EXCEPT !.at = t]) /\ \A u \in Threads \ {t} : local'[u] = local[u]
      BY <1>1, <2>1, OnwardOnto
  <2>3. Does(t, l, x, e, f, local'[t], x, e, f)
      BY <1>1, <2>1, <2>2, FetchEffect
  <2> QED
      BY <1>a, <1>3, <1>4, <2>2, <2>3 DEF Fetch, Changes, l, x, e, f
<1>b. CASE Clear(t)
  <2>1. l.todo # << >> /\ Head(l.todo) = "clear" /\ Onward(t, l) /\ Mask(t) = IF l.call.op = "feholdexcept" THEN Exceptions ELSE l.call.excepts
      BY <1>b DEF Clear, Next1, Mask, l
  <2>2. local'[t] = Onto(l) /\ \A u \in Threads \ {t} : local'[u] = local[u]
      BY <1>1, <2>1, OnwardOnto
  <2>3. l.at = t /\ Here(t) = x
      BY <1>5, <1>6, <2>1 DEF x
  <2>4. Store(t, x.flags \ Mask(t), x.rounding)
      BY <1>b, <2>3 DEF Clear, l
  <2>5. contexts'[t] = Env(x.flags \ Mask(t), x.rounding) /\ \A u \in Threads \ {t} : contexts'[u] = contexts[u]
      BY <1>1, <2>4, StoreOwn
  <2>6. Does(t, l, x, e, f, local'[t], contexts'[t], e, f)
      BY <1>1, <2>1, <2>2, <2>5, ClearEffect
  <2> QED
      BY <1>b, <1>3, <1>4, <2>2, <2>5, <2>6 DEF Clear, Changes, l, x, e, f
<1>c. CASE Raise(t)
  <2>1. l.todo # << >> /\ Head(l.todo) = "raise" /\ Onward(t, [l EXCEPT !.answer = << >>])
      BY <1>c DEF Raise, Next1, l
  <2>2. local'[t] = Onto([l EXCEPT !.answer = << >>]) /\ \A u \in Threads \ {t} : local'[u] = local[u]
      BY <1>1, <2>1, OnwardOnto
  <2>3. l.at = t /\ Here(t) = x
      BY <1>5, <1>6, <2>1 DEF x
  <2>4. Store(t, x.flags \cup (Raised(t) \cap Exceptions), x.rounding)
      BY <1>c, <2>3 DEF Raise, l
  <2>5. /\ contexts'[t] = Env(x.flags \cup (Raised(t) \cap Exceptions), x.rounding)
        /\ \A u \in Threads \ {t} : contexts'[u] = contexts[u]
      BY <1>1, <2>4, StoreOwn
  <2>6. /\ l.call.op = "feraiseexcept" => Raised(t) = l.call.excepts
        /\ l.call.op = "fesetexceptflag" => Raised(t) = f \cap l.call.excepts
        /\ l.call.op = "feupdateenv" => Raised(t) = l.flags
      BY DEF Raised, l, f
  <2>7. PICK raised : raised = Raised(t) \cap Exceptions
      OBVIOUS
  <2>8. Does(t, l, x, e, f, local'[t], contexts'[t], e, f)
      BY <1>1, <2>1, <2>2, <2>5, <2>6, <2>7, RaiseEffect
  <2> QED
      BY <1>c, <1>3, <1>4, <2>2, <2>5, <2>8 DEF Raise, Changes, l, x, e, f
<1>d. CASE GetFlags(t)
  <2>1. l.todo # << >> /\ Head(l.todo) = "get_flags" /\ Onward(t, l)
      BY <1>d DEF GetFlags, Next1, l
  <2>2. local'[t] = Onto(l) /\ \A u \in Threads \ {t} : local'[u] = local[u]
      BY <1>1, <2>1, OnwardOnto
  <2>3. l.at = t /\ Here(t) = x
      BY <1>5, <1>6, <2>1 DEF x
  <2>4. flag'[t] = x.flags \cap l.call.excepts /\ flag' = [flag EXCEPT ![t] = flag'[t]]
      BY <1>d, <2>3 DEF GetFlags, EffectInvariant, l
  <2>5. Does(t, l, x, e, f, local'[t], x, e, flag'[t])
      BY <1>1, <2>1, <2>2, <2>4, GetFlagsEffect
  <2> QED
      BY <1>d, <1>3, <2>2, <2>4, <2>5 DEF GetFlags, Changes, l, x, e, f
<1>e. CASE GetEnvironment(t)
  <2>1. l.todo # << >> /\ Head(l.todo) = "get_environment" /\ Onward(t, l)
      BY <1>e DEF GetEnvironment, Next1, l
  <2>2. local'[t] = Onto(l) /\ \A u \in Threads \ {t} : local'[u] = local[u]
      BY <1>1, <2>1, OnwardOnto
  <2>3. l.at = t /\ Here(t) = x
      BY <1>5, <1>6, <2>1 DEF x
  <2>4. saved'[t] = x /\ saved' = [saved EXCEPT ![t] = saved'[t]]
      BY <1>e, <2>3 DEF GetEnvironment, EffectInvariant
  <2>5. Does(t, l, x, e, f, local'[t], x, x, f)
      BY <1>1, <2>1, <2>2, GetEnvironmentEffect
  <2> QED
      BY <1>e, <1>4, <2>2, <2>4, <2>5 DEF GetEnvironment, Changes, l, x, e, f
<1>f. CASE TakeFlags(t)
  <2>1. l.todo # << >> /\ Head(l.todo) = "take_flags" /\ Onward(t, [l EXCEPT !.flags = Here(t).flags])
      BY <1>f DEF TakeFlags, Next1, l
  <2>2. l.at = t /\ Here(t) = x
      BY <1>5, <1>6, <2>1 DEF x
  <2>3. local'[t] = Onto([l EXCEPT !.flags = x.flags]) /\ \A u \in Threads \ {t} : local'[u] = local[u]
      BY <1>1, <2>1, <2>2, OnwardOnto
  <2>4. Does(t, l, x, e, f, local'[t], x, e, f)
      BY <1>1, <2>1, <2>3, TakeFlagsEffect
  <2> QED
      BY <1>f, <1>3, <1>4, <2>3, <2>4 DEF TakeFlags, Changes, l, x, e, f
<1>g. CASE SetFlags(t)
  <2>1. l.todo # << >> /\ Head(l.todo) = "set_flags" /\ Onward(t, l) /\ Aim(l, e).rounding \in Roundings
      BY <1>g, <1>6 DEF SetFlags, Next1, l
  <2>2. local'[t] = Onto(l) /\ \A u \in Threads \ {t} : local'[u] = local[u]
      BY <1>1, <2>1, OnwardOnto
  <2>3. l.at = t /\ Here(t) = x
      BY <1>5, <1>6, <2>1 DEF x
  <2>4. Store(t, Aim(l, e).flags, x.rounding)
      BY <1>g, <1>6, <2>3 DEF SetFlags, l
  <2>5. /\ contexts'[t] = Env(Aim(l, e).flags, x.rounding)
        /\ \A u \in Threads \ {t} : contexts'[u] = contexts[u]
      BY <1>1, <2>4, StoreOwn
  <2>6. Does(t, l, x, e, f, local'[t], contexts'[t], e, f)
      BY <1>1, <2>1, <2>2, <2>5, SetFlagsEffect
  <2> QED
      BY <1>g, <1>3, <1>4, <2>2, <2>5, <2>6 DEF SetFlags, Changes, l, x, e, f
<1>h. CASE RejectEnvironment(t)
  <2>1. l.todo # << >> /\ Head(l.todo) = "set_flags" /\ Aim(l, e).rounding \notin Roundings
      BY <1>h, <1>6 DEF RejectEnvironment, Next1, l
  <2>2. local'[t] = Blank /\ \A u \in Threads \ {t} : local'[u] = local[u]
      BY <1>1, <1>h DEF RejectEnvironment, EnvironmentInvariant
  <2>3. Does(t, l, x, e, f, local'[t], x, e, f)
      BY <1>1, <2>1, <2>2, RejectEffect
  <2> QED
      BY <1>h, <1>3, <1>4, <2>2, <2>3 DEF RejectEnvironment, Changes, l, x, e, f
<1>i. CASE SetRounding(t)
  <2>1. l.todo # << >> /\ Head(l.todo) = "set_rounding" /\ Onward(t, l)
      BY <1>i DEF SetRounding, Next1, l
  <2>2. local'[t] = Onto(l) /\ \A u \in Threads \ {t} : local'[u] = local[u]
      BY <1>1, <2>1, OnwardOnto
  <2>3. l.at = t /\ Here(t) = x
      BY <1>5, <1>6, <2>1 DEF x
  <2>r. PICK r : r = IF l.call.op = "fesetround" THEN l.call.rounding ELSE Aim(l, e).rounding
      OBVIOUS
  <2>4. Store(t, x.flags, r)
      BY <1>i, <1>6, <2>3, <2>r DEF SetRounding, l
  <2>5. /\ contexts'[t] = Env(x.flags, r)
        /\ \A u \in Threads \ {t} : contexts'[u] = contexts[u]
      BY <1>1, <2>4, StoreOwn
  <2>6. Does(t, l, x, e, f, local'[t], contexts'[t], e, f)
      BY <1>1, <2>1, <2>2, <2>r, <2>5, SetRoundingEffect
  <2> QED
      BY <1>i, <1>3, <1>4, <2>2, <2>5, <2>6 DEF SetRounding, Changes, l, x, e, f
<1>j. CASE Evaluate(t)
  <2>1. PICK a : Onward(t, [l EXCEPT !.answer = a])
      BY <1>j DEF Evaluate, l
  <2>2. l.todo # << >> /\ Head(l.todo) = "evaluate"
      BY <1>j DEF Evaluate, Next1, l
  <2>3. local'[t] = Onto([l EXCEPT !.answer = a]) /\ \A u \in Threads \ {t} : local'[u] = local[u]
      BY <1>1, <2>1, OnwardOnto
  <2>4. Does(t, l, x, e, f, local'[t], x, e, f)
      BY <1>1, <2>2, <2>3, EvaluateEffect
  <2> QED
      BY <1>j, <1>3, <1>4, <2>3, <2>4 DEF Evaluate, Changes, l, x, e, f
<1>k. CASE Swap(t)
  <2>1. l.todo # << >> /\ Head(l.todo) = "swap" /\ Onward(t, l)
      BY <1>k DEF Swap, Next1, l
  <2>2. l.c = t /\ l.mode \in Roundings
      BY <1>1, <2>1, InGamma
  <2>4. local'[t] = Onto(l) /\ \A u \in Threads \ {t} : local'[u] = local[u]
      BY <1>1, <2>1, OnwardOnto
  <2>5. PICK r \in Roundings : /\ contexts'[t] = Env(x.flags, r)
                               /\ \A u \in Threads \ {t} : contexts'[u] = contexts[u]
    <3>1. CASE UNCHANGED contexts
      <4>1. contexts'[t] = Env(x.flags, x.rounding) /\ x.rounding \in Roundings
          BY <1>2, <3>1 DEF Env, Context, x
      <4> QED
          BY <3>1, <4>1
    <3>2. CASE Store(t, x.flags, Opposite(l.mode))
      <4>1. Opposite(l.mode) \in Roundings
          BY <2>2 DEF Opposite, Roundings
      <4> QED
          BY <1>1, <3>2, <4>1, StoreOwn
    <3> QED
        BY <1>k, <2>2, <3>1, <3>2 DEF Swap, l, x
  <2>6. Does(t, l, x, e, f, local'[t], contexts'[t], e, f)
      BY <1>1, <2>1, <2>4, <2>5, SwapEffect
  <2> QED
      BY <1>k, <1>3, <1>4, <2>4, <2>5, <2>6 DEF Swap, Changes, l, x, e, f
<1>l. CASE Restore(t)
  <2>1. l.todo # << >> /\ Head(l.todo) = "restore" /\ Onward(t, l)
      BY <1>l DEF Restore, Next1, l
  <2>2. local'[t] = Onto(l) /\ \A u \in Threads \ {t} : local'[u] = local[u]
      BY <1>1, <2>1, OnwardOnto
  <2>3. l.c = t /\ Does(t, l, x, e, f, local'[t], Env(x.flags, l.mode), e, f)
      BY <1>1, <2>1, <2>2, InGamma, RestoreEffect
  <2>4. Store(t, x.flags, l.mode)
      BY <1>l, <2>3 DEF Restore, l, x
  <2>5. /\ contexts'[t] = Env(x.flags, l.mode)
        /\ \A u \in Threads \ {t} : contexts'[u] = contexts[u]
      BY <1>1, <2>4, StoreOwn
  <2> QED
      BY <1>l, <1>3, <1>4, <2>2, <2>3, <2>5 DEF Restore, Changes, l, x, e, f
<1>m. CASE TakeMode(t)
  <2>1. l.todo # << >> /\ Head(l.todo) = "take_mode"
      BY <1>m DEF TakeMode, Next1, l
  <2>2. l.at = t /\ Here(t) = x
      BY <1>5, <1>6, <2>1 DEF x
  <2>3. Onward(t, [l EXCEPT !.c = l.at, !.mode = x.rounding])
      BY <1>m, <2>2 DEF TakeMode, l
  <2>4. /\ local'[t] = Onto([l EXCEPT !.c = l.at, !.mode = x.rounding])
        /\ \A u \in Threads \ {t} : local'[u] = local[u]
      BY <1>1, <2>3, OnwardOnto
  <2>5. Does(t, l, x, e, f, local'[t], x, e, f)
      BY <1>1, <2>1, <2>4, TakeModeEffect
  <2> QED
      BY <1>m, <1>3, <1>4, <2>4, <2>5 DEF TakeMode, Changes, l, x, e, f
<1>n. CASE Again(t)
  <2>1. l.todo # << >> /\ (Head(l.todo) = "swap" \/ Head(l.todo) = "restore")
      BY <1>n DEF Again, Next1, l
  <2>2. /\ local'[t] = [l EXCEPT !.todo = <<"fetch", "evaluate", "raise">> \o l.todo]
        /\ \A u \in Threads \ {t} : local'[u] = local[u]
      BY <1>1, <1>n DEF Again, EnvironmentInvariant, l
  <2>3. Does(t, l, x, e, f, local'[t], x, e, f)
      BY <1>1, <2>1, <2>2, AgainEffect
  <2> QED
      BY <1>n, <1>3, <1>4, <2>2, <2>3 DEF Again, Changes, l, x, e, f
<1>o. CASE Return(t)
  <2>1. l.todo # << >> /\ Head(l.todo) = "swap"
      BY <1>o DEF Return, Next1, l
  <2>2. local'[t] = Blank /\ \A u \in Threads \ {t} : local'[u] = local[u]
      BY <1>1, <1>o DEF Return, EnvironmentInvariant
  <2>3. x = Env(x.flags \cup {}, x.rounding)
      BY <1>2 DEF Context, Env
  <2>4. Does(t, l, x, e, f, local'[t], x, e, f)
      BY <1>1, <2>1, <2>2, <2>3, ReturnEffect
  <2> QED
      BY <1>o, <1>3, <1>4, <2>2, <2>4 DEF Return, Changes, l, x, e, f
<1>p. CASE Pole(t)
  <2>1. l.todo # << >> /\ Head(l.todo) = "swap"
      BY <1>p DEF Pole, Next1, l
  <2>2. local'[t] = Blank /\ \A u \in Threads \ {t} : local'[u] = local[u]
      BY <1>1, <1>p DEF Pole, EnvironmentInvariant
  <2>3. l.c = t
      BY <1>1, <2>1, InGamma
  <2>4. PICK a : a = {"invalid"} \cap Exceptions
      OBVIOUS
  <2>5. Store(t, x.flags \cup a, x.rounding)
      BY <1>p, <2>3, <2>4 DEF Pole, l, x
  <2>6. /\ contexts'[t] = Env(x.flags \cup a, x.rounding)
        /\ \A u \in Threads \ {t} : contexts'[u] = contexts[u]
      BY <1>1, <2>5, StoreOwn
  <2>7. Does(t, l, x, e, f, local'[t], contexts'[t], e, f)
      BY <1>1, <2>1, <2>2, <2>4, <2>6, ReturnEffect
  <2> QED
      BY <1>p, <1>3, <1>4, <2>2, <2>6, <2>7 DEF Pole, Changes, l, x, e, f
<1> QED
    BY <1>a, <1>b, <1>c, <1>d, <1>e, <1>f, <1>g, <1>h, <1>i, <1>j, <1>k, <1>l, <1>m, <1>n, <1>o,
       <1>p DEF Step

LEMMA CallChanges ==
    ASSUME EffectInvariant, NEW t \in Threads, NEW c \in Request, Call(t, c)
    PROVE  Changes(t)
<1> DEFINE l == local[t]  x == contexts[t]  e == saved[t]  f == flag[t]
           k == [Blank EXCEPT !.todo = Script(c), !.call = c]
<1>1. EnvironmentInvariant /\ Proper(t, l, x, e, f)
    BY DEF EffectInvariant
<1>2. x \in Context /\ e \in Stored /\ f \subseteq Exceptions
    BY <1>1 DEF Proper
<1>3. saved' = [saved EXCEPT ![t] = saved'[t]] /\ saved'[t] = e /\ flag' = [flag EXCEPT ![t] = flag'[t]] /\ flag'[t] = f
    BY DEF EffectInvariant, Call
<1>4. local'[t] = k /\ contexts' = contexts /\ \A u \in Threads \ {t} : local'[u] = local[u]
    BY <1>1 DEF Call, EnvironmentInvariant
<1>5. l = Blank
    BY <1>1, InStage DEF Proper, InCall, Due, Call
<1>6. /\ k.call = c /\ k.todo = Script(c) /\ k.at = Null /\ k.c = Null /\ k.flags = {} /\ IsOwn(t, k)
    BY DEF Blank, IsOwn
<1>7. /\ Due(c.op, Script(c)) /\ Head(Script(c)) = "fetch"
      /\ ~ Installs(c.op, Count(Script(c))) /\ ~ Holds(c.op, Count(Script(c)))
      /\ ~ Replaces(c.op, Count(Script(c)))
      /\ ~ Borrows(c.op, Count(Script(c))) /\ ~ HasFlags(c.op, Count(Script(c)))
      /\ ~ HasMode(c.op, Count(Script(c))) /\ ~ Remembers(c.op, Count(Script(c)))
    BY ScriptIsDue
<1>8. c.op = "fesetround" => c.rounding \in Roundings
    BY DEF Call
<1> HIDE DEF l, x, e, f, k
<1>9. InCall(t, k, x, e)
    BY <1>6, <1>7, <1>8 DEF InCall
<1>10. EnvOf(k, x, e, f) = x
    BY <1>2, <1>6, <1>7 DEF EnvOf, Context
<1>11. EnvOf(l, x, e, f) = x /\ Asked(l) = NoCall
    BY <1>2, <1>5, BlankRests
<1>12. Does(t, l, x, e, f, k, x, e, f)
    BY <1>2, <1>6, <1>9, <1>10, <1>11 DEF Does, Proper, Acts
<1> QED
    BY <1>3, <1>4, <1>12 DEF Changes, l, x, e, f

LEMMA ChangesKeepInvariant ==
    ASSUME EffectInvariant, EnvironmentInvariant', NEW t \in Threads, Changes(t)
    PROVE  EffectInvariant'
<1>1. Proper(t, local'[t], contexts'[t], saved'[t], flag'[t])
    BY DEF Changes, Does
<1>2. saved'[t] \in Stored /\ flag'[t] \subseteq Exceptions
    BY <1>1 DEF Proper
<1>3. saved' \in [Threads -> Stored] /\ flag' \in [Threads -> SUBSET Exceptions]
    BY <1>2 DEF Changes, EffectInvariant
<1>4. \A u \in Threads \ {t} : saved'[u] = saved[u] /\ flag'[u] = flag[u]
    BY DEF Changes, EffectInvariant
<1>5. \A u \in Threads : Proper(u, local'[u], contexts'[u], saved'[u], flag'[u])
    BY <1>1, <1>4 DEF Changes, EffectInvariant
<1> QED
    BY <1>3, <1>5 DEF EffectInvariant

LEMMA InitialEffect == Init => EffectInvariant
<1> SUFFICES ASSUME Init PROVE EffectInvariant
    OBVIOUS
<1>1. EnvironmentInvariant
    BY InitialEnvironment
<1>2. saved \in [Threads -> Stored] /\ flag \in [Threads -> SUBSET Exceptions]
    BY DEF Init, Stored
<1>3. ASSUME NEW t \in Threads PROVE Proper(t, local[t], contexts[t], saved[t], flag[t])
  <2>1. local[t] = Blank /\ contexts[t] = Fresh
      BY DEF Init
  <2>2. Fresh \in Context
      BY DEF Fresh, Context, Roundings
  <2>3. saved[t] \in Stored /\ flag[t] \subseteq Exceptions
      BY <1>2
  <2> QED
      BY <2>1, <2>2, <2>3, BlankRests
<1> QED
    BY <1>1, <1>2, <1>3 DEF EffectInvariant

LEMMA NextChanges ==
    ASSUME EffectInvariant, Next
    PROVE  \/ UNCHANGED <<contexts, saved, flag, local>>
           \/ \E t \in Threads : Changes(t)
<1>1. ASSUME NEW t \in Threads, Switch(t) PROVE UNCHANGED <<contexts, saved, flag, local>>
    BY <1>1 DEF Switch
<1>2. ASSUME NEW t \in Threads, NEW c \in Calls[t], Call(t, c) PROVE Changes(t)
    BY <1>2, CallChanges, CallsAssumption
<1> QED
    BY <1>1, <1>2, StepChanges DEF Next

LEMMA NextKeepsEffect == EffectInvariant /\ EnvironmentInvariant' /\ [Next]_vars => EffectInvariant'
<1> SUFFICES ASSUME EffectInvariant, EnvironmentInvariant', [Next]_vars PROVE EffectInvariant'
    OBVIOUS
<1>1. CASE UNCHANGED <<contexts, saved, flag, local>>
    BY <1>1 DEF EffectInvariant
<1> QED
    BY <1>1, NextChanges, ChangesKeepInvariant DEF vars

(* Wherever a call is stopped, its locals and the contexts of its thread    *)
(* are those of a call at that step: what it has taken, what it has swapped *)
(* and the target that it goes on to install are still what they were.      *)
THEOREM CallsStayConsistent == Spec => []EffectInvariant
<1>1. Spec => []EnvironmentInvariant
    BY CurrentIsOwn
<1> QED
    BY <1>1, InitialEffect, NextKeepsEffect, PTL DEF Spec

(* The state of the specification of environments.                          *)
EnvAt(t) == EnvOf(local[t], contexts[t], saved[t], flag[t])

Mapped == \A t \in Threads : Environment(t) = EnvAt(t) /\ Pending(t) = Asked(local[t])

LEMMA SeenAll == EffectInvariant => Mapped
    BY Seen DEF EffectInvariant, EnvAt, Mapped

LEMMA InitialAbstract == Init => Tasked!Init
<1> SUFFICES ASSUME Init PROVE Tasked!Init
    OBVIOUS
<1>1. EffectInvariant
    BY InitialEffect
<1>2. ASSUME NEW t \in Threads PROVE Environment(t) = Fresh /\ Pending(t) = NoCall
  <2>1. local[t] = Blank /\ contexts[t] = Fresh
      BY DEF Init
  <2>2. Fresh \in Context
      BY DEF Fresh, Context, Roundings
  <2>3. saved[t] \in Stored /\ flag[t] \subseteq Exceptions
      BY <1>1 DEF EffectInvariant
  <2>4. EnvOf(Blank, Fresh, saved[t], flag[t]) = Fresh /\ Asked(Blank) = NoCall
      BY <2>2, <2>3, BlankRests
  <2> QED
      BY <1>1, <2>1, <2>4, SeenAll DEF EnvAt, Mapped
<1>3. saved \in [Threads -> [flags : {{}}, rounding : {"other"}]]
    BY DEF Init
<1>4. flag = [t \in Threads |-> {}]
    BY DEF Init
<1> QED
    BY <1>2, <1>3, <1>4 DEF Tasked!Init

LEMMA ChangesAct ==
    ASSUME EffectInvariant, EffectInvariant', NEW t \in Threads, Changes(t),
           \A u \in Threads : Environment(u) = EnvAt(u) /\ Pending(u) = Asked(local[u]),
           \A u \in Threads : Environment(u)' = EnvAt(u)' /\ Pending(u)' = Asked(local'[u])
    PROVE  [Tasked!Next]_(Tasked!vars)
<1> DEFINE env == [u \in Threads |-> Environment(u)]
           request == [u \in Threads |-> Pending(u)]
<1>1. PICK r, v, e, f, r2, v2, e2, f2 :
          /\ r = Asked(local[t]) /\ r2 = Asked(local'[t])
          /\ v = EnvAt(t) /\ v2 = EnvOf(local'[t], contexts'[t], saved'[t], flag'[t])
          /\ e = saved[t] /\ e2 = saved'[t] /\ f = flag[t] /\ f2 = flag'[t]
    OBVIOUS
<1>2. Acts(r, v, e, f, r2, v2, e2, f2)
    BY <1>1 DEF Changes, Does, EnvAt
<1>3. request[t] = r /\ env[t] = v
    BY <1>1
<1>4. \A u \in Threads \ {t} : Environment(u)' = Environment(u) /\ Pending(u)' = Pending(u)
  <2> SUFFICES ASSUME NEW u \in Threads \ {t} PROVE Environment(u)' = Environment(u) /\ Pending(u)' = Pending(u)
      OBVIOUS
  <2>1. saved'[u] = saved[u] /\ flag'[u] = flag[u] /\ local'[u] = local[u] /\ contexts'[u] = contexts[u]
      BY DEF Changes, EffectInvariant
  <2> QED
      BY <2>1 DEF EnvAt
<1>5. env' = [env EXCEPT ![t] = v2] /\ request' = [request EXCEPT ![t] = r2]
    BY <1>1, <1>4 DEF EnvAt
<1>6. saved' = [saved EXCEPT ![t] = e2] /\ flag' = [flag EXCEPT ![t] = f2]
    BY <1>1 DEF Changes
<1>7. v2 = v => env' = env
    BY <1>3, <1>5
<1>8. e2 = e => saved' = saved
    BY <1>1, <1>6 DEF EffectInvariant
<1>9. f2 = f => flag' = flag
    BY <1>1, <1>6 DEF EffectInvariant
<1>10. r2 = r => request' = request
    BY <1>3, <1>5
<1>11. request'[t] = r2
    BY <1>5
<1>12. saved[t] = e /\ flag[t] = f
    BY <1>1
<1> HIDE DEF env, request
<1>13. CASE r2 = r /\ v2 = v /\ e2 = e /\ f2 = f
    BY <1>7, <1>8, <1>9, <1>10, <1>13 DEF Tasked!vars, env, request
<1>14. CASE r = NoCall /\ v2 = v /\ e2 = e /\ f2 = f
  <2>1. Tasked!Ask(t)
      BY <1>3, <1>5, <1>7, <1>8, <1>9, <1>11, <1>14 DEF Tasked!Ask, env, request
  <2> QED
      BY <2>1 DEF Tasked!Next
<1>15. CASE r2 = NoCall /\ Effect(r, v, e, f, v2, e2, f2)
  <2>1. \A ops : r.op \in ops => Tasked!Serves(t, ops)
      BY <1>3, <1>5, <1>15 DEF Tasked!Serves, request
  <2>2. \A flags, rounding : v2 = Env(flags, rounding) => Tasked!Becomes(t, flags, rounding)
      BY <1>5 DEF Tasked!Becomes, Env, env
  <2>3. Tasked!Excepts(t) = r.excepts
      BY <1>3 DEF Tasked!Excepts, request
  <2>4. Tasked!Target(t) = Goal(r, e)
      BY <1>3, <1>12 DEF Tasked!Target, Goal, request
  <2>5. request[t] = r /\ env[t] = v
      BY <1>3
  <2>6. CASE r.op = "feclearexcept" /\ v2 = Env(v.flags \ r.excepts, v.rounding) /\ e2 = e /\ f2 = f
    <3>1. Tasked!Clear(t)
        BY <2>1, <2>2, <2>3, <2>5, <2>6, <1>8, <1>9 DEF Tasked!Clear, env
    <3> QED
        BY <3>1 DEF Tasked!Next
  <2>7. CASE r.op = "feraiseexcept" /\ v2 = Env(v.flags \cup r.excepts, v.rounding) /\ e2 = e /\ f2 = f
    <3>1. Tasked!Raise(t)
        BY <2>1, <2>2, <2>3, <2>5, <2>7, <1>8, <1>9 DEF Tasked!Raise, env
    <3> QED
        BY <3>1 DEF Tasked!Next
  <2>8. CASE /\ r.op \in {"operation", "tgamma"}
             /\ \E a \in SUBSET Exceptions : v2 = Env(v.flags \cup a, v.rounding)
             /\ e2 = e /\ f2 = f
    <3>1. Tasked!Operate(t)
        BY <2>1, <2>2, <2>5, <2>8, <1>8, <1>9 DEF Tasked!Operate, env
    <3> QED
        BY <3>1 DEF Tasked!Next
  <2>9. CASE r.op = "fegetexceptflag" /\ v2 = v /\ e2 = e /\ f2 = v.flags \cap r.excepts
    <3>1. Tasked!GetFlags(t)
        BY <2>1, <2>3, <2>5, <2>9, <1>6, <1>7, <1>8 DEF Tasked!GetFlags, env
    <3> QED
        BY <3>1 DEF Tasked!Next
  <2>10. CASE /\ r.op = "fesetexceptflag"
              /\ v2 = Env((v.flags \ r.excepts) \cup (f \cap r.excepts), v.rounding)
              /\ e2 = e /\ f2 = f
    <3>1. Tasked!SetFlags(t)
        BY <2>1, <2>2, <2>3, <2>5, <2>10, <1>8, <1>9, <1>12 DEF Tasked!SetFlags, env
    <3> QED
        BY <3>1 DEF Tasked!Next
  <2>11. CASE r.op = "fesetround" /\ v2 = Env(v.flags, r.rounding) /\ e2 = e /\ f2 = f
    <3>1. Tasked!SetRound(t)
        BY <2>1, <2>2, <2>5, <2>11, <1>8, <1>9 DEF Tasked!SetRound, env, request
    <3> QED
        BY <3>1 DEF Tasked!Next
  <2>12. CASE r.op = "fegetenv" /\ v2 = v /\ e2 = v /\ f2 = f
    <3>1. Tasked!GetEnv(t)
        BY <2>1, <2>5, <2>12, <1>6, <1>7, <1>9 DEF Tasked!GetEnv, env
    <3> QED
        BY <3>1 DEF Tasked!Next
  <2>13. CASE r.op = "feholdexcept" /\ v2 = Env({}, v.rounding) /\ e2 = v /\ f2 = f
    <3>1. Tasked!HoldExcept(t)
        BY <2>1, <2>2, <2>5, <2>13, <1>6, <1>9 DEF Tasked!HoldExcept, env
    <3> QED
        BY <3>1 DEF Tasked!Next
  <2>14. CASE /\ r.op = "fesetenv" /\ Goal(r, e).rounding \in Roundings
              /\ v2 = Env(Goal(r, e).flags, Goal(r, e).rounding)
              /\ e2 = e /\ f2 = f
    <3>1. Tasked!SetEnv(t)
        BY <2>1, <2>2, <2>4, <2>14, <1>8, <1>9 DEF Tasked!SetEnv
    <3> QED
        BY <3>1 DEF Tasked!Next
  <2>15. CASE /\ r.op = "feupdateenv" /\ Goal(r, e).rounding \in Roundings
              /\ v2 = Env(Goal(r, e).flags \cup v.flags, Goal(r, e).rounding)
              /\ e2 = e /\ f2 = f
    <3>1. Tasked!UpdateEnv(t)
        BY <2>1, <2>2, <2>4, <2>5, <2>15, <1>8, <1>9 DEF Tasked!UpdateEnv, env
    <3> QED
        BY <3>1 DEF Tasked!Next
  <2>16. CASE /\ r.op \in {"fesetenv", "feupdateenv"} /\ Goal(r, e).rounding \notin Roundings
              /\ v2 = v /\ e2 = e /\ f2 = f
    <3>1. Tasked!Reject(t)
        BY <2>1, <2>4, <2>16, <1>7, <1>8, <1>9 DEF Tasked!Reject, env
    <3> QED
        BY <3>1 DEF Tasked!Next
  <2> QED
      BY <1>15, <2>6, <2>7, <2>8, <2>9, <2>10, <2>11, <2>12, <2>13, <2>14, <2>15, <2>16 DEF Effect
<1>16. CASE /\ r2 = r /\ r.op = "tgamma"
            /\ \E a \in SUBSET Exceptions : v2 = Env(v.flags \cup a, v.rounding)
            /\ e2 = e /\ f2 = f
  <2>1. \A flags, rounding : v2 = Env(flags, rounding) => Tasked!Becomes(t, flags, rounding)
      BY <1>5 DEF Tasked!Becomes, Env, env
  <2>2. Tasked!Accrue(t)
      BY <2>1, <1>3, <1>8, <1>9, <1>10, <1>16 DEF Tasked!Accrue, env, request
  <2> QED
      BY <2>2 DEF Tasked!Next
<1> QED
    BY <1>2, <1>13, <1>14, <1>15, <1>16 DEF Acts

LEMMA StillStutters ==
    ASSUME UNCHANGED <<contexts, saved, flag, local>>,
           \A u \in Threads : Environment(u) = EnvAt(u) /\ Pending(u) = Asked(local[u]),
           \A u \in Threads : Environment(u)' = EnvAt(u)' /\ Pending(u)' = Asked(local'[u])
    PROVE  UNCHANGED Tasked!vars
<1>1. \A u \in Threads : Environment(u)' = Environment(u) /\ Pending(u)' = Pending(u)
    BY DEF EnvAt
<1> QED
    BY <1>1 DEF Tasked!vars

(* The calls of the threads, stopped between any two of their accesses to a *)
(* context, implement the environments: every call changes its thread's at  *)
(* once, but for tgamma, whose operations add their flags one by one and    *)
(* which, wherever it returns, leaves the rounding mode that it found.      *)
THEOREM CallsTakeEffect == Spec => ImplementsEnvironments
<1>1. Init => Tasked!Init
    BY InitialAbstract
<1>2. Mapped'
         => \A u \in Threads : Environment(u)' = EnvAt(u)' /\ Pending(u)' = Asked(local'[u])
    BY DEF Mapped
<1>3. EffectInvariant /\ EffectInvariant' /\ [Next]_vars
        /\ Mapped /\ Mapped'
        => [Tasked!Next]_(Tasked!vars)
  <2> SUFFICES ASSUME EffectInvariant, EffectInvariant', [Next]_vars,
                      Mapped,
                      Mapped'
               PROVE  [Tasked!Next]_(Tasked!vars)
      OBVIOUS
  <2>1. UNCHANGED <<contexts, saved, flag, local>> \/ \E t \in Threads : Changes(t)
      BY NextChanges DEF vars
  <2>2. CASE UNCHANGED <<contexts, saved, flag, local>>
      BY <1>2, <2>2, StillStutters DEF Mapped
  <2>3. ASSUME NEW t \in Threads, Changes(t) PROVE [Tasked!Next]_(Tasked!vars)
      BY <1>2, <2>3, ChangesAct DEF Mapped
  <2> QED
      BY <2>1, <2>2, <2>3
<1> QED
    BY <1>1, <1>3, SeenAll, CallsStayConsistent, PTL DEF Spec, ImplementsEnvironments, Tasked!Spec

TypeInvariant ==
    /\ contexts \in [Threads -> Context]
    /\ made \in [Threads -> Nat]
    /\ \A t \in Threads : made[t] <= MaxCalls[t]

LEMMA StoreKeepsFunction ==
    ASSUME EffectInvariant', contexts \in [Threads -> Context],
           UNCHANGED contexts \/ \E p, flags, rounding : Store(p, flags, rounding)
    PROVE  contexts' \in [Threads -> Context]
<1>1. \A t \in Threads : contexts'[t] \in Context
    BY DEF EffectInvariant, Proper
<1>2. \E p, v : contexts' = [contexts EXCEPT ![p] = v] \/ contexts' = contexts
    BY DEF Store
<1> QED
    BY <1>1, <1>2

LEMMA NextKeepsType ==
    TypeInvariant /\ EffectInvariant' /\ [Next]_vars => TypeInvariant'
<1> SUFFICES ASSUME TypeInvariant, EffectInvariant', [Next]_vars PROVE TypeInvariant'
    OBVIOUS
<1>1. CASE UNCHANGED <<contexts, made>>
    BY <1>1 DEF TypeInvariant
<1>2. ASSUME NEW t \in Threads, Step(t) PROVE TypeInvariant'
  <2>1. UNCHANGED made
      BY <1>2 DEF Step, Fetch, Clear, Raise, GetFlags, GetEnvironment, TakeFlags, SetFlags,
                  RejectEnvironment, SetRounding, Evaluate, TakeMode, Again, Return, Pole,
                  Swap, Restore
  <2>2. UNCHANGED contexts \/ \E p, flags, rounding : Store(p, flags, rounding)
      BY <1>2 DEF Step, Fetch, Clear, Raise, GetFlags, GetEnvironment, TakeFlags, SetFlags,
                  RejectEnvironment, SetRounding, Evaluate, TakeMode, Again, Return, Pole,
                  Swap, Restore
  <2> QED
      BY <2>1, <2>2, StoreKeepsFunction DEF TypeInvariant
<1>3. ASSUME NEW t \in Threads, NEW c, Call(t, c) PROVE TypeInvariant'
  <2>1. /\ made[t] < MaxCalls[t] /\ made[t] \in Nat /\ MaxCalls[t] \in Nat
        /\ made' = [made EXCEPT ![t] = made[t] + 1] /\ UNCHANGED contexts
      BY <1>3, BoundAssumption DEF Call, TypeInvariant
  <2>2. made' \in [Threads -> Nat] /\ \A u \in Threads : made'[u] <= MaxCalls[u]
      BY <2>1 DEF TypeInvariant
  <2> QED
      BY <2>1, <2>2 DEF TypeInvariant
<1> QED
    BY <1>1, <1>2, <1>3 DEF Next, Switch, vars

(* The state keeps its type: a rounding mode in a context is one of the     *)
(* four, whatever was restored or left by an operation.                     *)
THEOREM TypeCorrectness == Spec => []TypeOK
<1>1. Init => TypeInvariant
  <2>1. Fresh \in Context
      BY DEF Fresh, Context, Roundings
  <2> QED
      BY <2>1, BoundAssumption DEF Init, TypeInvariant
<1>2. EffectInvariant /\ TypeInvariant => TypeOK
  <2> SUFFICES ASSUME EffectInvariant, TypeInvariant PROVE TypeOK
      OBVIOUS
  <2>1. bound \in Threads \cup {Null} /\ running \in Threads
      BY NullIsNoThread DEF EffectInvariant, EnvironmentInvariant, Current
  <2>2. \A t \in Threads : made[t] \in 0..MaxCalls[t]
      BY BoundAssumption DEF TypeInvariant
  <2> QED
      BY <2>1, <2>2 DEF EffectInvariant, TypeInvariant, TypeOK, Context, Stored
<1> QED
    BY <1>1, <1>2, NextKeepsType, CallsStayConsistent, PTL DEF Spec

=============================================================================
