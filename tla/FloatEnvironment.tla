--------------------------- MODULE FloatEnvironment ---------------------------
(***************************************************************************)
(* The floating-point environment of the guest runtime (context.c, fenv.c): *)
(* threads that own a context each, the one pointer to the context of the   *)
(* running thread, which a scheduler sets and every call reads, and the     *)
(* calls as the sequences of their accesses to a context, between which     *)
(* the scheduler may let another thread run.                                *)
(***************************************************************************)
EXTENDS Naturals, Sequences

CONSTANTS
    Tasks,         \* threads with a context of their own
    Exceptions,    \* the exception flags
    Expressions,   \* sets of arithmetic operations with their operands
    Probes,        \* a few of them
    Arithmetic(_, _),   \* the outcome of an operation in a rounding mode
    Calls,         \* calls each thread makes, records [op, excepts, rounding, env]
    MaxCalls       \* bound: calls of each thread

(* The context that is there before any is bound.                           *)
Boot == "boot"
Null == "null"
Threads == Tasks \cup {Boot}
Roundings == {"nearest", "zero", "down", "up"}

Entries == {"feclearexcept", "feraiseexcept", "fegetexceptflag", "fesetexceptflag", "fesetround",
            "fegetenv", "feholdexcept", "fesetenv", "feupdateenv", "tgamma", "operation"}
Request == [op : Entries, excepts : SUBSET Exceptions, rounding : Roundings \cup {"other"},
            env : {"default", "saved"}]

ASSUME ThreadsAssumption == {Boot, Null} \cap Tasks = {}
ASSUME ProbesAssumption == \A e \in Probes : \E family \in Expressions : e \in family
ASSUME BoundAssumption == MaxCalls \in [Threads -> Nat]
ASSUME CallsAssumption == \A t \in Threads : Calls[t] \subseteq Request

VARIABLES
    contexts,  \* the contexts, of which each is its thread's
    bound,     \* cosmic_sf_bound_context
    running,   \* the thread that runs
    saved,     \* the fenv_t of each thread
    flag,      \* the fexcept_t of each thread
    local,     \* the call each thread is in: its steps to do, and its locals
    made       \* calls each thread has made

vars == <<contexts, bound, running, saved, flag, local, made>>

(* cosmic_sf_init                                                           *)
Fresh == [flags |-> {}, rounding |-> "nearest"]

(* Locals: at, the context that was fetched; c and mode of tgamma; flags of *)
(* feupdateenv; and the operation that was evaluated, with its outcome.     *)
NoCall == [op |-> "none", excepts |-> {}, rounding |-> "other", env |-> "default"]
Blank == [todo |-> << >>, call |-> NoCall, at |-> Null, c |-> Null, mode |-> "other",
          flags |-> {}, answer |-> << >>]

Init ==
    /\ contexts = [t \in Threads |-> Fresh]
    /\ bound = Null
    /\ running = Boot
    /\ saved = [t \in Threads |-> [flags |-> {}, rounding |-> "other"]]
    /\ flag = [t \in Threads |-> {}]
    /\ local = [t \in Threads |-> Blank]
    /\ made = [t \in Threads |-> 0]

(* Mutant of Current: the context that is bound is not looked at.           *)
BootOnly == Boot

(* cosmic_sf_current_context                                                *)
Current == IF bound = Null THEN Boot ELSE bound

----------------------------------------------------------------------------
(* The scheduler binds the context of the thread before it runs it.  The    *)
(* pointer for the first thread is null, or what bind_context returned.     *)
(* Bound: no thread is stopped between the evaluation of an operation that  *)
(* is not one of the probes and the raising of its flags.                   *)
Pointers(t) == IF t = Boot THEN {Null, Boot} ELSE {t}
Stoppable(t) == \A i \in DOMAIN local[t].answer : local[t].answer[i].e \in Probes

Switch(t) ==
    /\ t # running
    /\ Stoppable(running)
    /\ running' = t
    /\ bound' \in Pointers(t)
    /\ UNCHANGED <<contexts, saved, flag, local, made>>

----------------------------------------------------------------------------
(* The steps of the calls.                                                  *)
Script(c) ==
    CASE c.op = "feclearexcept" -> <<"fetch", "clear">>
      [] c.op = "feraiseexcept" -> <<"fetch", "raise">>
      [] c.op = "fegetexceptflag" -> <<"fetch", "get_flags">>
      [] c.op = "fesetexceptflag" -> <<"fetch", "clear", "raise">>
      [] c.op = "fesetround" -> <<"fetch", "set_rounding">>
      [] c.op = "fegetenv" -> <<"fetch", "get_environment">>
      [] c.op = "feholdexcept" -> <<"fetch", "get_environment", "fetch", "clear">>
      [] c.op = "fesetenv" -> <<"fetch", "set_flags", "set_rounding">>
      [] c.op = "feupdateenv" ->
           <<"fetch", "take_flags", "fetch", "set_flags", "set_rounding", "fetch", "raise">>
      [] c.op = "tgamma" ->
           <<"fetch", "take_mode", "fetch", "evaluate", "raise", "swap",
             "fetch", "evaluate", "raise", "restore">>
      [] OTHER -> <<"fetch", "evaluate", "raise">>

(* fesetround rejects its argument before it looks for a context.           *)
Call(t, c) ==
    /\ running = t
    /\ local[t].todo = << >>
    /\ made[t] < MaxCalls[t]
    /\ ~ (c.op = "fesetround" /\ c.rounding \notin Roundings)
    /\ local' = [local EXCEPT ![t] = [Blank EXCEPT !.todo = Script(c), !.call = c]]
    /\ made' = [made EXCEPT ![t] = @ + 1]
    /\ UNCHANGED <<contexts, bound, running, saved, flag>>

Next1(t, step) == running = t /\ local[t].todo # << >> /\ Head(local[t].todo) = step

(* The thread's locals become l for the steps that are left.                *)
Onward(t, l) ==
    local' = [local EXCEPT ![t] = IF Len(l.todo) = 1 THEN Blank ELSE [l EXCEPT !.todo = Tail(@)]]
Store(p, flags, rounding) ==
    contexts' = [contexts EXCEPT ![p] = [flags |-> flags, rounding |-> rounding]]
Here(t) == contexts[local[t].at]

Fetch(t) ==
    /\ Next1(t, "fetch")
    /\ Onward(t, [local[t] EXCEPT !.at = Current])
    /\ UNCHANGED <<contexts, bound, running, saved, flag, made>>

Mask(t) == IF local[t].call.op = "feholdexcept" THEN Exceptions ELSE local[t].call.excepts
Clear(t) ==
    /\ Next1(t, "clear")
    /\ Store(local[t].at, Here(t).flags \ Mask(t), Here(t).rounding)
    /\ Onward(t, local[t])
    /\ UNCHANGED <<bound, running, saved, flag, made>>

Raised(t) ==
    CASE local[t].call.op = "feraiseexcept" -> local[t].call.excepts
      [] local[t].call.op = "fesetexceptflag" -> flag[t] \cap local[t].call.excepts
      [] local[t].call.op = "feupdateenv" -> local[t].flags
      [] OTHER -> local[t].answer[1].outcome.raised
Raise(t) ==
    /\ Next1(t, "raise")
    /\ Store(local[t].at, Here(t).flags \cup (Raised(t) \cap Exceptions), Here(t).rounding)
    /\ Onward(t, [local[t] EXCEPT !.answer = << >>])
    /\ UNCHANGED <<bound, running, saved, flag, made>>

GetFlags(t) ==
    /\ Next1(t, "get_flags")
    /\ flag' = [flag EXCEPT ![t] = Here(t).flags \cap local[t].call.excepts]
    /\ Onward(t, local[t])
    /\ UNCHANGED <<contexts, bound, running, saved, made>>

GetEnvironment(t) ==
    /\ Next1(t, "get_environment")
    /\ saved' = [saved EXCEPT ![t] = Here(t)]
    /\ Onward(t, local[t])
    /\ UNCHANGED <<contexts, bound, running, flag, made>>

(* Mutant of TakeFlags: feupdateenv forgets what was raised.                *)
TakeNone(t) ==
    /\ Next1(t, "take_flags")
    /\ Onward(t, local[t])
    /\ UNCHANGED <<contexts, bound, running, saved, flag, made>>

TakeFlags(t) ==
    /\ Next1(t, "take_flags")
    /\ Onward(t, [local[t] EXCEPT !.flags = Here(t).flags])
    /\ UNCHANGED <<contexts, bound, running, saved, flag, made>>

(* fesetenv: of the default environment, which is null, or the stored one.  *)
Target(t) == IF local[t].call.env = "default" THEN Fresh ELSE saved[t]

SetFlags(t) ==
    /\ Next1(t, "set_flags")
    /\ Target(t).rounding \in Roundings
    /\ Store(local[t].at, Target(t).flags, Here(t).rounding)
    /\ Onward(t, local[t])
    /\ UNCHANGED <<bound, running, saved, flag, made>>

RejectEnvironment(t) ==
    /\ Next1(t, "set_flags")
    /\ Target(t).rounding \notin Roundings
    /\ local' = [local EXCEPT ![t] = Blank]
    /\ UNCHANGED <<contexts, bound, running, saved, flag, made>>

SetRounding(t) ==
    /\ Next1(t, "set_rounding")
    /\ Store(local[t].at, Here(t).flags,
             IF local[t].call.op = "fesetround" THEN local[t].call.rounding ELSE Target(t).rounding)
    /\ Onward(t, local[t])
    /\ UNCHANGED <<bound, running, saved, flag, made>>

----------------------------------------------------------------------------
(* An operation: the compiler passes the context, the library reads the     *)
(* rounding mode and raises flags.  Bound: of the operands that are not     *)
(* probes, only in the first call of the first thread, or in its second     *)
(* after fesetround, before another thread has run.                         *)
Undisturbed(t) ==
    /\ t = Boot /\ bound = Null
    /\ contexts[t].flags = {}
    /\ saved[t].rounding = "other"
    /\ made[t] = (IF contexts[t].rounding = "nearest" THEN 1 ELSE 2)
    /\ local[t].call.op # "tgamma"
    /\ \A u \in Threads \ {t} : made[u] = 0

Evaluate(t) ==
    /\ Next1(t, "evaluate")
    /\ \E family \in IF Undisturbed(t) THEN Expressions ELSE {Probes} : \E e \in family :
         Onward(t, [local[t] EXCEPT
                      !.answer = <<[e |-> e, outcome |-> Arithmetic(e, Here(t).rounding)]>>])
    /\ UNCHANGED <<contexts, bound, running, saved, flag, made>>

(* tgamma keeps the context and its rounding mode, and evaluates            *)
(* operations of the arguments and of lgamma, then those of exp.  Each      *)
(* raises its flags, if any, by itself: there are any number of them.       *)
TakeMode(t) ==
    /\ Next1(t, "take_mode")
    /\ Onward(t, [local[t] EXCEPT !.c = local[t].at, !.mode = Here(t).rounding])
    /\ UNCHANGED <<contexts, bound, running, saved, flag, made>>

Again(t) ==
    /\ local[t].call.op = "tgamma"
    /\ Next1(t, "swap") \/ Next1(t, "restore")
    /\ local' = [local EXCEPT ![t].todo = <<"fetch", "evaluate", "raise">> \o @]
    /\ UNCHANGED <<contexts, bound, running, saved, flag, made>>

(* tgamma of a NaN or a zero is the result of one operation.                *)
Return(t) ==
    /\ Next1(t, "swap")
    /\ local' = [local EXCEPT ![t] = Blank]
    /\ UNCHANGED <<contexts, bound, running, saved, flag, made>>

(* tgamma at a pole, where the 0.0 / 0.0 it returns raises nothing else.    *)
Pole(t) ==
    /\ Next1(t, "swap")
    /\ Store(local[t].c, contexts[local[t].c].flags \cup ({"invalid"} \cap Exceptions),
             contexts[local[t].c].rounding)
    /\ local' = [local EXCEPT ![t] = Blank]
    /\ UNCHANGED <<bound, running, saved, flag, made>>

(* Where the result is negative, that of exp is negated: it is rounded in   *)
(* the opposite direction.                                                  *)
Opposite(r) == CASE r = "up" -> "down" [] r = "down" -> "up" [] OTHER -> r

Swap(t) ==
    /\ Next1(t, "swap")
    /\ \/ UNCHANGED contexts
       \/ Store(local[t].c, contexts[local[t].c].flags, Opposite(local[t].mode))
    /\ Onward(t, local[t])
    /\ UNCHANGED <<bound, running, saved, flag, made>>

Restore(t) ==
    /\ Next1(t, "restore")
    /\ Store(local[t].c, contexts[local[t].c].flags, local[t].mode)
    /\ Onward(t, local[t])
    /\ UNCHANGED <<bound, running, saved, flag, made>>

Step(t) ==
    \/ Fetch(t) \/ Clear(t) \/ Raise(t) \/ GetFlags(t) \/ GetEnvironment(t) \/ TakeFlags(t)
    \/ SetFlags(t) \/ RejectEnvironment(t) \/ SetRounding(t)
    \/ Evaluate(t) \/ TakeMode(t) \/ Again(t) \/ Return(t) \/ Pole(t) \/ Swap(t) \/ Restore(t)

Next == \E t \in Threads : Switch(t) \/ Step(t) \/ \E c \in Calls[t] : Call(t, c)

Spec == Init /\ [][Next]_vars
----------------------------------------------------------------------------
TypeOK ==
    /\ contexts \in [Threads -> [flags : SUBSET Exceptions, rounding : Roundings]]
    /\ bound \in Threads \cup {Null}
    /\ running \in Threads
    /\ saved \in [Threads -> [flags : SUBSET Exceptions, rounding : Roundings \cup {"other"}]]
    /\ flag \in [Threads -> SUBSET Exceptions]
    /\ \A t \in Threads : made[t] \in 0..MaxCalls[t]

(* No step of a thread, and none of the scheduler, changes the flags or the *)
(* rounding mode of another thread, though every call goes through one      *)
(* pointer that the scheduler changes in the middle of calls.               *)
PrivateEnvironments ==
    [][\A t \in Threads : contexts'[t] # contexts[t] => running = t]_vars

(* The environment of a thread is its context but for the writes that are   *)
(* left of a call that has taken effect: with its first write.              *)
Writing(t, op, steps) == local[t].call.op = op /\ local[t].todo \in steps
Installing(t) ==
    \/ Writing(t, "fesetenv", {<<"set_rounding">>})
    \/ Writing(t, "feupdateenv",
               {<<"set_rounding", "fetch", "raise">>, <<"fetch", "raise">>, <<"raise">>})
Holding(t) == Writing(t, "feholdexcept", {<<"fetch", "clear">>, <<"clear">>})
Replacing(t) == Writing(t, "fesetexceptflag", {<<"raise">>})
Swapped(t) == local[t].call.op = "tgamma" /\ local[t].c # Null

FlagsToCome(t) ==
    IF Installing(t) THEN local[t].flags ELSE IF Replacing(t) THEN Raised(t) ELSE {}

Environment(t) ==
    [flags |-> IF Holding(t) THEN {} ELSE contexts[t].flags \cup FlagsToCome(t),
     rounding |-> IF Installing(t) THEN Target(t).rounding
                  ELSE IF Swapped(t) THEN local[t].mode
                  ELSE contexts[t].rounding]

Pending(t) ==
    IF Installing(t) \/ Holding(t) \/ Replacing(t) THEN NoCall ELSE local[t].call

Tasked ==
    INSTANCE TaskEnvironments WITH
        env <- [t \in Threads |-> Environment(t)], request <- [t \in Threads |-> Pending(t)]

(* Every call but tgamma takes effect on the environment of its thread at   *)
(* once, and until tgamma ends its thread's flags only grow: no flag is     *)
(* lost or cleared by another thread's call, and no mode is left changed,   *)
(* wherever the call is stopped for another thread.                         *)
ImplementsEnvironments == Tasked!Spec
=============================================================================
