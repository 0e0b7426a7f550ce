--------------------------- MODULE TaskEnvironments ---------------------------
(***************************************************************************)
(* What the guest runtime promises of the floating-point environment        *)
(* (context.c, fenv.c): every thread has one of its own, and each call      *)
(* takes effect on it in one step, whatever other threads do meanwhile,     *)
(* but for tgamma, whose operations raise their flags one after another.    *)
(***************************************************************************)
CONSTANTS
    Threads,
    Exceptions,   \* inexact, underflow, overflow, divide, invalid
    Roundings,    \* the four rounding modes
    Fresh,        \* the default environment, a record [flags, rounding]
    NoCall

VARIABLES
    env,      \* the environment of each thread
    saved,    \* an environment it has stored, or storage it never wrote
    flag,     \* exceptions it has stored with fegetexceptflag
    request   \* the call it has made that has yet to take effect

vars == <<env, saved, flag, request>>

Init ==
    /\ env = [t \in Threads |-> Fresh]
    /\ saved \in [Threads -> [flags : {{}}, rounding : {"other"}]]
    /\ flag = [t \in Threads |-> {}]
    /\ request = [t \in Threads |-> NoCall]

Ask(t) ==
    /\ request[t] = NoCall
    /\ request' = [request EXCEPT ![t] = request'[t]]
    /\ UNCHANGED <<env, saved, flag>>

Serves(t, ops) == request[t].op \in ops /\ request' = [request EXCEPT ![t] = NoCall]
Becomes(t, flags, rounding) ==
    env' = [env EXCEPT ![t] = [flags |-> flags, rounding |-> rounding]]

Excepts(t) == request[t].excepts

Clear(t) ==
    /\ Serves(t, {"feclearexcept"})
    /\ Becomes(t, env[t].flags \ Excepts(t), env[t].rounding)
    /\ UNCHANGED <<saved, flag>>

Raise(t) ==
    /\ Serves(t, {"feraiseexcept"})
    /\ Becomes(t, env[t].flags \cup Excepts(t), env[t].rounding)
    /\ UNCHANGED <<saved, flag>>

(* An operation of tgamma, which has more to do.                            *)
Accrue(t) ==
    /\ request[t].op = "tgamma"
    /\ \E e \in SUBSET Exceptions : Becomes(t, env[t].flags \cup e, env[t].rounding)
    /\ UNCHANGED <<saved, flag, request>>

(* tgamma, too, leaves the rounding mode as it was.                         *)
Operate(t) ==
    /\ Serves(t, {"operation", "tgamma"})
    /\ \E e \in SUBSET Exceptions : Becomes(t, env[t].flags \cup e, env[t].rounding)
    /\ UNCHANGED <<saved, flag>>

GetFlags(t) ==
    /\ Serves(t, {"fegetexceptflag"})
    /\ flag' = [flag EXCEPT ![t] = env[t].flags \cap Excepts(t)]
    /\ UNCHANGED <<env, saved>>

SetFlags(t) ==
    /\ Serves(t, {"fesetexceptflag"})
    /\ Becomes(t, (env[t].flags \ Excepts(t)) \cup (flag[t] \cap Excepts(t)), env[t].rounding)
    /\ UNCHANGED <<saved, flag>>

SetRound(t) ==
    /\ Serves(t, {"fesetround"})
    /\ Becomes(t, env[t].flags, request[t].rounding)
    /\ UNCHANGED <<saved, flag>>

GetEnv(t) ==
    /\ Serves(t, {"fegetenv"})
    /\ saved' = [saved EXCEPT ![t] = env[t]]
    /\ UNCHANGED <<env, flag>>

HoldExcept(t) ==
    /\ Serves(t, {"feholdexcept"})
    /\ saved' = [saved EXCEPT ![t] = env[t]]
    /\ Becomes(t, {}, env[t].rounding)
    /\ UNCHANGED flag

(* The default or the stored environment, unless that has no rounding mode; *)
(* feupdateenv keeps what has been raised.                                  *)
Target(t) == IF request[t].env = "default" THEN Fresh ELSE saved[t]

SetEnv(t) ==
    /\ Serves(t, {"fesetenv"})
    /\ Target(t).rounding \in Roundings
    /\ Becomes(t, Target(t).flags, Target(t).rounding)
    /\ UNCHANGED <<saved, flag>>

UpdateEnv(t) ==
    /\ Serves(t, {"feupdateenv"})
    /\ Target(t).rounding \in Roundings
    /\ Becomes(t, Target(t).flags \cup env[t].flags, Target(t).rounding)
    /\ UNCHANGED <<saved, flag>>

Reject(t) ==
    /\ Serves(t, {"fesetenv", "feupdateenv"})
    /\ Target(t).rounding \notin Roundings
    /\ UNCHANGED <<env, saved, flag>>

Next ==
    \E t \in Threads :
      \/ Ask(t) \/ Clear(t) \/ Raise(t) \/ Accrue(t) \/ Operate(t) \/ GetFlags(t) \/ SetFlags(t)
      \/ SetRound(t) \/ GetEnv(t) \/ HoldExcept(t) \/ SetEnv(t) \/ UpdateEnv(t) \/ Reject(t)

Spec == Init /\ [][Next]_vars
=============================================================================
