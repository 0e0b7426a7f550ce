------------------------ MODULE ConditionalInclusion ------------------------
(* What conditional inclusion promises, as a specification of its own: the  *)
(* text lines that reach the parser are exactly those of the selected       *)
(* branches, until an ill-formed line is read, a diagnostic is reported, or *)
(* a directive is taken for text.  From then on nothing is promised (clean  *)
(* is FALSE).                                                               *)
EXTENDS ConditionalGroups

VARIABLES
    groups,  \* the open groups, outermost first
    clean,   \* none of the three has happened so far
    out      \* what the last line produced: "token", "none" or "diag"

avars == <<groups, clean, out>>

Init == groups = << >> /\ clean = TRUE /\ out = "none"

Read(l) ==
    /\ clean
    /\ Allowed(groups, l)
    /\ groups' = After(groups, l)
    /\ clean' = TRUE
    /\ out' = IF l.kind = "text" /\ Compiled(groups) THEN "token" ELSE "none"

GiveUp == clean' = FALSE

Next ==
    \/ \E l \in Lines : Read(l)
    \/ GiveUp

Spec == Init /\ [][Next]_avars
=============================================================================
