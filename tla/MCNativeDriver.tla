--------------------------- MODULE MCNativeDriver ---------------------------
(* Command lines of one to three inputs, two of the sources with one name.  *)
EXTENDS NativeDriver
Inputs == {[kind |-> "source", stem |-> "main", dir |-> "a"],
           [kind |-> "source", stem |-> "main", dir |-> "b"],
           [kind |-> "object", stem |-> "lib", dir |-> "a"]}
Lines == UNION {[1..n -> Inputs] : n \in 1..3}
=============================================================================
