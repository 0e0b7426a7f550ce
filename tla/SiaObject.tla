------------------------------ MODULE SiaObject ------------------------------
(* A COSMIC-SIA object (Artifact in saltwater-sia/lib.rs) as the linker     *)
(* reads it.  An object is a record                                         *)
(*    [version, locals, functions, data]                                    *)
(* where functions and data are sequences of definitions and locals is the  *)
(* set local_symbols of the definitions that are private to the object      *)
(* (version 3 objects do not record it).  A definition is a record          *)
(*    [name, size, align, zero, readOnly, relocations]                      *)
(* and a relocation [offset, target, addend].  Names are opaque.            *)
EXTENDS Integers, Sequences

Named(defs) == {defs[i].name : i \in 1..Len(defs)}

Targeted(defs) ==
    UNION {{defs[i].relocations[j].target : j \in DOMAIN defs[i].relocations} :
              i \in 1..Len(defs)}

Symbols(o) == Named(o.functions) \cup Named(o.data)

(* The names an object offers to, and wants from, the other objects.        *)
External(o) == Symbols(o) \ o.locals
Imports(o) == (Targeted(o.functions) \cup Targeted(o.data)) \ o.locals

(* u32::is_power_of_two, written without 2^31, which TLC cannot compute.    *)
PowerOfTwo(n) ==
    /\ n # 0
    /\ n = 1 \/ (n % 2 = 0 /\ \E k \in 0..30 : n \div 2 = 2^k)

(* Artifact::validate, for a bundle of the right target and no empty name.  *)
Valid(o) ==
    LET defs == o.functions \o o.data
    IN  /\ defs # << >>
        /\ o.locals \subseteq Symbols(o)
        /\ \A i, j \in DOMAIN defs : defs[i].name = defs[j].name => i = j
        /\ \A i \in DOMAIN o.functions :
              o.functions[i].size > 0 /\ o.functions[i].size % 2 = 0
        /\ \A i \in DOMAIN o.data :
              /\ PowerOfTwo(o.data[i].align)
              /\ \A j \in DOMAIN o.data[i].relocations :
                    o.data[i].relocations[j].offset + 4 <= o.data[i].size
=============================================================================
