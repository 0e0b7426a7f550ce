----------------------------- MODULE LinkCommand -----------------------------
(* What the steps of a link share: its entry and the objects there are.     *)
EXTENDS SiaObject

CONSTANTS
    Name,     \* the spellings a symbol can have
    Entry     \* the name given with --entry

Relocations == [offset : Nat, target : Name, addend : Int]

Definitions ==
    [name : Name, size : Nat, align : Nat, zero : BOOLEAN, readOnly : BOOLEAN,
     relocations : Seq(Relocations)]

(* What Artifact::from_bytes can return, valid or not.                      *)
Objects ==
    [version : Nat, locals : SUBSET Name,
     functions : Seq(Definitions), data : Seq(Definitions)]
=============================================================================
