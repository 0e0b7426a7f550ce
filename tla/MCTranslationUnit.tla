------------------------- MODULE MCTranslationUnit -------------------------
(* Two names, two types, three declarations: a definition with one          *)
(* declaration before and one after it.  Names and types are                *)
(* interchangeable.                                                        *)
EXTENDS TranslationUnit, TLC

Symmetric == Permutations(Names) \cup Permutations(Types)
============================================================================
