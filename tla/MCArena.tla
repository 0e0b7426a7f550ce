------------------------------ MODULE MCArena ------------------------------
(* Eight cells of memory that does not begin on a boundary, memory that     *)
(* ends at the last address, and memory that cosmic_arena_init refuses.     *)
EXTENDS Arena

MCMemories ==
    {[address |-> 19, capacity |-> 70], [address |-> 211, capacity |-> 44],
     [address |-> 211, capacity |-> 45], [address |-> 0, capacity |-> 64],
     [address |-> 19, capacity |-> 4]}

(* 16 * 16 = 0 and 3 * 86 = 2 modulo Word.                                  *)
MCProducts == {<<2, 4>>, <<16, 16>>, <<3, 86>>, <<2, 10>>}
=============================================================================
