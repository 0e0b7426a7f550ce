---------------------------- MODULE MCImageLayout ----------------------------
(* Artifacts of one or two functions and up to two data objects in an       *)
(* address space of 64 bytes, at its start, in the middle and at its end.   *)
EXTENDS ImageLayout

MCAddressSpace == 64

Reference(offset, target, addend) == [offset |-> offset, target |-> target, addend |-> addend]

Function(name, size, relocations) ==
    [name |-> name, size |-> size, align |-> 2, zero |-> FALSE, readOnly |-> TRUE,
     relocations |-> relocations]

Data(name, size, align, zero, readOnly, relocations) ==
    [name |-> name, size |-> size, align |-> align, zero |-> zero, readOnly |-> readOnly,
     relocations |-> relocations]

Mains ==
    {Function("main", 6, << >>),
     Function("main", 6, <<Reference(2, "d", 1)>>),
     Function("main", 8, <<Reference(4, "f", 0), Reference(0, "main", -4)>>),
     Function("main", 8, <<Reference(0, "main", 40), Reference(2, "main", 0)>>),
     Function("main", 2, <<Reference(0, "main", 0)>>)}

Others == {<< >>, <<Function("f", 2, << >>)>>}

Datas ==
    {<< >>}
    \cup {<<Data("d", 0, 8, TRUE, FALSE, << >>)>>,
          <<Data("d", 1, 1, TRUE, TRUE, << >>), Data("e", 5, 8, TRUE, FALSE, << >>)>>,
          <<Data("d", 5, 2, FALSE, FALSE, <<Reference(1, "e", -1)>>), Data("e", 0, 1, TRUE, FALSE, << >>)>>,
          <<Data("d", 8, 16, TRUE, FALSE, <<Reference(0, "d", 4), Reference(4, "main", 0)>>)>>,
          <<Data("d", 8, 3, FALSE, FALSE, << >>)>>}

MCJobs ==
    {[artifact |-> [version |-> 4, locals |-> {}, functions |-> f, data |-> d],
      base |-> b, entry |-> "main", max |-> m] :
        f \in {<<x>> \o y : x \in Mains, y \in Others}
              \cup {y \o <<x>> : x \in Mains, y \in Others},
        d \in Datas,
        b \in {0, 4, 6, 16, 44, 56, 60}, m \in {6, 16, 24, 63}}

MCStarts ==
    {[ram |-> r, bottom |-> b, top |-> t, trap |-> x] :
        r \in {48, 64}, b \in {0, 16, 32}, t \in {16, 32, 48}, x \in {0, 12, 36, 40}}
=============================================================================
