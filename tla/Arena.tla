-------------------------------- MODULE Arena --------------------------------
(***************************************************************************)
(* The allocator of the guest runtime (runtime/allocator.c): storage in one *)
(* piece of memory, each block behind a header of eight bytes that holds    *)
(* its size (zero for a hole) and its span.  A call of the program is a     *)
(* sequence of steps, one for each turn of the loops over the headers; the  *)
(* storage behind the headers is counted in cells of eight bytes.           *)
(***************************************************************************)
EXTENDS Integers

CONSTANTS
    Word,      \* values of an unsigned int, 2^32
    Owners,    \* names for the blocks the program holds at one time
    Memories,  \* arguments of cosmic_arena_init, records [address, capacity]
    Sizes,     \* sizes the program asks for
    Products   \* pairs of arguments of cosmic_arena_calloc

ASSUME WordAssumption == Word \in Nat /\ Word % 8 = 0 /\ Word >= 32
ASSUME MemoriesAssumption ==
    \A m \in Memories : m.address \in 0..Word - 1 /\ m.capacity \in 0..Word - 1
ASSUME RequestsAssumption ==
    /\ Sizes \subseteq 0..Word - 1
    /\ Products \subseteq (0..Word - 1) \X (0..Word - 1)
ASSUME OwnersAssumption == "nobody" \notin Owners

VARIABLES
    base, capacity, used,  \* cosmic_arena
    header,   \* the headers of the blocks, a function on their offsets
    cells,    \* what the memory holds, a function on cell numbers
    live,     \* the blocks the program holds, records [at, size]
    call,     \* the arguments of the call being served
    pc,       \* "idle", or the loop the call is in, or "return"
    offset,   \* loop variable of the walk over the headers
    found,    \* cosmic_arena_free: offset of the block plus one
    result    \* the value to be returned

region == <<base, capacity>>
vars == <<base, capacity, used, header, cells, live, call, pc, offset, found, result>>

Idle == [op |-> "idle", owner |-> "nobody", pointer |-> 0, count |-> 0, size |-> 0]
Nowhere == [at |-> 0, size |-> 0]
Held(o) == live[o].at # 0

(* Arithmetic of unsigned int.                                              *)
Padding(address) == (8 - (address % 8)) % 8
Product(n, m) == (n * m) % Word

(* cosmic_arena_init                                                        *)
Refused(m) ==
    \/ m.address = 0
    \/ m.capacity < Padding(m.address)
    \/ m.capacity > Word - 1 - m.address

Init ==
    /\ \E m \in Memories :
         /\ base = IF Refused(m) THEN 0 ELSE m.address + Padding(m.address)
         /\ capacity = IF Refused(m) THEN 0 ELSE m.capacity - Padding(m.address)
    /\ used = 0
    /\ header = [o \in {} |-> Nowhere]
    /\ cells = [c \in 0..(capacity \div 8) - 1 |-> "old"]
    /\ live = [o \in Owners |-> Nowhere]
    /\ call = Idle
    /\ pc = "idle"
    /\ offset = 0
    /\ found = 0
    /\ result = 0

----------------------------------------------------------------------------
(* The program.  It holds a block under a name, writes to its own storage   *)
(* only, and calls with pointers it holds and with pointers it does not.    *)
Asks(op, owner, pointer, count, size) ==
    /\ pc = "idle"
    /\ call' = [op |-> op, owner |-> owner, pointer |-> pointer, count |-> count, size |-> size]
    /\ UNCHANGED <<region, used, header, cells, live, offset, found, result>>

CallAlloc(o, size) ==
    /\ ~ Held(o)
    /\ \/ Asks("alloc", o, 0, 1, size)
       \/ Asks("realloc", o, 0, 1, size)
    /\ pc' = "alloc"

CallCalloc(o, n, size) ==
    /\ ~ Held(o)
    /\ Asks("calloc", o, 0, n, size)
    /\ pc' = "alloc"

CallFree(o, p) ==
    /\ Asks("free", o, p, 0, 0)
    /\ pc' = "find"

CallRealloc(o, p, size) ==
    /\ Asks("realloc", o, p, 1, size)
    /\ pc' = "search"

(* Pointers to the storage of any block that is or has been in the memory.  *)
Stale == {base + 8 * c : c \in DOMAIN cells} \ {live[o].at : o \in Owners}

Call ==
    \/ \E o \in Owners, size \in Sizes : CallAlloc(o, size)
    \/ \E o \in Owners, p \in Products : CallCalloc(o, p[1], p[2])
    \/ \E o \in Owners : Held(o) /\ CallFree(o, live[o].at)
    \/ \E o \in Owners, size \in Sizes : Held(o) /\ CallRealloc(o, live[o].at, size)
    \/ \E p \in Stale : CallFree("nobody", p)
    \/ \E p \in Stale : CallRealloc("nobody", p, 1)

Cell(p) == (p - base) \div 8
CellsOf(size) == (size + 7) \div 8
Storage(p, size) == Cell(p)..Cell(p) + CellsOf(size) - 1

(* What is in nobody's storage makes no difference and is forgotten.        *)
Forget(held) ==
    [c \in DOMAIN cells |->
       IF \E o \in Owners : held[o].at # 0 /\ c \in Storage(held[o].at, held[o].size)
       THEN cells[c] ELSE "old"]

Write(o) ==
    /\ pc = "idle"
    /\ Held(o)
    /\ cells' = [c \in DOMAIN cells |->
                   IF c \in Storage(live[o].at, live[o].size) THEN o ELSE cells[c]]
    /\ UNCHANGED <<region, used, header, live, call, pc, offset, found, result>>

(* cosmic_arena_reset                                                       *)
Reset ==
    /\ pc = "idle"
    /\ used' = 0
    /\ header' = [o \in {} |-> Nowhere]
    /\ live' = [o \in Owners |-> Nowhere]
    /\ cells' = Forget(live')
    /\ UNCHANGED <<region, call, pc, offset, found, result>>

----------------------------------------------------------------------------
(* cosmic_arena_header.  Outside DOMAIN header the memory holds something   *)
(* else, which the code would take for a header.                            *)
HeaderAt(o) ==
    /\ used <= capacity
    /\ o <= used
    /\ used - o >= 8
    /\ o \in DOMAIN header
    /\ header[o].span >= 16
    /\ (header[o].span % 8) = 0
    /\ header[o].span <= used - o
    /\ header[o].size <= header[o].span - 8

IsHole(o) == header[o].size = 0
Pointer(o) == base + o + 8

Put(h, o, size, span) ==
    [x \in DOMAIN h \cup {o} |-> IF x = o THEN [size |-> size, span |-> span] ELSE h[x]]
Drop(h, o) == [x \in DOMAIN h \ {o} |-> h[x]]
Head(o) == [c \in DOMAIN cells |-> IF c = o \div 8 THEN "head" ELSE cells[c]]

Move(o) == offset' = o
Goto(label) == pc' = label
Finish(value) == Goto("return") /\ result' = value

(* cosmic_arena_alloc: the size it is given, and the span of the block.     *)
Wanted == Product(call.count, call.size)
(* Mutant of Overflows: calloc multiplies without a check.                  *)
Multiplies == FALSE

Overflows == call.op = "calloc" /\ call.size # 0 /\ call.count > (Word - 1) \div call.size

Span == (((Wanted + 15) % Word) \div 8) * 8

Unservable ==
    \/ Overflows
    \/ Wanted = 0
    \/ Wanted > Word - 16
    \/ used > capacity

(* The new block at o; realloc goes on to copy, calloc to clear.            *)
Place(o) ==
    /\ result' = Pointer(o)
    /\ pc' = CASE call.op = "realloc" /\ call.pointer # 0 -> "copy"
               [] call.op = "calloc" -> "clear"
               [] OTHER -> "return"
    /\ UNCHANGED <<region, live, call, offset, found>>

AllocRefuse ==
    /\ pc = "alloc"
    /\ \/ Unservable
       \/ offset < used /\ ~ HeaderAt(offset)
       \/ offset >= used /\ Span > capacity - used
    /\ Finish(0)
    /\ UNCHANGED <<region, used, header, cells, live, call, offset, found>>

(* Mutant of Fits: a hole that would be filled is passed over.              *)
FitsLoosely(o) == IsHole(o) /\ header[o].span > Span

Fits(o) == IsHole(o) /\ header[o].span >= Span

Scanning == pc = "alloc" /\ ~ Unservable /\ offset < used /\ HeaderAt(offset)

AllocSkip ==
    /\ Scanning
    /\ ~ Fits(offset)
    /\ Move(offset + header[offset].span)
    /\ UNCHANGED <<region, used, header, cells, live, call, pc, found, result>>

(* Mutant of AllocSplit: the rest of the hole gets no header.               *)
AllocSplitBare ==
    /\ Scanning
    /\ Fits(offset)
    /\ header[offset].span - Span >= 16
    /\ header' = Put(header, offset, Wanted, Span)
    /\ cells' = Head(offset + Span)
    /\ Place(offset)
    /\ UNCHANGED used

AllocSplit ==
    /\ Scanning
    /\ Fits(offset)
    /\ header[offset].span - Span >= 16
    /\ header' = Put(Put(header, offset, Wanted, Span),
                     offset + Span, 0, header[offset].span - Span)
    /\ cells' = Head(offset + Span)
    /\ Place(offset)
    /\ UNCHANGED used

AllocWhole ==
    /\ Scanning
    /\ Fits(offset)
    /\ header[offset].span - Span < 16
    /\ header' = Put(header, offset, Wanted, header[offset].span)
    /\ Place(offset)
    /\ UNCHANGED <<used, cells>>

AllocExtend ==
    /\ pc = "alloc"
    /\ ~ Unservable
    /\ offset >= used
    /\ Span <= capacity - used
    /\ header' = Put(header, used, Wanted, Span)
    /\ cells' = Head(used)
    /\ used' = used + Span
    /\ Place(used)

(* The loop of cosmic_arena_calloc.                                         *)
Clear ==
    /\ pc = "clear"
    /\ cells' = [c \in DOMAIN cells |->
                   IF c \in Storage(result, Wanted) THEN "zero" ELSE cells[c]]
    /\ Goto("return")
    /\ UNCHANGED <<region, used, header, live, call, offset, found, result>>

----------------------------------------------------------------------------
(* The loop of cosmic_arena_realloc.                                        *)
SearchFails ==
    /\ pc = "search"
    /\ \/ offset >= used
       \/ ~ HeaderAt(offset)
       \/ HeaderAt(offset) /\ Pointer(offset) = call.pointer /\ IsHole(offset)
    /\ Finish(0)
    /\ UNCHANGED <<region, used, header, cells, live, call, offset, found>>

Searching == pc = "search" /\ offset < used /\ HeaderAt(offset)

(* Mutant of SearchSkip: past the bytes that were asked for, not the block. *)
SearchSkipSize ==
    /\ Searching
    /\ Pointer(offset) # call.pointer
    /\ Move(offset + header[offset].size)
    /\ UNCHANGED <<region, used, header, cells, live, call, pc, found, result>>

SearchSkip ==
    /\ Searching
    /\ Pointer(offset) # call.pointer
    /\ Move(offset + header[offset].span)
    /\ UNCHANGED <<region, used, header, cells, live, call, pc, found, result>>

AtBlock == Searching /\ Pointer(offset) = call.pointer /\ ~ IsHole(offset)

(* A size of zero frees the block: the result stays null.                   *)
SearchFrees ==
    /\ AtBlock
    /\ call.size = 0
    /\ Goto("find")
    /\ Move(0)
    /\ UNCHANGED <<region, used, header, cells, live, call, found, result>>

ResizeInPlace ==
    /\ AtBlock
    /\ call.size # 0
    /\ call.size <= header[offset].span - 8
    /\ header' = Put(header, offset, call.size, header[offset].span)
    /\ Finish(call.pointer)
    /\ UNCHANGED <<region, used, cells, live, call, offset, found>>

ResizeMoves ==
    /\ AtBlock
    /\ call.size > header[offset].span - 8
    /\ Goto("alloc")
    /\ Move(0)
    /\ UNCHANGED <<region, used, header, cells, live, call, found, result>>

(* As many bytes as the old block has, then the old block is freed.         *)
OldSize == header[call.pointer - 8 - base].size

Copy ==
    /\ pc = "copy"
    /\ cells' = [c \in DOMAIN cells |->
                   IF c \in Storage(result, OldSize)
                   THEN cells[Cell(call.pointer) + (c - Cell(result))]
                   ELSE cells[c]]
    /\ Goto("find")
    /\ Move(0)
    /\ UNCHANGED <<region, used, header, live, call, found, result>>

----------------------------------------------------------------------------
(* cosmic_arena_free: the walk that checks every header and looks for the   *)
(* block.  Realloc does not look at the status.                             *)
Status(value) == IF call.op = "free" THEN value ELSE result

FreeFails ==
    /\ pc = "find"
    /\ \/ offset < used /\ ~ HeaderAt(offset)
       \/ offset < used /\ HeaderAt(offset) /\ Pointer(offset) = call.pointer /\ IsHole(offset)
       \/ offset >= used /\ found = 0
    /\ Finish(Status(1))
    /\ UNCHANGED <<region, used, header, cells, live, call, offset, found>>

FindStep ==
    /\ pc = "find"
    /\ offset < used
    /\ HeaderAt(offset)
    /\ Pointer(offset) = call.pointer => ~ IsHole(offset)
    /\ found' = IF Pointer(offset) = call.pointer THEN offset + 1 ELSE found
    /\ Move(offset + header[offset].span)
    /\ UNCHANGED <<region, used, header, cells, live, call, pc, result>>

(* Mutant of FreeBlock: free returns without the second walk.               *)
FreeUnmerged ==
    /\ pc = "find"
    /\ offset >= used
    /\ found # 0
    /\ header' = Put(header, found - 1, 0, header[found - 1].span)
    /\ Finish(Status(0))
    /\ UNCHANGED <<region, used, cells, live, call, offset, found>>

FreeBlock ==
    /\ pc = "find"
    /\ offset >= used
    /\ found # 0
    /\ header' = Put(header, found - 1, 0, header[found - 1].span)
    /\ Goto("merge")
    /\ Move(0)
    /\ UNCHANGED <<region, used, cells, live, call, found, result>>

(* The second walk: a hole takes in the hole behind it as long as there is  *)
(* one, and a hole at the end is given back.                                *)
Behind(o) == o + header[o].span
AtHole == pc = "merge" /\ offset < used /\ IsHole(offset)

MergeDone ==
    /\ pc = "merge"
    /\ offset >= used
    /\ Finish(Status(0))
    /\ UNCHANGED <<region, used, header, cells, live, call, offset, found>>

MergeSkip ==
    /\ pc = "merge"
    /\ offset < used
    /\ \/ ~ IsHole(offset)
       \/ Behind(offset) < used /\ ~ IsHole(Behind(offset))
    /\ Move(Behind(offset))
    /\ UNCHANGED <<region, used, header, cells, live, call, pc, found, result>>

Absorb ==
    /\ AtHole
    /\ Behind(offset) < used
    /\ IsHole(Behind(offset))
    /\ header' = Drop(Put(header, offset, 0, header[offset].span + header[Behind(offset)].span),
                      Behind(offset))
    /\ UNCHANGED <<region, used, cells, live, call, pc, offset, found, result>>

Trim ==
    /\ AtHole
    /\ Behind(offset) = used
    /\ used' = offset
    /\ header' = Drop(header, offset)
    /\ Finish(Status(0))
    /\ UNCHANGED <<region, cells, live, call, offset, found>>

----------------------------------------------------------------------------
(* The program takes the result; the locals of the call end.                *)
Returned ==
    CASE call.op = "free" -> IF result = 0 THEN Nowhere ELSE live[call.owner]
      [] call.op = "realloc" /\ call.size = 0 -> Nowhere
      [] OTHER -> IF result = 0 THEN live[call.owner] ELSE [at |-> result, size |-> Wanted]

Return ==
    /\ pc = "return"
    /\ live' = IF call.owner \in Owners THEN [live EXCEPT ![call.owner] = Returned] ELSE live
    /\ call' = Idle
    /\ pc' = "idle"
    /\ cells' = Forget(live')
    /\ offset' = 0 /\ found' = 0 /\ result' = 0
    /\ UNCHANGED <<region, used, header>>

Step ==
    \/ AllocRefuse \/ AllocSkip \/ AllocSplit \/ AllocWhole \/ AllocExtend \/ Clear
    \/ SearchFails \/ SearchSkip \/ SearchFrees \/ ResizeInPlace \/ ResizeMoves \/ Copy
    \/ FreeFails \/ FindStep \/ FreeBlock
    \/ MergeDone \/ MergeSkip \/ Absorb \/ Trim
    \/ Return

Next == Call \/ Reset \/ (\E o \in Owners : Write(o)) \/ Step

(* A call runs to its end unless the machine stops; the program need not    *)
(* call again.                                                              *)
Spec == Init /\ [][Next]_vars /\ WF_vars(Step)
----------------------------------------------------------------------------
TypeOK ==
    /\ base \in 0..Word - 1 /\ capacity \in 0..Word - 1 /\ used \in 0..capacity
    /\ DOMAIN header \subseteq 0..capacity
    /\ \A o \in DOMAIN header : header[o].size \in 0..Word - 1 /\ header[o].span \in 0..Word - 1
    /\ \A c \in DOMAIN cells : cells[c] \in {"old", "zero", "head"} \cup Owners
    /\ \A o \in Owners : live[o].at \in 0..Word - 1 /\ live[o].size \in 0..Word - 1
    /\ offset \in 0..capacity /\ found \in 0..capacity + 1
    /\ result \in 0..Word - 1

(* The blocks lie one behind the other from the first byte of the arena to  *)
(* its end, with nothing between them, at every step of every call: what    *)
(* the loops of allocator.c rely on to get from one header to the next.     *)
Tiled ==
    /\ used > 0 => 0 \in DOMAIN header
    /\ \A o \in DOMAIN header :
         /\ HeaderAt(o)
         /\ o % 8 = 0
         /\ Behind(o) = used \/ Behind(o) \in DOMAIN header
         /\ \A p \in DOMAIN header : o < p => Behind(o) <= p

(* But for the second walk of free, no hole is next to another and none is  *)
(* at the end: an arena whose blocks were all given back is empty again,    *)
(* and what is free is found in one piece.                                  *)
HolesApart ==
    pc # "merge" =>
      \A o \in DOMAIN header : IsHole(o) => Behind(o) < used /\ ~ IsHole(Behind(o))

(* A call fails only for a reason: a pointer the program does not hold, a   *)
(* size that cannot be served, or no hole and no room at the end that       *)
(* would take the block.                                                    *)
FailsForCause ==
    pc = "return" =>
      /\ call.op = "free" => (result = 1 <=> call.owner = "nobody")
      /\ (call.op # "free" /\ call.owner # "nobody" /\ result = 0 /\ ~ Unservable) =>
           /\ Span > capacity - used
           /\ \A o \in DOMAIN header : ~ (IsHole(o) /\ header[o].span >= Span)

(* Every call returns: each turn of each loop gets past a header.           *)
CallsReturn == (pc # "idle") ~> (pc = "idle")

(* The arena implements Heap: storage that is aligned, apart and keeps its  *)
(* contents, through reallocation and through the reuse of what was freed.  *)
Content(o) ==
    IF Held(o)
    THEN [i \in 1..CellsOf(live[o].size) |-> cells[Cell(live[o].at) + i - 1]]
    ELSE << >>

Abstract ==
    INSTANCE Heap WITH
        room <- [low |-> base, high |-> base + capacity], request <- call,
        content <- [o \in Owners |-> Content(o)]

ImplementsHeap == Abstract!Spec
=============================================================================
