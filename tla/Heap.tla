-------------------------------- MODULE Heap --------------------------------
(***************************************************************************)
(* What the arena of runtime/allocator.c promises its caller, without       *)
(* headers, holes or a search: storage that is aligned, inside the memory   *)
(* that was handed over and apart from all other storage, that keeps what   *)
(* was written to it until it is given back, and calls that change nothing  *)
(* when they fail.  Contents are counted in cells of eight bytes.           *)
(***************************************************************************)
EXTENDS Naturals, Sequences

CONSTANTS
    Owners   \* names for the pieces of storage a caller holds at one time

VARIABLES
    room,      \* the memory, a record [low, high]
    request,   \* the call that is being served, or Idle
    live,      \* where the storage of each owner is, or Nowhere
    content    \* what its cells hold

vars == <<room, request, live, content>>

Idle == [op |-> "idle", owner |-> "nobody", pointer |-> 0, count |-> 0, size |-> 0]
Nowhere == [at |-> 0, size |-> 0]

CellsOf(size) == (size + 7) \div 8
Held(o) == live[o].at # 0
Holds(o, p) == o \in Owners /\ Held(o) /\ live[o].at = p
Fresh == request.pointer = 0
Bytes == request.count * request.size

Init ==
    /\ room.low % 8 = 0
    /\ room.low <= room.high
    /\ request = Idle
    /\ live = [o \in Owners |-> Nowhere]
    /\ content = [o \in Owners |-> << >>]

Ask ==
    /\ request = Idle
    /\ request' # Idle
    /\ UNCHANGED <<room, live, content>>

Apart(a, b) == a.at + a.size <= b.at \/ b.at + b.size <= a.at
Settles(o, place) ==
    /\ place.at % 8 = 0
    /\ room.low <= place.at
    /\ place.at + place.size <= room.high
    /\ \A p \in Owners \ {o} : Held(p) => Apart(place, live[p])
    /\ live' = [live EXCEPT ![o] = place]

(* Only the content of o changes, and it has the length of its storage.     *)
Fills(o, place) ==
    /\ content' = [content EXCEPT ![o] = content'[o]]
    /\ Len(content'[o]) = CellsOf(place.size)

Answer == request # Idle /\ request' = Idle /\ UNCHANGED room

Grant ==
    /\ Answer
    /\ request.op \in {"alloc", "calloc"} \/ (request.op = "realloc" /\ Fresh)
    /\ Bytes > 0
    /\ ~ Held(request.owner)
    /\ LET place == [at |-> live'[request.owner].at, size |-> Bytes]
       IN  Settles(request.owner, place) /\ Fills(request.owner, place)
    /\ request.op = "calloc" =>
         \A i \in 1..Len(content'[request.owner]) : content'[request.owner][i] = "zero"

Resize ==
    /\ Answer
    /\ request.op = "realloc"
    /\ ~ Fresh
    /\ Holds(request.owner, request.pointer)
    /\ Bytes > 0
    /\ LET o == request.owner
           place == [at |-> live'[o].at, size |-> Bytes]
           kept == IF Bytes < live[o].size THEN CellsOf(Bytes) ELSE CellsOf(live[o].size)
       IN  /\ Settles(o, place)
           /\ Fills(o, place)
           /\ \A i \in 1..kept : content'[o][i] = content[o][i]

Release ==
    /\ Answer
    /\ request.op = "free" \/ (request.op = "realloc" /\ Bytes = 0)
    /\ ~ Fresh
    /\ Holds(request.owner, request.pointer)
    /\ live' = [live EXCEPT ![request.owner] = Nowhere]
    /\ content' = [content EXCEPT ![request.owner] = << >>]

(* A failed call changes nothing; giving storage back never fails, nor does *)
(* making it smaller.                                                       *)
Refuse ==
    /\ Answer
    /\ Holds(request.owner, request.pointer) =>
         request.op = "realloc" /\ Bytes > live[request.owner].size
    /\ UNCHANGED <<live, content>>

Write(o) ==
    /\ request = Idle
    /\ Held(o)
    /\ content' = [content EXCEPT ![o] = [i \in 1..CellsOf(live[o].size) |-> o]]
    /\ UNCHANGED <<room, request, live>>

Reset ==
    /\ request = Idle
    /\ live' = [o \in Owners |-> Nowhere]
    /\ content' = [o \in Owners |-> << >>]
    /\ UNCHANGED <<room, request>>

Next == Ask \/ Grant \/ Resize \/ Release \/ Refuse \/ Reset \/ \E o \in Owners : Write(o)

Spec == Init /\ [][Next]_vars
=============================================================================
