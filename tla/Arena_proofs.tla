---------------------------- MODULE Arena_proofs ----------------------------
(***************************************************************************)
(* Proofs about Arena, for every word size, memory and program: the headers *)
(* tile the used part of the arena at every step, so the loops only ever    *)
(* read headers; every block in use has exactly one owner; and the calls    *)
(* implement Heap.                                                          *)
(***************************************************************************)
EXTENDS Arena, TLAPS

----------------------------------------------------------------------------
(* Arithmetic.                                                              *)
LEMMA MultipleSum ==
    ASSUME NEW a \in Nat, NEW b \in Nat, (a % 8) = 0, (b % 8) = 0
    PROVE  ((a + b) % 8) = 0
  OBVIOUS

LEMMA MultipleDifference ==
    ASSUME NEW a \in Nat, NEW b \in Nat, (a % 8) = 0, (b % 8) = 0, b <= a
    PROVE  ((a - b) % 8) = 0
  OBVIOUS

LEMMA RoundedUp ==
    ASSUME NEW w \in Nat, 0 < w, w <= Word - 16
    PROVE  LET s == (((w + 15) % Word) \div 8) * 8
           IN  s \in Nat /\ (s % 8) = 0 /\ s >= 16 /\ w <= s - 8
  <1>1. (w + 15) % Word = w + 15
    BY WordAssumption
  <1> QED BY <1>1, WordAssumption

LEMMA Boundary ==
    ASSUME NEW a \in Nat
    PROVE  /\ Padding(a) \in 0..7
           /\ ((a + Padding(a)) % 8) = 0
  BY DEF Padding

LEMMA ProductType ==
    ASSUME NEW n \in Nat, NEW m \in Nat
    PROVE  Product(n, m) \in Nat
  <1>1. n * m \in Nat
    OBVIOUS
  <1> QED BY <1>1, WordAssumption DEF Product

----------------------------------------------------------------------------
(* Tiled, of any headers h that reach to u, with the types of their fields. *)
IsBlock(h, u, o) ==
    /\ o \in Nat /\ h[o].size \in Nat /\ h[o].span \in Nat
    /\ (o % 8) = 0 /\ (h[o].span % 8) = 0
    /\ h[o].span >= 16
    /\ h[o].size <= h[o].span - 8
    /\ o + h[o].span <= u
    /\ o + h[o].span = u \/ o + h[o].span \in DOMAIN h
    /\ \A p \in DOMAIN h : o < p => o + h[o].span <= p

Tiling(h, u) ==
    /\ u \in Nat /\ (u % 8) = 0
    /\ u > 0 => 0 \in DOMAIN h
    /\ \A o \in DOMAIN h : IsBlock(h, u, o)

LEMMA DropFacts ==
    ASSUME NEW h, NEW o
    PROVE  /\ DOMAIN Drop(h, o) = DOMAIN h \ {o}
           /\ \A x \in DOMAIN h \ {o} : Drop(h, o)[x] = h[x]
  BY DEF Drop

(* Another size in a header.                                                *)
LEMMA Resized ==
    ASSUME NEW h, NEW u, Tiling(h, u), NEW o \in DOMAIN h,
           NEW size \in Nat, size <= h[o].span - 8
    PROVE  Tiling(Put(h, o, size, h[o].span), u)
  <1> DEFINE k == Put(h, o, size, h[o].span)
  <1>1. /\ DOMAIN k = DOMAIN h
        /\ \A x \in DOMAIN h : k[x].span = h[x].span
        /\ \A x \in DOMAIN h : k[x].size \in Nat /\ k[x].size <= k[x].span - 8
    <2>1. /\ DOMAIN k = DOMAIN h \cup {o}
          /\ k[o].size = size /\ k[o].span = h[o].span
          /\ \A x \in DOMAIN h : x # o => k[x] = h[x]
      BY DEF Put
    <2>2. \A x \in DOMAIN h : h[x].size \in Nat /\ h[x].size <= h[x].span - 8
      BY DEF Tiling, IsBlock
    <2> HIDE DEF k
    <2> QED BY <2>1, <2>2
  <1> HIDE DEF k
  <1>2. ASSUME NEW x \in DOMAIN k PROVE IsBlock(k, u, x)
    BY <1>1 DEF Tiling, IsBlock
  <1>3. Tiling(k, u)
    BY <1>1, <1>2 DEF Tiling
  <1> QED BY <1>3 DEF k

(* A block behind the last one.                                             *)
LEMMA Extended ==
    ASSUME NEW h, NEW u, Tiling(h, u), NEW size \in Nat, NEW span \in Nat,
           (span % 8) = 0, span >= 16, size <= span - 8
    PROVE  Tiling(Put(h, u, size, span), u + span)
  <1> DEFINE k == Put(h, u, size, span)
  <1>0. u \in Nat /\ (u % 8) = 0 /\ \A x \in DOMAIN h : x \in Nat /\ x < u
    BY DEF Tiling, IsBlock
  <1>1. /\ DOMAIN k = DOMAIN h \cup {u}
        /\ k[u].size = size /\ k[u].span = span
        /\ \A x \in DOMAIN h : k[x] = h[x]
    <2>1. /\ DOMAIN k = DOMAIN h \cup {u}
          /\ k[u].size = size /\ k[u].span = span
          /\ \A x \in DOMAIN h : x # u => k[x] = h[x]
      BY DEF Put
    <2> HIDE DEF k
    <2> QED BY <2>1, <1>0
  <1> HIDE DEF k
  <1>2. IsBlock(k, u + span, u)
    BY <1>0, <1>1 DEF IsBlock
  <1>3. ASSUME NEW x \in DOMAIN h PROVE IsBlock(k, u + span, x)
    <2>1. IsBlock(h, u, x)
      BY DEF Tiling
    <2> QED BY <2>1, <1>0, <1>1 DEF IsBlock
  <1>4. 0 \in DOMAIN k
    BY <1>0, <1>1 DEF Tiling
  <1>5. u + span \in Nat /\ ((u + span) % 8) = 0
    BY <1>0, MultipleSum
  <1>6. Tiling(k, u + span)
    BY <1>1, <1>2, <1>3, <1>4, <1>5 DEF Tiling
  <1> QED BY <1>6 DEF k

(* A block cut in two.                                                      *)
LEMMA Split ==
    ASSUME NEW h, NEW u, Tiling(h, u), NEW o \in DOMAIN h, NEW size \in Nat,
           NEW span \in Nat, (span % 8) = 0, span >= 16, size <= span - 8,
           h[o].span - span >= 16
    PROVE  Tiling(Put(Put(h, o, size, span), o + span, 0, h[o].span - span), u)
  <1> DEFINE n == o + span
             r == h[o].span - span
             k == Put(Put(h, o, size, span), n, 0, r)
  <1>0. IsBlock(h, u, o) /\ u \in Nat /\ (u % 8) = 0
    BY DEF Tiling
  <1>1. /\ r \in Nat /\ (r % 8) = 0 /\ n \in Nat /\ (n % 8) = 0
        /\ o + h[o].span = n + r
        /\ o < n /\ r >= 16 /\ 0 <= r - 8 /\ o \in Nat
    BY <1>0, MultipleSum, MultipleDifference DEF IsBlock
  <1>2. n \notin DOMAIN h
    BY <1>0, <1>1 DEF IsBlock
  <1>3. /\ DOMAIN k = DOMAIN h \cup {n}
        /\ k[n].size = 0 /\ k[n].span = r
        /\ k[o].size = size /\ k[o].span = span
        /\ \A x \in DOMAIN h \ {o} : k[x] = h[x]
    <2> DEFINE j == Put(h, o, size, span)
    <2>1. /\ DOMAIN j = DOMAIN h \cup {o}
          /\ j[o].size = size /\ j[o].span = span
          /\ \A x \in DOMAIN h : x # o => j[x] = h[x]
      BY DEF Put
    <2>2. k = Put(j, n, 0, r)
      OBVIOUS
    <2> HIDE DEF j, k
    <2>3. /\ DOMAIN k = DOMAIN j \cup {n}
          /\ k[n].size = 0 /\ k[n].span = r
          /\ \A x \in DOMAIN j : x # n => k[x] = j[x]
      BY <2>2 DEF Put
    <2>4. o # n
      BY <1>1
    <2> HIDE DEF n, r
    <2> QED BY <1>2, <2>1, <2>3, <2>4
  <1> HIDE DEF k, n, r
  <1>4. IsBlock(k, u, o)
    <2>1. o + span = n
      BY DEF n
    <2>2. \A p \in DOMAIN k : o < p => n <= p
      <3>1. \A p \in DOMAIN h : o < p => n + r <= p
        BY <1>0, <1>1 DEF IsBlock
      <3>2. \A p \in DOMAIN h : p \in Nat
        BY DEF Tiling, IsBlock
      <3> QED BY <3>1, <3>2, <1>1, <1>3
    <2> QED BY <1>0, <1>1, <1>3, <2>1, <2>2 DEF IsBlock
  <1>5. IsBlock(k, u, n)
    <2>1. \A p \in DOMAIN k : n < p => n + r <= p
      <3>1. \A p \in DOMAIN h : o < p => n + r <= p
        BY <1>0, <1>1 DEF IsBlock
      <3>2. \A p \in DOMAIN h : p \in Nat
        BY DEF Tiling, IsBlock
      <3> QED BY <3>1, <3>2, <1>1, <1>3
    <2>2. n + r = u \/ n + r \in DOMAIN k
      BY <1>0, <1>1, <1>3 DEF IsBlock
    <2> QED BY <1>0, <1>1, <1>3, <2>1, <2>2 DEF IsBlock
  <1>6. ASSUME NEW x \in DOMAIN h \ {o} PROVE IsBlock(k, u, x)
    <2>1. IsBlock(h, u, x)
      BY DEF Tiling
    <2>2. x < n => x + h[x].span <= n
      BY <2>1, <1>0, <1>1 DEF IsBlock
    <2> QED BY <2>1, <2>2, <1>3 DEF IsBlock
  <1>7. Tiling(k, u)
    <2>1. u > 0 => 0 \in DOMAIN k
      BY <1>3 DEF Tiling
    <2> QED BY <1>0, <1>3, <1>4, <1>5, <1>6, <2>1 DEF Tiling
  <1> QED BY <1>7 DEF k, n, r

(* Two neighbours joined.                                                   *)
LEMMA Joined ==
    ASSUME NEW h, NEW u, Tiling(h, u), NEW o \in DOMAIN h, o + h[o].span < u
    PROVE  LET n == o + h[o].span
           IN  Tiling(Drop(Put(h, o, 0, h[o].span + h[n].span), n), u)
  <1> DEFINE n == o + h[o].span
             s == h[o].span + h[n].span
             k == Drop(Put(h, o, 0, s), n)
  <1>0. IsBlock(h, u, o) /\ n \in DOMAIN h /\ IsBlock(h, u, n) /\ u \in Nat /\ (u % 8) = 0
    BY DEF Tiling, IsBlock
  <1>1. /\ s \in Nat /\ (s % 8) = 0 /\ s >= 16 /\ 0 <= s - 8
        /\ o \in Nat /\ n \in Nat /\ o < n
        /\ o + s = n + h[n].span
    BY <1>0, MultipleSum DEF IsBlock
  <1>3. /\ DOMAIN k = DOMAIN h \ {n}
        /\ o \in DOMAIN k
        /\ k[o].size = 0 /\ k[o].span = s
        /\ \A x \in DOMAIN h \ {o, n} : k[x] = h[x]
    <2> DEFINE j == Put(h, o, 0, s)
    <2>1. /\ DOMAIN j = DOMAIN h \cup {o}
          /\ j[o].size = 0 /\ j[o].span = s
          /\ \A x \in DOMAIN h : x # o => j[x] = h[x]
      BY DEF Put
    <2>2. k = Drop(j, n)
      OBVIOUS
    <2> HIDE DEF j, k, s
    <2>3. /\ DOMAIN k = DOMAIN j \ {n}
          /\ \A x \in DOMAIN j \ {n} : k[x] = j[x]
      BY <2>2, DropFacts
    <2>4. o # n
      BY <1>1
    <2> HIDE DEF n
    <2> QED BY <2>1, <2>3, <2>4
  <1>3a. \A x \in DOMAIN h : x \in Nat
    BY DEF Tiling, IsBlock
  <1> HIDE DEF k, s
  <1>4. IsBlock(k, u, o)
    <2>1. \A p \in DOMAIN k : o < p => o + s <= p
      BY <1>0, <1>1, <1>3, <1>3a DEF IsBlock
    <2>2. o + s = u \/ o + s \in DOMAIN k
      BY <1>0, <1>1, <1>3 DEF IsBlock
    <2> QED BY <1>0, <1>1, <1>3, <2>1, <2>2 DEF IsBlock
  <1>5. ASSUME NEW x \in DOMAIN h \ {o, n} PROVE IsBlock(k, u, x)
    <2>1. IsBlock(h, u, x)
      BY DEF Tiling
    <2>2. x + h[x].span # n
      <3>1. CASE x < o
        BY <3>1, <2>1, <1>1 DEF IsBlock
      <3>2. CASE o < x
        BY <3>2, <2>1, <1>0, <1>1 DEF IsBlock
      <3> QED BY <3>1, <3>2, <1>1, <1>3a
    <2> QED BY <2>1, <2>2, <1>3 DEF IsBlock
  <1>6. u > 0 => 0 \in DOMAIN k
    BY <1>1, <1>3 DEF Tiling
  <1>7. Tiling(k, u)
    BY <1>0, <1>3, <1>4, <1>5, <1>6 DEF Tiling
  <1> QED BY <1>7 DEF k, s, n

(* The last block given back.                                               *)
LEMMA Trimmed ==
    ASSUME NEW h, NEW u, Tiling(h, u), NEW o \in DOMAIN h, o + h[o].span = u
    PROVE  Tiling(Drop(h, o), o)
  <1> DEFINE k == Drop(h, o)
  <1>1. DOMAIN k = DOMAIN h \ {o} /\ \A x \in DOMAIN k : k[x] = h[x]
    BY DropFacts
  <1>2. IsBlock(h, u, o) /\ u \in Nat /\ o \in Nat /\ (o % 8) = 0
    BY DEF Tiling, IsBlock
  <1> HIDE DEF k
  <1>3. ASSUME NEW x \in DOMAIN k PROVE IsBlock(k, o, x)
    <2>1. IsBlock(h, u, x) /\ x # o
      BY <1>1 DEF Tiling
    <2>2. x < o
      BY <2>1, <1>1, <1>2 DEF IsBlock
    <2> QED BY <2>1, <2>2, <1>1, <1>2 DEF IsBlock
  <1>4. o > 0 => 0 \in DOMAIN k
    BY <1>1, <1>2 DEF Tiling, IsBlock
  <1>5. Tiling(k, o)
    BY <1>1, <1>2, <1>3, <1>4 DEF Tiling
  <1> QED BY <1>5 DEF k

----------------------------------------------------------------------------
(* Tiled is not inductive by itself: the loops must stand on a header or    *)
(* behind the last one, and what free has found must be a header.           *)
Sane ==
    /\ base \in Nat /\ capacity \in Nat /\ used \in Nat
    /\ (base % 8) = 0 /\ used <= capacity
    /\ call.count \in Nat /\ call.size \in Nat
    /\ pc \in {"idle", "alloc", "clear", "search", "copy", "find", "merge", "return"}
    /\ offset \in Nat /\ found \in Nat

OnHeader ==
    /\ pc = "idle" => offset = 0
    /\ pc \in {"alloc", "search", "find", "merge"} => offset \in DOMAIN header \cup {used}
    /\ pc \in {"idle", "alloc", "clear", "search", "copy"} => found = 0
    /\ pc = "find" /\ found # 0 => found - 1 \in DOMAIN header

IInv == Sane /\ Tiling(header, used) /\ OnHeader

LEMMA WantedType ==
    ASSUME IInv
    PROVE  Wanted \in Nat
  BY ProductType DEF IInv, Sane, Wanted

(* What the span of a block that can be served is.                          *)
LEMMA SpanFacts ==
    ASSUME IInv, ~ Unservable
    PROVE  /\ Wanted \in Nat /\ Wanted > 0
           /\ Span \in Nat /\ (Span % 8) = 0 /\ Span >= 16 /\ Wanted <= Span - 8
  <1>1. Wanted \in Nat /\ 0 < Wanted
    BY WantedType DEF Unservable
  <1>2. Wanted <= Word - 16
    BY <1>1, WordAssumption DEF Unservable
  <1> QED BY <1>1, <1>2, RoundedUp DEF Span

LEMMA AtStart ==
    ASSUME Tiling(header, used)
    PROVE  0 \in DOMAIN header \cup {used} /\ used \in Nat
  BY DEF Tiling

LEMMA AtBehind ==
    ASSUME Tiling(header, used), NEW o \in DOMAIN header
    PROVE  Behind(o) \in DOMAIN header \cup {used} /\ Behind(o) \in Nat /\ o \in Nat
  BY DEF Tiling, IsBlock, Behind

LEMMA InitIInv == Init => IInv
  <1> SUFFICES ASSUME Init PROVE IInv
    OBVIOUS
  <1>1. PICK m \in Memories :
          /\ base = IF Refused(m) THEN 0 ELSE m.address + Padding(m.address)
          /\ capacity = IF Refused(m) THEN 0 ELSE m.capacity - Padding(m.address)
    BY DEF Init
  <1>2. m.address \in Nat /\ m.capacity \in Nat
    BY MemoriesAssumption, WordAssumption
  <1>3. base \in Nat /\ (base % 8) = 0
    BY <1>1, <1>2, Boundary
  <1>4. capacity \in Nat
    <2>1. Padding(m.address) \in Nat
      BY <1>2 DEF Padding
    <2>2. ~ Refused(m) => m.address + Padding(m.address) \in Nat /\ m.capacity >= Padding(m.address)
      BY <1>2, <2>1 DEF Refused
    <2> QED BY <1>1, <1>2, <2>1, <2>2
  <1>5. Tiling(header, used)
    BY DEF Init, Tiling
  <1> QED BY <1>3, <1>4, <1>5 DEF Init, IInv, Sane, OnHeader, Idle

LEMMA CallIInv == IInv /\ Call => IInv'
  <1> SUFFICES ASSUME IInv, Call PROVE IInv'
    OBVIOUS
  <1> USE DEF Asks
  <1>0. 0..Word - 1 \subseteq Nat
    BY WordAssumption
  <1>1. \A size \in Sizes : size \in Nat
    BY <1>0, RequestsAssumption
  <1>2. \A p \in Products : p[1] \in Nat /\ p[2] \in Nat
    BY <1>0, RequestsAssumption
  <1>3. /\ pc = "idle" /\ call'.count \in Nat /\ call'.size \in Nat
        /\ pc' \in {"alloc", "find", "search"}
        /\ UNCHANGED <<region, used, header, offset, found>>
    <2>1. ASSUME NEW o \in Owners, NEW size \in Sizes, CallAlloc(o, size) PROVE <1>3
      BY <2>1, <1>1 DEF CallAlloc
    <2>2. ASSUME NEW o \in Owners, NEW p \in Products, CallCalloc(o, p[1], p[2]) PROVE <1>3
      BY <2>2, <1>2 DEF CallCalloc
    <2>3. ASSUME NEW o, NEW p, CallFree(o, p) PROVE <1>3
      BY <2>3 DEF CallFree
    <2>4. ASSUME NEW o, NEW p, NEW size \in Nat, CallRealloc(o, p, size) PROVE <1>3
      BY <2>4 DEF CallRealloc
    <2> QED BY <2>1, <2>2, <2>3, <2>4, <1>1 DEF Call
  <1> QED BY <1>3, AtStart DEF IInv, Sane, OnHeader, region

LEMMA ResetIInv == IInv /\ Reset => IInv'
  <1> SUFFICES ASSUME IInv, Reset PROVE IInv'
    OBVIOUS
  <1>1. Tiling(header', used')
    BY DEF Reset, Tiling
  <1> QED BY <1>1 DEF Reset, IInv, Sane, OnHeader, region

(* The steps that write headers.                                            *)
LEMMA AllocSplitIInv == IInv /\ AllocSplit => IInv'
  <1> SUFFICES ASSUME IInv, AllocSplit PROVE IInv'
    OBVIOUS
  <1>1. offset \in DOMAIN header /\ ~ Unservable
    BY DEF AllocSplit, Scanning, HeaderAt
  <1>2. Tiling(header', used)
    BY <1>1, SpanFacts, Split DEF AllocSplit, IInv
  <1> QED BY <1>2 DEF AllocSplit, Scanning, Place, IInv, Sane, OnHeader, region

LEMMA AllocWholeIInv == IInv /\ AllocWhole => IInv'
  <1> SUFFICES ASSUME IInv, AllocWhole PROVE IInv'
    OBVIOUS
  <1>1. offset \in DOMAIN header /\ ~ Unservable /\ header[offset].span >= Span
    BY DEF AllocWhole, Scanning, HeaderAt, Fits
  <1>2. header[offset].span \in Nat /\ Wanted <= header[offset].span - 8 /\ Wanted \in Nat
    BY <1>1, SpanFacts DEF IInv, Tiling, IsBlock
  <1>3. Tiling(header', used)
    BY <1>1, <1>2, Resized DEF AllocWhole, IInv
  <1> QED BY <1>3 DEF AllocWhole, Scanning, Place, IInv, Sane, OnHeader, region

LEMMA AllocExtendIInv == IInv /\ AllocExtend => IInv'
  <1> SUFFICES ASSUME IInv, AllocExtend PROVE IInv'
    OBVIOUS
  <1>1. Tiling(header', used')
    BY SpanFacts, Extended DEF AllocExtend, IInv
  <1>2. used' \in Nat /\ used' <= capacity
    BY SpanFacts DEF AllocExtend, IInv, Sane
  <1> QED BY <1>1, <1>2 DEF AllocExtend, Place, IInv, Sane, OnHeader, region

LEMMA ResizeInPlaceIInv == IInv /\ ResizeInPlace => IInv'
  <1> SUFFICES ASSUME IInv, ResizeInPlace PROVE IInv'
    OBVIOUS
  <1>1. offset \in DOMAIN header
    BY DEF ResizeInPlace, AtBlock, Searching, HeaderAt
  <1>2. Tiling(header', used)
    BY <1>1, Resized DEF ResizeInPlace, IInv, Sane
  <1> QED BY <1>2 DEF ResizeInPlace, Finish, Goto, IInv, Sane, OnHeader, region

LEMMA FreeBlockIInv == IInv /\ FreeBlock => IInv'
  <1> SUFFICES ASSUME IInv, FreeBlock PROVE IInv'
    OBVIOUS
  <1>1. found - 1 \in DOMAIN header
    BY DEF FreeBlock, IInv, OnHeader
  <1>2. 0 <= header[found - 1].span - 8
    BY <1>1 DEF IInv, Tiling, IsBlock
  <1>3. Tiling(header', used) /\ DOMAIN header' = DOMAIN header
    BY <1>1, <1>2, Resized DEF FreeBlock, IInv, Put
  <1> QED BY <1>1, <1>3, AtStart DEF FreeBlock, Goto, Move, IInv, Sane, OnHeader, region

LEMMA AbsorbIInv == IInv /\ Absorb => IInv'
  <1> SUFFICES ASSUME IInv, Absorb PROVE IInv'
    OBVIOUS
  <1>1. offset \in DOMAIN header /\ offset + header[offset].span < used
    BY DEF Absorb, AtHole, IInv, Sane, OnHeader, Behind
  <1>2. Tiling(header', used)
    BY <1>1, Joined DEF Absorb, IInv, Behind
  <1>3. offset \in DOMAIN header'
    BY <1>1 DEF Absorb, Put, Drop, Behind, IInv, Tiling, IsBlock
  <1> QED BY <1>2, <1>3 DEF Absorb, AtHole, IInv, Sane, OnHeader, region

LEMMA TrimIInv == IInv /\ Trim => IInv'
  <1> SUFFICES ASSUME IInv, Trim PROVE IInv'
    OBVIOUS
  <1>1. offset \in DOMAIN header /\ offset + header[offset].span = used
    BY DEF Trim, AtHole, IInv, Sane, OnHeader, Behind
  <1>2. Tiling(header', used')
    BY <1>1, Trimmed DEF Trim, IInv
  <1> QED BY <1>2 DEF Trim, AtHole, Finish, Goto, IInv, Sane, OnHeader, region

(* The steps that only walk, and the end of a call.                         *)
LEMMA WalkIInv ==
    ASSUME IInv,
           AllocSkip \/ SearchSkip \/ SearchFrees \/ ResizeMoves \/ Copy \/ FindStep \/ MergeSkip
    PROVE  IInv'
  <1> USE DEF Move, Goto, IInv, Sane, OnHeader, region
  <1>0. 0 \in DOMAIN header \cup {used}
    BY AtStart
  <1>1. CASE AllocSkip
    <2>1. offset' \in DOMAIN header \cup {used} /\ offset' \in Nat
      BY <1>1, AtBehind DEF AllocSkip, Scanning, HeaderAt, Behind
    <2> QED BY <1>1, <2>1 DEF AllocSkip, Scanning
  <1>2. CASE SearchSkip
    <2>1. offset' \in DOMAIN header \cup {used} /\ offset' \in Nat
      BY <1>2, AtBehind DEF SearchSkip, Searching, HeaderAt, Behind
    <2> QED BY <1>2, <2>1 DEF SearchSkip, Searching
  <1>3. CASE SearchFrees
    BY <1>0, <1>3 DEF SearchFrees, AtBlock, Searching
  <1>4. CASE ResizeMoves
    BY <1>0, <1>4 DEF ResizeMoves, AtBlock, Searching
  <1>5. CASE Copy
    BY <1>0, <1>5 DEF Copy
  <1>6. CASE FindStep
    <2>1. offset \in DOMAIN header /\ offset' \in DOMAIN header \cup {used} /\ offset' \in Nat
      BY <1>6, AtBehind DEF FindStep, HeaderAt, Behind
    <2>2. found' \in Nat /\ (found' # 0 => found' - 1 \in DOMAIN header)
      BY <1>6, <2>1 DEF FindStep
    <2> QED BY <1>6, <2>1, <2>2 DEF FindStep
  <1>7. CASE MergeSkip
    <2>1. offset \in DOMAIN header
      BY <1>7 DEF MergeSkip
    <2>2. offset' \in DOMAIN header \cup {used} /\ offset' \in Nat
      BY <1>7, <2>1, AtBehind DEF MergeSkip
    <2> QED BY <1>7, <2>2 DEF MergeSkip
  <1> QED BY <1>1, <1>2, <1>3, <1>4, <1>5, <1>6, <1>7

LEMMA EndIInv ==
    ASSUME IInv,
           \/ AllocRefuse \/ Clear \/ SearchFails \/ FreeFails \/ MergeDone \/ Return
           \/ \E o \in Owners : Write(o)
    PROVE  IInv'
  <1> USE DEF Finish, Goto, IInv, Sane, OnHeader, region
  <1>1. CASE AllocRefuse
    BY <1>1 DEF AllocRefuse
  <1>2. CASE Clear
    BY <1>2 DEF Clear
  <1>3. CASE SearchFails
    BY <1>3 DEF SearchFails
  <1>4. CASE FreeFails
    BY <1>4 DEF FreeFails
  <1>5. CASE MergeDone
    BY <1>5 DEF MergeDone
  <1>6. CASE Return
    BY <1>6 DEF Return, Idle
  <1>7. CASE \E o \in Owners : Write(o)
    BY <1>7 DEF Write
  <1> QED BY <1>1, <1>2, <1>3, <1>4, <1>5, <1>6, <1>7

LEMMA NextIInv == IInv /\ [Next]_vars => IInv'
  <1> SUFFICES ASSUME IInv, [Next]_vars PROVE IInv'
    OBVIOUS
  <1>1. CASE Next
    BY <1>1, CallIInv, ResetIInv, AllocSplitIInv, AllocWholeIInv, AllocExtendIInv,
       ResizeInPlaceIInv, FreeBlockIInv, AbsorbIInv, TrimIInv, WalkIInv, EndIInv
       DEF Next, Step
  <1>2. CASE UNCHANGED vars
    BY <1>2 DEF vars, region, IInv, Sane, OnHeader
  <1> QED BY <1>1, <1>2

(* The inductive invariant.                                                 *)
THEOREM Invariance == Spec => []IInv
  <1>1. Init => IInv
    BY InitIInv
  <1>2. IInv /\ [Next]_vars => IInv'
    BY NextIInv
  <1> QED BY <1>1, <1>2, PTL DEF Spec

LEMMA IInvTiled == IInv => Tiled
  <1> SUFFICES ASSUME IInv PROVE Tiled
    OBVIOUS
  <1>1. ASSUME NEW o \in DOMAIN header
        PROVE  /\ HeaderAt(o)
               /\ (o % 8) = 0
               /\ Behind(o) = used \/ Behind(o) \in DOMAIN header
               /\ \A p \in DOMAIN header : o < p => Behind(o) <= p
    <2>1. IsBlock(header, used, o) /\ used \in Nat /\ used <= capacity
      BY DEF IInv, Sane, Tiling
    <2>2. HeaderAt(o)
      BY <2>1 DEF IsBlock, HeaderAt
    <2> QED BY <2>1, <2>2 DEF IsBlock, Behind
  <1> QED BY <1>1 DEF Tiled, IInv, Tiling

(* For every memory and every program, the blocks tile the used part of the *)
(* arena at every step of every call, so the walks of alloc, free and       *)
(* realloc read headers and nothing else.                                   *)
THEOREM BlocksTile == Spec => []Tiled
  BY Invariance, IInvTiled, PTL

----------------------------------------------------------------------------
(* Holes.  While the second walk of free is under way, only the blocks it   *)
(* has passed are known to be apart.                                        *)
Limit == IF pc = "merge" THEN offset ELSE used
Settled(o) == IsHole(o) => Behind(o) < used /\ ~ IsHole(Behind(o))
HInv == IInv /\ \A o \in DOMAIN header : o < Limit => Settled(o)

LEMMA BlockFacts ==
    ASSUME Tiling(header, used), NEW o \in DOMAIN header
    PROVE  /\ used \in Nat /\ o \in Nat /\ o < used
           /\ header[o].span \in Nat /\ header[o].span >= 16
           /\ Behind(o) = o + header[o].span
           /\ Behind(o) = used \/ Behind(o) \in DOMAIN header
           /\ \A p \in DOMAIN header : o < p => Behind(o) <= p
  BY DEF Tiling, IsBlock, Behind

(* A step that writes no header keeps what is settled, if the limit does    *)
(* not grow.                                                                *)
LEMMA QuietHInv ==
    ASSUME HInv, IInv', UNCHANGED <<header, used>>, pc' # "merge", pc # "merge"
    PROVE  HInv'
  BY DEF HInv, Limit, Settled, IsHole, Behind

LEMMA SplitHInv == HInv /\ IInv' /\ AllocSplit => HInv'
  <1> SUFFICES ASSUME HInv, IInv', AllocSplit PROVE HInv'
    OBVIOUS
  <1> DEFINE n == offset + Span
  <1>1. offset \in DOMAIN header /\ ~ Unservable /\ IsHole(offset) /\ IInv
    BY DEF AllocSplit, Scanning, HeaderAt, Fits, HInv
  <1>2. Wanted > 0 /\ Wanted \in Nat /\ Span \in Nat /\ Span >= 16
    BY <1>1, SpanFacts
  <1>3. /\ offset \in Nat /\ header[offset].span \in Nat
        /\ header[offset].span - Span >= 16
        /\ Behind(offset) = offset + header[offset].span
        /\ \A p \in DOMAIN header : p \in Nat /\ (offset < p => Behind(offset) <= p)
        /\ \A p \in DOMAIN header : p < offset => Behind(p) <= offset
        /\ \A p \in DOMAIN header : Behind(p) = p + header[p].span /\ Behind(p) \in Nat
    BY <1>1, BlockFacts DEF AllocSplit, IInv
  <1>4. n \notin DOMAIN header /\ n # offset /\ n \in Nat
    BY <1>2, <1>3
  <1>5. /\ DOMAIN header' = DOMAIN header \cup {n}
        /\ header'[n].size = 0 /\ header'[n].span = header[offset].span - Span
        /\ header'[offset].size = Wanted
        /\ \A x \in DOMAIN header \ {offset} : header'[x] = header[x]
    BY <1>1, <1>4 DEF AllocSplit, Put
  <1>6. pc # "merge" /\ pc' # "merge" /\ used' = used
    BY DEF AllocSplit, Scanning, Place
  <1>7. \A p \in DOMAIN header : Settled(p)
    BY <1>6, <1>1, BlockFacts DEF HInv, Limit, IInv
  <1> HIDE DEF n
  <1>8. ASSUME NEW x \in DOMAIN header', IsHole(x)'
        PROVE  Behind(x)' < used' /\ ~ IsHole(Behind(x))'
    <2>1. x # offset
      BY <1>8, <1>5, <1>2 DEF IsHole
    <2>2. CASE x = n
      <3>1. Behind(x)' = Behind(offset)
        BY <2>2, <1>5, <1>3, <1>2 DEF Behind, n
      <3>2. Behind(offset) < used /\ ~ IsHole(Behind(offset))
        BY <1>7, <1>1 DEF Settled
      <3>3. Behind(offset) \in DOMAIN header \ {offset}
        BY <3>2, <1>1, <1>3, BlockFacts DEF IInv
      <3> QED BY <3>1, <3>2, <3>3, <1>5, <1>6 DEF IsHole
    <2>3. CASE x \in DOMAIN header \ {offset}
      <3>1. Behind(x)' = Behind(x) /\ IsHole(x)
        BY <2>3, <1>5, <1>8 DEF Behind, IsHole
      <3>2. Behind(x) < used /\ ~ IsHole(Behind(x))
        BY <3>1, <2>3, <1>7 DEF Settled
      <3>3. Behind(x) \in DOMAIN header
        BY <3>2, <2>3, <1>1, BlockFacts DEF IInv
      <3>4. Behind(x) # offset
        BY <3>2, <1>1
      <3> QED BY <3>1, <3>2, <3>3, <3>4, <1>5, <1>6 DEF IsHole
    <2> QED BY <2>1, <2>2, <2>3, <1>5
  <1> QED BY <1>8 DEF HInv, Settled

(* A hole that becomes a block, and a block that stays one.                 *)
LEMMA OccupyHInv ==
    ASSUME HInv, IInv', NEW o \in DOMAIN header, NEW size \in Nat, size > 0,
           header' = Put(header, o, size, header[o].span),
           used' = used, pc # "merge", pc' # "merge"
    PROVE  HInv'
  <1>1. /\ DOMAIN header' = DOMAIN header
        /\ header'[o].size = size
        /\ \A x \in DOMAIN header : header'[x].span = header[x].span
        /\ \A x \in DOMAIN header : x # o => header'[x] = header[x]
    BY DEF Put
  <1>2. \A p \in DOMAIN header : Settled(p)
    BY BlockFacts DEF HInv, IInv, Limit
  <1>3. ASSUME NEW x \in DOMAIN header, IsHole(x)'
        PROVE  Behind(x)' < used' /\ ~ IsHole(Behind(x))'
    <2>1. x # o /\ IsHole(x) /\ Behind(x)' = Behind(x)
      BY <1>3, <1>1 DEF IsHole, Behind
    <2>2. Behind(x) < used /\ ~ IsHole(Behind(x)) /\ Behind(x) \in DOMAIN header
      BY <2>1, <1>2, BlockFacts DEF Settled, HInv, IInv
    <2> QED BY <2>1, <2>2, <1>1 DEF IsHole
  <1> QED BY <1>1, <1>3 DEF HInv, Settled

LEMMA ExtendHInv == HInv /\ IInv' /\ AllocExtend => HInv'
  <1> SUFFICES ASSUME HInv, IInv', AllocExtend PROVE HInv'
    OBVIOUS
  <1>1. Wanted > 0 /\ Wanted \in Nat /\ Span \in Nat /\ Span >= 16 /\ used \in Nat
    BY SpanFacts DEF AllocExtend, HInv, IInv, Sane
  <1>2. pc # "merge" /\ pc' # "merge" /\ used' = used + Span
    BY DEF AllocExtend, Place
  <1>3. \A p \in DOMAIN header : Settled(p) /\ p \in Nat /\ p < used /\ Behind(p) \in Nat
    BY <1>2, BlockFacts DEF HInv, IInv, Limit
  <1>4. /\ DOMAIN header' = DOMAIN header \cup {used}
        /\ header'[used].size = Wanted
        /\ \A x \in DOMAIN header : header'[x] = header[x]
    BY <1>3 DEF AllocExtend, Put
  <1>5. ASSUME NEW x \in DOMAIN header', IsHole(x)'
        PROVE  Behind(x)' < used' /\ ~ IsHole(Behind(x))'
    <2>1. x \in DOMAIN header
      BY <1>5, <1>4, <1>1 DEF IsHole
    <2>2. IsHole(x) /\ Behind(x)' = Behind(x)
      BY <1>5, <2>1, <1>4 DEF IsHole, Behind
    <2>3. Behind(x) < used /\ ~ IsHole(Behind(x)) /\ Behind(x) \in DOMAIN header
      BY <2>1, <2>2, <1>3, BlockFacts DEF Settled, HInv, IInv
    <2>4. Behind(x) < used'
      BY <2>1, <2>3, <1>1, <1>2, <1>3
    <2> QED BY <2>2, <2>3, <2>4, <1>4 DEF IsHole
  <1> QED BY <1>5 DEF HInv, Settled

(* The second walk.                                                         *)
LEMMA SkipHInv == HInv /\ IInv' /\ MergeSkip => HInv'
  <1> SUFFICES ASSUME HInv, IInv', MergeSkip PROVE HInv'
    OBVIOUS
  <1>1. /\ offset \in DOMAIN header /\ IInv /\ header' = header /\ used' = used
        /\ pc = "merge" /\ pc' = "merge" /\ offset' = Behind(offset)
    BY DEF MergeSkip, Move, HInv, IInv, OnHeader, Sane
  <1>2. Settled(offset)
    BY DEF MergeSkip, Settled
  <1>3. ASSUME NEW x \in DOMAIN header, x < offset' PROVE Settled(x)
    <2>1. x < offset \/ x = offset
      BY <1>1, <1>3, BlockFacts DEF IInv
    <2> QED BY <2>1, <1>1, <1>2 DEF HInv, Limit
  <1> QED BY <1>1, <1>3 DEF HInv, Limit, Settled, IsHole, Behind

LEMMA AbsorbHInv == HInv /\ IInv' /\ Absorb => HInv'
  <1> SUFFICES ASSUME HInv, IInv', Absorb PROVE HInv'
    OBVIOUS
  <1> DEFINE n == Behind(offset)
  <1>1. /\ offset \in DOMAIN header /\ IInv /\ used' = used /\ IsHole(offset)
        /\ pc = "merge" /\ pc' = "merge" /\ offset' = offset
    BY DEF Absorb, AtHole, HInv, IInv, OnHeader, Sane
  <1>2. offset < n /\ n \in Nat /\ offset \in Nat
    BY <1>1, BlockFacts DEF IInv
  <1>3. /\ DOMAIN header' = DOMAIN header \ {n}
        /\ \A x \in DOMAIN header \ {n, offset} : header'[x] = header[x]
        /\ header'[offset].size = 0
    BY <1>1, <1>2 DEF Absorb, Put, Drop
  <1> HIDE DEF n
  <1>4. ASSUME NEW x \in DOMAIN header', x < offset PROVE Settled(x)'
    <2>1. x \in DOMAIN header \ {n, offset} /\ Settled(x) /\ x \in Nat
      BY <1>1, <1>2, <1>3, <1>4, BlockFacts DEF HInv, Limit, IInv
    <2>2. Behind(x)' = Behind(x) /\ (IsHole(x)' <=> IsHole(x))
      BY <2>1, <1>3 DEF Behind, IsHole
    <2>3. ASSUME IsHole(x) PROVE Behind(x) < used /\ header'[Behind(x)].size # 0
      <3>1. Behind(x) < used /\ ~ IsHole(Behind(x)) /\ Behind(x) \in DOMAIN header
        BY <2>1, <2>3, <1>1, BlockFacts DEF Settled, IInv
      <3>2. Behind(x) <= offset
        BY <2>1, <1>1, <1>4, BlockFacts DEF IInv
      <3>3. Behind(x) # offset /\ Behind(x) # n
        BY <3>1, <3>2, <1>1, <1>2
      <3> QED BY <3>1, <3>3, <1>3 DEF IsHole
    <2> QED BY <2>2, <2>3, <1>1 DEF Settled, IsHole
  <1> QED BY <1>1, <1>4 DEF HInv, Limit

LEMMA TrimHInv == HInv /\ IInv' /\ Trim => HInv'
  <1> SUFFICES ASSUME HInv, IInv', Trim PROVE HInv'
    OBVIOUS
  <1>1. /\ offset \in DOMAIN header /\ IInv /\ used' = offset /\ IsHole(offset)
        /\ pc = "merge" /\ pc' # "merge" /\ offset \in Nat
    BY DEF Trim, AtHole, Finish, Goto, HInv, IInv, OnHeader, Sane
  <1>2. /\ DOMAIN header' = DOMAIN header \ {offset}
        /\ \A x \in DOMAIN header \ {offset} : header'[x] = header[x]
    BY DEF Trim, Drop
  <1>3. ASSUME NEW x \in DOMAIN header', x < offset PROVE Settled(x)'
    <2>1. x \in DOMAIN header \ {offset} /\ Settled(x) /\ x \in Nat
      BY <1>1, <1>2, <1>3, BlockFacts DEF HInv, Limit, IInv
    <2>2. Behind(x)' = Behind(x) /\ (IsHole(x)' <=> IsHole(x))
      BY <2>1, <1>2 DEF Behind, IsHole
    <2>3. ASSUME IsHole(x) PROVE Behind(x) < offset /\ header'[Behind(x)].size # 0
      <3>1. ~ IsHole(Behind(x)) /\ Behind(x) \in DOMAIN header
        BY <2>1, <2>3, <1>1, BlockFacts DEF Settled, IInv
      <3>2. Behind(x) <= offset /\ Behind(x) \in Nat
        BY <2>1, <1>1, <1>3, <3>1, BlockFacts DEF IInv
      <3>3. Behind(x) # offset
        BY <3>1, <1>1
      <3> QED BY <3>1, <3>2, <3>3, <1>1, <1>2 DEF IsHole
    <2> QED BY <2>2, <2>3, <1>1 DEF Settled, IsHole
  <1> QED BY <1>1, <1>3 DEF HInv, Limit

LEMMA StepHInv == HInv /\ IInv' /\ Step => HInv'
  <1> SUFFICES ASSUME HInv, IInv', Step PROVE HInv'
    OBVIOUS
  <1> USE DEF Finish, Goto, region
  <1>1. CASE AllocRefuse
    BY <1>1, QuietHInv DEF AllocRefuse
  <1>2. CASE AllocSkip
    BY <1>2, QuietHInv DEF AllocSkip, Scanning
  <1>3. CASE AllocSplit
    BY <1>3, SplitHInv
  <1>4. CASE AllocWhole
    <2>1. offset \in DOMAIN header /\ Wanted \in Nat /\ Wanted > 0
      BY <1>4, SpanFacts DEF AllocWhole, Scanning, HeaderAt, HInv
    <2>2. used' = used /\ pc # "merge" /\ pc' # "merge"
      BY <1>4 DEF AllocWhole, Scanning, Place
    <2> QED BY <1>4, <2>1, <2>2, OccupyHInv DEF AllocWhole
  <1>5. CASE AllocExtend
    BY <1>5, ExtendHInv
  <1>6. CASE Clear
    BY <1>6, QuietHInv DEF Clear
  <1>7. CASE SearchFails \/ SearchSkip \/ SearchFrees \/ ResizeMoves
    BY <1>7, QuietHInv
       DEF SearchFails, SearchSkip, SearchFrees, ResizeMoves, Searching, AtBlock
  <1>8. CASE ResizeInPlace
    <2>1. offset \in DOMAIN header /\ call.size \in Nat /\ call.size > 0
      BY <1>8 DEF ResizeInPlace, AtBlock, Searching, HeaderAt, HInv, IInv, Sane
    <2>2. used' = used /\ pc # "merge" /\ pc' # "merge"
      BY <1>8 DEF ResizeInPlace, AtBlock, Searching
    <2> QED BY <1>8, <2>1, <2>2, OccupyHInv DEF ResizeInPlace
  <1>9. CASE Copy \/ FreeFails \/ FindStep
    BY <1>9, QuietHInv DEF Copy, FreeFails, FindStep
  <1>10. CASE FreeBlock
    <2>1. pc' = "merge" /\ offset' = 0
      BY <1>10 DEF FreeBlock, Move
    <2>2. \A x \in DOMAIN header' : x \in Nat
      BY BlockFacts DEF IInv, Tiling, IsBlock
    <2> QED BY <2>1, <2>2 DEF HInv, Limit
  <1>11. CASE MergeDone
    <2>1. /\ UNCHANGED <<header, used>> /\ pc = "merge" /\ pc' # "merge" /\ offset >= used
          /\ used \in Nat /\ offset \in Nat
      BY <1>11 DEF MergeDone, HInv, IInv, Sane
    <2>2. \A x \in DOMAIN header : x < used => x < offset
      BY <2>1, BlockFacts DEF HInv, IInv
    <2> QED BY <2>1, <2>2 DEF HInv, Limit, Settled, IsHole, Behind
  <1>12. CASE MergeSkip
    BY <1>12, SkipHInv
  <1>13. CASE Absorb
    BY <1>13, AbsorbHInv
  <1>14. CASE Trim
    BY <1>14, TrimHInv
  <1>15. CASE Return
    BY <1>15, QuietHInv DEF Return
  <1> QED BY <1>1, <1>2, <1>3, <1>4, <1>5, <1>6, <1>7, <1>8, <1>9, <1>10, <1>11,
             <1>12, <1>13, <1>14, <1>15 DEF Step

LEMMA NextHInv == HInv /\ IInv' /\ [Next]_vars => HInv'
  <1> SUFFICES ASSUME HInv, IInv', [Next]_vars PROVE HInv'
    OBVIOUS
  <1>1. CASE Call
    <2>1. UNCHANGED <<header, used>> /\ pc # "merge" /\ pc' # "merge"
      BY <1>1 DEF Call, CallAlloc, CallCalloc, CallFree, CallRealloc, Asks
    <2> QED BY <2>1, QuietHInv
  <1>2. CASE Reset
    BY <1>2 DEF Reset, HInv
  <1>3. CASE \E o \in Owners : Write(o)
    BY <1>3, QuietHInv DEF Write
  <1>4. CASE Step
    BY <1>4, StepHInv
  <1>5. CASE UNCHANGED vars
    BY <1>5 DEF vars, HInv, Limit, Settled, IsHole, Behind
  <1> QED BY <1>1, <1>2, <1>3, <1>4, <1>5 DEF Next

(* For every memory and every program, the second walk of free leaves no    *)
(* two holes side by side and none at the end, and nothing else makes one.  *)
THEOREM HolesStayApart == Spec => []HolesApart
  <1>1. Init => HInv
    BY InitIInv DEF Init, HInv
  <1>2. HInv /\ [Next]_vars => HInv'
    <2>1. HInv /\ [Next]_vars => IInv'
      BY NextIInv DEF HInv
    <2> QED BY <2>1, NextHInv
  <1>3. HInv => HolesApart
    BY BlockFacts DEF HInv, IInv, HolesApart, Limit, Settled
  <1> QED BY <1>1, <1>2, <1>3, PTL DEF Spec

----------------------------------------------------------------------------
(* Who has which block.  A block in use is the storage of an owner or the   *)
(* one that the call is about to return; Gone are the blocks the call gives *)
(* back, InPlace is the one it gave another size.                           *)
Stored(h, b, p, s) == \E x \in DOMAIN h : p = b + x + 8 /\ h[x].size = s /\ s # 0

Made == result # 0 /\ call.op # "free" /\ result # call.pointer
Gone(o) ==
    /\ o = call.owner
    /\ \/ pc = "merge"
       \/ pc = "return" /\ call.op = "free"
       \/ pc = "return" /\ call.op = "realloc" /\ call.pointer # 0 /\ (call.size = 0 \/ Made)
InPlace(o) == o = call.owner /\ pc = "return" /\ result # 0 /\ result = call.pointer
Has(o) == Held(o) /\ ~ Gone(o)
SizeOf(o) == IF InPlace(o) THEN Wanted ELSE live[o].size
Claims(p) == \/ \E o \in Owners : Has(o) /\ live[o].at = p
             \/ Made /\ result = p

(* Every owner has a block of the size it knows, the call has the block it  *)
(* made, no other block is in use and no block has two owners.              *)
Owned ==
    /\ \A o \in Owners : Has(o) => Stored(header, base, live[o].at, SizeOf(o))
    /\ Made => Stored(header, base, result, Wanted)
    /\ \A p, s : Stored(header, base, p, s) => Claims(p)
    /\ \A o, q \in Owners : Held(o) /\ live[o].at = live[q].at => o = q
    /\ Made => \A o \in Owners : live[o].at # result

(* What the arguments of a call and the memory look like.                   *)
Fresh == call.pointer = 0
Grows == call.size > live[call.owner].size

Shape ==
    /\ DOMAIN cells = 0..(capacity \div 8) - 1
    /\ base = 0 => capacity = 0
    /\ live \in [Owners -> [at : Nat, size : Nat]]
    /\ \A o \in Owners : ~ Held(o) => live[o] = Nowhere
    /\ pc = "idle" => call = Idle /\ result = 0
    /\ pc # "idle" =>
         /\ call.op \in {"alloc", "calloc", "realloc", "free"}
         /\ call.op \in {"alloc", "realloc"} => call.count = 1 /\ call.size < Word
         /\ call.owner \in Owners \cup {"nobody"}
         /\ Fresh => call.op # "free" /\ call.owner \in Owners /\ ~ Held(call.owner)
         /\ ~ Fresh =>
              /\ call.op \in {"free", "realloc"}
              /\ \A o \in Owners : live[o].at = call.pointer <=> o = call.owner

(* What brought a call to the loop it is in, and to the result it has.      *)
Releases ==
    /\ ~ Fresh
    /\ Made => call.owner \in Owners /\ Grows
    /\ ~ Made => result = 0 /\ (call.op = "free" \/ (call.size = 0 /\ call.owner \in Owners))

Exhausted == Span > capacity - used /\ \A x \in DOMAIN header : ~ Fits(x)

Stage ==
    /\ pc = "alloc" => /\ result = 0 /\ call.op # "free" /\ call.owner \in Owners
                       /\ ~ Fresh => Grows
    /\ pc = "clear" => Made /\ call.op = "calloc"
    /\ pc = "search" => ~ Fresh /\ call.op = "realloc" /\ result = 0
    /\ pc = "copy" => Made /\ ~ Fresh /\ Grows
    /\ pc = "find" => Releases
    /\ pc = "merge" => Releases /\ call.owner \in Owners
    /\ pc = "return" /\ call.op = "free" => result = IF call.owner = "nobody" THEN 1 ELSE 0
    /\ pc = "return" /\ call.op # "free" /\ result = 0 /\ call.owner # "nobody" =>
         /\ Unservable \/ Exhausted
         /\ ~ Fresh => call.size = 0 \/ Grows
    /\ result # 0 /\ call.op # "free" => call.owner \in Owners /\ Wanted = call.count * call.size
    /\ pc = "return" /\ Made /\ ~ Fresh => Grows

(* What the walks have passed: no hole that would do, and the block that is *)
(* looked for only when it is remembered.                                   *)
Walk ==
    /\ pc = "alloc" /\ ~ Unservable => \A x \in DOMAIN header : x < offset => ~ Fits(x)
    /\ pc \in {"search", "find"} =>
         \A x \in DOMAIN header : x < offset /\ Pointer(x) = call.pointer => found = x + 1
    /\ pc = "find" /\ found # 0 => Pointer(found - 1) = call.pointer /\ ~ IsHole(found - 1)

(* What calloc and realloc have put into the block they return.             *)
Zeroed == pc = "return" /\ call.op = "calloc" /\ Made =>
             \A c \in Storage(result, Wanted) : cells[c] = "zero"
Copied == pc \in {"find", "merge", "return"} /\ Made /\ ~ Fresh =>
             \A i \in 0..CellsOf(live[call.owner].size) - 1 :
                 cells[Cell(result) + i] = cells[Cell(call.pointer) + i]

(* Blocks have one address, and addresses in use one size.                  *)
LEMMA PointerFacts ==
    ASSUME IInv, NEW x \in DOMAIN header
    PROVE  /\ base \in Nat /\ x \in Nat /\ Pointer(x) \in Nat /\ Pointer(x) # 0
           /\ \A y \in Nat : Pointer(y) = Pointer(x) => y = x
  <1>1. x \in Nat /\ base \in Nat
    BY DEF IInv, Sane, Tiling, IsBlock
  <1> QED BY <1>1 DEF Pointer

LEMMA StoredFacts ==
    ASSUME IInv, NEW p, NEW s, Stored(header, base, p, s)
    PROVE  /\ p \in Nat /\ p # 0 /\ s \in Nat /\ s # 0
           /\ \A t : Stored(header, base, p, t) => t = s
  <1>1. PICK x \in DOMAIN header : p = Pointer(x) /\ header[x].size = s /\ s # 0
    BY DEF Stored, Pointer
  <1>2. \A y \in DOMAIN header : Pointer(y) = p => y = x
    BY <1>1, PointerFacts
  <1>3. s \in Nat
    BY <1>1 DEF IInv, Tiling, IsBlock
  <1>4. \A y \in DOMAIN header : p = base + y + 8 => y = x
    BY <1>2 DEF Pointer
  <1> QED BY <1>1, <1>3, <1>4, PointerFacts DEF Stored

(* What a step can do to the blocks in use.                                 *)
Keeps == \A p, s : Stored(header', base', p, s) <=> Stored(header, base, p, s)
Adds == /\ \A p, s : Stored(header', base', p, s) <=>
                        Stored(header, base, p, s) \/ (p = result' /\ s = Wanted)
        /\ \A s : ~ Stored(header, base, result', s)
Removes == \A p, s : Stored(header', base', p, s) <=> Stored(header, base, p, s) /\ p # call.pointer
Replaces == \A p, s : Stored(header', base', p, s) <=>
                        \/ Stored(header, base, p, s) /\ p # call.pointer
                        \/ p = call.pointer /\ s = Wanted

LEMMA QuietStored == ASSUME UNCHANGED <<header, base>> PROVE Keeps
  BY DEF Keeps, Stored, Pointer

LEMMA SplitStored == ASSUME IInv, AllocSplit PROVE Adds
  <1> DEFINE n == offset + Span
  <1>1. offset \in DOMAIN header /\ ~ Unservable /\ header[offset].size = 0
    BY DEF AllocSplit, Scanning, HeaderAt, Fits, IsHole
  <1>2. Wanted > 0 /\ Wanted \in Nat /\ Span \in Nat /\ Span >= 16
    BY <1>1, SpanFacts
  <1>3. /\ offset \in Nat /\ header[offset].span \in Nat
        /\ header[offset].span - Span >= 16
        /\ \A p \in DOMAIN header : p \in Nat /\ (offset < p => offset + header[offset].span <= p)
    BY <1>1, BlockFacts DEF AllocSplit, IInv
  <1>4. n \notin DOMAIN header /\ n # offset
    BY <1>2, <1>3
  <1>5. /\ DOMAIN header' = DOMAIN header \cup {n}
        /\ header'[n].size = 0
        /\ header'[offset].size = Wanted
        /\ \A x \in DOMAIN header \ {offset} : header'[x] = header[x]
    BY <1>1, <1>4 DEF AllocSplit, Put
  <1>6. base' = base /\ result' = Pointer(offset)
    BY DEF AllocSplit, Place, region
  <1> HIDE DEF n
  <1>7. \A s : ~ Stored(header, base, result', s)
    <2>1. \A y \in DOMAIN header : result' = base + y + 8 => y = offset
      BY <1>1, <1>6, PointerFacts DEF Pointer
    <2> QED BY <2>1, <1>1 DEF Stored
  <1>8. ASSUME NEW p, NEW s
        PROVE  Stored(header', base', p, s) <=> Stored(header, base, p, s) \/ (p = result' /\ s = Wanted)
    BY <1>1, <1>2, <1>4, <1>5, <1>6 DEF Stored, Pointer
  <1> QED BY <1>7, <1>8 DEF Adds

LEMMA WholeStored == ASSUME IInv, AllocWhole PROVE Adds
  <1>1. offset \in DOMAIN header /\ ~ Unservable /\ header[offset].size = 0
    BY DEF AllocWhole, Scanning, HeaderAt, Fits, IsHole
  <1>2. Wanted > 0 /\ Wanted \in Nat
    BY <1>1, SpanFacts
  <1>5. /\ DOMAIN header' = DOMAIN header
        /\ header'[offset].size = Wanted
        /\ \A x \in DOMAIN header \ {offset} : header'[x] = header[x]
    BY <1>1 DEF AllocWhole, Put
  <1>6. base' = base /\ result' = Pointer(offset)
    BY DEF AllocWhole, Place, region
  <1>7. \A s : ~ Stored(header, base, result', s)
    <2>1. \A y \in DOMAIN header : result' = base + y + 8 => y = offset
      BY <1>1, <1>6, PointerFacts DEF Pointer
    <2> QED BY <2>1, <1>1 DEF Stored
  <1>8. ASSUME NEW p, NEW s
        PROVE  Stored(header', base', p, s) <=> Stored(header, base, p, s) \/ (p = result' /\ s = Wanted)
    BY <1>1, <1>2, <1>5, <1>6 DEF Stored, Pointer
  <1> QED BY <1>7, <1>8 DEF Adds

LEMMA ExtendStored == ASSUME IInv, AllocExtend PROVE Adds
  <1>1. ~ Unservable /\ used \in Nat /\ \A x \in DOMAIN header : x \in Nat /\ x < used
    BY BlockFacts DEF AllocExtend, IInv, Sane
  <1>2. Wanted > 0 /\ Wanted \in Nat
    BY <1>1, SpanFacts
  <1>5. /\ DOMAIN header' = DOMAIN header \cup {used}
        /\ header'[used].size = Wanted
        /\ \A x \in DOMAIN header : header'[x] = header[x]
    BY <1>1 DEF AllocExtend, Put
  <1>6. base' = base /\ result' = Pointer(used)
    BY DEF AllocExtend, Place, region
  <1>7. \A s : ~ Stored(header, base, result', s)
    <2>1. \A y \in DOMAIN header : result' # base + y + 8
      BY <1>1, <1>6, PointerFacts DEF Pointer
    <2> QED BY <2>1 DEF Stored
  <1>8. ASSUME NEW p, NEW s
        PROVE  Stored(header', base', p, s) <=> Stored(header, base, p, s) \/ (p = result' /\ s = Wanted)
    BY <1>1, <1>2, <1>5, <1>6 DEF Stored, Pointer
  <1> QED BY <1>7, <1>8 DEF Adds

LEMMA FreeStored == ASSUME IInv, Walk, FreeBlock PROVE Removes
  <1> DEFINE o == found - 1
  <1>1. o \in DOMAIN header /\ Pointer(o) = call.pointer /\ base' = base
    BY DEF FreeBlock, IInv, OnHeader, Walk, region
  <1>2. /\ DOMAIN header' = DOMAIN header
        /\ header'[o].size = 0
        /\ \A x \in DOMAIN header \ {o} : header'[x] = header[x]
    BY <1>1 DEF FreeBlock, Put
  <1> HIDE DEF o
  <1>3. \A x \in DOMAIN header : base + x + 8 = call.pointer <=> x = o
    BY <1>1, PointerFacts DEF Pointer
  <1>4. ASSUME NEW p, NEW s
        PROVE  Stored(header', base', p, s) <=> Stored(header, base, p, s) /\ p # call.pointer
    BY <1>1, <1>2, <1>3 DEF Stored
  <1> QED BY <1>4 DEF Removes

LEMMA AbsorbStored == ASSUME IInv, Absorb PROVE Keeps
  <1> DEFINE n == Behind(offset)
  <1>1. offset \in DOMAIN header /\ header[offset].size = 0 /\ base' = base
    BY DEF Absorb, AtHole, IsHole, IInv, OnHeader, Sane, region
  <1>2. n \in DOMAIN header /\ n # offset /\ header[n].size = 0
    BY <1>1, BlockFacts DEF Absorb, IsHole, IInv
  <1>3. /\ DOMAIN header' = DOMAIN header \ {n}
        /\ \A x \in DOMAIN header \ {n, offset} : header'[x] = header[x]
        /\ header'[offset].size = 0
    BY <1>1, <1>2 DEF Absorb, Put, Drop
  <1> HIDE DEF n
  <1>4. ASSUME NEW p, NEW s PROVE Stored(header', base', p, s) <=> Stored(header, base, p, s)
    BY <1>1, <1>2, <1>3 DEF Stored
  <1> QED BY <1>4 DEF Keeps

LEMMA TrimStored == ASSUME IInv, Trim PROVE Keeps
  <1>1. offset \in DOMAIN header /\ header[offset].size = 0 /\ base' = base
    BY DEF Trim, AtHole, IsHole, IInv, OnHeader, Sane, region
  <1>2. /\ DOMAIN header' = DOMAIN header \ {offset}
        /\ \A x \in DOMAIN header \ {offset} : header'[x] = header[x]
    BY DEF Trim, Drop
  <1>4. ASSUME NEW p, NEW s PROVE Stored(header', base', p, s) <=> Stored(header, base, p, s)
    BY <1>1, <1>2 DEF Stored
  <1> QED BY <1>4 DEF Keeps

(* realloc asks for one object, so its product does not wrap.               *)
LEMMA OneObject ==
    ASSUME IInv, Shape, pc # "idle", call.op \in {"alloc", "realloc"}
    PROVE  Wanted = call.size /\ Wanted = call.count * call.size
  <1>1. call.count = 1 /\ call.size \in Nat /\ call.size < Word
    BY DEF Shape, IInv, Sane
  <1>2. call.count * call.size = call.size
    BY <1>1
  <1>3. call.size % Word = call.size
    BY <1>1, WordAssumption
  <1> QED BY <1>2, <1>3 DEF Wanted, Product

LEMMA ResizeStored == ASSUME IInv, Shape, Stage, ResizeInPlace PROVE Replaces
  <1>1. /\ offset \in DOMAIN header /\ Pointer(offset) = call.pointer /\ base' = base
        /\ header[offset].size # 0 /\ call.size # 0 /\ pc = "search"
    BY DEF ResizeInPlace, AtBlock, Searching, HeaderAt, IsHole, region
  <1>2. Wanted = call.size
    BY <1>1, OneObject DEF Stage
  <1>3. /\ DOMAIN header' = DOMAIN header
        /\ header'[offset].size = Wanted
        /\ \A x \in DOMAIN header \ {offset} : header'[x] = header[x]
    BY <1>1, <1>2 DEF ResizeInPlace, Put
  <1>4. \A x \in DOMAIN header : base + x + 8 = call.pointer <=> x = offset
    BY <1>1, PointerFacts DEF Pointer
  <1>5. ASSUME NEW p, NEW s
        PROVE  Stored(header', base', p, s) <=> \/ Stored(header, base, p, s) /\ p # call.pointer
                                                \/ p = call.pointer /\ s = Wanted
    BY <1>1, <1>2, <1>3, <1>4 DEF Stored
  <1> QED BY <1>5 DEF Replaces

----------------------------------------------------------------------------
LEMMA SameOwned ==
    ASSUME Owned, Keeps, live' = live,
           Made' <=> Made, Made => result' = result /\ Wanted' = Wanted,
           \A o \in Owners : (Gone(o)' <=> Gone(o)) /\ ~ InPlace(o) /\ ~ InPlace(o)'
    PROVE  Owned'
  <1>1. ASSUME NEW o \in Owners
        PROVE  (Has(o)' <=> Has(o)) /\ SizeOf(o)' = SizeOf(o)
    BY DEF Has, Held, SizeOf
  <1>2. ASSUME NEW p PROVE Claims(p)' <=> Claims(p)
    BY <1>1 DEF Claims
  <1>3. \A o \in Owners : Has(o)' => Stored(header', base', live'[o].at, SizeOf(o)')
    BY <1>1 DEF Owned, Keeps
  <1>4. Made' => Stored(header', base', result', Wanted')
    BY DEF Owned, Keeps
  <1>5. \A p, s : Stored(header', base', p, s) => Claims(p)'
    BY <1>2 DEF Owned, Keeps
  <1>6. /\ \A o, q \in Owners : Held(o)' /\ live'[o].at = live'[q].at => o = q
        /\ Made' => \A o \in Owners : live'[o].at # result'
    BY DEF Owned, Held
  <1> QED BY <1>3, <1>4, <1>5, <1>6 DEF Owned

LEMMA NewOwned ==
    ASSUME Owned, Adds, live' = live, ~ Made, Made', Wanted' = Wanted,
           \A o \in Owners : ~ Gone(o) /\ ~ Gone(o)' /\ ~ InPlace(o) /\ ~ InPlace(o)'
    PROVE  Owned'
  <1>1. ASSUME NEW o \in Owners
        PROVE  (Has(o)' <=> Has(o)) /\ (Has(o) <=> Held(o)) /\ SizeOf(o)' = SizeOf(o)
    BY DEF Has, Held, SizeOf
  <1>2. ASSUME NEW p PROVE Claims(p)' <=> Claims(p) \/ p = result'
    BY <1>1 DEF Claims
  <1>3. \A o \in Owners : Has(o)' => Stored(header', base', live'[o].at, SizeOf(o)')
    BY <1>1 DEF Owned, Adds
  <1>4. Stored(header', base', result', Wanted')
    BY DEF Adds
  <1>5. \A p, s : Stored(header', base', p, s) => Claims(p)'
    BY <1>2 DEF Owned, Adds
  <1>6. ASSUME NEW o \in Owners PROVE live'[o].at # result'
    <2>1. CASE Held(o)
      BY <2>1, <1>1 DEF Owned, Adds
    <2>2. CASE ~ Held(o)
      BY <2>2 DEF Held, Made
    <2> QED BY <2>1, <2>2
  <1>7. \A o, q \in Owners : Held(o)' /\ live'[o].at = live'[q].at => o = q
    BY DEF Owned, Held
  <1> QED BY <1>3, <1>4, <1>5, <1>6, <1>7 DEF Owned

(* Who a pointer belongs to.                                                *)
LEMMA OwnerOf ==
    ASSUME Owned, Shape, ~ Fresh, pc # "idle", NEW s, Stored(header, base, call.pointer, s)
    PROVE  call.owner \in Owners
  <1>1. Claims(call.pointer)
    BY DEF Owned
  <1>2. ~ (Made /\ result = call.pointer)
    BY DEF Made
  <1> QED BY <1>1, <1>2 DEF Claims, Shape

LEMMA FreedOwned ==
    ASSUME Owned, Shape, Stage, Removes, call.owner \in Owners, ~ Fresh,
           live' = live, call' = call, result' = result, pc = "find", pc' = "merge"
    PROVE  Owned'
  <1>1. Wanted' = Wanted /\ (Made' <=> Made)
    BY DEF Wanted, Made
  <1>2. ASSUME NEW o \in Owners
        PROVE  /\ Has(o)' <=> Has(o) /\ o # call.owner
               /\ Has(o) <=> Held(o)
               /\ SizeOf(o)' = SizeOf(o)
               /\ live[o].at = call.pointer <=> o = call.owner
    BY DEF Has, Held, SizeOf, Gone, InPlace, Shape
  <1>3. ASSUME NEW p PROVE Claims(p)' <=> Claims(p) /\ p # call.pointer
    <2>1. Made => result # call.pointer
      BY DEF Made
    <2> QED BY <1>1, <1>2, <2>1 DEF Claims
  <1>4. \A o \in Owners : Has(o)' => Stored(header', base', live'[o].at, SizeOf(o)')
    BY <1>2 DEF Owned, Removes
  <1>5. Made' => Stored(header', base', result', Wanted')
    BY <1>1 DEF Owned, Removes, Made
  <1>6. \A p, s : Stored(header', base', p, s) => Claims(p)'
    BY <1>3 DEF Owned, Removes
  <1>7. /\ \A o, q \in Owners : Held(o)' /\ live'[o].at = live'[q].at => o = q
        /\ Made' => \A o \in Owners : live'[o].at # result'
    BY <1>1 DEF Owned, Held
  <1> QED BY <1>4, <1>5, <1>6, <1>7 DEF Owned

LEMMA ResizedOwned ==
    ASSUME Owned, Shape, Replaces, call.owner \in Owners, ~ Fresh, result = 0,
           call.op = "realloc", call.size # 0, Wanted = call.size,
           live' = live, call' = call, result' = call.pointer, pc = "search", pc' = "return"
    PROVE  Owned'
  <1>1. Wanted' = Wanted /\ ~ Made /\ ~ Made'
    BY DEF Wanted, Made
  <1>2. ASSUME NEW o \in Owners
        PROVE  /\ Has(o)' <=> Has(o)
               /\ Has(o) <=> Held(o)
               /\ SizeOf(o)' = IF o = call.owner THEN Wanted ELSE SizeOf(o)
               /\ live[o].at = call.pointer <=> o = call.owner
    BY <1>1 DEF Has, Held, SizeOf, Gone, InPlace, Shape, Fresh
  <1>3. ASSUME NEW p PROVE Claims(p)' <=> Claims(p)
    BY <1>1, <1>2 DEF Claims
  <1>4. \A o \in Owners : Has(o)' => Stored(header', base', live'[o].at, SizeOf(o)')
    BY <1>2 DEF Owned, Replaces
  <1>5. Held(call.owner) /\ live[call.owner].at = call.pointer
    BY <1>2 DEF Held, Fresh
  <1>6. \A p, s : Stored(header', base', p, s) => Claims(p)'
    <2>1. Claims(call.pointer)
      BY <1>2, <1>5 DEF Claims
    <2> QED BY <1>3, <2>1 DEF Owned, Replaces
  <1>7. \A o, q \in Owners : Held(o)' /\ live'[o].at = live'[q].at => o = q
    BY DEF Owned, Held
  <1> QED BY <1>1, <1>4, <1>6, <1>7 DEF Owned

----------------------------------------------------------------------------
OwnInv == IInv /\ Shape /\ Owned /\ Stage /\ Walk

LEMMA AtHeader ==
    ASSUME IInv, pc \in {"alloc", "search", "find", "merge"}, offset < used
    PROVE  offset \in DOMAIN header /\ HeaderAt(offset)
  <1>1. offset \in DOMAIN header
    BY DEF IInv, Sane, OnHeader
  <1> QED BY <1>1, IInvTiled DEF Tiled

LEMMA Passed ==
    ASSUME IInv, offset \in DOMAIN header, NEW x \in DOMAIN header
    PROVE  /\ x < Behind(offset) <=> x < offset \/ x = offset
           /\ x < used
  BY BlockFacts DEF IInv

(* A step of a call leaves what the call is.                                *)
Within == /\ pc # "idle" /\ pc' # "idle"
          /\ UNCHANGED <<base, capacity, live, call>>

LEMMA WithinShape ==
    ASSUME Shape, Within, DOMAIN cells' = DOMAIN cells
    PROVE  Shape'
  BY DEF Shape, Within, Held, Fresh

LEMMA WithinSame ==
    ASSUME Within
    PROVE  /\ Wanted' = Wanted /\ Span' = Span
           /\ used' = used => (Unservable' <=> Unservable)
           /\ Fresh' <=> Fresh
           /\ Grows' <=> Grows
  BY DEF Within, Wanted, Span, Unservable, Overflows, Fresh, Grows

LEMMA GrowsFacts ==
    ASSUME IInv, Shape, call.owner \in Owners, Grows
    PROVE  call.size # 0
  <1>1. live[call.owner].size \in Nat /\ call.size \in Nat
    BY DEF Shape, IInv, Sane
  <1> QED BY <1>1 DEF Grows

LEMMA Quotients ==
    ASSUME NEW n \in Nat, NEW m \in Nat, NEW w \in Nat, m # 0, n <= w \div m
    PROVE  n * m <= w
  <1> DEFINE q == w \div m
  <1>1. q \in Nat /\ m * q <= w
    OBVIOUS
  <1> HIDE DEF q
  <1>2. n <= q
    BY DEF q
  <1>3. m * n <= m * q
    BY <1>1, <1>2
  <1>4. n * m = m * n
    OBVIOUS
  <1> QED BY <1>1, <1>3, <1>4

(* A request that is served is for what its product is.                     *)
LEMMA NoOverflow ==
    ASSUME IInv, Shape, pc # "idle", call.op # "free", ~ Unservable
    PROVE  Wanted = call.count * call.size
  <1>1. CASE call.op \in {"alloc", "realloc"}
    BY <1>1, OneObject
  <1>2. CASE call.op = "calloc"
    <2>1. call.count \in Nat /\ call.size \in Nat /\ Word \in Nat /\ Word - 1 \in Nat
      BY WordAssumption DEF IInv, Sane
    <2>2. call.size # 0 => call.count <= (Word - 1) \div call.size
      <3> SUFFICES ASSUME call.size # 0 PROVE call.count <= (Word - 1) \div call.size
        OBVIOUS
      <3>1. ~ (call.count > (Word - 1) \div call.size)
        BY <1>2 DEF Unservable, Overflows
      <3>2. (Word - 1) \div call.size \in Int
        BY <2>1
      <3> QED BY <3>1, <3>2, <2>1
    <2>3. call.count * call.size \in Nat /\ call.count * call.size <= Word - 1
      <3>1. CASE call.size = 0
        BY <3>1, <2>1
      <3>2. CASE call.size # 0
        <4>1. call.count * call.size <= Word - 1
          BY <3>2, <2>1, <2>2, Quotients
        <4> QED BY <4>1, <2>1
      <3> QED BY <3>1, <3>2
    <2> DEFINE t == call.count * call.size
    <2>4. t % Word = t
      <3> HIDE DEF t
      <3>1. t \in Nat /\ t <= Word - 1
        BY <2>3 DEF t
      <3> QED BY <3>1, WordAssumption
    <2> QED BY <2>4 DEF Wanted, Product
  <1> QED BY <1>1, <1>2 DEF Shape

Own == Shape /\ Owned /\ Stage /\ Walk

LEMMA OwnAllocRefuse == ASSUME OwnInv, AllocRefuse PROVE Own'
  <1> USE DEF OwnInv
  <1>1. /\ Within /\ pc = "alloc" /\ pc' = "return" /\ result = 0 /\ result' = 0
        /\ UNCHANGED <<header, used, cells, offset, found>>
        /\ call.op # "free" /\ call.owner \in Owners /\ (~ Fresh => Grows)
    BY DEF AllocRefuse, Finish, Goto, Within, region, Stage
  <1>2. Unservable' \/ Exhausted'
    <2>1. CASE Unservable
      BY <2>1, <1>1, WithinSame
    <2>2. CASE ~ Unservable
      <3>1. offset >= used /\ Span > capacity - used
        BY <2>2, <1>1, AtHeader DEF AllocRefuse
      <3>2. \A x \in DOMAIN header : x < offset
        BY <3>1, BlockFacts DEF IInv, Sane
      <3>3. \A x \in DOMAIN header : ~ Fits(x)
        BY <2>2, <3>2, <1>1 DEF Walk
      <3> QED BY <3>1, <3>3, <1>1, WithinSame DEF Exhausted, Fits, IsHole, Within
    <2> QED BY <2>1, <2>2
  <1>3. Shape'
    BY <1>1, WithinShape
  <1>4. ~ Fresh => call.size # 0
    BY <1>1, GrowsFacts
  <1>5. Owned'
    <2>1. Keeps /\ ~ Made /\ ~ Made'
      BY <1>1, QuietStored DEF Within, Made
    <2>2. \A o \in Owners : ~ Gone(o) /\ ~ Gone(o)' /\ ~ InPlace(o) /\ ~ InPlace(o)'
      BY <1>1, <1>4, <2>1 DEF Gone, InPlace, Within, Fresh
    <2> QED BY <1>1, <2>1, <2>2, SameOwned DEF Within
  <1>6. Stage'
    BY <1>1, <1>2, WithinSame DEF Stage, Within, Made
  <1>7. Walk'
    BY <1>1 DEF Walk
  <1> QED BY <1>3, <1>5, <1>6, <1>7 DEF Own

LEMMA OwnAllocSkip == ASSUME OwnInv, AllocSkip PROVE Own'
  <1> USE DEF OwnInv
  <1>1. /\ Within /\ pc = "alloc" /\ pc' = "alloc" /\ result = 0 /\ result' = 0
        /\ UNCHANGED <<header, used, cells, found>> /\ offset' = Behind(offset)
        /\ call.op # "free" /\ call.owner \in Owners /\ (~ Fresh => Grows)
        /\ offset \in DOMAIN header /\ ~ Fits(offset)
    BY AtHeader DEF AllocSkip, Scanning, Move, Behind, Within, region, Stage
  <1>3. Shape'
    BY <1>1, WithinShape
  <1>5. Owned'
    <2>1. Keeps /\ ~ Made /\ ~ Made'
      BY <1>1, QuietStored DEF Within, Made
    <2>2. \A o \in Owners : ~ Gone(o) /\ ~ Gone(o)' /\ ~ InPlace(o) /\ ~ InPlace(o)'
      BY <1>1 DEF Gone, InPlace
    <2> QED BY <1>1, <2>1, <2>2, SameOwned DEF Within
  <1>6. Stage'
    BY <1>1, WithinSame DEF Stage, Within, Made
  <1>7. Walk'
    <2>1. ASSUME ~ Unservable, NEW x \in DOMAIN header, x < offset' PROVE ~ Fits(x)
      BY <1>1, <2>1, Passed DEF Walk
    <2>2. \A x \in DOMAIN header : Fits(x)' <=> Fits(x)
      BY <1>1, WithinSame DEF Fits, IsHole
    <2> QED BY <1>1, <2>1, <2>2, WithinSame DEF Walk
  <1> QED BY <1>3, <1>5, <1>6, <1>7 DEF Own

(* The three ways to make a block.                                          *)
LEMMA OwnPlace ==
    ASSUME OwnInv, Adds, ~ Unservable, pc = "alloc", NEW x \in Nat, Place(x),
           used' \in Nat, DOMAIN cells' = DOMAIN cells
    PROVE  Own'
  <1> USE DEF OwnInv
  <1>1. /\ Within /\ pc' \in {"copy", "clear", "return"} /\ result = 0
        /\ result' = Pointer(x) /\ found' = found
        /\ pc' = "copy" <=> (call.op = "realloc" /\ ~ Fresh)
        /\ pc' = "clear" <=> call.op = "calloc"
        /\ call.op # "free" /\ call.owner \in Owners /\ (~ Fresh => Grows)
    BY DEF Place, Within, region, Stage, Fresh
  <1>2. result' \in Nat /\ result' # 0
    BY <1>1 DEF Pointer, IInv, Sane
  <1>3. ~ Made /\ ~ Fresh => result' # call.pointer
    <2>1. ~ Fresh => Has(call.owner) /\ live[call.owner].at = call.pointer /\ ~ InPlace(call.owner)
      BY <1>1 DEF Has, Held, Gone, InPlace, Fresh, Shape, Within
    <2> QED BY <2>1, <1>1 DEF Owned, Adds
  <1>4. ~ Made /\ Made'
    BY <1>1, <1>2, <1>3 DEF Made, Fresh, Within
  <1>5. Owned'
    <2>1. \A o \in Owners : ~ Gone(o) /\ ~ Gone(o)' /\ ~ InPlace(o) /\ ~ InPlace(o)'
      BY <1>1, <1>4 DEF Gone, InPlace, Made, Fresh, Within
    <2> QED BY <1>1, <1>4, <2>1, NewOwned, WithinSame DEF Within
  <1>6. Wanted = call.count * call.size
    BY <1>1, NoOverflow DEF Within
  <1>7. Stage'
    BY <1>1, <1>2, <1>4, <1>6, WithinSame DEF Stage, Within, Shape
  <1>8. Shape'
    BY <1>1, WithinShape
  <1>9. Walk'
    BY <1>1 DEF Walk
  <1> QED BY <1>5, <1>7, <1>8, <1>9 DEF Own

LEMMA OwnAlloc == ASSUME OwnInv, AllocSplit \/ AllocWhole \/ AllocExtend PROVE Own'
  <1>1. CASE AllocSplit
    <2>1. ~ Unservable /\ pc = "alloc" /\ Place(offset) /\ used' \in Nat /\ DOMAIN cells' = DOMAIN cells
      BY <1>1 DEF AllocSplit, Scanning, Head, OwnInv, IInv, Sane
    <2> QED BY <1>1, <2>1, SplitStored, OwnPlace DEF OwnInv, IInv, Sane
  <1>2. CASE AllocWhole
    <2>1. ~ Unservable /\ pc = "alloc" /\ Place(offset) /\ used' \in Nat /\ DOMAIN cells' = DOMAIN cells
      BY <1>2 DEF AllocWhole, Scanning, OwnInv, IInv, Sane
    <2> QED BY <1>2, <2>1, WholeStored, OwnPlace DEF OwnInv, IInv, Sane
  <1>3. CASE AllocExtend
    <2>1. Span \in Nat /\ used \in Nat
      BY <1>3, SpanFacts DEF AllocExtend, OwnInv, IInv, Sane
    <2>2. ~ Unservable /\ pc = "alloc" /\ Place(used) /\ used' \in Nat /\ DOMAIN cells' = DOMAIN cells
      BY <1>3, <2>1 DEF AllocExtend, Head
    <2> QED BY <1>3, <2>1, <2>2, ExtendStored, OwnPlace DEF OwnInv
  <1> QED BY <1>1, <1>2, <1>3

LEMMA OwnClear == ASSUME OwnInv, Clear PROVE Own'
  <1> USE DEF OwnInv
  <1>1. /\ Within /\ pc = "clear" /\ pc' = "return" /\ Made /\ call.op = "calloc"
        /\ UNCHANGED <<header, used, found, offset, result>> /\ DOMAIN cells' = DOMAIN cells
    BY DEF Clear, Goto, Within, region, Stage
  <1>2. Fresh /\ call.owner \in Owners
    BY <1>1 DEF Shape, Within
  <1>3. Shape'
    BY <1>1, WithinShape
  <1>4. Owned'
    <2>1. Keeps /\ Made'
      BY <1>1, QuietStored DEF Within, Made
    <2>2. \A o \in Owners : ~ Gone(o) /\ ~ Gone(o)' /\ ~ InPlace(o) /\ ~ InPlace(o)'
      BY <1>1, <2>1 DEF Gone, InPlace, Within, Made
    <2> QED BY <1>1, <2>1, <2>2, SameOwned, WithinSame DEF Within
  <1>5. Stage'
    BY <1>1, <1>2, WithinSame DEF Stage, Within, Made
  <1>6. Walk'
    BY <1>1 DEF Walk
  <1> QED BY <1>3, <1>4, <1>5, <1>6 DEF Own

(* A block that an owner has is found where the walk stands or behind.      *)
LEMMA BlockAhead ==
    ASSUME OwnInv, pc \in {"search", "find"}, call.owner \in Owners
    PROVE  \E x \in DOMAIN header :
              /\ Pointer(x) = call.pointer /\ ~ IsHole(x)
              /\ found = 0 => x >= offset
              /\ \A y \in DOMAIN header : Pointer(y) = call.pointer => y = x
  <1> USE DEF OwnInv
  <1>1. ~ Fresh
    BY DEF Stage, Releases
  <1>2. Has(call.owner) /\ live[call.owner].at = call.pointer /\ ~ InPlace(call.owner)
    BY <1>1 DEF Has, Held, Gone, InPlace, Fresh, Shape
  <1>3. Stored(header, base, call.pointer, live[call.owner].size)
    BY <1>2 DEF Owned, SizeOf
  <1>4. PICK x \in DOMAIN header : Pointer(x) = call.pointer /\ ~ IsHole(x)
    BY <1>3 DEF Stored, Pointer, IsHole
  <1>5. found = 0 => x >= offset
    <2>1. x \in Nat /\ offset \in Nat
      BY PointerFacts DEF IInv, Sane
    <2>2. x < offset => found = x + 1
      BY <1>4 DEF Walk
    <2> QED BY <2>1, <2>2
  <1>6. \A y \in DOMAIN header : Pointer(y) = call.pointer => y = x
    BY <1>4, PointerFacts
  <1> QED BY <1>4, <1>5, <1>6

LEMMA NobodyFails ==
    ASSUME OwnInv, SearchFails \/ FreeFails
    PROVE  call.owner = "nobody"
  <1> USE DEF OwnInv
  <1>1. pc \in {"search", "find"}
    BY DEF SearchFails, FreeFails
  <1>2. SUFFICES ASSUME call.owner \in Owners PROVE FALSE
    BY <1>1 DEF Shape
  <1>3. PICK x \in DOMAIN header :
              /\ Pointer(x) = call.pointer /\ ~ IsHole(x)
              /\ found = 0 => x >= offset
              /\ \A y \in DOMAIN header : Pointer(y) = call.pointer => y = x
    BY <1>1, <1>2, BlockAhead
  <1>4. x < used /\ x \in Nat /\ used \in Nat /\ offset \in Nat
    BY BlockFacts DEF IInv, Sane
  <1>5. offset < used => offset \in DOMAIN header /\ HeaderAt(offset)
    BY <1>1, AtHeader
  <1>6. CASE SearchFails
    <2>1. found = 0
      BY <1>6 DEF SearchFails, IInv, OnHeader
    <2> QED BY <1>3, <1>4, <1>5, <1>6, <2>1 DEF SearchFails
  <1>7. CASE FreeFails
    BY <1>3, <1>4, <1>5, <1>7 DEF FreeFails
  <1> QED BY <1>6, <1>7

LEMMA OwnSearchFails == ASSUME OwnInv, SearchFails PROVE Own'
  <1> USE DEF OwnInv
  <1>1. /\ Within /\ pc = "search" /\ pc' = "return" /\ result = 0 /\ result' = 0
        /\ UNCHANGED <<header, used, cells, offset, found>>
        /\ ~ Fresh /\ call.op = "realloc"
    BY DEF SearchFails, Finish, Goto, Within, region, Stage
  <1>2. call.owner = "nobody" /\ call.owner \notin Owners
    BY NobodyFails, OwnersAssumption
  <1>3. Shape'
    BY <1>1, WithinShape
  <1>4. Owned'
    <2>1. Keeps /\ ~ Made /\ ~ Made'
      BY <1>1, QuietStored DEF Within, Made
    <2>2. \A o \in Owners : ~ Gone(o) /\ ~ Gone(o)' /\ ~ InPlace(o) /\ ~ InPlace(o)'
      BY <1>1, <1>2 DEF Gone, InPlace, Within
    <2> QED BY <1>1, <2>1, <2>2, SameOwned DEF Within
  <1>5. Stage'
    BY <1>1, <1>2 DEF Stage, Within, Made
  <1>6. Walk'
    BY <1>1 DEF Walk
  <1> QED BY <1>3, <1>4, <1>5, <1>6 DEF Own

LEMMA OwnSearchSkip == ASSUME OwnInv, SearchSkip PROVE Own'
  <1> USE DEF OwnInv
  <1>1. /\ Within /\ pc = "search" /\ pc' = "search" /\ result = 0 /\ result' = 0
        /\ UNCHANGED <<header, used, cells, found>> /\ offset' = Behind(offset)
        /\ ~ Fresh /\ call.op = "realloc"
        /\ offset \in DOMAIN header /\ Pointer(offset) # call.pointer
    BY AtHeader DEF SearchSkip, Searching, Move, Behind, Within, region, Stage
  <1>3. Shape'
    BY <1>1, WithinShape
  <1>4. Owned'
    <2>1. Keeps /\ ~ Made /\ ~ Made'
      BY <1>1, QuietStored DEF Within, Made
    <2>2. \A o \in Owners : ~ Gone(o) /\ ~ Gone(o)' /\ ~ InPlace(o) /\ ~ InPlace(o)'
      BY <1>1 DEF Gone, InPlace
    <2> QED BY <1>1, <2>1, <2>2, SameOwned DEF Within
  <1>5. Stage'
    BY <1>1, WithinSame DEF Stage, Within, Made
  <1>6. Walk'
    <2>1. ASSUME NEW x \in DOMAIN header, x < offset', Pointer(x) = call.pointer PROVE found = x + 1
      BY <1>1, <2>1, Passed DEF Walk
    <2> QED BY <1>1, <2>1 DEF Walk, Pointer, Within
  <1> QED BY <1>3, <1>4, <1>5, <1>6 DEF Own

(* The block that the search of realloc has come to is the owner's.         *)
LEMMA AtBlockFacts ==
    ASSUME OwnInv, AtBlock
    PROVE  /\ offset \in DOMAIN header /\ call.owner \in Owners
           /\ live[call.owner].at = call.pointer
           /\ live[call.owner].size = header[offset].size
           /\ ~ Fresh /\ call.op = "realloc" /\ result = 0 /\ pc = "search" /\ found = 0
  <1> USE DEF OwnInv
  <1>1. /\ offset \in DOMAIN header /\ Pointer(offset) = call.pointer /\ header[offset].size # 0
        /\ ~ Fresh /\ call.op = "realloc" /\ result = 0 /\ pc = "search" /\ found = 0
    BY AtHeader DEF AtBlock, Searching, IsHole, Stage, IInv, OnHeader
  <1>2. Stored(header, base, call.pointer, header[offset].size)
    BY <1>1 DEF Stored, Pointer
  <1>3. call.owner \in Owners
    BY <1>1, <1>2, OwnerOf
  <1>4. Has(call.owner) /\ live[call.owner].at = call.pointer /\ ~ InPlace(call.owner)
    BY <1>1, <1>3 DEF Has, Held, Gone, InPlace, Fresh, Shape
  <1>5. Stored(header, base, call.pointer, live[call.owner].size)
    BY <1>3, <1>4 DEF Owned, SizeOf
  <1> QED BY <1>1, <1>2, <1>3, <1>4, <1>5, StoredFacts

LEMMA OwnSearchFrees == ASSUME OwnInv, SearchFrees PROVE Own'
  <1> USE DEF OwnInv
  <1>1. /\ Within /\ pc = "search" /\ pc' = "find" /\ result = 0 /\ result' = 0
        /\ UNCHANGED <<header, used, cells, found>> /\ offset' = 0 /\ found = 0
        /\ ~ Fresh /\ call.op = "realloc" /\ call.size = 0 /\ call.owner \in Owners
    BY AtBlockFacts DEF SearchFrees, AtBlock, Searching, Move, Goto, Within, region
  <1>3. Shape'
    BY <1>1, WithinShape
  <1>4. Owned'
    <2>1. Keeps /\ ~ Made /\ ~ Made'
      BY <1>1, QuietStored DEF Within, Made
    <2>2. \A o \in Owners : ~ Gone(o) /\ ~ Gone(o)' /\ ~ InPlace(o) /\ ~ InPlace(o)'
      BY <1>1 DEF Gone, InPlace
    <2> QED BY <1>1, <2>1, <2>2, SameOwned DEF Within
  <1>5. Stage'
    BY <1>1, WithinSame DEF Stage, Releases, Within, Made
  <1>6. Walk'
    <2>1. \A x \in DOMAIN header : ~ (x < 0)
      BY BlockFacts DEF IInv
    <2> QED BY <1>1, <2>1 DEF Walk
  <1> QED BY <1>3, <1>4, <1>5, <1>6 DEF Own

LEMMA OwnResizeInPlace == ASSUME OwnInv, ResizeInPlace PROVE Own'
  <1> USE DEF OwnInv
  <1>1. /\ Within /\ pc = "search" /\ pc' = "return" /\ result = 0 /\ result' = call.pointer
        /\ UNCHANGED <<used, cells, found, offset>> /\ found = 0
        /\ ~ Fresh /\ call.op = "realloc" /\ call.size # 0 /\ call.owner \in Owners
    BY AtBlockFacts DEF ResizeInPlace, AtBlock, Searching, Finish, Goto, Within, region
  <1>2. Wanted = call.size /\ Wanted = call.count * call.size
    BY <1>1, OneObject
  <1>3. Shape'
    BY <1>1, WithinShape
  <1>4. Owned'
    BY <1>1, <1>2, ResizeStored, ResizedOwned DEF Within
  <1>5. Stage'
    BY <1>1, <1>2, WithinSame DEF Stage, Within, Made, Fresh
  <1>6. Walk'
    BY <1>1 DEF Walk
  <1> QED BY <1>3, <1>4, <1>5, <1>6 DEF Own

LEMMA OwnResizeMoves == ASSUME OwnInv, ResizeMoves PROVE Own'
  <1> USE DEF OwnInv
  <1>1. /\ Within /\ pc = "search" /\ pc' = "alloc" /\ result = 0 /\ result' = 0
        /\ UNCHANGED <<header, used, cells, found>> /\ offset' = 0 /\ found = 0
        /\ ~ Fresh /\ call.op = "realloc" /\ call.owner \in Owners
        /\ offset \in DOMAIN header /\ live[call.owner].size = header[offset].size
        /\ call.size > header[offset].span - 8
    BY AtBlockFacts DEF ResizeMoves, AtBlock, Searching, Move, Goto, Within, region
  <1>2. Grows
    <2>1. /\ header[offset].size \in Nat /\ header[offset].span \in Nat
          /\ header[offset].size <= header[offset].span - 8 /\ call.size \in Nat
      BY <1>1 DEF IInv, Sane, Tiling, IsBlock
    <2> QED BY <1>1, <2>1 DEF Grows
  <1>3. Shape'
    BY <1>1, WithinShape
  <1>4. Owned'
    <2>1. Keeps /\ ~ Made /\ ~ Made'
      BY <1>1, QuietStored DEF Within, Made
    <2>2. \A o \in Owners : ~ Gone(o) /\ ~ Gone(o)' /\ ~ InPlace(o) /\ ~ InPlace(o)'
      BY <1>1 DEF Gone, InPlace
    <2> QED BY <1>1, <2>1, <2>2, SameOwned DEF Within
  <1>5. Stage'
    BY <1>1, <1>2, WithinSame DEF Stage, Releases, Within, Made
  <1>6. Walk'
    <2>1. \A x \in DOMAIN header : ~ (x < 0)
      BY BlockFacts DEF IInv
    <2> QED BY <1>1, <2>1 DEF Walk
  <1> QED BY <1>3, <1>4, <1>5, <1>6 DEF Own

LEMMA OwnCopy == ASSUME OwnInv, Copy PROVE Own'
  <1> USE DEF OwnInv
  <1>1. /\ Within /\ pc = "copy" /\ pc' = "find" /\ result' = result /\ Made
        /\ UNCHANGED <<header, used, found>> /\ offset' = 0 /\ found = 0
        /\ DOMAIN cells' = DOMAIN cells
        /\ ~ Fresh /\ Grows /\ call.owner \in Owners
    BY DEF Copy, Move, Goto, Within, region, Stage, Made, IInv, OnHeader
  <1>3. Shape'
    BY <1>1, WithinShape
  <1>4. Owned'
    <2>1. Keeps /\ Made'
      BY <1>1, QuietStored DEF Within, Made
    <2>2. \A o \in Owners : ~ Gone(o) /\ ~ Gone(o)' /\ ~ InPlace(o) /\ ~ InPlace(o)'
      BY <1>1 DEF Gone, InPlace
    <2> QED BY <1>1, <2>1, <2>2, SameOwned, WithinSame DEF Within
  <1>5. Stage'
    BY <1>1, WithinSame DEF Stage, Releases, Within, Made
  <1>6. Walk'
    <2>1. \A x \in DOMAIN header : ~ (x < 0)
      BY BlockFacts DEF IInv
    <2> QED BY <1>1, <2>1 DEF Walk
  <1> QED BY <1>3, <1>4, <1>5, <1>6 DEF Own

LEMMA OwnFreeFails == ASSUME OwnInv, FreeFails PROVE Own'
  <1> USE DEF OwnInv
  <1>2. call.owner = "nobody" /\ call.owner \notin Owners
    BY NobodyFails, OwnersAssumption
  <1>1. /\ Within /\ pc = "find" /\ pc' = "return" /\ result = 0 /\ result' = 1
        /\ UNCHANGED <<header, used, cells, offset, found>>
        /\ ~ Fresh /\ call.op = "free"
    BY <1>2 DEF FreeFails, Finish, Goto, Within, region, Stage, Releases, Status
  <1>3. Shape'
    BY <1>1, WithinShape
  <1>4. Owned'
    <2>1. Keeps /\ ~ Made /\ ~ Made'
      BY <1>1, QuietStored DEF Within, Made
    <2>2. \A o \in Owners : ~ Gone(o) /\ ~ Gone(o)' /\ ~ InPlace(o) /\ ~ InPlace(o)'
      BY <1>1, <1>2 DEF Gone, InPlace, Within
    <2> QED BY <1>1, <2>1, <2>2, SameOwned DEF Within
  <1>5. Stage'
    BY <1>1, <1>2 DEF Stage, Within, Made
  <1>6. Walk'
    BY <1>1 DEF Walk
  <1> QED BY <1>3, <1>4, <1>5, <1>6 DEF Own

LEMMA OwnFindStep == ASSUME OwnInv, FindStep PROVE Own'
  <1> USE DEF OwnInv
  <1>1. /\ Within /\ pc = "find" /\ pc' = "find" /\ result' = result
        /\ UNCHANGED <<header, used, cells>> /\ offset' = Behind(offset)
        /\ offset \in DOMAIN header
        /\ found' = IF Pointer(offset) = call.pointer THEN offset + 1 ELSE found
        /\ Pointer(offset) = call.pointer => ~ IsHole(offset)
    BY AtHeader DEF FindStep, Move, Behind, Within, region
  <1>3. Shape'
    BY <1>1, WithinShape
  <1>4. Owned'
    <2>1. Keeps /\ (Made' <=> Made)
      BY <1>1, QuietStored DEF Within, Made
    <2>2. \A o \in Owners : ~ Gone(o) /\ ~ Gone(o)' /\ ~ InPlace(o) /\ ~ InPlace(o)'
      BY <1>1 DEF Gone, InPlace
    <2> QED BY <1>1, <2>1, <2>2, SameOwned, WithinSame DEF Within
  <1>5. Stage'
    BY <1>1, WithinSame DEF Stage, Releases, Within, Made
  <1>6. Walk'
    <2>1. offset \in Nat /\ (offset + 1) - 1 = offset /\ Pointer(offset) \in Nat
      BY <1>1, PointerFacts
    <2>2. ASSUME NEW x \in DOMAIN header, x < offset', Pointer(x) = call.pointer PROVE found' = x + 1
      <3>1. CASE x = offset
        BY <3>1, <2>2, <1>1
      <3>2. CASE x # offset
        <4>1. x < offset /\ Pointer(offset) # call.pointer
          BY <3>2, <2>2, <1>1, Passed, PointerFacts
        <4> QED BY <4>1, <2>2, <1>1 DEF Walk
      <3> QED BY <3>1, <3>2
    <2>3. found' # 0 => Pointer(found' - 1) = call.pointer /\ ~ IsHole(found' - 1)
      BY <2>1, <1>1 DEF Walk
    <2> QED BY <1>1, <2>2, <2>3 DEF Walk, Pointer, Within, IsHole
  <1> QED BY <1>3, <1>4, <1>5, <1>6 DEF Own

LEMMA OwnFreeBlock == ASSUME OwnInv, FreeBlock PROVE Own'
  <1> USE DEF OwnInv
  <1>1. /\ Within /\ pc = "find" /\ pc' = "merge" /\ result' = result
        /\ UNCHANGED <<used, cells, found>> /\ found # 0 /\ ~ Fresh /\ Releases
    BY DEF FreeBlock, Move, Goto, Within, region, Stage, Releases
  <1>2. call.owner \in Owners
    <2>1. found - 1 \in DOMAIN header /\ Pointer(found - 1) = call.pointer /\ ~ IsHole(found - 1)
      BY <1>1 DEF IInv, OnHeader, Walk
    <2>2. Stored(header, base, call.pointer, header[found - 1].size)
      BY <2>1 DEF Stored, IsHole, Pointer
    <2> QED BY <1>1, <2>2, OwnerOf
  <1>3. Shape'
    BY <1>1, WithinShape
  <1>4. Owned'
    BY <1>1, <1>2, FreeStored, FreedOwned DEF Within
  <1>5. Stage'
    BY <1>1, <1>2, WithinSame DEF Stage, Releases, Within, Made
  <1>6. Walk'
    BY <1>1 DEF Walk
  <1> QED BY <1>3, <1>4, <1>5, <1>6 DEF Own

LEMMA OwnMerge == ASSUME OwnInv, MergeDone \/ MergeSkip \/ Absorb \/ Trim PROVE Own'
  <1> USE DEF OwnInv
  <1>1. /\ Within /\ pc = "merge" /\ Keeps /\ cells' = cells
        /\ Releases /\ call.owner \in Owners /\ Stage
        /\ pc' = "merge" \/ (pc' = "return" /\ result' = Status(0))
        /\ pc' = "merge" => result' = result
    BY AbsorbStored, TrimStored, QuietStored
       DEF MergeDone, MergeSkip, Absorb, Trim, AtHole, Finish, Goto, Within, region, Stage
  <1>2. call.op = "free" => ~ Made /\ result = 0 /\ result' = 0
    BY <1>1 DEF Releases, Made, Status
  <1>3. result' = result
    BY <1>1, <1>2 DEF Status
  <1>4. ~ Fresh /\ (call.op = "free" \/ call.op = "realloc") /\ (Made' <=> Made)
    BY <1>1, <1>3 DEF Releases, Shape, Within, Made
  <1>5. result # call.pointer \/ result = 0
    BY <1>1 DEF Releases, Made
  <1>6. Shape'
    BY <1>1, WithinShape
  <1>7. Owned'
    <2>1. \A o \in Owners : (Gone(o)' <=> Gone(o)) /\ ~ InPlace(o) /\ ~ InPlace(o)'
      BY <1>1, <1>3, <1>4, <1>5 DEF Gone, InPlace, Releases, Within, Fresh, Made
    <2> QED BY <1>1, <1>3, <1>4, <2>1, SameOwned, WithinSame DEF Within
  <1>8. Stage'
    <2>1. result = 0 /\ call.op = "realloc" => Wanted = 0
      BY <1>1, OneObject DEF Releases, Made, Within
    <2>2. result = 0 /\ call.op = "realloc" => Unservable'
      BY <2>1, <1>1, WithinSame DEF Unservable
    <2> QED BY <1>1, <1>3, <1>4, <2>2, WithinSame, OwnersAssumption DEF Stage, Releases, Within, Made
  <1>9. Walk'
    BY <1>1 DEF Walk
  <1> QED BY <1>6, <1>7, <1>8, <1>9 DEF Own

(* What the program takes away.                                             *)
LEMMA Outcome ==
    ASSUME OwnInv, Return, call.owner \in Owners
    PROVE  \/ Returned = Nowhere /\ ~ Has(call.owner) /\ ~ Made
           \/ /\ Returned = live[call.owner] /\ result = 0 /\ ~ Made
              /\ ~ Gone(call.owner) /\ ~ InPlace(call.owner)
           \/ /\ Returned = [at |-> result, size |-> Wanted] /\ Made /\ ~ Has(call.owner)
              /\ Stored(header, base, result, Wanted)
           \/ /\ Returned = [at |-> result, size |-> Wanted] /\ ~ Made
              /\ live[call.owner].at = result /\ Has(call.owner)
              /\ Stored(header, base, result, Wanted)
  <1> USE DEF OwnInv
  <1>1. pc = "return" /\ call.owner # "nobody"
    BY OwnersAssumption DEF Return
  <1>2. Made => Stored(header, base, result, Wanted)
    BY DEF Owned
  <1>3. CASE call.op = "free"
    BY <1>1, <1>3 DEF Stage, Returned, Has, Gone, Made
  <1>4. CASE call.op = "realloc" /\ call.size = 0
    <2>1. Wanted = 0
      BY <1>1, <1>4, OneObject
    <2>2. ~ Made
      BY <2>1, <1>2, StoredFacts
    <2>3. ~ Has(call.owner)
      BY <1>1, <1>4 DEF Has, Gone, Shape, Fresh
    <2> QED BY <1>4, <2>2, <2>3 DEF Returned
  <1>5. CASE call.op # "free" /\ ~ (call.op = "realloc" /\ call.size = 0) /\ result = 0
    BY <1>1, <1>5 DEF Returned, Made, Gone, InPlace
  <1>6. CASE call.op # "free" /\ ~ (call.op = "realloc" /\ call.size = 0) /\ result # 0
    <2>1. Returned = [at |-> result, size |-> Wanted]
      BY <1>6 DEF Returned
    <2>2. CASE Made
      <3>1. ~ Has(call.owner)
        BY <1>1, <2>2, <1>6 DEF Has, Gone, Shape, Fresh
      <3> QED BY <1>2, <2>1, <2>2, <3>1
    <2>3. CASE ~ Made
      <3>1. result = call.pointer /\ ~ Fresh
        BY <2>3, <1>6 DEF Made, Fresh
      <3>2. live[call.owner].at = result /\ InPlace(call.owner)
        BY <1>1, <1>6, <3>1 DEF Shape, InPlace
      <3>3. Has(call.owner)
        BY <1>1, <1>6, <2>3, <3>2 DEF Has, Held, Gone
      <3>4. Stored(header, base, result, Wanted)
        BY <3>2, <3>3 DEF Owned, SizeOf
      <3> QED BY <2>1, <2>3, <3>2, <3>3, <3>4
    <2> QED BY <2>2, <2>3
  <1> QED BY <1>3, <1>4, <1>5, <1>6

(* Between calls the owners have the blocks and nothing else does.          *)
Quiet == pc = "idle" /\ call = Idle /\ result = 0 /\ offset = 0 /\ found = 0

LEMMA QuietFacts ==
    ASSUME Quiet
    PROVE  ~ Made /\ \A o : ~ Gone(o) /\ ~ InPlace(o)
  BY DEF Quiet, Made, Gone, InPlace, Idle

LEMMA OwnReturn == ASSUME OwnInv, Return PROVE Own'
  <1> USE DEF OwnInv
  <1>1. /\ Quiet' /\ UNCHANGED <<header, base, capacity, used>> /\ DOMAIN cells' = DOMAIN cells
        /\ pc = "return"
    BY DEF Return, Quiet, region, Forget
  <1>2. /\ ~ Made' /\ Keeps
        /\ \A o \in Owners : ~ Gone(o)' /\ ~ InPlace(o)'
    <2>1. Keeps
      BY <1>1, QuietStored
    <2> QED BY <1>1, <2>1 DEF Quiet, Made, Gone, InPlace, Idle
  <1>3. \A o \in Owners : o # call.owner => ~ Gone(o) /\ ~ InPlace(o)
    BY DEF Gone, InPlace
  <1>4. Stage'
    BY <1>1 DEF Quiet, Stage, Idle
  <1>5. Walk'
    BY <1>1 DEF Quiet, Walk
  <1>6. CASE call.owner \notin Owners
    <2>1. live' = live /\ call.owner = "nobody"
      BY <1>6, <1>1 DEF Return, Shape
    <2>2. ~ Made
      BY <1>6, <1>1 DEF Stage, Made
    <2>3. Owned'
      BY <1>2, <1>3, <1>6, <2>1, <2>2, SameOwned
    <2>4. Shape'
      BY <1>1, <2>1 DEF Shape, Quiet, Held
    <2> QED BY <1>4, <1>5, <2>3, <2>4 DEF Own
  <1>7. CASE call.owner \in Owners
    <2> DEFINE a == call.owner
    <2>1. live' = [live EXCEPT ![a] = Returned]
      BY <1>7 DEF Return
    <2>2. Returned \in [at : Nat, size : Nat] /\ (Returned.at = 0 => Returned = Nowhere)
      <3>1. CASE Stored(header, base, result, Wanted) /\ Returned = [at |-> result, size |-> Wanted]
        BY <3>1, StoredFacts
      <3>2. CASE Returned = Nowhere
        BY <3>2 DEF Nowhere
      <3>3. CASE Returned = live[a]
        BY <3>3, <1>7 DEF Shape, Held
      <3> QED BY <3>1, <3>2, <3>3, <1>7, Outcome
    <2>3. /\ live' \in [Owners -> [at : Nat, size : Nat]]
          /\ live'[a] = Returned
          /\ \A o \in Owners : o # a => live'[o] = live[o]
      BY <1>7, <2>1, <2>2 DEF Shape
    <2>4. Shape'
      <3>1. ASSUME NEW o \in Owners, live'[o].at = 0 PROVE live'[o] = Nowhere
        BY <3>1, <2>2, <2>3 DEF Shape, Held
      <3> QED BY <1>1, <2>3, <3>1 DEF Shape, Quiet, Held
    <2>5. /\ \A o \in Owners : Has(o)' <=> live'[o].at # 0
          /\ \A o \in Owners : SizeOf(o)' = live'[o].size
          /\ \A p : Claims(p)' <=> \E o \in Owners : live'[o].at # 0 /\ live'[o].at = p
      BY <1>2 DEF Has, Held, SizeOf, Claims
    <2>6. \A o \in Owners : o # a => (Has(o) <=> live[o].at # 0) /\ SizeOf(o) = live[o].size
      BY <1>3 DEF Has, Held, SizeOf
    <2> HIDE DEF a
    <2>7. /\ \A o \in Owners : o # a /\ live[o].at # 0 => Stored(header, base, live[o].at, live[o].size)
          /\ \A p, s : Stored(header, base, p, s) =>
                \/ \E o \in Owners : o # a /\ live[o].at # 0 /\ live[o].at = p
                \/ Has(a) /\ live[a].at = p
                \/ Made /\ result = p
          /\ \A o, q \in Owners : live[o].at # 0 /\ live[o].at = live[q].at => o = q
          /\ Made => \A o \in Owners : live[o].at # result
      BY <2>6 DEF Owned, Claims, Has, Held
    <2>8. /\ a \in Owners
          /\ \/ Returned = Nowhere /\ ~ Has(a) /\ ~ Made
             \/ /\ Returned = live[a] /\ ~ Made
                /\ live[a].at # 0 => Has(a) /\ Stored(header, base, live[a].at, live[a].size)
             \/ /\ Returned = [at |-> result, size |-> Wanted] /\ Made /\ ~ Has(a)
                /\ Stored(header, base, result, Wanted)
             \/ /\ Returned = [at |-> result, size |-> Wanted] /\ ~ Made
                /\ live[a].at = result /\ Has(a)
                /\ Stored(header, base, result, Wanted)
      <3>1. ASSUME ~ Gone(a), ~ InPlace(a), live[a].at # 0
            PROVE  Has(a) /\ Stored(header, base, live[a].at, live[a].size)
        BY <3>1, <1>7 DEF Has, Held, SizeOf, Owned, a
      <3> QED BY <1>7, <3>1, Outcome DEF a
    <2>9. Nowhere.at = 0
      BY DEF Nowhere
    <2>10. \A o \in Owners : live'[o].at # 0 => Stored(header, base, live'[o].at, live'[o].size)
      BY <2>3, <2>7, <2>8, <2>9
    <2>11. \A p, s : Stored(header, base, p, s) =>
              \E o \in Owners : live'[o].at # 0 /\ live'[o].at = p
      <3> SUFFICES ASSUME NEW p, NEW s, Stored(header, base, p, s)
                   PROVE  \E o \in Owners : live'[o].at # 0 /\ live'[o].at = p
        OBVIOUS
      <3>1. p # 0
        BY StoredFacts
      <3>2. CASE \E o \in Owners : o # a /\ live[o].at # 0 /\ live[o].at = p
        BY <3>2, <2>3
      <3>3. CASE Has(a) /\ live[a].at = p
        BY <3>1, <3>3, <2>3, <2>8
      <3>4. CASE Made /\ result = p
        BY <3>1, <3>4, <2>3, <2>8
      <3> QED BY <3>2, <3>3, <3>4, <2>7
    <2>12. ASSUME NEW o \in Owners, NEW q \in Owners, live'[o].at # 0, live'[o].at = live'[q].at
           PROVE  o = q
      <3>1. \A r \in Owners : r # a /\ live'[a].at # 0 => live[r].at # live'[a].at
        <4> SUFFICES ASSUME NEW r \in Owners, r # a, live'[a].at # 0
                     PROVE  live[r].at # live'[a].at
          OBVIOUS
        <4>1. CASE Returned = Nowhere
          BY <4>1, <2>3, <2>9
        <4>2. CASE Returned.at = live[a].at
          BY <4>2, <2>3, <2>7, <2>8
        <4>3. CASE Made /\ Returned.at = result
          BY <4>3, <2>3, <2>7
        <4> QED BY <4>1, <4>2, <4>3, <2>8
      <3> QED BY <3>1, <2>12, <2>3, <2>7
    <2>13. Owned'
      BY <1>1, <1>2, <2>5, <2>10, <2>11, <2>12 DEF Owned, Keeps, Held
    <2> QED BY <1>4, <1>5, <2>4, <2>13 DEF Own
  <1> QED BY <1>6, <1>7

(* What a call of the program is.                                           *)
Asked ==
    /\ call'.op \in {"alloc", "calloc", "realloc", "free"}
    /\ call'.op \in {"alloc", "realloc"} => call'.count = 1 /\ call'.size < Word
    /\ call'.owner \in Owners \cup {"nobody"}
    /\ call'.pointer = 0 => /\ call'.op \in {"alloc", "calloc", "realloc"} /\ call'.owner \in Owners
                            /\ live[call'.owner].at = 0 /\ pc' = "alloc"
    /\ call'.pointer # 0 => /\ \/ call'.op = "free" /\ pc' = "find"
                               \/ call'.op = "realloc" /\ pc' = "search"
                            /\ \A o \in Owners : live[o].at = call'.pointer <=> o = call'.owner

LEMMA Asking == ASSUME OwnInv, Call PROVE Asked
  <1> USE DEF OwnInv, Asks
  <1>1. 0..Word - 1 \subseteq Nat /\ Word \in Nat /\ 1 < Word
    BY WordAssumption
  <1>2. \A size \in Sizes : size < Word
    BY <1>1, RequestsAssumption
  <1>3. ASSUME NEW o \in Owners, NEW size \in Sizes, CallAlloc(o, size) PROVE Asked
    BY <1>3, <1>2 DEF CallAlloc, Asked, Held
  <1>4. ASSUME NEW o \in Owners, NEW n, NEW size, CallCalloc(o, n, size) PROVE Asked
    BY <1>4 DEF CallCalloc, Asked, Held
  <1>5. \A o, q \in Owners : live[o].at # 0 /\ live[q].at = live[o].at => q = o
    BY DEF Owned, Held
  <1>6. ASSUME NEW o \in Owners, Held(o), CallFree(o, live[o].at) PROVE Asked
    BY <1>5, <1>6 DEF CallFree, Asked, Held
  <1>7. ASSUME NEW o \in Owners, NEW size \in Sizes, Held(o), CallRealloc(o, live[o].at, size) PROVE Asked
    BY <1>2, <1>5, <1>7 DEF CallRealloc, Asked, Held
  <1>8. ASSUME NEW p \in Stale PROVE p # 0 /\ \A o \in Owners : live[o].at # p
    <2>1. PICK c \in DOMAIN cells : p = base + 8 * c
      BY DEF Stale
    <2>2. c \in Nat /\ capacity # 0 /\ base # 0 /\ base \in Nat
      BY DEF Shape, IInv, Sane
    <2> QED BY <2>1, <2>2 DEF Stale
  <1>9. ASSUME NEW p \in Stale, CallFree("nobody", p) PROVE Asked
    BY <1>8, <1>9, OwnersAssumption DEF CallFree, Asked
  <1>10. ASSUME NEW p \in Stale, CallRealloc("nobody", p, 1) PROVE Asked
    BY <1>1, <1>8, <1>10, OwnersAssumption DEF CallRealloc, Asked
  <1> QED BY <1>3, <1>4, <1>6, <1>7, <1>9, <1>10 DEF Call

LEMMA OwnCall == ASSUME OwnInv, Call PROVE Own'
  <1> USE DEF OwnInv
  <1>1. /\ pc = "idle" /\ pc' \in {"alloc", "find", "search"}
        /\ UNCHANGED <<header, base, capacity, used, cells, live, offset, found, result>>
        /\ result = 0 /\ offset = 0 /\ found = 0
    <2>1. pc = "idle" /\ UNCHANGED <<header, base, capacity, used, cells, live, offset, found, result>>
      BY DEF Call, CallAlloc, CallCalloc, CallFree, CallRealloc, Asks, region
    <2>2. pc' \in {"alloc", "find", "search"}
      BY DEF Call, CallAlloc, CallCalloc, CallFree, CallRealloc
    <2> QED BY <2>1, <2>2 DEF Shape, IInv, OnHeader
  <1>2. Asked
    BY Asking
  <1>3. Owned'
    <2>1. Keeps /\ ~ Made /\ ~ Made'
      BY <1>1, QuietStored DEF Made
    <2>2. \A o \in Owners : ~ Gone(o) /\ ~ Gone(o)' /\ ~ InPlace(o) /\ ~ InPlace(o)'
      BY <1>1 DEF Gone, InPlace
    <2> QED BY <1>1, <2>1, <2>2, SameOwned
  <1>4. Shape'
    BY <1>1, <1>2 DEF Shape, Asked, Fresh, Held
  <1>5. Stage'
    BY <1>1, <1>2 DEF Stage, Asked, Fresh, Releases, Made
  <1>6. Walk'
    <2>1. \A x \in DOMAIN header : ~ (x < 0)
      BY BlockFacts DEF IInv
    <2> QED BY <1>1, <2>1 DEF Walk
  <1> QED BY <1>3, <1>4, <1>5, <1>6 DEF Own

Empty ==
    /\ pc = "idle" /\ call = Idle /\ result = 0 /\ found = 0 /\ offset = 0
    /\ header = [o \in {} |-> Nowhere] /\ live = [o \in Owners |-> Nowhere]
    /\ DOMAIN cells = 0..(capacity \div 8) - 1 /\ (base = 0 => capacity = 0)

LEMMA EmptyOwn == Empty => Own
  <1> SUFFICES ASSUME Empty PROVE Own
    OBVIOUS
  <1> USE DEF Empty
  <1>1. \A p, s : ~ Stored(header, base, p, s)
    BY DEF Stored
  <1>2. ~ Made /\ \A o \in Owners : ~ Held(o) /\ live[o] = Nowhere
    BY DEF Made, Held, Nowhere
  <1>3. Owned
    BY <1>1, <1>2 DEF Owned, Has
  <1>4. Shape
    BY <1>2 DEF Shape, Nowhere
  <1>5. Stage /\ Walk
    BY DEF Stage, Walk, Idle
  <1> QED BY <1>3, <1>4, <1>5 DEF Own

LEMMA InitOwn == Init => OwnInv
  <1> SUFFICES ASSUME Init PROVE OwnInv
    OBVIOUS
  <1>1. base = 0 => capacity = 0
    <2>1. PICK m \in Memories :
            /\ base = IF Refused(m) THEN 0 ELSE m.address + Padding(m.address)
            /\ capacity = IF Refused(m) THEN 0 ELSE m.capacity - Padding(m.address)
      BY DEF Init
    <2>2. m.address \in Nat /\ Padding(m.address) \in Nat
      BY MemoriesAssumption, WordAssumption DEF Padding
    <2>3. ~ Refused(m) => m.address # 0
      BY DEF Refused
    <2> QED BY <2>1, <2>2, <2>3
  <1>2. Own
    BY <1>1, EmptyOwn DEF Init, Empty
  <1> QED BY <1>2, InitIInv DEF Own, OwnInv

LEMMA OwnReset == ASSUME OwnInv, Reset PROVE Own'
  <1>1. Empty'
    BY DEF OwnInv, IInv, OnHeader, Shape, Reset, region, Forget, Empty
  <1> QED BY <1>1, EmptyOwn, PTL

LEMMA OwnSame ==
    ASSUME OwnInv, UNCHANGED <<base, capacity, used, header, live, call, pc, offset, found, result>>,
           DOMAIN cells' = DOMAIN cells
    PROVE  Own'
  <1> USE DEF OwnInv
  <1>1. /\ Wanted' = Wanted /\ Span' = Span /\ (Unservable' <=> Unservable)
        /\ (Fresh' <=> Fresh) /\ (Grows' <=> Grows) /\ (Made' <=> Made)
    BY DEF Wanted, Span, Unservable, Overflows, Fresh, Grows, Made
  <1>2. Owned'
    <2>1. Keeps
      BY QuietStored
    <2>2. \A o \in Owners : (Has(o)' <=> Has(o)) /\ SizeOf(o)' = SizeOf(o)
      BY <1>1 DEF Has, Held, Gone, InPlace, SizeOf
    <2>3. \A p : Claims(p)' <=> Claims(p)
      BY <1>1, <2>2 DEF Claims
    <2> QED BY <1>1, <2>1, <2>2, <2>3 DEF Owned, Keeps, Held
  <1>3. Shape'
    BY <1>1 DEF Shape, Held
  <1>4. Stage'
    <2>1. /\ Exhausted' <=> Exhausted
          /\ Releases' <=> Releases
      BY <1>1 DEF Exhausted, Fits, IsHole, Releases
    <2> QED BY <1>1, <2>1 DEF Stage
  <1>5. Walk'
    BY <1>1 DEF Walk, Fits, IsHole, Pointer
  <1> QED BY <1>2, <1>3, <1>4, <1>5 DEF Own

LEMMA NextOwn == OwnInv /\ [Next]_vars => OwnInv'
  <1> SUFFICES ASSUME OwnInv, [Next]_vars PROVE OwnInv'
    OBVIOUS
  <1>1. IInv'
    BY NextIInv DEF OwnInv
  <1>2. CASE Step
    BY <1>1, <1>2, OwnAllocRefuse, OwnAllocSkip, OwnAlloc, OwnClear, OwnSearchFails, OwnSearchSkip,
       OwnSearchFrees, OwnResizeInPlace, OwnResizeMoves, OwnCopy, OwnFreeFails, OwnFindStep,
       OwnFreeBlock, OwnMerge, OwnReturn
       DEF Step, Own, OwnInv
  <1>3. CASE Call
    BY <1>1, <1>3, OwnCall DEF Own, OwnInv
  <1>4. CASE Reset
    BY <1>1, <1>4, OwnReset DEF Own, OwnInv
  <1>5. CASE \E o \in Owners : Write(o)
    <2>1. /\ UNCHANGED <<base, capacity, used, header, live, call, pc, offset, found, result>>
          /\ DOMAIN cells' = DOMAIN cells
      BY <1>5 DEF Write, region
    <2> QED BY <1>1, <2>1, OwnSame DEF Own, OwnInv
  <1>6. CASE UNCHANGED vars
    BY <1>1, <1>6, OwnSame DEF Own, OwnInv, vars, region
  <1> QED BY <1>2, <1>3, <1>4, <1>5, <1>6 DEF Next

(* The inductive invariant of ownership: every block in use is the storage  *)
(* of an owner or the result of the call, each step of a call is one its    *)
(* arguments lead to, and a walk has passed nothing it was looking for.     *)
(* Every block in use is the storage of exactly one owner, or the block the *)
(* call in progress will return; and each loop of allocator.c is entered    *)
(* with the arguments, and has passed the headers, that Stage and Walk say. *)
THEOREM Ownership == Spec => []OwnInv
  <1>1. OwnInv /\ [Next]_vars => OwnInv'
    BY NextOwn
  <1> QED BY <1>1, InitOwn, PTL DEF Spec

LEMMA OwnForCause == OwnInv => FailsForCause
  <1> SUFFICES ASSUME OwnInv, pc = "return" PROVE FailsForCause
    BY DEF FailsForCause
  <1>1. call.op = "free" => (result = 1 <=> call.owner = "nobody")
    BY DEF OwnInv, Stage
  <1>2. call.op # "free" /\ call.owner # "nobody" /\ result = 0 /\ ~ Unservable => Exhausted
    BY DEF OwnInv, Stage
  <1> QED BY <1>1, <1>2 DEF FailsForCause, Exhausted, Fits

(* For every memory and every program, a call of the allocator fails only   *)
(* if the pointer is not held, the size cannot be served, or neither a hole *)
(* nor the end has room.                                                    *)
(* A call of the allocator fails only for a pointer the program does not    *)
(* hold, a size that cannot be served or the want of a large enough piece.  *)
THEOREM FailsForCauseHolds == Spec => []FailsForCause
  BY Ownership, OwnForCause, PTL

----------------------------------------------------------------------------
(* Contents.  Cells are eight bytes, and so are headers.                    *)
LEMMA CellArithmetic ==
    ASSUME NEW x \in Nat, NEW n \in Nat, NEW s \in Nat, (x % 8) = 0, (n % 8) = 0, s <= n - 8,
           NEW c \in ((x + 8) \div 8)..((x + 8) \div 8) + CellsOf(s) - 1
    PROVE  c \in Nat /\ x + 8 <= 8 * c /\ 8 * c + 8 <= x + n
  BY DEF CellsOf

(* The cells of a block, of which s bytes are counted.                      *)
LEMMA BlockCells ==
    ASSUME IInv, Shape, NEW x \in DOMAIN header, NEW s \in Nat, s <= header[x].span - 8,
           NEW c \in Storage(Pointer(x), s)
    PROVE  c \in Nat /\ x + 8 <= 8 * c /\ 8 * c + 8 <= Behind(x) /\ c \in DOMAIN cells
  <1>1. /\ x \in Nat /\ header[x].span \in Nat /\ (x % 8) = 0 /\ (header[x].span % 8) = 0
        /\ x + header[x].span <= used /\ used \in Nat /\ used <= capacity /\ capacity \in Nat
        /\ base \in Nat
    BY DEF IInv, Sane, Tiling, IsBlock
  <1>2. Cell(Pointer(x)) = (x + 8) \div 8
    <2>1. Pointer(x) - base = x + 8
      BY <1>1 DEF Pointer
    <2> QED BY <2>1 DEF Cell
  <1>3. c \in ((x + 8) \div 8)..((x + 8) \div 8) + CellsOf(s) - 1
    BY <1>2 DEF Storage
  <1>4. c \in Nat /\ x + 8 <= 8 * c /\ 8 * c + 8 <= x + header[x].span
    BY <1>1, <1>3, CellArithmetic
  <1>5. c <= (capacity \div 8) - 1
    BY <1>1, <1>4
  <1> QED BY <1>4, <1>5 DEF Behind, Shape

LEMMA StoredAt ==
    ASSUME IInv, NEW p, NEW s, Stored(header, base, p, s)
    PROVE  \E x \in DOMAIN header :
              /\ p = Pointer(x) /\ header[x].size = s /\ s # 0 /\ s \in Nat
              /\ header[x].span \in Nat /\ s <= header[x].span - 8
              /\ p + s <= base + Behind(x) /\ p = base + x + 8 /\ x \in Nat
  <1>1. PICK x \in DOMAIN header : p = base + x + 8 /\ header[x].size = s /\ s # 0
    BY DEF Stored
  <1>2. /\ base \in Nat /\ x \in Nat /\ header[x].span \in Nat /\ header[x].size \in Nat
        /\ header[x].size <= header[x].span - 8
    BY DEF IInv, Sane, Tiling, IsBlock
  <1>3. p + s <= base + (x + header[x].span)
    BY <1>1, <1>2
  <1> QED BY <1>1, <1>2, <1>3 DEF Pointer, Behind

LEMMA StoredCells ==
    ASSUME IInv, Shape, NEW p, NEW s, Stored(header, base, p, s)
    PROVE  Storage(p, s) \subseteq DOMAIN cells
  BY StoredAt, BlockCells

LEMMA StoredApart ==
    ASSUME IInv, Shape, NEW p, NEW s, Stored(header, base, p, s),
           NEW q, NEW t, Stored(header, base, q, t), p # q
    PROVE  /\ Storage(p, s) \cap Storage(q, t) = {}
           /\ p + s <= q \/ q + t <= p
  <1>1. PICK x \in DOMAIN header :
              /\ p = Pointer(x) /\ header[x].size = s /\ s # 0 /\ s \in Nat
              /\ header[x].span \in Nat /\ s <= header[x].span - 8
              /\ p + s <= base + Behind(x) /\ p = base + x + 8 /\ x \in Nat
    BY StoredAt
  <1>2. PICK y \in DOMAIN header :
              /\ q = Pointer(y) /\ header[y].size = t /\ t # 0 /\ t \in Nat
              /\ header[y].span \in Nat /\ t <= header[y].span - 8
              /\ q + t <= base + Behind(y) /\ q = base + y + 8 /\ y \in Nat
    BY StoredAt
  <1>3. /\ Behind(x) \in Nat /\ Behind(y) \in Nat /\ base \in Nat
        /\ Behind(x) <= y \/ Behind(y) <= x
    BY <1>1, <1>2, BlockFacts DEF IInv, Sane
  <1>4. ASSUME NEW c \in Storage(p, s), c \in Storage(q, t) PROVE FALSE
    <2>1. c \in Nat /\ x + 8 <= 8 * c /\ 8 * c + 8 <= Behind(x)
      BY <1>1, BlockCells
    <2>2. y + 8 <= 8 * c /\ 8 * c + 8 <= Behind(y)
      BY <1>2, <1>4, BlockCells
    <2> QED BY <2>1, <2>2, <1>1, <1>2, <1>3
  <1>5. p + s <= q \/ q + t <= p
    BY <1>1, <1>2, <1>3
  <1> QED BY <1>4, <1>5

LEMMA StoredPlace ==
    ASSUME IInv, NEW p, NEW s, Stored(header, base, p, s)
    PROVE  (p % 8) = 0 /\ base <= p /\ p + s <= base + capacity
  <1>1. PICK x \in DOMAIN header :
              /\ p = Pointer(x) /\ header[x].size = s /\ s # 0 /\ s \in Nat
              /\ header[x].span \in Nat /\ s <= header[x].span - 8
              /\ p + s <= base + Behind(x) /\ p = base + x + 8 /\ x \in Nat
    BY StoredAt
  <1>2. /\ base \in Nat /\ (base % 8) = 0 /\ (x % 8) = 0 /\ Behind(x) <= used /\ used <= capacity
        /\ Behind(x) \in Nat /\ used \in Nat /\ capacity \in Nat
    BY <1>1 DEF IInv, Sane, Tiling, IsBlock, Behind
  <1>3. (p % 8) = 0
    BY <1>1, <1>2
  <1> QED BY <1>1, <1>2, <1>3

LEMMA ContentSame ==
    ASSUME IInv, Shape, NEW o \in Owners, base' = base, live'[o] = live[o],
           Held(o) => \A c \in Storage(live[o].at, live[o].size) : cells'[c] = cells[c]
    PROVE  Content(o)' = Content(o)
  <1>1. CASE ~ Held(o)
    BY <1>1 DEF Content, Held
  <1>2. CASE Held(o)
    <2> DEFINE n == CellsOf(live[o].size)
               d == Cell(live[o].at)
    <2>1. n \in Nat /\ d \in Int
      <3>1. live[o].size \in Nat /\ live[o].at \in Nat /\ base \in Nat
        BY DEF Shape, IInv, Sane
      <3>2. n \in Nat
        BY <3>1 DEF CellsOf
      <3>3. d \in Int
        BY <3>1 DEF Cell
      <3> QED BY <3>2, <3>3
    <2>2. \A i \in 1..n : cells'[d + i - 1] = cells[d + i - 1]
      <3>1. Storage(live[o].at, live[o].size) = d..d + n - 1
        BY DEF Storage
      <3> HIDE DEF n, d
      <3>2. \A i \in 1..n : d + i - 1 \in d..d + n - 1
        BY <2>1
      <3> QED BY <1>2, <3>1, <3>2
    <2>3. Content(o) = [i \in 1..n |-> cells[d + i - 1]]
      BY <1>2 DEF Content
    <2>4. Content(o)' = [i \in 1..n |-> cells'[d + i - 1]]
      BY <1>2 DEF Content, Held, Cell, CellsOf
    <2> HIDE DEF n, d
    <2> QED BY <2>2, <2>3, <2>4
  <1> QED BY <1>1, <1>2

(* The storage of the owners, as long as it is theirs.                      *)
LEMMA HeldStored ==
    ASSUME OwnInv, NEW o \in Owners, Held(o), pc \notin {"merge", "return"}
    PROVE  Stored(header, base, live[o].at, live[o].size)
  <1>1. Has(o) /\ ~ InPlace(o)
    BY DEF Has, Gone, InPlace
  <1> QED BY <1>1 DEF OwnInv, Owned, SizeOf

Untouched ==
    \A o \in Owners : Held(o) => \A c \in Storage(live[o].at, live[o].size) : cells'[c] = cells[c]

(* A header between blocks.                                                 *)
LEMMA HeadOutside ==
    ASSUME IInv, Shape, NEW n \in Nat, (n % 8) = 0, NEW p, NEW s, Stored(header, base, p, s),
           \A x \in DOMAIN header : header[x].size # 0 => Behind(x) <= n \/ n <= x
    PROVE  n \div 8 \notin Storage(p, s)
  <1>1. PICK x \in DOMAIN header :
              /\ p = Pointer(x) /\ header[x].size = s /\ s # 0 /\ s \in Nat
              /\ header[x].span \in Nat /\ s <= header[x].span - 8
              /\ p + s <= base + Behind(x) /\ p = base + x + 8 /\ x \in Nat
    BY StoredAt
  <1>2. 8 * (n \div 8) = n
    OBVIOUS
  <1>3. Behind(x) \in Nat /\ (Behind(x) <= n \/ n <= x)
    BY <1>1, BlockFacts DEF IInv
  <1>4. ASSUME n \div 8 \in Storage(p, s) PROVE FALSE
    <2>1. x + 8 <= n /\ n + 8 <= Behind(x)
      BY <1>1, <1>2, <1>4, BlockCells
    <2> QED BY <2>1, <1>1, <1>3
  <1> QED BY <1>4

LEMMA HeadUntouched ==
    ASSUME OwnInv, AllocSplit \/ AllocExtend
    PROVE  Untouched
  <1> USE DEF OwnInv
  <1>1. PICK n \in Nat : /\ (n % 8) = 0 /\ cells' = Head(n)
                         /\ \A x \in DOMAIN header : header[x].size # 0 => Behind(x) <= n \/ n <= x
    <2>1. CASE AllocSplit
      <3>1. /\ offset \in DOMAIN header /\ ~ Unservable /\ IsHole(offset)
            /\ header[offset].span - Span >= 16 /\ cells' = Head(offset + Span)
        BY <2>1 DEF AllocSplit, Scanning, HeaderAt, Fits
      <3>2. Span \in Nat /\ (Span % 8) = 0
        BY <3>1, SpanFacts
      <3>3. offset \in Nat /\ (offset % 8) = 0 /\ header[offset].span \in Nat
        BY <3>1 DEF IInv, Tiling, IsBlock
      <3>4. offset + Span \in Nat /\ ((offset + Span) % 8) = 0 /\ offset + Span <= Behind(offset)
        BY <3>1, <3>2, <3>3, MultipleSum DEF Behind
      <3>5. ASSUME NEW x \in DOMAIN header, header[x].size # 0
            PROVE  Behind(x) <= offset + Span \/ offset + Span <= x
        <4>1. x # offset /\ x \in Nat /\ Behind(x) \in Nat /\ Behind(offset) \in Nat
          BY <3>1, <3>5, BlockFacts DEF IsHole, IInv
        <4>2. Behind(x) <= offset \/ Behind(offset) <= x
          BY <4>1, <3>1, <3>3, BlockFacts DEF IInv
        <4> QED BY <4>1, <4>2, <3>2, <3>3, <3>4
      <3> QED BY <3>1, <3>4, <3>5
    <2>2. CASE AllocExtend
      <3>1. used \in Nat /\ (used % 8) = 0 /\ cells' = Head(used)
        BY <2>2 DEF AllocExtend, IInv, Tiling
      <3>2. \A x \in DOMAIN header : Behind(x) <= used
        BY DEF IInv, Tiling, IsBlock, Behind
      <3> QED BY <3>1, <3>2
    <2> QED BY <2>1, <2>2
  <1>2. pc = "alloc"
    BY DEF AllocSplit, AllocExtend, Scanning
  <1>3. ASSUME NEW o \in Owners, Held(o), NEW c \in Storage(live[o].at, live[o].size)
        PROVE  cells'[c] = cells[c]
    <2>1. Stored(header, base, live[o].at, live[o].size)
      BY <1>2, <1>3, HeldStored
    <2>2. c \in DOMAIN cells /\ c # n \div 8
      BY <2>1, <1>1, <1>3, StoredCells, HeadOutside
    <2> QED BY <2>2, <1>1 DEF Head
  <1> QED BY <1>3 DEF Untouched

LEMMA FewerCells ==
    ASSUME NEW p, NEW s \in Nat, NEW t \in Nat, s <= t, Cell(p) \in Int
    PROVE  Storage(p, s) \subseteq Storage(p, t)
  <1>1. CellsOf(s) \in Nat /\ CellsOf(t) \in Nat /\ CellsOf(s) <= CellsOf(t)
    BY DEF CellsOf
  <1> QED BY <1>1 DEF Storage

(* While a call holds a new block, the old storage is elsewhere.            *)
LEMMA NewApart ==
    ASSUME OwnInv, Made, pc \in {"clear", "copy"}
    PROVE  /\ Stored(header, base, result, Wanted)
           /\ \A o \in Owners : Held(o) =>
                 Storage(live[o].at, live[o].size) \cap Storage(result, Wanted) = {}
  <1>1. Stored(header, base, result, Wanted)
    BY DEF OwnInv, Owned
  <1>2. ASSUME NEW o \in Owners, Held(o)
        PROVE  Storage(live[o].at, live[o].size) \cap Storage(result, Wanted) = {}
    <2>1. Stored(header, base, live[o].at, live[o].size)
      BY <1>2, HeldStored
    <2>2. live[o].at # result
      BY DEF OwnInv, Owned
    <2> QED BY <1>1, <2>1, <2>2, StoredApart DEF OwnInv
  <1> QED BY <1>1, <1>2

LEMMA CopyFacts ==
    ASSUME OwnInv, Copy
    PROVE  /\ Made /\ ~ Fresh /\ call.owner \in Owners /\ Held(call.owner)
           /\ live[call.owner].at = call.pointer /\ OldSize = live[call.owner].size
           /\ Storage(result, OldSize) \subseteq Storage(result, Wanted)
           /\ Storage(result, OldSize) \subseteq DOMAIN cells
  <1> USE DEF OwnInv
  <1>1. Made /\ ~ Fresh /\ Grows /\ call.owner \in Owners /\ pc = "copy"
    BY DEF Copy, Stage, Made
  <1>2. live[call.owner].at = call.pointer /\ Held(call.owner) /\ call.op = "realloc"
    BY <1>1 DEF Shape, Fresh, Held, Made
  <1>3. Stored(header, base, call.pointer, live[call.owner].size)
    BY <1>1, <1>2, HeldStored
  <1>4. OldSize = live[call.owner].size
    <2>1. PICK x \in DOMAIN header : call.pointer = base + x + 8 /\ header[x].size = live[call.owner].size
      BY <1>3 DEF Stored
    <2>2. x \in Nat /\ base \in Nat
      BY DEF IInv, Sane, Tiling, IsBlock
    <2>3. call.pointer - 8 - base = x
      BY <2>1, <2>2
    <2> QED BY <2>1, <2>3 DEF OldSize
  <1>5. /\ OldSize \in Nat /\ Wanted \in Nat /\ OldSize <= Wanted
    <2>1. Wanted = call.size /\ call.size \in Nat /\ live[call.owner].size \in Nat
      BY <1>1, <1>2, OneObject DEF IInv, Sane, Shape
    <2> QED BY <2>1, <1>1, <1>4 DEF Grows
  <1>6. Stored(header, base, result, Wanted)
    BY <1>1 DEF Owned
  <1>7. Cell(result) \in Int
    <2>1. result \in Nat /\ base \in Nat
      BY <1>6, StoredFacts DEF IInv, Sane
    <2> QED BY <2>1 DEF Cell
  <1>8. Storage(result, OldSize) \subseteq Storage(result, Wanted)
    BY <1>5, <1>7, FewerCells
  <1> QED BY <1>1, <1>2, <1>4, <1>6, <1>8, StoredCells

LEMMA StepUntouched ==
    ASSUME OwnInv, Step, ~ Return
    PROVE  Untouched /\ Within
  <1>1. Within
    BY DEF Step, AllocRefuse, AllocSkip, AllocSplit, AllocWhole, AllocExtend, Clear, SearchFails,
           SearchSkip, SearchFrees, ResizeInPlace, ResizeMoves, Copy, FreeFails, FindStep, FreeBlock,
           MergeDone, MergeSkip, Absorb, Trim, Scanning, Searching, AtBlock, AtHole, Place,
           Finish, Goto, Within, region
  <1> SUFFICES Untouched
    BY <1>1
  <1>2. CASE AllocSplit \/ AllocExtend
    BY <1>2, HeadUntouched
  <1>3. CASE Clear
    <2>1. Made /\ pc = "clear"
      BY <1>3 DEF Clear, OwnInv, Stage
    <2>2. ASSUME NEW o \in Owners, Held(o), NEW c \in Storage(live[o].at, live[o].size)
          PROVE  cells'[c] = cells[c]
      <3>1. c \in DOMAIN cells
        BY <2>1, <2>2, HeldStored, StoredCells DEF OwnInv
      <3>2. c \notin Storage(result, Wanted)
        BY <2>1, <2>2, NewApart
      <3> QED BY <1>3, <3>1, <3>2 DEF Clear
    <2> QED BY <2>2 DEF Untouched
  <1>4. CASE Copy
    <2>1. Made /\ pc = "copy"
      BY <1>4, CopyFacts DEF Copy
    <2>2. ASSUME NEW o \in Owners, Held(o), NEW c \in Storage(live[o].at, live[o].size)
          PROVE  cells'[c] = cells[c]
      <3>1. c \in DOMAIN cells
        BY <2>1, <2>2, HeldStored, StoredCells DEF OwnInv
      <3>2. c \notin Storage(result, OldSize)
        BY <2>1, <2>2, <1>4, NewApart, CopyFacts
      <3> QED BY <1>4, <3>1, <3>2 DEF Copy
    <2> QED BY <2>2 DEF Untouched
  <1>5. CASE ~ (AllocSplit \/ AllocExtend \/ Clear \/ Copy)
    <2>1. cells' = cells
      BY <1>5 DEF Step, AllocRefuse, AllocSkip, AllocWhole, SearchFails,
           SearchSkip, SearchFrees, ResizeInPlace, ResizeMoves, FreeFails, FindStep, FreeBlock,
           MergeDone, MergeSkip, Absorb, Trim
    <2> QED BY <2>1 DEF Untouched
  <1> QED BY <1>2, <1>3, <1>4, <1>5

(* What a call leaves in the block it returns.                              *)
HeapInv == OwnInv /\ Zeroed /\ Copied

LEMMA ClearZeroes == ASSUME OwnInv, Clear PROVE Zeroed' /\ Copied'
  <1>1. Made /\ call.op = "calloc" /\ pc = "clear" /\ Fresh
    BY DEF Clear, OwnInv, Stage, Shape
  <1>2. /\ UNCHANGED <<base, call, live, result>> /\ Wanted' = Wanted
        /\ Storage(result, Wanted)' = Storage(result, Wanted)
    BY DEF Clear, region, Wanted, Storage, Cell, CellsOf
  <1>3. Storage(result, Wanted) \subseteq DOMAIN cells
    BY <1>1, StoredCells DEF OwnInv, Owned
  <1>4. \A c \in Storage(result, Wanted) : cells'[c] = "zero"
    BY <1>3 DEF Clear
  <1>5. Fresh'
    BY <1>1, <1>2 DEF Fresh
  <1> QED BY <1>2, <1>4, <1>5 DEF Zeroed, Copied

LEMMA CopyCopies == ASSUME OwnInv, Copy PROVE Zeroed' /\ Copied'
  <1> DEFINE o == call.owner
             n == CellsOf(live[o].size)
             d == Cell(result)
             e == Cell(call.pointer)
  <1>1. /\ Made /\ ~ Fresh /\ o \in Owners /\ Held(o)
        /\ live[o].at = call.pointer /\ OldSize = live[o].size
        /\ Storage(result, OldSize) \subseteq DOMAIN cells
    BY CopyFacts
  <1>2. UNCHANGED <<base, call, live, result>> /\ pc = "copy" /\ pc' = "find"
    BY DEF Copy, region, Goto
  <1>3. Untouched
    BY StepUntouched DEF Step, Copy, Return
  <1>4. n \in Nat /\ d \in Int /\ e \in Int
    <2>1. Stored(header, base, result, Wanted) /\ live[o].size \in Nat /\ live[o].at \in Nat
      BY <1>1, <1>2, NewApart DEF OwnInv, Shape
    <2>2. result \in Nat /\ base \in Nat
      BY <2>1, StoredFacts DEF OwnInv, IInv, Sane
    <2> QED BY <2>1, <2>2, <1>1 DEF Cell, CellsOf
  <1>5. Storage(result, OldSize) = d..d + n - 1 /\ Storage(call.pointer, live[o].size) = e..e + n - 1
    BY <1>1 DEF Storage
  <1>6. cells' = [c \in DOMAIN cells |-> IF c \in d..d + n - 1 THEN cells[e + (c - d)] ELSE cells[c]]
    BY <1>5 DEF Copy
  <1>7. d..d + n - 1 \subseteq DOMAIN cells /\ \A c \in e..e + n - 1 : cells'[c] = cells[c]
    BY <1>1, <1>3, <1>5 DEF Untouched
  <1>8. ASSUME NEW i \in 0..n - 1
        PROVE  cells'[d + i] = cells'[e + i]
    <2> HIDE DEF d, e, n
    <2>1. d + i \in d..d + n - 1 /\ e + i \in e..e + n - 1 /\ (d + i) - d = i
      BY <1>4
    <2>2. cells'[d + i] = cells[e + ((d + i) - d)]
      <3> DEFINE c == d + i
      <3>1. c \in d..d + n - 1 /\ c \in DOMAIN cells
        BY <2>1, <1>7
      <3> HIDE DEF c
      <3>2. cells'[c] = cells[e + (c - d)]
        BY <3>1, <1>6
      <3> QED BY <3>2 DEF c
    <2> QED BY <2>1, <2>2, <1>7
  <1>9. /\ CellsOf(live[call.owner].size)' = n
        /\ Cell(result)' = d /\ Cell(call.pointer)' = e
    BY <1>2 DEF CellsOf, Cell
  <1>10. Copied'
    BY <1>8, <1>9 DEF Copied
  <1> QED BY <1>2, <1>10 DEF Zeroed

LEMMA StepContents == ASSUME HeapInv, Step PROVE Zeroed' /\ Copied'
  <1> USE DEF HeapInv, OwnInv
  <1>1. CASE Clear
    BY <1>1, ClearZeroes
  <1>2. CASE Copy
    BY <1>2, CopyCopies
  <1>3. CASE Return
    BY <1>3 DEF Return, Zeroed, Copied
  <1>4. CASE AllocSplit \/ AllocWhole \/ AllocExtend
    <2>1. /\ pc = "alloc" /\ UNCHANGED <<call, live>>
          /\ pc' = CASE call.op = "realloc" /\ call.pointer # 0 -> "copy"
                     [] call.op = "calloc" -> "clear"
                     [] OTHER -> "return"
      BY <1>4 DEF AllocSplit, AllocWhole, AllocExtend, Scanning, Place
    <2>2. ~ Fresh => call.op = "realloc"
      BY <2>1 DEF Stage, Shape
    <2> QED BY <2>1, <2>2 DEF Zeroed, Copied, Fresh
  <1>5. CASE AllocRefuse \/ AllocSkip \/ SearchFails \/ SearchSkip \/ SearchFrees \/ ResizeInPlace
             \/ ResizeMoves
    <2>1. UNCHANGED <<call, live>> /\ (result' = 0 \/ result' = call.pointer \/ pc' \in {"alloc", "search"})
      BY <1>5 DEF AllocRefuse, AllocSkip, SearchFails, SearchSkip, SearchFrees, ResizeInPlace,
           ResizeMoves, Finish, Goto, Stage, AtBlock, Searching, Scanning
    <2> QED BY <2>1 DEF Zeroed, Copied, Made
  <1>6. CASE FreeFails \/ FindStep \/ FreeBlock \/ MergeDone \/ MergeSkip \/ Absorb \/ Trim
    <2>1. /\ UNCHANGED <<base, call, live, cells>> /\ pc \in {"find", "merge"}
          /\ result' = result \/ result' = Status(0) \/ result' = Status(1)
      BY <1>6 DEF FreeFails, FindStep, FreeBlock, MergeDone, MergeSkip, Absorb, Trim, AtHole, Finish,
           Goto, region
    <2>2. ~ Fresh /\ call.op # "calloc" /\ (Fresh' <=> Fresh)
      BY <2>1 DEF Stage, Releases, Shape, Fresh
    <2>3. call.op # "free" => result' = result
      BY <2>1 DEF Status
    <2>4. Made' => Made /\ result' = result
      BY <2>1, <2>3 DEF Made
    <2>5. Made' => Copied'
      BY <2>1, <2>2, <2>4 DEF Copied, Cell, CellsOf
    <2> QED BY <2>1, <2>2, <2>5 DEF Zeroed, Copied
  <1> QED BY <1>1, <1>2, <1>3, <1>4, <1>5, <1>6 DEF Step

LEMMA NextHeap == HeapInv /\ [Next]_vars => HeapInv'
  <1> SUFFICES ASSUME HeapInv, [Next]_vars PROVE HeapInv'
    OBVIOUS
  <1>1. OwnInv'
    BY NextOwn DEF HeapInv
  <1>2. CASE Step
    BY <1>1, <1>2, StepContents DEF HeapInv
  <1>3. CASE Call \/ Reset \/ \E o \in Owners : Write(o)
    <2>1. pc = "idle" /\ result' = result
      BY <1>3 DEF Call, CallAlloc, CallCalloc, CallFree, CallRealloc, Asks, Reset, Write
    <2>2. result' = 0
      BY <2>1 DEF HeapInv, OwnInv, Shape
    <2> QED BY <1>1, <2>2 DEF HeapInv, Zeroed, Copied, Made
  <1>4. CASE UNCHANGED vars
    <2>1. UNCHANGED <<base, cells, live, call, pc, result>>
      BY <1>4 DEF vars, region
    <2>2. Zeroed' /\ Copied'
      BY <2>1 DEF HeapInv, Zeroed, Copied, Made, Fresh, Wanted, Storage, Cell, CellsOf
    <2> QED BY <1>1, <2>2 DEF HeapInv
  <1> QED BY <1>2, <1>3, <1>4 DEF Next

(* The block calloc returns is cleared, and the block realloc moves to has  *)
(* what the old one had, from the end of the loop that writes it until the  *)
(* program takes the result.                                                *)
THEOREM ContentsInvariance == Spec => []HeapInv
  <1>1. Init => HeapInv
    BY InitOwn DEF Init, HeapInv, Zeroed, Copied
  <1> QED BY <1>1, NextHeap, PTL DEF Spec

----------------------------------------------------------------------------
(* The refinement.  All steps but the return leave the heap as it is.       *)
LEMMA SameHeap ==
    ASSUME \A o \in Owners : Content(o)' = Content(o)
    PROVE  [o \in Owners |-> Content(o)]' = [o \in Owners |-> Content(o)]
  OBVIOUS

LEMMA StepStutters == ASSUME OwnInv, Step, ~ Return PROVE UNCHANGED Abstract!vars
  <1>1. UNCHANGED <<base, capacity, live, call>> /\ Untouched
    BY StepUntouched DEF Within
  <1>2. \A o \in Owners : Content(o)' = Content(o)
    BY <1>1, ContentSame DEF OwnInv, Untouched
  <1> QED BY <1>1, <1>2, SameHeap DEF Abstract!vars

LEMMA QuietStutters == ASSUME OwnInv, UNCHANGED vars PROVE UNCHANGED Abstract!vars
  <1>1. UNCHANGED <<base, capacity, live, call, cells>>
    BY DEF vars, region
  <1>2. \A o \in Owners : Content(o)' = Content(o)
    BY <1>1, ContentSame DEF OwnInv
  <1> QED BY <1>1, <1>2, SameHeap DEF Abstract!vars

LEMMA CallAsks == ASSUME OwnInv, Call PROVE Abstract!Ask
  <1>1. pc = "idle" /\ UNCHANGED <<base, capacity, live, cells>>
    BY DEF Call, CallAlloc, CallCalloc, CallFree, CallRealloc, Asks, region
  <1>2. call = Idle /\ call' # Idle
    BY <1>1, Asking DEF OwnInv, Shape, Asked, Idle
  <1>3. \A o \in Owners : Content(o)' = Content(o)
    BY <1>1, ContentSame DEF OwnInv
  <1> QED BY <1>1, <1>2, <1>3, SameHeap DEF Abstract!Ask, Abstract!Idle, Idle

(* Between calls every owner has its block.                                 *)
LEMMA IdleStored ==
    ASSUME OwnInv, pc = "idle", NEW o \in Owners, Held(o)
    PROVE  Stored(header, base, live[o].at, live[o].size)
  BY HeldStored

(* Contents by their cells.                                                 *)
LEMMA ContentIs ==
    ASSUME NEW o \in Owners, Held(o)
    PROVE  Content(o) = [i \in 1..CellsOf(live[o].size) |-> cells[Cell(live[o].at) + i - 1]]
  BY DEF Content

LEMMA WriteWrites == ASSUME OwnInv, NEW o \in Owners, Write(o) PROVE Abstract!Write(o)
  <1>1. pc = "idle" /\ Held(o) /\ call = Idle /\ UNCHANGED <<base, capacity, live, call>>
    BY DEF Write, OwnInv, Shape, region
  <1>2. Stored(header, base, live[o].at, live[o].size)
    BY <1>1, IdleStored
  <1>3. ASSUME NEW q \in Owners, q # o
        PROVE  Content(q)' = Content(q)
    <2>1. ASSUME Held(q), NEW c \in Storage(live[q].at, live[q].size)
          PROVE  cells'[c] = cells[c]
      <3>1. Stored(header, base, live[q].at, live[q].size)
        BY <1>1, <2>1, IdleStored
      <3>2. live[q].at # live[o].at
        BY <1>1, <1>3, <2>1 DEF OwnInv, Owned
      <3>3. c \in DOMAIN cells /\ c \notin Storage(live[o].at, live[o].size)
        BY <3>1, <3>2, <1>2, <2>1, StoredCells, StoredApart DEF OwnInv
      <3> QED BY <3>3 DEF Write
    <2> QED BY <2>1, <1>1, ContentSame DEF OwnInv
  <1>4. Content(o)' = [i \in 1..CellsOf(live[o].size) |-> o]
    <2> DEFINE n == CellsOf(live[o].size)
               d == Cell(live[o].at)
    <2>1. n \in Nat /\ d \in Int
      <3>1. live[o].size \in Nat /\ live[o].at \in Nat /\ base \in Nat
        BY DEF OwnInv, Shape, IInv, Sane
      <3> QED BY <3>1 DEF CellsOf, Cell
    <2>2. Content(o)' = [i \in 1..n |-> cells'[d + i - 1]]
      BY <1>1 DEF Content, Held, Cell, CellsOf
    <2>3. Storage(live[o].at, live[o].size) = d..d + n - 1
      BY DEF Storage
    <2>4. \A c \in d..d + n - 1 : cells'[c] = o
      BY <1>2, <2>3, StoredCells DEF Write, OwnInv
    <2>5. \A i \in 1..n : cells'[d + i - 1] = o
      <3> HIDE DEF n, d
      <3>1. \A i \in 1..n : d + i - 1 \in d..d + n - 1
        BY <2>1
      <3> QED BY <3>1, <2>4
    <2> HIDE DEF n, d
    <2>6. Content(o)' = [i \in 1..n |-> o]
      BY <2>2, <2>5
    <2> QED BY <2>6 DEF n
  <1>5. [q \in Owners |-> Content(q)]'
          = [[q \in Owners |-> Content(q)] EXCEPT ![o] = [i \in 1..CellsOf(live[o].size) |-> o]]
    BY <1>3, <1>4
  <1>6. Abstract!Held(o) /\ Abstract!CellsOf(live[o].size) = CellsOf(live[o].size)
    BY <1>1 DEF Abstract!Held, Held, Abstract!CellsOf, CellsOf
  <1> QED BY <1>1, <1>5, <1>6 DEF Abstract!Write, Abstract!Idle, Idle

LEMMA ResetResets == ASSUME OwnInv, Reset PROVE Abstract!Reset
  <1>1. call = Idle /\ UNCHANGED <<base, capacity, call>> /\ live' = [o \in Owners |-> Nowhere]
    BY DEF Reset, OwnInv, Shape, region
  <1>2. \A o \in Owners : Content(o)' = << >>
    BY <1>1 DEF Content, Held, Nowhere
  <1>3. [o \in Owners |-> Content(o)]' = [o \in Owners |-> << >>]
    BY <1>2
  <1> QED BY <1>1, <1>3 DEF Abstract!Reset, Abstract!Idle, Idle, Abstract!Nowhere, Nowhere

LEMMA InitStarts == Init => Abstract!Init
  <1> SUFFICES ASSUME Init PROVE Abstract!Init
    OBVIOUS
  <1>1. OwnInv
    BY InitOwn
  <1>2. base \in Nat /\ (base % 8) = 0 /\ capacity \in Nat
    BY <1>1 DEF OwnInv, IInv, Sane
  <1>3. \A o \in Owners : Content(o) = << >>
    BY DEF Init, Content, Held, Nowhere
  <1> QED BY <1>2, <1>3 DEF Init, Abstract!Init, Abstract!Idle, Idle, Abstract!Nowhere, Nowhere

(* The return.  What an owner has after it is in a block of its own, and    *)
(* nothing in it has been written to.                                       *)
LEMMA ReturnKeeps ==
    ASSUME OwnInv, Return, NEW o \in Owners, live'[o].at # 0
    PROVE  /\ Stored(header, base, live'[o].at, live'[o].size)
           /\ \A c \in Storage(live'[o].at, live'[o].size) : cells'[c] = cells[c]
  <1>1. OwnInv'
    BY NextOwn DEF Next, Step
  <1>2. pc' = "idle" /\ call' = Idle /\ result' = 0 /\ UNCHANGED <<header, base, capacity>>
    BY DEF Return, region
  <1>3. Has(o)' /\ ~ InPlace(o)'
    BY <1>2 DEF Has, Held, Gone, InPlace, Idle
  <1>4. Stored(header, base, live'[o].at, live'[o].size)
    BY <1>1, <1>2, <1>3 DEF OwnInv, Owned, SizeOf
  <1>5. Storage(live'[o].at, live'[o].size) \subseteq DOMAIN cells
    BY <1>4, StoredCells DEF OwnInv
  <1>6. \A c \in DOMAIN cells : c \in Storage(live'[o].at, live'[o].size) => cells'[c] = cells[c]
    BY DEF Return, Forget
  <1> QED BY <1>4, <1>5, <1>6

LEMMA OthersContent ==
    ASSUME OwnInv, Return, NEW q \in Owners, live'[q] = live[q]
    PROVE  Content(q)' = Content(q)
  <1>1. base' = base
    BY DEF Return, region
  <1>2. Held(q) => \A c \in Storage(live[q].at, live[q].size) : cells'[c] = cells[c]
    BY ReturnKeeps DEF Held
  <1> QED BY <1>1, <1>2, ContentSame DEF OwnInv

LEMMA Answering ==
    ASSUME OwnInv, Return
    PROVE  /\ Abstract!Answer
           /\ call.owner \in Owners => live' = [live EXCEPT ![call.owner] = Returned]
           /\ call.owner \notin Owners => live' = live
           /\ \A q \in Owners : q # call.owner => live'[q] = live[q] /\ Content(q)' = Content(q)
           /\ live \in [Owners -> [at : Nat, size : Nat]]
  <1>1. call # Idle /\ call' = Idle /\ UNCHANGED <<base, capacity>>
    BY DEF Return, OwnInv, Shape, Idle, region
  <1>2. live \in [Owners -> [at : Nat, size : Nat]]
    BY DEF OwnInv, Shape
  <1>3. /\ call.owner \in Owners => live' = [live EXCEPT ![call.owner] = Returned]
        /\ call.owner \notin Owners => live' = live
    BY DEF Return
  <1>4. \A q \in Owners : q # call.owner => live'[q] = live[q]
    BY <1>2, <1>3
  <1>5. Abstract!Answer
    BY <1>1 DEF Abstract!Answer, Abstract!Idle, Idle
  <1> QED BY <1>2, <1>3, <1>4, <1>5, OthersContent

(* Nothing changes but for the failure of a call.                           *)
LEMMA Refuses ==
    ASSUME OwnInv, Return, live' = live,
           call.owner \in Owners /\ Held(call.owner) /\ live[call.owner].at = call.pointer =>
               call.op = "realloc" /\ call.count * call.size > live[call.owner].size
    PROVE  Abstract!Refuse
  <1>1. \A o \in Owners : Content(o)' = Content(o)
    BY OthersContent
  <1> QED BY <1>1, SameHeap, Answering
          DEF Abstract!Refuse, Abstract!Holds, Abstract!Held, Held, Abstract!Bytes

LEMMA Releasing ==
    ASSUME OwnInv, Return, NEW o \in Owners, o = call.owner, Returned = Nowhere, ~ Fresh,
           Held(o), live[o].at = call.pointer,
           call.op = "free" \/ (call.op = "realloc" /\ call.count * call.size = 0)
    PROVE  Abstract!Release
  <1>1. live' = [live EXCEPT ![o] = Nowhere] /\ live \in [Owners -> [at : Nat, size : Nat]]
    BY Answering
  <1>2. Content(o)' = << >>
    <2>1. live'[o] = Nowhere
      BY <1>1
    <2> QED BY <2>1 DEF Content, Held, Nowhere
  <1>3. [q \in Owners |-> Content(q)]' = [[q \in Owners |-> Content(q)] EXCEPT ![o] = << >>]
    BY <1>2, Answering
  <1> QED BY <1>1, <1>3, Answering
          DEF Abstract!Release, Abstract!Holds, Abstract!Held, Held, Abstract!Bytes, Abstract!Fresh,
              Fresh, Abstract!Nowhere, Nowhere

(* The block that is granted, or resized.                                   *)
LEMMA Settling ==
    ASSUME OwnInv, Return, NEW o \in Owners, o = call.owner,
           Returned = [at |-> result, size |-> Wanted], Stored(header, base, result, Wanted),
           \A q \in Owners : q # o /\ Held(q) => live[q].at # result
    PROVE  Abstract!Settles(o, [at |-> result, size |-> Wanted])
  <1> DEFINE place == [at |-> result, size |-> Wanted]
  <1>1. live' = [live EXCEPT ![o] = place]
    BY Answering
  <1>2. (result % 8) = 0 /\ base <= result /\ result + Wanted <= base + capacity
    BY StoredPlace DEF OwnInv
  <1>3. ASSUME NEW q \in Owners \ {o}, Held(q)
        PROVE  result + Wanted <= live[q].at \/ live[q].at + live[q].size <= result
    <2>1. live'[q] = live[q] /\ live[q].at # result
      BY <1>3, Answering
    <2>2. Stored(header, base, live[q].at, live[q].size)
      BY <1>3, <2>1, ReturnKeeps DEF Held
    <2> QED BY <2>1, <2>2, StoredApart DEF OwnInv
  <1> QED BY <1>1, <1>2, <1>3 DEF Abstract!Settles, Abstract!Held, Held, Abstract!Apart

LEMMA Filling ==
    ASSUME OwnInv, Return, NEW o \in Owners, o = call.owner,
           Returned = [at |-> result, size |-> Wanted], Stored(header, base, result, Wanted)
    PROVE  /\ Abstract!Fills(o, [at |-> result, size |-> Wanted])
           /\ live'[o] = [at |-> result, size |-> Wanted]
           /\ CellsOf(Wanted) \in Nat /\ Cell(result) \in Int
           /\ Content(o)' =
                [i \in 1..CellsOf(Wanted) |-> cells[Cell(result) + i - 1]]
  <1> DEFINE n == CellsOf(Wanted)
             d == Cell(result)
  <1>1. live'[o] = [at |-> result, size |-> Wanted]
    BY Answering
  <1>2. result \in Nat /\ result # 0 /\ Wanted \in Nat /\ base \in Nat /\ base' = base
    BY StoredFacts DEF OwnInv, IInv, Sane, Return, region
  <1>3. n \in Nat /\ d \in Int
    BY <1>2 DEF CellsOf, Cell
  <1>4. \A c \in d..d + n - 1 : cells'[c] = cells[c]
    BY <1>1, <1>2, ReturnKeeps DEF Storage
  <1>5. Content(o)' = [i \in 1..n |-> cells'[d + i - 1]]
    BY <1>1, <1>2 DEF Content, Held, Cell, CellsOf
  <1>6. \A i \in 1..n : cells'[d + i - 1] = cells[d + i - 1]
    <2> HIDE DEF n, d
    <2>1. \A i \in 1..n : d + i - 1 \in d..d + n - 1
      BY <1>3
    <2> QED BY <2>1, <1>4
  <1>7. Content(o)' = [i \in 1..n |-> cells[d + i - 1]]
    <2> HIDE DEF n, d
    <2> QED BY <1>5, <1>6
  <1>9. [q \in Owners |-> Content(q)]'
          = [[q \in Owners |-> Content(q)] EXCEPT ![o] = [q \in Owners |-> Content(q)]'[o]]
    BY Answering
  <1>10. Abstract!CellsOf(Wanted) = n
    BY DEF Abstract!CellsOf, CellsOf
  <1>11. Abstract!Fills(o, [at |-> result, size |-> Wanted])
    <2> HIDE DEF n, d
    <2> QED BY <1>3, <1>7, <1>9, <1>10 DEF Abstract!Fills
  <1> QED BY <1>1, <1>3, <1>7, <1>11

(* What is asked for, in bytes.                                             *)
LEMMA AskedBytes ==
    ASSUME OwnInv, pc = "return"
    PROVE  /\ result # 0 /\ call.op # "free" => Wanted = call.count * call.size
           /\ call.op = "realloc" => call.count * call.size = call.size
  <1>1. call.op = "realloc" => call.count = 1 /\ call.size \in Nat
    BY DEF OwnInv, Shape, IInv, Sane
  <1> QED BY <1>1 DEF OwnInv, Stage

LEMMA ReturnsNothing ==
    ASSUME OwnInv, Return, NEW o \in Owners, o = call.owner,
           Returned = Nowhere, ~ Has(o), ~ Made
    PROVE  Abstract!Release \/ Abstract!Refuse
  <1> USE DEF OwnInv
  <1>1. pc = "return"
    BY DEF Return
  <1>2. CASE Fresh
    <2>1. ~ Held(o) /\ live[o] = Nowhere
      BY <1>1, <1>2 DEF Shape
    <2>2. live' = live
      BY <2>1, Answering
    <2> QED BY <2>1, <2>2, Refuses
  <1>3. CASE ~ Fresh
    <2>1. live[o].at = call.pointer /\ Held(o) /\ Gone(o)
      BY <1>1, <1>3 DEF Shape, Fresh, Held, Has
    <2>2. call.op = "free" \/ (call.op = "realloc" /\ call.size = 0)
      BY <1>1, <2>1 DEF Gone
    <2>3. call.op = "free" \/ (call.op = "realloc" /\ call.count * call.size = 0)
      BY <1>1, <2>2, AskedBytes
    <2> QED BY <1>3, <2>1, <2>3, Releasing
  <1> QED BY <1>2, <1>3

LEMMA ReturnsNull ==
    ASSUME OwnInv, Return, NEW o \in Owners, o = call.owner,
           Returned = live[o], result = 0, ~ Made, ~ Gone(o)
    PROVE  Abstract!Refuse
  <1> USE DEF OwnInv
  <1>1. pc = "return" /\ o # "nobody" /\ live' = live
    BY Answering, OwnersAssumption DEF Return
  <1>2. ASSUME Held(o), live[o].at = call.pointer
        PROVE  call.op = "realloc" /\ call.count * call.size > live[o].size
    <2>1. ~ Fresh /\ call.op = "realloc" /\ call.size # 0
      BY <1>1, <1>2 DEF Shape, Held, Fresh, Gone
    <2>2. Grows
      BY <1>1, <2>1 DEF Stage
    <2> QED BY <1>1, <2>1, <2>2, AskedBytes DEF Grows
  <1> QED BY <1>1, <1>2, Refuses

LEMMA ReturnsNew ==
    ASSUME HeapInv, Return, NEW o \in Owners, o = call.owner,
           Returned = [at |-> result, size |-> Wanted], Made, Stored(header, base, result, Wanted)
    PROVE  Abstract!Grant \/ Abstract!Resize
  <1> USE DEF HeapInv, OwnInv
  <1> DEFINE place == [at |-> result, size |-> Wanted]
             n == CellsOf(Wanted)
             d == Cell(result)
  <1>1. /\ pc = "return" /\ result # 0 /\ call.op # "free" /\ Wanted = call.count * call.size
        /\ Wanted > 0 /\ Wanted \in Nat
    BY AskedBytes, StoredFacts DEF Return, Made
  <1>2. Abstract!Settles(o, place)
    BY Settling DEF Owned
  <1>3. /\ Abstract!Fills(o, place) /\ live'[o] = place
        /\ n \in Nat /\ d \in Int
        /\ Content(o)' = [i \in 1..n |-> cells[d + i - 1]]
    BY Filling
  <1>4. Abstract!Answer
    BY Answering
  <1>5. [at |-> live'[o].at, size |-> Abstract!Bytes] = place
    BY <1>1, <1>3 DEF Abstract!Bytes
  <1>6. CASE Fresh
    <2>1. call.op \in {"alloc", "calloc", "realloc"} /\ ~ Held(o)
      BY <1>1, <1>6 DEF Shape
    <2>2. ASSUME call.op = "calloc", NEW i \in 1..n
          PROVE  Content(o)'[i] = "zero"
      <3>1. \A c \in d..d + n - 1 : cells[c] = "zero"
        BY <1>1, <2>2 DEF Zeroed, Storage
      <3> HIDE DEF n, d
      <3>2. d + i - 1 \in d..d + n - 1
        BY <1>3
      <3> QED BY <1>3, <3>1, <3>2
    <2>3. call.op = "calloc" =>
            \A i \in 1..Abstract!CellsOf(Wanted) : [q \in Owners |-> Content(q)]'[o][i] = "zero"
      BY <2>2 DEF Abstract!CellsOf, CellsOf
    <2>4. Abstract!Grant
      BY <1>1, <1>2, <1>3, <1>4, <1>5, <1>6, <2>1, <2>3
         DEF Abstract!Grant, Abstract!Fresh, Fresh, Abstract!Bytes, Abstract!Held, Held, Abstract!Fills
    <2> QED BY <2>4
  <1>7. CASE ~ Fresh
    <2> DEFINE m == CellsOf(live[o].size)
               e == Cell(call.pointer)
    <2>1. /\ call.op = "realloc" /\ live[o].at = call.pointer /\ Held(o) /\ Grows
          /\ live[o].size \in Nat /\ live[o].at \in Nat
      BY <1>1, <1>7 DEF Shape, Fresh, Held, Stage
    <2>2. ~ (Wanted < live[o].size) /\ live[o].size <= Wanted
      BY <1>1, <2>1, AskedBytes DEF Grows
    <2>3. m \in Nat /\ m <= n
      BY <1>1, <2>1, <2>2 DEF CellsOf
    <2>4. Content(o) = [i \in 1..m |-> cells[e + i - 1]]
      BY <2>1, ContentIs
    <2>5. e \in Int
      BY <2>1 DEF Cell, IInv, Sane
    <2>6. \A i \in 0..m - 1 : cells[d + i] = cells[e + i]
      BY <1>1, <1>7 DEF Copied
    <2>7. ASSUME NEW i \in 1..m
          PROVE  Content(o)'[i] = Content(o)[i]
      <3> HIDE DEF n, m, d, e
      <3>1. i - 1 \in 0..m - 1 /\ d + (i - 1) = d + i - 1 /\ e + (i - 1) = e + i - 1 /\ i \in 1..n
        BY <1>3, <2>3, <2>5
      <3>2. cells[d + (i - 1)] = cells[e + (i - 1)]
        BY <2>6, <3>1
      <3> QED BY <1>3, <2>4, <3>1, <3>2
    <2>8. Abstract!CellsOf(live[o].size) = m
      BY DEF Abstract!CellsOf, CellsOf
    <2>9. \A i \in 1..m : [q \in Owners |-> Content(q)]'[o][i] = [q \in Owners |-> Content(q)][o][i]
      BY <2>7
    <2>10. Abstract!Resize
      <3> HIDE DEF m
      <3> QED BY <1>1, <1>2, <1>3, <1>4, <1>5, <1>7, <2>1, <2>2, <2>8, <2>9
         DEF Abstract!Resize, Abstract!Fresh, Fresh, Abstract!Bytes, Abstract!Held, Held, Abstract!Holds
    <2> QED BY <2>10
  <1> QED BY <1>6, <1>7

LEMMA ReturnsInPlace ==
    ASSUME OwnInv, Return, NEW o \in Owners, o = call.owner,
           Returned = [at |-> result, size |-> Wanted], ~ Made,
           live[o].at = result, Has(o), Stored(header, base, result, Wanted)
    PROVE  Abstract!Resize
  <1> USE DEF OwnInv
  <1> DEFINE place == [at |-> result, size |-> Wanted]
             n == CellsOf(Wanted)
             d == Cell(result)
             m == CellsOf(live[o].size)
  <1>1. /\ pc = "return" /\ result # 0 /\ Wanted > 0 /\ Wanted \in Nat
        /\ Held(o) /\ ~ Gone(o) /\ live[o].size \in Nat
    BY StoredFacts DEF Return, Has, Shape
  <1>2. call.op = "realloc" /\ ~ Fresh /\ call.pointer = result /\ Wanted = call.count * call.size
    <2>1. ~ Fresh
      BY <1>1 DEF Shape
    <2>2. call.op # "free"
      BY <1>1 DEF Gone
    <2> QED BY <1>1, <2>1, <2>2, AskedBytes DEF Shape, Made
  <1>3. Abstract!Settles(o, place)
    BY Settling DEF Owned
  <1>4. /\ Abstract!Fills(o, place) /\ live'[o] = place
        /\ n \in Nat /\ d \in Int
        /\ Content(o)' = [i \in 1..n |-> cells[d + i - 1]]
    BY Filling
  <1>5. Abstract!Answer
    BY Answering
  <1>6. [at |-> live'[o].at, size |-> Abstract!Bytes] = place
    BY <1>2, <1>4 DEF Abstract!Bytes
  <1>7. Content(o) = [i \in 1..m |-> cells[d + i - 1]]
    BY <1>1, ContentIs
  <1>8. IF Wanted < live[o].size THEN n <= m ELSE m <= n
    BY <1>1 DEF CellsOf
  <1>9. m \in Nat
    BY <1>1 DEF CellsOf
  <1>10. ASSUME NEW i \in 1..(IF Wanted < live[o].size THEN n ELSE m)
         PROVE  Content(o)'[i] = Content(o)[i]
    <2> HIDE DEF n, m, d
    <2>1. i \in 1..n /\ i \in 1..m
      BY <1>4, <1>8, <1>9
    <2> QED BY <1>4, <1>7, <2>1
  <1>11. /\ Abstract!CellsOf(live[o].size) = m
         /\ Abstract!CellsOf(Wanted) = n
    BY DEF Abstract!CellsOf, CellsOf
  <1>12. \A i \in 1..(IF Wanted < live[o].size THEN n ELSE m) :
            [q \in Owners |-> Content(q)]'[o][i] = [q \in Owners |-> Content(q)][o][i]
    BY <1>10
  <1>13. Abstract!Bytes = Wanted
    BY <1>2 DEF Abstract!Bytes
  <1> HIDE DEF n, m, d
  <1> QED BY <1>1, <1>2, <1>3, <1>4, <1>5, <1>6, <1>11, <1>12, <1>13
         DEF Abstract!Resize, Abstract!Fresh, Fresh, Abstract!Held, Held, Abstract!Holds

LEMMA ReturnAnswers == ASSUME HeapInv, Return PROVE Abstract!Next
  <1> USE DEF HeapInv
  <1>1. CASE call.owner \notin Owners
    <2>1. live' = live
      BY <1>1, Answering
    <2> QED BY <1>1, <2>1, Refuses DEF Abstract!Next
  <1>2. CASE call.owner \in Owners
    <2> DEFINE o == call.owner
    <2>1. CASE Returned = Nowhere /\ ~ Has(o) /\ ~ Made
      BY <1>2, <2>1, ReturnsNothing DEF Abstract!Next
    <2>2. CASE Returned = live[o] /\ result = 0 /\ ~ Made /\ ~ Gone(o)
      BY <1>2, <2>2, ReturnsNull DEF Abstract!Next
    <2>3. CASE /\ Returned = [at |-> result, size |-> Wanted] /\ Made
               /\ Stored(header, base, result, Wanted)
      BY <1>2, <2>3, ReturnsNew DEF Abstract!Next
    <2>4. CASE /\ Returned = [at |-> result, size |-> Wanted] /\ ~ Made
               /\ live[o].at = result /\ Has(o) /\ Stored(header, base, result, Wanted)
      BY <1>2, <2>4, ReturnsInPlace DEF Abstract!Next
    <2> QED BY <1>2, <2>1, <2>2, <2>3, <2>4, Outcome
  <1> QED BY <1>1, <1>2

LEMMA NextImplements == HeapInv /\ [Next]_vars => [Abstract!Next]_(Abstract!vars)
  <1> SUFFICES ASSUME HeapInv, [Next]_vars PROVE [Abstract!Next]_(Abstract!vars)
    OBVIOUS
  <1> USE DEF HeapInv
  <1>1. CASE Step /\ ~ Return
    BY <1>1, StepStutters
  <1>2. CASE Return
    BY <1>2, ReturnAnswers
  <1>3. CASE Call
    BY <1>3, CallAsks DEF Abstract!Next
  <1>4. CASE Reset
    BY <1>4, ResetResets DEF Abstract!Next
  <1>5. CASE \E o \in Owners : Write(o)
    BY <1>5, WriteWrites DEF Abstract!Next
  <1>6. CASE UNCHANGED vars
    BY <1>6, QuietStutters
  <1> QED BY <1>1, <1>2, <1>3, <1>4, <1>5, <1>6 DEF Next

(* The arena of allocator.c implements Heap: every call, with all its walks *)
(* over the headers, changes the storage of the program in one step, at its *)
(* return, as an allocator of aligned, separate and lasting storage would.  *)
THEOREM ArenaImplementsHeap == Spec => ImplementsHeap
  BY ContentsInvariance, InitStarts, NextImplements, PTL DEF Spec, ImplementsHeap, Abstract!Spec
=============================================================================
