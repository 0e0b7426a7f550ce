----------------------------- MODULE ImageLayout -----------------------------
(* Artifact::link_image (saltwater-sia/image.rs) and LinkedImage::load_into *)
(* (image/startup.rs): the definitions of an artifact get addresses, their  *)
(* bytes are copied and patched, and the image is put into RAM.  A step     *)
(* places, copies or patches one thing.  A byte is Zero, byte o of          *)
(* definition i as compiled, <<"raw", i, o>>, or byte b of an address v     *)
(* written by a relocation, <<"abs", v, b>>.                                *)
EXTENDS SiaObject

CONSTANTS
    AddressSpace,  \* number of addresses, 2^32
    Jobs,          \* set of records [artifact, base, entry, max]
    Starts         \* set of records [ram, bottom, top, trap]: calls of load_into

ASSUME AddressSpaceAssumption == AddressSpace \in Nat \ {0}

(* What the types of the arguments and of an Artifact say.                  *)
IsSequence(s) == s \in Seq({s[i] : i \in DOMAIN s})

ASSUME JobsAssumption ==
    \A j \in Jobs :
        /\ j.base \in 0..AddressSpace - 1
        /\ j.max \in Nat
        /\ \A defs \in {j.artifact.functions, j.artifact.data} :
              /\ IsSequence(defs)
              /\ \A i \in DOMAIN defs :
                    /\ defs[i].size \in Nat /\ defs[i].align \in Nat
                    /\ IsSequence(defs[i].relocations)
                    /\ \A k \in DOMAIN defs[i].relocations :
                          LET r == defs[i].relocations[k] IN r.offset \in Nat /\ r.addend \in Int

ASSUME StartsAssumption ==
    \A s \in Starts : {s.ram, s.bottom, s.top, s.trap} \subseteq Nat

VARIABLES
    job,      \* the arguments of link_image
    pc,       \* "check", "place", "write", "linked", "failed" or "no memory",
              \* and after load_into "running" or "not loaded"
    cursor,   \* end of what has been placed
    regions,  \* sequence of [name, address, size, readOnly, executable, zeroFill]
    index,    \* the definition written next
    patches,  \* number of relocations of it that are applied, or -1
    bytes,    \* the image buffer, a function on its offsets
    ram,      \* the RAM load_into was given, a function on addresses
    startup   \* stack and exit trap of the StartupState, from Starts

vars == <<job, pc, cursor, regions, index, patches, bytes, ram, startup>>

Zero == <<"zero">>
Dirty == <<"dirty">>

Init ==
    /\ job \in Jobs
    /\ pc = "check"
    /\ cursor = job.base
    /\ regions = << >>
    /\ index = 1
    /\ patches = -1
    /\ bytes = << >>
    /\ ram = << >>
    /\ startup = << >>

----------------------------------------------------------------------------
(* Functions first, then data; functions are aligned for literal pools.     *)
Defs == job.artifact.functions \o job.artifact.data
IsFunction(i) == i <= Len(job.artifact.functions)
Align(i) == IF IsFunction(i) THEN 4 ELSE Defs[i].align

Limit ==
    IF job.base + job.max < AddressSpace THEN job.base + job.max ELSE AddressSpace

Fail ==
    /\ pc' = "failed"
    /\ UNCHANGED <<job, cursor, regions, index, patches, bytes, ram, startup>>

Acceptable ==
    /\ Valid(job.artifact)
    /\ job.base % 4 = 0
    /\ job.entry \in Named(job.artifact.functions)

Check ==
    /\ pc = "check"
    /\ Acceptable
    /\ pc' = "place"
    /\ UNCHANGED <<job, cursor, regions, index, patches, bytes, ram, startup>>

(* reserve                                                                  *)
Unaligned(c, a) == c
AlignUp(c, a) == c + ((-c) % a)

Placing == pc = "place" /\ Len(regions) < Len(Defs)
Current == Len(regions) + 1

Fits(start, size) == start < AddressSpace /\ start + size <= Limit

(* Without the test that nothing is patched.                                *)
RegionByBytes(i, start) ==
    LET d == Defs[i]
    IN  [name |-> d.name, address |-> start, size |-> d.size,
         readOnly |-> IsFunction(i) \/ d.readOnly,
         executable |-> IsFunction(i),
         zeroFill |-> ~ IsFunction(i) /\ ~ d.readOnly /\ d.zero]

Region(i, start) ==
    LET d == Defs[i]
    IN  [name |-> d.name, address |-> start, size |-> d.size,
         readOnly |-> IsFunction(i) \/ d.readOnly,
         executable |-> IsFunction(i),
         zeroFill |-> ~ IsFunction(i) /\ ~ d.readOnly /\ d.zero /\ d.relocations = << >>]

Place ==
    /\ Placing
    /\ LET start == AlignUp(cursor, Align(Current))
       IN  /\ Fits(start, Defs[Current].size)
           /\ cursor' = start + Defs[Current].size
           /\ regions' = Append(regions, Region(Current, start))
    /\ UNCHANGED <<job, pc, index, patches, bytes, ram, startup>>

Allocate ==
    /\ pc = "place"
    /\ Len(regions) = Len(Defs)
    /\ bytes' = [o \in 0..cursor - job.base - 1 |-> Zero]
    /\ pc' = "write"
    /\ UNCHANGED <<job, cursor, regions, index, patches, ram, startup>>

(* The host has no room for the buffer, or cannot address it.               *)
AllocateFails ==
    /\ pc = "place"
    /\ Len(regions) = Len(Defs)
    /\ pc' = "no memory"
    /\ UNCHANGED <<job, cursor, regions, index, patches, bytes, ram, startup>>

----------------------------------------------------------------------------
Writing == pc = "write" /\ index <= Len(Defs)

Offset(i) == regions[i].address - job.base
Cells(i) == Offset(i)..Offset(i) + Defs[i].size - 1
Raw(i, o) == IF Defs[i].zero THEN Zero ELSE <<"raw", i, o>>

Copy ==
    /\ Writing
    /\ patches = -1
    /\ bytes' = [a \in DOMAIN bytes |->
                   IF a \in Cells(index) THEN Raw(index, a - Offset(index)) ELSE bytes[a]]
    /\ patches' = 0
    /\ UNCHANGED <<job, pc, cursor, regions, index, ram, startup>>

(* symbols.get(target)                                                      *)
Address(n) == regions[CHOOSE i \in 1..Len(regions) : Defs[i].name = n].address

Relocation == Defs[index].relocations[patches + 1]
Patching == Writing /\ patches \in 0..Len(Defs[index].relocations) - 1

Apart(r, s) == r.offset + 4 <= s.offset \/ s.offset + 4 <= r.offset

(* Without the test of occupied.                                            *)
PatchableTwice(r) ==
    /\ r.offset + 4 <= Defs[index].size
    /\ r.target \in Symbols(job.artifact)
    /\ Address(r.target) + r.addend \in 0..AddressSpace - 1

(* Without the test that the patch ends in its region.                      *)
PatchableOutside(r) ==
    /\ \A j \in 1..patches : Apart(Defs[index].relocations[j], r)
    /\ r.target \in Symbols(job.artifact)
    /\ Address(r.target) + r.addend \in 0..AddressSpace - 1

Patchable(r) ==
    /\ r.offset + 4 <= Defs[index].size
    /\ \A j \in 1..patches : Apart(Defs[index].relocations[j], r)
    /\ r.target \in Symbols(job.artifact)
    /\ Address(r.target) + r.addend \in 0..AddressSpace - 1

Patch ==
    /\ Patching
    /\ Patchable(Relocation)
    /\ LET at == Offset(index) + Relocation.offset
           value == Address(Relocation.target) + Relocation.addend
       IN  bytes' = [a \in DOMAIN bytes |->
                       IF a \in at..at + 3 THEN <<"abs", value, a - at>> ELSE bytes[a]]
    /\ patches' = patches + 1
    /\ UNCHANGED <<job, pc, cursor, regions, index, ram, startup>>

NextDefinition ==
    /\ Writing
    /\ patches = Len(Defs[index].relocations)
    /\ index' = index + 1
    /\ patches' = -1
    /\ UNCHANGED <<job, pc, cursor, regions, bytes, ram, startup>>

FinishLink ==
    /\ pc = "write"
    /\ index > Len(Defs)
    /\ pc' = "linked"
    /\ UNCHANGED <<job, cursor, regions, index, patches, bytes, ram, startup>>

Refuse ==
    /\ \/ pc = "check" /\ ~ Acceptable
       \/ Placing /\ ~ Fits(AlignUp(cursor, Align(Current)), Defs[Current].size)
       \/ Patching /\ ~ Patchable(Relocation)
    /\ Fail

----------------------------------------------------------------------------
(* validate_image, on the image just linked.                                *)
Entry == Address(job.entry)
End(r) == r.address + r.size

ValidImage ==
    /\ cursor > job.base
    /\ job.base % 4 = 0
    /\ cursor <= AddressSpace
    /\ \A i, j \in 1..Len(regions) :
          /\ regions[i].name = regions[j].name => i = j
          /\ i < j /\ regions[i].size # 0 /\ regions[j].size # 0 =>
                End(regions[i]) <= regions[j].address \/ End(regions[j]) <= regions[i].address
    /\ \A i \in 1..Len(regions) :
          LET r == regions[i]
          IN  /\ r.address >= job.base /\ End(r) <= cursor
              /\ r.executable => r.readOnly /\ r.address % 4 = 0 /\ r.size # 0
              /\ r.zeroFill => /\ ~ r.readOnly /\ ~ r.executable
                               /\ \A a \in Cells(i) : bytes[a] = Zero
    /\ \E i \in 1..Len(regions) :
          /\ regions[i].executable
          /\ Entry \in regions[i].address..End(regions[i]) - 1
          /\ Entry % 4 = 0

(* Without the comparison of the exit trap with the stack.                  *)
LoadableOverTrap(s) ==
    /\ cursor <= s.ram
    /\ s.bottom < s.top
    /\ s.bottom % 16 = 0 /\ s.top % 16 = 0
    /\ s.top <= s.ram
    /\ s.bottom >= cursor \/ s.top <= job.base
    /\ s.trap % 4 = 0
    /\ s.trap < s.ram
    /\ s.trap < job.base \/ s.trap >= cursor

Loadable(s) ==
    /\ cursor <= s.ram
    /\ s.bottom < s.top
    /\ s.bottom % 16 = 0 /\ s.top % 16 = 0
    /\ s.top <= s.ram
    /\ s.bottom >= cursor \/ s.top <= job.base
    /\ s.trap % 4 = 0
    /\ s.trap < s.ram
    /\ s.trap < job.base \/ s.trap >= cursor
    /\ s.trap < s.bottom \/ s.trap >= s.top

ZeroFilled(a) == \E i \in 1..Len(regions) : regions[i].zeroFill /\ a - job.base \in Cells(i)

Load ==
    /\ pc = "linked"
    /\ ValidImage
    /\ \E s \in Starts :
          /\ Loadable(s)
          /\ startup' = s
          /\ ram' = [a \in 0..s.ram - 1 |->
                       IF ZeroFilled(a) THEN Zero
                       ELSE IF a \in job.base..cursor - 1 THEN bytes[a - job.base]
                       ELSE Dirty]
    /\ pc' = "running"
    /\ UNCHANGED <<job, cursor, regions, index, patches, bytes>>

RefuseLoad ==
    /\ pc = "linked"
    /\ ~ ValidImage \/ \E s \in Starts : ~ Loadable(s)
    /\ pc' = "not loaded"
    /\ UNCHANGED <<job, cursor, regions, index, patches, bytes, ram, startup>>

Next ==
    \/ Check \/ Place \/ Allocate \/ AllocateFails
    \/ Copy \/ Patch \/ NextDefinition \/ FinishLink \/ Refuse
    \/ Load \/ RefuseLoad

Spec == Init /\ [][Next]_vars /\ WF_vars(Next)

----------------------------------------------------------------------------
TypeOK ==
    /\ cursor \in job.base..AddressSpace
    /\ Len(regions) <= Len(Defs)
    /\ index \in 1..Len(Defs) + 1
    /\ patches \in Int
    /\ pc = "write" => DOMAIN bytes = 0..cursor - job.base - 1
    /\ Writing => patches \in -1..Len(Defs[index].relocations)

(* Every definition has storage of its own, in link order, inside the       *)
(* budget and the address space, where its alignment wants it: the sums of  *)
(* base, padding and sizes never wrap.                                      *)
StorageIsApart ==
    /\ \A i \in 1..Len(regions) :
          /\ regions[i].address >= job.base
          /\ End(regions[i]) <= cursor
          /\ cursor <= Limit
          /\ regions[i].address < AddressSpace
          /\ regions[i].address % Align(i) = 0
    /\ \A i, j \in 1..Len(regions) : i < j => End(regions[i]) <= regions[j].address

(* What the linked image holds, byte by byte: the address a relocation asks *)
(* for where one applies, else the compiled byte, and zero in the padding.  *)
Covers(r, o) == o \in r.offset..r.offset + 3

Written(i, n) ==
    \A o \in 0..Defs[i].size - 1 :
        LET byte == bytes[Offset(i) + o]
        IN  /\ \A j \in 1..n :
                  LET r == Defs[i].relocations[j]
                  IN  Covers(r, o) => byte = <<"abs", Address(r.target) + r.addend, o - r.offset>>
            /\ (\A j \in 1..n : ~ Covers(Defs[i].relocations[j], o)) => byte = Raw(i, o)

ImageIsFaithful ==
    pc = "linked" =>
        /\ \A i \in 1..Len(Defs) : Written(i, Len(Defs[i].relocations))
        /\ \A a \in DOMAIN bytes :
              (\A i \in 1..Len(Defs) : a \notin Cells(i)) => bytes[a] = Zero

(* The loader, the container and the ELF writer validate an image before    *)
(* they use it; they accept every image the linker makes.                   *)
LinkedIsAccepted == pc = "linked" => ValidImage

(* What link_image refuses, told from the job alone: it never gives up an   *)
(* artifact that could be laid out and patched, unless the host has no      *)
(* memory for the image, and it asks for memory only if the image fits.     *)
Extent ==
    LET end[i \in 0..Len(Defs)] ==
            IF i = 0 THEN job.base
            ELSE AlignUp(end[i - 1], Align(i)) + Defs[i].size
    IN  end

TooLarge ==
    \E i \in 1..Len(Defs) :
        Extent[i] > Limit \/ AlignUp(Extent[i - 1], Align(i)) >= AddressSpace

BadRelocation(i, j) ==
    LET r == Defs[i].relocations[j]
    IN  \/ r.offset + 4 > Defs[i].size
        \/ \E l \in 1..Len(Defs[i].relocations) :
              l # j /\ ~ Apart(r, Defs[i].relocations[l])
        \/ r.target \notin Named(Defs)
        \/ \E t \in 1..Len(Defs) :
              /\ Defs[t].name = r.target
              /\ AlignUp(Extent[t - 1], Align(t)) + r.addend \notin 0..AddressSpace - 1

Linkable ==
    /\ Acceptable
    /\ ~ TooLarge
    /\ \A i \in 1..Len(Defs) : \A j \in DOMAIN Defs[i].relocations : ~ BadRelocation(i, j)

RefusesExactlyUnlinkable ==
    /\ pc = "failed" => ~ Linkable
    /\ pc = "linked" => Linkable
    /\ pc = "no memory" => Acceptable /\ ~ TooLarge

(* A loaded program finds its image as linked whatever the RAM held, the    *)
(* rest of the RAM untouched, and a stack and an exit trap of its own.      *)
LoadedAsLinked ==
    pc = "running" =>
        LET image == job.base..cursor - 1
            stack == startup.bottom..startup.top - 1
        IN  /\ image \cup stack \cup {startup.trap} \subseteq DOMAIN ram
            /\ \A a \in DOMAIN ram :
                  ram[a] = IF a \in image THEN bytes[a - job.base] ELSE Dirty
            /\ image \cap stack = {}
            /\ startup.trap \notin image \cup stack
=============================================================================
