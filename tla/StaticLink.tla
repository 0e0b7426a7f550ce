------------------------------ MODULE StaticLink ------------------------------
(* A link as cosmic-link does it (main in src/cosmic-link.rs): the archives *)
(* complete the objects of the command line, the objects are merged, and    *)
(* with --gc-sections what the entry does not reach is dropped.             *)
EXTENDS ArchiveExtraction, ReachableObjects

mergeVars == <<pc, k, occupied, names, merged>>
linkVars == <<extractionVars, objects, mergeVars, gcVars>>

LinkInit == ExtractionInit /\ objects = artifacts /\ Idle /\ GcInit

(* The objects to merge are those of the command line and the extracted.    *)
ExtractMembers ==
    /\ ExtractionNext
    /\ objects' = artifacts'
    /\ UNCHANGED <<mergeVars, gcVars>>

MergeObjects ==
    /\ status = "extracted"
    /\ Next
    /\ UNCHANGED <<extractionVars, gcVars>>

KeepReachable ==
    /\ GcNext
    /\ UNCHANGED <<extractionVars, objects, mergeVars>>

(* link_images: without --gc-sections the merged artifact is laid out.      *)
KeepAll ==
    /\ pc = "merged" /\ gc = "wait"
    /\ gc' = "all" /\ kept' = merged
    /\ UNCHANGED <<extractionVars, objects, mergeVars, live, pending>>

LinkNext == ExtractMembers \/ MergeObjects \/ KeepReachable \/ KeepAll

(* Loops over finite data in one process: it goes on while it can.          *)
LinkSpec == LinkInit /\ [][LinkNext]_linkVars /\ WF_linkVars(LinkNext)

----------------------------------------------------------------------------
Linked == gc \in {"all", "swept"}

(* What the layout gets defines no name twice, and every reference that has *)
(* a definition anywhere among the objects still has one, whether or not    *)
(* archives completed them and unreachable definitions were dropped.        *)
NothingDangles ==
    Linked =>
        /\ \A d, e \in DefinitionsOf(kept) :
              d.name = e.name => d.origin = e.origin /\ d.was = e.was
        /\ \A d \in DefinitionsOf(kept) : \A r \in DOMAIN d.relocations :
              LET n == d.relocations[r].was
              IN  n \in Symbols(objects[d.origin]) \cup UNION {External(objects[i]) : i \in 1..Len(objects)}
                  => d.relocations[r].target \in Symbols(kept)

(* Every loop ends: a member leaves the archive, a free scoped name is      *)
(* found, and cyclic relocations do not keep the worklist busy.             *)
LinkEnds == <>(Linked \/ "failed" \in {status, pc, gc})
=============================================================================
