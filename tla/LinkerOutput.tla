---------------------------- MODULE LinkerOutput ----------------------------
(***************************************************************************)
(* How cosmic-link (src/cosmic-link.rs) writes its image when several of    *)
(* them run at once, as in a parallel build: the early test for an          *)
(* existing file, the link, and the file that is created before the image   *)
(* is encoded and written.  A link can fail, a write can fail half way, and *)
(* a linker can be killed between any two steps.                            *)
(***************************************************************************)
EXTENDS Naturals

CONSTANTS Linkers, Paths, User

Nobody == "nobody"

OutputAssumption == User \notin Linkers /\ Nobody \notin Linkers
ASSUME LinkerOutputAssumption == OutputAssumption

Absent == [by |-> Nobody, content |-> "none"]

VARIABLES
    output,     \* the -o argument of each linker
    format,     \* "raw", "container" or "elf"
    file,       \* what is at each path: who created it, and how far it is
    pc

outputVars == <<output, format, file, pc>>

OutputInit ==
    /\ output \in [Linkers -> Paths]
    /\ format \in [Linkers -> {"raw", "container", "elf"}]
    /\ file \in [Paths -> {Absent, [by |-> User, content |-> "whole"]}]
    /\ pc = [l \in Linkers |-> "start"]

AtWork(l) == pc[l] \notin {"done", "failed", "killed"}
Goto(l, label) == pc' = [pc EXCEPT ![l] = label]
Fail(l) == Goto(l, "failed") /\ UNCHANGED file
SetFile(l, content) == file' = [file EXCEPT ![output[l]] = [by |-> l, content |-> content]]

(* Path::exists, before anything is read.                                   *)
CheckOutput(l) ==
    /\ pc[l] = "start"
    /\ IF file[output[l]] # Absent THEN Fail(l) ELSE Goto(l, "link") /\ UNCHANGED file
    /\ UNCHANGED <<output, format>>

(* Reading and linking takes long, and any part of it can end the process.  *)
Link(l) ==
    /\ pc[l] = "link"
    /\ \/ Goto(l, "create") /\ UNCHANGED file
       \/ Fail(l)
    /\ UNCHANGED <<output, format>>

(* Mutant of Create: the file is opened with create and truncate.           *)
CreateOrTruncate(l) ==
    /\ pc[l] = "create"
    /\ Goto(l, "encode") /\ SetFile(l, "empty")
    /\ UNCHANGED <<output, format>>

(* OpenOptions::create_new: one linker gets the path, the others fail.      *)
Create(l) ==
    /\ pc[l] = "create"
    /\ \/ /\ file[output[l]] = Absent
          /\ Goto(l, "encode") /\ SetFile(l, "empty")
       \/ Fail(l)
    /\ UNCHANGED <<output, format>>

(* Both containers can refuse an image; raw bytes are written as they are.  *)
Encode(l) ==
    /\ pc[l] = "encode"
    /\ \/ Goto(l, "write") /\ UNCHANGED file
       \/ format[l] # "raw" /\ Fail(l)
    /\ UNCHANGED <<output, format>>

(* Mutant of Write: a short write is taken for the end of write_all.        *)
WriteOnce(l) ==
    /\ pc[l] = "write"
    /\ \/ Goto(l, "done") /\ SetFile(l, "partial")
       \/ Goto(l, "done") /\ SetFile(l, "whole")
       \/ Fail(l)
    /\ UNCHANGED <<output, format>>

(* write_all, one write at a time.                                          *)
Write(l) ==
    /\ pc[l] = "write"
    /\ \/ /\ file[output[l]].content = "empty"
          /\ pc' = pc /\ SetFile(l, "partial")
       \/ Goto(l, "done") /\ SetFile(l, "whole")
       \/ Fail(l)
    /\ UNCHANGED <<output, format>>

Kill(l) ==
    /\ AtWork(l)
    /\ Goto(l, "killed")
    /\ UNCHANGED <<output, format, file>>

Step(l) == CheckOutput(l) \/ Link(l) \/ Create(l) \/ Encode(l) \/ Write(l)
OutputNext == \E l \in Linkers : Step(l) \/ Kill(l)

OutputSpec == OutputInit /\ [][OutputNext]_outputVars

----------------------------------------------------------------------------
(* Every variable has its type.                                             *)
OutputTypeOK ==
    /\ output \in [Linkers -> Paths]
    /\ format \in [Linkers -> {"raw", "container", "elf"}]
    /\ file \in [Paths -> {Absent} \cup
                    [by : Linkers \cup {User}, content : {"empty", "partial", "whole"}]]
    /\ pc \in [Linkers -> {"start", "link", "create", "encode", "write",
                           "done", "failed", "killed"}]

(* "create_new also prevents a racing writer from being overwritten": a     *)
(* file is never taken over, whoever made it, and its bytes change only     *)
(* while its own linker writes it.                                          *)
NeverOverwrites ==
    [][\A p \in Paths :
          file[p] # Absent =>
             /\ file'[p].by = file[p].by
             /\ file'[p] # file[p] =>
                   file[p].by \in Linkers /\ pc[file[p].by] = "write"]_outputVars

(* A linker that ends with success leaves its whole image at its path; two  *)
(* linkers of one path never both succeed; and an unfinished file is left   *)
(* behind only by a linker that failed after it had created the file.       *)
SuccessIsWhole ==
    /\ \A l \in Linkers : pc[l] = "done" => file[output[l]] = [by |-> l, content |-> "whole"]
    /\ \A p \in Paths : file[p].content \in {"empty", "partial"} =>
          pc[file[p].by] \in {"encode", "write", "failed", "killed"}
=============================================================================
