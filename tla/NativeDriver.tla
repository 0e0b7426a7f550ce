----------------------------- MODULE NativeDriver -----------------------------
(***************************************************************************)
(* cosmicc in its linking mode (src/cosmicc.rs, the last branch of main):   *)
(* every source is compiled into an object of a scratch directory, the      *)
(* system's linker driver is run on the objects, and the directory is       *)
(* removed, file by file, when the value Scratch is dropped.  Any read,     *)
(* write, compilation, removal or start of the driver may fail, and the     *)
(* process may be killed.  Other runs come and go in the same temporary     *)
(* directory.                                                               *)
(***************************************************************************)
EXTENDS Integers, Sequences, FiniteSets

CONSTANTS
    CommandLines,   \* the sequences of inputs: [kind, stem, dir]
    Names,          \* names Scratch::new can come up with
    None

Given == "given"

(* What another run writes, and what a write leaves that fails halfway.     *)
Foreign == [kind |-> "another run's", stem |-> "main", dir |-> "a"]
Incomplete == [kind |-> "incomplete", stem |-> "main", dir |-> "a"]

(* What the command line says of an input: its name, and with it what it is. *)
Input == [kind : {"object", "source"}, stem : STRING, dir : STRING]

Assumption ==
    /\ CommandLines \subseteq Seq(Input)
    /\ Given \notin Names \cup {None} /\ None \notin Names
ASSUME NativeDriverAssumption == Assumption

VARIABLES
    inputs,         \* the command line
    others,         \* the directories of other runs
    directories,    \* the directories of the system's temporary directory
    files,          \* what the files in them hold
    scratch,        \* this run's directory
    objects,        \* the arguments of the linker driver so far
    driver,         \* "not run", "succeeded", "failed"
    removal,        \* of scratch: "not begun", "begun", "done" or "failed"
    exit            \* "running", "killed", or the exit status

vars == <<inputs, others, directories, files, scratch, objects, driver, removal, exit>>

Only(names) == [p \in {q \in DOMAIN files : q[1] \in names} |-> files[p]]
With(path, content) ==
    [p \in DOMAIN files \cup {path} |-> IF p = path THEN content ELSE files[p]]

Init ==
    /\ inputs \in CommandLines
    /\ others \in SUBSET Names /\ directories = others
    /\ files = [p \in others \X {1} |-> Foreign]
    /\ scratch = None /\ objects = << >>
    /\ driver = "not run" /\ removal = "not begun" /\ exit = "running"

Running == exit = "running"
index == Len(objects) + 1
Fatal == exit' = "2"

----------------------------------------------------------------------------
(* Mutant of NewScratch: a directory that is already there will do.         *)
NewScratchAnyway ==
    /\ Running /\ scratch = None
    /\ \E d \in Names : scratch' = d /\ directories' = directories \cup {d}
    /\ UNCHANGED <<inputs, others, files, objects, driver, removal, exit>>

(* The process number and the time make the name; create_dir makes a        *)
(* directory that was not there.                                            *)
NewScratch ==
    /\ Running /\ scratch = None
    /\ \E d \in Names \ directories : scratch' = d /\ directories' = directories \cup {d}
    /\ UNCHANGED <<inputs, others, files, objects, driver, removal, exit>>

(* create_dir fails, as it does when the name is taken; or the clock is     *)
(* before 1970, a panic.                                                    *)
NoScratch ==
    /\ Running /\ scratch = None
    /\ exit' \in {"2", "101"}
    /\ UNCHANGED <<inputs, others, directories, files, scratch, objects, driver, removal>>

input == inputs[index]

Working == Running /\ scratch # None /\ removal = "not begun"
Pending == Working /\ index <= Len(inputs)

GivenObject ==
    /\ Pending /\ input.kind = "object"
    /\ objects' = Append(objects, <<Given, index>>)
    /\ UNCHANGED <<inputs, others, directories, files, scratch, driver, removal, exit>>

(* Mutant of ObjectPath: the object is named after its source.              *)
ObjectPathByStem == <<scratch, CHOOSE i \in DOMAIN inputs : inputs[i].stem = input.stem>>

ObjectPath == <<scratch, index>>

CompileSource ==
    /\ Pending /\ input.kind = "source"
    /\ files' = With(ObjectPath, input)
    /\ objects' = Append(objects, ObjectPath)
    /\ UNCHANGED <<inputs, others, directories, scratch, driver, removal, exit>>

(* An object that cannot be found, a source that cannot be read or          *)
(* compiled, an object that cannot be written or only in part.              *)
InputFails ==
    /\ Pending /\ Fatal
    /\ \/ UNCHANGED files
       \/ input.kind = "source" /\ files' = With(ObjectPath, Incomplete)
    /\ UNCHANGED <<inputs, others, directories, scratch, objects, driver, removal>>

(* The compiler panics: the stack unwinds and drops the directory.          *)
Panic ==
    /\ Pending /\ input.kind = "source"
    /\ removal' = "begun"
    /\ UNCHANGED <<inputs, others, directories, files, scratch, objects, driver, exit>>

Linking == Working /\ index > Len(inputs)

DriverMissing ==
    /\ Linking /\ driver = "not run" /\ Fatal
    /\ UNCHANGED <<inputs, others, directories, files, scratch, objects, driver, removal>>

RunDriver ==
    /\ Linking /\ driver = "not run"
    /\ driver' \in {"succeeded", "failed"}
    /\ UNCHANGED <<inputs, others, directories, files, scratch, objects, removal, exit>>

(* Mutant of Leave: the failed driver is reported before the directory is    *)
(* dropped.                                                                 *)
LeaveUndropped ==
    /\ Linking /\ driver # "not run"
    /\ IF driver = "succeeded" THEN removal' = "begun" /\ UNCHANGED exit
       ELSE Fatal /\ UNCHANGED removal
    /\ UNCHANGED <<inputs, others, directories, files, scratch, objects, driver>>

Leave ==
    /\ Linking /\ driver # "not run"
    /\ removal' = "begun"
    /\ UNCHANGED <<inputs, others, directories, files, scratch, objects, driver, exit>>

----------------------------------------------------------------------------
(* Drop: remove_dir_all, whose result is ignored, and then the end for      *)
(* which the directory is dropped.                                          *)
Removing == Running /\ removal = "begun"
Own == {p \in DOMAIN files : p[1] = scratch}
Status == IF driver = "succeeded" THEN "0" ELSE IF driver = "failed" THEN "2" ELSE "101"

RemoveFile ==
    /\ Removing
    /\ \E p \in Own : files' = [q \in DOMAIN files \ {p} |-> files[q]]
    /\ UNCHANGED <<inputs, others, directories, scratch, objects, driver, removal, exit>>

RemoveDirectory ==
    /\ Removing /\ Own = {}
    /\ directories' = directories \ {scratch}
    /\ removal' = "done" /\ exit' = Status
    /\ UNCHANGED <<inputs, others, files, scratch, objects, driver>>

RemovalFails ==
    /\ Removing
    /\ removal' = "failed" /\ exit' = Status
    /\ UNCHANGED <<inputs, others, directories, files, scratch, objects, driver>>

(* A signal, or an abort.                                                   *)
Killed ==
    /\ Running /\ exit' = "killed"
    /\ UNCHANGED <<inputs, others, directories, files, scratch, objects, driver, removal>>

(* Another run makes its directory and writes into it, and drops it.        *)
OtherRunStarts ==
    /\ \E d \in Names \ directories :
          /\ others' = others \cup {d} /\ directories' = directories \cup {d}
          /\ files' = With(<<d, 1>>, Foreign)
    /\ UNCHANGED <<inputs, scratch, objects, driver, removal, exit>>

OtherRunEnds ==
    /\ \E d \in others :
          /\ others' = others \ {d} /\ directories' = directories \ {d}
          /\ files' = Only(directories \ {d})
    /\ UNCHANGED <<inputs, scratch, objects, driver, removal, exit>>

Next ==
    \/ NewScratch \/ NoScratch \/ GivenObject \/ CompileSource \/ InputFails \/ Panic
    \/ DriverMissing \/ RunDriver \/ Leave
    \/ RemoveFile \/ RemoveDirectory \/ RemovalFails \/ Killed
    \/ OtherRunStarts \/ OtherRunEnds

Spec == Init /\ [][Next]_vars

----------------------------------------------------------------------------
(* The types, and that files are in directories there are.                  *)
TypeOK ==
    /\ inputs \in CommandLines
    /\ others \subseteq Names /\ directories \subseteq Names
    /\ \A p \in DOMAIN files : p[1] \in directories
    /\ scratch \in Names \cup {None}
    /\ objects \in Seq({scratch, Given} \X Nat) /\ Len(objects) <= Len(inputs)
    /\ driver \in {"not run", "succeeded", "failed"}
    /\ removal \in {"not begun", "begun", "done", "failed"}
    /\ exit \in {"running", "killed", "0", "2", "101"}

(* The driver gets one object per input, in the order of the command line,  *)
(* and that of a source holds the code of this source and no other, also    *)
(* when two sources have the same name or one is given twice.               *)
LinksEveryInput ==
    Linking /\ driver # "not run" =>
        /\ Len(objects) = Len(inputs)
        /\ \A i \in DOMAIN inputs :
              IF inputs[i].kind = "object" THEN objects[i] = <<Given, i>>
              ELSE objects[i] \in DOMAIN files /\ files[objects[i]] = inputs[i]

(* Directories of other runs, which share the temporary directory, are      *)
(* neither written nor removed, whenever they come and go, also when a name *)
(* comes up twice (a process number used again, a clock set back).          *)
OthersKept ==
    /\ others \subseteq directories
    /\ \A d \in others : {p \in DOMAIN files : p[1] = d} = {<<d, 1>>}
                         /\ files[<<d, 1>>] = Foreign

(* "Drop scratch before exit": what a run leaves behind has a cause: it was *)
(* killed, its removal failed, or it ended with a fatal error of its own    *)
(* before the driver ran.  Success, a driver that reports an error and a    *)
(* panic try to remove it, and leave nothing if they can.                   *)
LeftoversHaveACause ==
    ~ Running /\ scratch \in directories \ others =>
        \/ exit = "killed"
        \/ removal = "failed"
        \/ exit = "2" /\ driver = "not run"
=============================================================================
