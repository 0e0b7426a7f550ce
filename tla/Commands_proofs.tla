--------------------------- MODULE Commands_proofs ---------------------------
(* Proofs about the files of the commands: cosmicc's scratch directory, for *)
(* every set of command lines and of names of directories, and the output   *)
(* of cosmic-link, for any number of linkers and paths.                     *)
EXTENDS NativeDriver, LinkerOutput, SequenceTheorems, TLAPS

(* The object of input i is where the linker driver is told to look for it. *)
Paired(i) ==
    IF inputs[i].kind = "object" THEN objects[i] = <<Given, i>>
    ELSE /\ objects[i] = <<scratch, i>>
         /\ <<scratch, i>> \in DOMAIN files
         /\ files[<<scratch, i>>] = inputs[i]

(* Before create_dir nothing has been done; from then on this run's         *)
(* directory is none of another run's.                                      *)
OwnDirectory ==
    IF scratch = None THEN objects = << >> /\ driver = "not run" /\ removal = "not begun"
    ELSE Running => scratch \in directories \ others

DriverInv ==
    /\ TypeOK
    /\ DOMAIN files \subseteq Names \X Nat
    /\ OwnDirectory
    /\ OthersKept
    /\ Running => removal \in {"not begun", "begun"}
    /\ Running /\ removal = "not begun" => \A i \in 1..Len(objects) : Paired(i)
    /\ driver # "not run" => Len(objects) = Len(inputs)
    /\ LeftoversHaveACause

----------------------------------------------------------------------------
LEMMA CommandLine == ASSUME TypeOK
    PROVE  /\ inputs \in Seq(Input) /\ Len(inputs) \in Nat /\ DOMAIN inputs = 1..Len(inputs)
           /\ objects \in Seq({scratch, Given} \X Nat) /\ Len(objects) \in Nat
<1>1. inputs \in Seq(Input)
  BY NativeDriverAssumption DEF TypeOK, Assumption
<1>2. objects \in Seq({scratch, Given} \X Nat)
  BY DEF TypeOK
<1> QED BY <1>1, <1>2

(* Files elsewhere than in the directories of other runs do not concern     *)
(* them.                                                                    *)
LEMMA ElsewhereKeepsOthers ==
    ASSUME OthersKept, UNCHANGED others, others \subseteq directories',
           \A d \in others : \A p : p[1] = d =>
              /\ p \in DOMAIN files' <=> p \in DOMAIN files
              /\ p \in DOMAIN files => files'[p] = files[p]
    PROVE  OthersKept'
<1> SUFFICES ASSUME NEW d \in others
             PROVE  {p \in DOMAIN files' : p[1] = d} = {<<d, 1>>} /\ files'[<<d, 1>>] = Foreign
  BY DEF OthersKept
<1>1. {p \in DOMAIN files : p[1] = d} = {<<d, 1>>} /\ files[<<d, 1>>] = Foreign
  BY DEF OthersKept
<1>2. {p \in DOMAIN files' : p[1] = d} = {p \in DOMAIN files : p[1] = d}
  OBVIOUS
<1>3. <<d, 1>> \in DOMAIN files /\ <<d, 1>>[1] = d
  BY <1>1
<1> QED BY <1>1, <1>2, <1>3

(* A step of the process that leaves directories and files alone.           *)
LEMMA QuietPreserves ==
    ASSUME DriverInv, UNCHANGED <<inputs, others, directories, files, scratch, objects>>,
           scratch # None, Running,
           exit' \in {"running", "killed", "0", "2", "101"},
           removal' \in {"not begun", "begun", "done", "failed"},
           driver' \in {"not run", "succeeded", "failed"},
           Running' => removal' \in {"not begun", "begun"},
           Running' /\ removal' = "not begun" => removal = "not begun",
           driver' # "not run" => Len(objects) = Len(inputs),
           \/ Running' \/ exit' = "killed" \/ removal' = "failed"
           \/ exit' = "2" /\ driver' = "not run"
    PROVE  DriverInv'
<1>1. TypeOK'
  BY DEF DriverInv, TypeOK
<1>2. OwnDirectory'
  BY DEF DriverInv, OwnDirectory
<1>3. OthersKept' /\ LeftoversHaveACause'
  BY DEF DriverInv, OthersKept, LeftoversHaveACause, Running
<1>4. Running' /\ removal' = "not begun" => \A i \in 1..Len(objects) : Paired(i)'
  BY DEF DriverInv, Paired
<1> QED BY <1>1, <1>2, <1>3, <1>4 DEF DriverInv

THEOREM DriverInitially == Init => DriverInv
<1> SUFFICES ASSUME Init PROVE DriverInv
  OBVIOUS
<1>1. /\ inputs \in CommandLines /\ others \subseteq Names /\ directories = others
      /\ DOMAIN files = others \X {1}
      /\ scratch = None /\ objects = << >>
      /\ driver = "not run" /\ removal = "not begun" /\ exit = "running"
  BY DEF Init
<1>2. \A p \in others \X {1} : files[p] = Foreign
  BY DEF Init
<1>3. inputs \in Seq(Input) /\ Len(inputs) \in Nat
  <2>1. inputs \in Seq(Input)
    BY <1>1, NativeDriverAssumption DEF Assumption
  <2> QED BY <2>1
<1>4. ASSUME NEW p \in others \X {1}
      PROVE  p \in Names \X Nat /\ p[1] \in others /\ p = <<p[1], 1>>
  <2>1. PICK d \in others : p = <<d, 1>>
    OBVIOUS
  <2> QED BY <1>1, <2>1
<1>5. objects \in Seq({scratch, Given} \X Nat) /\ Len(objects) = 0
  BY <1>1, EmptySeq
<1>6. TypeOK
  <2>1. Len(objects) <= Len(inputs)
    BY <1>3, <1>5
  <2> QED BY <1>1, <1>4, <1>5, <2>1 DEF TypeOK
<1>7. OthersKept
  <2> SUFFICES ASSUME NEW d \in others
               PROVE  {p \in others \X {1} : p[1] = d} = {<<d, 1>>} /\ files[<<d, 1>>] = Foreign
    BY <1>1 DEF OthersKept
  <2>1. <<d, 1>> \in others \X {1} /\ <<d, 1>>[1] = d
    OBVIOUS
  <2> QED BY <1>2, <1>4, <2>1
<1>8. OwnDirectory /\ LeftoversHaveACause
  BY <1>1 DEF OwnDirectory, LeftoversHaveACause, Running
<1>9. DOMAIN files \subseteq Names \X Nat
  BY <1>1, <1>4
<1>10. 1..Len(objects) = {}
  BY <1>5
<1> QED BY <1>1, <1>6, <1>7, <1>8, <1>9, <1>10 DEF DriverInv

LEMMA NewScratchPreserves == DriverInv /\ NewScratch => DriverInv'
<1> SUFFICES ASSUME DriverInv, NewScratch PROVE DriverInv'
  OBVIOUS
<1>1. /\ Running /\ scratch = None
      /\ UNCHANGED <<inputs, others, files, objects, driver, removal, exit>>
      /\ objects = << >> /\ driver = "not run" /\ removal = "not begun"
  BY DEF NewScratch, DriverInv, OwnDirectory
<1>2. PICK d \in Names \ directories : scratch' = d /\ directories' = directories \cup {d}
  BY DEF NewScratch
<1>3. others \subseteq directories
  BY DEF DriverInv, OthersKept
<1>4. OthersKept'
  BY <1>1, <1>2 DEF DriverInv, OthersKept
<1>5. TypeOK'
  <2>1. << >> \in Seq({scratch', Given} \X Nat)
    OBVIOUS
  <2>2. objects' \in Seq({scratch', Given} \X Nat)
    BY <1>1, <2>1
  <2> QED BY <1>1, <1>2, <2>2 DEF DriverInv, TypeOK
<1>6. OwnDirectory' /\ LeftoversHaveACause'
  BY <1>1, <1>2, <1>3, NativeDriverAssumption
     DEF OwnDirectory, LeftoversHaveACause, Running, Assumption
<1>7. 1..Len(objects') = {}
  <2>1. Len(objects') = 0
    BY <1>1, EmptySeq
  <2> QED BY <2>1
<1> QED BY <1>1, <1>4, <1>5, <1>6, <1>7 DEF DriverInv

LEMMA NoScratchPreserves == DriverInv /\ NoScratch => DriverInv'
<1> SUFFICES ASSUME DriverInv, NoScratch PROVE DriverInv'
  OBVIOUS
<1>1. /\ scratch = None /\ exit' \in {"2", "101"}
      /\ UNCHANGED <<inputs, others, directories, files, scratch, objects, driver, removal>>
  BY DEF NoScratch
<1>2. scratch \notin directories
  BY <1>1, NativeDriverAssumption DEF DriverInv, TypeOK, Assumption
<1>3. TypeOK' /\ OwnDirectory' /\ OthersKept' /\ LeftoversHaveACause' /\ ~ Running'
  BY <1>1, <1>2
     DEF DriverInv, TypeOK, OwnDirectory, OthersKept, LeftoversHaveACause, Running
<1> QED BY <1>1, <1>3 DEF DriverInv

(* One more argument of the linker driver, for the input that is next.      *)
LEMMA ArgumentAppended ==
    ASSUME DriverInv, Pending, NEW o \in {scratch, Given} \X Nat, objects' = Append(objects, o),
           UNCHANGED <<inputs, scratch>>
    PROVE  /\ objects' \in Seq({scratch, Given} \X Nat)
           /\ Len(objects') = index /\ index <= Len(inputs)
           /\ objects'[index] = o
           /\ \A i \in 1..Len(objects) : objects'[i] = objects[i]
           /\ driver = "not run" /\ Running /\ scratch # None /\ removal = "not begun"
           /\ index \in 1..Len(inputs) /\ 1..index = 1..Len(objects) \cup {index}
<1>1. Len(inputs) \in Nat /\ Len(objects) \in Nat
  BY CommandLine DEF DriverInv
<1>2. objects \in Seq({scratch, Given} \X Nat)
  BY DEF DriverInv, TypeOK
<1>3. /\ objects' \in Seq({scratch, Given} \X Nat)
      /\ Len(objects') = Len(objects) + 1
      /\ objects'[Len(objects) + 1] = o
      /\ \A i \in 1..Len(objects) : objects'[i] = objects[i]
  BY <1>2
<1>4. index <= Len(inputs)
  BY DEF Pending
<1>5. Len(objects) # Len(inputs)
  BY <1>1, <1>4 DEF index
<1>6. driver = "not run"
  BY <1>5 DEF DriverInv
<1>7. index \in 1..Len(inputs) /\ 1..index = 1..Len(objects) \cup {index}
  BY <1>1, <1>4 DEF index
<1>8. Running /\ scratch # None /\ removal = "not begun"
  BY DEF Pending, Working
<1> QED BY <1>3, <1>4, <1>6, <1>7, <1>8 DEF index

LEMMA GivenObjectPreserves == DriverInv /\ GivenObject => DriverInv'
<1> SUFFICES ASSUME DriverInv, GivenObject PROVE DriverInv'
  OBVIOUS
<1> DEFINE o == <<Given, index>>
<1>1. /\ Pending /\ input.kind = "object" /\ objects' = Append(objects, o)
      /\ UNCHANGED <<inputs, others, directories, files, scratch, driver, removal, exit>>
  BY DEF GivenObject
<1>2. Len(objects) \in Nat
  BY CommandLine DEF DriverInv
<1>3. o \in {scratch, Given} \X Nat
  BY <1>2 DEF index
<1> HIDE DEF o
<1>4. /\ objects' \in Seq({scratch, Given} \X Nat)
      /\ Len(objects') = index /\ index <= Len(inputs)
      /\ objects'[index] = o
      /\ \A i \in 1..Len(objects) : objects'[i] = objects[i]
      /\ driver = "not run" /\ Running /\ scratch # None /\ removal = "not begun"
      /\ 1..index = 1..Len(objects) \cup {index}
  BY <1>1, <1>3, ArgumentAppended
<1>5. TypeOK'
  BY <1>1, <1>4 DEF DriverInv, TypeOK
<1>6. \A i \in 1..Len(objects') : Paired(i)'
  <2> SUFFICES ASSUME NEW i \in 1..Len(objects) \cup {index} PROVE Paired(i)'
    BY <1>4
  <2>1. CASE i = index
    BY <1>1, <1>4, <2>1 DEF Paired, input, o
  <2>2. CASE i \in 1..Len(objects)
    BY <1>1, <1>4, <2>2 DEF Paired, DriverInv
  <2> QED BY <2>1, <2>2
<1>7. OwnDirectory'
  BY <1>1, <1>4 DEF DriverInv, OwnDirectory, Running
<1>8. OthersKept' /\ LeftoversHaveACause'
  BY <1>1 DEF DriverInv, OthersKept, LeftoversHaveACause, Running
<1> QED BY <1>1, <1>4, <1>5, <1>6, <1>7, <1>8 DEF DriverInv

(* A write into the own directory, under the number of the next input.      *)
LEMMA OwnFileWritten ==
    ASSUME DriverInv, Pending, NEW content, files' = With(ObjectPath, content),
           UNCHANGED <<others, directories>>
    PROVE  /\ OthersKept'
           /\ DOMAIN files' \subseteq Names \X Nat
           /\ \A p \in DOMAIN files' : p[1] \in directories
           /\ ObjectPath = <<scratch, index>> /\ ObjectPath \in {scratch, Given} \X Nat
           /\ ObjectPath \in DOMAIN files' /\ files'[ObjectPath] = content
           /\ \A p \in DOMAIN files :
                 p \in DOMAIN files' /\ (p # ObjectPath => files'[p] = files[p])
<1> DEFINE o == ObjectPath
<1>1. /\ DOMAIN files' = DOMAIN files \cup {o}
      /\ files'[o] = content
      /\ \A p \in DOMAIN files : p # o => files'[p] = files[p]
  BY DEF With
<1>2. Len(objects) \in Nat
  BY CommandLine DEF DriverInv
<1>3. o = <<scratch, index>> /\ o \in {scratch, Given} \X Nat /\ o[1] = scratch
      /\ index \in Nat
  BY <1>2 DEF index, ObjectPath
<1> HIDE DEF o
<1>4. scratch \in Names /\ scratch \in directories /\ scratch \notin others
  BY DEF DriverInv, TypeOK, OwnDirectory, Pending, Working
<1>5. o \in Names \X Nat
  BY <1>3, <1>4
<1>6. DOMAIN files' \subseteq Names \X Nat
  BY <1>1, <1>5 DEF DriverInv
<1>7. \A p \in DOMAIN files' : p[1] \in directories
  BY <1>1, <1>3, <1>4 DEF DriverInv, TypeOK
<1>8. OthersKept'
  <2>1. \A d \in others : \A p : p[1] = d =>
           /\ p \in DOMAIN files' <=> p \in DOMAIN files
           /\ p \in DOMAIN files => files'[p] = files[p]
    BY <1>1, <1>3, <1>4
  <2>2. others \subseteq directories'
    BY DEF DriverInv, OthersKept
  <2> QED BY <2>1, <2>2, ElsewhereKeepsOthers DEF DriverInv
<1> QED BY <1>1, <1>3, <1>6, <1>7, <1>8 DEF o

(* The object is written in the own directory, under a number no other      *)
(* object has.                                                              *)
LEMMA CompileSourcePreserves == DriverInv /\ CompileSource => DriverInv'
<1> SUFFICES ASSUME DriverInv, CompileSource PROVE DriverInv'
  OBVIOUS
<1> DEFINE o == ObjectPath
<1>1. /\ Pending /\ input.kind = "source" /\ objects' = Append(objects, o)
      /\ UNCHANGED <<inputs, others, directories, scratch, driver, removal, exit>>
      /\ files' = With(ObjectPath, input)
  BY DEF CompileSource
<1>2. /\ OthersKept'
      /\ DOMAIN files' \subseteq Names \X Nat
      /\ \A p \in DOMAIN files' : p[1] \in directories
      /\ o = <<scratch, index>> /\ o \in {scratch, Given} \X Nat
      /\ o \in DOMAIN files' /\ files'[o] = input
      /\ \A p \in DOMAIN files : p \in DOMAIN files' /\ (p # o => files'[p] = files[p])
  BY <1>1, OwnFileWritten
<1> HIDE DEF o
<1>3. Len(objects) \in Nat
  BY CommandLine DEF DriverInv
<1>4. /\ objects' \in Seq({scratch, Given} \X Nat)
      /\ Len(objects') = index /\ index <= Len(inputs)
      /\ objects'[index] = o
      /\ \A i \in 1..Len(objects) : objects'[i] = objects[i]
      /\ driver = "not run" /\ Running /\ scratch # None /\ removal = "not begun"
      /\ 1..index = 1..Len(objects) \cup {index}
  BY <1>1, <1>2, ArgumentAppended
<1>5. TypeOK'
  BY <1>1, <1>2, <1>4 DEF DriverInv, TypeOK
<1>6. \A i \in 1..Len(objects') : Paired(i)'
  <2> SUFFICES ASSUME NEW i \in 1..Len(objects) \cup {index} PROVE Paired(i)'
    BY <1>4
  <2>1. CASE i = index
    BY <1>1, <1>2, <1>4, <2>1 DEF Paired, input
  <2>2. CASE i \in 1..Len(objects)
    <3>1. Paired(i)
      BY <1>4, <2>2 DEF DriverInv
    <3>2. i # index
      BY <1>3, <2>2 DEF index
    <3>3. <<scratch, i>> # o
      BY <1>2, <3>2
    <3> QED BY <1>1, <1>2, <1>4, <2>2, <3>1, <3>3 DEF Paired
  <2> QED BY <2>1, <2>2
<1>7. OwnDirectory' /\ LeftoversHaveACause'
  BY <1>1, <1>4 DEF DriverInv, OwnDirectory, LeftoversHaveACause, Running
<1> QED BY <1>1, <1>2, <1>4, <1>5, <1>6, <1>7 DEF DriverInv

(* fatal while inputs remain: the linker driver cannot have run yet.        *)
LEMMA InputFailsPreserves == DriverInv /\ InputFails => DriverInv'
<1> SUFFICES ASSUME DriverInv, InputFails PROVE DriverInv'
  OBVIOUS
<1>1. /\ Pending /\ Running /\ scratch # None /\ exit' = "2"
      /\ UNCHANGED <<inputs, others, directories, scratch, objects, driver, removal>>
  BY DEF InputFails, Pending, Working, Fatal
<1>2. Len(inputs) \in Nat /\ Len(objects) \in Nat
  BY CommandLine DEF DriverInv
<1>3. Len(objects) # Len(inputs)
  BY <1>1, <1>2 DEF Pending, index
<1>4. driver = "not run"
  BY <1>3 DEF DriverInv
<1>5. CASE UNCHANGED files
  BY <1>1, <1>4, <1>5, QuietPreserves DEF DriverInv, TypeOK, Running
<1>6. CASE files' = With(ObjectPath, Incomplete)
  <2>1. /\ OthersKept' /\ DOMAIN files' \subseteq Names \X Nat
        /\ \A p \in DOMAIN files' : p[1] \in directories
    BY <1>1, <1>6, OwnFileWritten
  <2>2. TypeOK' /\ OwnDirectory' /\ LeftoversHaveACause' /\ ~ Running'
    BY <1>1, <1>4, <2>1 DEF DriverInv, TypeOK, OwnDirectory, LeftoversHaveACause, Running
  <2> QED BY <1>1, <1>4, <2>1, <2>2 DEF DriverInv
<1> QED BY <1>5, <1>6 DEF InputFails

LEMMA RunDriverPreserves == DriverInv /\ RunDriver => DriverInv'
<1> SUFFICES ASSUME DriverInv, RunDriver PROVE DriverInv'
  OBVIOUS
<1>1. /\ Running /\ scratch # None /\ removal = "not begun"
      /\ UNCHANGED <<inputs, others, directories, files, scratch, objects, removal, exit>>
      /\ driver' \in {"succeeded", "failed"}
  BY DEF RunDriver, Linking, Working
<1>2. Len(inputs) \in Nat /\ Len(objects) \in Nat /\ Len(objects) <= Len(inputs)
  BY CommandLine DEF DriverInv, TypeOK
<1>3. Len(objects) = Len(inputs)
  <2>1. index > Len(inputs)
    BY DEF RunDriver, Linking
  <2> QED BY <1>2, <2>1 DEF index
<1> QED BY <1>1, <1>3, QuietPreserves DEF Running

----------------------------------------------------------------------------
(* The removal touches the own directory alone.                             *)
LEMMA RemoveFilePreserves == DriverInv /\ RemoveFile => DriverInv'
<1> SUFFICES ASSUME DriverInv, RemoveFile PROVE DriverInv'
  OBVIOUS
<1>1. /\ Running /\ removal = "begun"
      /\ UNCHANGED <<inputs, others, directories, scratch, objects, driver, removal, exit>>
  BY DEF RemoveFile, Removing
<1>2. PICK p \in Own : files' = [q \in DOMAIN files \ {p} |-> files[q]]
  BY DEF RemoveFile
<1>3. DOMAIN files' = DOMAIN files \ {p} /\ \A q \in DOMAIN files' : files'[q] = files[q]
  BY <1>2
<1>4. p[1] = scratch /\ scratch \notin others
  BY <1>1, <1>2 DEF Own, DriverInv, OwnDirectory
<1>5. OthersKept'
  <2>1. \A d \in others : \A q : q[1] = d =>
           /\ q \in DOMAIN files' <=> q \in DOMAIN files
           /\ q \in DOMAIN files => files'[q] = files[q]
    BY <1>3, <1>4
  <2>2. others \subseteq directories'
    BY <1>1 DEF DriverInv, OthersKept
  <2> QED BY <1>1, <2>1, <2>2, ElsewhereKeepsOthers DEF DriverInv
<1>6. TypeOK' /\ OwnDirectory' /\ LeftoversHaveACause'
  BY <1>1, <1>3 DEF DriverInv, TypeOK, OwnDirectory, LeftoversHaveACause, Running
<1> QED BY <1>1, <1>3, <1>5, <1>6 DEF DriverInv

LEMMA RemoveDirectoryPreserves == DriverInv /\ RemoveDirectory => DriverInv'
<1> SUFFICES ASSUME DriverInv, RemoveDirectory PROVE DriverInv'
  OBVIOUS
<1>1. /\ Running /\ removal = "begun" /\ Own = {}
      /\ directories' = directories \ {scratch} /\ removal' = "done"
      /\ exit' \in {"0", "2", "101"}
      /\ UNCHANGED <<inputs, others, files, scratch, objects, driver>>
  BY DEF RemoveDirectory, Removing, Status
<1>2. scratch # None /\ scratch \notin others
  BY <1>1 DEF DriverInv, OwnDirectory
<1>3. OthersKept'
  BY <1>1, <1>2 DEF DriverInv, OthersKept
<1>4. \A p \in DOMAIN files : p[1] \in directories'
  BY <1>1 DEF Own, DriverInv, TypeOK
<1>5. TypeOK'
  BY <1>1, <1>4 DEF DriverInv, TypeOK
<1>6. OwnDirectory' /\ LeftoversHaveACause' /\ ~ Running'
  BY <1>1, <1>2 DEF OwnDirectory, LeftoversHaveACause, Running
<1> QED BY <1>1, <1>3, <1>5, <1>6 DEF DriverInv

LEMMA KilledPreserves == DriverInv /\ Killed => DriverInv'
<1> SUFFICES ASSUME DriverInv, Killed PROVE DriverInv'
  OBVIOUS
<1>1. /\ exit' = "killed"
      /\ UNCHANGED <<inputs, others, directories, files, scratch, objects, driver, removal>>
  BY DEF Killed
<1>2. TypeOK' /\ OwnDirectory' /\ OthersKept' /\ LeftoversHaveACause' /\ ~ Running'
  BY <1>1 DEF DriverInv, TypeOK, OwnDirectory, OthersKept, LeftoversHaveACause, Running
<1> QED BY <1>1, <1>2 DEF DriverInv

----------------------------------------------------------------------------
(* Other runs keep to directories that are not this run's.                  *)
LEMMA OtherRunStartsPreserves == DriverInv /\ OtherRunStarts => DriverInv'
<1> SUFFICES ASSUME DriverInv, OtherRunStarts PROVE DriverInv'
  OBVIOUS
<1>1. UNCHANGED <<inputs, scratch, objects, driver, removal, exit>>
  BY DEF OtherRunStarts
<1>2. PICK d \in Names \ directories :
         /\ others' = others \cup {d} /\ directories' = directories \cup {d}
         /\ files' = With(<<d, 1>>, Foreign)
  BY DEF OtherRunStarts
<1> DEFINE n == <<d, 1>>
<1>3. n[1] = d /\ n \in Names \X Nat
  OBVIOUS
<1>4. /\ DOMAIN files' = DOMAIN files \cup {n} /\ files'[n] = Foreign
      /\ \A p \in DOMAIN files : p # n => files'[p] = files[p]
  BY <1>2 DEF With
<1>5. \A p \in DOMAIN files : p[1] # d
  BY DEF DriverInv, TypeOK
<1>6. OthersKept'
  <2>1. others' \subseteq directories'
    BY <1>2 DEF DriverInv, OthersKept
  <2>2. ASSUME NEW e \in others'
        PROVE  {p \in DOMAIN files' : p[1] = e} = {<<e, 1>>} /\ files'[<<e, 1>>] = Foreign
    <3>1. CASE e = d
      BY <1>3, <1>4, <1>5, <3>1
    <3>2. CASE e # d
      <4>1. {p \in DOMAIN files : p[1] = e} = {<<e, 1>>} /\ files[<<e, 1>>] = Foreign
        BY <1>2, <3>2 DEF DriverInv, OthersKept
      <4>2. {p \in DOMAIN files' : p[1] = e} = {p \in DOMAIN files : p[1] = e}
        BY <1>3, <1>4, <3>2
      <4>3. <<e, 1>> \in DOMAIN files /\ <<e, 1>> # n
        BY <1>3, <3>2, <4>1
      <4> QED BY <1>4, <4>1, <4>2, <4>3
    <3> QED BY <3>1, <3>2
  <2> QED BY <2>1, <2>2 DEF OthersKept
<1>7. TypeOK'
  BY <1>1, <1>2, <1>3, <1>4 DEF DriverInv, TypeOK
<1>8. OwnDirectory' /\ LeftoversHaveACause'
  BY <1>1, <1>2 DEF DriverInv, OwnDirectory, LeftoversHaveACause, Running
<1>9. Running /\ removal = "not begun" => \A i \in 1..Len(objects) : Paired(i)'
  <2> SUFFICES ASSUME Running, removal = "not begun", NEW i \in 1..Len(objects) PROVE Paired(i)'
    OBVIOUS
  <2>1. Paired(i)
    BY DEF DriverInv
  <2>2. <<scratch, i>> \in DOMAIN files => <<scratch, i>> # n
    BY <1>3, <1>5
  <2> HIDE DEF n
  <2> QED BY <1>1, <1>4, <2>1, <2>2 DEF Paired
<1>10. DOMAIN files' \subseteq Names \X Nat
  BY <1>3, <1>4 DEF DriverInv
<1> QED BY <1>1, <1>6, <1>7, <1>8, <1>9, <1>10 DEF DriverInv, Running

LEMMA OtherRunEndsPreserves == DriverInv /\ OtherRunEnds => DriverInv'
<1> SUFFICES ASSUME DriverInv, OtherRunEnds PROVE DriverInv'
  OBVIOUS
<1>1. UNCHANGED <<inputs, scratch, objects, driver, removal, exit>>
  BY DEF OtherRunEnds
<1>2. PICK d \in others :
         /\ others' = others \ {d} /\ directories' = directories \ {d}
         /\ files' = Only(directories \ {d})
  BY DEF OtherRunEnds
<1>3. /\ DOMAIN files' = {p \in DOMAIN files : p[1] \in directories \ {d}}
      /\ \A p \in DOMAIN files' : files'[p] = files[p]
  BY <1>2 DEF Only
<1>4. OthersKept'
  <2>1. others' \subseteq directories'
    BY <1>2 DEF DriverInv, OthersKept
  <2>2. ASSUME NEW e \in others'
        PROVE  {p \in DOMAIN files' : p[1] = e} = {<<e, 1>>} /\ files'[<<e, 1>>] = Foreign
    <3>1. {p \in DOMAIN files : p[1] = e} = {<<e, 1>>} /\ files[<<e, 1>>] = Foreign
      BY <1>2 DEF DriverInv, OthersKept
    <3>2. e \in directories \ {d}
      BY <1>2, <2>1
    <3>3. {p \in DOMAIN files' : p[1] = e} = {p \in DOMAIN files : p[1] = e}
      BY <1>3, <3>2
    <3>4. <<e, 1>> \in DOMAIN files'
      BY <3>1, <3>3
    <3> QED BY <1>3, <3>1, <3>3, <3>4
  <2> QED BY <2>1, <2>2 DEF OthersKept
<1>5. TypeOK'
  BY <1>1, <1>2, <1>3 DEF DriverInv, TypeOK
<1>6. OwnDirectory' /\ LeftoversHaveACause'
  BY <1>1, <1>2 DEF DriverInv, OwnDirectory, LeftoversHaveACause, Running
<1>7. ASSUME objects = << >> PROVE 1..Len(objects) = {}
  <2>1. Len(objects) = 0
    BY <1>7, EmptySeq
  <2> QED BY <2>1
<1>8. Running /\ removal = "not begun" => \A i \in 1..Len(objects) : Paired(i)'
  <2> SUFFICES ASSUME Running, removal = "not begun", NEW i \in 1..Len(objects) PROVE Paired(i)'
    OBVIOUS
  <2>1. Paired(i)
    BY DEF DriverInv
  <2>2. objects # << >>
    BY <1>7
  <2>3. scratch # None
    BY <2>2 DEF DriverInv, OwnDirectory
  <2>4. scratch \in directories \ {d}
    BY <1>2, <2>3 DEF DriverInv, OwnDirectory
  <2>5. <<scratch, i>> \in DOMAIN files => <<scratch, i>> \in DOMAIN files'
    BY <1>3, <2>4
  <2> QED BY <1>1, <1>3, <2>1, <2>5 DEF Paired
<1>9. DOMAIN files' \subseteq Names \X Nat
  BY <1>3 DEF DriverInv
<1> QED BY <1>1, <1>4, <1>5, <1>6, <1>8, <1>9 DEF DriverInv, Running

THEOREM DriverInductive == DriverInv /\ [Next]_vars => DriverInv'
<1> SUFFICES ASSUME DriverInv, [Next]_vars PROVE DriverInv'
  OBVIOUS
<1>1. CASE NewScratch
  BY <1>1, NewScratchPreserves
<1>2. CASE NoScratch
  BY <1>2, NoScratchPreserves
<1>3. CASE GivenObject
  BY <1>3, GivenObjectPreserves
<1>4. CASE CompileSource
  BY <1>4, CompileSourcePreserves
<1>5. CASE InputFails
  BY <1>5, InputFailsPreserves
<1>6. CASE Panic \/ Leave
  BY <1>6, QuietPreserves DEF Panic, Leave, Pending, Linking, Working, Running, DriverInv, TypeOK
<1>7. CASE DriverMissing
  BY <1>7, QuietPreserves DEF DriverMissing, Linking, Working, Running, Fatal, DriverInv, TypeOK
<1>8. CASE RunDriver
  BY <1>8, RunDriverPreserves
<1>9. CASE RemoveFile
  BY <1>9, RemoveFilePreserves
<1>10. CASE RemoveDirectory
  BY <1>10, RemoveDirectoryPreserves
<1>11. CASE RemovalFails
  <2>1. /\ Running /\ removal = "begun" /\ removal' = "failed" /\ exit' \in {"0", "2", "101"}
        /\ UNCHANGED <<inputs, others, directories, files, scratch, objects, driver>>
    BY <1>11 DEF RemovalFails, Removing, Status
  <2>2. scratch # None
    BY <2>1 DEF DriverInv, OwnDirectory
  <2> QED BY <2>1, <2>2, QuietPreserves DEF Running, DriverInv, TypeOK
<1>12. CASE Killed
  BY <1>12, KilledPreserves
<1>13. CASE OtherRunStarts
  BY <1>13, OtherRunStartsPreserves
<1>14. CASE OtherRunEnds
  BY <1>14, OtherRunEndsPreserves
<1>15. CASE UNCHANGED vars
  BY <1>15 DEF vars, DriverInv, TypeOK, OwnDirectory, OthersKept, Paired, LeftoversHaveACause, Running
<1> QED BY <1>1, <1>2, <1>3, <1>4, <1>5, <1>6, <1>7, <1>8, <1>9, <1>10, <1>11, <1>12, <1>13,
           <1>14, <1>15 DEF Next

(* The inductive invariant of the linking mode: what has been compiled lies *)
(* in a directory of this run alone, and is paired with the inputs.         *)
THEOREM DriverInvariance == Spec => []DriverInv
<1>1. Init => DriverInv
  BY DriverInitially
<1>2. DriverInv /\ [Next]_vars => DriverInv'
  BY DriverInductive
<1> QED BY <1>1, <1>2, PTL DEF Spec

(* The linker driver is run on one object per input, in order, and each     *)
(* object made from a source holds the code of that source.                 *)
THEOREM LinksEveryInputHolds == Spec => []LinksEveryInput
<1>1. DriverInv => LinksEveryInput
  <2> SUFFICES ASSUME DriverInv, Linking, driver # "not run" PROVE LinksEveryInput
    BY DEF LinksEveryInput
  <2>1. DOMAIN inputs = 1..Len(objects) /\ Len(objects) = Len(inputs)
    BY CommandLine DEF DriverInv
  <2>2. \A i \in DOMAIN inputs : Paired(i)
    BY <2>1 DEF DriverInv, Linking, Working
  <2> QED BY <2>2 DEF LinksEveryInput, Paired, DriverInv
<1> QED BY <1>1, DriverInvariance, PTL

(* The directories of other runs are neither written nor removed.           *)
THEOREM OthersKeptHolds == Spec => []OthersKept
<1>1. DriverInv => OthersKept
  BY DEF DriverInv
<1> QED BY <1>1, DriverInvariance, PTL

(* A directory that stays behind has a cause: a kill, a removal that        *)
(* failed, or a fatal error before the linker driver ran.                   *)
THEOREM LeftoversHaveACauseHolds == Spec => []LeftoversHaveACause
<1>1. DriverInv => LeftoversHaveACause
  BY DEF DriverInv
<1> QED BY <1>1, DriverInvariance, PTL

----------------------------------------------------------------------------
(* The output files of linkers that run at once.                            *)
(* A linker between create and its end owns the file at its path, and an    *)
(* unfinished file lies at the path of the linker that created it.          *)
OwnsOutput ==
    /\ \A l \in Linkers :
          pc[l] \in {"encode", "write"} => file[output[l]].by = l
    /\ \A p \in Paths :
          file[p].content \in {"empty", "partial"} =>
             file[p].by \in Linkers /\ output[file[p].by] = p

OutputInv == OutputAssumption /\ OutputTypeOK /\ SuccessIsWhole /\ OwnsOutput

Content == {"empty", "partial", "whole"}

LEMMA NobodyOwnsNothing == Absent.by = Nobody /\ Absent.content = "none"
  BY DEF Absent

(* No linker owns a file yet.                                               *)
THEOREM OutputInitially == OutputInit => OutputInv
  BY LinkerOutputAssumption DEF OutputAssumption, OutputInit, OutputInv, OutputTypeOK, SuccessIsWhole, OwnsOutput, Absent

(* A step that only moves one linker on, to a label that needs no file.     *)
LEMMA MoveKeepsOutputs ==
    ASSUME OutputInv, NEW l \in Linkers, NEW label \in {"link", "create", "failed", "killed"},
           Goto(l, label), UNCHANGED <<output, format, file>>,
           pc[l] # "done",
           label \in {"link", "create"} => pc[l] \in {"start", "link"}
    PROVE  OutputInv'
<1>1. OutputTypeOK'
  BY DEF OutputInv, OutputTypeOK, Goto
<1>2. OwnsOutput'
  BY DEF OutputInv, OwnsOutput, OutputTypeOK, Goto
<1>3. SuccessIsWhole'
  BY DEF OutputInv, SuccessIsWhole, OwnsOutput, OutputTypeOK, Goto
<1> QED BY <1>1, <1>2, <1>3 DEF OutputInv

(* A step of the owner of a path, or of the linker that creates its file.   *)
LEMMA OwnStepKeepsOutputs ==
    ASSUME OutputInv, NEW l \in Linkers, NEW label \in {"encode", "write", "done"},
           NEW content \in Content,
           Goto(l, label), SetFile(l, content), UNCHANGED <<output, format>>,
           label = "done" => content = "whole",
           file[output[l]] = Absent \/ file[output[l]].by = l,
           pc[l] \in {"create", "encode", "write"}
    PROVE  OutputInv'
<1> DEFINE p == output[l]
           f == [by |-> l, content |-> content]
<1>1. p \in Paths /\ file' = [file EXCEPT ![p] = f] /\ output' = output
  BY DEF OutputInv, OutputTypeOK, SetFile
<1>2. pc' = [pc EXCEPT ![l] = label] /\ pc[l] # "done"
  BY DEF Goto
<1>3. f \in [by : Linkers \cup {User}, content : Content]
  OBVIOUS
<1>4. OutputTypeOK'
  BY <1>1, <1>2, <1>3 DEF OutputInv, OutputTypeOK, Content
<1>5. ASSUME NEW m \in Linkers, m # l, output[m] = p
      PROVE  pc[m] \notin {"encode", "write", "done"}
  <2>1. file[p].by # m
    BY <1>5, NobodyOwnsNothing DEF OutputInv, OutputAssumption
  <2>2. pc[m] = "done" => file[p].by = m
    <3>1. pc[m] = "done" => file[p] = [by |-> m, content |-> "whole"]
      BY <1>5 DEF OutputInv, SuccessIsWhole
    <3> QED BY <3>1
  <2>3. pc[m] \in {"encode", "write"} => file[p].by = m
    BY <1>5 DEF OutputInv, OwnsOutput
  <2> QED BY <2>1, <2>2, <2>3
<1>6. OwnsOutput'
  BY <1>1, <1>2, <1>5 DEF OutputInv, OwnsOutput, OutputTypeOK
<1>7. SuccessIsWhole'
  <2>1. ASSUME NEW m \in Linkers, pc'[m] = "done"
        PROVE  file'[output'[m]] = [by |-> m, content |-> "whole"]
    BY <1>1, <1>2, <1>5, <2>1 DEF OutputInv, SuccessIsWhole, OutputTypeOK
  <2>2. ASSUME NEW q \in Paths, file'[q].content \in {"empty", "partial"}
        PROVE  pc'[file'[q].by] \in {"encode", "write", "failed", "killed"}
    <3>1. CASE q = p
      BY <1>1, <1>2, <2>2, <3>1 DEF OutputInv, OutputTypeOK
    <3>2. CASE q # p
      BY <1>1, <1>2, <2>2, <3>2 DEF OutputInv, SuccessIsWhole, OwnsOutput, OutputTypeOK
    <3> QED BY <3>1, <3>2
  <2> QED BY <2>1, <2>2 DEF SuccessIsWhole
<1> QED BY <1>4, <1>6, <1>7 DEF OutputInv

LEMMA OutputInductive == OutputInv /\ [OutputNext]_outputVars => OutputInv'
<1> SUFFICES ASSUME OutputInv, [OutputNext]_outputVars PROVE OutputInv'
  OBVIOUS
<1>1. ASSUME NEW l \in Linkers, CheckOutput(l) PROVE OutputInv'
  BY <1>1, MoveKeepsOutputs DEF CheckOutput, Fail
<1>2. ASSUME NEW l \in Linkers, Link(l) PROVE OutputInv'
  BY <1>2, MoveKeepsOutputs DEF Link, Fail
<1>3. ASSUME NEW l \in Linkers, Create(l) PROVE OutputInv'
  <2>1. CASE Fail(l)
    BY <1>3, <2>1, MoveKeepsOutputs DEF Create, Fail
  <2>2. CASE ~ Fail(l)
    BY <1>3, <2>2, OwnStepKeepsOutputs DEF Create, Content
  <2> QED BY <2>1, <2>2
<1>4. ASSUME NEW l \in Linkers, Encode(l) PROVE OutputInv'
  <2>1. CASE Fail(l)
    BY <1>4, <2>1, MoveKeepsOutputs DEF Encode, Fail
  <2>2. CASE Goto(l, "write") /\ UNCHANGED file
    <3>1. OutputTypeOK'
      BY <1>4, <2>2 DEF OutputInv, OutputTypeOK, Encode, Goto
    <3>2. OwnsOutput'
      BY <1>4, <2>2 DEF OutputInv, OwnsOutput, OutputTypeOK, Encode, Goto
    <3>3. SuccessIsWhole'
      BY <1>4, <2>2 DEF OutputInv, SuccessIsWhole, OwnsOutput, OutputTypeOK, Encode, Goto
    <3> QED BY <3>1, <3>2, <3>3 DEF OutputInv
  <2> QED BY <1>4, <2>1, <2>2 DEF Encode
<1>5. ASSUME NEW l \in Linkers, Write(l) PROVE OutputInv'
  <2>1. file[output[l]].by = l /\ pc[l] = "write" /\ UNCHANGED <<output, format>>
    BY <1>5 DEF Write, OutputInv, OwnsOutput
  <2>2. CASE Fail(l)
    BY <2>1, <2>2, MoveKeepsOutputs DEF Fail
  <2>3. CASE Goto(l, "done") /\ SetFile(l, "whole")
    BY <2>1, <2>3, OwnStepKeepsOutputs DEF Content
  <2>4. CASE pc' = pc /\ SetFile(l, "partial")
    <3>1. Goto(l, "write")
      BY <2>1, <2>4 DEF Goto, OutputInv, OutputTypeOK
    <3> QED BY <2>1, <2>4, <3>1, OwnStepKeepsOutputs DEF Content
  <2> QED BY <1>5, <2>2, <2>3, <2>4 DEF Write
<1>6. ASSUME NEW l \in Linkers, Kill(l) PROVE OutputInv'
  BY <1>6, MoveKeepsOutputs DEF Kill, AtWork
<1>7. CASE UNCHANGED outputVars
  BY <1>7 DEF outputVars, OutputInv, OutputTypeOK, SuccessIsWhole, OwnsOutput
<1> QED BY <1>1, <1>2, <1>3, <1>4, <1>5, <1>6, <1>7 DEF OutputNext, Step

(* The invariant: files and the linkers that own them.                      *)
THEOREM OutputInvariance == OutputSpec => []OutputInv
<1> QED BY OutputInitially, OutputInductive, PTL DEF OutputSpec

(* Every variable has its type, for any number of linkers and paths.        *)
THEOREM OutputTypeCorrectness == OutputSpec => []OutputTypeOK
<1>1. OutputInv => OutputTypeOK
  BY DEF OutputInv
<1> QED BY <1>1, OutputInvariance, PTL

(* Success means a whole image at the path, for any number of linkers.      *)
THEOREM SuccessIsWholeHolds == OutputSpec => []SuccessIsWhole
<1>1. OutputInv => SuccessIsWhole
  BY DEF OutputInv
<1> QED BY <1>1, OutputInvariance, PTL

(* No linker ever writes into a file that another one, or the user, made.   *)
THEOREM NeverOverwritesHolds == OutputSpec => NeverOverwrites
<1> DEFINE Kept == \A p \in Paths :
          file[p] # Absent =>
             /\ file'[p].by = file[p].by
             /\ file'[p] # file[p] =>
                   file[p].by \in Linkers /\ pc[file[p].by] = "write"
<1>1. OutputInv /\ [OutputNext]_outputVars => Kept
  <2> SUFFICES ASSUME OutputInv, [OutputNext]_outputVars PROVE Kept
    OBVIOUS
  <2>1. CASE UNCHANGED file
    BY <2>1
  <2>2. ASSUME NEW l \in Linkers, Create(l), file' # file PROVE Kept
    <3>1. file[output[l]] = Absent /\ SetFile(l, "empty")
      BY <2>2 DEF Create, Fail
    <3> QED BY <3>1 DEF SetFile, OutputInv, OutputTypeOK
  <2>3. ASSUME NEW l \in Linkers, Write(l), file' # file PROVE Kept
    <3>1. file[output[l]].by = l /\ pc[l] = "write"
      BY <2>3 DEF Write, OutputInv, OwnsOutput
    <3>2. SetFile(l, "partial") \/ SetFile(l, "whole")
      BY <2>3 DEF Write, Fail
    <3> QED BY <3>1, <3>2 DEF SetFile, OutputInv, OutputTypeOK
  <2>4. \/ UNCHANGED file
        \/ \E l \in Linkers : Create(l) \/ Write(l)
    BY DEF OutputNext, Step, CheckOutput, Link, Encode, Kill, Fail, outputVars
  <2> QED BY <2>1, <2>2, <2>3, <2>4
<1>2. Kept => [Kept]_outputVars
  OBVIOUS
<1> QED BY <1>1, OutputInvariance, PTL DEF OutputSpec, NeverOverwrites
==============================================================================
