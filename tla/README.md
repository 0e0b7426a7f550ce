# A verification project for cosmicc

cosmicc is a C compiler and linker written in Rust. `saltwater-parser` turns a
file into declarations, `saltwater-sia` compiles them to COSMIC-SIA objects and
links those into an image, `saltwater-amd64` compiles them to native objects
with Cranelift, and the two programs `cosmicc` and `cosmic-link` drive them.
`runtime` is the library of the compiled programs, in C: an allocator, floating
point without a floating-point unit, its environment for several threads, and
what else a machine with words of 32 bits does not have.

The modules here are translated from the Rust and the C code. TLC checks them on small
instances and TLAPS proves the central results for every value of the
constants. This file says what is modelled and how it follows the code, what
each run and each theorem shows, and what is not modelled.

    tlc -workers 2 -config StaticLink.cfg MCStaticLink      # a run
    tlapm StaticLink_proofs.tla                             # the proofs of a module

Paths of the source are relative to the root of the repository.

## 1. Inventory

A compilation is sequential: every stage pulls from the one before it.

    file -> lexer -> include stack -> conditionals -> macro replacement -> parser
         -> analyzer (declarations, types, folding) -> hir::Declarations
         -> saltwater-sia  -> object(s), archives -> cosmic-link -> image -> RAM
         -> saltwater-amd64 -> native object(s) -> cosmicc runs the system linker

What makes it hard is therefore seldom concurrency: it is state machines over
long inputs (what a stack, a hide set or a table holds after an odd but legal
sequence of lines), fixed points (extraction, reachability), names that change
meaning between stages, arithmetic at the end of a 32-bit address space, and,
at the edges, processes that share files and directories. The runtime adds
arithmetic that has to be right to the last bit, data structures inside the
memory they hand out, and the one place with threads: a scheduler that changes
a global pointer in the middle of calls.

| Component | State | Operations | Interacts with | What is hard | What makes it correct |
|---|---|---|---|---|---|
| Lexer `lex/mod.rs` | position, line, pending errors | `next_token` | pulled by the include stack | widths and escapes of literals, trigraphs | the token and value the standard gives |
| Include stack `lex/files.rs` | stack of lexers, peeked token, search path | push a header, pop at its end, `peek_token` | conditionals, locations of diagnostics | a header ends between a peek and a next; `#include_next`; unbounded nesting | tokens in file order, each with the place it came from |
| Conditional inclusion `lex/cpp.rs` | `nested_ifs`, depth and state of `consume_directive` | one directive or line at a time | the next two | state left over from skipped groups | exactly the selected branches reach the parser; only ill-formed lines are diagnosed |
| Macro definitions `lex/cpp.rs` | table of definitions, `push_macro` stacks | `#define`, `#undef`, pragmas, `#if` expressions | replacement | redefinition is legal only if the same | the definition in force at every token |
| Macro replacement `lex/replace.rs` | queue of pending tokens with hide sets, nested engines | take, replace an object macro, collect arguments, substitute, paste | pulls from the above, feeds the parser | self reference, calls that begin in one expansion and end in another, errors inside arguments | C11 6.10.3, termination, no lost error |
| Parser `parse/*.rs` | one token of lookahead, typedef names in scope | recursive descent | analyzer through typedef scopes | typedef ambiguity, nesting depth | the grammar |
| Declarations `analyze/mod.rs` | scope, `initialized`, errors | `declare`, function definitions | `compile` of a back end | a rule that looks at one predecessor only | conflicts are diagnosed, valid units are not |
| Scopes, tags, labels `analyze/{mod,stmt}.rs` | scope stacks | enter, leave, look up | parser, declarations | shadowing, incomplete tags | lexical scope |
| Expressions, initializers, folding `analyze/{expr,init}.rs`, `fold.rs` | none beyond recursion | conversions, brace elision, folding | types and layout | widths, signedness, edges of shifts and division | the value and type the standard gives |
| Types and layout `data/types.rs`, `arch/*.rs` | none | sizes, alignments, offsets, bit-fields | all code generators | overflow, bit-field units | members never overlap; the ABI |
| Diagnostics `data/error.rs`, `lib.rs` | queue of errors, recursion guard | push, drain, `check_semantics` | all stages | an error produced while another is reported | none is lost, none is invented |
| Definitions of a unit `saltwater-sia/lib.rs` `compile` | `canonical`, artifact | choose the declaration that stands for a name, emit, bind | analyzer, linker | the order of declarations | one definition per name, with the linkage C gives it |
| SIA lowering `saltwater-sia/*.rs` | frame, labels, instruction buffer | one function at a time | artifact | frame layout, branch targets | semantics of C |
| Archive extraction `saltwater-sia/archive.rs` | selected members, missing names | `extract_needed` | linker | members need each other both ways | the least set that completes the link |
| Object merging `saltwater-sia/image.rs` | occupied names, renaming, merged artifact | `merge_objects` | extraction, reachability | generated names can collide with given ones | a reference keeps its definition |
| Reachability `saltwater-sia/image.rs` | worklist, live names | `link_reachable_images` | merge, layout | cycles | exactly what the entry reaches |
| Image layout `saltwater-sia/image.rs` | cursor, regions, bytes | place, allocate, copy, patch | reachability, loader | wrap-around, zero-sized objects, overlapping patches | no overlap; every byte is accounted for |
| Loader `image/startup.rs` | RAM, stack, exit trap | `load_into` | image | RAM that is not zero | the program finds its image as linked |
| `cosmic-link` `src/cosmic-link.rs` | command line, output file | main | all of the linker | other linkers, failures half way | nothing is overwritten; success means a whole file |
| `cosmicc` `src/cosmicc.rs` | scratch directory, list of objects | main | system linker | every failure path, other runs, kills | each input linked once, others' directories untouched, leftovers only for a reason |
| amd64 back end `saltwater-amd64/*.rs` | Cranelift functions, argument counters | classification, `va_arg`, statements | analyzer, system linker | counters of registers and stack bytes | the System V ABI |
| Allocator `runtime/allocator.c` | blocks with headers in one piece of memory, `used` | `alloc`, `calloc`, `realloc`, `free`, `reset` | programs | walks over headers, splitting, merging, trimming; sizes that wrap | storage is apart and keeps its content; a failing call changes nothing |
| Floating-point environment `context.c`, `fenv.c` | a context per thread, the pointer to that of the running one | `fesetround` to `feupdateenv`, `tgamma` | every operation, the scheduler | thread switches between two accesses | calls act as if each were atomic (`tgamma` flag by flag), on the caller's context only |
| Floating-point arithmetic `runtime/softfloat` | none | addition to square root, fma, conversions, remainders | the environment, decimal conversion | sticky bits, cancellation, subnormals, approximate quotients, carries between words | the exact result, rounded once, with the right exceptions |
| Decimal conversion `runtime/decimal` | long integers | `strtod`, floating conversions of `printf` | arithmetic, the environment | dropped digits, ties, carries into the exponent | as above, for any text |
| Integers and strings `integer64.c`, `primitives.c`, `strings.c` | none | multiplication and division of two words, shifts, `memmove`, `strtoul` | compiled programs | carries, the ends of ranges, overlap | what the same operation on integers gives |

`PROJECT.json` lists every component with its status and every hazard at its
line. Not modelled at all: what section 6 names.

## 2. The modules

| Module | Models | Uses |
|---|---|---|
| `ConditionalGroups` | the reference: open groups of a file, which lines are allowed, which text is selected | |
| `ConditionalInclusion` | abstract specification: the selected text, until an ill-formed line, a diagnostic or a directive taken for text | `ConditionalGroups` |
| `CppConditional` | `nested_ifs`, `if_directive`, `consume_directive`, … in `lex/cpp.rs` | implements `ConditionalInclusion` |
| `MacroTokens` | tokens and definitions | |
| `MacroReplacement` | `replace`, `replace_function`, `stringify` and pasting in `lex/replace.rs` | `MacroTokens` |
| `MacroStandard` | the reference: the hide-set algorithm behind C11 6.10.3, recursive; what the engines give compared with it | `MacroReplacement` |
| `TranslationUnit` | `declare()` in `analyze/mod.rs`, `compile()` in `saltwater-sia/lib.rs` | |
| `SiaObject`, `LinkCommand` | `Artifact` and its validation; the constants of a link | |
| `ArchiveExtraction` | `StaticArchive::extract_needed`, for all archives of a command line | `LinkCommand` |
| `ObjectMerge` | `Artifact::merge_objects` | `LinkCommand` |
| `ReachableObjects` | `Artifact::link_reachable_images` | `ObjectMerge` |
| `StaticLink` | composition of the three as `main` of `cosmic-link` runs them | all of the above four |
| `ImageLayout` | `link_image`, `validate_image`, `load_into` | `SiaObject` |
| `LinkerOutput` | the output file of several `cosmic-link` processes | |
| `NativeDriver` | `cosmicc` when it links | |
| `Heap` | abstract specification: storage that is apart and keeps its content | |
| `Arena` | `allocator.c`, one step per turn of its loops | implements `Heap` |
| `TaskEnvironments` | abstract specification: an environment per thread, atomic calls | |
| `FloatEnvironment` | `context.c`, `fenv.c`, `tgamma` of `math-extra.c`, under a scheduler | implements `TaskEnvironments` |
| `SoftFloat` | addition to division, fma, scaling and rounding of binary32 | |
| `MathBits`, `MathExtra` | remainders, `nextafter`, `frexp`, comparisons; maxima, `fdim`, `modf`, `remainder` | `SoftFloat`, `FloatReference` |
| `FloatReference` | the reference: exact values, rounded by the definition of IEEE 754 | `MathBits` |
| `FloatConversions`, `IntegerConversions` | binary32 to and from binary64, and both to and from integers | `FloatReference` |
| `Binary64` | what binary64 does in other ways: quotients and roots from estimates, products of four words | `FloatReference`, `WordArithmetic` |
| `DecimalText` | `strtod` and the conversions `%f`, `%e`, `%g`, `%a` | `FloatReference` |
| `WordArithmetic` | integers of several words: `integer64.c`, `primitives.c`, the array functions of softfloat | |
| `GuestStrings` | `cosmic_strtoul32` and `cosmic_memmove` | |
| `GuestArithmetic` | composition: each operation evaluated in the environment of its thread | all of the above seven rows |

`MC*` modules give the constants their values. `*_proofs` modules hold theorems.
`PROJECT.json` gives for every definition the lines of the source it models.

**Conditional inclusion.** A step of `CppConditional` reads one line. `mode` is
`"text"` in `PreProcessor::next` and the state of `consume_directive` in its
loop, `depth` is its counter, `nested_ifs` the stack of the same name. The value
of a condition is an input: true, false or an error. The module also carries
what a reader of the file would know (`groups`, `wellFormed`), as history
variables that no guard of the code reads, to state properties about both. A `#`
alone on its line is a directive too, the null directive; `next_cpp_token` waits
for its name over the end of the line (`hash`) and then delivers what it finds as
a token, so that a directive on the next line is not seen (`Swallow`).

**Macro replacement.** An *engine* is a call of `replace_boxed`: its queue
`pending` of tokens with hide sets in front of the tokens still to be read, and
what it delivered. Substituting a function macro runs a nested engine for each
parameter that is prescanned, so the state is a stack of engines, and the record
`call` of an engine holds the local variables of `replace_function`. Tokens are
opaque; what two tokens paste to is a table; a stringified operand is the one
token `"string"`. White space is kept where the code looks at it.

**A translation unit.** `unit` lists all declarations of file scope in order; a
step declares one, and after the last one `compile()` chooses, emits and binds
them one per step. Types are model values, a body is the set of names it uses, and
`qualifiers` are the `inline` and `_Noreturn` of a function.

**The linker.** An object is the record of `SiaObject`. In `ArchiveExtraction` a
step adds one member, in `ObjectMerge` it handles one object or one local
name (in any order, where the code follows that of a `BTreeSet`), in
`ReachableObjects` it handles one name of the worklist. A merged definition
carries two fields the code does not have, `origin` and `was`, which say which
object it came from under which name; nothing depends on them except properties.
How scoped names are spelled is the operator constant `Scoped`, about which
nothing is assumed: the code does not rely on it either. `StaticLink` runs the
three one after the other, with or without `--gc-sections`.

**Layout.** `ImageLayout` places a definition, allocates (or finds no memory for)
the buffer, copies a definition, or applies a relocation per step. A byte is symbolic: zero, byte *o* of
definition *i*, or byte *b* of an address. `load_into` writes the result to a RAM
that holds something else before.

**Programs.** In `LinkerOutput` several linkers interleave at every system call
that touches the output; each of them can fail where the code can, and be
killed anywhere. In `NativeDriver` one process works while other runs make and
drop their directories; each input, the driver, its start and the removal of the
scratch directory can fail, and the process can be killed, also between two files
of a removal.

**The allocator.** `header` is the map from offsets to headers, `cells` the content
of memory eight bytes at a time, so that a header that is overwritten, or storage
that is used as a header, is visible. A call is a walk: `pc` names the loop it is
in and `offset` the header it has reached. The program between the calls keeps
what it was given under a name, an *owner*, and writes to it; it may also pass
pointers that it does not hold.

**Floating-point environment.** A call is the list of its accesses to a context
(`Script`), and the scheduler may let another thread run between any two. `local`
has what the call holds in C's local variables, the fetched pointer among them.
`Evaluate` is an operation: it reads the rounding mode and computes, `raise` adds
the flags after it.

**Arithmetic.** An operation is a function from bit patterns and a rounding mode to
bits and raised flags, with the same branches, shifts and sticky bits as the code,
whose constants are computed from the parameters `P`, `EB` and `G` of the format:
bits of the fraction, of the exponent, and below the last place. Where binary64
runs the code of binary32 with other constants, `Binary64` says so and uses it.
The lines that are mapped are those of the licensed originals under
`upstream/`; the fragments that the build compiles, `adapted/*.inc`, differ from
them in names, in the way the context is passed and in the missing branches for
other word sizes. `FloatReference` has none of this: the value of a pattern is an
integer in units far below the last place, sums, products and quotients are exact,
and `Rounded` picks the neighbour that the mode asks for. `WordArithmetic` has the
carries between words; its reference is the same operation on the integers.
`GuestArithmetic` lets the first thread of `FloatEnvironment` evaluate any
operation on any operands in any mode.

## 3. The runs

Nine runs pass; three find what the code does against its own documentation. In
every configuration with `CHECK_DEADLOCK FALSE` the program really ends. Each
module has a `TypeOK`, which is proved where there are proofs and is no property
of a run.

| Run | Properties | Bounds, and why they are enough |
|---|---|---|
| `cpp_conditional` | `ImplementsReference` (refinement), `ExactUntilRestConsumed`, `OnlyElseMisjudged` | `nested_ifs` up to 3, `depth` up to 2, files of any length: entries left behind, a group above them and a nested skipped group fit together. An `#if` that is swallowed opens at most the third group. Proved without bounds |
| `macro_replacement` | `ExpandsAsStandard`, `ErrorsReported`, `ErrorsInOrder`, `Terminates` | 77762 programs in six families (below) |
| `translation_unit` | `ConflictsHiddenOnlyByPredecessor`, `ValidDiagnosedOnlyForSpecifiers`, `DefinitionsSurvive`, `BindingIsLinkage`, `StaticsResolvedHere` | every unit of at most three declarations of two names with two types: a definition with a declaration on either side; two names are needed for uses; one function qualifier. Names and types are symmetric |
| `static_link` | nine, see below | 18494 command lines in three families (below) |
| `image_layout` | `StorageIsApart`, `ImageIsFaithful`, `LinkedIsAccepted`, `RefusesExactlyUnlinkable`, `LoadedAsLinked` | an address space of 64 bytes, bases at its start, middle and end, budgets below, at and above what is needed: each sum can reach, miss and pass the end |
| `linker_output` | `NeverOverwrites`, `SuccessIsWhole` | two linkers with one or two paths, each free, or taken by a user's file; all three formats. Proved for any number |
| `native_driver` | `LinksEveryInput`, `OthersKept`, `LeftoversHaveACause` | one to three inputs out of two sources with one name and an object; two scratch names, either of which can be taken and freed by other runs at any time |
| `guest_arena` | `ImplementsHeap` (refinement), `Tiled`, `HolesApart`, `FailsForCause`, `CallsReturn` | words of eight bits, so that sums and products wrap; two owners; five pieces of memory: eight cells off a boundary, one that ends at the last address, one a byte longer, address zero, and too little; sizes 0, 1, 9, 20, 240 and 241, which are the least, in and past one cell, and at the limit 2^w - 16. Any number of calls |
| `guest_arithmetic` | `RoundedOnce`, `ExactWhateverTheMode`, `PrivateEnvironments`, `ImplementsEnvironments` | formats of a few bits, on most operations all their values (below); two threads, three calls of the first and one of the other |
| `cpp_valid_else_rejected` | `WellFormedAccepted` | as `cpp_conditional`, `nested_ifs` up to 4 |
| `arguments_prescanned` | `ArgumentsPrescanned` | twelve programs |
| `bodies_survive` | `BodiesSurvive` | one name, three declarations |

**`cpp_conditional`.** `ImplementsReference`: on a file without an ill-formed line,
up to the first diagnostic, the tokens that reach the parser are those of the
selected branches. `ExactUntilRestConsumed`: until a taken branch is first followed
by `#else` or `#elif`, the diagnosed lines are the ill-formed ones, apart from
groups nested in skipped lines and from an end of file inside compiled ones.
`OnlyElseMisjudged`: after that only `#else` and `#elif` can be diagnosed wrongly.
All three speak of files, and of a file up to the place, where no directive stands
right behind a null directive (`swallowed`): from there on every line may be
misjudged.

**`macro_replacement`.** The families: all short definitions of an object and a
function macro with all short files; calls within bodies within arguments;
variadic macros with all, some and no arguments; two lexical errors in and around
calls, of which some are refused for their arguments, a `#` or a `##`; `#` and `##`
with every kind of operand; definitions that refer to each other in every way. `ExpandsAsStandard` compares the engines with the hide-set
algorithm, with five premises:

- `HasMeaning`: the standard gives the file a meaning (no error, no pasting to
  something that is not a token);
- `Painted = {}`: no token is left alone for coming from its own expansion. The
  code's hide sets differ there: a token that follows a cyclic function macro
  can stay as it is, and an object macro that mentions itself is replaced twice
  through prescan;
- `Separated`: no identifier right behind `)`. When an expansion ends with the
  name of a function macro, the code reads one token to look for `(`, and
  delivers another one as it is, without replacing it;
- `OperandsSingle`: `#` and `##` get single tokens, since a longer operand is
  opaque here;
- `Unrepeated`: the premise that the run `arguments_prescanned` drops.

`ErrorsReported` and `ErrorsInOrder` have none of these premises but that the
program did not panic: the assertion in `strip_whitespace` can fail. A call that is
refused returns its refusal alone (`vec![Err(..)]` in `replace.rs` at 459, 479, 501,
531, 540 and 575) and so drops the lexical errors it has collected: `f(@)` for an `f`
of two parameters is reported for its arguments, and the `@` is never mentioned.
Lexical errors (`Invalid`) and the refusal (`Refused`) are therefore told apart,
and `ErrorsReported` promises what is left: each lexical error is delivered, or a
refusal is. `ErrorsInOrder` adds that without a refusal the errors come out as they
stand in the file, none twice and none out of order. `Terminates` is the hazard of hide
sets: no definitions keep replacement going for ever.

**`translation_unit`.** The analyzer compares a declaration with its predecessor
only. The properties say exactly what this costs
(`ConflictsHiddenOnlyByPredecessor`: only conflicts around an `extern` or a
missing initializer are hidden; `ValidDiagnosedOnlyForSpecifiers`: only a
repeated `static`, or another `inline` or `_Noreturn` on a function that is not
extern, is wrongly diagnosed) and what a back end makes of it: one definition per
name, with the binding that C11 6.2.2 gives it, and no use of a static name left
to the linker.

**`static_link`.** Command lines of three families: one object that needs
archives whose members need each other in both directions, with an archive given
twice; merges of one to three objects with private names, and external names
spelled like the names that the linker generates; all relocation graphs of
three definitions with at most two references each and one undefined name.

- `ExtractsLeastClosure`, `EveryMemberWasNeeded`: each archive contributes the
  least set of members that completes the link, and none is linked twice.
- `BindingPreserved`: a merged reference has the name of a definition exactly if
  it meant that definition in its own unit.
- `RefusesExactlyUnlinkable`: the merge fails for the reasons it documents.
- `KeepsExactlyReachable`, `SweptIsValid`, `RefusesOnlyReachable`: what
  `--gc-sections` keeps, that it can be laid out, and that an unreachable
  undefined name is no error.
- `NothingDangles`: over the whole pipeline, a reference that had a definition
  still has one.
- `LinkEnds`: all loops end.

**`image_layout`.** `StorageIsApart`: no two definitions overlap and no sum wraps.
`ImageIsFaithful`: each byte of the image is what the artifact and its
relocations ask for. `RefusesExactlyUnlinkable` describes what is refused from
the arguments alone, with a reference that first lays everything out without
limits; that the host has no memory for the buffer is an end of its own, reached
only for an image that fits. `LinkedIsAccepted`: the validator of loader and container accepts what
the linker makes. `LoadedAsLinked`: whatever was in RAM, the program finds its
image, a stack and an exit trap that do not meet.

**`linker_output`.** Two linkers race for a path: a file is never taken over
(`NeverOverwrites`), at most one succeeds, and success means that its whole image
is there (`SuccessIsWhole`). An unfinished file can stay behind after a failed
write; the property says from whom.

**`native_driver`.** The linker driver gets every input once, in order, and the
object of a source holds the code of that source also when two sources have one
name (`LinksEveryInput`); directories of other runs are left alone, whenever they
come and go (`OthersKept`). The scratch directory stays behind after a kill, after
a removal that fails (`Scratch::drop` ignores its result, also on success), and
where `fatal` ends the process inside the loop over the inputs or because the
driver cannot be started; success, a driver that reports an error and a panic
try to remove it (`LeftoversHaveACause`).

**`guest_arena`.** `ImplementsHeap`: whatever walk finds it, storage is aligned,
inside the memory, apart from all other storage, and keeps what was written to it
also when `realloc` moves it; `calloc` clears, and a call that fails changes
nothing. `Tiled` is what all the walks rely on, `HolesApart` what the second walk of
`free` is for, `FailsForCause` that no call fails while a hole would take the
block, `CallsReturn` that no walk goes in circles.

**`guest_arithmetic`.** `RoundedOnce`: the exact result rounded once in the mode of the
thread's own context, with exactly the exceptions of IEEE 754.
`ExactWhateverTheMode`: what no mode changes. The formats:

| Operations | Format | Operands |
|---|---|---|
| of binary32 | 2 bits of fraction, 3 of exponent, 3 below | all pairs; fma with 12 factors and all addends |
| conversions of formats | to and from 5 bits of fraction, 4 of exponent | all |
| integers | 2 and 4 bits, integers of 7 bits and of 2 | all |
| quotients, roots, sums of binary64 | 5, 3 and 8 below | 33 values squared, all roots; every estimate in its bound |
| products and fma of binary64 | 5, 3 and 3 below, words of 5 bits | 33 values squared, 18 cubed |
| `strtod`, `printf` | 2 and 3; 4 and 3; hexadecimal digits of two bits | texts around ties with up to five kept digits; all values with up to three digits |
| words | 3 bits, `strtoul` 6 | pairs, 64 triples, 360 texts in eight bases |

Narrow formats are enough because the code has no case that depends on the width:
its constants are sums of the parameters, and in each format there are zeros,
subnormal and normal numbers, infinities, both kinds of NaN, cancellation down to
the last bit, ties, overflow, underflow with and without loss and shifts by more
than a word. `G` has to be large enough for the code's margins, and is. Where a
constant of the code is a bound of size, like the 1200 digits that are kept, the
small one (`Read`) is larger than what the format needs, as 1200 is larger than
the 767 digits of binary64. The rounding mode comes from a call of `fesetround`
in the same run, and the flags go through the same context.

`PrivateEnvironments` and `ImplementsEnvironments`: a thread's environment changes by
its own calls only, and by each of them at once, although all go through one
pointer and are stopped between any two accesses. `tgamma` is the exception: it
evaluates any number of operations for `lgamma`, in the caller's mode, and for `exp`,
in a mode it may have exchanged, and each of them raises its flags by itself
(`Again`); it may also return early with what was raised so far (`Return`) or with
invalid (`Pole`). Of it the abstract environments say that until it ends its
thread's flags only grow, and that the mode is what it was. Three calls of one thread are
enough for storing, changing and installing an environment. Bounds named in the
module: only a few operations (`Probes`) are stopped between their evaluation and
the raising of their flags (`Stoppable`), and all others are evaluated in the first
call or after one `fesetround` (`Undisturbed`), since their result depends on
nothing but operands and mode.

### Fairness

`LinkSpec`, `MacroReplacement!Spec` and the specifications of the parts of the
linker have weak fairness of the whole next-state relation: one thread that
computes, and has nothing to wait for, goes on. `Arena` has weak fairness of the
steps of a call, not of the program that makes them. The other specifications have
no fairness and no liveness property; in `LinkerOutput` every process has only a few
steps, waits for no other one, and can be killed at any time.

### What the violated properties show

| Run | Where | What the code does |
|---|---|---|
| `cpp_valid_else_rejected` | `lex/cpp.rs:582` | `consume_directive` returns from `consume_all` without popping `nested_ifs`, against the state diagram at `lex/cpp.rs:203`; later a valid `#else` is rejected |
| `arguments_prescanned` | `lex/replace.rs:625` | the prescan of an argument starts with the names disabled for the call: with `#define A F` and `#define F(x) x`, `A(A(1))` gives `F(1)` |
| `bodies_survive` | `saltwater-sia/lib.rs:1414` | `int f(void){...} int f(void);` loses the body, against the comment at line 1404 |

Seen while modelling, and covered by a premise or a weaker property instead of a
run: the directive after a line with `#` alone is taken for text (`lex/cpp.rs:508`),
so `#if 0`, `#`, `#endif` ends inside an `#if` that is closed; `static int f(); int
f();` is diagnosed (`analyze/mod.rs:1279`), against the comment at line 1268, and so
are declarations that differ in `inline` only (line 1272), although the comment at
line 1374 says that it is ignored; a stray `#endif` is accepted after `consume_all`;
a missing `#endif` is reported only inside skipped lines; conflicts hidden by an
`extern` in between; two white-space tokens before `(` are not skipped, so the call is not seen; `remainder(3, 1)` is negative
zero when rounding down, since it is a difference; `modf` of a NaN stores zero as
the fraction; `softfloat_shiftLeftM` and `softfloat_shiftRightJamM` never end for a
distance of zero, which their callers exclude; the carry of `cosmic_udivmod64` is
never set, since the remainder is at most half of the numerator before the last
turn.

## 4. What is proved

The theorems hold for every value of the constants that the named assumptions
of the modules allow; the assumptions say only what the types of Rust and C say
(sizes are natural numbers, inputs are sequences of objects, a call has one of the
entries of `fenv.h`) and that model values differ.

| Module | Theorems |
|---|---|
| `CppConditional_proofs` | `Refinement` (`ImplementsReference`), `ExactUntilRestConsumedHolds`, `OnlyElseMisjudgedHolds`, `TypeCorrectness`, from `Invariance` |
| `MacroReplacement_proofs` | `ErrorsReportedHolds`, `TypeCorrectness`, from `MacroInvariance` |
| `TranslationUnit_proofs` | `ConflictsHiddenOnlyByPredecessorHolds`, `ValidDiagnosedOnlyForSpecifiersHolds`, `DefinitionsSurviveHolds`, `BindingIsLinkageHolds`, `StaticsResolvedHereHolds`, `TypeCorrectness`, from `UnitInvariance` |
| `StaticLink_proofs` | of extraction: `ExtractsLeastClosureHolds`, `EveryMemberWasNeededHolds`, from `ExtractionInvariance`; of merging: `BindingPreservedHolds`, `LocalsStayPrivateHolds`, `RefusesExactlyUnlinkableHolds`, `TypeCorrectness`, from `Invariance`; of the whole link: `LinkBindingPreserved`, `LinkRefusesExactlyUnlinkable`, `LinkEveryMemberWasNeeded`, from `LinkInvariance`, `KeepsExactlyReachableHolds`, `RefusesOnlyReachableHolds`, from `ReachabilityInvariance`, `SweptIsValidHolds`, `NothingDanglesHolds`, from `MergedInvariance` |
| `ImageLayout_proofs` | `StorageIsApartHolds`, from `Invariance`; `ImageIsFaithfulHolds`, `LinkedIsAcceptedHolds`, `LoadedAsLinkedHolds`, `RefusesExactlyUnlinkableHolds`, from `Placement` and `ImageInvariance` |
| `Commands_proofs` | of the linker's output: `SuccessIsWholeHolds`, `NeverOverwritesHolds`, `OutputTypeCorrectness`, from `OutputInvariance`; of the native driver: `LinksEveryInputHolds`, `OthersKeptHolds`, `LeftoversHaveACauseHolds`, from `DriverInvariance` |
| `Arena_proofs` | `BlocksTile` (`Tiled`), `HolesStayApart` (`HolesApart`), from `Invariance`; `FailsForCauseHolds`, from `Ownership`; `ArenaImplementsHeap` (`ImplementsHeap`), from `ContentsInvariance` |
| `FloatEnvironment_proofs` | `EnvironmentsArePrivate` (`PrivateEnvironments`), from `CurrentIsOwn`; `CallsTakeEffect` (`ImplementsEnvironments`), `TypeCorrectness`, from `CallsStayConsistent` |

**Conditional inclusion.** All of it is about files in which no directive is
swallowed behind a null directive; that a file is clean includes it. The
properties speak of steps, so they need to know how
the code's stack follows the groups of the file. `Inv` says it in three parts for
a clean file: `TextAgrees` (in text every open group is compiled, and
`nested_ifs` has at least as many entries), `ConsumeAgrees` (skipped lines start
at group `Base + 1`; the groups inside are dead) and `NestedMirrorsGroups`
(before `consume_all` is entered there is one entry per group, `"Else"` exactly
for those after `#else`). "At least as many" is all that remains later, and why
`OnlyElseMisjudged` cannot be strengthened to "nothing is misjudged". Each
action preserves `Inv`, by cases on whether the line is allowed; the refinement
maps each line of a clean file to `Read` and every other step to `GiveUp`.

**Macro replacement.** For any definitions and any file. `MacroReplacementAssumption`
says what the types of Rust and the lexer say: a definition is one of the three
kinds with tokens for a body, an error is not a token, and a variadic
macro has the parameter `__VA_ARGS__`, which `#define` adds. `ErrorsReported` speaks
of the end, when one engine is left, so the invariant has to say where an error of
the file is until then. It does not travel: arguments are copied into the
engine that prescans them, but the call keeps a list of the errors it met. `Keeps`
says that the *outermost* engine has the error, or the refusal of the call that
dropped it, in its queue, in its input, among
what it has delivered, or in the list of its call, and every step hands it from
one to the other: a call that is read takes tokens from the two queues and puts
errors into the list or, at a parenthesis that is not there, back among the tokens; the
reply of a call begins with its list, or is its refusal. What happens in an inner engine cannot
lose it. That a step is defined at all needs the rest of `IInv`: each call on
the stack is of a function macro and has an argument for each parameter once it is
in its body (`Fits`), and each engine but the last waits in the body of its call.
Two operators are recursive functions (`FlattenSeq` and `PastedAll`); that they have
values at all is shown by taking the least length for which they would not
(`StepsExist`).

**A translation unit.** For units of any length over any names and types. `UnitInv`
says while declarations are read that the scope holds the newest declaration of
each name (`ScopeIsNewest`) and that a declaration was diagnosed exactly if the
rules of the code, applied to its predecessor, say so (`ErrorsExact`); and while the
back end runs, which declaration `canonical` stands for (`Base`, `Stands`) and what has been
emitted and bound so far (`EmittedSoFar`). What this costs or preserves is then
a question about sequences of declarations, without the machine: between
two declarations that conflict there is a pair of neighbours that do, unless what hides
it stands between them (the least position is taken, `LeastNatural`); and where all
declarations are valid, a `static` one follows `static` ones only.

**Extraction.** `ExtractionInv` adds to types `Accounted`, which relates the names
that the growing sequence of objects defines and wants to the set of members
selected, and `Least`: each set of members that is complete contains the
selected ones. At the end of an archive no candidate is left, so the selected
set is itself complete.

**Merging.** `BindingPreserved` is not inductive: whether a name generated later
captures a reference depends on what is occupied now. The invariant is about
*uses*, triples of an object, a name there and its name after the merge.
`NamesInv` says that everything any object imports or exports, and everything
generated, is occupied, and that scoping is injective; `UsesInv` says that local
uses have generated names, that equal ones are the same local of the same
object, and that others keep names some object imports or exports. Two uses
have the same name exactly if they denote the same definition follows at once.
`CollectInv` carries the first loop, and gives `RefusesExactlyUnlinkable`.

**The composition.** `LinkInv` is both invariants, and that the merge is idle and
starts from what extraction has until it ends. `LinkInvariance` reuses the
inductive steps of both parts and shows that a step of one leaves the other's
invariant alone.

**Reachability.** `GcInv`: every live name is in each closed set that has the
entry, every target of a live definition that has been looked at is live or on
the worklist, and a name that was refused is reached. When the worklist is empty
the live names are closed themselves, so they are the least closed set. Which
definitions are kept is a matter of their ranks among the live ones.

**The merged artifact.** `MergedInv` carries, for each object handled, that it was
valid, that each of its definitions stands in the artifact (`Whole`), no two with the
same origin and former name (`ApartByKey`), and with contents that validation
accepts. With `UsesInv` equal names in the artifact mean one definition, so none
is doubled (`SweptIsValid`, also after a sweep) and no reference that had a
definition loses it (`NothingDangles`).

**Layout.** `IInv` adds to `StorageIsApart` that the cursor is the end of what has
been placed and within the limit; it needs that aligning never goes down, and
that alignments of a valid artifact are not zero. `PlacedInv` says of each
definition that it lies at the first aligned address behind the one before it.
`PatchInv` says what the buffer holds at any point between two copies or
patches (`Contents`): zeros where nothing was copied, the definitions copied, and
the relocations of each definition that are applied so far. A patch changes only
bytes that no relocation applied before has changed and that are in its own
definition; that is why one copy or patch extends `Contents` and why
`ImageIsFaithful` holds at the end. The validator's demands and the loader's follow
from both. For the refusals, `Stuck` names the place where the link has failed,
and the limitless reference `Extent`, which is recursive, is shown to exist and to
be the cursor of the code by taking the least definition at which they differ.

**Output.** `OwnsOutput` says that a linker between `create_new` and its end owns the
file at its path and that an unfinished file lies at its creator's path.
With it no step of another linker can disturb `SuccessIsWhole`.

**The native driver.** `DriverInv`: the scratch directory was free when this run made
it, other runs take only free names, and so it is none of theirs (`OwnDirectory`); the list for the linker pairs
with the inputs handled so far, and an object file of this run holds the code of
the input whose number it has (`Paired`). Any number of inputs, with any
names.

**The allocator.** `Tiled` is inductive only together with where the call is:
`IInv` is `Sane` (the types of what the walk reads), `Tiling` and `OnHeader` (a walk
that goes on is at a header or at the end, and `found` is a header). Each way to
change the blocks is a lemma about tilings alone: `Extended`, `Split`, `Joined`,
`Trimmed`. `HInv` adds which hole may still have a hole behind it while `free`
merges; outside of the merge it is `HolesApart`. For every memory, word size, set
of owners and sequence of calls.

**Who has which block.** A block in use has no mark of its owner; that it has
exactly one is the program's business as much as the arena's. `OwnInv` says so:
the blocks in use are the storage of the owners, less what the call has given back
(`Gone`), and the block the call will return (`Owned`); each loop was entered with
arguments that lead there (`Stage`); the walks have passed no hole that would do, and
have passed the block that is looked for only if `found` says where it is
(`Walk`). So a call that reaches the end without a result had a pointer nobody
holds or no hole to take, which is `FailsForCause`.

**The refinement of the heap.** All steps of a call but its return leave the
abstract heap alone. Cells are written in three places: at the header between two
blocks, which is in nobody's storage (`HeadOutside`), and in the block the call
has made, which is apart from what the owners have (`NewApart`). `HeapInv` adds
what these writes are for: after `Clear` the block is all zeros (`Zeroed`), and
after `Copy` it holds what the old block holds (`Copied`), which stays true while
the old block is found, freed and merged, since the walks change headers and not the
cells behind them. At the return the four outcomes (`Outcome`) are the abstract
`Release`, `Refuse`, `Grant` or `Resize`.

**The environment.** `EnvironmentInvariant`: what a call has fetched is the context of
its thread, and the pointer is that of the running one, or null while the first
thread runs. No other context is then in reach of a step; nothing is assumed of
the operations for that.

**The refinement of the environments.** A call is a list of accesses, so where it is
in its list is determined by how many are left. `EffectInvariant` says, for each kind of
call and each number of accesses left, what its locals hold in terms of the
thread's context, and what the rest of the list will do. Each access is then
either silent, or the one at which the abstract call happens, or one of the
operations of `tgamma` that raises flags (`Accrue`). For `feupdateenv`, whose effect is
spread over several accesses, the abstract environment is that of the context
together with what the call still holds; for `tgamma` its mode is the one it took,
which for the whole of `lgamma`, with any number of operations, is still that of the
context.
The calls are records of the entries of `fenv.h` with exceptions that exist
(`CallsAssumption`), which is what C's types and masks say; the arithmetic is any
function of a mode, since `cosmic_sf_raise` masks what it gets.

Only model-checked:

- liveness (`LinkEnds`, `Terminates`, `CallsReturn`), which is out of reach of the
  provers;
- `ExpandsAsStandard`, whose reference is the recursive algorithm of the standard:
  what it computes for every input would need an induction over it;
- the arithmetic (`RoundedOnce`, `ExactWhateverTheMode`): recursive operators for
  logarithms, roots and digits, and properties of finitely many formats.

## 5. Mutants

Next to an action stand, where a property needs one, forms of it with a
plausible bug: `ScopeLocalUnreserved` forgets to reserve the name it chose,
`ConsumeIfUncounted` does not count a nested `#if`, `CreateOrTruncate` opens the
output without `create_new`. They are part of no specification. `PROJECT.json`
pairs every property of a passing run with a mutant that violates it.

## 6. What is not modelled

- The lexer, the parser, conversions, initializers, folding, layout of types, the
  diagnostics pipeline and the include stack: planned, see below. So far a token,
  a type and a body are opaque.
- Of conditional inclusion: what follows a directive on its own line (after
  `#ifdef NAME`, `#else` and `#endif` the code delivers it as text, after a
  rejected directive too), directives between the arguments of a macro call,
  which C leaves undefined, and groups that begin in one file and end in another.
- In the modules there are: `#define` and the pragma stacks (definitions are
  fixed), the value of `#if` expressions; block scopes, tags, `auto` and
  `register`, incomplete arrays, unprototyped functions and `main` among
  declarations; the bytes of an `ar` file; names with NUL; options of both
  programs and the modes of `cosmicc` that write a single file.
- Instruction selection of either back end: it calls the Lighting SIA crates and
  Cranelift, which are not in this repository. The legacy Cranelift back end and
  the retired `swcc` are not maintained (`MAINTAINED_BASELINE.md`).
- `intern.rs` is a table behind one lock.
- In the runtime: the tables of reciprocals. Quotients and roots of binary64 and
  the root of binary32 start from an estimate, and the models take every estimate
  within its bound of error, below by less than four units for binary64 and less
  than three for binary32, instead of the one the table gives. The transcendental
  functions of fdlibm, whose error is a matter of analysis. Scanning of numbers,
  `inf` and `nan`, padding, the integer conversions of `printf` and `errno`. The
  loops of `strlen` to `strrchr`, `memcpy`, `memset` and `memcmp`, and the classes of
  bit patterns. `f64_roundToInt`, whose code is that of `f32_roundToInt`. Calls that
  only read an environment. `strtod` rounds in a context of its own with the mode
  of the thread's and raises there; here it is an operation like others.

## 7. Plan

Done first, because the output of a link depends on all of it: names and storage
from a declaration to RAM, and the preprocessor's two state machines; then the
runtime, which runs in every compiled program. Next, in this
order:

1. `IncludeStack`: the stack of lexers, `peek_token`, `#include_next`, locations.
   Properties: tokens in file order, the place of each, a peek changes nothing.
   `MacroDefinitions`: `#define`, `#undef`, `push_macro` and redefinition, and
   their composition with conditionals.
2. Data layout: `struct_offset`, size, alignment and bit-fields as functions over
   sequences of fields, checked against the definition of the ABI; theorems: members
   do not overlap and stay inside.
3. Integer conversions and folding with the width as parameter, against
   arithmetic modulo 2^w, signed overflow and shifts included.
4. Argument classification of amd64 and `va_arg` against the register save area:
   one state machine for the caller's and the callee's counters; the theorem that
   both agree on the place of each argument.
5. Initializers: brace elision and designators as a walk with a stack, against
   the rule of C11 6.7.9.
6. Scopes, tags and typedef names: the parser's scopes against the analyzer's.
7. Statements of both back ends: labels, targets of `break` and `continue`,
   dispatch of `switch`.
8. Diagnostics: the queue of errors, its order and that none is lost; the
   recursion guard.
9. The ELF writer: indices of sections and symbols, read back.
10. The rest of the runtime: scanning and padding of `decimal/format.c`, loops over
    strings, and `Arena` refined by the bytes of its headers.

Operator-only modules (2, 3, 5, 9) share runs: one machine per subject that
chooses an input and compares the operator with its reference.
Composition: `ImageLayout` behind `StaticLink`, so that the layout's jobs are what
a link produces, and `TranslationUnit` in front of it, so that the linker's
objects are what units compile to. Proofs to come: the parts of `WordArithmetic`
that are not recursive, for every width; the layout theorems of 2 and the
agreement of 4.
