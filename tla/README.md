# AloneCompiler in TLA+

AloneCompiler compiles a small assembly language, amasm, to bytecode and runs
the bytecode on a virtual machine.  These modules model the way from text to
tokens, the parser, the translator, the virtual machine, and the memory that
the compiler's contexts own.  They state what a program may rely on: that its
text is lexed as it stands, that its lines and names become what they say and
that the machine does that, that calls nest and return, that code is fetched as
it was emitted, that memory grows before it is needed, and that a released
program stays what it is.

The repository is the reference.  Its headers and sources do not all fit
together at this commit (`Translator` calls `Function::fullname`, the class has
`calc_fullname`; `constant_builder.cpp` sets another field's flag), so the
models follow what each function does, and take such a pair of names as one.
The table of key words (`tokens.cpp:14`) is declared for six and lists eight;
the models have the eight that the programs under `res` need.

## The system

| component | state | operations | hard part |
|---|---|---|---|
| scanner, lexer (`scanner.cpp`, `lexer.cpp`, `literals.hpp`) | position, line, ranges; the word being read | `scan_from_file`, `format_string`, `tokenize` | ranges that are cut back in front of comments, the ends of lines, texts and files |
| compiler context (`context.cpp`, `include.hpp`) | instruction table, scope container, builtin types and registers | `get_inst`, `release_container`, `_reset` | what outlives a reset |
| scopes (`scope_container.hpp`, `scope_proxy.cpp`) | one map of named elements per function, and a global one | `add`, `get_*`, `resize`, `clone` | pointers into what is cloned and reset |
| parser (`parser.cpp`) | position, current scope | one function per construct | addresses of variables, inserted pushes, a static lambda |
| builders (`builder.hpp`, `*_builder.cpp`) | a product and flags of what was set | `set_*`, `get_product` | use after `get_product` |
| instruction tables (`inst_info_factory.cpp`, `isa_factory.cpp`) | none | name to code, code to function | two tables that must agree |
| translator (`translator.cpp`, `bytecode.hpp`) | bytecode, labels, hints | `translate` | offsets fixed before everything is laid out |
| virtual machine (`virtual_machine.cpp`, `context.hpp`, `isa_funcs.hpp`) | one frame of bytes with registers, program and stack; natives; size limits | `init`, `exec`, `add_native_func`, one function per instruction | code, links and data share one frame; nothing is checked; state left from run to run |
| hashing, logger (`crc64.hpp`, `logger.cpp`) | none | | |

A program goes through them once: text, tokens, functions in a scope container,
bytecode; the machine then executes the bytecode, and a native function gets
the machine's `Context`.  There are no threads.  What is hard is the sequence:
state that one instruction, one call or one `exec` leaves for the next, and
the agreement between the bytes the translator writes and the bytes the machine
reads.

## What makes each component correct

* Calls: every `ret` returns to the call it answers, takes exactly the link and
  the arguments off the stack, and finds BP and the links undamaged, also in a
  second run on a machine whose first run was cut short.
* Frame: calls, pushes and pops never run out of a frame that may still grow, a
  frame does not shrink under a running program, and stays within its limits.
* Scanner and lexer: no word is lost, split, glued or taken from a comment.
* Scopes and contexts: every pointer of a container leads into it, a released
  program never changes, a context starts anew after a release.
* Instructions: IP is always at the start of an emitted instruction, the code
  is not overwritten by the calls, straight programs end.
* Parser: it stays in step with the lines of a program, refuses only what the
  language does not have, and the places its operands stand for are those the
  program declares, whatever was parsed before with the same context.
* Translator: entry, calls, headers and instructions are where the machine
  looks for them, whatever the order of the functions.
* All together: every step of the machine changes what the line it stands at
  says, and nothing else; what was begun ends.

## Modules

`Source` is scanner and lexer: one action per line read, per character scanned
(`Comment`, `LineEnd`, `SkipChar`), the cut, one per character lexed.  A source
is a file, a file that is not there, or a text, which `Compiler::process` hands to
the lexer as it is.  The walk back over blanks may leave the text; what it reads there
decides where the range ends, so `CodeEnds` is a choice.  The reference the
tokens are compared with (`Meant`, `TokenAt`) finds them by position in the text
with its comments blanked, without walking.

`ScopeStore` is ownership: a heap of elements at addresses, containers that own
some of them and map names to them layer by layer, elements that point to the
types of their poles, arguments or values.  `Release` is `clone` and the reset:
copies at other addresses, their types looked up again by name, the originals
freed, a new container filled, all on memory that is given out again.  Contexts
lie in slots; `is_inst` is the slot the static lambda of `parse` refers to, and
`info` the context whose instruction table the lines of a function point into.
`Snapshots` is what it promises: programs as values, copied when they are
released; `ScopeStore` implements it with every pointer followed (`View`).

`Calls` is the abstract call discipline: a list of calls in progress with the
place to return to and two stack tops, `Start`, `Work`, `Call`, `Return`,
`Stop`.  It does not know where links are kept.

`CallStack` is the protocol in the machine's own terms: IP, BP, SP and the word
at every stack byte.  Places are function entries and calls (*sites*), since
the protocol looks at nothing else.  A store that overlaps a word spoils it
(`Clobber`), so a link survives only if nobody writes there.  `Exec` keeps BP
and the stack, as the code does.  `HeaderArgs` is the argument size `ret`
reads: 0 for the function translated first, whose header word is under the
entry point.  `Variable` is the push the parser inserts; the function's own
view of its stack (`Visible`) does not have it.  What is trusted of a program is
guards: it pops what it pushed, writes its own bytes or its arguments, pushes
what it passes, and returns with its own pushes popped.  The model ends
(`lost`) where `ret` has no link.

`FrameMemory` is the size of `_mframe`: `init`, the load of a program without a
check, and each instruction as the pair of its `memory_shift` and its access at
SP, under the stepper with or without the test.  `undefined` is an access past
the vector.  SP is a register like the others, so `mov`, the operators and a native
function (`Other`) and a pop into it (`PopToSp`) may leave it anywhere from
the end of the program up.  Past the frame it switches the growth off: after
`add64u %rsp, n` with n larger than the frame, the test at `virtual_machine.cpp:86`
is false until SP is back inside, and the next push writes outside a frame that
is below its limit.  The history variable `strayed` records that such an
instruction has left less than a word of room; the properties of the stack
instructions hold where it is not set.  What operands address elsewhere is in
`VirtualMachine`.

`Isa` has what translator and machine share: little-endian numbers in a
sequence of bytes, registers, flags, operand kinds, and the two tables of
codes: `InstInfos`, the compiler's, with the numbers of operands, and
`Instructions`, the machine's.  Nothing in the code makes them agree: code is
made with the one and read with the other.
`Bytecode` is the translator's work as operators, `Translator` the component:
given the functions, it throws or leaves bytecode.  `VirtualMachine` is the
machine on bytes: `Exec` loads, each instruction is an action that decodes its
operands from the frame with the code's own order of accesses, `Finish` is the
loop's end, `Raise` an unknown code.  An access of another memory type throws
and an access past the frame is `undefined` (as are division by zero, signed
overflow and long shifts); nothing is followed after that.  `frames` is a history
variable for `Calls`.

`Amasm` is the language as data: programs as sequences of structs, functions
and lines, their tokens (what scanner and lexer make of them), which programs
are well formed, and `Meaning`, the functions of a program with the place every
operand stands for: a literal, the memory at an address, or the memory a
register points to, plus a difference.  A variable is another name for such a
place.  `Parser` is the parser on those tokens: one action per struct, head of
a function, line, and end of a function; each advances by the count of tokens
the code returns, whatever they are.  `layers` are the layers of the scope
container, `Lookup` and `Add` the accesses of its proxy; `Release` is
`release_container`.  `Denoted` is how the translator resolves the operands of
what was parsed, with the layers that are there at the end.  An undefined
outcome is a null `dynamic_cast` or a token behind the last one.

`Compiler` puts `Bytecode` behind `Parser`: `Translate` gives the translator what
the parser has left, names still in it, and `Compiled` reads the bytecode as
the machine does and compares it with `Meaning`.  `Toolchain` adds the machine:
`Execute` loads the bytecode, `Run` is a turn of its loop, and `RunsAsWritten`
says of every step what the line at IP does to memory.  `turn` is a history
variable, by which a step that changes nothing else is still a step.

Modules `MC...` and their `.cfg` files choose instances; the eight `...Proofs`
modules hold theorems.  Operators marked *Mutant* are never used:
each is a plausible mistake in the definition that follows it, with which a
property fails.

| module | code |
|---|---|
| `CallStack` | `isa::fcall`, `isa::ret`, `exec`, stack instructions, `parse_variable` |
| `FrameMemory` | `init`, `_do_step*`, `_alloc_more_memory`, memory shifts of `isa_factory.cpp` |
| `Source` | `scanner.cpp`, `lexer.cpp`, `tokens.cpp`, `literals.hpp` |
| `ScopeStore`, `Snapshots` | `scope_container.hpp`, `scope_proxy.cpp`, `context.cpp`, `Parser::parse` |
| `Isa` | `types.hpp`, `bytecode.hpp`, `isa_factory.cpp`, `inst_info_factory.cpp` |
| `Compiler`, `Toolchain` | `include.hpp`, `translator.cpp`, `exec` |
| `Amasm`, `Parser` | `parser.cpp`, `scope_proxy.cpp`, `context.cpp`, `*_builder.cpp` |
| `Bytecode`, `Translator` | `translator.cpp` |
| `VirtualMachine` | `isa_funcs.hpp`, `context.hpp`, `util.cpp`, `exec`, `_do_step` |

Composition: `MCVirtualMachine` runs the machine on what `Bytecode` makes of
small functions, and `Toolchain` on what becomes of whole programs, so parser,
translator and machine are checked against one another and not each against its
own idea of the encoding.  `CallStack` and `VirtualMachine` both implement
`Calls`, the one in registers and words, the other in bytes; both are proved to.

## Runs

| run | shows |
|---|---|
| `call_stack` | a main, a function and a recursive one, two runs of `exec`: the invariant of the protocol, argument clearing, refinement of `Calls` |
| `frame_memory` | two growing frames (one whose limit is no power of two of its start) and a fixed one: room, limits, no shrinking, with SP set anywhere by other instructions; the frame reaches its limit in every program that comes back inside as often as it strays |
| `translator` | all main bodies of up to two lines out of a pool with every kind of line, three functions in all orders, with labels, forward and missing calls, wrong operands |
| `toolchain` | all bodies of two lines out of a pool of 27 (every construct; wrong counts, names and types), in a main after another function, behind a declaration or, when the first line is a declaration, a call or a label, before that function, and programs that pass arguments through two calls, with a line before the first and a use, a label or a third call between; then a second program through the same context.  The parser stays in step, accepts what it can take, is faithful, and no later declaration changes an operand; the bytecode means the same; the machine does what the lines say; everything ends, and nothing gets stuck (deadlock is checked) |
| `source` | all texts of up to four fragments (words, numbers, blanks, marks, comments, new lines, characters without a meaning) and all pairs of lines of three: ranges, tokens, an end |
| `scope_store` | two contexts, a released container, memory that is used again at once: pointers, released programs, and what is undefined |
| `machine` | all pairs of 20 lines that use every instruction, kind and fault, and four programs of their own: a jump, an overflow of the frame, a long result, and neg, whose code is made by hand; flags of comparisons among the rest |
| `machine_calls` | four call programs, run twice each in any order: refinement of `Calls` in bytes; the programs stay tame, which the theorems on them suppose |
| `first_function` | violation: `translator.cpp:108` |
| `fields` | violation: `parser.cpp:59` |
| `ncall_returns` | violation: `context.hpp:64` |
| `pop_takes_top` | violation: `isa_funcs.hpp:140` |

`InSync` is about instructions fetched from the program: after a native
function IP is in the registers, which `ncall_returns` is about.

`LexedRight` is about texts with at most one `#` in a line, not in front of all
code, and with something behind the last word: a second `#` brings its line's code
again, a comment in front of everything makes the scanner read `input[-1]`, and
the lexer drops a word the text ends with.  The run has such texts, too; of
them only the other properties are claimed.

`OnlyStaleContexts` is about callers that let no context end before the programs
released from it, nor the first one that was parsed with, ever: the static
lambda keeps it.  The run has others: they end undefined.

`RunsAsWritten` says nothing of native calls, `pop` and returns with a result or
from the first function, whose faults are findings or listed below; of the
instruction `ret` it claims that the call is taken off and BP and IP are those of
the caller.  `Compiled` and it are, like the next two, about `Proper` programs.

`Accepted` and `Faithful` are about `Proper` programs: well formed, and without
what the parser cannot take (`Supported`).  The run
has such programs, and fails with a condition of `Supported` taken away; the conditions are the list of what is wrong with
the parser at this commit:

* a field of a struct, whose name is looked up one token too far
  (`parser.cpp:59`; the run `fields`, where `AllAccepted` has no `Supported`);
* an operand `[%name - n]` where another one may follow: the parser stays on the
  bracket (`parser.cpp:288`; `res/reserve.amasm:7` has one);
* a variable at its base itself, `[%rax + 0]`, which becomes the register
  (`parser.cpp:246`);
* the use of a variable without an address: its base is the third token behind
  its declaration, if there is one (`parser.cpp:107`);
* constants, which `do_logic` has no rule for.

Too few operands are accepted (`parser.cpp:228`), so nothing is claimed for them.
A declared address without a number (`[%rsp]`) is refused, and not in the syntax
here.  Two more faults are conditions of other modules: a called function that
declares a variable without an address leaves its bytes on the stack
(`WellTranslated` in `CallStack`, `parser.cpp:105`), and a call by the name of a
label reaches labels of other functions (`translator.cpp:102`).

`ret` with an operand copies the operand's encoding, the address of a variable
instead of its value (`isa_funcs.hpp:34`; `res/instructions.md:21` has `ax/gpx =
a0`).  `neg` is in the machine's table only: `generate_signed_type`, which would
make it, is not called, and would give it another code.  `not` takes at most one operand in
the compiler's table.  Binary and hexadecimal numbers are lexed, and worth 0
(`parser.cpp:252`).

The run `machine` found nothing against the code in itself: with the faults of
the findings left in the model, the rest is as it should be.

### Bounds, and why they do

* `CallStack`: words of two bytes, so that a store can overlap half a link; ten
  stack bytes hold three nested calls with arguments; two runs show what the
  first leaves to the second.  `Opcodes` are the header sizes that the machine
  would decode as something other than halt.
* `FrameMemory`: words of two bytes, limits up to 17; `TopLimit` is above every
  limit, so that every frame can be overrun, and SP set behind every frame.
* `Isa`: bytes of 64 values and words of four bytes keep addresses within TLC's
  integers, a byte still holds the kinds of three operands, a code is half a
  word, and two operand sizes suffice to tell widths apart.  The registers keep
  their order; `RegistersSize` is just above GP.
* `Parser`: two lines show every pair of constructs, so that each is parsed where
  each other one has left the parser, and a declaration meets each use, before
  and after it; a third line and a function with the same names add what lies
  further apart.  Structs have builtin fields.  `Sources` bounds the programs
  of a context: the second shows what each first one leaves.
* `Toolchain`: the frame of 280 bytes holds the longest program with its calls;
  one run of `exec`, and nothing is compiled after it (`Compile` has `runs = 0`): the
  second run of one machine is in `call_stack` and `machine_calls`, the second
  program of one context is here.
* `Source`: four fragments give every word a neighbour on either side, and a
  comment, with or without blanks, after code; the pairs of lines have
  comments in both, and blanks that the walk back must not follow over a new
  line.  `MaxWaiting` bounds the lines read of a file that is not there.
* `ScopeStore`: one context holds up to three elements in two layers, the other
  one what a context has anyway; one released container.  That is a type, what
  is made of it, and a clone; eight addresses hold both containers and the
  clone.  The allocator of the run returns the lowest free address, so that what is
  freed is taken at once; the proofs are for any.
* `VirtualMachine`: a frame of 160 bytes takes the longest program with a few
  calls on top, so the overflow occurs; `MaxRuns` bounds calls of `exec`.

`CHECK_DEADLOCK FALSE` but in `toolchain`: a program ends and `exec` is not called
again; translator and lexer stop when they are done or have thrown; what is undefined is
not followed.  In `toolchain` to have nothing to do is an action (`Rest`), and to
be busy without a step would be a deadlock.

### Fairness

The system has one thread, which waits for nobody.  `Source!FairSpec` has weak
fairness of `Next`, all that scanner and lexer do; a file that is not there is
excepted by `Ends`.  `Toolchain!ToolchainFairSpec` has steps as long as it is `Busy`.
In the machine only the loop of `exec` is fair: while it runs, it takes one turn after the
other, in the caller's thread, and nothing can stop it.  `FrameMemory!FairSpec`
has weak fairness of `Turn`; whether the loop is left (`Leave`) is the
program's business and is not fair.  `VirtualMachine!Fairness` says the same of
`Step \/ Finish`: one of them is enabled whenever the status is running, so
weak fairness is written out without ENABLED, as in `Toolchain`, where the
check for deadlock shows that there is a step.  `exec` itself is called by the
user and never fair.

## Proofs

`CallStackProofs`, for all functions, sites, sizes and stack limits, from
`CallStackConstants`:

* `CallsNest`: `Spec => []CallInv`.  `CallInv` is inductive together with
  `TypeOK`.  That a link is intact when `ret` reads it needs more than the
  link: frames lie one above the other (`FramesNested`), so a store in the
  innermost function cannot reach an older link; each link names the call
  below it, the first one what `exec` found in BP (`LinksIntact`), so that after
  a return BP is again the innermost call (`BpIsInnermost`); and the code that
  runs is the callee of that call (`RunsInnermost`), so that its argument size is
  the one the call was made with.
* `TypeCorrect`, `ReturnsClearArguments`, and `Implements`: every step is a step
  of `Calls` or a stutter under the mapping of `Promise`.

They assume `WellTranslated`: no function that is called is the first one with
arguments, none declares a variable without an address.  The run
`first_function` shows what happens without the first part; without the second,
`ret` takes bytes of the variable for its link.

`FrameMemoryProofs`, for all limits and programs, from `FrameMemoryConstants`
and `Headroom` (limits in order, a word of room in a frame that grows): 
`SizeWithinLimits`, `RoomUntilMax` (`RoomToGrow` is inductive with `TypeOK`: a
stack instruction moves SP up by at most a word, and the frame at least doubles, to
at least twice an SP that was inside it), `LeavesOnlyAtMax` and `KeepsItsMemory`.
The second and third say nothing of a run that has `strayed`: the code leaves a
frame below its limit there.
`Headroom` is assumed: with less than a word free in its first frame, a program
leaves it before it grows.

`ScopeStoreProofs`, for any addresses, names, contexts, containers and any
allocator, from `ScopeStoreConstants`:

* `NothingDangles`: `Spec => []NoDangling`.  It is inductive with `TypeOK` and
  `Rooted` (what exists has a global layer, and what is parsed with exists).  A
  step writes to addresses that were free or destroys a container whole, and
  owners differ, so the other containers stay as they are (one lemma for each
  part of a step); a clone's types are those its own global layer has under their
  names, because the original's were.
* `StoresTyped`, and `CarefulIsDefined`: with every context outliving its
  references nothing undefined is reached.
* `ReleasedProgramsKeep`: every step is a step of `Snapshots` or a stutter under `View`.

`SourceProofs`, for all texts, from `SourceConstants`:

* `RangesStayInLines`.  The walk back in front of a comment stops at the new
  line in front of its line, because a new line is no blank; the invariant is
  that `line_start_pos` is where the line of `i` begins, and that nothing has
  been scanned while the text grows.
* `TypeCorrect`, and `LexesRight`: the tokens are those of the text with its
  comments blanked, wherever the run claims it (`Plain`, `Ended`).  The lexer
  is a walk over the pieces that the scanner has cut out, and its state behind `k`
  characters is a function of those `k` (`Means`).  A separator behind a finished
  word changes nothing, and any two separators do the same; so the pieces and
  the blanked text, which differ in nothing but separators, leave the lexer in
  the same state at the end of every line (`Agrees`, by induction over the
  lines), and what a walk finds in the blanked text is what is found there by
  position.

`TranslatorProofs`, for all programs of functions and lines, from
`IsaConstants` and `TranslatorConstants` (what the parser can hand over: at
most three operands a line, counts as the instruction has them, names that lie in the
domain of `Hash`): `TypeCorrect`, `MainEntered`, `CallsGoWhereTheyShould`,
`HeadersKept`, `InstructionsDecode`.  The layout of functions only grows, and every
name keeps the place it was given (`NoteEntry` and the lemmas on `Laid`); the hints lie
apart, each within the operand of its own call, so that the linker patches those
words and no others; what was emitted is thus in the bytecode at the end, at the
offset of its line, and the machine's table reads it as that line.
The module begins with lemmas on `Isa`, for all sizes: a number that is written is read
back (`Value` of `Put`), modulo the span of its bytes; a write leaves all other bytes;
and every instruction of the compiler's table is the machine's one of that code
(`CodesFit`).  `VirtualMachineProofs` has those of them that it needs too.

`VirtualMachineProofs`, for all sizes and all programs that fit, from
`IsaConstants` and `MachineConstants` (a byte is a power of two; the frame lies
below the bits of an address that hold its kind, as any frame the code can
allocate does; a program leaves room for the link of its first call; natives
return words):

* `TypeCorrect`: `Spec => []TypeOK`, memory is the same number of bytes and
  nothing else after any step.  It is inductive with where `program` comes from (`Inv`): a
  turn of the loop has IP below `End`, a program ends in the frame with a word to
  spare, so the instruction and the kinds of its operands can be read.  From there
  on nothing is known of what the program does: every place an operand can name,
  through a register, a pointer or a displacement, is checked by `Locate`, or by `ResultAt`
  for what `ret` copies, before it is read or written (`OperandType`, `ArgType`), a
  fault comes back as one and ends the run (`LeavesKeeps`), and every number an
  instruction computes without a fault is written as bytes (`ComputeType`).  There is
  one lemma for each instruction.
* `ComparesRight`: `Spec => Compares`, an action property, for every size
  and sign.  The difference, modulo the span of the operands when they have
  no sign, is zero just for equal ones (`DifferenceZero`), and its sign, where the
  subtraction does not overflow, is that of the order (`SignOfDifference`); the flags
  are the first byte of memory, which moving IP leaves alone (`CmpRan`).

The machine tests nothing of what a program does to the frame that holds the registers,
the code, the stack and the links; what it promises, it promises to programs that keep to
their own bytes.  The module `VirtualMachine` says which those are, and the theorems are
about them:

* `Framed`, of a program: the entry point is an instruction; each instruction is one of the
  table, and another follows it, unless it is `halt` or `ret`; an `fcall` calls a function
  that has its header in front of it, with a result that fits into the general register.
  The first function, whose header is under the entry point and is not copied, is not
  called (the run `first_function` is about that).  `MCVirtualMachine` evaluates `Framed`
  for the translated programs of `machine_calls` (`CallsAreFramed`).
* `Tame`, of a step: what a store or a `pop` writes is the function's `Own`, that is its part
  of the stack, its arguments, or registers other than IP and BP, or else it moves
  SP, which stays in that part; a call has its arguments there; `ret` has a call to return
  from and finds on the stack what that call left; no native function is called, which
  loses IP (the run `ncall_returns`).  It is what `CallStack` has as guards, in bytes.
  `Spec /\ StaysTame` has all interleavings of the instructions of such programs, with
  faults wherever they happen, and any number of calls of `exec`; `machine_calls`
  shows that it is not empty.

Under `FramedPrograms`, three theorems: `CodeStays` (`Spec /\ StaysTame => []CodeIntact`),
`FetchesInstructions` (`=> []InSync`) and `MachineKeepsPromise` (`=> KeepsPromise`).  None
of the properties is inductive: what `ret` does depends on BP, on the word at SP, on the operand
of the `fcall` in front of BP and on a word in front of what that calls.  The
invariant, `CallsInv`, says all of it at once: memory has the code of the program (`Code`);
BP is where the innermost call comes back to and the link of each call is where the one below
it comes back to; each of those places is behind an `fcall`; the frames lie above the code and
one above the other, as far apart as link and declared arguments take; SP is not below
the innermost, and IP is at an instruction (`RunsAt`, `CallFrames`).  From it:

* what is fetched is what the program has there (`Fetched`), and an instruction takes the
  bytes that it has there (`BytesTaken`), so IP goes to the next one;
* a write to the function's own bytes changes neither code nor links nor BP and IP
  (`WriteKept`, `Intact`), hence every step faults, works, calls or returns
  (`StepOutcomes`, with a lemma for each instruction): `Works`, `GoesIn` and `GoesOut` say
  what is known of memory after it;
* each of these keeps `CallsInv` (`NextCalls`) and is a step of `Calls` (`StepRefines`:
  `WorksOne`, `CallsOne`, `ReturnsOne`, `StopsOne`).

`ParserProofs`, for all tables of instructions, types and registers, and all
programs given to one context one after the other, from `AmasmConstants` (an
instruction has no name that is a mark, a type or a register, and no register
one of a type; `void` is a type without bytes) and `ParserConstants` (what is
parsed are programs): `StaysSynchronised`, `ProperAccepted`, `ParsedFaithful`,
`ResolvesOnce`.  The four follow from one invariant, `ParserInv`.  In a
program the parser can take it says which item and line the parser is at
(`Between` two items, or `Within` a function), and from there everything else:

* the tokens it stands at are those of that part of the program (`PartAt`), so the
  action taken is the one for it (`LineAction`, `ItemAction`), and the tokens it
  takes are as many as the part has: the commas, names and braces it looks for are
  where the item put them and nowhere before (`PolesAre`, `ParenAt`, `TurnsRest`);
* the global layer holds the builtin names, the structs so far with their sizes and
  the functions so far, no layer hides a register, and the layer of the open
  function holds just what its lines have declared, of two declarations the first
  (`GlobalsKept`, `ScopesClean`, `ScopeHolds`);
* the functions handed over, and the open one up to its line, are those of the
  program (`Handed`, `Opened`): each operand has become a number or an address
  whose only name is a register (`Settled`).  That is why looking it up again, in
  any later layers, gives the same (`DenotedPlain`).

A program that is not `Proper` may end in a fault; the context is then not used
again, and otherwise starts anew (`Fresh`), so what it was does not matter to the
next one.

`CompilerProofs`, for all tables, codes, sizes and programs given to one context one
after the other: `MeansTheSame`, that is `CompilerSpec => []Compiled`.  Besides the
assumptions of its parts it needs those of `Compiler`: the codes fit
(`CodeConstants`), the instructions of programs are those of the compiler's table
(`InstsOfTable`), and, of the programs the parser can take, that places, sizes,
numbers and the hashes of native functions fit in words (`Fits`) and that names which
differ are spelled differently (`SpelledApart`; the models have a name in words, the
translator has it in one string).  The run `toolchain` evaluates these for its
programs.  They are what the code relies on without a test: `translator.cpp` stores
offsets and differences in words whatever they are, and compares the strings.
The argument joins the proofs of parser and translator in three parts:

* the functions given to the translator are those of the meaning, with a place for
  every operand (`GivenMeant`): by `ParserInv` what was parsed matches the meaning line
  by line, and an operand, looked up again behind everything that was parsed, is the
  number or the place it stands for (`OperandsMeant`); no line of a proper program is a
  fault of `FunctionFault`;
* their code is laid out where the meaning puts its lines (`SamePlace`, `SameStart`): a
  line takes as many bytes as it is said to (`SameLength`), so the sums are the same;
  and a name has the places that its spelling has (`SameTargets`);
* read back there, by `TranslatorProofs`, everything is as it was written: the
  headers, the instruction of each line with its kinds and operands, the places of calls,
  and the entry (`PlacedOperands`, `InstThere`).  Main is in front of every other label
  of its spelling, so the entry is the first main.

What a walk over all lines adds up is in the translator a recursive function of the
lines, and in `Compiled` a sum over sets of them; that both are one and the same is
again by induction (`TotalsRun`, `SumBelow`).

The proofs of translator, machine, source and parser begin with induction over sets
of numbers, since the library's induction takes an operator, which the provers cannot instantiate: as a set of the
numbers that have a property, it can be used.  Every recursive definition of
the modules with theorems is therefore a function, and its equation a lemma.

Only model-checked: liveness (`ReachesMax`, `Terminates`, `Ends`); `RunsAsWritten`,
that the machine does what the lines say, whose two halves (the bytecode is that of
the lines, the machine computes and writes numbers right) have their theorems, but
not each instruction's effect on all of memory; where
the parser can stand in a program that is not `Proper` (`TypeOK` of `Parser`, in
`ToolchainTypeOK`); and of the machine in bytes, `InSync` and `CodeIntact` for those
programs of `machine` that are not tame, and that translated programs are framed.

## Not modelled

* Hashing: names and the numbers of native functions are compared by `crc64`;
  here they are compared by themselves (`Hash` maps the few names of the run
  to different words).  A collision is out of reach of a small model.
* Logger and the texts of exceptions: output.
* `parse_constant`, which no rule reaches, with its builder, and `simplify`, which
  returns its argument.
* The flags of builders and a builder after `get_product`: every builder of the
  code is filled and emptied in one expression or function, by code that sets
  what the flags ask for.  What is built is in `Parser`.
* `Bytecode::transform`, which nothing calls.
* A context used again after an exception, in `Parser`; `ScopeStore` has it.
* The dynamic frame, which no code ever fills; `init` between two runs of the
  byte-level machine; operand sizes of 2 and 4 bytes, which are instances of the
  same templates.
* `neg` in compiled programs, since the compiler does not have it.
* Pointers to poles in `m_poles_search` of a released type: nothing follows them.

## Plan

1. Done: calls, frame memory, translator, machine; the parser against the
   meaning of programs; scanner and lexer; ownership in the scope container;
   all of it from tokens to memory; the theorems above.
2. Done: the lexer's tokens, the numbers in memory, the translator, as theorems.
3. Done: type correctness of the byte-level machine and its comparisons; its code, its
   fetches and its calls, for programs that keep to their own bytes.
4. Done: the parser's theorems for all proper programs.
5. Done: `Compiled` for all proper programs, from the proofs on the parser and those
   on the translator.
6. `RunsAsWritten` for all proper programs: a lemma for each instruction that says
   what it leaves in all of memory, as `VirtualMachineProofs` has one that says that it
   leaves bytes.
7. The frame's liveness measure as an action property.
