----------------------------- MODULE Translator -----------------------------
(***************************************************************************)
(* The translator as a component: it is given the functions of a parsed    *)
(* program, and leaves their bytecode or throws.                           *)
(***************************************************************************)
EXTENDS Bytecode

CONSTANT Programs   \* the sets of functions the translator is given

Operands ==
    [kind : {Empty}]
        \cup [kind : {Relative}, base : Int]
        \cup [kind : {Fixed}, value : Int]
        \cup [kind : {RelativeWithDiff}, base : Int, value : Int]

Labels == [label : STRING]
Fcalls == [name : {"fcall"}, size : {0}, sign : {""}, target : STRING]
Ncalls == [name : {"ncall"}, size : {0}, sign : {""}, key : Nat]
Others ==
    { inst \in [name : STRING, size : Nat, sign : STRING, args : Seq(Operands)] :
        inst.name \notin {"fcall", "ncall"} /\ Len(inst.args) <= 3 }

\* Instructions are those of the table.
InTable(inst) ==
    \E i \in InstInfos : i.name = inst.name /\ i.size = inst.size /\ i.sign = inst.sign

Lines == Labels \cup { inst \in Fcalls \cup Ncalls \cup Others : InTable(inst) }

Functions == [name : STRING, scope : Nat, args : Words, ret : Words, lines : Seq(Lines)]

\* Functions are found by their names and opened as scopes one after the
\* other, no label has the name of a function, which begins with @, and
\* addresses fit in a word.
ASSUME TranslatorConstants ==
    \A fs \in Programs :
        /\ IsFiniteSet(fs) /\ fs \subseteq Functions
        /\ \A f, g \in fs : f # g => f.scope # g.scope /\ f.name # g.name
        /\ \A f, g \in fs : \A j \in DOMAIN f.lines :
             IsLabel(f.lines[j]) => f.lines[j].label # g.name
        /\ Len(Layout(fs).bytes) + RegistersSize < Span(Word)

VARIABLES functions, bytecode, status

vars == <<functions, bytecode, status>>

Init ==
    /\ functions \in Programs
    /\ bytecode = <<>>
    /\ status = "parsed"

Translate ==
    /\ status = "parsed"
    /\ IF Throws(functions)
       THEN status' = "thrown" /\ UNCHANGED bytecode
       ELSE status' = "translated" /\ bytecode' = Linked(Layout(functions))
    /\ UNCHANGED functions

Next == Translate

Spec == Init /\ [][Next]_vars

-----------------------------------------------------------------------------
(* Properties. *)

Translated == status = "translated"

\* The word at an offset of the bytecode.
WordAt(offset) == Value(bytecode, offset, Word)

\* Lengths, counted from the sizes of things.
LineLength(line) ==
    CASE IsLabel(line)                    -> 0
      [] line \in Fcalls \cup Ncalls      -> InstSize + Word
      [] OTHER -> InstSize + Width(ArgKind(line.args, 1), line.size)
                    + Width(ArgKind(line.args, 2), line.size) + Width(ArgKind(line.args, 3), line.size)

BodyLengths(f) == Running(LAMBDA n, line : n + LineLength(line), 0, f.lines)

FunctionLength(f) == 2 * Word + BodyLengths(f)[Len(f.lines)]

Order == InOrder(functions)
Lengths == Running(LAMBDA n, f : n + FunctionLength(f), 0, Order)

\* Where the i-th function begins, and where its j-th line does.
StartOf(i) == Lengths[i - 1] + 2 * Word
OffsetOf(i, j) == StartOf(i) + BodyLengths(Order[i])[j - 1]

TypeOK ==
    /\ functions \in Programs
    /\ status \in {"parsed", "translated", "thrown"}
    /\ bytecode \in Seq(0 .. Byte - 1)

\* Exec enters at the first instruction of main, wherever it was defined.
EntersMain ==
    Translated => \A i \in DOMAIN Order : Order[i].name = "@main()" => WordAt(0) = StartOf(i)

\* An fcall of a function the program has goes to that function's first
\* instruction, whether it is defined before or after the call, and although
\* sizes of instructions differ.
CallsResolved ==
    Translated =>
        \A i, callee \in DOMAIN Order : \A j \in DOMAIN Order[i].lines :
            LET line == Order[i].lines[j]
            IN line \in Fcalls /\ line.target = Order[callee].name =>
                   WordAt(OffsetOf(i, j) + InstSize) = StartOf(callee) + RegistersSize

\* ret finds the argument and result sizes of a function in the two words in
\* front of it: of every function but the first one, whose argument size is
\* under the entry point.
HeadersInFront ==
    Translated =>
        \A i \in DOMAIN Order :
            /\ WordAt(StartOf(i) - Word) = Order[i].ret
            /\ i # 1 => WordAt(StartOf(i) - 2 * Word) = Order[i].args

\* Every instruction lies where the ones before it end, and is read back from
\* there as it was written: as the instruction the machine has under its code,
\* all bytes but the last, the kind of every operand from two bits of the last
\* one, no kind behind its operands.
Decodes ==
    Translated =>
        \A i \in DOMAIN Order : \A j \in DOMAIN Order[i].lines :
            LET inst == Order[i].lines[j]
                mask == bytecode[OffsetOf(i, j) + InstSize]
            IN ~IsLabel(inst) =>
                 /\ \E known \in Instructions :
                      /\ known.code = Value(bytecode, OffsetOf(i, j), InstSize - 1)
                      /\ known.name = inst.name
                      /\ known.size = inst.size /\ known.sign = inst.sign
                 /\ inst \in Others =>
                      \A k \in 1 .. 3 :
                          (mask \div <<1, 4, 16>>[k]) % 4 = ArgKind(inst.args, k)

=============================================================================
