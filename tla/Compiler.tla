------------------------------ MODULE Compiler ------------------------------
(***************************************************************************)
(* The compiler: the parser and, behind it, the translator.  What the      *)
(* parser has left in its container, names of variables and functions      *)
(* still in it, is looked up once more and becomes bytecode.               *)
(***************************************************************************)
EXTENDS Parser, TLC

CONSTANTS Byte, Word, InstSize, RegistersSize, OperandSizes,
          SizeCodes, UnsignedCodes, SignedCodes, CodeStride,
          Hash(_)     \* of the name of a native function

VARIABLES
    bytecode,   \* of the program parsed last
    stage       \* source, translated, thrown or undefined

compilerVars == <<vars, bytecode, stage>>

B == INSTANCE Bytecode

ASSUME CodeConstants == B!IsaConstants /\ B!CodesFit

\* The instructions of programs are those of the compiler's table.
ASSUME InstsOfTable ==
    \A n \in DOMAIN Insts : \E i \in B!InstInfos :
        /\ n = i.name \o (IF i.size = 0 THEN "" ELSE ToString(8 * i.size)) \o i.sign
        /\ Insts[n] = [op |-> i.name, size |-> i.size, sign |-> i.sign,
                       min |-> B!Arity(i.name)[1], max |-> B!Arity(i.name)[2]]
        /\ i.name \in STRING /\ i.sign \in STRING

-----------------------------------------------------------------------------
(* The functions the translator is given. *)

\* A name as one string.
Spelled(words) == FoldLeft(LAMBDA text, w : text \o w, "", words)

\* Mutant of OperandOf: the difference is taken without its sign.
OperandUnsigned(ls, scope, a) ==
    LET base == Lookup(ls, a.name, scope).address.abs
    IN CASE a.kind = "Fixed"    -> [kind |-> B!Fixed, value |-> a.abs]
         [] a.kind = "Relative" -> [kind |-> B!Relative, base |-> base]
         [] OTHER -> [kind |-> B!RelativeWithDiff, base |-> base, value |-> a.abs]

OperandOf(ls, scope, a) ==
    LET base == Lookup(ls, a.name, scope).address.abs
    IN CASE a.kind = "Fixed"    -> [kind |-> B!Fixed, value |-> a.abs]
         [] a.kind = "Relative" -> [kind |-> B!Relative, base |-> base]
         [] OTHER -> [kind |-> B!RelativeWithDiff, base |-> base, value |-> a.sign]

OperandFault(ls, scope, a) ==
    IF a.kind = "Fixed" THEN "" ELSE Fault(Lookup(ls, a.name, scope), "var")

InstOf(ls, scope, line) ==
    [name |-> Insts[line.inst].op,
     size |-> Insts[line.inst].size,
     sign |-> Insts[line.inst].sign,
     args |-> [n \in DOMAIN line.args |-> OperandOf(ls, scope, line.args[n])]]

CallOf(line) ==
    IF line.call = "fcall"
    THEN [name |-> "fcall", size |-> 0, sign |-> "", target |-> Spelled(line.callee)]
    ELSE [name |-> "ncall", size |-> 0, sign |-> "", key |-> Hash(Spelled(line.callee))]

LineOf(ls, scope, line) ==
    CASE Has(line, "label") -> line
      [] Has(line, "call")  -> CallOf(line)
      [] OTHER              -> InstOf(ls, scope, line)

FunctionOf(ls, f) ==
    [name  |-> Spelled(FullName(f.name, [n \in DOMAIN f.args |-> f.args[n].name])),
     scope |-> f.scope,
     args  |-> Total([n \in DOMAIN f.args |-> f.args[n].size]),
     ret   |-> f.ret,
     lines |-> [n \in DOMAIN f.lines |-> LineOf(ls, f.scope, f.lines[n])]]

FunctionFault(ls, f) ==
    FirstOf(Joined([n \in DOMAIN f.lines |->
                       IF ~Has(f.lines[n], "inst") THEN <<>>
                       ELSE [k \in DOMAIN f.lines[n].args |->
                                OperandFault(ls, f.scope, f.lines[n].args[k])]]))

-----------------------------------------------------------------------------
CompilerInit == Init /\ bytecode = <<>> /\ stage = "source"

ParseNext ==
    /\ stage # "undefined"
    /\ Parse
    /\ bytecode' = <<>>
    /\ stage' = "source"

Translate ==
    /\ status = "parsed" /\ stage = "source"
    /\ LET ls == parsed.layers
           fs == parsed.functions
           fault == FirstOf([k \in DOMAIN fs |-> FunctionFault(ls, fs[k])])
           given == { FunctionOf(ls, fs[k]) : k \in DOMAIN fs }
       IN IF fault # "" THEN stage' = fault /\ UNCHANGED bytecode
          ELSE IF B!Throws(given) THEN stage' = "thrown" /\ UNCHANGED bytecode
          ELSE stage' = "translated" /\ bytecode' = B!Linked(B!Layout(given))
    /\ UNCHANGED vars

CompilerNext ==
    \/ ParseNext
    \/ Construct /\ UNCHANGED <<bytecode, stage>>
    \/ Translate

CompilerSpec == CompilerInit /\ [][CompilerNext]_compilerVars

-----------------------------------------------------------------------------
(* Where the bytecode of a program should have what, from its meaning.     *)

PlaceBytes(place, size) ==
    CASE Has(place, "lit") -> size [] Has(place, "at") -> Word [] OTHER -> 2 * Word

ArgBytes(line, n) == PlaceBytes(line.args[n], Insts[line.inst].size)

LineBytes(line) ==
    CASE Has(line, "label") -> 0
      [] Has(line, "call")  -> InstSize + Word
      [] OTHER              -> InstSize + Total([n \in DOMAIN line.args |-> ArgBytes(line, n)])

\* Bytes of the lines of f before its n-th.
BytesBefore(f, n) == Total([k \in 1 .. n - 1 |-> LineBytes(f.lines[k])])
FunctionBytes(f) == BytesBefore(f, Len(f.lines) + 1)

StartOf(fs, k) ==
    2 * Word + Total([j \in 1 .. k - 1 |-> 2 * Word + FunctionBytes(fs[j])])

LineAt(fs, k, n) == StartOf(fs, k) + BytesBefore(fs[k], n)

\* What a name that is called stands for: functions and labels of the program.
Targets(fs, callee) ==
    { StartOf(fs, k) : k \in { j \in DOMAIN fs : fs[j].name = callee } }
      \cup UNION { { LineAt(fs, k, n) :
                        n \in { m \in DOMAIN fs[k].lines : fs[k].lines[m] = [label |-> callee[1]] } } :
                   k \in { j \in DOMAIN fs : Len(callee) = 1 } }

-----------------------------------------------------------------------------
(* Reading bytecode as the machine does. *)

WordAt(offset) == B!Value(bytecode, offset, Word)

PlaceAt(offset, kind, size) ==
    CASE kind = B!Fixed    -> [lit |-> B!Value(bytecode, offset, size)]
      [] kind = B!Relative -> [at |-> WordAt(offset)]
      [] OTHER             -> [via  |-> WordAt(offset),
                               diff |-> B!Signed(WordAt(offset + Word), Word)]

KindOf(place) ==
    CASE Has(place, "lit") -> B!Fixed
      [] Has(place, "at")  -> B!Relative
      [] OTHER             -> B!RelativeWithDiff

KindAt(offset, n) == (bytecode[offset + InstSize] \div <<1, 4, 16>>[n]) % 4

\* The machine finds this instruction at an offset.
IsInstruction(offset, name, size, sign) ==
    \E i \in B!Instructions :
        /\ i.code = B!Value(bytecode, offset, InstSize - 1)
        /\ i.name = name /\ i.size = size /\ i.sign = sign

\* A number keeps the bytes that the instruction has for it.
Kept(place, size) == IF Has(place, "lit") THEN [lit |-> place.lit % B!Span(size)] ELSE place

ReadsAsInst(offset, line) ==
    LET info == Insts[line.inst]
        argAt(n) == offset + InstSize + Total([k \in 1 .. n - 1 |-> ArgBytes(line, k)])
    IN /\ IsInstruction(offset, info.op, info.size, info.sign)
       /\ \A n \in 1 .. 3 :
             KindAt(offset, n) = IF n \in DOMAIN line.args THEN KindOf(line.args[n]) ELSE B!Empty
       /\ \A n \in DOMAIN line.args :
             PlaceAt(argAt(n), KindOf(line.args[n]), info.size) = Kept(line.args[n], info.size)

\* A call of what the program has once goes there, wherever that is.
ReadsAsCall(offset, line, fs) ==
    /\ IsInstruction(offset, line.call, 0, "")
    /\ IF line.call = "ncall"
       THEN WordAt(offset + InstSize) = Hash(Spelled(line.callee))
       ELSE \A start \in Targets(fs, line.callee) :
               Targets(fs, line.callee) = {start}
                  => WordAt(offset + InstSize) = start + RegistersSize

ReadsAs(offset, line, fs) ==
    CASE Has(line, "label") -> TRUE
      [] Has(line, "call")  -> ReadsAsCall(offset, line, fs)
      [] OTHER              -> ReadsAsInst(offset, line)

\* The two words in front of a function: its arguments, but for the first one
\* whose place the entry takes, and its result.
HasHeader(fs, k) ==
    /\ WordAt(StartOf(fs, k) - Word) = fs[k].ret
    /\ k # 1 => WordAt(StartOf(fs, k) - 2 * Word) = fs[k].args

-----------------------------------------------------------------------------
(* What a program must not exceed, and how names are told apart. *)

IsSigned(n) == 2 * n \in -B!Span(Word) .. B!Span(Word) - 1

\* Sizes, places and numbers fit in a word.
LineFits(line) ==
    /\ Has(line, "call") /\ line.call = "ncall" => Hash(Spelled(line.callee)) \in B!Words
    /\ Has(line, "inst") =>
          \A n \in DOMAIN line.args : Has(line.args[n], "diff") => IsSigned(line.args[n].diff)

Fits(fs) ==
    /\ StartOf(fs, Len(fs) + 1) + RegistersSize < B!Span(Word)
    /\ \A k \in DOMAIN fs :
          /\ fs[k].args \in B!Words /\ fs[k].ret \in B!Words
          /\ \A n \in DOMAIN fs[k].lines : LineFits(fs[k].lines[n])

\* Names of functions and labels, and those of calls.
Definitions(fs) ==
    { fs[k].name : k \in DOMAIN fs }
       \cup UNION { { <<fs[k].lines[n].label>> :
                         n \in { m \in DOMAIN fs[k].lines : Has(fs[k].lines[m], "label") } } :
                    k \in DOMAIN fs }
Callees(fs) ==
    UNION { { fs[k].lines[n].callee :
                 n \in { m \in DOMAIN fs[k].lines : Has(fs[k].lines[m], "call") } } :
            k \in DOMAIN fs }

\* Words do not run into one another: names that differ are spelled differently.
SpelledApart(fs) ==
    LET main == FullName("main", <<>>)
        names == Definitions(fs) \cup {main}
    IN /\ Spelled(main) = "@main()"
       /\ \A name \in names \cup Callees(fs) : Spelled(name) \in STRING
       /\ \A name \in names : Len(name) = 1 => Spelled(name) = name[1]
       /\ \A n, m \in names : Spelled(n) = Spelled(m) => n = m

ASSUME CompilerConstants ==
    /\ \A r \in DOMAIN Registers : Registers[r] \in B!Words
    /\ \A n \in DOMAIN Sources : \A p \in Sources[n] :
          Proper(p) => Fits(Meaning(p)) /\ SpelledApart(Meaning(p))

-----------------------------------------------------------------------------
(* Properties. *)

\* The text of a program and its bytecode mean the same: whoever reads the
\* bytecode as the machine does finds every function with its sizes, every
\* instruction with the places and numbers its operands stand for, calls that
\* go to the functions and labels they name, and the entry at main, of two at
\* the first.  Only a program without main is refused.
Compiled ==
    stage # "source" /\ Proper(program) =>
        LET fs == Meaning(program)
            mains == { k \in DOMAIN fs : fs[k].name = FullName("main", <<>>) }
        IN IF mains = {} THEN stage = "thrown"
           ELSE /\ stage = "translated"
                /\ Len(bytecode) = StartOf(fs, Len(fs) + 1) - 2 * Word
                /\ \E k \in mains : /\ \A j \in mains : k <= j
                                 /\ WordAt(0) = StartOf(fs, k)
                /\ \A k \in DOMAIN fs :
                      /\ HasHeader(fs, k)
                      /\ \A n \in DOMAIN fs[k].lines :
                            ReadsAs(LineAt(fs, k, n), fs[k].lines[n], fs)

CompilerTypeOK ==
    /\ TypeOK
    /\ bytecode \in Seq(0 .. Byte - 1)
    /\ stage \in {"source", "translated", "thrown", "undefined"}

=============================================================================
