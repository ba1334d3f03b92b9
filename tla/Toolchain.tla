----------------------------- MODULE Toolchain ------------------------------
(***************************************************************************)
(* The whole of it: a program is parsed, translated and executed, as       *)
(* Compiler::process and VirtualMachine::exec do one after the other.      *)
(***************************************************************************)
EXTENDS Compiler

CONSTANTS FrameSize, IntSize, Natives, Results, MaxRuns

VARIABLES
    mem,        \* the frame of the machine
    loaded,     \* what it executes
    machine,    \* its status
    runs, frames,
    turn        \* history: 0 and 1 in turn, for a step that changes nothing else

machineVars == <<mem, loaded, machine, runs, frames>>
toolchainVars == <<compilerVars, machineVars, turn>>

VM == INSTANCE VirtualMachine WITH program <- loaded, status <- machine, Programs <- {}

ToolchainInit == CompilerInit /\ VM!Init /\ turn = 0

\* Bound: what is compiled after an exec is not modelled here.
Compile ==
    /\ runs = 0
    /\ CompilerNext
    /\ turn' = 1 - turn
    /\ UNCHANGED machineVars

Execute ==
    /\ stage = "translated"
    /\ VM!ExecOn([bytes |-> bytecode, starts |-> {}, args |-> <<>>])
    /\ turn' = 1 - turn
    /\ UNCHANGED compilerVars

Run ==
    /\ VM!Step \/ VM!Finish
    /\ turn' = 1 - turn
    /\ UNCHANGED compilerVars

\* A program is being parsed, translated or run.
Busy ==
    \/ status = "parsing"
    \/ status = "parsed" /\ stage = "source"
    \/ machine = "running"

\* Nothing is left to do: not a deadlock, which would be to be busy and to have
\* no step.
Rest == ~Busy /\ UNCHANGED toolchainVars

ToolchainNext ==
    \/ Compile \/ Execute \/ Run
    \/ Rest

ToolchainSpec == ToolchainInit /\ [][ToolchainNext]_toolchainVars

\* One thread parses, translates and runs, and waits for nobody: while it is
\* busy there is always a step, and it takes one after the other: <<TRUE>> is any
\* step of ToolchainNext, as there are no others.
ToolchainFairSpec ==
    ToolchainSpec /\ ([]<>~Busy \/ []<><<TRUE>>_toolchainVars)

-----------------------------------------------------------------------------
(* What the lines of a program do to memory, from their meaning alone.  The*)
(* instruction pointer and the flags are left to the properties.           *)

WordIn(m, a) == B!Value(m, a, Word)

AddressIn(m, place) ==
    IF Has(place, "at") THEN place.at
    ELSE (WordIn(m, place.via) + place.diff) % B!Span(Word)

NumberIn(m, place, size) ==
    IF Has(place, "lit") THEN place.lit ELSE B!Value(m, AddressIn(m, place), size)

Give(m, place, size, v) == B!Put(m, AddressIn(m, place), size, v)
Move(m, register, n) == B!Put(m, register, Word, WordIn(m, register) + n)

Push(m, size, v) == Move(B!Put(m, WordIn(m, B!SP), size, v), B!SP, size)

\* not works on its operand, add on its first two operands or its last two.
AfterInst(m, line) ==
    LET op == Insts[line.inst].op
        size == Insts[line.inst].size
        number(n) == NumberIn(m, line.args[n], size)
        last == Len(line.args)
    IN CASE op = "mov" -> Give(m, line.args[1], size, number(2))
         [] op = "not" -> Give(m, line.args[1], size, -1 - number(1))
         [] op = "add" -> Give(m, line.args[1], size, number(last - 1) + number(last))
         [] op = "push" /\ last = 1 -> Push(m, size, number(1))
         [] op = "push" /\ last = 0 -> Move(m, B!SP, size)
         [] OTHER -> m

\* A call leaves BP on the stack and comes back to the line behind it.
AfterCall(m, back) ==
    B!Put(Push(m, Word, WordIn(m, B!BP)), B!BP, Word, back)

\* A return takes the call and its arguments off the stack.
AfterReturn(m, args) ==
    B!Put(Move(m, B!SP, -(args + Word)), B!BP, Word, WordIn(m, WordIn(m, B!SP) - Word))

-----------------------------------------------------------------------------
(* Lines in memory. *)

Ip(m) == WordIn(m, B!IP)
LoadedAt(fs, k, n) == LineAt(fs, k, n) + RegistersSize

\* The machine is at the n-th line of the k-th function, which is there as it
\* was compiled: programs may write anywhere.
IsAt(fs, k, n) ==
    /\ ~Has(fs[k].lines[n], "label")
    /\ Ip(mem) = LoadedAt(fs, k, n)
    /\ \A b \in 1 .. LineBytes(fs[k].lines[n]) :
          mem[Ip(mem) + b] = bytecode[LineAt(fs, k, n) + b]

\* Bytes that differ in two states of the memory, but for IP and the flags.
Changed(m1, m2) ==
    { a \in 0 .. FrameSize - 1 :
        m1[a + 1] # m2[a + 1] /\ a \notin B!IP .. B!IP + Word - 1 \cup B!FLAGS .. B!FLAGS + Word - 1 }

SameBut(m, expected) == Changed(m, expected) = {}

\* The function at k was called by the line BP comes back to.
CalledHere(fs, k) ==
    \E j \in DOMAIN fs : \E n \in DOMAIN fs[j].lines :
        /\ fs[j].lines[n] = [call |-> "fcall", callee |-> fs[k].name]
        /\ Targets(fs, fs[k].name) = {StartOf(fs, k)}
        /\ WordIn(mem, B!BP) = LoadedAt(fs, j, n + 1)
        /\ WordIn(mem, WordIn(mem, B!BP) - Word) = StartOf(fs, k) + RegistersSize

InstDone(fs, k, n) ==
    LET expected == AfterInst(mem, fs[k].lines[n])
    IN /\ SameBut(mem', expected)
       /\ Ip(expected) = Ip(mem) => Ip(mem') = LoadedAt(fs, k, n + 1)

CallDone(fs, k, n) ==
    LET targets == Targets(fs, fs[k].lines[n].callee)
    IN /\ SameBut(mem', AfterCall(mem, LoadedAt(fs, k, n + 1)))
       /\ \A start \in targets : targets = {start} => Ip(mem') = start + RegistersSize

ReturnDone(fs, k) ==
    /\ SameBut(mem', AfterReturn(mem, fs[k].args))
    /\ Ip(mem') = WordIn(mem, B!BP)

\* Not: native calls, whose end loses IP; pop, which is no line here; a return
\* with a result, and one from the first function, whose size of arguments is
\* under the entry.
LineDone(fs, k, n) ==
    LET line == fs[k].lines[n]
    IN CASE Has(line, "call") -> line.call = "fcall" => CallDone(fs, k, n)
         [] Insts[line.inst].op = "ret" ->
              line.args = <<>> /\ CalledHere(fs, k) /\ (k # 1 \/ fs[k].args = 0)
                 => ReturnDone(fs, k)
         [] OTHER -> InstDone(fs, k, n)

\* A program does what its text says: a line changes the places it names by
\* the numbers it names, the stack by what it pushes, calls or returns, nothing
\* else, and the next line follows it, or the first one of what it calls.
RunsAsWritten ==
    [][ machine = "running" /\ machine' = "running" /\ Proper(program) =>
          LET fs == Meaning(program)
          IN \A k \in DOMAIN fs : \A n \in DOMAIN fs[k].lines :
                IsAt(fs, k, n) => LineDone(fs, k, n) ]_toolchainVars

\* What was begun ends, in bytecode or a fault, and so does what is run: the
\* walk over the tokens, whose length every construct says itself, never stays
\* where it is, and calls that come back or overflow the frame do not go on
\* for ever.
Ends == Busy ~> ~Busy

ToolchainTypeOK ==
    /\ CompilerTypeOK
    /\ mem \in [1 .. FrameSize -> 0 .. Byte - 1]
    /\ machine \in {"idle", "running", "thrown", "undefined"}
    /\ turn \in {0, 1}

=============================================================================
