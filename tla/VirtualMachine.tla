--------------------------- MODULE VirtualMachine ---------------------------
(***************************************************************************)
(* The virtual machine, byte by byte: one frame that holds the registers,  *)
(* the loaded program and the stack, and one action per instruction.       *)
(*                                                                         *)
(* An access goes through an address whose two top bits name a memory type.*)
(* Only the main frame has contents, any other type throws out of exec; an *)
(* access past the end of the frame is undefined, and the machine is not   *)
(* followed further.  The frame is of one size here: FrameMemory is about  *)
(* frames that grow.                                                       *)
(***************************************************************************)
EXTENDS Isa

CONSTANTS Programs,   \* what exec is given: records [bytes, starts, args] of
                      \* the bytecode and, for the properties, the addresses
                      \* its instructions are loaded at and the bytes of
                      \* arguments of the function at each entry
          FrameSize,  \* bytes of the frame
          IntSize,    \* bytes of int: narrower operands are promoted to it
          Natives,    \* keys of the registered native functions
          Results,    \* words a native function leaves in AX
          MaxRuns     \* bound: times exec is called on one machine

NoProgram == [bytes |-> <<>>, starts |-> {}, args |-> <<>>]

EndOf(p) == RegistersSize + Len(p.bytes)

ASSUME MachineConstants ==
    /\ FrameSize \in RegistersSize .. Span(Word) \div 4
    /\ \E b \in 1 .. Byte : TwoTo(b) = Byte
    /\ IntSize \in Nat /\ MaxRuns \in Nat
    /\ Results \subseteq Words
    /\ \A p \in Programs :
         /\ p.bytes \in Seq(0 .. Byte - 1) /\ Len(p.bytes) >= Word
         /\ EndOf(p) + Word <= FrameSize
         /\ \A entry \in DOMAIN p.args : p.args[entry] \in Nat

VARIABLES
    mem,      \* the frame
    program,  \* the program loaded last
    status,   \* idle, running, thrown or undefined
    runs,     \* calls of exec so far
    frames    \* history: the calls in progress

vars == <<mem, program, status, runs, frames>>

End == EndOf(program)

-----------------------------------------------------------------------------
(* Memory.  A negative address is a fault in getting one. *)

Thrown == -1
Undefined == -2

Outcome(fault) == IF fault = Thrown THEN "thrown" ELSE "undefined"

\* Mutant of Locate: only the first byte is checked, one past the frame, too.
LocateFirst(a, n) ==
    IF a < 0 THEN a
    ELSE IF a >= Span(Word) \div 4 THEN Thrown
    ELSE IF a > FrameSize THEN Undefined
    ELSE a

\* Where n bytes at address a are.
Locate(a, n) ==
    IF a < 0 THEN a
    ELSE IF a >= Span(Word) \div 4 THEN Thrown
    ELSE IF a + n > FrameSize THEN Undefined
    ELSE a

Deref(m, a) ==
    LET l == Locate(a, Word) IN IF l < 0 THEN l ELSE Value(m, l, Word)

Displaced(a, d) ==
    IF a < 0 THEN a ELSE IF d < 0 THEN d ELSE (a + d) % Span(Word)
Below(a, n) == IF a < 0 THEN a ELSE (a - n) % Span(Word)

Reg(m, r) == Value(m, r, Word)
Set(m, r, v) == Put(m, r, Word, v)
Bump(m, r, d) == Set(m, r, Reg(m, r) + d)

Bit(v, k) == (v \div TwoTo(k)) % 2
Flag(f) == Bit(mem[FLAGS + 1], f) = 1
SetFlag(m, f, b) ==
    [m EXCEPT ![FLAGS + 1] = @ + TwoTo(f) * ((IF b THEN 1 ELSE 0) - Bit(@, f))]

\* n bytes copied from one place to another.
Copy(m, from, to, n) == Write(m, to, SubSeq(m, from + 1, from + n))

-----------------------------------------------------------------------------
(* The instruction at IP. *)

Ip == Reg(mem, IP)
Sp == Reg(mem, SP)
Bp == Reg(mem, BP)

Opcode == Value(mem, Ip, InstSize - 1)
Kind(k) == (mem[Ip + InstSize] \div TwoTo(2 * (k - 1))) % 4
Known == \E i \in Instructions : i.code = Opcode
Inst == InstructionOf(Opcode)
Size == Inst.size

Destination == {Relative, RelativeWithDiff}
Source == {Relative, RelativeWithDiff, Fixed}
Optional == Source \cup {Empty}

Binary == {"and", "or", "xor", "shl", "shr", "add", "sub", "mul", "div", "mod"}
Unary == {"not", "neg"}

\* The kinds an instruction takes for each of its operands.
Shape ==
    CASE Inst.name = "mov"             -> <<Destination, Source>>
      [] Inst.name \in {"push", "pop"} -> <<Optional>>
      [] Inst.name \in Binary          -> <<Destination, Source, Optional>>
      [] Inst.name \in Unary           -> <<Destination, Optional>>
      [] Inst.name = "cmp"             -> <<Source, Source>>
      [] OTHER                         -> <<>>

\* Mutant of Taken: a literal takes a word, whatever its size.
WordTaken(k) == Width(Kind(k), Word)

\* Bytes the k-th operand takes, and the instruction up to its end.
Taken(k) == Width(Kind(k), Size)

Through[k \in 0 .. 3] == IF k = 0 THEN InstSize ELSE Through[k - 1] + Taken(k)

\* Where the k-th operand is.  pop without an operand goes to AX.
Operand(k) ==
    LET p == Ip + Through[k - 1]
    IN IF Kind(k) \notin Shape[k] THEN Thrown
       ELSE CASE Kind(k) = Empty            -> AX
              [] Kind(k) = Fixed            -> Locate(p, Size)
              [] Kind(k) = Relative         -> Locate(Deref(mem, p), Size)
              [] Kind(k) = RelativeWithDiff ->
                   Locate(Displaced(Deref(mem, Deref(mem, p)), Deref(mem, p + Word)), Size)

Operands == [k \in DOMAIN Shape |-> Operand(k)]
Located == \A k \in DOMAIN Shape : Operand(k) >= 0

Arg(k) ==
    LET v == Value(mem, Operand(k), Size)
    IN IF Inst.sign = "i" THEN Signed(v, Size) ELSE v

-----------------------------------------------------------------------------
(* Arithmetic: the results of pred on a type of n bytes. *)

Wide(n) == IF n < IntSize THEN IntSize ELSE n
BitsOf(n) == n * (CHOOSE b \in 1 .. Byte : TwoTo(b) = Byte)

BitOf(name, a, b) ==
    CASE name = "and" -> a * b
      [] name = "or"  -> a + b - a * b
      [] name = "xor" -> (a + b) % 2

\* The lower k bits of the result, for every k.
BitsUpTo(name, x, y) ==
    LET lower[k \in 0 .. BitsOf(Word)] ==
            IF k = 0 THEN 0
            ELSE lower[k - 1] + TwoTo(k - 1) * BitOf(name, Bit(x, k - 1), Bit(y, k - 1))
    IN lower

Bitwise(name, x, y) == BitsUpTo(name, x, y)[BitsOf(Word)]

Quotient(x, y) ==
    LET abs(z) == IF z < 0 THEN -z ELSE z
        q == abs(x) \div abs(y)
    IN IF (x < 0) = (y < 0) THEN q ELSE -q

Compute(name, x, y) ==
    CASE name = "add" -> x + y
      [] name = "sub" -> x - y
      [] name = "mul" -> x * y
      [] name = "div" -> Quotient(x, y)
      [] name = "mod" -> x - y * Quotient(x, y)
      [] name = "shl" -> x * TwoTo(y)
      [] name = "shr" -> x \div TwoTo(y)
      [] name = "not" -> -1 - x
      [] name = "neg" -> -x
      [] OTHER        -> Bitwise(name, x, y)

\* Division by zero, a shift by the width or more, overflow of a signed type.
IsDefined(name, sign, n, x, y) ==
    /\ name \in {"div", "mod"} => y # 0
    /\ name \in {"shl", "shr"} => y \in 0 .. BitsOf(Wide(n)) - 1
    /\ sign = "i" \/ (sign = "u" /\ n < IntSize) =>
         LET exact == Compute(IF name = "mod" THEN "div" ELSE name, x, y)
         IN 2 * exact \in -Span(Wide(n)) .. Span(Wide(n)) - 1

\* Mutant of Difference: the operands swapped.
Backwards(sign, n, x, y) ==
    IF sign = "u" /\ n >= IntSize THEN (y - x) % Span(n) ELSE y - x

\* cmp subtracts in the promoted type and shifts by the width of its own.
Difference(sign, n, x, y) ==
    IF sign = "u" /\ n >= IntSize THEN (x - y) % Span(n) ELSE x - y
SignBits(n, d) == d \div (Span(n) \div 2)

-----------------------------------------------------------------------------
Init ==
    /\ mem = [k \in 1 .. FrameSize |-> 0]
    /\ program = NoProgram
    /\ status = "idle"
    /\ runs = 0
    /\ frames = <<>>

\* The first word of the program is the entry point, and is not copied.
Loaded(m, bytes) ==
    Write(m, RegistersSize + Word, SubSeq(bytes, Word + 1, Len(bytes)))

ExecOn(p) ==
    /\ status \in {"idle", "thrown"}
    /\ runs < MaxRuns
    /\ runs' = runs + 1
    /\ status' = "running"
    /\ frames' = <<>>
    /\ program' = p
    /\ mem' = Set(Set(SetFlag(Loaded(mem, p.bytes), RF, TRUE), SP, EndOf(p)),
                  IP, Value(p.bytes, 0, Word) + RegistersSize)

Exec == \E p \in Programs : ExecOn(p)

Looping == Flag(RF) /\ Ip < End

\* The condition of the loop of exec no longer holds.
Finish ==
    /\ status = "running"
    /\ ~Looping
    /\ status' = "idle"
    /\ UNCHANGED <<mem, program, runs, frames>>

Executes(names) ==
    /\ status = "running"
    /\ Looping
    /\ Known
    /\ Inst.name \in names
    /\ UNCHANGED <<program, runs>>

\* The instruction leaves the memory m, unless one of its accesses faults.
Leaves(accesses, m) ==
    LET faults == {k \in DOMAIN accesses : accesses[k] < 0}
    IN IF faults = {}
       THEN mem' = m /\ UNCHANGED status
       ELSE /\ status' = Outcome(accesses[CHOOSE k \in faults : \A j \in faults : k <= j])
            /\ UNCHANGED mem

Halt ==
    /\ Executes({"halt"})
    /\ Leaves(<<>>, Bump(SetFlag(mem, RF, FALSE), IP, InstSize))
    /\ UNCHANGED frames

\* native_call uses IP as a flag: 1 while the function runs, 0 after it.
Ncall ==
    /\ Executes({"ncall"})
    /\ LET key == Deref(mem, Ip + InstSize)
       IN IF key < 0 THEN Leaves(<<key>>, mem)
          ELSE IF key \in Natives
          THEN /\ \E v \in Results :
                    mem' = Bump(Set(Set(mem, AX, v), IP, 0), IP, InstSize + Word)
               /\ UNCHANGED status
          ELSE status' = "thrown" /\ mem' = Set(mem, IP, 1)
    /\ UNCHANGED frames

ArgsOf(entry) == IF entry \in DOMAIN program.args THEN program.args[entry] ELSE 0

\* Mutant of WithLink: a stack that grows down.
LinkBelow(m) == Bump(Set(m, Reg(m, SP) - Word, Reg(m, BP)), SP, -Word)

WithLink(m) == Bump(Set(m, Reg(m, SP), Reg(m, BP)), SP, Word)

\* BP is where the call comes back to; IP still has to be read.
Calling(m) == Set(WithLink(m), BP, Reg(WithLink(m), IP) + InstSize + Word)

Fcall ==
    /\ Executes({"fcall"})
    /\ LET calling == Calling(mem)
           entry  == Deref(calling, Displaced(Reg(calling, IP), InstSize))
       IN IF Locate(Sp, Word) < 0 THEN Leaves(<<Locate(Sp, Word)>>, mem) /\ UNCHANGED frames
          ELSE IF entry < 0 THEN status' = Outcome(entry) /\ mem' = calling /\ UNCHANGED frames
          ELSE /\ mem' = Set(calling, IP, entry)
               /\ frames' = Append(frames, [ret  |-> Ip + InstSize + Word,
                                            low  |-> Sp - ArgsOf(entry),
                                            base |-> Sp + Word])
               /\ UNCHANGED status

\* ret reads the header of the function it leaves through the operand of the
\* fcall in front of BP.
FuncStart == Deref(mem, Below(Bp, Word))
HeaderWord(start, back) == Deref(mem, Below(start, back))

\* The bytes of the operand itself are copied as the result.
ResultAt(size) == IF size <= Word THEN AX ELSE GP

ResultFault(size) ==
    IF Kind(1) = Empty THEN 0
    ELSE IF size < 0 THEN size
    ELSE IF Ip + InstSize + size > FrameSize \/ ResultAt(size) + size > FrameSize
    THEN Undefined
    ELSE 0

WithResult(size) ==
    IF Kind(1) = Empty THEN mem ELSE Copy(mem, Ip + InstSize, ResultAt(size), size)

\* Mutants of Returned: back to the fcall itself; the link stays on the stack.
CallAgain(m, args) ==
    LET dropped == Bump(m, SP, -(args + Word))
    IN Set(dropped, IP, Reg(dropped, BP) - InstSize - Word)
LinkKept(m, args) ==
    LET dropped == Bump(m, SP, -args) IN Set(dropped, IP, Reg(dropped, BP))

Returned(m, args) ==
    LET dropped == Bump(m, SP, -(args + Word))
    IN Set(dropped, IP, Reg(dropped, BP))

Ret ==
    /\ Executes({"ret"})
    /\ LET start    == FuncStart
           args     == HeaderWord(start, 2 * Word)
           size     == HeaderWord(start, Word)
           returned == Returned(WithResult(size), args)
           link     == Deref(returned, Displaced(Reg(returned, SP), args))
       IN IF start < 0 \/ args < 0 \/ ResultFault(size) < 0
          THEN Leaves(<<start, args, ResultFault(size)>>, mem)
          ELSE IF link < 0 THEN status' = Outcome(link) /\ mem' = returned
          ELSE UNCHANGED status /\ mem' = Set(returned, BP, link)
    /\ frames' = IF status' = "running" /\ frames # <<>>
                 THEN SubSeq(frames, 1, Len(frames) - 1) ELSE frames

Mov ==
    /\ Executes({"mov"})
    /\ Leaves(Operands, Bump(Put(mem, Operand(1), Size, Arg(2)), IP, Through[2]))
    /\ UNCHANGED frames

\* push without an operand writes nothing.
Push ==
    /\ Executes({"push"})
    /\ IF Kind(1) = Empty
       THEN Leaves(<<>>, Bump(Bump(mem, SP, Size), IP, InstSize))
       ELSE Leaves(Append(Operands, Locate(Sp, Size)),
                   Bump(Bump(Put(mem, Sp, Size, Arg(1)), SP, Size), IP, Through[1]))
    /\ UNCHANGED frames

\* The word where the operand begins on the stack is taken as an address, and
\* what is there is popped.
Popped == Locate(Deref(mem, Below(Sp, Size)), Size)

Pop ==
    /\ Executes({"pop"})
    /\ Leaves(Append(Operands, Popped),
              Bump(Bump(Copy(mem, Popped, Operand(1), Size), SP, -Size), IP, Through[1]))
    /\ UNCHANGED frames

\* Without its last operand the instruction reads the first one, too.
Extended == Kind(Len(Shape)) # Empty

Arithmetic ==
    /\ Executes(Binary \cup Unary)
    /\ LET x == IF Extended THEN Arg(2) ELSE Arg(1)
           y == IF Inst.name \in Unary THEN 0 ELSE IF Extended THEN Arg(3) ELSE Arg(2)
       IN IF Located /\ ~IsDefined(Inst.name, Inst.sign, Size, x, y)
          THEN status' = "undefined" /\ UNCHANGED mem
          ELSE Leaves(Operands,
                      Bump(Put(mem, Operand(1), Size, Compute(Inst.name, x, y)),
                           IP, Through[Len(Shape)]))
    /\ UNCHANGED frames

Cmp ==
    /\ Executes({"cmp"})
    /\ LET d == Difference(Inst.sign, Size, Arg(1), Arg(2))
       IN IF Located /\ ~IsDefined("sub", Inst.sign, Size, Arg(1), Arg(2))
          THEN status' = "undefined" /\ UNCHANGED mem
          ELSE Leaves(Operands,
                      Bump(SetFlag(SetFlag(mem, ZF, d = 0), SF, SignBits(Size, d) # 0),
                           IP, Through[2]))
    /\ UNCHANGED frames

\* No instruction has the code at IP.
Raise ==
    /\ status = "running"
    /\ Looping
    /\ ~Known
    /\ status' = "thrown"
    /\ UNCHANGED <<mem, program, runs, frames>>

Step ==
    \/ Halt \/ Ncall \/ Fcall \/ Ret
    \/ Mov \/ Push \/ Pop \/ Arithmetic \/ Cmp
    \/ Raise

Next == Exec \/ Step \/ Finish

Spec == Init /\ [][Next]_vars

\* The loop of exec is a thread that keeps running: while status is running,
\* a step or the end of the loop is enabled, and a step of a straight program
\* moves IP, so this is weak fairness of both.
Fairness == []<>(status # "running") \/ []<><<Step \/ Finish>>_vars

FairSpec == Spec /\ Fairness

-----------------------------------------------------------------------------
(* What a program is trusted with: the machine keeps its code, its stack   *)
(* and the links of calls in one frame, and tests none of it.              *)

\* The instruction p has at s, and the bytes it takes.
CodeAt(p, s) == InstructionOf(Value(p.bytes, s - RegistersSize, InstSize - 1))
KindAt(p, s, k) == (p.bytes[s - RegistersSize + InstSize] \div TwoTo(2 * (k - 1))) % 4
WidthAt(p, s, k) == Width(KindAt(p, s, k), CodeAt(p, s).size)

BytesAt(p, s) ==
    LET name == CodeAt(p, s).name
    IN CASE name \in {"push", "pop"}             -> InstSize + WidthAt(p, s, 1)
         [] name \in {"mov", "cmp"} \cup Unary   ->
              InstSize + WidthAt(p, s, 1) + WidthAt(p, s, 2)
         [] name \in Binary                      ->
              InstSize + WidthAt(p, s, 1) + WidthAt(p, s, 2) + WidthAt(p, s, 3)
         [] name \in {"ncall", "fcall"}          -> InstSize + Word
         [] OTHER                                -> InstSize

\* What the fcall in front of r calls, and the header in front of an entry.
Callee(p, r) == Value(p.bytes, r - Word - RegistersSize, Word)
HeaderAt(p, entry, back) == Value(p.bytes, entry - back - RegistersSize, Word)

\* Instructions follow one another, and calls go to functions: not to the first
\* one, whose header is under the entry point and is not copied.
Framed(p) ==
    /\ Value(p.bytes, 0, Word) + RegistersSize \in p.starts
    /\ \A s \in p.starts :
         /\ s \in RegistersSize + Word .. EndOf(p) - InstSize
         /\ \E i \in Instructions : i.code = Value(p.bytes, s - RegistersSize, InstSize - 1)
         /\ CodeAt(p, s).name \notin {"halt", "ret"} => s + BytesAt(p, s) \in p.starts
         /\ CodeAt(p, s).name = "fcall" =>
              LET entry == Callee(p, s + InstSize + Word)
              IN /\ entry \in p.starts \cap DOMAIN p.args
                 /\ entry - 2 * Word >= RegistersSize + Word
                 /\ HeaderAt(p, entry, 2 * Word) = p.args[entry]
                 /\ GP + HeaderAt(p, entry, Word) <= RegistersSize

\* Where the stack of the function that runs begins.
Floor == IF frames = <<>> THEN End ELSE frames[Len(frames)].base

\* Bytes of the function that runs: registers but IP, BP, SP and the flags, the
\* stack from its floor up and the arguments below its link.
Own(a, n) ==
    \/ a + n <= IP
    \/ a >= GP /\ a + n <= RegistersSize
    \/ a >= Floor
    \/ frames # <<>> /\ a >= frames[Len(frames)].low
                     /\ a + n <= frames[Len(frames)].base - Word

Writers == {"mov", "pop"} \cup Binary \cup Unary

\* The function writes to its own bytes or moves SP, which stays in its part of
\* the stack; it has the arguments of its calls there, and nothing when it
\* returns; it calls no native function, which loses IP.
Tame ==
    status = "running" /\ Looping /\ Known =>
        /\ Inst.name \in Writers /\ Operand(1) >= 0 =>
              Own(Operand(1), Size) \/ (Operand(1) = SP /\ Size = Word)
        /\ Inst.name \in Writers \cup {"push"} /\ status' = "running" =>
              Reg(mem', SP) >= Floor
        /\ Inst.name = "fcall" => Sp - ArgsOf(Callee(program, Ip + InstSize + Word)) >= Floor
        /\ Inst.name = "ret" => frames # <<>> /\ Sp = Floor
        /\ Inst.name # "ncall"

\* The programs of a run are what the theorems about calls take for granted.
StaysTame == [][Tame]_vars

-----------------------------------------------------------------------------
(* Properties. *)

\* Memory holds bytes, and a fault leaves no call half made.
TypeOK ==
    /\ mem \in [1 .. FrameSize -> 0 .. Byte - 1]
    /\ program.bytes \in Seq(0 .. Byte - 1)
    /\ status \in {"idle", "running", "thrown", "undefined"}
    /\ runs \in 0 .. MaxRuns
    /\ frames \in Seq([ret : Nat, low : Int, base : Nat])

\* Instructions differ in length, and every one of them moves IP itself, past
\* all of its operands: what the machine fetches from the program is always an
\* instruction the translator emitted, from its first byte on.
InSync ==
    status = "running" /\ Looping /\ Ip >= RegistersSize => Ip \in program.starts

\* The code shares its frame with the stack and the results of calls: what
\* runs is the program as translated, but for the word that is not copied.
CodeIntact ==
    SubSeq(mem, RegistersSize + Word + 1, End)
        = SubSeq(program.bytes, Word + 1, Len(program.bytes))

\* A program without a jump or a recursive call comes to an end.
Terminates == status = "running" ~> status # "running"

\* Places and functions of all programs.
Places ==
    {<<NoProgram, 0>>} \cup UNION { {p} \X (RegistersSize .. EndOf(p)) : p \in Programs }
Entries == UNION { {p} \X DOMAIN p.args : p \in Programs }

Promise == INSTANCE Calls WITH
    Funcs     <- Entries,
    ArgBytes  <- [f \in Entries |-> f[1].args[f[2]]],
    LinkBytes <- Word,
    running   <- status = "running",
    ip        <- <<program, Ip>>,
    sp        <- IF program = NoProgram THEN 0 ELSE Sp - End,
    frames    <- [i \in DOMAIN frames |-> [ret  |-> <<program, frames[i].ret>>,
                                           low  |-> frames[i].low - End,
                                           base |-> frames[i].base - End]]

\* Encoded into bytes and run out of the frame, calls are what Calls promises.
KeepsPromise == Promise!Spec

Ran(name) == status = "running" /\ Looping /\ Known /\ Inst.name = name
                /\ status' = "running"

\* cmp sets ZF on equal operands and on no others.  On signed ones SF tells
\* which is less, unless they lie further apart than their type reaches; the
\* types narrower than int are computed in int and shifted by their own width.
Compares ==
    [][Ran("cmp") =>
         /\ (Bit(mem'[FLAGS + 1], ZF) = 1) <=> Arg(1) = Arg(2)
         /\ Inst.sign = "i" /\ 2 * (Arg(1) - Arg(2)) \in -Span(Size) .. Span(Size) - 1
              => (Bit(mem'[FLAGS + 1], SF) = 1 <=> Arg(1) < Arg(2))]_vars

\* After a native function the program goes on with the next instruction.
NcallReturns == [][Ran("ncall") => Reg(mem', IP) = Ip + InstSize + Word]_vars

\* pop gives its destination the bytes at the top of the stack.
PopTakesTop ==
    [][Ran("pop") /\ Kind(1) = Relative
         => Value(mem', Operand(1), Size) = Value(mem, Sp - Size, Size)]_vars
=============================================================================
