----------------------------- MODULE CallStack -----------------------------
(***************************************************************************)
(* The call protocol of the virtual machine: what exec, fcall and ret do   *)
(* to IP, BP, SP and to the links that fcall leaves on the stack, under    *)
(* a program that pushes and pops around them.                             *)
(*                                                                         *)
(* Stack addresses count from the end of the loaded program, where exec    *)
(* puts SP.  A site is an fcall instruction, named by the place after it:  *)
(* that place is what fcall puts in BP and what ret jumps to, and the word *)
(* just before it is the operand of the fcall, the start of the callee.    *)
(*                                                                         *)
(* What a program is trusted with is stated where it is assumed: it pops   *)
(* only what its function pushed (Pop), stores only in its own bytes or    *)
(* its arguments (Store), pushes the arguments it declares (Fcall) and has *)
(* popped everything it pushed when it returns (Unwound).                  *)
(***************************************************************************)
EXTENDS Integers, Sequences

CONSTANTS Funcs,        \* the functions of the program
          Order,        \* the functions, in the order they were translated
          Main,         \* where exec starts
          Sites,        \* the fcall instructions
          Owner,        \* [Sites -> Funcs]: the function a site is in
          Callee,       \* [Sites -> Funcs]: the function a site calls
          ArgSize,      \* [Funcs -> Nat]: bytes of the declared arguments
          Opcodes,      \* header sizes that are also opcodes, halt (0) aside
          Word,         \* bytes of a machine word
          Sizes,        \* operand sizes of push, pop and mov
          VarSizes,     \* [Funcs -> SUBSET Nat]: sizes of the variables a
                        \* function declares without an address
          StackLimit,   \* bound: bytes of stack the model follows
          MaxRuns,      \* bound: times exec is called on one machine
          NoSite,       \* the word 0: a BP or stack word never written
          Garbage       \* any word that is neither 0 nor a whole link

ASSUME CallStackConstants ==
    /\ Order \in Seq(Funcs) /\ Order # <<>>
    /\ Main \in Funcs
    /\ Funcs \cap Sites = {}
    /\ Owner \in [Sites -> Funcs]
    /\ Callee \in [Sites -> Funcs]
    /\ ArgSize \in [Funcs -> Nat]
    /\ VarSizes \in [Funcs -> SUBSET Nat]
    /\ Word \in Nat \ {0}
    /\ Sizes \subseteq Nat \ {0}
    /\ StackLimit \in Nat
    /\ MaxRuns \in Nat
    /\ NoSite \notin Sites /\ Garbage \notin Sites /\ NoSite # Garbage

VARIABLES
    status,    \* idle, running, ended, thrown out of exec, or lost
    ip,        \* the function entered, or the site returned to, last
    bp,        \* register BP
    sp,        \* register SP
    saved,     \* saved[a]: the machine word that begins at stack byte a
    runs,      \* calls of exec so far
    hidden,    \* bytes of inserted pushes in the current activation
    frames,    \* history: the calls in progress
    outer      \* history: BP when exec was entered

vars == <<status, ip, bp, sp, saved, runs, hidden, frames, outer>>

Links == Sites \cup {NoSite, Garbage}
Addresses == 0 .. StackLimit
Frame == [ret : Sites, low : Nat, base : Nat, hidden : Nat]

First == Order[1]
Current == IF ip \in Funcs THEN ip ELSE Owner[ip]
Running == status = "running"

InCall == frames # <<>>
Innermost == frames[Len(frames)]
Floor == IF InCall THEN Innermost.base ELSE 0

\* What the function has pushed as its source shows it: inserted pushes
\* are not in the source.
Visible == sp - hidden
Unwound == Visible = Floor

-----------------------------------------------------------------------------
(* Memory. *)

\* n bytes written at a spoil every word that overlaps them.
Clobber(mem, a, n) ==
    [x \in DOMAIN mem |-> IF x > a - Word /\ x < a + n THEN Garbage ELSE mem[x]]

\* Mutant of SaveLink: SP is moved before the link is written.
LinkAbove(mem, a, link) == [Clobber(mem, a + Word, Word) EXCEPT ![a + Word] = link]

SaveLink(mem, a, link) == [Clobber(mem, a, Word) EXCEPT ![a] = link]

\* Mutants of HeaderArgs: the link counted as an argument; no header loaded.
LinkAsArgument(f) == ArgSize[f] + Word
NoHeader(f) == 0

\* The argument size ret finds in front of a function.  The translator puts
\* the entry point over the first word of the program, the argument size of
\* the first function, and exec never copies that word: it reads as 0.
HeaderArgs(f) == IF f = First THEN 0 ELSE ArgSize[f]

-----------------------------------------------------------------------------
Init ==
    /\ status = "idle"
    /\ ip = Main
    /\ bp = NoSite
    /\ sp = 0
    /\ saved = [a \in Addresses |-> NoSite]
    /\ runs = 0
    /\ hidden = 0
    /\ frames = <<>>
    /\ outer = NoSite

\* exec resets SP and IP; BP and the stack keep what the last run left.
Exec ==
    /\ status \in {"idle", "ended", "thrown"}
    /\ runs < MaxRuns
    /\ runs' = runs + 1
    /\ status' = "running"
    /\ ip' = Main
    /\ sp' = 0
    /\ hidden' = 0
    /\ frames' = <<>>
    /\ outer' = bp
    /\ UNCHANGED <<bp, saved>>

Push(n) ==
    /\ Running
    /\ sp + n <= StackLimit
    /\ saved' = Clobber(saved, sp, n)
    /\ sp' = sp + n
    /\ UNCHANGED <<status, ip, bp, runs, hidden, frames, outer>>

\* push without an operand moves SP and writes nothing.
Reserve(n) ==
    /\ Running
    /\ sp + n <= StackLimit
    /\ sp' = sp + n
    /\ UNCHANGED <<status, ip, bp, saved, runs, hidden, frames, outer>>

\* var %x: T without an address becomes a push without an operand.
Variable(n) ==
    /\ Running
    /\ n \in VarSizes[Current]
    /\ sp + n <= StackLimit
    /\ hidden = 0
    /\ sp' = sp + n
    /\ hidden' = n
    /\ UNCHANGED <<status, ip, bp, saved, runs, frames, outer>>

Pop(n) ==
    /\ Running
    /\ Visible - n >= Floor
    /\ sp' = sp - n
    /\ UNCHANGED <<status, ip, bp, saved, runs, hidden, frames, outer>>

\* mov and the arithmetic through a variable on the stack.
Store(a, n) ==
    /\ Running
    /\ \/ a >= Floor /\ a + n <= sp
       \/ InCall /\ a >= Innermost.low /\ a + n <= Innermost.base - Word
    /\ saved' = Clobber(saved, a, n)
    /\ UNCHANGED <<status, ip, bp, sp, runs, hidden, frames, outer>>

Fcall(s) ==
    /\ Running
    /\ Owner[s] = Current
    /\ Visible - ArgSize[Callee[s]] >= Floor
    /\ sp + Word <= StackLimit
    /\ saved' = SaveLink(saved, sp, bp)
    /\ sp' = sp + Word
    /\ bp' = s
    /\ ip' = Callee[s]
    /\ frames' = Append(frames, [ret    |-> s,
                                 low    |-> sp - ArgSize[Callee[s]],
                                 base   |-> sp + Word,
                                 hidden |-> hidden])
    /\ hidden' = 0
    /\ UNCHANGED <<status, runs, outer>>

\* Mutant of Dropped: the link stays on the stack.
LinkKept(args) == sp - args

\* SP after the first subtraction of ret; the link is read args above it.
Dropped(args) == sp - (args + Word)

Ret ==
    /\ Running
    /\ InCall
    /\ Unwound
    /\ bp \in Sites
    /\ LET args == HeaderArgs(Callee[bp])
       IN /\ sp' = Dropped(args)
          /\ ip' = bp
          /\ bp' = saved[Dropped(args) + args]
    /\ frames' = SubSeq(frames, 1, Len(frames) - 1)
    /\ hidden' = Innermost.hidden
    /\ UNCHANGED <<status, saved, runs, outer>>

\* BP = 0: the word before it has an address of no memory type.
RetThrows ==
    /\ Running
    /\ Unwound
    /\ bp = NoSite
    /\ status' = "thrown"
    /\ UNCHANGED <<ip, bp, sp, saved, runs, hidden, frames, outer>>

\* ret through a BP that no call of this run made, or that is no link: the
\* machine goes on somewhere, and is not followed there.
RetLost ==
    /\ Running
    /\ Unwound
    /\ bp = Garbage \/ (~InCall /\ bp \in Sites)
    /\ status' = "lost"
    /\ UNCHANGED <<ip, bp, sp, saved, runs, hidden, frames, outer>>

Halt ==
    /\ Running
    /\ status' = "ended"
    /\ UNCHANGED <<ip, bp, sp, saved, runs, hidden, frames, outer>>

\* A body without a last ret or halt runs into the header of the function
\* translated after it, and the argument size there is decoded as an
\* instruction: 0 is halt.  After the last function the loop of exec ends.
FallOff ==
    /\ Running
    /\ \E i \in 1 .. Len(Order) :
         /\ Order[i] = Current
         /\ status' = IF i = Len(Order) THEN "ended"
                      ELSE IF ArgSize[Order[i + 1]] = 0 THEN "ended"
                      ELSE IF ArgSize[Order[i + 1]] \in Opcodes THEN "lost"
                      ELSE "thrown"
    /\ UNCHANGED <<ip, bp, sp, saved, runs, hidden, frames, outer>>

\* An instruction that throws: wrong operand kinds, an address of no memory
\* type, an unknown native.  exec catches nothing.
Throw ==
    /\ Running
    /\ status' = "thrown"
    /\ UNCHANGED <<ip, bp, sp, saved, runs, hidden, frames, outer>>

Next ==
    \/ Exec
    \/ \E n \in Sizes : Push(n)
    \/ \E n \in Sizes : Reserve(n)
    \/ \E n \in Sizes : Pop(n)
    \/ \E f \in Funcs : \E n \in VarSizes[f] : Variable(n)
    \/ \E a \in Addresses, n \in Sizes : Store(a, n)
    \/ \E s \in Sites : Fcall(s)
    \/ Ret
    \/ RetThrows
    \/ RetLost
    \/ Halt
    \/ FallOff
    \/ Throw

Spec == Init /\ [][Next]_vars

-----------------------------------------------------------------------------
(* Properties. *)

\* The programs the guarantees are about: no function that is called is the
\* first one with arguments, or declares a variable without an address.
WellTranslated ==
    \A s \in Sites :
        /\ Callee[s] = First => ArgSize[First] = 0
        /\ VarSizes[Callee[s]] = {}

\* Types, and the stack pointer stays between the program and the bound.
TypeOK ==
    /\ status \in {"idle", "running", "ended", "thrown", "lost"}
    /\ ip \in Funcs \cup Sites
    /\ bp \in Links
    /\ sp \in Addresses
    /\ saved \in [Addresses -> Links]
    /\ runs \in 0 .. MaxRuns
    /\ hidden \in Nat
    /\ frames \in Seq(Frame)
    /\ outer \in Links

Depths == 1 .. Len(frames)

\* What call i found: the floor, the function and the BP of its caller.
FloorUnder(i) == IF i = 1 THEN 0 ELSE frames[i - 1].base
CallerOf(i) == IF i = 1 THEN Main ELSE Callee[frames[i - 1].ret]
LinkUnder(i) == IF i = 1 THEN outer ELSE frames[i - 1].ret

\* The frames lie one above the other: the arguments of a call are bytes of
\* its caller, the link follows them and the callee starts after the link.
FramesNested ==
    /\ \A i \in Depths :
         /\ frames[i].low + ArgSize[Callee[frames[i].ret]] + Word = frames[i].base
         /\ FloorUnder(i) + frames[i].hidden <= frames[i].low
         /\ frames[i].base <= sp
    /\ \A i, j \in Depths : i < j => frames[i].base <= frames[j].low
    /\ Floor + hidden <= sp

\* No store, push or later call has spoilt the link of a call in progress:
\* each one still names the call below it, the first one what exec found.
LinksIntact == \A i \in Depths : saved[frames[i].base - Word] = LinkUnder(i)

\* BP is the place the innermost call must return to.
BpIsInnermost == bp = LinkUnder(Len(frames) + 1)

\* The code that runs is that of the function called last and not left.
RunsInnermost ==
    /\ Current = CallerOf(Len(frames) + 1)
    /\ \A i \in Depths : Owner[frames[i].ret] = CallerOf(i)

\* Only a function with a variable that has no address hides a push.
HiddenByVariables ==
    /\ hidden # 0 => hidden \in VarSizes[Current]
    /\ \A i \in Depths : frames[i].hidden # 0
            => frames[i].hidden \in VarSizes[Owner[frames[i].ret]]

\* The call protocol: the links on the stack are those of the calls in
\* progress, whatever the program pushed, popped and stored in between.
CallInv ==
    /\ FramesNested
    /\ LinksIntact
    /\ BpIsInnermost
    /\ RunsInnermost
    /\ HiddenByVariables

\* Every return removes from the stack exactly the link and the declared
\* arguments of the function that returns.
ArgumentsCleared ==
    [][Len(frames') < Len(frames) /\ status' = status
          => sp' = Innermost.low]_vars

\* A frame as Calls sees it.
Seen(f) == [ret |-> f.ret, low |-> f.low, base |-> f.base]

Promise == INSTANCE Calls WITH
    Places <- Funcs \cup Sites,
    ArgBytes <- ArgSize,
    LinkBytes <- Word,
    running <- Running,
    frames <- [i \in Depths |-> Seen(frames[i])]

\* The machine calls and returns as Calls promises.
KeepsPromise == Promise!Spec
=============================================================================
