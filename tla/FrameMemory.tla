---------------------------- MODULE FrameMemory ----------------------------
(***************************************************************************)
(* The size of the main frame: init allocates the least size asked for,    *)
(* exec loads a program into it without growing it, and the stepper grows  *)
(* it before an instruction runs, up to the greatest size.  Nothing in the *)
(* code checks an address against the frame, so a write past its end is    *)
(* undefined; the machine is not followed further ("undefined").           *)
(*                                                                         *)
(* Of an instruction only what moves SP and what push, pop, fcall and ret  *)
(* read and write at SP is kept.  SP never goes below the program here: a  *)
(* stack in the code or in the registers is VirtualMachine's business.     *)
(***************************************************************************)
EXTENDS Integers

CONSTANTS Limits,    \* what init is called with: records [min, max]
          Programs,  \* registers_size + size of the programs exec is given
          Word,      \* bytes of a machine word
          Sizes,     \* operand sizes of push and pop
          ArgSizes,  \* bytes of arguments a return drops
          TopLimit   \* bound: the greatest SP the model follows

ASSUME FrameMemoryConstants ==
    /\ Limits \subseteq [min : Nat, max : Nat]
    /\ Programs \subseteq Nat
    /\ Word \in Nat \ {0}
    /\ Sizes \subseteq 1 .. Word
    /\ ArgSizes \subseteq Nat
    /\ TopLimit \in Nat

VARIABLES
    status,   \* new, ready, running or undefined
    limits,   \* _min_size and _max_size
    size,     \* _mframe.size()
    bottom,   \* where the stack begins: the end of the loaded program
    sp,       \* register SP
    reach     \* end of the last access at SP, 0 if there was none

\* History, read by no action of the code: an instruction with SP as its
\* destination has put it where a frame below its limit has no room for it.
VARIABLE strayed

vars == <<status, limits, size, bottom, sp, reach, strayed>>

Init ==
    /\ status = "new"
    /\ limits = [min |-> 0, max |-> 0]
    /\ size = 0
    /\ bottom = 0
    /\ sp = 0
    /\ reach = 0
    /\ strayed = FALSE

\* init(min, max); init() and init(size) pass one size twice.
InitMemory(l) ==
    /\ status \in {"new", "ready"}
    /\ status' = "ready"
    /\ limits' = l
    /\ size' = l.min
    /\ reach' = 0
    /\ UNCHANGED <<bottom, sp, strayed>>

Outcome(end, frame) == IF end <= frame THEN "running" ELSE "undefined"

\* The program is copied up to its end, whatever the size of the frame.
Exec(end) ==
    /\ status = "ready"
    /\ reach' = end
    /\ bottom' = end
    /\ sp' = end
    /\ status' = Outcome(end, size)
    /\ strayed' = FALSE
    /\ UNCHANGED <<limits, size>>

Checked == limits.min # limits.max

\* Mutant of MustGrow: the right way round, but without the shift.
OutgrownBefore(shift) == sp >= size

\* The test of _do_step_with_check: the frame grows while the stack top is
\* still INSIDE it.
MustGrow(shift) == sp + shift < size

\* Mutants of GrownSize: no limit; a byte at a time; the stack pointer doubled
\* instead of the size; no last step to the limit.
Unlimited == 2 * size
OneByteMore == size + 1
TwiceTheStack == IF 2 * sp < limits.max THEN 2 * sp ELSE limits.max
NoLastStep == IF 2 * size < limits.max THEN 2 * size ELSE size

GrownSize == IF 2 * size < limits.max THEN 2 * size ELSE limits.max

\* One turn of the loop of exec: an instruction of memory shift `shift` that
\* accesses bytes at SP up to `end` and leaves SP at top.
Step(shift, end, top) ==
    /\ status = "running"
    /\ size' = IF Checked /\ MustGrow(shift) THEN GrownSize ELSE size
    /\ top >= bottom
    /\ top <= TopLimit
    /\ reach' = end
    /\ sp' = top
    /\ status' = Outcome(end, size')
    /\ UNCHANGED <<limits, bottom>>

\* The stack instructions, with an operand that is not SP: SP moves by what
\* they put on the stack or take off it.
Stack(shift, end, top) == Step(shift, end, top) /\ UNCHANGED strayed

Push(n) == Stack(n, sp + n, sp + n)

\* push without an operand writes nothing.
Reserve(n) == Stack(n, 0, sp + n)

\* pop reads a whole word where its operand begins.
Pop(n) == Stack(-n, sp - n + Word, sp - n)

Fcall == Stack(Word, sp + Word, sp + Word)

\* ret reads the link just below SP.
Ret(args) == Stack(-Word, sp, sp - args - Word)

\* A frame that cannot grow, or one with more than a word behind the top.
RoomFor(top, frame) == frame = limits.max \/ top + Word < frame

\* SP may itself be the destination of a pop, which goes on to lower it.
PopToSp(n) ==
    \E top \in bottom .. TopLimit :
        /\ Step(-n, sp - n + Word, top)
        /\ strayed' = (strayed \/ ~RoomFor(top, size'))

\* Every other instruction has no memory shift.  mov, the operators and a
\* native function may leave SP anywhere (add64u %rsp, 16), or where it is.
Other ==
    \E top \in bottom .. TopLimit :
        /\ Step(0, 0, top)
        /\ strayed' = ~RoomFor(top, size')

\* halt, the end of the program or an exception leaves exec.
Leave ==
    /\ status = "running"
    /\ status' = "ready"
    /\ UNCHANGED <<limits, size, bottom, sp, reach, strayed>>

Turn ==
    \/ \E n \in Sizes : Push(n)
    \/ \E n \in Sizes : Reserve(n)
    \/ \E n \in Sizes : Pop(n)
    \/ \E n \in Sizes : PopToSp(n)
    \/ Fcall
    \/ \E args \in ArgSizes : Ret(args)
    \/ Other

Next ==
    \/ \E l \in Limits : InitMemory(l)
    \/ \E end \in Programs : Exec(end)
    \/ Turn
    \/ Leave

Spec == Init /\ [][Next]_vars

\* The loop of exec takes turn after turn until it leaves.
FairSpec == Spec /\ WF_vars(Turn)

-----------------------------------------------------------------------------
(* Properties. *)

\* The uses the guarantees are about: limits in order, a program that fits
\* the frame it is loaded into and, if that frame may grow, leaves room for
\* one more word in it.
Headroom ==
    \A l \in Limits :
        /\ l.min <= l.max
        /\ \A end \in Programs :
             l.min # l.max => end + Word < l.min

\* The frame never exceeds its greatest size, and no SP is below the program.
TypeOK ==
    /\ status \in {"new", "ready", "running", "undefined"}
    /\ limits \in [min : Nat, max : Nat]
    /\ status # "new" => limits \in Limits
    /\ size \in limits.min .. limits.max
    /\ bottom \in Nat
    /\ sp \in Nat
    /\ sp >= bottom
    /\ reach \in Nat
    /\ strayed \in BOOLEAN

\* While the frame can still grow there is room in it for one more word: it
\* doubles faster than the stack instructions move SP, so the inverted test
\* never finds the stack top outside a frame that is not at its limit.  Not so
\* once an instruction has put SP outside by itself: the test of
\* _do_step_with_check then fails until SP is back inside.
RoomToGrow ==
    status = "running" /\ size < limits.max /\ ~strayed => sp + Word < size

\* A run that has not strayed only goes outside its frame when the frame has
\* its greatest size.
OutsideOnlyAtMax ==
    status = "undefined" /\ ~strayed => size = limits.max /\ reach > limits.max

\* A running program never loses memory it already had.
NeverShrinks == [][status = "running" => size' >= size]_vars

\* A program that keeps running, and comes back inside as often as it strays,
\* ends with a frame of the greatest size, however little of it is used.
ReachesMax ==
    []<>~strayed => (status = "running" ~> (status # "running" \/ size = limits.max))
=============================================================================
