------------------------- MODULE FrameMemoryProofs -------------------------
(***************************************************************************)
(* Proofs about FrameMemory, for all limits, programs and operand sizes    *)
(* with headroom.  TypeOK and RoomToGrow are inductive together; that a    *)
(* run which has not strayed only leaves a frame of the greatest size      *)
(* follows along the way.                                                  *)
(***************************************************************************)
EXTENDS FrameMemory, TLAPS

FrameInv == TypeOK /\ RoomToGrow /\ OutsideOnlyAtMax

\* The sizes that occur are numbers, in the form the steps below use.
LEMMA NumberFacts ==
    ASSUME FrameInv
    PROVE  /\ size \in Nat /\ sp \in Nat /\ bottom \in Nat
           /\ limits.min \in Nat /\ limits.max \in Nat
           /\ limits.min <= size /\ size <= limits.max /\ bottom <= sp
           /\ Word \in Nat /\ Word > 0
  BY FrameMemoryConstants DEF FrameInv, TypeOK

LEMMA InitMemoryStep ==
    ASSUME FrameInv, Headroom, NEW l \in Limits, InitMemory(l)
    PROVE  FrameInv'
<1>1. /\ l \in [min : Nat, max : Nat] /\ l.min <= l.max
  BY FrameMemoryConstants DEF Headroom
<1>2. /\ status' = "ready" /\ limits' = l /\ size' = l.min /\ reach' = 0
      /\ UNCHANGED <<bottom, sp, strayed>>
  BY DEF InitMemory
<1>3. l.min \in l.min .. l.max
  BY <1>1
<1> QED BY <1>1, <1>2, <1>3 DEF FrameInv, TypeOK, RoomToGrow, OutsideOnlyAtMax

\* What a step of the loop does to the frame: it stays between its limits, and
\* if SP had not strayed it ends at its greatest size or with twice the room.
LEMMA Growth ==
    ASSUME FrameInv,
           NEW shift \in Int, NEW end \in Int, NEW top \in Int,
           shift <= Word, 0 <= end, strayed' \in BOOLEAN,
           Step(shift, end, top)
    PROVE  /\ TypeOK'
           /\ sp' = top /\ reach' = end /\ limits' = limits
           /\ status' = IF end <= size' THEN "running" ELSE "undefined"
           /\ size <= size' /\ size' <= limits.max
           /\ ~strayed /\ size' < limits.max => size' = 2 * size /\ sp + Word < size
<1>1. /\ size \in Nat /\ sp \in Nat /\ bottom \in Nat
      /\ limits.min \in Nat /\ limits.max \in Nat
      /\ limits.min <= size /\ size <= limits.max
      /\ Word \in Nat /\ Word > 0
  BY NumberFacts
<1>2. /\ status = "running" /\ limits' = limits /\ bottom' = bottom
      /\ size' = IF limits.min # limits.max /\ sp + shift < size
                   THEN IF 2 * size < limits.max THEN 2 * size ELSE limits.max
                   ELSE size
      /\ top >= bottom /\ sp' = top /\ reach' = end
      /\ status' = IF end <= size' THEN "running" ELSE "undefined"
  BY DEF Step, Checked, MustGrow, GrownSize, Outcome
<1>3. /\ size' \in Nat /\ size <= size' /\ size' <= limits.max
  BY <1>1, <1>2
<1>4. ASSUME ~strayed, size' < limits.max
      PROVE  size' = 2 * size /\ sp + Word < size
  <2>1. size < limits.max
    BY <1>1, <1>3, <1>4
  <2>2. sp + Word < size
    BY <2>1, <1>2, <1>4 DEF FrameInv, RoomToGrow
  <2>3. limits.min # limits.max /\ sp + shift < size
    BY <2>1, <2>2, <1>1
  <2>4. size' = IF 2 * size < limits.max THEN 2 * size ELSE limits.max
    BY <2>3, <1>2
  <2> QED BY <2>2, <2>4, <1>1, <1>4
<1>5. TypeOK'
  <2>1. size' \in limits.min .. limits.max /\ top \in Nat
    BY <1>1, <1>2, <1>3
  <2> QED BY <2>1, <1>2 DEF FrameInv, TypeOK
<1> QED BY <1>2, <1>3, <1>4, <1>5

\* A stack instruction moves SP up by a word at most, while the frame doubles
\* or comes to its greatest size.
LEMMA StackStep ==
    ASSUME FrameInv,
           NEW shift \in Int, NEW end \in Int, NEW top \in Int,
           shift <= Word, top <= sp + Word, end <= sp + Word, 0 <= end,
           Stack(shift, end, top)
    PROVE  FrameInv'
<1>1. strayed' = strayed /\ strayed \in BOOLEAN /\ Step(shift, end, top)
  BY DEF Stack, FrameInv, TypeOK
<1>2. /\ TypeOK'
      /\ sp' = top /\ reach' = end /\ limits' = limits
      /\ status' = IF end <= size' THEN "running" ELSE "undefined"
      /\ size <= size' /\ size' <= limits.max
      /\ ~strayed /\ size' < limits.max => size' = 2 * size /\ sp + Word < size
  BY <1>1, Growth
<1>3. /\ size \in Nat /\ sp \in Nat /\ limits.max \in Nat /\ Word \in Nat
      /\ size' \in Nat
  <2>1. size' \in limits'.min .. limits'.max /\ limits' \in [min : Nat, max : Nat]
    BY <1>2 DEF TypeOK
  <2> QED BY <2>1, NumberFacts
<1>4. ~strayed /\ size' < limits.max => top + Word < size' /\ end <= size'
  BY <1>2, <1>3
<1>5. RoomToGrow'
  BY <1>1, <1>2, <1>4 DEF RoomToGrow
<1>6. OutsideOnlyAtMax'
  <2> SUFFICES ASSUME status' = "undefined", ~strayed
               PROVE  size' = limits.max /\ end > limits.max
    BY <1>1, <1>2 DEF OutsideOnlyAtMax
  <2>1. ~(end <= size')
    BY <1>2
  <2> QED BY <2>1, <1>2, <1>3, <1>4
<1> QED BY <1>2, <1>5, <1>6 DEF FrameInv

\* An instruction with SP as its destination: it has strayed, or SP is where
\* the frame has room.  What it read at the old SP (end) was inside.
LEMMA SetStep ==
    ASSUME FrameInv,
           NEW shift \in Int, NEW end \in Int, NEW top \in Int,
           shift <= Word, 0 <= end,
           Step(shift, end, top),
           strayed' \in BOOLEAN, ~strayed' => RoomFor(top, size'),
           \/ end = 0
           \/ end <= sp + Word /\ (strayed => strayed')
    PROVE  FrameInv'
<1>1. /\ TypeOK'
      /\ sp' = top /\ reach' = end /\ limits' = limits
      /\ status' = IF end <= size' THEN "running" ELSE "undefined"
      /\ size <= size' /\ size' <= limits.max
      /\ ~strayed /\ size' < limits.max => size' = 2 * size /\ sp + Word < size
  BY Growth
<1>2. /\ size \in Nat /\ sp \in Nat /\ limits.max \in Nat /\ Word \in Nat
      /\ size' \in Nat
  <2>1. size' \in limits'.min .. limits'.max /\ limits' \in [min : Nat, max : Nat]
    BY <1>1 DEF TypeOK
  <2> QED BY <2>1, NumberFacts
<1>3. RoomToGrow'
  BY <1>1, <1>2 DEF RoomToGrow, RoomFor
<1>4. OutsideOnlyAtMax'
  <2> SUFFICES ASSUME status' = "undefined", ~strayed'
               PROVE  size' = limits.max /\ end > limits.max
    BY <1>1 DEF OutsideOnlyAtMax
  <2>1. ~(end <= size')
    BY <1>1
  <2>2. end <= sp + Word /\ ~strayed
    BY <2>1, <1>2
  <2> QED BY <2>1, <2>2, <1>1, <1>2
<1> QED BY <1>1, <1>3, <1>4 DEF FrameInv

LEMMA LoopStep == ASSUME FrameInv, Turn PROVE FrameInv'
<1>1. /\ sp \in Nat /\ bottom \in Nat /\ Word \in Nat /\ strayed \in BOOLEAN
      /\ Sizes \subseteq 1 .. Word /\ ArgSizes \subseteq Nat /\ TopLimit \in Nat
  BY NumberFacts, FrameMemoryConstants DEF FrameInv, TypeOK
<1>2. ASSUME NEW n \in Sizes, Push(n) \/ Reserve(n) \/ Pop(n) PROVE FrameInv'
  <2>1. n \in Int /\ 1 <= n /\ n <= Word
    BY <1>1
  <2>2. CASE Push(n)
    BY <2>1, <2>2, <1>1, StackStep DEF Push
  <2>3. CASE Reserve(n)
    BY <2>1, <2>3, <1>1, StackStep DEF Reserve
  <2>4. CASE Pop(n)
    BY <2>1, <2>4, <1>1, StackStep DEF Pop
  <2> QED BY <2>2, <2>3, <2>4, <1>2
<1>3. CASE Fcall
  BY <1>3, <1>1, StackStep DEF Fcall
<1>4. ASSUME NEW args \in ArgSizes, Ret(args) PROVE FrameInv'
  BY <1>4, <1>1, StackStep DEF Ret
<1>5. ASSUME NEW n \in Sizes, PopToSp(n) PROVE FrameInv'
  <2>1. n \in Int /\ 1 <= n /\ n <= Word
    BY <1>1
  <2>2. PICK top \in bottom .. TopLimit :
          /\ Step(-n, sp - n + Word, top)
          /\ strayed' = (strayed \/ ~RoomFor(top, size'))
    BY <1>5 DEF PopToSp
  <2>3. /\ top \in Int /\ -n \in Int /\ sp - n + Word \in Int
        /\ -n <= Word /\ 0 <= sp - n + Word /\ sp - n + Word <= sp + Word
    BY <2>1, <1>1
  <2>4. /\ strayed' \in BOOLEAN /\ (~strayed' => RoomFor(top, size'))
        /\ strayed => strayed'
    BY <2>2, Zenon DEF RoomFor
  <2> QED BY <2>2, <2>3, <2>4, SetStep
<1>6. CASE Other
  <2>1. PICK top \in bottom .. TopLimit :
          /\ Step(0, 0, top)
          /\ strayed' = ~RoomFor(top, size')
    BY <1>6 DEF Other
  <2>2. top \in Int /\ 0 <= Word
    BY <1>1
  <2>3. strayed' \in BOOLEAN /\ (~strayed' => RoomFor(top, size'))
    BY <2>1, Zenon DEF RoomFor
  <2> QED BY <2>1, <2>2, <2>3, SetStep
<1> QED BY <1>2, <1>3, <1>4, <1>5, <1>6 DEF Turn

LEMMA FrameNext ==
    ASSUME Headroom PROVE FrameInv /\ [Next]_vars => FrameInv'
<1> SUFFICES ASSUME FrameInv, [Next]_vars PROVE FrameInv'
  OBVIOUS
<1>1. CASE \E l \in Limits : InitMemory(l)
  BY <1>1, InitMemoryStep
<1>2. ASSUME NEW end \in Programs, Exec(end) PROVE FrameInv'
  <2>1. /\ end \in Nat /\ (limits.min # limits.max => end + Word < limits.min)
    <3>1. limits \in Limits
      BY <1>2 DEF Exec, FrameInv, TypeOK
    <3> QED BY <3>1, FrameMemoryConstants DEF Headroom
  <2>2. /\ bottom' = end /\ sp' = end /\ reach' = end
        /\ status' = IF end <= size THEN "running" ELSE "undefined"
        /\ UNCHANGED <<limits, size>>
    BY <1>2 DEF Exec, Outcome
  <2>3. /\ size \in Nat /\ limits.min \in Nat /\ limits.max \in Nat
        /\ limits.min <= size /\ size <= limits.max /\ Word \in Nat
    BY NumberFacts
  <2>4. TypeOK'
    <3>1. limits \in Limits
      BY <1>2 DEF Exec, FrameInv, TypeOK
    <3>2. strayed' \in BOOLEAN
      BY <1>2, Zenon DEF Exec
    <3> QED BY <3>1, <3>2, <2>1, <2>2 DEF FrameInv, TypeOK
  <2>5. RoomToGrow'
    BY <2>1, <2>2, <2>3 DEF RoomToGrow
  <2>6. OutsideOnlyAtMax'
    <3>1. end > size => size = limits.max
      BY <2>1, <2>3
    <3> QED BY <3>1, <2>1, <2>2, <2>3 DEF OutsideOnlyAtMax
  <2> QED BY <2>4, <2>5, <2>6 DEF FrameInv
<1>3. CASE Turn
  BY <1>3, LoopStep
<1>4. CASE Leave \/ UNCHANGED vars
  BY <1>4 DEF Leave, vars, FrameInv, TypeOK, RoomToGrow, OutsideOnlyAtMax
<1> QED BY <1>1, <1>2, <1>3, <1>4 DEF Next

LEMMA FrameInit == Init => FrameInv
<1> SUFFICES ASSUME Init PROVE FrameInv
  OBVIOUS
<1>1. strayed \in BOOLEAN
  BY Zenon DEF Init
<1>2. /\ status = "new" /\ limits = [min |-> 0, max |-> 0]
      /\ size = 0 /\ bottom = 0 /\ sp = 0 /\ reach = 0
  BY DEF Init
<1> QED BY <1>1, <1>2 DEF FrameInv, TypeOK, RoomToGrow, OutsideOnlyAtMax

\* As long as the frame can grow and no instruction has put SP outside it by
\* itself, there is a word of room in it, for all limits with headroom: for the
\* stack instructions the inverted test of _do_step_with_check does no harm.
THEOREM RoomUntilMax ==
    ASSUME Headroom PROVE Spec => []RoomToGrow
<1>1. FrameInv => RoomToGrow
  BY DEF FrameInv
<1> QED BY <1>1, FrameInit, FrameNext, PTL DEF Spec

\* A run that has not strayed leaves its frame only when that has its greatest
\* size, and only for an access behind it.
THEOREM LeavesOnlyAtMax ==
    ASSUME Headroom PROVE Spec => []OutsideOnlyAtMax
<1>1. FrameInv => OutsideOnlyAtMax
  BY DEF FrameInv
<1> QED BY <1>1, FrameInit, FrameNext, PTL DEF Spec

\* The size of the frame stays between the limits init was given.
THEOREM SizeWithinLimits ==
    ASSUME Headroom PROVE Spec => []TypeOK
<1>1. FrameInv => TypeOK
  BY DEF FrameInv
<1> QED BY <1>1, FrameInit, FrameNext, PTL DEF Spec

\* No step of a running program takes memory away from it.
THEOREM KeepsItsMemory ==
    ASSUME Headroom PROVE Spec => NeverShrinks
<1> DEFINE Keeps == status = "running" => size' >= size
<1>1. FrameInv /\ [Next]_vars => [Keeps]_vars
  <2> SUFFICES ASSUME FrameInv, [Next]_vars, status = "running" PROVE size' >= size
    OBVIOUS
  <2>1. size \in Nat /\ limits.max \in Nat /\ size <= limits.max
    BY NumberFacts
  <2>2. CASE Turn
    <3>1. \/ size' = size
          \/ size' = IF 2 * size < limits.max THEN 2 * size ELSE limits.max
      BY <2>2 DEF Turn, Push, Reserve, Pop, Fcall, Ret, PopToSp, Other, Stack, Step,
               GrownSize
    <3> QED BY <2>1, <3>1
  <2>3. CASE Leave \/ UNCHANGED vars
    BY <2>1, <2>3 DEF Leave, vars
  <2> QED BY <2>2, <2>3 DEF Next, InitMemory, Exec
<1> QED BY <1>1, FrameInit, FrameNext, PTL DEF Spec, NeverShrinks
=============================================================================
