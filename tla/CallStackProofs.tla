-------------------------- MODULE CallStackProofs --------------------------
(***************************************************************************)
(* Proofs about CallStack, for every program (functions, call sites, sizes)*)
(* and every stack size.  The inductive invariant is TypeOK /\ CallInv: a  *)
(* return reads the link at sp - Word, and that this is the link of the    *)
(* innermost call, and of no other, needs the whole layout of the frames.  *)
(***************************************************************************)
EXTENDS CallStack, SequenceTheorems, TLAPS

CallStackInv == TypeOK /\ CallInv

\* A sequence without its last element.
LEMMA LastDropped ==
    ASSUME NEW S, NEW s \in Seq(S), s # <<>>, NEW t, t = SubSeq(s, 1, Len(s) - 1)
    PROVE  /\ t \in Seq(S) /\ Len(t) = Len(s) - 1
           /\ \A i \in 1 .. Len(t) : t[i] = s[i]
<1> DEFINE n == Len(s)
<1>1. \A i \in 1 .. n - 1 : s[i] \in S
  OBVIOUS
<1>2. n \in Nat /\ n # 0 /\ 1 \in Int /\ n - 1 \in Int
  OBVIOUS
<1>3. /\ t \in Seq(S)
      /\ Len(t) = IF 1 <= n - 1 THEN n - 1 - 1 + 1 ELSE 0
      /\ \A i \in 1 .. n - 1 - 1 + 1 : t[i] = s[1 + i - 1]
  BY <1>1, <1>2, SubSeqProperties
<1> HIDE DEF n
<1>4. Len(t) = n - 1
  BY <1>2, <1>3
<1>5. ASSUME NEW i \in 1 .. n - 1 PROVE t[i] = s[i]
  <2>1. i \in 1 .. n - 1 - 1 + 1 /\ 1 + i - 1 = i
    BY <1>2
  <2> QED BY <2>1, <1>3
<1> QED BY <1>3, <1>4, <1>5 DEF n

\* A write leaves alone every word it does not overlap.
LEMMA ClobberKeeps ==
    ASSUME NEW mem \in [Addresses -> Links], NEW a \in Int, NEW n \in Nat
    PROVE  /\ Clobber(mem, a, n) \in [Addresses -> Links]
           /\ \A x \in Addresses : x + Word <= a \/ x >= a + n
                  => Clobber(mem, a, n)[x] = mem[x]
  BY CallStackConstants DEF Clobber, Links, Addresses

\* fcall's word is readable where it was written, and spoils nothing else.
LEMMA SaveLinkKeeps ==
    ASSUME NEW mem \in [Addresses -> Links], NEW a \in Addresses, NEW link \in Links
    PROVE  /\ SaveLink(mem, a, link) \in [Addresses -> Links]
           /\ SaveLink(mem, a, link)[a] = link
           /\ \A x \in Addresses : x + Word <= a
                  => SaveLink(mem, a, link)[x] = mem[x]
<1> DEFINE spoilt == Clobber(mem, a, Word)
<1>1. /\ spoilt \in [Addresses -> Links]
      /\ \A x \in Addresses : x + Word <= a => spoilt[x] = mem[x]
  <2>1. a \in Int /\ Word \in Nat
    BY CallStackConstants DEF Addresses
  <2> QED BY <2>1, ClobberKeeps
<1>2. SaveLink(mem, a, link) = [spoilt EXCEPT ![a] = link]
  BY DEF SaveLink
<1> HIDE DEF spoilt
<1>3. \A x \in Addresses : x + Word <= a => x # a
  BY CallStackConstants DEF Addresses
<1> QED BY <1>1, <1>2, <1>3

\* What the invariant says of the innermost frame, in the form the actions use.
LEMMA InnermostFacts ==
    ASSUME CallStackInv
    PROVE  /\ Len(frames) \in Nat
           /\ InCall <=> Len(frames) # 0
           /\ \A i \in Depths : frames[i] \in Frame
           /\ InCall => Len(frames) \in Depths
           /\ Floor = FloorUnder(Len(frames) + 1)
           /\ Floor \in Nat
           /\ \A i \in Depths : frames[i].base <= Floor
<1> USE DEF CallStackInv, TypeOK
<1>1. Len(frames) \in Nat /\ (InCall <=> Len(frames) # 0)
  BY DEF InCall
<1>2. \A i \in Depths : frames[i] \in Frame
  BY DEF Depths
<1>3. InCall => Len(frames) \in Depths
  BY <1>1 DEF Depths
<1>4. Floor = FloorUnder(Len(frames) + 1)
  BY <1>1 DEF Floor, FloorUnder, Innermost
<1>5. Floor \in Nat
  BY <1>1, <1>2, <1>3 DEF Floor, Innermost, Frame
<1>6. ASSUME NEW i \in Depths PROVE frames[i].base <= Floor
  <2>1. InCall /\ Len(frames) \in Depths /\ i <= Len(frames) /\ i \in Int
    BY <1>1, <1>3 DEF Depths
  <2>2. CASE i = Len(frames)
    BY <2>1, <2>2, <1>2 DEF Floor, Innermost, Frame
  <2>3. CASE i < Len(frames)
    <3>1. frames[i].base <= frames[Len(frames)].low
      BY <2>1, <2>3 DEF CallInv, FramesNested
    <3>2. frames[Len(frames)].low + ArgSize[Callee[frames[Len(frames)].ret]] + Word
             = frames[Len(frames)].base
      BY <2>1 DEF CallInv, FramesNested
    <3>3. frames[i].base \in Nat /\ frames[Len(frames)] \in Frame
      BY <1>2, <2>1 DEF Frame
    <3>4. ArgSize[Callee[frames[Len(frames)].ret]] \in Nat
      BY <3>3, CallStackConstants DEF Frame
    <3>5. /\ Word \in Nat
          /\ frames[Len(frames)].low \in Nat
          /\ frames[Len(frames)].base \in Nat
      BY <3>3, CallStackConstants DEF Frame
    <3>6. Floor = frames[Len(frames)].base
      BY <2>1 DEF Floor, Innermost
    <3> QED BY <3>1, <3>2, <3>3, <3>4, <3>5, <3>6
  <2> QED BY <2>1, <2>2, <2>3, <1>1
<1> QED BY <1>1, <1>2, <1>3, <1>4, <1>5, <1>6

\* Every link is a whole word inside the followed stack, below its frame's base.
LEMMA LinkAddresses ==
    ASSUME CallStackInv, NEW i \in Depths
    PROVE  /\ frames[i].base \in Nat
           /\ frames[i].low \in Nat
           /\ frames[i].ret \in Sites
           /\ frames[i].base - Word \in Addresses
           /\ frames[i].low <= frames[i].base - Word
           /\ frames[i].base <= sp
<1>1. frames[i] \in Frame
  BY InnermostFacts
<1>2. /\ frames[i].base \in Nat /\ frames[i].low \in Nat /\ frames[i].ret \in Sites
  BY <1>1 DEF Frame
<1>3. /\ Word \in Nat /\ StackLimit \in Nat
      /\ ArgSize[Callee[frames[i].ret]] \in Nat
      /\ sp \in Int /\ sp <= StackLimit
  BY <1>2, CallStackConstants DEF CallStackInv, TypeOK, Addresses
<1>4. /\ frames[i].low + ArgSize[Callee[frames[i].ret]] + Word = frames[i].base
      /\ frames[i].base <= sp
  BY DEF CallStackInv, CallInv, FramesNested
<1> QED BY <1>2, <1>3, <1>4 DEF Addresses

\* A step that neither calls nor returns keeps the invariant if the stack top
\* stays above the floor and the links of the calls in progress are kept.
LEMMA SameFrames ==
    ASSUME CallStackInv,
           UNCHANGED <<ip, bp, runs, frames, outer>>,
           status' \in {"idle", "running", "ended", "thrown", "lost"},
           sp' \in Addresses,
           saved' \in [Addresses -> Links],
           hidden' \in Nat,
           Floor + hidden' <= sp',
           hidden' # 0 => hidden' \in VarSizes[Current],
           \A i \in Depths : saved'[frames[i].base - Word] = saved[frames[i].base - Word]
    PROVE  CallStackInv'
<1>1. TypeOK'
  BY DEF CallStackInv, TypeOK
<1>2. FramesNested'
  <2>1. \A i \in Depths : frames[i].base <= sp'
    BY InnermostFacts, LinkAddresses DEF Addresses
  <2> QED BY <2>1 DEF CallStackInv, CallInv, FramesNested, Depths, FloorUnder,
                      Floor, Innermost, InCall
<1>3. LinksIntact'
  BY DEF CallStackInv, CallInv, LinksIntact, Depths, LinkUnder
<1>4. BpIsInnermost' /\ RunsInnermost' /\ HiddenByVariables'
  BY DEF CallStackInv, CallInv, BpIsInnermost, LinkUnder, RunsInnermost, CallerOf,
         Current, Depths, HiddenByVariables
<1> QED BY <1>1, <1>2, <1>3, <1>4 DEF CallStackInv, CallInv

\* The steps that only stop the machine.
LEMMA StopStep ==
    ASSUME CallStackInv, RetThrows \/ RetLost \/ Halt \/ FallOff \/ Throw
    PROVE  CallStackInv'
<1>1. /\ UNCHANGED <<ip, bp, sp, saved, runs, hidden, frames, outer>>
      /\ status' \in {"idle", "running", "ended", "thrown", "lost"}
  BY DEF RetThrows, RetLost, Halt, FallOff, Throw
<1>2. Floor + hidden <= sp /\ (hidden # 0 => hidden \in VarSizes[Current])
  BY DEF CallStackInv, CallInv, FramesNested, HiddenByVariables
<1> QED BY <1>1, <1>2, SameFrames DEF CallStackInv, TypeOK

LEMMA PushStep ==
    ASSUME CallStackInv, NEW n \in Sizes, Push(n)
    PROVE  CallStackInv'
<1>1. /\ n \in Nat /\ sp \in Int /\ hidden \in Nat /\ StackLimit \in Nat
      /\ 0 <= sp /\ saved \in [Addresses -> Links]
  BY CallStackConstants DEF CallStackInv, TypeOK, Addresses
<1>2. /\ UNCHANGED <<ip, bp, runs, hidden, frames, outer>>
      /\ status' = status /\ sp' = sp + n /\ sp' <= StackLimit
      /\ saved' = Clobber(saved, sp, n)
  BY DEF Push
<1>3. /\ saved' \in [Addresses -> Links]
      /\ \A x \in Addresses : x + Word <= sp \/ x >= sp + n => saved'[x] = saved[x]
  BY <1>1, <1>2, ClobberKeeps
<1>4. \A i \in Depths : saved'[frames[i].base - Word] = saved[frames[i].base - Word]
  BY <1>1, <1>3, LinkAddresses, CallStackConstants
<1>5. /\ Floor \in Nat /\ Floor + hidden <= sp
      /\ hidden # 0 => hidden \in VarSizes[Current]
  BY InnermostFacts DEF CallStackInv, CallInv, FramesNested, HiddenByVariables
<1>6. sp' \in Addresses /\ Floor + hidden' <= sp'
  BY <1>1, <1>2, <1>5 DEF Addresses
<1> QED BY <1>1, <1>2, <1>3, <1>4, <1>5, <1>6, SameFrames DEF CallStackInv, TypeOK

LEMMA ReserveStep ==
    ASSUME CallStackInv, NEW n \in Nat, Reserve(n)
    PROVE  CallStackInv'
<1>1. /\ sp \in Int /\ hidden \in Nat /\ StackLimit \in Nat /\ 0 <= sp
  BY CallStackConstants DEF CallStackInv, TypeOK, Addresses
<1>2. /\ UNCHANGED <<ip, bp, saved, runs, hidden, frames, outer>>
      /\ status' = status /\ sp' = sp + n /\ sp' <= StackLimit
  BY DEF Reserve
<1>3. /\ Floor \in Nat /\ Floor + hidden <= sp
      /\ hidden # 0 => hidden \in VarSizes[Current]
  BY InnermostFacts DEF CallStackInv, CallInv, FramesNested, HiddenByVariables
<1>4. sp' \in Addresses /\ Floor + hidden' <= sp'
  BY <1>1, <1>2, <1>3 DEF Addresses
<1> QED BY <1>1, <1>2, <1>3, <1>4, SameFrames DEF CallStackInv, TypeOK

LEMMA VariableStep ==
    ASSUME CallStackInv, NEW f \in Funcs, NEW n \in VarSizes[f], Variable(n)
    PROVE  CallStackInv'
<1>1. /\ n \in Nat /\ sp \in Int /\ StackLimit \in Nat /\ 0 <= sp
  BY CallStackConstants DEF CallStackInv, TypeOK, Addresses
<1>2. /\ UNCHANGED <<ip, bp, saved, runs, frames, outer>>
      /\ status' = status /\ sp' = sp + n /\ sp' <= StackLimit
      /\ hidden = 0 /\ hidden' = n /\ n \in VarSizes[Current]
  BY DEF Variable
<1>3. Floor \in Nat /\ Floor + hidden <= sp
  BY InnermostFacts DEF CallStackInv, CallInv, FramesNested
<1>4. sp' \in Addresses /\ Floor + hidden' <= sp'
  BY <1>1, <1>2, <1>3 DEF Addresses
<1> QED BY <1>1, <1>2, <1>3, <1>4, SameFrames DEF CallStackInv, TypeOK

LEMMA PopStep ==
    ASSUME CallStackInv, NEW n \in Sizes, Pop(n)
    PROVE  CallStackInv'
<1>1. /\ n \in Nat /\ sp \in Int /\ hidden \in Nat /\ StackLimit \in Nat
      /\ sp <= StackLimit
  BY CallStackConstants DEF CallStackInv, TypeOK, Addresses
<1>2. /\ UNCHANGED <<ip, bp, saved, runs, hidden, frames, outer>>
      /\ status' = status /\ sp' = sp - n /\ sp - hidden - n >= Floor
  BY DEF Pop, Visible
<1>3. /\ Floor \in Nat
      /\ hidden # 0 => hidden \in VarSizes[Current]
  BY InnermostFacts DEF CallStackInv, CallInv, HiddenByVariables
<1>4. sp' \in Addresses /\ Floor + hidden' <= sp'
  BY <1>1, <1>2, <1>3 DEF Addresses
<1> QED BY <1>1, <1>2, <1>3, <1>4, SameFrames DEF CallStackInv, TypeOK

\* A store reaches the function's own bytes, above every link, or its
\* arguments, between the link of its call and the frames below.
LEMMA StoreStep ==
    ASSUME CallStackInv, NEW a \in Addresses, NEW n \in Sizes, Store(a, n)
    PROVE  CallStackInv'
<1>1. /\ n \in Nat /\ a \in Int /\ sp \in Int /\ hidden \in Nat /\ Word \in Nat
      /\ saved \in [Addresses -> Links]
  BY CallStackConstants DEF CallStackInv, TypeOK, Addresses
<1>2. /\ UNCHANGED <<ip, bp, sp, runs, hidden, frames, outer>>
      /\ status' = status
      /\ saved' = Clobber(saved, a, n)
      /\ \/ a >= Floor /\ a + n <= sp
         \/ InCall /\ a >= Innermost.low /\ a + n <= Innermost.base - Word
  BY DEF Store
<1>3. /\ saved' \in [Addresses -> Links]
      /\ \A x \in Addresses : x + Word <= a \/ x >= a + n => saved'[x] = saved[x]
  BY <1>1, <1>2, ClobberKeeps
<1>4. ASSUME NEW i \in Depths
      PROVE  saved'[frames[i].base - Word] = saved[frames[i].base - Word]
  <2>1. /\ frames[i].base \in Nat /\ frames[i].base - Word \in Addresses
        /\ frames[i].base <= Floor /\ Floor \in Nat
    BY LinkAddresses, InnermostFacts
  <2>2. CASE a >= Floor
    BY <2>1, <2>2, <1>1, <1>3
  <2>3. CASE InCall /\ a >= Innermost.low /\ a + n <= Innermost.base - Word
    <3>1. /\ Len(frames) \in Depths /\ Len(frames) \in Nat
          /\ i \in Int /\ i <= Len(frames) /\ Innermost = frames[Len(frames)]
      BY <2>3, InnermostFacts DEF Depths, Innermost
    <3>2. CASE i = Len(frames)
      BY <3>1, <3>2, <2>1, <2>3, <1>1, <1>3
    <3>3. CASE i < Len(frames)
      <4>1. frames[i].base <= Innermost.low /\ Innermost.low \in Nat
        BY <3>1, <3>3, LinkAddresses DEF CallStackInv, CallInv, FramesNested
      <4> QED BY <4>1, <2>1, <2>3, <1>1, <1>3
    <3> QED BY <3>1, <3>2, <3>3
  <2> QED BY <2>2, <2>3, <1>2
<1>5. /\ Floor + hidden <= sp
      /\ hidden # 0 => hidden \in VarSizes[Current]
  BY DEF CallStackInv, CallInv, FramesNested, HiddenByVariables
<1> QED BY <1>1, <1>2, <1>3, <1>4, <1>5, SameFrames DEF CallStackInv, TypeOK

LEMMA ExecStep ==
    ASSUME CallStackInv, Exec
    PROVE  CallStackInv'
<1>1. /\ status' = "running" /\ ip' = Main /\ sp' = 0 /\ hidden' = 0
      /\ frames' = <<>> /\ outer' = bp /\ bp' = bp /\ saved' = saved
      /\ runs < MaxRuns /\ runs' = runs + 1
  BY DEF Exec
<1>2. TypeOK'
  <2>1. runs' \in 0 .. MaxRuns /\ 0 \in Addresses /\ Main \in Funcs
    BY <1>1, CallStackConstants DEF CallStackInv, TypeOK, Addresses
  <2> QED BY <1>1, <2>1 DEF CallStackInv, TypeOK
<1>3. Len(frames') = 0 /\ Depths' = {}
  BY <1>1 DEF Depths
<1>4. /\ Floor' = 0 /\ Current' = Main
      /\ LinkUnder(Len(frames) + 1)' = bp /\ CallerOf(Len(frames) + 1)' = Main
  BY <1>1, <1>3, CallStackConstants DEF Floor, InCall, Current, LinkUnder, CallerOf
<1>5. CallInv'
  BY <1>1, <1>3, <1>4 DEF CallInv, FramesNested, LinksIntact, BpIsInnermost,
                          RunsInnermost, HiddenByVariables
<1> QED BY <1>2, <1>5 DEF CallStackInv

\* A call puts one frame on top of the others and its link under its base.
LEMMA FcallStep ==
    ASSUME CallStackInv, NEW s \in Sites, Fcall(s)
    PROVE  CallStackInv'
<1> DEFINE n == Len(frames)
           new == [ret |-> s, low |-> sp - ArgSize[Callee[s]],
                   base |-> sp + Word, hidden |-> hidden]
<1>1. /\ sp \in Int /\ 0 <= sp /\ sp + Word <= StackLimit /\ StackLimit \in Nat
      /\ Word \in Nat /\ Word > 0 /\ hidden \in Nat
      /\ Callee[s] \in Funcs /\ ArgSize[Callee[s]] \in Nat
      /\ bp \in Links /\ saved \in [Addresses -> Links]
      /\ frames \in Seq(Frame) /\ n \in Nat
  BY CallStackConstants DEF CallStackInv, TypeOK, Addresses, Fcall
<1>2. /\ Owner[s] = Current
      /\ sp - hidden - ArgSize[Callee[s]] >= Floor
      /\ saved' = SaveLink(saved, sp, bp)
      /\ sp' = sp + Word /\ bp' = s /\ ip' = Callee[s] /\ hidden' = 0
      /\ frames' = Append(frames, new)
      /\ UNCHANGED <<status, runs, outer>>
  BY DEF Fcall, Visible
<1>3. Floor \in Nat /\ Floor = FloorUnder(n + 1) /\ Floor + hidden <= new.low
  BY <1>1, <1>2, InnermostFacts
<1>4. new \in Frame
  BY <1>1, <1>3 DEF Frame
<1>5. /\ Len(frames') = n + 1 /\ frames'[n + 1] = new
      /\ \A i \in Depths : frames'[i] = frames[i]
      /\ Depths' = Depths \cup {n + 1}
      /\ \A i \in Depths : i \in Int /\ 1 <= i /\ i <= n
  BY <1>1, <1>2, <1>4 DEF Depths
<1> HIDE DEF new
<1>6. /\ saved' \in [Addresses -> Links]
      /\ saved'[sp] = bp
      /\ \A x \in Addresses : x + Word <= sp => saved'[x] = saved[x]
  <2>1. sp \in Addresses
    BY <1>1 DEF Addresses
  <2> QED BY <2>1, <1>1, <1>2, SaveLinkKeeps
<1>7. TypeOK'
  <2>1. sp' \in Addresses /\ frames' \in Seq(Frame) /\ ip' \in Funcs
    BY <1>1, <1>2, <1>4 DEF Addresses
  <2> QED BY <2>1, <1>2, <1>6 DEF CallStackInv, TypeOK, Links
<1>8. \A i \in Depths' : /\ FloorUnder(i)' = FloorUnder(i)
                         /\ CallerOf(i)' = CallerOf(i)
                         /\ LinkUnder(i)' = LinkUnder(i)
  <2>1. \A i \in Depths' : i = 1 \/ i - 1 \in Depths
    BY <1>1, <1>5 DEF Depths
  <2> QED BY <2>1, <1>2, <1>5 DEF FloorUnder, CallerOf, LinkUnder
<1>9. /\ CallerOf(Len(frames) + 1)' = Callee[s]
      /\ LinkUnder(Len(frames) + 1)' = s
      /\ Floor' = sp + Word
  <2>1. frames'[Len(frames')] = new /\ Len(frames') = n + 1 /\ frames' # <<>>
    BY <1>1, <1>2, <1>4, <1>5
  <2>2. Len(frames') + 1 # 1 /\ (Len(frames') + 1) - 1 = Len(frames')
    BY <2>1, <1>1
  <2>3. new.ret = s /\ new.base = sp + Word
    BY DEF new
  <2> QED BY <2>1, <2>2, <2>3 DEF CallerOf, LinkUnder, Floor, InCall, Innermost
<1>10. FramesNested'
  <2>1. \A i \in Depths :
          /\ frames[i].low + ArgSize[Callee[frames[i].ret]] + Word = frames[i].base
          /\ FloorUnder(i) + frames[i].hidden <= frames[i].low
          /\ frames[i].base <= sp /\ frames[i].base \in Nat
          /\ frames[i].base <= Floor
    BY LinkAddresses, InnermostFacts DEF CallStackInv, CallInv, FramesNested
  <2>2. ASSUME NEW i \in Depths'
        PROVE  /\ frames'[i].low + ArgSize[Callee[frames'[i].ret]] + Word = frames'[i].base
               /\ FloorUnder(i)' + frames'[i].hidden <= frames'[i].low
               /\ frames'[i].base <= sp'
    <3>1. CASE i \in Depths
      BY <3>1, <2>1, <1>1, <1>2, <1>5, <1>8
    <3>2. CASE i = n + 1
      BY <3>2, <1>1, <1>2, <1>3, <1>5, <1>8 DEF new
    <3> QED BY <3>1, <3>2, <1>5
  <2>3. ASSUME NEW i \in Depths', NEW j \in Depths', i < j
        PROVE  frames'[i].base <= frames'[j].low
    <3>1. i \in Depths
      BY <2>3, <1>1, <1>5
    <3>2. CASE j \in Depths
      BY <3>1, <3>2, <2>3, <1>5 DEF CallStackInv, CallInv, FramesNested
    <3>3. CASE j = n + 1
      <4>1. new.low \in Nat /\ frames[i].base \in Nat /\ frames[i].base <= Floor
        BY <3>1, <2>1, <1>4 DEF Frame
      <4>2. frames[i].base <= new.low
        BY <4>1, <1>1, <1>3
      <4> QED BY <3>1, <3>3, <4>2, <1>5
    <3> QED BY <3>2, <3>3, <1>5
  <2>4. Floor' + hidden' <= sp'
    BY <1>1, <1>2, <1>9
  <2> QED BY <2>2, <2>3, <2>4 DEF FramesNested
<1>11. LinksIntact'
  <2>1. ASSUME NEW i \in Depths' PROVE saved'[frames'[i].base - Word] = LinkUnder(i)'
    <3>1. CASE i \in Depths
      <4>1. /\ frames[i].base \in Nat /\ frames[i].base - Word \in Addresses
            /\ frames[i].base <= sp
            /\ saved[frames[i].base - Word] = LinkUnder(i)
        BY <3>1, LinkAddresses DEF CallStackInv, CallInv, LinksIntact
      <4> QED BY <3>1, <4>1, <1>1, <1>5, <1>6, <1>8
    <3>2. CASE i = n + 1
      <4>1. frames'[i].base - Word = sp
        BY <3>2, <1>1, <1>5 DEF new
      <4>2. LinkUnder(i) = bp
        BY <3>2 DEF CallStackInv, CallInv, BpIsInnermost
      <4> QED BY <4>1, <4>2, <1>6, <1>8
    <3> QED BY <3>1, <3>2, <1>5
  <2> QED BY <2>1 DEF LinksIntact
<1>12. BpIsInnermost'
  BY <1>2, <1>9 DEF BpIsInnermost
<1>13. RunsInnermost'
  <2>1. Current' = Callee[s]
    BY <1>1, <1>2 DEF Current
  <2>2. Current' = CallerOf(Len(frames) + 1)'
    BY <2>1, <1>9
  <2>3. ASSUME NEW i \in Depths' PROVE Owner[frames'[i].ret] = CallerOf(i)'
    <3>1. CASE i \in Depths
      BY <3>1, <1>5, <1>8 DEF CallStackInv, CallInv, RunsInnermost
    <3>2. CASE i = n + 1
      BY <3>2, <1>2, <1>5, <1>8 DEF new, CallStackInv, CallInv, RunsInnermost
    <3> QED BY <3>1, <3>2, <1>5
  <2> QED BY <2>2, <2>3 DEF RunsInnermost
<1>14. HiddenByVariables'
  <2>1. ASSUME NEW i \in Depths', frames'[i].hidden # 0
        PROVE  frames'[i].hidden \in VarSizes[Owner[frames'[i].ret]]
    <3>1. CASE i \in Depths
      BY <3>1, <2>1, <1>5 DEF CallStackInv, CallInv, HiddenByVariables
    <3>2. CASE i = n + 1
      BY <3>2, <2>1, <1>2, <1>5 DEF new, CallStackInv, CallInv, HiddenByVariables
    <3> QED BY <3>1, <3>2, <1>5
  <2> QED BY <2>1, <1>2 DEF HiddenByVariables
<1> QED BY <1>7, <1>10, <1>11, <1>12, <1>13, <1>14 DEF CallStackInv, CallInv

\* What ret computes for a well translated program, whichever way it was
\* called: the caller's stack top without the arguments, and the caller's link.
LEMMA ReturnFacts ==
    ASSUME CallStackInv, WellTranslated, Ret
    PROVE  /\ Len(frames) \in Depths
           /\ Innermost \in Frame
           /\ ip' = Innermost.ret
           /\ sp' = Innermost.low
           /\ bp' = LinkUnder(Len(frames))
<1> DEFINE n == Len(frames)
           args == HeaderArgs(Callee[bp])
<1>1. /\ n \in Depths /\ n \in Nat /\ InCall /\ Innermost = frames[n]
      /\ Innermost \in Frame
  BY InnermostFacts DEF Ret, Innermost
<1>2. bp = Innermost.ret /\ bp \in Sites
  BY <1>1, CallStackConstants DEF CallStackInv, CallInv, BpIsInnermost, LinkUnder, Depths, Frame
<1>3. Current = Callee[bp] /\ VarSizes[Callee[bp]] = {}
  BY <1>1, <1>2 DEF CallStackInv, CallInv, RunsInnermost, CallerOf, WellTranslated, Depths
<1>4. hidden = 0
  BY <1>3 DEF CallStackInv, CallInv, HiddenByVariables
<1>5. sp \in Int /\ Word \in Nat /\ ArgSize[Callee[bp]] \in Nat
  BY <1>2, CallStackConstants DEF CallStackInv, TypeOK, Addresses
<1>6. sp = Innermost.base
  BY <1>1, <1>4, <1>5 DEF Ret, Unwound, Visible, Floor
<1>7. args = ArgSize[Callee[bp]]
  BY <1>2 DEF HeaderArgs, WellTranslated
<1>8. /\ Innermost.low + ArgSize[Callee[bp]] + Word = Innermost.base
      /\ saved[Innermost.base - Word] = LinkUnder(n)
      /\ Innermost.low \in Nat /\ Innermost.base \in Nat
  BY <1>1, <1>2, LinkAddresses DEF CallStackInv, CallInv, FramesNested, LinksIntact
<1>9. sp' = Dropped(args) /\ ip' = bp /\ bp' = saved[Dropped(args) + args]
  BY DEF Ret
<1>10. Dropped(args) = Innermost.low /\ Dropped(args) + args = Innermost.base - Word
  BY <1>5, <1>6, <1>7, <1>8 DEF Dropped
<1> QED BY <1>1, <1>2, <1>8, <1>9, <1>10

LEMMA RetStep ==
    ASSUME CallStackInv, WellTranslated, Ret
    PROVE  CallStackInv'
<1> DEFINE n == Len(frames)
<1>1. /\ n \in Depths /\ n \in Nat /\ Innermost = frames[n] /\ Innermost \in Frame
      /\ ip' = Innermost.ret /\ sp' = Innermost.low /\ bp' = LinkUnder(n)
      /\ frames \in Seq(Frame)
  BY ReturnFacts, InnermostFacts DEF Innermost, CallStackInv, TypeOK
<1>2. /\ frames' = SubSeq(frames, 1, n - 1)
      /\ hidden' = Innermost.hidden
      /\ UNCHANGED <<status, saved, runs, outer>>
  BY DEF Ret
<1>3. /\ frames' \in Seq(Frame)
      /\ Len(frames') = n - 1
      /\ Depths' \subseteq Depths /\ n \notin Depths'
      /\ \A i \in Depths' : frames'[i] = frames[i] /\ i \in Int /\ i < n
  <2>1. /\ frames' \in Seq(Frame) /\ Len(frames') = n - 1
        /\ \A i \in 1 .. Len(frames') : frames'[i] = frames[i]
    <3>1. frames # <<>>
      BY <1>1 DEF Depths
    <3> QED BY <3>1, <1>1, <1>2, LastDropped
  <2> QED BY <1>1, <2>1 DEF Depths
<1>4. \A i \in Depths' : /\ FloorUnder(i)' = FloorUnder(i)
                         /\ CallerOf(i)' = CallerOf(i)
                         /\ LinkUnder(i)' = LinkUnder(i)
  <2>1. \A i \in Depths' : i = 1 \/ i - 1 \in Depths'
    BY <1>1, <1>3 DEF Depths
  <2> QED BY <2>1, <1>2, <1>3 DEF FloorUnder, CallerOf, LinkUnder
<1>5. /\ CallerOf(Len(frames) + 1)' = CallerOf(n)
      /\ LinkUnder(Len(frames) + 1)' = LinkUnder(n)
      /\ Floor' = FloorUnder(n)
  <2>1. CASE n = 1
    <3>1. Len(frames') = 0 /\ frames' = <<>>
      BY <2>1, <1>3
    <3> QED BY <2>1, <3>1, <1>2 DEF CallerOf, LinkUnder, FloorUnder, Floor, InCall
  <2>2. CASE n # 1
    <3>1. /\ Len(frames') = n - 1 /\ n - 1 \in Depths' /\ frames' # <<>>
          /\ Len(frames') + 1 = n
      BY <2>2, <1>1, <1>3 DEF Depths
    <3>2. frames'[n - 1] = frames[n - 1]
      BY <3>1, <1>3
    <3> QED BY <2>2, <3>1, <3>2 DEF CallerOf, LinkUnder, FloorUnder, Floor, InCall, Innermost
  <2> QED BY <2>1, <2>2
<1>6. /\ Innermost.low \in Nat /\ Innermost.ret \in Sites /\ Innermost.hidden \in Nat
      /\ FloorUnder(n) + Innermost.hidden <= Innermost.low
      /\ Innermost.low <= sp /\ sp \in Addresses
  <2>1. /\ Innermost.low <= Innermost.base - Word /\ Innermost.base <= sp
        /\ Innermost.base \in Nat /\ Innermost.low \in Nat
    BY <1>1, LinkAddresses
  <2>2. sp \in Addresses /\ sp \in Int /\ Word \in Nat
    BY CallStackConstants DEF CallStackInv, TypeOK, Addresses
  <2> QED BY <1>1, <2>1, <2>2 DEF CallStackInv, CallInv, FramesNested, Frame
<1>7. TypeOK'
  <2>1. sp' \in Addresses
    BY <1>1, <1>6, CallStackConstants DEF Addresses
  <2>2. bp' \in Links
    <3>1. LinkUnder(n) = saved[Innermost.base - Word] /\ Innermost.base - Word \in Addresses
      BY <1>1, LinkAddresses DEF CallStackInv, CallInv, LinksIntact
    <3> QED BY <1>1, <3>1 DEF CallStackInv, TypeOK
  <2> QED BY <2>1, <2>2, <1>1, <1>2, <1>3, <1>6 DEF CallStackInv, TypeOK
<1>8. FramesNested'
  <2>1. \A i \in Depths' : frames[i].base <= sp'
    BY <1>1, <1>3 DEF CallStackInv, CallInv, FramesNested
  <2>2. Floor' + hidden' <= sp'
    BY <1>1, <1>2, <1>5, <1>6
  <2> QED BY <2>1, <2>2, <1>3, <1>4 DEF CallStackInv, CallInv, FramesNested
<1>9. LinksIntact'
  BY <1>2, <1>3, <1>4 DEF CallStackInv, CallInv, LinksIntact
<1>10. BpIsInnermost'
  BY <1>1, <1>5 DEF BpIsInnermost
<1>11. Current' = Owner[Innermost.ret] /\ Owner[Innermost.ret] = CallerOf(n)
  BY <1>1, <1>6, CallStackConstants DEF Current, CallStackInv, CallInv, RunsInnermost
<1>12. RunsInnermost'
  BY <1>3, <1>4, <1>5, <1>11 DEF CallStackInv, CallInv, RunsInnermost
<1>13. HiddenByVariables'
  BY <1>1, <1>2, <1>3, <1>11 DEF CallStackInv, CallInv, HiddenByVariables
<1> QED BY <1>7, <1>8, <1>9, <1>10, <1>12, <1>13 DEF CallStackInv, CallInv

LEMMA InitInv == Init => CallStackInv
<1> SUFFICES ASSUME Init PROVE CallStackInv
  OBVIOUS
<1>1. /\ frames = <<>> /\ Len(frames) = 0 /\ Depths = {}
  BY DEF Init, Depths
<1>2. TypeOK
  BY CallStackConstants DEF Init, TypeOK, Links, Addresses
<1>3. CallInv
  BY <1>1, CallStackConstants
     DEF Init, CallInv, FramesNested, LinksIntact, BpIsInnermost, RunsInnermost,
         HiddenByVariables, Floor, InCall, Current, CallerOf, LinkUnder
<1> QED BY <1>2, <1>3 DEF CallStackInv

LEMMA NextInv ==
    ASSUME WellTranslated PROVE CallStackInv /\ [Next]_vars => CallStackInv'
<1> SUFFICES ASSUME CallStackInv, [Next]_vars PROVE CallStackInv'
  OBVIOUS
<1>1. CASE Exec
  BY <1>1, ExecStep
<1>2. CASE \E n \in Sizes : Push(n)
  BY <1>2, PushStep
<1>3. CASE \E n \in Sizes : Reserve(n)
  BY <1>3, ReserveStep, CallStackConstants
<1>4. CASE \E n \in Sizes : Pop(n)
  BY <1>4, PopStep
<1>5. CASE \E f \in Funcs : \E n \in VarSizes[f] : Variable(n)
  BY <1>5, VariableStep
<1>6. CASE \E a \in Addresses, n \in Sizes : Store(a, n)
  BY <1>6, StoreStep
<1>7. CASE \E s \in Sites : Fcall(s)
  BY <1>7, FcallStep
<1>8. CASE Ret
  BY <1>8, RetStep
<1>9. CASE RetThrows \/ RetLost \/ Halt \/ FallOff \/ Throw
  BY <1>9, StopStep
<1>10. CASE UNCHANGED vars
  BY <1>10 DEF vars, CallStackInv, TypeOK, CallInv, FramesNested, LinksIntact,
     BpIsInnermost, RunsInnermost, HiddenByVariables, Depths, FloorUnder, CallerOf,
     LinkUnder, Floor, InCall, Innermost, Current
<1> QED
  BY <1>1, <1>2, <1>3, <1>4, <1>5, <1>6, <1>7, <1>8, <1>9, <1>10 DEF Next

-----------------------------------------------------------------------------
\* The protocol of calls holds in every state of every well translated
\* program: links, frames and BP agree with the calls in progress.
THEOREM CallsNest ==
    ASSUME WellTranslated PROVE Spec => [](TypeOK /\ CallInv)
<1>1. Init => CallStackInv
  BY InitInv
<1>2. CallStackInv /\ [Next]_vars => CallStackInv'
  BY NextInv
<1>3. CallStackInv => TypeOK /\ CallInv
  BY DEF CallStackInv
<1> QED BY <1>1, <1>2, <1>3, PTL DEF Spec

\* Registers, stack and frames keep their types and SP never leaves the stack.
THEOREM TypeCorrect ==
    ASSUME WellTranslated PROVE Spec => []TypeOK
  BY CallsNest, PTL

\* A return (the only step of a running program that drops a frame) leaves
\* SP where the caller had it before it pushed the arguments.
THEOREM ReturnsClearArguments ==
    ASSUME WellTranslated PROVE Spec => ArgumentsCleared
<1> DEFINE Cleared == Len(frames') < Len(frames) /\ status' = status
                         => sp' = Innermost.low
<1>1. CallStackInv /\ [Next]_vars => [Cleared]_vars
  <2> SUFFICES ASSUME CallStackInv, [Next]_vars, Len(frames') < Len(frames),
                      status' = status
               PROVE  sp' = Innermost.low
    OBVIOUS
  <2>1. CASE Ret
    BY <2>1, ReturnFacts
  <2>2. CASE \E s \in Sites : Fcall(s)
    <3>1. frames \in Seq(Frame) /\ Len(frames) \in Nat
      BY InnermostFacts DEF CallStackInv, TypeOK
    <3>2. PICK s \in Sites : Fcall(s)
      BY <2>2
    <3>3. /\ frames' \in Seq(Frame)
          /\ \E new : frames' = Append(frames, new)
      <4>1. CallStackInv'
        BY <3>2, FcallStep
      <4> QED BY <3>2, <4>1 DEF Fcall, CallStackInv, TypeOK
    <3>4. Len(frames') = Len(frames) + 1
      BY <3>2 DEF Fcall
    <3> QED BY <3>1, <3>4
  <2>3. CASE frames' = frames
    BY <2>3, InnermostFacts
  <2>4. CASE Exec
    BY <2>4 DEF Exec
  <2> QED
    BY <2>1, <2>2, <2>3, <2>4
       DEF Next, vars, Push, Reserve, Pop, Variable, Store, RetThrows, RetLost, Halt,
           FallOff, Throw
<1>2. Spec => []CallStackInv
  BY CallsNest, PTL DEF CallStackInv
<1> QED BY <1>1, <1>2, PTL DEF Spec, ArgumentsCleared

-----------------------------------------------------------------------------
(* The machine implements Calls. *)

FrameSeen == [ret : Sites, low : Nat, base : Nat]
View == [i \in Depths |-> Seen(frames[i])]

\* The frames Calls sees are as many and as nested as the machine's.
LEMMA ViewFacts ==
    ASSUME CallStackInv
    PROVE  /\ View \in Seq(FrameSeen)
           /\ Len(View) = Len(frames)
           /\ (View # <<>>) <=> InCall
           /\ Promise!InCall <=> InCall
           /\ Promise!Floor = Floor
           /\ InCall => Promise!Innermost = Seen(Innermost)
<1>1. /\ Len(frames) \in Nat /\ (InCall <=> Len(frames) # 0)
      /\ \A i \in Depths : frames[i] \in Frame
      /\ InCall => Len(frames) \in Depths
  BY InnermostFacts
<1>2. \A i \in Depths : Seen(frames[i]) \in FrameSeen
  BY <1>1 DEF Seen, Frame, FrameSeen
<1>3. View \in Seq(FrameSeen) /\ Len(View) = Len(frames)
  BY <1>1, <1>2 DEF View, Depths
<1>4. (View # <<>>) <=> InCall
  BY <1>1, <1>3
<1>5. Promise!InCall <=> InCall
  BY <1>4 DEF Promise!InCall, View
<1>6. InCall => Promise!Innermost = Seen(Innermost)
  BY <1>1, <1>3 DEF Promise!Innermost, View, Innermost
<1>7. Promise!Floor = Floor
  BY <1>5, <1>6 DEF Promise!Floor, Floor, Seen
<1> QED BY <1>3, <1>4, <1>5, <1>6, <1>7

\* The steps that leave the calls in progress alone are steps of a body.
LEMMA WorkSimulates ==
    ASSUME CallStackInv, CallStackInv', Running,
           UNCHANGED <<status, ip, frames>>
    PROVE  Promise!Work
<1>1. Floor \in Nat
  BY InnermostFacts
<1>0. Promise!Floor = Floor
  BY ViewFacts
<1>2. ip' \in Funcs \cup Sites /\ sp' \in Addresses /\ hidden' \in Nat
  BY DEF CallStackInv, TypeOK
<1>3. Floor + hidden' <= sp'
  BY DEF CallStackInv, CallInv, FramesNested, Floor, InCall, Innermost
<1>4. sp' \in Int /\ sp' >= Floor
  <2>1. StackLimit \in Nat
    BY CallStackConstants
  <2>2. sp' \in Int
    BY <2>1, <1>2 DEF Addresses
  <2>3. \A f \in Nat, h \in Nat, p \in Int : f + h <= p => p >= f
    OBVIOUS
  <2>4. hidden' \in Nat
    BY <1>2
  <2>5. sp' >= Floor
    BY <2>2, <2>3, <2>4, <1>1, <1>3
  <2> QED BY <2>2, <2>5
<1> QED BY <1>0, <1>2, <1>4 DEF Promise!Work, Running, Depths

LEMMA FcallSimulates ==
    ASSUME CallStackInv, NEW s \in Sites, Fcall(s)
    PROVE  Promise!Call(Callee[s], s)
<1> DEFINE n == Len(frames)
           new == [ret |-> s, low |-> sp - ArgSize[Callee[s]],
                   base |-> sp + Word, hidden |-> hidden]
<1>1. /\ Running /\ status' = status /\ sp' = sp + Word /\ ip' = Callee[s]
      /\ sp - hidden - ArgSize[Callee[s]] >= Floor
      /\ frames' = Append(frames, new)
  BY DEF Fcall, Visible
<1>2. /\ sp \in Int /\ hidden \in Nat /\ Callee[s] \in Funcs /\ Floor \in Nat
      /\ ArgSize[Callee[s]] \in Nat /\ n \in Nat /\ frames \in Seq(Frame)
  BY CallStackConstants, InnermostFacts DEF CallStackInv, TypeOK, Addresses
<1>3. sp - ArgSize[Callee[s]] >= Promise!Floor
  BY <1>1, <1>2, ViewFacts
<1>0. sp - ArgSize[Callee[s]] \in Nat /\ sp + Word \in Nat
  BY <1>1, <1>2, CallStackConstants
<1> HIDE DEF new
<1>4. /\ Depths' = 1 .. n + 1 /\ frames'[n + 1] = new
      /\ \A i \in 1 .. n : frames'[i] = frames[i]
  BY <1>1, <1>2 DEF Depths
<1>6. Seen(new) = [ret |-> s, low |-> sp - ArgSize[Callee[s]], base |-> sp + Word]
  BY DEF Seen, new
<1>7. Seen(new) \in FrameSeen
  BY <1>0, <1>6 DEF FrameSeen
<1>5. View' = Append(View, Seen(new))
  <2> DEFINE longer == Append(View, Seen(new))
  <2>1. View' = [i \in 1 .. n + 1 |-> Seen(frames'[i])]
    BY <1>4 DEF View
  <2>2. View \in Seq(FrameSeen) /\ Len(View) = n
    BY ViewFacts
  <2>3. /\ longer \in Seq(FrameSeen) /\ Len(longer) = n + 1
        /\ \A i \in 1 .. n : longer[i] = View[i]
        /\ longer[n + 1] = Seen(new)
    BY <2>2, <1>7, AppendProperties
  <2> HIDE DEF longer
  <2>4. longer = [i \in 1 .. n + 1 |-> longer[i]]
    BY <2>3
  <2>5. \A i \in 1 .. n + 1 : longer[i] = Seen(frames'[i])
    <3> SUFFICES ASSUME NEW i \in 1 .. n + 1 PROVE longer[i] = Seen(frames'[i])
      OBVIOUS
    <3>1. CASE i = n + 1
      BY <3>1, <1>4, <2>3
    <3>2. CASE i # n + 1
      <4>1. i \in 1 .. n
        BY <3>2, <1>2
      <4> QED BY <4>1, <1>4, <2>3 DEF View, Depths
    <3> QED BY <3>1, <3>2
  <2> QED BY <2>1, <2>4, <2>5 DEF longer
<1> QED BY <1>1, <1>3, <1>5, <1>6 DEF Promise!Call, View, Running

LEMMA RetSimulates ==
    ASSUME CallStackInv, WellTranslated, Ret
    PROVE  Promise!Return
<1> DEFINE n == Len(frames)
<1>1. /\ InCall /\ Running /\ status' = status
      /\ ip' = Innermost.ret /\ sp' = Innermost.low
      /\ frames' = SubSeq(frames, 1, n - 1)
  BY ReturnFacts DEF Ret
<1>2. /\ Promise!InCall
      /\ Promise!Innermost.ret = Innermost.ret /\ Promise!Innermost.low = Innermost.low
  BY <1>1, ViewFacts DEF Seen
<1>3. /\ frames \in Seq(Frame) /\ frames # <<>> /\ n \in Nat
      /\ View \in Seq(FrameSeen) /\ View # <<>>
      /\ Len(View) = n
  BY <1>1, ViewFacts, InnermostFacts DEF CallStackInv, TypeOK, InCall
<1> DEFINE front == SubSeq(View, 1, n - 1)
<1>4. /\ frames' \in Seq(Frame) /\ Len(frames') = n - 1
      /\ \A i \in 1 .. Len(frames') : frames'[i] = frames[i]
  BY <1>1, <1>3, LastDropped
<1>5. /\ front \in Seq(FrameSeen) /\ Len(front) = n - 1
      /\ \A i \in 1 .. Len(front) : front[i] = View[i]
  <2>1. front = SubSeq(View, 1, Len(View) - 1)
    BY <1>3
  <2> HIDE DEF front
  <2> QED BY <2>1, <1>3, LastDropped
<1>6. View' = front
  <2>1. View' = [i \in 1 .. n - 1 |-> Seen(frames'[i])]
    BY <1>4 DEF View, Depths
  <2>2. front = [i \in 1 .. n - 1 |-> front[i]]
    BY <1>5
  <2>3. \A i \in 1 .. n - 1 : front[i] = Seen(frames'[i])
    <3> SUFFICES ASSUME NEW i \in 1 .. n - 1 PROVE front[i] = Seen(frames'[i])
      OBVIOUS
    <3>1. i \in Depths
      BY <1>3 DEF Depths
    <3> QED BY <3>1, <1>4, <1>5 DEF View
  <2> QED BY <2>1, <2>2, <2>3
<1> QED BY <1>1, <1>2, <1>3, <1>6 DEF Promise!Return, View, Running

\* Every step of the machine is a step Calls allows, or none.
LEMMA StepSimulates ==
    ASSUME WellTranslated
    PROVE  CallStackInv /\ CallStackInv' /\ [Next]_vars => [Promise!Next]_(Promise!vars)
<1> SUFFICES ASSUME CallStackInv, CallStackInv', [Next]_vars
             PROVE  Promise!Next \/ UNCHANGED Promise!vars
  BY DEF Promise!vars
<1>1. CASE Exec
  <2>1. /\ ~Running /\ Running' = TRUE /\ ip' \in Funcs \cup Sites /\ sp' = 0
        /\ frames' = <<>>
    BY <1>1, CallStackConstants DEF Exec, Running
  <2>2. View' = <<>>
    BY <2>1 DEF View, Depths
  <2> QED BY <2>1, <2>2 DEF Promise!Next, Promise!Start, View
<1>2. CASE \/ \E n \in Sizes : Push(n) \/ Reserve(n) \/ Pop(n)
           \/ \E f \in Funcs : \E n \in VarSizes[f] : Variable(n)
           \/ \E a \in Addresses, n \in Sizes : Store(a, n)
  <2>1. Running /\ UNCHANGED <<status, ip, frames>>
    BY <1>2 DEF Push, Reserve, Pop, Variable, Store
  <2> QED BY <2>1, WorkSimulates DEF Promise!Next
<1>3. CASE \E s \in Sites : Fcall(s)
  <2>1. PICK s \in Sites : Fcall(s)
    BY <1>3
  <2>2. Callee[s] \in Funcs /\ s \in Funcs \cup Sites
    BY CallStackConstants
  <2> QED BY <2>1, <2>2, FcallSimulates DEF Promise!Next
<1>4. CASE Ret
  BY <1>4, RetSimulates DEF Promise!Next
<1>5. CASE RetThrows \/ RetLost \/ Halt \/ FallOff \/ Throw
  <2>1. /\ Running /\ status' # "running" /\ UNCHANGED <<ip, sp, frames>>
    BY <1>5 DEF RetThrows, RetLost, Halt, FallOff, Throw
  <2> QED BY <2>1 DEF Promise!Next, Promise!Stop, Running, Depths
<1>6. CASE UNCHANGED vars
  BY <1>6 DEF vars, Promise!vars, Running, Depths
<1> QED BY <1>1, <1>2, <1>3, <1>4, <1>5, <1>6 DEF Next

\* The machine implements Calls: calls nest and every return resumes its
\* caller with its arguments gone, for every well translated program.
THEOREM Implements ==
    ASSUME WellTranslated PROVE Spec => KeepsPromise
<1>1. Init => Promise!Init
  <2> SUFFICES ASSUME Init PROVE Promise!Init
    OBVIOUS
  <2>1. /\ frames = <<>> /\ sp = 0 /\ Running = FALSE /\ ip \in Funcs \cup Sites
    BY CallStackConstants DEF Init, Running
  <2>2. View = <<>>
    BY <2>1 DEF View, Depths
  <2> QED BY <2>1, <2>2 DEF Promise!Init, View
<1>2. Spec => []CallStackInv
  BY CallsNest, PTL DEF CallStackInv
<1>3. CallStackInv /\ CallStackInv' /\ [Next]_vars => [Promise!Next]_(Promise!vars)
  BY StepSimulates
<1> QED BY <1>1, <1>2, <1>3, PTL DEF Spec, KeepsPromise, Promise!Spec
=============================================================================
