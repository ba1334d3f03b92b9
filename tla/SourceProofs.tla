---------------------------- MODULE SourceProofs ----------------------------
(***************************************************************************)
(* The scanner and the lexer, for all texts: a range stays inside its line; *)
(* and of every plain text the lexer finds all tokens, and only them.       *)
(*                                                                         *)
(* The argument for the second: the lexer is a walk along the code, whose   *)
(* state after k characters is known from the first k characters alone      *)
(* (Means).  A separator behind a finished word changes nothing, and any    *)
(* two separators do the same.  So the code that was cut out and the text   *)
(* with its comments blanked out lead to one state, line by line (Agrees).  *)
(***************************************************************************)
EXTENDS Source, FiniteSetTheorems, WellFoundedInduction, TLAPS

-----------------------------------------------------------------------------
(* Induction and recursion, as in TranslatorProofs. *)

(***************************************************************************)
(* A set of numbers that holds 0 and the successor of each of its elements *)
(* holds all natural numbers.                                              *)
(***************************************************************************)
LEMMA SetInduction ==
    ASSUME NEW S, 0 \in S, \A n \in Nat : n \in S => n + 1 \in S
    PROVE  Nat \subseteq S
<1> DEFINE T == Nat \ S
           R == {p \in Nat \X Nat : p[1] < p[2]}
<1>1. IsWellFoundedOn(R, Nat)
  BY NatLessThanWellFounded DEF OpToRel
<1>2. SUFFICES ASSUME T # {} PROVE FALSE
  OBVIOUS
<1>3. PICK x \in T : \A y \in T : ~(<<y, x>> \in R)
  <2>1. T \subseteq Nat
    OBVIOUS
  <2> HIDE DEF T, R
  <2> QED BY <1>1, <1>2, <2>1, WFMin
<1>4. x # 0 /\ x \in Nat /\ x - 1 \in Nat
  BY <1>3
<1>5. x - 1 \in T
  BY <1>4, <1>3
<1>6. <<x - 1, x>> \in R
  BY <1>4
<1> QED
  BY <1>3, <1>5, <1>6

-----------------------------------------------------------------------------
\* g is what step makes of base along s, within V.
Runs(g, V, base, step, s) ==
    /\ g \in [0 .. Len(s) -> V]
    /\ g[0] = base
    /\ \A k \in 1 .. Len(s) : g[k] = step[<<g[k - 1], s[k]>>]

(***************************************************************************)
(* Every step that stays in a set can be taken along any sequence.         *)
(***************************************************************************)
LEMMA Recursion ==
    ASSUME NEW E, NEW s \in Seq(E), NEW V, NEW base \in V, NEW step \in [V \X E -> V]
    PROVE  \E g : Runs(g, V, base, step, s)
<1> DEFINE Upto(g, m) == /\ g \in [0 .. m -> V]
                         /\ g[0] = base
                         /\ \A k \in 1 .. m : g[k] = step[<<g[k - 1], s[k]>>]
           S == {m \in Nat : m <= Len(s) => \E g : Upto(g, m)}
<1>1. \E g : Upto(g, 0)
  <2> DEFINE h == [k \in 0 .. 0 |-> base]
  <2>1. h \in [0 .. 0 -> V] /\ h[0] = base
    OBVIOUS
  <2> HIDE DEF h
  <2>2. Upto(h, 0)
    BY <2>1
  <2> QED BY <2>2
<1>2. ASSUME NEW m \in Nat, m + 1 <= Len(s), NEW g, Upto(g, m)
      PROVE  \E h : Upto(h, m + 1)
  <2> DEFINE h == [k \in 0 .. m + 1 |-> IF k = m + 1 THEN step[<<g[m], s[m + 1]>>] ELSE g[k]]
  <2>1. s[m + 1] \in E /\ m \in 0 .. m /\ step[<<g[m], s[m + 1]>>] \in V
    BY <1>2
  <2>2. h \in [0 .. m + 1 -> V]
    BY <2>1, <1>2
  <2>3. h[m + 1] = step[<<g[m], s[m + 1]>>] /\ \A k \in 0 .. m : h[k] = g[k]
    BY <2>1
  <2> HIDE DEF h
  <2>4. Upto(h, m + 1)
    <3>1. h[0] = base
      BY <2>3, <1>2
    <3>2. ASSUME NEW k \in 1 .. m + 1 PROVE h[k] = step[<<h[k - 1], s[k]>>]
      <4>1. CASE k = m + 1
        BY <4>1, <2>3
      <4>2. CASE k \in 1 .. m
        BY <4>2, <2>3, <1>2
      <4> QED BY <4>1, <4>2
    <3> QED BY <2>2, <3>1, <3>2
  <2> QED BY <2>4
<1>3. Len(s) \in S
  <2> HIDE DEF Upto
  <2>1. 0 \in S /\ \A m \in Nat : m \in S => m + 1 \in S
    BY <1>1, <1>2
  <2> HIDE DEF S
  <2> QED BY <2>1, SetInduction
<1> QED
  BY <1>3 DEF Runs

-----------------------------------------------------------------------------
\* What is typed here is the scanner's part of the state.
ScanTypes ==
    /\ given \in Seq(Chars) /\ rest \in Seq(Chars) /\ text \in Seq(Chars)
    /\ i \in 1 .. Len(text) + 1
    /\ line_start_pos \in 1 .. i
    /\ ranges \in Seq([from : Nat, to : Nat])

\* Nothing was scanned while the text still grows.
ReadFirst ==
    status = "reading" => i = 1 /\ line_start_pos = 1 /\ ranges = <<>>

\* line_start_pos is where the line of i begins.
AtLineStart ==
    /\ line_start_pos = 1 \/ text[line_start_pos - 1] = NewLine
    /\ \A m \in line_start_pos .. i - 1 : text[m] # NewLine

ScanInv == ScanTypes /\ ReadFirst /\ AtLineStart /\ WithinLines

-----------------------------------------------------------------------------
LEMMA InitScan == Init => ScanInv
<1> SUFFICES ASSUME Init
             PROVE  ScanInv
  OBVIOUS
<1>1. /\ text = <<>> /\ ranges = <<>> /\ i = 1 /\ line_start_pos = 1
      /\ given \in Seq(Chars)
  BY SourceConstants DEF Init
<1>2. rest \in Seq(Chars)
  <2>1. rest = given \/ rest = <<>>
    BY DEF Init
  <2>2. <<>> \in Seq(Chars)
    OBVIOUS
  <2> QED BY <1>1, <2>1, <2>2
<1>3. text \in Seq(Chars) /\ Len(text) = 0 /\ ranges \in Seq([from : Nat, to : Nat])
  BY <1>1
<1> QED
  BY <1>1, <1>2, <1>3 DEF ScanInv, ScanTypes, ReadFirst, AtLineStart, WithinLines

\* Text that is read, and code that is lexed, leaves the scanner alone.
LEMMA ReadingKeeps ==
    ASSUME ScanInv, ReadLine \/ ReadLast \/ ReadMissing
    PROVE  ScanInv'
<1>1. /\ i = 1 /\ line_start_pos = 1 /\ ranges = <<>>
      /\ UNCHANGED <<i, line_start_pos, comment_flag, ranges, given>>
  BY DEF ScanInv, ReadFirst, ReadLine, ReadLast, ReadMissing, scanning
<1>2. /\ text \in Seq(Chars) /\ rest \in Seq(Chars) /\ given \in Seq(Chars)
  BY DEF ScanInv, ScanTypes
<1>3. text' \in Seq(Chars) /\ rest' \in Seq(Chars)
  <2>1. CASE ReadLine
    <3>1. PICK n \in DOMAIN rest : /\ text' = text \o SubSeq(rest, 1, n)
                                   /\ rest' = SubSeq(rest, n + 1, Len(rest))
      BY <2>1 DEF ReadLine
    <3>2. SubSeq(rest, 1, n) \in Seq(Chars) /\ SubSeq(rest, n + 1, Len(rest)) \in Seq(Chars)
      BY <1>2
    <3> QED BY <1>2, <3>1, <3>2
  <2>2. CASE ReadLast
    <3>1. text' = Append(text \o rest, NewLine) /\ rest' = <<>>
      BY <2>2 DEF ReadLast
    <3>2. text \o rest \in Seq(Chars)
      BY <1>2
    <3>3. NewLine \in Chars
      BY SourceConstants
    <3> QED BY <3>1, <3>2, <3>3
  <2>3. CASE ReadMissing
    <3>1. text' = Append(text, NewLine) /\ rest' = rest
      BY <2>3 DEF ReadMissing
    <3>2. NewLine \in Chars
      BY SourceConstants
    <3> QED BY <1>2, <3>1, <3>2
  <2> QED BY <2>1, <2>2, <2>3
<1> QED
  BY <1>1, <1>2, <1>3
     DEF ScanInv, ScanTypes, ReadFirst, AtLineStart, WithinLines

LEMMA Keeps ==
    ASSUME ScanInv, UNCHANGED <<reading, scanning>>, status # "reading", status' # "reading"
    PROVE  ScanInv'
  BY DEF ScanInv, ScanTypes, ReadFirst, AtLineStart, WithinLines, WithinLine, LeftText,
         reading, scanning

\* The blanks in front of a comment do not go beyond its line: the line in
\* front of it ends with a new line, which is no blank.
LEMMA StaysInLine ==
    ASSUME ScanInv, AtChar, NEW k \in BlanksFrom(i)
    PROVE  k \in line_start_pos .. i
<1>1. /\ i \in Nat /\ line_start_pos \in Nat /\ k \in 1 .. i /\ line_start_pos \in 1 .. i
      /\ \A m \in k .. i - 1 : text[m] \in Blanks
      /\ line_start_pos = 1 \/ text[line_start_pos - 1] = NewLine
  BY DEF ScanInv, ScanTypes, AtLineStart, BlanksFrom
<1>2. CASE k < line_start_pos
  <2>1. line_start_pos - 1 \in k .. i - 1 /\ line_start_pos # 1
    BY <1>1, <1>2
  <2>2. text[line_start_pos - 1] \in Blanks /\ text[line_start_pos - 1] = NewLine
    BY <1>1, <2>1
  <2> QED BY <2>2 DEF Blanks, NewLine
<1> QED BY <1>1, <1>2

\* A range of the current line is one of those WithinLines speaks of.
LEMMA NewRange ==
    ASSUME ScanInv, text' = text,
           NEW r \in [from : Nat, to : Nat], WithinLine(r) \/ LeftText(r),
           ranges' = Append(ranges, r)
    PROVE  WithinLines' /\ ranges' \in Seq([from : Nat, to : Nat])
<1>1. ranges \in Seq([from : Nat, to : Nat])
  BY DEF ScanInv, ScanTypes
<1>2. \A n \in DOMAIN ranges' :
          \/ n \in DOMAIN ranges /\ ranges'[n] = ranges[n]
          \/ ranges'[n] = r
  BY <1>1
<1> QED BY <1>1, <1>2 DEF ScanInv, WithinLines, WithinLine, LeftText

LEMMA CommentKeeps ==
    ASSUME ScanInv, Comment
    PROVE  ScanInv'
<1>1. /\ i \in 1 .. Len(text) /\ i' = i + 1 /\ text' = text /\ text[i] # NewLine
      /\ UNCHANGED <<given, rest, line_start_pos, status>> /\ status # "reading"
      /\ text \in Seq(Chars) /\ line_start_pos \in 1 .. i
  BY DEF ScanInv, ScanTypes, Comment, AtChar, reading, Hash, NewLine
<1>2. PICK end \in CodeEnds(i) :
          ranges' = Append(ranges, [from |-> line_start_pos, to |-> end])
  BY DEF Comment
<1>3. /\ [from |-> line_start_pos, to |-> end] \in [from : Nat, to : Nat]
      /\ \/ WithinLine([from |-> line_start_pos, to |-> end])
         \/ LeftText([from |-> line_start_pos, to |-> end])
  <2>1. CASE end \in BlanksFrom(i)
    <3>1. end \in line_start_pos .. i
      BY <2>1, StaysInLine DEF Comment
    <3> QED BY <1>1, <3>1 DEF ScanInv, AtLineStart, WithinLine
  <2>2. CASE 1 \in BlanksFrom(i) /\ end = Len(text) + 1
    <3>1. 1 \in line_start_pos .. i
      BY <2>2, StaysInLine DEF Comment
    <3> QED BY <1>1, <2>2, <3>1 DEF LeftText
  <2> QED BY <2>1, <2>2 DEF CodeEnds
<1>4. WithinLines' /\ ranges' \in Seq([from : Nat, to : Nat])
  BY <1>1, <1>2, <1>3, NewRange
<1>5. AtLineStart'
  BY <1>1 DEF ScanInv, AtLineStart
<1> QED BY <1>1, <1>4, <1>5 DEF ScanInv, ScanTypes, ReadFirst

LEMMA LineEndKeeps ==
    ASSUME ScanInv, LineEnd
    PROVE  ScanInv'
<1>1. /\ i \in 1 .. Len(text) /\ i' = i + 1 /\ text' = text /\ text[i] = NewLine
      /\ line_start_pos' = i + 1
      /\ UNCHANGED <<given, rest, status>> /\ status # "reading"
      /\ text \in Seq(Chars) /\ line_start_pos \in 1 .. i
  BY DEF ScanInv, ScanTypes, LineEnd, AtChar, reading
<1>2. WithinLines' /\ ranges' \in Seq([from : Nat, to : Nat])
  <2>1. CASE ranges' = ranges
    BY <1>1, <2>1 DEF ScanInv, ScanTypes, WithinLines, WithinLine, LeftText
  <2>2. CASE ranges' = Append(ranges, [from |-> line_start_pos, to |-> i])
    <3>1. /\ [from |-> line_start_pos, to |-> i] \in [from : Nat, to : Nat]
          /\ WithinLine([from |-> line_start_pos, to |-> i])
      BY <1>1 DEF ScanInv, AtLineStart, WithinLine
    <3> QED BY <1>1, <2>2, <3>1, NewRange
  <2> QED BY <2>1, <2>2 DEF LineEnd
<1>3. AtLineStart'
  BY <1>1 DEF AtLineStart
<1> QED BY <1>1, <1>2, <1>3 DEF ScanInv, ScanTypes, ReadFirst

LEMMA SkipKeeps ==
    ASSUME ScanInv, SkipChar
    PROVE  ScanInv'
<1>1. /\ i \in 1 .. Len(text) /\ i' = i + 1 /\ text' = text /\ text[i] # NewLine
      /\ UNCHANGED <<given, rest, line_start_pos, ranges, status>> /\ status # "reading"
      /\ text \in Seq(Chars) /\ line_start_pos \in 1 .. i
  BY DEF ScanInv, ScanTypes, SkipChar, AtChar, reading
<1>2. AtLineStart'
  BY <1>1 DEF ScanInv, AtLineStart
<1> QED
  BY <1>1, <1>2
     DEF ScanInv, ScanTypes, ReadFirst, WithinLines, WithinLine, LeftText

\* Every step of the component keeps the scanner's invariant.
LEMMA NextScan == ScanInv /\ [Next]_vars => ScanInv'
<1> SUFFICES ASSUME ScanInv, [Next]_vars
             PROVE  ScanInv'
  OBVIOUS
<1>1. CASE ReadLine \/ ReadLast \/ ReadMissing
  BY <1>1, ReadingKeeps
<1>2. CASE Comment
  BY <1>2, CommentKeeps
<1>3. CASE LineEnd
  BY <1>3, LineEndKeeps
<1>4. CASE SkipChar
  BY <1>4, SkipKeeps
<1>5. CASE Cut \/ Lengthen \/ Separate \/ Lexed
  <2>1. UNCHANGED <<reading, scanning>> /\ status # "reading" /\ status' # "reading"
    BY <1>5 DEF Cut, Lengthen, Separate, Lexed, AtCode
  <2> QED BY <2>1, Keeps
<1>6. CASE UNCHANGED vars
  BY <1>6
     DEF vars, ScanInv, ScanTypes, ReadFirst, AtLineStart, WithinLines, WithinLine, LeftText
<1> QED BY <1>1, <1>2, <1>3, <1>4, <1>5, <1>6 DEF Next

\* In every text, the ranges of code that format_string finds do not reach
\* into another line, although its walk back over blanks does not check it.
THEOREM RangesStayInLines == Spec => []WithinLines
<1>1. Init => ScanInv
  BY InitScan
<1>2. ScanInv /\ [Next]_vars => ScanInv'
  BY NextScan
<1>3. ScanInv => WithinLines
  BY DEF ScanInv
<1> QED BY <1>1, <1>2, <1>3, PTL DEF Spec

-----------------------------------------------------------------------------
(* What the lexer makes of a text, taken as a walk along the text.         *)

Kinds == {"Id", "Kw", "Number", "Mark"}
Tokens == [type : Kinds, lit : Seq(Chars)]
States == [word : Seq(Chars), tokens : Seq(Tokens), wrong : BOOLEAN]

Begin == [word |-> <<>>, tokens |-> <<>>, wrong |-> FALSE]

WordTokens(w) == IF w = <<>> THEN <<>> ELSE <<WordToken(w)>>
MarkTokens(c) == IF c \in BasicCharacters THEN <<MarkToken(c)>> ELSE <<>>

\* What a character makes of a state: a lexer that goes on after a wrong number
\* and remembers that there was one.
After(st, c) ==
    IF c \in AlphaNumeric
    THEN [word |-> Append(st.word, c), tokens |-> st.tokens, wrong |-> st.wrong]
    ELSE [word   |-> <<>>,
          tokens |-> st.tokens \o WordTokens(st.word) \o MarkTokens(c),
          wrong  |-> st.wrong \/ (st.word # <<>> /\ WrongNumber(st.word))]

Walks == [p \in States \X Chars |-> After(p[1], p[2])]

\* The states after 0, 1, ..., all characters of s.
Walk(s) == CHOOSE g : Runs(g, States, Begin, Walks, s)
End(s) == Walk(s)[Len(s)]

LEMMA AfterType ==
    ASSUME NEW st \in States, NEW c \in Chars
    PROVE  After(st, c) \in States
<1>1. st.word \in Seq(Chars) /\ st.tokens \in Seq(Tokens) /\ st.wrong \in BOOLEAN
  BY DEF States
<1>2. CASE c \in AlphaNumeric
  <2>1. Append(st.word, c) \in Seq(Chars)
    BY <1>1
  <2> QED BY <1>1, <1>2, <2>1 DEF After, States
<1>3. CASE c \notin AlphaNumeric
  <2>1. WordTokens(st.word) \in Seq(Tokens)
    <3>1. WordToken(st.word) \in Tokens
      BY <1>1 DEF WordToken, Tokens, Kinds
    <3> QED BY <3>1 DEF WordTokens
  <2>2. MarkTokens(c) \in Seq(Tokens)
    <3>1. <<c>> \in Seq(Chars)
      OBVIOUS
    <3>2. MarkToken(c) \in Tokens
      BY <3>1 DEF MarkToken, Tokens, Kinds
    <3> QED BY <3>2 DEF MarkTokens
  <2>3. st.tokens \o WordTokens(st.word) \o MarkTokens(c) \in Seq(Tokens)
    BY <1>1, <2>1, <2>2
  <2>4. (st.wrong \/ (st.word # <<>> /\ WrongNumber(st.word))) \in BOOLEAN
    OBVIOUS
  <2>5. <<>> \in Seq(Chars)
    OBVIOUS
  <2> QED BY <1>3, <2>3, <2>4, <2>5 DEF After, States
<1> QED
  BY <1>2, <1>3

LEMMA WalkFacts ==
    ASSUME NEW s \in Seq(Chars)
    PROVE  /\ Walk(s)[0] = Begin
           /\ \A k \in 0 .. Len(s) : Walk(s)[k] \in States
           /\ \A k \in 1 .. Len(s) : Walk(s)[k] = After(Walk(s)[k - 1], s[k])
<1>1. Begin \in States
  BY DEF Begin, States
<1>2. Walks \in [States \X Chars -> States]
        /\ \A st \in States, c \in Chars : Walks[<<st, c>>] = After(st, c)
  BY AfterType DEF Walks
<1>3. Runs(Walk(s), States, Begin, Walks, s)
  <2>1. \E g : Runs(g, States, Begin, Walks, s)
    BY <1>1, <1>2, Recursion
  <2> QED BY <2>1, Zenon DEF Walk
<1> DEFINE g == Walk(s)
<1>4. /\ g \in [0 .. Len(s) -> States] /\ g[0] = Begin
      /\ \A k \in 1 .. Len(s) : g[k] = Walks[<<g[k - 1], s[k]>>]
  <2> HIDE DEF g
  <2>1. Runs(g, States, Begin, Walks, s)
    BY <1>3 DEF g
  <2> QED BY <2>1 DEF Runs
<1>5. ASSUME NEW k \in 1 .. Len(s) PROVE g[k] = After(g[k - 1], s[k])
  <2> HIDE DEF g
  <2>1. g[k - 1] \in States /\ s[k] \in Chars
    BY <1>4
  <2> QED BY <1>2, <1>4, <2>1
<1> QED
  BY <1>4, <1>5

LEMMA WalkPrefix ==
    ASSUME NEW p \in Seq(Chars), NEW q \in Seq(Chars)
    PROVE  Walk(p \o q)[Len(p)] = End(p)
<1> DEFINE w == p \o q
<1>1. /\ w \in Seq(Chars) /\ Len(w) = Len(p) + Len(q)
      /\ \A k \in 1 .. Len(p) : w[k] = p[k]
      /\ \A k \in 1 .. Len(q) : w[Len(p) + k] = q[k]
  OBVIOUS
<1> HIDE DEF w
<1>2. Walk(w)[Len(p)] = End(p)
  <2> DEFINE S == {k \in Nat : k <= Len(p) => Walk(w)[k] = Walk(p)[k]}
  <2>1. 0 \in S
    <3>1. Walk(w)[0] = Begin /\ Walk(p)[0] = Begin
      BY <1>1, WalkFacts
    <3> QED BY <3>1
  <2>2. ASSUME NEW k \in Nat, k \in S PROVE k + 1 \in S
    <3> SUFFICES ASSUME k + 1 <= Len(p) PROVE Walk(w)[k + 1] = Walk(p)[k + 1]
      OBVIOUS
    <3>1. k + 1 \in 1 .. Len(p) /\ k + 1 \in 1 .. Len(w) /\ (k + 1) - 1 = k
      BY <1>1
    <3>2. Walk(w)[k + 1] = After(Walk(w)[k], w[k + 1])
      <4>1. \A j \in 1 .. Len(w) : Walk(w)[j] = After(Walk(w)[j - 1], w[j])
        BY <1>1, WalkFacts
      <4> QED BY <3>1, <4>1
    <3>3. Walk(p)[k + 1] = After(Walk(p)[k], p[k + 1])
      <4>1. \A j \in 1 .. Len(p) : Walk(p)[j] = After(Walk(p)[j - 1], p[j])
        BY WalkFacts
      <4> QED BY <3>1, <4>1
    <3>4. Walk(w)[k] = Walk(p)[k]
      BY <2>2, <3>1
    <3> QED BY <1>1, <3>1, <3>2, <3>3, <3>4
  <2>3. Len(p) \in S
    <3> HIDE DEF S
    <3>1. Nat \subseteq S
      BY <2>1, <2>2, SetInduction
    <3> QED BY <3>1
  <2> QED BY <2>3 DEF End
<1> QED
  BY <1>2 DEF w

\* The walk along a text is the same as the walk along a copy of what it has
\* there, from where both have led to the same.
LEMMA WalkOn ==
    ASSUME NEW m \in Seq(Chars), NEW p \in Seq(Chars), NEW q \in Seq(Chars), NEW a \in Nat,
           a + Len(q) <= Len(m), Walk(m)[a] = End(p),
           \A k \in 1 .. Len(q) : m[a + k] = q[k]
    PROVE  Walk(m)[a + Len(q)] = End(p \o q)
<1> DEFINE w == p \o q
<1>1. /\ w \in Seq(Chars) /\ Len(w) = Len(p) + Len(q)
      /\ \A k \in 1 .. Len(p) : w[k] = p[k]
      /\ \A k \in 1 .. Len(q) : w[Len(p) + k] = q[k]
  OBVIOUS
<1>2. Walk(w)[Len(p)] = End(p)
  BY WalkPrefix
<1> HIDE DEF w
<1> DEFINE S == {k \in Nat : k <= Len(q) => Walk(m)[a + k] = Walk(w)[Len(p) + k]}
<1>3. 0 \in S
  BY <1>2
<1>4. ASSUME NEW k \in Nat, k \in S PROVE k + 1 \in S
  <2> SUFFICES ASSUME k + 1 <= Len(q) PROVE Walk(m)[a + (k + 1)] = Walk(w)[Len(p) + (k + 1)]
    OBVIOUS
  <2>1. /\ k + 1 \in 1 .. Len(q)
        /\ a + (k + 1) \in 1 .. Len(m) /\ (a + (k + 1)) - 1 = a + k
        /\ Len(p) + (k + 1) \in 1 .. Len(w) /\ (Len(p) + (k + 1)) - 1 = Len(p) + k
    BY <1>1
  <2>2. Walk(m)[a + (k + 1)] = After(Walk(m)[a + k], m[a + (k + 1)])
    <3>1. \A j \in 1 .. Len(m) : Walk(m)[j] = After(Walk(m)[j - 1], m[j])
      BY WalkFacts
    <3> QED BY <2>1, <3>1
  <2>3. Walk(w)[Len(p) + (k + 1)] = After(Walk(w)[Len(p) + k], w[Len(p) + (k + 1)])
    <3>1. \A j \in 1 .. Len(w) : Walk(w)[j] = After(Walk(w)[j - 1], w[j])
      BY <1>1, WalkFacts
    <3> QED BY <2>1, <3>1
  <2>4. Walk(m)[a + k] = Walk(w)[Len(p) + k]
    BY <1>4, <2>1
  <2>5. m[a + (k + 1)] = q[k + 1] /\ w[Len(p) + (k + 1)] = q[k + 1]
    BY <1>1, <2>1
  <2> QED BY <2>2, <2>3, <2>4, <2>5
<1>5. Len(q) \in S
  <2> HIDE DEF S
  <2>1. Nat \subseteq S
    BY <1>3, <1>4, SetInduction
  <2> QED BY <2>1
<1>6. Walk(m)[a + Len(q)] = Walk(w)[Len(w)]
  BY <1>1, <1>5
<1> QED
  BY <1>6 DEF End, w

\* Blanks and new lines end words, and are nothing else.
Separators == {NewLine} \cup Blanks

LEMMA Characters ==
    /\ \A c \in Separators : c \notin AlphaNumeric /\ c \notin BasicCharacters
    /\ \A c \in BasicCharacters : c \notin AlphaNumeric
    /\ Hash # NewLine /\ {NewLine, " "} \subseteq Separators /\ NewLine \in Chars
<1>0. Digits = {"0", "1", "2", "3", "4", "5", "6", "7", "8", "9"}
  <2> DEFINE d == DigitsInOrder
  <2>1. /\ DOMAIN d = 1 .. 10
        /\ d[1] = "0" /\ d[2] = "1" /\ d[3] = "2" /\ d[4] = "3" /\ d[5] = "4"
        /\ d[6] = "5" /\ d[7] = "6" /\ d[8] = "7" /\ d[9] = "8" /\ d[10] = "9"
    BY DEF DigitsInOrder
  <2> HIDE DEF d
  <2>2. 1 .. 10 = {1, 2, 3, 4, 5, 6, 7, 8, 9, 10}
    OBVIOUS
  <2>3. Digits = {d[n] : n \in {1, 2, 3, 4, 5, 6, 7, 8, 9, 10}}
    BY <2>1, <2>2 DEF Digits, ToSet, d
  <2> QED BY <2>1, <2>3
<1>1. \A c \in Separators : c \notin AlphaNumeric /\ c \notin BasicCharacters
  <2>1. "nl" \notin AlphaNumeric /\ " " \notin AlphaNumeric /\ "tab" \notin AlphaNumeric
    BY <1>0 DEF AlphaNumeric, Letters, HexLetters
  <2>2. "nl" \notin BasicCharacters /\ " " \notin BasicCharacters /\ "tab" \notin BasicCharacters
    BY DEF BasicCharacters
  <2> QED BY <2>1, <2>2 DEF Separators, Blanks, NewLine
<1>2. \A c \in BasicCharacters : c \notin AlphaNumeric
  <2>1. /\ "(" \notin AlphaNumeric /\ ")" \notin AlphaNumeric /\ "[" \notin AlphaNumeric
        /\ "]" \notin AlphaNumeric /\ "{" \notin AlphaNumeric /\ "}" \notin AlphaNumeric
        /\ "." \notin AlphaNumeric /\ "," \notin AlphaNumeric /\ ":" \notin AlphaNumeric
    BY <1>0 DEF AlphaNumeric, Letters, HexLetters
  <2>2. /\ ";" \notin AlphaNumeric /\ "@" \notin AlphaNumeric /\ "$" \notin AlphaNumeric
        /\ "%" \notin AlphaNumeric /\ "quote" \notin AlphaNumeric /\ "+" \notin AlphaNumeric
        /\ "-" \notin AlphaNumeric /\ "*" \notin AlphaNumeric /\ "/" \notin AlphaNumeric
    BY <1>0 DEF AlphaNumeric, Letters, HexLetters
  <2> QED BY <2>1, <2>2 DEF BasicCharacters
<1>3. {NewLine, " "} \subseteq Separators /\ NewLine \in Chars
  BY SourceConstants DEF Separators, Blanks
<1>4. Hash # NewLine
  BY DEF Hash, NewLine
<1> QED
  BY <1>1, <1>2, <1>3, <1>4

LEMMA Separated ==
    ASSUME NEW st \in States, NEW c \in Separators
    PROVE  /\ After(st, c).word = <<>>
           /\ \A d \in Separators : After(st, c) = After(st, d)
           /\ st.word = <<>> => After(st, c) = st
<1> DEFINE r == [word   |-> <<>>,
                 tokens |-> st.tokens \o WordTokens(st.word) \o <<>>,
                 wrong  |-> st.wrong \/ (st.word # <<>> /\ WrongNumber(st.word))]
<1>1. \A d \in Separators : After(st, d) = r
  BY Characters DEF After, MarkTokens
<1>2. ASSUME st.word = <<>> PROVE After(st, c) = st
  <2>1. st.tokens \in Seq(Tokens) /\ st.wrong \in BOOLEAN
    BY DEF States
  <2>2. st.tokens \o WordTokens(st.word) \o <<>> = st.tokens
    BY <1>2, <2>1 DEF WordTokens
  <2>3. (st.wrong \/ (st.word # <<>> /\ WrongNumber(st.word))) = st.wrong
    BY <1>2, <2>1
  <2>4. After(st, c) = [word |-> <<>>, tokens |-> st.tokens, wrong |-> st.wrong]
    BY <1>1, <2>2, <2>3
  <2>5. st = [word |-> st.word, tokens |-> st.tokens, wrong |-> st.wrong]
    BY DEF States
  <2> QED BY <1>2, <2>4, <2>5
<1>3. After(st, c).word = <<>> /\ \A d \in Separators : After(st, c) = After(st, d)
  <2>1. r.word = <<>>
    OBVIOUS
  <2> HIDE DEF r
  <2> QED BY <1>1, <2>1
<1> QED
  BY <1>2, <1>3

-----------------------------------------------------------------------------
(* The walk finds the tokens that LexedRight finds by their positions.     *)

StartsTo(s, b) == { p \in 1 .. b : IsStart(s, p) }

\* ts are the tokens that start up to b, and one of them is a wrong number.
Told(ts, s, b) ==
    /\ Len(ts) = Cardinality(StartsTo(s, b))
    /\ \A p \in StartsTo(s, b) : ts[Cardinality(StartsTo(s, p))] = TokenAt(s, p)

IsWrong(s, p) == s[p] \in AlphaNumeric /\ WrongNumber(RunFrom(s, p))
WrongTo(s, b) == \E p \in StartsTo(s, b) : IsWrong(s, p)

LEMMA StartsCount ==
    ASSUME NEW s, NEW b \in Nat
    PROVE  /\ IsFiniteSet(StartsTo(s, b)) /\ Cardinality(StartsTo(s, b)) \in Nat
           /\ \A p \in StartsTo(s, b) :
                 Cardinality(StartsTo(s, p)) \in 1 .. Cardinality(StartsTo(s, b))
<1>1. ASSUME NEW a \in Nat
      PROVE  IsFiniteSet(StartsTo(s, a)) /\ Cardinality(StartsTo(s, a)) \in Nat
  <2>1. StartsTo(s, a) \in SUBSET (1 .. a)
    BY DEF StartsTo
  <2>2. IsFiniteSet(1 .. a)
    BY FS_Interval
  <2>3. IsFiniteSet(StartsTo(s, a))
    BY <2>1, <2>2, FS_Subset
  <2> QED BY <2>3, FS_CardinalityType
<1>2. ASSUME NEW p \in StartsTo(s, b)
      PROVE  Cardinality(StartsTo(s, p)) \in 1 .. Cardinality(StartsTo(s, b))
  <2>1. p \in Nat /\ StartsTo(s, p) \in SUBSET StartsTo(s, b) /\ p \in StartsTo(s, p)
    BY DEF StartsTo
  <2>2. IsFiniteSet(StartsTo(s, p)) /\ Cardinality(StartsTo(s, p)) \in Nat
    BY <1>1, <2>1
  <2>3. Cardinality(StartsTo(s, p)) # 0
    BY <2>1, <2>2, FS_EmptySet
  <2>4. IsFiniteSet(StartsTo(s, b)) /\ Cardinality(StartsTo(s, b)) \in Nat
    BY <1>1
  <2>5. Cardinality(StartsTo(s, p)) <= Cardinality(StartsTo(s, b))
    BY <2>1, <2>4, FS_Subset
  <2> QED BY <2>2, <2>3, <2>4, <2>5
<1> QED
  BY <1>1, <1>2

\* Where one more token starts, one more is told.
LEMMA OneMore ==
    ASSUME NEW ts \in Seq(Tokens), NEW s, NEW b \in Nat, NEW c \in Nat, NEW p \in b + 1 .. c,
           Told(ts, s, b), StartsTo(s, c) = StartsTo(s, b) \cup {p}
    PROVE  Told(Append(ts, TokenAt(s, p)), s, c)
<1> DEFINE u == Append(ts, TokenAt(s, p))
<1>1. Len(u) = Len(ts) + 1 /\ u[Len(ts) + 1] = TokenAt(s, p)
      /\ \A n \in 1 .. Len(ts) : u[n] = ts[n]
  OBVIOUS
<1> HIDE DEF u
<1>2. p \notin StartsTo(s, b)
  BY DEF StartsTo
<1>3. IsFiniteSet(StartsTo(s, b)) /\ Cardinality(StartsTo(s, b)) = Len(ts)
  BY StartsCount DEF Told
<1>4. Cardinality(StartsTo(s, c)) = Len(ts) + 1
  <2>1. Cardinality(StartsTo(s, b) \cup {p}) = Cardinality(StartsTo(s, b)) + 1
    BY <1>2, <1>3, FS_AddElement
  <2> QED BY <1>3, <2>1
<1>5. StartsTo(s, p) = StartsTo(s, c)
  <2>1. p \in StartsTo(s, c) /\ \A q \in StartsTo(s, c) : q <= p
    BY DEF StartsTo
  <2> QED BY <2>1 DEF StartsTo
<1>6. ASSUME NEW q \in StartsTo(s, b)
      PROVE  u[Cardinality(StartsTo(s, q))] = TokenAt(s, q)
  <2>1. Cardinality(StartsTo(s, q)) \in 1 .. Len(ts)
    BY <1>3, StartsCount
  <2>2. ts[Cardinality(StartsTo(s, q))] = TokenAt(s, q)
    BY DEF Told
  <2> QED BY <1>1, <2>1, <2>2
<1>7. u[Cardinality(StartsTo(s, p))] = TokenAt(s, p)
  BY <1>1, <1>4, <1>5
<1>8. Told(u, s, c)
  BY <1>1, <1>4, <1>6, <1>7 DEF Told
<1> QED
  BY <1>8 DEF u

\* The letters and digits behind b up to k are one word when another character
\* follows.
LEMMA OneWord ==
    ASSUME NEW s \in Seq(Chars), NEW b \in Nat, NEW k \in Nat, b < k, k < Len(s),
           b = 0 \/ s[b] \notin AlphaNumeric, s[k + 1] \notin AlphaNumeric,
           \A m \in b + 1 .. k : s[m] \in AlphaNumeric
    PROVE  /\ RunFrom(s, b + 1) = SubSeq(s, b + 1, k)
           /\ StartsTo(s, k) = StartsTo(s, b) \cup {b + 1}
           /\ TokenAt(s, b + 1) = WordToken(SubSeq(s, b + 1, k))
<1> DEFINE p == b + 1
           IsEnd(q) == /\ \A m \in p .. q : s[m] \in AlphaNumeric
                       /\ q = Len(s) \/ s[q + 1] \notin AlphaNumeric
<1>1. k \in p .. Len(s) /\ IsEnd(k)
  OBVIOUS
<1>2. ASSUME NEW q \in p .. Len(s), IsEnd(q) PROVE q = k
  <2>1. CASE q < k
    <3>1. q + 1 \in b + 1 .. k /\ q # Len(s)
      BY <2>1
    <3> QED BY <1>2, <3>1
  <2>2. CASE q > k
    <3>1. k + 1 \in p .. q
      BY <2>2
    <3> QED BY <1>2, <3>1
  <2> QED BY <2>1, <2>2
<1>3. (CHOOSE q \in p .. Len(s) : IsEnd(q)) = k
  <2> HIDE DEF IsEnd, p
  <2> QED BY <1>1, <1>2
<1>4. RunFrom(s, p) = SubSeq(s, p, k)
  BY <1>3 DEF RunFrom
<1>5. s[p] \in AlphaNumeric /\ p \in 1 .. k
  OBVIOUS
<1>6. IsStart(s, p)
  BY <1>5 DEF IsStart
<1>7. ASSUME NEW q \in b + 2 .. k PROVE ~IsStart(s, q)
  <2>1. s[q] \in AlphaNumeric /\ s[q - 1] \in AlphaNumeric /\ q # 1
    OBVIOUS
  <2> QED BY <2>1, Characters DEF IsStart
<1>8. StartsTo(s, k) = StartsTo(s, b) \cup {p}
  <2>1. ASSUME NEW q \in StartsTo(s, k) PROVE q \in StartsTo(s, b) \cup {p}
    <3>1. q \in 1 .. b \/ q = p \/ q \in b + 2 .. k
      BY DEF StartsTo
    <3> QED BY <1>7, <3>1 DEF StartsTo
  <2>2. StartsTo(s, b) \cup {p} \subseteq StartsTo(s, k)
    BY <1>5, <1>6 DEF StartsTo
  <2> QED BY <2>1, <2>2
<1>9. TokenAt(s, p) = WordToken(SubSeq(s, p, k))
  BY <1>4, <1>5, Characters DEF TokenAt
<1> QED
  BY <1>4, <1>8, <1>9

\* st is what the first k characters of s should have led to.
Means(st, s, k) ==
    LET b == k - Len(st.word)
    IN /\ b >= 0
       /\ st.word = SubSeq(s, b + 1, k)
       /\ \A m \in b + 1 .. k : s[m] \in AlphaNumeric
       /\ b = 0 \/ s[b] \notin AlphaNumeric
       /\ Told(st.tokens, s, b)
       /\ st.wrong <=> WrongTo(s, b)

LEMMA SubSeqNext ==
    ASSUME NEW s \in Seq(Chars), NEW b \in Nat, NEW k \in Nat, b <= k, k < Len(s)
    PROVE  Append(SubSeq(s, b + 1, k), s[k + 1]) = SubSeq(s, b + 1, k + 1)
<1> DEFINE u == SubSeq(s, b + 1, k)
           v == SubSeq(s, b + 1, k + 1)
<1>1. u \in Seq(Chars) /\ Len(u) = k - b /\ \A n \in 1 .. k - b : u[n] = s[b + n]
  OBVIOUS
<1>2. v \in Seq(Chars) /\ Len(v) = k + 1 - b /\ \A n \in 1 .. k + 1 - b : v[n] = s[b + n]
  OBVIOUS
<1> HIDE DEF u, v
<1> DEFINE x == Append(u, s[k + 1])
<1>3. s[k + 1] \in Chars
  OBVIOUS
<1>4. x \in Seq(Chars) /\ Len(x) = k + 1 - b /\ x[k + 1 - b] = s[k + 1]
      /\ \A n \in 1 .. k - b : x[n] = u[n]
  BY <1>1, <1>3
<1> HIDE DEF x
<1>5. \A n \in 1 .. k + 1 - b : x[n] = v[n]
  <2> SUFFICES ASSUME NEW n \in 1 .. k + 1 - b PROVE x[n] = v[n]
    OBVIOUS
  <2>1. CASE n = k + 1 - b
    <3>1. b + n = k + 1
      BY <2>1
    <3> QED BY <2>1, <3>1, <1>2, <1>4
  <2>2. CASE n \in 1 .. k - b
    BY <2>2, <1>1, <1>2, <1>4
  <2> QED BY <2>1, <2>2
<1>6. x = v
  BY <1>2, <1>4, <1>5
<1> QED
  BY <1>6 DEF x, u, v

LEMMA MeansNext ==
    ASSUME NEW s \in Seq(Chars), NEW k \in Nat, k < Len(s), NEW st \in States, Means(st, s, k)
    PROVE  Means(After(st, s[k + 1]), s, k + 1)
<1> DEFINE c == s[k + 1]
           w == st.word
           b == k - Len(w)
<1>1. /\ c \in Chars /\ w \in Seq(Chars) /\ st.tokens \in Seq(Tokens) /\ st.wrong \in BOOLEAN
      /\ Len(w) \in Nat
  BY DEF States
<1>2. /\ b \in Nat /\ b <= k
      /\ w = SubSeq(s, b + 1, k)
      /\ \A m \in b + 1 .. k : s[m] \in AlphaNumeric
      /\ b = 0 \/ s[b] \notin AlphaNumeric
      /\ Told(st.tokens, s, b)
      /\ st.wrong <=> WrongTo(s, b)
  <2>1. /\ b >= 0
        /\ w = SubSeq(s, b + 1, k)
        /\ \A m \in b + 1 .. k : s[m] \in AlphaNumeric
        /\ b = 0 \/ s[b] \notin AlphaNumeric
        /\ Told(st.tokens, s, b)
        /\ st.wrong <=> WrongTo(s, b)
    BY Zenon DEF Means
  <2> HIDE DEF w
  <2>2. b \in Int /\ b <= k
    BY <1>1
  <2> HIDE DEF b
  <2> QED BY <2>1, <2>2
<1>3. CASE c \in AlphaNumeric
  <2> DEFINE t == After(st, c)
  <2>1. t = [word |-> Append(w, c), tokens |-> st.tokens, wrong |-> st.wrong]
    BY <1>3 DEF After
  <2>2. Append(w, c) = SubSeq(s, b + 1, k + 1)
    <3> HIDE DEF b
    <3>1. Append(SubSeq(s, b + 1, k), s[k + 1]) = SubSeq(s, b + 1, k + 1)
      BY <1>2, SubSeqNext
    <3> QED BY <1>2, <3>1
  <2>3. Len(Append(w, c)) = Len(w) + 1
    BY <1>1
  <2>4. (k + 1) - Len(Append(w, c)) = b
    BY <1>1, <2>3
  <2>5. \A m \in b + 1 .. k + 1 : s[m] \in AlphaNumeric
    BY <1>2, <1>3
  <2>6. t.word = Append(w, c) /\ t.tokens = st.tokens /\ t.wrong = st.wrong
    BY <2>1
  <2> HIDE DEF t, b, w
  <2>7. (k + 1) - Len(t.word) = b
    BY <2>4, <2>6
  <2>8. Means(t, s, k + 1)
    BY <1>2, <2>2, <2>5, <2>6, <2>7 DEF Means
  <2> QED BY <2>8 DEF t
<1>4. CASE c \notin AlphaNumeric
  <2> DEFINE ts == st.tokens \o WordTokens(w)
             t == After(st, c)
  <2>1. /\ t.word = <<>> /\ t.tokens = ts \o MarkTokens(c)
        /\ t.wrong = (st.wrong \/ (w # <<>> /\ WrongNumber(w)))
    BY <1>4 DEF After
  <2>2. ts \in Seq(Tokens) /\ Told(ts, s, k) /\ (t.wrong <=> WrongTo(s, k))
    <3>1. CASE w = <<>>
      <4>1. b = k /\ ts = st.tokens
        BY <1>1, <3>1 DEF WordTokens
      <4>2. t.wrong = st.wrong
        BY <1>1, <2>1, <3>1
      <4> HIDE DEF b, ts, t
      <4> QED BY <1>1, <1>2, <4>1, <4>2
    <3>2. CASE w # <<>>
      <4>1. b < k
        BY <1>1, <3>2
      <4> DEFINE p == b + 1
      <4>2. /\ RunFrom(s, p) = w /\ TokenAt(s, p) = WordToken(w)
            /\ StartsTo(s, k) = StartsTo(s, b) \cup {p}
        <5> HIDE DEF b, w, c
        <5>1. /\ RunFrom(s, b + 1) = SubSeq(s, b + 1, k)
              /\ StartsTo(s, k) = StartsTo(s, b) \cup {b + 1}
              /\ TokenAt(s, b + 1) = WordToken(SubSeq(s, b + 1, k))
          BY <1>2, <1>4, <4>1, OneWord DEF c
        <5> QED BY <1>2, <5>1
      <4>3. ts = Append(st.tokens, WordToken(w)) /\ WordToken(w) \in Tokens
        <5>1. WordToken(w) \in Tokens
          BY <1>1 DEF WordToken, Tokens, Kinds
        <5>2. WordTokens(w) = <<WordToken(w)>>
          BY <3>2 DEF WordTokens
        <5>3. st.tokens \o <<WordToken(w)>> = Append(st.tokens, WordToken(w))
          BY <1>1, <5>1
        <5> QED BY <5>1, <5>2, <5>3
      <4>4. s[p] \in AlphaNumeric /\ p \in b + 1 .. k
        <5> HIDE DEF b
        <5> QED BY <1>2, <4>1
      <4>5. t.wrong <=> st.wrong \/ WrongNumber(w)
        BY <1>1, <2>1, <3>2
      <4> HIDE DEF b, ts, t, p, w
      <4>6. Told(ts, s, k)
        BY <1>1, <1>2, <4>2, <4>3, <4>4, OneMore
      <4>7. IsWrong(s, p) <=> WrongNumber(w)
        BY <4>2, <4>4 DEF IsWrong
      <4>8. WrongTo(s, k) <=> WrongTo(s, b) \/ IsWrong(s, p)
        BY <4>2 DEF WrongTo
      <4>9. ts \in Seq(Tokens)
        BY <1>1, <4>3
      <4> QED BY <1>2, <4>5, <4>6, <4>7, <4>8, <4>9
    <3> QED BY <3>1, <3>2
  <2> HIDE DEF ts
  <2>3. StartsTo(s, k + 1) = StartsTo(s, k) \cup (IF c \in BasicCharacters THEN {k + 1} ELSE {})
    <3>1. IsStart(s, k + 1) <=> c \in BasicCharacters
      BY <1>4 DEF IsStart
    <3> QED BY <3>1 DEF StartsTo
  <2>4. Told(t.tokens, s, k + 1)
    <3>1. CASE c \in BasicCharacters
      <4>1. TokenAt(s, k + 1) = MarkToken(c) /\ MarkToken(c) \in Tokens
        BY <1>1, <3>1 DEF TokenAt, MarkToken, Tokens, Kinds
      <4>2. t.tokens = Append(ts, TokenAt(s, k + 1))
        <5>1. MarkTokens(c) = <<MarkToken(c)>>
          BY <3>1 DEF MarkTokens
        <5> QED BY <2>1, <2>2, <4>1, <5>1
      <4>3. StartsTo(s, k + 1) = StartsTo(s, k) \cup {k + 1}
        BY <2>3, <3>1
      <4> HIDE DEF t, c
      <4> QED BY <2>2, <4>2, <4>3, OneMore
    <3>2. CASE c \notin BasicCharacters
      <4>1. t.tokens = ts
        BY <2>1, <2>2, <3>2 DEF MarkTokens
      <4>2. StartsTo(s, k + 1) = StartsTo(s, k)
        BY <2>3, <3>2
      <4> HIDE DEF t
      <4> QED BY <2>2, <4>1, <4>2 DEF Told
    <3> QED BY <3>1, <3>2
  <2>5. WrongTo(s, k + 1) <=> WrongTo(s, k)
    <3>1. ~IsWrong(s, k + 1)
      BY <1>4 DEF IsWrong
    <3> QED BY <2>3, <3>1 DEF WrongTo
  <2>6. Means(t, s, k + 1)
    <3>1. (k + 1) - Len(t.word) = k + 1 /\ t.word = <<>>
      BY <2>1
    <3>2. SubSeq(s, k + 2, k + 1) = <<>> /\ (k + 1) + 1 = k + 2
      OBVIOUS
    <3>3. \A m \in k + 2 .. k + 1 : s[m] \in AlphaNumeric
      OBVIOUS
    <3>4. s[k + 1] \notin AlphaNumeric
      BY <1>4
    <3> HIDE DEF t, c, w, b
    <3>5. (k + 1) - Len(t.word) >= 0
      BY <3>1
    <3>6. t.wrong <=> WrongTo(s, k + 1)
      BY <2>2, <2>5
    <3>7. t.word = SubSeq(s, (k + 1) + 1, k + 1) /\ \A m \in (k + 1) + 1 .. k + 1 : s[m] \in AlphaNumeric
      BY <3>1, <3>2, <3>3
    <3> QED BY <2>4, <3>1, <3>4, <3>5, <3>6, <3>7, Zenon DEF Means
  <2> QED BY <2>6 DEF t
<1> QED
  BY <1>3, <1>4

LEMMA WalkMeans ==
    ASSUME NEW s \in Seq(Chars), NEW k \in 0 .. Len(s)
    PROVE  Means(Walk(s)[k], s, k)
<1> DEFINE S == {n \in Nat : n <= Len(s) => Means(Walk(s)[n], s, n)}
<1>1. 0 \in S
  <2>1. Walk(s)[0] = Begin
    BY WalkFacts
  <2>2. /\ 0 - Len(<<>>) = 0 /\ SubSeq(s, 1, 0) = <<>> /\ StartsTo(s, 0) = {}
    <3>1. SubSeq(s, 1, 0) = <<>>
      OBVIOUS
    <3>2. StartsTo(s, 0) = {}
      BY DEF StartsTo
    <3>3. 0 - Len(<<>>) = 0
      <4> DEFINE n == Len(<<>>)
      <4>1. n = 0
        OBVIOUS
      <4> HIDE DEF n
      <4>2. 0 - n = 0
        BY <4>1
      <4> QED BY <4>2 DEF n
    <3> QED BY <3>1, <3>2, <3>3
  <2>3. Told(<<>>, s, 0) /\ ~WrongTo(s, 0)
    BY <2>2, FS_EmptySet DEF Told, WrongTo
  <2>4. Begin.word = <<>> /\ Begin.tokens = <<>> /\ Begin.wrong = FALSE
    BY DEF Begin
  <2>5. Means(Begin, s, 0)
    BY <2>2, <2>3, <2>4 DEF Means
  <2> QED BY <2>1, <2>5
<1>2. ASSUME NEW n \in Nat, n \in S PROVE n + 1 \in S
  <2> SUFFICES ASSUME n + 1 <= Len(s) PROVE Means(Walk(s)[n + 1], s, n + 1)
    OBVIOUS
  <2>1. Walk(s)[n] \in States /\ Walk(s)[n + 1] = After(Walk(s)[n], s[n + 1])
    <3>1. n \in 0 .. Len(s) /\ n + 1 \in 1 .. Len(s) /\ (n + 1) - 1 = n
      OBVIOUS
    <3> QED BY <3>1, WalkFacts
  <2>2. Means(Walk(s)[n], s, n)
    BY <1>2
  <2>3. Means(After(Walk(s)[n], s[n + 1]), s, n + 1)
    BY <2>1, <2>2, MeansNext
  <2> QED BY <2>1, <2>3
<1>3. k \in S
  <2> HIDE DEF S
  <2>1. Nat \subseteq S
    BY <1>1, <1>2, SetInduction
  <2> QED BY <2>1
<1> QED
  BY <1>3

-----------------------------------------------------------------------------
(* Walks over lines and over what lies between words.                      *)

LEMMA Next1 ==
    ASSUME NEW s \in Seq(Chars), NEW k \in Nat, k < Len(s)
    PROVE  /\ Walk(s)[k] \in States
           /\ Walk(s)[k + 1] = After(Walk(s)[k], s[k + 1])
<1>1. k \in 0 .. Len(s) /\ k + 1 \in 1 .. Len(s) /\ (k + 1) - 1 = k
  OBVIOUS
<1> QED
  BY <1>1, WalkFacts

LEMMA EndAppend ==
    ASSUME NEW p \in Seq(Chars), NEW c \in Chars
    PROVE  /\ End(p) \in States
           /\ End(Append(p, c)) = After(End(p), c)
<1> DEFINE w == Append(p, c)
<1>1. w = p \o <<c>> /\ w \in Seq(Chars) /\ Len(w) = Len(p) + 1 /\ w[Len(p) + 1] = c
      /\ <<c>> \in Seq(Chars)
  OBVIOUS
<1>2. Walk(p \o <<c>>)[Len(p)] = End(p)
  BY <1>1, WalkPrefix
<1> HIDE DEF w
<1>3. Len(p) \in Nat /\ Len(p) < Len(w)
  BY <1>1
<1>4. Walk(w)[Len(p)] \in States /\ Walk(w)[Len(p) + 1] = After(Walk(w)[Len(p)], w[Len(p) + 1])
  BY <1>1, <1>3, Next1
<1>5. Walk(w)[Len(p)] = End(p) /\ Walk(w)[Len(p) + 1] = End(w)
  BY <1>1, <1>2 DEF End
<1> QED
  BY <1>1, <1>4, <1>5 DEF w

\* Behind a word, separators change nothing.
LEMMA WalkStill ==
    ASSUME NEW m \in Seq(Chars), NEW a \in Nat, NEW b \in Nat, a <= b, b <= Len(m),
           Walk(m)[a].word = <<>>, \A k \in a + 1 .. b : m[k] \in Separators
    PROVE  Walk(m)[b] = Walk(m)[a]
<1> DEFINE S == {n \in Nat : a + n <= b => Walk(m)[a + n] = Walk(m)[a]}
<1>1. 0 \in S
  OBVIOUS
<1>2. ASSUME NEW n \in Nat, n \in S PROVE n + 1 \in S
  <2> SUFFICES ASSUME a + (n + 1) <= b PROVE Walk(m)[a + (n + 1)] = Walk(m)[a]
    OBVIOUS
  <2> DEFINE j == a + n
  <2>1. j \in Nat /\ j < Len(m) /\ j + 1 \in a + 1 .. b /\ a + (n + 1) = j + 1
    OBVIOUS
  <2>2. Walk(m)[j] = Walk(m)[a]
    BY <1>2
  <2> HIDE DEF j
  <2>3. Walk(m)[j] \in States /\ Walk(m)[j + 1] = After(Walk(m)[j], m[j + 1])
    BY <2>1, Next1
  <2>4. m[j + 1] \in Separators /\ Walk(m)[j].word = <<>>
    BY <2>1, <2>2
  <2>5. After(Walk(m)[j], m[j + 1]) = Walk(m)[j]
    BY <2>3, <2>4, Separated
  <2> QED BY <2>1, <2>2, <2>3, <2>5
<1>3. b - a \in S
  <2> HIDE DEF S
  <2>1. Nat \subseteq S
    BY <1>1, <1>2, SetInduction
  <2>2. b - a \in Nat
    OBVIOUS
  <2> QED BY <2>1, <2>2
<1>4. a + (b - a) = b
  OBVIOUS
<1> QED
  BY <1>3, <1>4

LEMMA AppendInside ==
    ASSUME NEW p \in Seq(Chars), NEW q \in Seq(Chars), NEW c \in Chars
    PROVE  p \o Append(q, c) = Append(p \o q, c)
<1> DEFINE n == <<c>>
<1>1. n \in Seq(Chars) /\ p \o q \in Seq(Chars)
  OBVIOUS
<1>2. Append(q, c) = q \o n /\ Append(p \o q, c) = (p \o q) \o n
  BY <1>1
<1> HIDE DEF n
<1>3. p \o (q \o n) = (p \o q) \o n
  BY <1>1
<1> QED
  BY <1>2, <1>3

\* A copy of some of m with a new line behind it leads to the same as m with
\* any separator there.
LEMMA WalkLine ==
    ASSUME NEW m \in Seq(Chars), NEW p \in Seq(Chars), NEW q \in Seq(Chars), NEW a \in Nat,
           a + Len(q) < Len(m), Walk(m)[a] = End(p),
           \A k \in 1 .. Len(q) : m[a + k] = q[k],
           m[a + Len(q) + 1] \in Separators
    PROVE  /\ Walk(m)[a + Len(q) + 1] = End(p \o Append(q, NewLine))
           /\ Walk(m)[a + Len(q) + 1].word = <<>>
<1> DEFINE b == a + Len(q)
           w == p \o q
<1>1. b \in Nat /\ b < Len(m) /\ w \in Seq(Chars)
  OBVIOUS
<1>2. Walk(m)[b] = End(w)
  <2>1. a + Len(q) <= Len(m)
    OBVIOUS
  <2>2. Walk(m)[a + Len(q)] = End(p \o q)
    BY <2>1, WalkOn
  <2> QED BY <2>2
<1>3. p \o Append(q, NewLine) = Append(w, NewLine)
  BY Characters, AppendInside
<1>4. m[b + 1] \in Separators
  OBVIOUS
<1> HIDE DEF b, w
<1>5. Walk(m)[b] \in States /\ Walk(m)[b + 1] = After(Walk(m)[b], m[b + 1])
  BY <1>1, Next1
<1>6. End(Append(w, NewLine)) = After(End(w), NewLine)
  BY <1>1, Characters, EndAppend
<1>7. NewLine \in Separators
  BY Characters
<1>8. /\ After(Walk(m)[b], m[b + 1]) = After(Walk(m)[b], NewLine)
      /\ After(Walk(m)[b], m[b + 1]).word = <<>>
  BY <1>4, <1>5, <1>7, Separated
<1>9. /\ Walk(m)[b + 1] = End(p \o Append(q, NewLine))
      /\ Walk(m)[b + 1].word = <<>>
  BY <1>2, <1>3, <1>5, <1>6, <1>8
<1> QED
  BY <1>9 DEF b

\* What was wrong stays wrong.
LEMMA WrongStays ==
    ASSUME NEW s \in Seq(Chars), NEW k \in 0 .. Len(s), Walk(s)[k].wrong
    PROVE  End(s).wrong
<1> DEFINE S == {n \in Nat : k + n <= Len(s) => Walk(s)[k + n].wrong}
<1>1. 0 \in S
  OBVIOUS
<1>2. ASSUME NEW n \in Nat, n \in S PROVE n + 1 \in S
  <2> SUFFICES ASSUME k + (n + 1) <= Len(s) PROVE Walk(s)[k + (n + 1)].wrong
    OBVIOUS
  <2> DEFINE j == k + n
  <2>1. j \in Nat /\ j < Len(s) /\ k + (n + 1) = j + 1
    OBVIOUS
  <2>2. Walk(s)[j].wrong
    BY <1>2
  <2> HIDE DEF j
  <2>3. Walk(s)[j + 1] = After(Walk(s)[j], s[j + 1])
    BY <2>1, Next1
  <2>4. After(Walk(s)[j], s[j + 1]).wrong
    BY <2>2 DEF After
  <2> QED BY <2>1, <2>3, <2>4
<1>3. Len(s) - k \in S
  <2> HIDE DEF S
  <2>1. Nat \subseteq S
    BY <1>1, <1>2, SetInduction
  <2>2. Len(s) - k \in Nat
    OBVIOUS
  <2> QED BY <2>1, <2>2
<1>4. k + (Len(s) - k) = Len(s)
  OBVIOUS
<1> QED
  BY <1>3, <1>4 DEF End

-----------------------------------------------------------------------------
(* What is cut out of a text.                                              *)

Ranges(s) == { r \in [from : Nat, to : Nat] : /\ r.from \in 1 .. Len(s) + 1
                                             /\ r.to \in r.from .. Len(s) + 1 }

Excerpt(s, rs) == Pieces(s, rs)[Len(rs)]

LEMMA PieceType ==
    ASSUME NEW s \in Seq(Chars), NEW r \in Ranges(s)
    PROVE  Piece(s, r) \in Seq(Chars)
<1>1. r.from \in 1 .. Len(s) + 1 /\ r.to \in r.from .. Len(s) + 1
  BY DEF Ranges
<1>2. SubSeq(s, r.from, r.to - 1) \in Seq(Chars)
  BY <1>1
<1>3. NewLine \in Chars
  BY Characters
<1> HIDE DEF Ranges
<1>4. \A q \in Seq(Chars) : Append(q, NewLine) \in Seq(Chars)
  BY <1>3
<1> QED
  BY <1>2, <1>4 DEF Piece

LEMMA PiecesFacts ==
    ASSUME NEW s \in Seq(Chars), NEW rs \in Seq(Ranges(s))
    PROVE  /\ Pieces(s, rs)[0] = <<>>
           /\ \A n \in 0 .. Len(rs) : Pieces(s, rs)[n] \in Seq(Chars)
           /\ \A n \in 1 .. Len(rs) : Pieces(s, rs)[n] = Pieces(s, rs)[n - 1] \o Piece(s, rs[n])
<1> DEFINE V == Seq(Chars)
           step == [p \in V \X Ranges(s) |-> p[1] \o Piece(s, p[2])]
           Eq(f) == f = [n \in 0 .. Len(rs) |-> IF n = 0 THEN <<>> ELSE f[n - 1] \o Piece(s, rs[n])]
<1>1. /\ step \in [V \X Ranges(s) -> V]
      /\ \A p \in V, r \in Ranges(s) : step[<<p, r>>] = p \o Piece(s, r)
  <2>1. \A p \in V, r \in Ranges(s) : p \o Piece(s, r) \in V
    BY PieceType
  <2> HIDE DEF V
  <2> QED BY <2>1
<1>2. <<>> \in V
  OBVIOUS
<1> HIDE DEF V, step
<1>3. PICK g : Runs(g, V, <<>>, step, rs)
  BY <1>1, <1>2, Recursion
<1>4. /\ g \in [0 .. Len(rs) -> V] /\ g[0] = <<>>
      /\ \A n \in 1 .. Len(rs) : g[n] = g[n - 1] \o Piece(s, rs[n])
  <2>1. /\ g \in [0 .. Len(rs) -> V] /\ g[0] = <<>>
        /\ \A n \in 1 .. Len(rs) : g[n] = step[<<g[n - 1], rs[n]>>]
    BY <1>3 DEF Runs
  <2>2. ASSUME NEW n \in 1 .. Len(rs) PROVE g[n] = g[n - 1] \o Piece(s, rs[n])
    <3>1. g[n - 1] \in V /\ rs[n] \in Ranges(s)
      BY <2>1
    <3> QED BY <1>1, <2>1, <3>1
  <2> QED BY <2>1, <2>2
<1>5. Eq(g)
  BY <1>4
<1>6. Eq(Pieces(s, rs))
  <2>1. \E f : Eq(f)
    BY <1>5
  <2> QED BY <2>1 DEF Pieces
<1> DEFINE h == Pieces(s, rs)
<1>7. \A n \in 0 .. Len(rs) : h[n] = IF n = 0 THEN <<>> ELSE h[n - 1] \o Piece(s, rs[n])
  <2> HIDE DEF h
  <2>1. Eq(h)
    BY <1>6 DEF h
  <2> QED BY <2>1, Zenon
<1>8. h[0] = <<>> /\ \A n \in 1 .. Len(rs) : h[n] = h[n - 1] \o Piece(s, rs[n])
  <2> HIDE DEF h
  <2>1. 0 \in 0 .. Len(rs)
    OBVIOUS
  <2>2. h[0] = <<>>
    BY <1>7, <2>1
  <2>3. ASSUME NEW n \in 1 .. Len(rs) PROVE h[n] = h[n - 1] \o Piece(s, rs[n])
    <3>1. n \in 0 .. Len(rs) /\ n # 0
      OBVIOUS
    <3> QED BY <1>7, <3>1, Zenon
  <2> QED BY <2>2, <2>3
<1>9. ASSUME NEW n \in 0 .. Len(rs) PROVE h[n] \in V
  <2> DEFINE S == {k \in Nat : k <= Len(rs) => h[k] = g[k]}
  <2> HIDE DEF h
  <2>1. 0 \in S
    BY <1>4, <1>8
  <2>2. ASSUME NEW k \in Nat, k \in S PROVE k + 1 \in S
    BY <1>4, <1>8, <2>2
  <2>3. n \in S
    <3> HIDE DEF S
    <3>1. Nat \subseteq S
      BY <2>1, <2>2, SetInduction
    <3> QED BY <3>1
  <2> QED BY <1>4, <2>3
<1> QED
  BY <1>8, <1>9 DEF V

\* One more range, one more piece.
LEMMA ExcerptNext ==
    ASSUME NEW s \in Seq(Chars), NEW rs \in Seq(Ranges(s)), NEW r \in Ranges(s)
    PROVE  /\ Excerpt(s, rs) \in Seq(Chars)
           /\ Excerpt(s, Append(rs, r)) = Excerpt(s, rs) \o Piece(s, r)
<1> DEFINE us == Append(rs, r)
<1>1. /\ us \in Seq(Ranges(s)) /\ Len(us) = Len(rs) + 1 /\ us[Len(rs) + 1] = r
      /\ \A n \in 1 .. Len(rs) : us[n] = rs[n]
  OBVIOUS
<1> HIDE DEF us
<1> DEFINE f == Pieces(s, rs)
           g == Pieces(s, us)
<1>2. /\ f[0] = <<>> /\ \A n \in 0 .. Len(rs) : f[n] \in Seq(Chars)
      /\ \A n \in 1 .. Len(rs) : f[n] = f[n - 1] \o Piece(s, rs[n])
  BY PiecesFacts
<1>3. /\ g[0] = <<>>
      /\ \A n \in 1 .. Len(us) : g[n] = g[n - 1] \o Piece(s, us[n])
  BY <1>1, PiecesFacts
<1>4. g[Len(rs)] = f[Len(rs)]
  <2> DEFINE S == {k \in Nat : k <= Len(rs) => g[k] = f[k]}
  <2> HIDE DEF f, g
  <2>1. 0 \in S
    BY <1>2, <1>3
  <2>2. ASSUME NEW k \in Nat, k \in S PROVE k + 1 \in S
    <3> SUFFICES ASSUME k + 1 <= Len(rs) PROVE g[k + 1] = f[k + 1]
      OBVIOUS
    <3>1. k + 1 \in 1 .. Len(rs) /\ k + 1 \in 1 .. Len(us) /\ (k + 1) - 1 = k
      BY <1>1
    <3>2. f[k + 1] = f[k] \o Piece(s, rs[k + 1])
      BY <1>2, <3>1
    <3>3. g[k + 1] = g[k] \o Piece(s, us[k + 1])
      BY <1>3, <3>1
    <3>4. g[k] = f[k] /\ us[k + 1] = rs[k + 1]
      BY <1>1, <2>2, <3>1
    <3> QED BY <3>2, <3>3, <3>4
  <2>3. Len(rs) \in S
    <3> HIDE DEF S
    <3>1. Nat \subseteq S
      BY <2>1, <2>2, SetInduction
    <3> QED BY <3>1
  <2> QED BY <2>3
<1>5. g[Len(us)] = g[Len(rs)] \o Piece(s, r)
  <2> HIDE DEF f, g
  <2>1. Len(us) \in 1 .. Len(us) /\ Len(us) - 1 = Len(rs)
    BY <1>1
  <2> QED BY <1>1, <1>3, <2>1
<1>6. f[Len(rs)] \in Seq(Chars)
  <2> HIDE DEF f, g
  <2>1. Len(rs) \in 0 .. Len(rs)
    OBVIOUS
  <2> QED BY <1>2, <2>1
<1> QED
  BY <1>4, <1>5, <1>6 DEF Excerpt, us

-----------------------------------------------------------------------------
(* Types of the whole state.                                               *)

LexTypes ==
    /\ comment_flag \in BOOLEAN
    /\ ranges \in Seq(Ranges(text))
    /\ code \in Seq(Chars) /\ word \in Seq(Chars) /\ AllFrom(word, 1, AlphaNumeric)
    /\ at \in 1 .. Len(code) + 1
    /\ status \in {"reading", "scanning", "lexing", "lexed", "thrown"}
    /\ status \in {"reading", "scanning"} => at = 1 /\ word = <<>> /\ tokens = <<>>
    /\ status = "reading" => comment_flag = FALSE

LEMMA InitTypes == Init => LexTypes
<1> SUFFICES ASSUME Init PROVE LexTypes
  OBVIOUS
<1>1. code \in Seq(Chars)
  <2>1. given \in Seq(Chars)
    BY SourceConstants DEF Init
  <2>2. code = given \/ code = <<>>
    BY DEF Init
  <2>3. <<>> \in Seq(Chars)
    OBVIOUS
  <2> QED BY <2>1, <2>2, <2>3
<1>2. /\ ranges = <<>> /\ word = <<>> /\ at = 1 /\ tokens = <<>> /\ comment_flag = FALSE
      /\ status \in {"lexing", "reading"}
  BY DEF Init
<1>3. ranges \in Seq(Ranges(text)) /\ word \in Seq(Chars) /\ Len(word) = 0
  BY <1>2
<1>4. AllFrom(word, 1, AlphaNumeric)
  BY <1>3 DEF AllFrom
<1>5. at \in 1 .. Len(code) + 1
  BY <1>1, <1>2
<1> QED
  BY <1>1, <1>2, <1>3, <1>4, <1>5 DEF LexTypes

\* Even if the walk back leaves the text, the range is one.
LEMMA CommentRange ==
    ASSUME ScanInv, AtChar, NEW end \in CodeEnds(i)
    PROVE  [from |-> line_start_pos, to |-> end] \in Ranges(text)
<1>1. /\ text \in Seq(Chars) /\ i \in 1 .. Len(text) /\ line_start_pos \in 1 .. i
  BY DEF ScanInv, ScanTypes, AtChar
<1>2. end \in line_start_pos .. Len(text) + 1
  <2>1. CASE end \in BlanksFrom(i)
    <3>1. end \in line_start_pos .. i
      BY <2>1, StaysInLine
    <3> QED BY <1>1, <3>1
  <2>2. CASE end = Len(text) + 1
    BY <1>1, <2>2
  <2> QED BY <2>1, <2>2 DEF CodeEnds
<1> QED
  BY <1>1, <1>2 DEF Ranges

LEMMA TypesNext == ScanInv /\ LexTypes /\ [Next]_vars => LexTypes'
<1> SUFFICES ASSUME ScanInv, LexTypes, [Next]_vars PROVE LexTypes'
  OBVIOUS
<1>1. ASSUME UNCHANGED lexing, comment_flag' \in BOOLEAN, ranges' \in Seq(Ranges(text')),
             status' \in {"reading", "scanning"}, status' = "reading" => comment_flag' = FALSE,
             status \in {"reading", "scanning"}
      PROVE  LexTypes'
  BY <1>1 DEF LexTypes, AllFrom, lexing
<1>2. CASE ReadLine \/ ReadLast \/ ReadMissing
  <2>1. /\ UNCHANGED lexing /\ UNCHANGED scanning /\ status = "reading"
        /\ status' \in {"reading", "scanning"}
    BY <1>2 DEF ReadLine, ReadLast, ReadMissing
  <2>2. ranges' = <<>> /\ comment_flag' = comment_flag /\ comment_flag = FALSE
    BY <2>1 DEF ScanInv, ReadFirst, scanning, LexTypes
  <2>3. ranges' \in Seq(Ranges(text'))
    BY <2>2
  <2> QED BY <1>1, <2>1, <2>2, <2>3
<1>3. CASE Comment
  <2>1. /\ UNCHANGED lexing /\ status' = status /\ status = "scanning" /\ comment_flag' = TRUE
        /\ text' = text /\ AtChar
    BY <1>3 DEF Comment, AtChar, reading
  <2>2. PICK end \in CodeEnds(i) :
          ranges' = Append(ranges, [from |-> line_start_pos, to |-> end])
    BY <1>3 DEF Comment
  <2>3. [from |-> line_start_pos, to |-> end] \in Ranges(text)
    BY <2>1, CommentRange
  <2>4. ranges' \in Seq(Ranges(text'))
    <3>1. ranges \in Seq(Ranges(text))
      BY DEF LexTypes
    <3> QED BY <2>1, <2>2, <2>3, <3>1
  <2> QED BY <1>1, <2>1, <2>4
<1>4. CASE LineEnd
  <2>1. /\ UNCHANGED lexing /\ status' = status /\ status = "scanning" /\ comment_flag' = FALSE
        /\ text' = text /\ AtChar
    BY <1>4 DEF LineEnd, AtChar, reading
  <2>2. [from |-> line_start_pos, to |-> i] \in Ranges(text)
    BY <2>1 DEF ScanInv, ScanTypes, AtChar, Ranges
  <2>3. ranges' = ranges \/ ranges' = Append(ranges, [from |-> line_start_pos, to |-> i])
    BY <1>4 DEF LineEnd
  <2>4. ranges' \in Seq(Ranges(text'))
    <3>1. ranges \in Seq(Ranges(text))
      BY DEF LexTypes
    <3> QED BY <2>1, <2>2, <2>3, <3>1
  <2> QED BY <1>1, <2>1, <2>4
<1>5. CASE SkipChar
  <2>1. /\ UNCHANGED lexing /\ status' = status /\ status = "scanning"
        /\ text' = text /\ ranges' = ranges /\ comment_flag' = comment_flag
    BY <1>5 DEF SkipChar, AtChar, reading
  <2>2. ranges' \in Seq(Ranges(text')) /\ comment_flag' \in BOOLEAN
    BY <2>1 DEF LexTypes
  <2> QED BY <1>1, <2>1, <2>2
<1> DEFINE Same == text' = text /\ ranges' = ranges /\ comment_flag' = comment_flag
<1>6. CASE Cut
  <2>1. /\ code' = Excerpt(text, ranges) /\ status' = "lexing" /\ Same
        /\ status = "scanning" /\ UNCHANGED <<at, word, tokens>>
    BY <1>6 DEF Cut, Excerpt, reading, scanning
  <2>2. code' \in Seq(Chars)
    <3>1. text \in Seq(Chars) /\ ranges \in Seq(Ranges(text)) /\ Len(ranges) \in 0 .. Len(ranges)
      BY DEF LexTypes, ScanInv, ScanTypes
    <3>2. Excerpt(text, ranges) \in Seq(Chars)
      BY <3>1, PiecesFacts DEF Excerpt
    <3> QED BY <2>1, <3>2
  <2>3. at' = 1 /\ word' = <<>> /\ word \in Seq(Chars) /\ Len(word') = 0
    BY <2>1 DEF LexTypes
  <2>4. at' \in 1 .. Len(code') + 1 /\ AllFrom(word', 1, AlphaNumeric)
    BY <2>2, <2>3 DEF AllFrom
  <2> QED BY <2>1, <2>2, <2>3, <2>4 DEF LexTypes
<1>7. CASE Lengthen
  <2>1. /\ code' = code /\ status' = "lexing" /\ Same /\ at' = at + 1
        /\ word' = Append(word, code[at]) /\ code[at] \in AlphaNumeric /\ at <= Len(code)
    BY <1>7 DEF Lengthen, AtCode, reading, scanning
  <2>2. code \in Seq(Chars) /\ word \in Seq(Chars) /\ at \in 1 .. Len(code)
        /\ \A k \in 1 .. Len(word) : word[k] \in AlphaNumeric
    BY <2>1 DEF LexTypes, AllFrom
  <2>3. code[at] \in Chars
    BY <2>2
  <2>4. word' \in Seq(Chars) /\ \A k \in 1 .. Len(word') : word'[k] \in AlphaNumeric
    BY <2>1, <2>2, <2>3
  <2>5. at' \in 1 .. Len(code') + 1
    BY <2>1, <2>2
  <2> QED BY <2>1, <2>4, <2>5 DEF LexTypes, AllFrom
<1>8. CASE Separate
  <2>1. /\ code' = code /\ Same /\ status' \in {"lexing", "thrown"}
        /\ \/ word' = word /\ at' = at
           \/ word' = <<>> /\ at' = at + 1
        /\ at <= Len(code)
    BY <1>8 DEF Separate, AtCode, reading, scanning
  <2>2. code \in Seq(Chars) /\ word \in Seq(Chars) /\ at \in 1 .. Len(code)
    BY <2>1 DEF LexTypes
  <2>3. word' \in Seq(Chars) /\ AllFrom(word', 1, AlphaNumeric)
    <3>1. CASE word' = word
      BY <2>2, <3>1 DEF LexTypes
    <3>2. CASE word' = <<>>
      <4>1. Len(word') = 0
        BY <3>2
      <4> QED BY <3>2, <4>1 DEF AllFrom
    <3> QED BY <2>1, <3>1, <3>2
  <2>4. at' \in 1 .. Len(code') + 1
    BY <2>1, <2>2
  <2> QED BY <2>1, <2>3, <2>4 DEF LexTypes
<1>9. CASE Lexed
  BY <1>9 DEF Lexed, reading, scanning, lexing, LexTypes, AllFrom
<1>10. CASE UNCHANGED vars
  BY <1>10 DEF vars, LexTypes, AllFrom
<1> QED
  BY <1>2, <1>3, <1>4, <1>5, <1>6, <1>7, <1>8, <1>9, <1>10 DEF Next

\* Positions of scanner and lexer stay in what they walk along, words are
\* letters and digits, and every range is one, also after a walk back that has
\* left the text.
THEOREM TypeCorrect == Spec => []TypeOK
<1>1. Init => ScanInv /\ LexTypes
  BY InitScan, InitTypes
<1>2. ScanInv /\ LexTypes /\ [Next]_vars => ScanInv' /\ LexTypes'
  BY NextScan, TypesNext
<1>3. ScanInv /\ LexTypes => TypeOK
  <2> SUFFICES ASSUME ScanInv, LexTypes PROVE TypeOK
    OBVIOUS
  <2>1. \A n \in DOMAIN ranges : ranges[n].to \in ranges[n].from .. Len(text) + 1
    <3>1. \A n \in DOMAIN ranges : ranges[n] \in Ranges(text)
      BY DEF LexTypes
    <3> QED BY <3>1 DEF Ranges
  <2> QED BY <2>1 DEF ScanInv, ScanTypes, LexTypes, TypeOK
<1> QED
  BY <1>1, <1>2, <1>3, PTL DEF Spec

-----------------------------------------------------------------------------
(* The scanner cuts out what the tokens need.                              *)

\* What is in the file gets into the text as it is, and a new line behind it.
Given ==
    /\ source \in {"file", "missing", "text"}
    /\ source = "missing" => status = "reading"
    /\ source = "text" => status \notin {"reading", "scanning"} /\ code = given
    /\ source = "file" => IF status = "reading" THEN text \o rest = given
                          ELSE text = Append(given, NewLine)

LEMMA InitGiven == Init => Given
<1> SUFFICES ASSUME Init PROVE Given
  OBVIOUS
<1>1. given \in Seq(Chars)
  BY SourceConstants DEF Init
<1>2. <<>> \o given = given
  BY <1>1
<1> QED
  BY <1>2 DEF Init, Given

LEMMA SplitAt ==
    ASSUME NEW s \in Seq(Chars), NEW n \in 0 .. Len(s)
    PROVE  SubSeq(s, 1, n) \o SubSeq(s, n + 1, Len(s)) = s
<1> DEFINE p == SubSeq(s, 1, n)
           q == SubSeq(s, n + 1, Len(s))
<1>1. p \in Seq(Chars) /\ Len(p) = n /\ \A k \in 1 .. n : p[k] = s[k]
  OBVIOUS
<1>2. q \in Seq(Chars) /\ Len(q) = Len(s) - n /\ \A k \in 1 .. Len(s) - n : q[k] = s[n + k]
  OBVIOUS
<1> HIDE DEF p, q
<1> DEFINE w == p \o q
<1>3. /\ w \in Seq(Chars) /\ Len(w) = Len(s)
      /\ \A k \in 1 .. n : w[k] = p[k]
      /\ \A k \in n + 1 .. Len(s) : w[k] = q[k - n]
  BY <1>1, <1>2
<1> HIDE DEF w
<1>4. ASSUME NEW k \in 1 .. Len(s) PROVE w[k] = s[k]
  <2>1. CASE k <= n
    BY <2>1, <1>1, <1>3
  <2>2. CASE k > n
    <3>1. k - n \in 1 .. Len(s) - n /\ n + (k - n) = k /\ k \in n + 1 .. Len(s)
      BY <2>2
    <3> QED BY <3>1, <1>2, <1>3
  <2> QED BY <2>1, <2>2
<1>5. w = s
  BY <1>3, <1>4
<1> QED
  BY <1>5 DEF w, p, q

LEMMA AppendFacts ==
    ASSUME NEW s \in Seq(Chars), NEW c \in Chars
    PROVE  /\ Append(s, c) \in Seq(Chars) /\ Len(Append(s, c)) = Len(s) + 1
           /\ Append(s, c)[Len(s) + 1] = c
           /\ \A k \in 1 .. Len(s) : Append(s, c)[k] = s[k]
OBVIOUS

LEMMA GivenNext == ScanInv /\ Given /\ [Next]_vars => Given'
<1> SUFFICES ASSUME ScanInv, Given, [Next]_vars PROVE Given'
  OBVIOUS
<1>1. text \in Seq(Chars) /\ rest \in Seq(Chars) /\ given \in Seq(Chars)
  BY DEF ScanInv, ScanTypes
<1>2. CASE ReadLine
  <2>1. PICK n \in DOMAIN rest : /\ text' = text \o SubSeq(rest, 1, n)
                                 /\ rest' = SubSeq(rest, n + 1, Len(rest))
    BY <1>2 DEF ReadLine
  <2>2. /\ source = "file" /\ status = "reading" /\ text \o rest = given
        /\ UNCHANGED <<source, given, status>>
    BY <1>2 DEF ReadLine, Given
  <2>3. text' \o rest' = text \o rest
    <3> DEFINE p == SubSeq(rest, 1, n)
               q == SubSeq(rest, n + 1, Len(rest))
    <3>1. p \in Seq(Chars) /\ q \in Seq(Chars)
      BY <1>1
    <3>2. p \o q = rest
      <4>1. n \in 0 .. Len(rest)
        OBVIOUS
      <4> QED BY <1>1, <4>1, SplitAt
    <3> HIDE DEF p, q
    <3>3. (text \o p) \o q = text \o (p \o q)
      BY <1>1, <3>1
    <3> QED BY <2>1, <3>2, <3>3 DEF p, q
  <2> QED BY <2>2, <2>3 DEF Given
<1>3. CASE ReadLast
  <2>1. /\ source = "file" /\ status = "reading" /\ text \o rest = given
        /\ UNCHANGED <<source, given>> /\ status' = "scanning"
        /\ text' = Append(text \o rest, NewLine)
    BY <1>3 DEF ReadLast, Given
  <2> QED BY <2>1 DEF Given
<1>4. CASE ReadMissing
  BY <1>4 DEF ReadMissing, Given
<1>5. CASE Comment \/ LineEnd \/ SkipChar
  BY <1>5 DEF Comment, LineEnd, SkipChar, AtChar, reading, lexing, Given
<1>6. CASE Cut
  BY <1>6 DEF Cut, reading, Given
<1>7. CASE Lengthen \/ Separate \/ Lexed
  BY <1>7 DEF Lengthen, Separate, Lexed, AtCode, reading, lexing, Given
<1>8. CASE UNCHANGED vars
  BY <1>8 DEF vars, Given
<1> QED
  BY <1>2, <1>3, <1>4, <1>5, <1>6, <1>7, <1>8 DEF Next

\* m is t without its comments: position by position, in the line that begins
\* at from.
Without(m, t) ==
    \A from \in 1 .. Len(t), k \in 1 .. Len(t) :
        from <= k /\ (from = 1 \/ t[from - 1] = NewLine)
            /\ (\A j \in from .. k - 1 : t[j] # NewLine)
          => /\ t[k] = NewLine => m[k] = NewLine
             /\ (\A j \in from .. k : t[j] # Hash) => m[k] = t[k]
             /\ t[k] # NewLine /\ (\E j \in from .. k : t[j] = Hash) => m[k] = " "

LEMMA MeantFacts ==
    ASSUME given \in Seq(Chars), source = "file", NEW t, t = Append(given, NewLine)
    PROVE  Meant \in Seq(Chars) /\ Len(Meant) = Len(t) /\ Without(Meant, t)
<1> DEFINE u == Uncommented(given)
<1>0. NewLine \in Chars
  BY Characters
<1>1. /\ \A k \in 1 .. Len(given) : t[k] = given[k]
      /\ Len(t) = Len(given) + 1 /\ t[Len(given) + 1] = NewLine
  BY <1>0, AppendFacts
<1>2. /\ \A k \in 1 .. Len(given) :
            u[k] = IF k \in CodeOf(given) \/ given[k] = NewLine THEN given[k] ELSE " "
      /\ u \in Seq(Chars) /\ Len(u) = Len(given)
  <2>1. " " \in Chars
    BY SourceConstants
  <2>2. DOMAIN given = 1 .. Len(given) /\ \A k \in 1 .. Len(given) : given[k] \in Chars
    OBVIOUS
  <2>3. u = [k \in 1 .. Len(given) |-> IF k \in CodeOf(given) \/ given[k] = NewLine THEN given[k] ELSE " "]
    BY <2>2 DEF Uncommented
  <2> HIDE DEF u
  <2>4. u \in [1 .. Len(given) -> Chars]
    BY <2>1, <2>2, <2>3
  <2>5. Len(given) \in Nat
    OBVIOUS
  <2>6. u \in Seq(Chars) /\ Len(u) = Len(given)
    BY <2>4, <2>5
  <2> QED BY <2>3, <2>6
<1>3. Meant = Append(u, NewLine)
  BY DEF Meant
<1> HIDE DEF u
<1>4. /\ Meant \in Seq(Chars) /\ Len(Meant) = Len(t)
      /\ \A k \in 1 .. Len(given) : Meant[k] = u[k]
      /\ Meant[Len(given) + 1] = NewLine
  <2>1. /\ Append(u, NewLine) \in Seq(Chars) /\ Len(Append(u, NewLine)) = Len(u) + 1
        /\ Append(u, NewLine)[Len(u) + 1] = NewLine
        /\ \A k \in 1 .. Len(u) : Append(u, NewLine)[k] = u[k]
    BY <1>0, <1>2, AppendFacts
  <2> QED BY <1>1, <1>2, <1>3, <2>1
<1>5. ASSUME NEW from \in 1 .. Len(t), NEW k \in 1 .. Len(t), from <= k,
             from = 1 \/ t[from - 1] = NewLine,
             \A m \in from .. k - 1 : t[m] # NewLine
      PROVE  /\ t[k] = NewLine => Meant[k] = NewLine
             /\ (\A m \in from .. k : t[m] # Hash) => Meant[k] = t[k]
             /\ t[k] # NewLine /\ (\E m \in from .. k : t[m] = Hash) => Meant[k] = " "
  <2>1. CASE k = Len(given) + 1
    <3>1. t[k] = NewLine /\ Meant[k] = NewLine
      BY <1>1, <1>4, <2>1
    <3> QED BY <3>1
  <2>2. CASE k \in 1 .. Len(given)
    <3>1. Meant[k] = IF k \in CodeOf(given) \/ t[k] = NewLine THEN t[k] ELSE " "
      BY <1>1, <1>2, <1>4, <2>2
    <3>2. ASSUME \A m \in from .. k : t[m] # Hash PROVE k \in CodeOf(given)
      <4> SUFFICES ASSUME NEW h \in 1 .. k, given[h] = Hash, \A m \in h .. k : given[m] # NewLine
                   PROVE  FALSE
        BY <2>2 DEF CodeOf
      <4>1. h < from
        BY <1>1, <2>2, <3>2
      <4>2. from - 1 \in h .. k /\ from - 1 \in 1 .. Len(given) /\ t[from - 1] = NewLine
        BY <1>5, <2>2, <4>1
      <4> QED BY <1>1, <4>2
    <3>3. ASSUME NEW h \in from .. k, t[h] = Hash, t[k] # NewLine PROVE k \notin CodeOf(given)
      <4>1. h \in 1 .. k /\ given[h] = Hash
        BY <1>1, <2>2, <3>3
      <4>2. \A m \in h .. k : given[m] # NewLine
        <5> SUFFICES ASSUME NEW m \in h .. k PROVE given[m] # NewLine
          OBVIOUS
        <5>1. m \in 1 .. Len(given) /\ (m \in from .. k - 1 \/ m = k)
          BY <2>2
        <5> QED BY <1>1, <1>5, <3>3, <5>1
      <4> QED BY <4>1, <4>2 DEF CodeOf
    <3> QED BY <3>1, <3>2, <3>3
  <2>3. k = Len(given) + 1 \/ k \in 1 .. Len(given)
    <3>1. Len(given) \in Nat
      OBVIOUS
    <3> QED BY <1>1, <3>1
  <2> QED BY <2>1, <2>2, <2>3
<1> QED
  BY <1>4, <1>5 DEF Without

\* The lexer will come to the same with what is cut out as with the text that
\* is meant: up to the line that is scanned, or up to here in a comment.
InCode(st) ==
    /\ Walk(Meant)[line_start_pos - 1] = st /\ st.word = <<>>
    /\ \A m \in line_start_pos .. i - 1 : text[m] # Hash
InComment(st) ==
    /\ Walk(Meant)[i - 1] = st /\ st.word = <<>>
    /\ \E h \in line_start_pos .. i - 1 : text[h] = Hash

Agrees ==
    source = "file" /\ Plain =>
        /\ status = "scanning" => IF comment_flag THEN InComment(End(Excerpt(text, ranges)))
                                  ELSE InCode(End(Excerpt(text, ranges)))
        /\ status \notin {"reading", "scanning"} => End(code) = End(Meant)

\* The scanner at a character of a plain file.
Scanning ==
    /\ ScanInv /\ LexTypes /\ Given /\ Agrees
    /\ AtChar /\ source = "file" /\ Plain

\* What Meant has at the character the scanner is at.
LEMMA AtMeant ==
    ASSUME Scanning
    PROVE  /\ text \in Seq(Chars) /\ given \in Seq(Chars) /\ text = Append(given, NewLine)
           /\ i \in 1 .. Len(text) /\ line_start_pos \in 1 .. i
           /\ ranges \in Seq(Ranges(text)) /\ Excerpt(text, ranges) \in Seq(Chars)
           /\ Meant \in Seq(Chars) /\ Len(Meant) = Len(text)
           /\ \A k \in line_start_pos .. i :
                /\ text[k] = NewLine => Meant[k] = NewLine
                /\ (\A m \in line_start_pos .. k : text[m] # Hash) => Meant[k] = text[k]
                /\ text[k] # NewLine /\ (\E m \in line_start_pos .. k : text[m] = Hash)
                     => Meant[k] = " "
<1>1. /\ text \in Seq(Chars) /\ given \in Seq(Chars) /\ text = Append(given, NewLine)
      /\ i \in 1 .. Len(text) /\ line_start_pos \in 1 .. i /\ source = "file"
  BY DEF Scanning, ScanInv, ScanTypes, AtChar, Given
<1>2. /\ line_start_pos = 1 \/ text[line_start_pos - 1] = NewLine
      /\ \A m \in line_start_pos .. i - 1 : text[m] # NewLine
  BY DEF Scanning, ScanInv, AtLineStart
<1>3. ranges \in Seq(Ranges(text)) /\ Excerpt(text, ranges) \in Seq(Chars)
  <2>1. ranges \in Seq(Ranges(text)) /\ Len(ranges) \in 0 .. Len(ranges)
    BY DEF Scanning, LexTypes
  <2> QED BY <1>1, <2>1, PiecesFacts DEF Excerpt
<1>4. Meant \in Seq(Chars) /\ Len(Meant) = Len(text) /\ Without(Meant, text)
  BY <1>1, MeantFacts
<1>5. ASSUME NEW k \in line_start_pos .. i
      PROVE  /\ text[k] = NewLine => Meant[k] = NewLine
             /\ (\A m \in line_start_pos .. k : text[m] # Hash) => Meant[k] = text[k]
             /\ text[k] # NewLine /\ (\E m \in line_start_pos .. k : text[m] = Hash)
                  => Meant[k] = " "
  <2>1. /\ line_start_pos \in 1 .. Len(text) /\ k \in 1 .. Len(text) /\ line_start_pos <= k
        /\ \A m \in line_start_pos .. k - 1 : text[m] # NewLine
    BY <1>1, <1>2
  <2> QED BY <1>2, <1>4, <2>1 DEF Without
<1> QED
  BY <1>1, <1>3, <1>4, <1>5

\* A separator behind a word that has ended changes nothing.
LEMMA StillHere ==
    ASSUME NEW m \in Seq(Chars), NEW k \in 1 .. Len(m), m[k] \in Separators,
           Walk(m)[k - 1].word = <<>>
    PROVE  Walk(m)[k] = Walk(m)[k - 1]
<1>1. k - 1 \in Nat /\ k \in Nat /\ k - 1 <= k /\ \A j \in (k - 1) + 1 .. k : j = k
  OBVIOUS
<1> QED
  BY <1>1, WalkStill

LEMMA SkipAgrees ==
    ASSUME Scanning, SkipChar
    PROVE  Agrees'
<1>1. /\ UNCHANGED <<source, given, text, line_start_pos, ranges, comment_flag, status>>
      /\ i' = i + 1 /\ text[i] \notin {Hash, NewLine} /\ status = "scanning"
  BY DEF SkipChar, AtChar, reading
<1>2. Meant' = Meant /\ Excerpt(text, ranges)' = Excerpt(text, ranges)
  BY <1>1 DEF Meant, Excerpt
<1>3. /\ i \in 1 .. Len(text) /\ line_start_pos \in 1 .. i
      /\ Meant \in Seq(Chars) /\ Len(Meant) = Len(text)
      /\ (\E m \in line_start_pos .. i : text[m] = Hash) => Meant[i] = " "
  <2>1. /\ i \in 1 .. Len(text) /\ line_start_pos \in 1 .. i
        /\ Meant \in Seq(Chars) /\ Len(Meant) = Len(text)
    BY AtMeant
  <2>2. i \in line_start_pos .. i
    BY <2>1
  <2>3. text[i] # NewLine /\ (\E m \in line_start_pos .. i : text[m] = Hash) => Meant[i] = " "
    BY <2>2, AtMeant
  <2> QED BY <1>1, <2>1, <2>3
<1>6. i \in Nat /\ line_start_pos \in Nat /\ line_start_pos <= i /\ i' - 1 = i
  <2>1. i \in 1 .. Len(text) /\ line_start_pos \in 1 .. i /\ i' = i + 1
    BY <1>1, <1>3
  <2> QED BY <2>1
<1> DEFINE st == End(Excerpt(text, ranges))
<1>4. CASE comment_flag
  <2>1. InComment(st)
    BY <1>1, <1>4 DEF Scanning, Agrees
  <2>2. Walk(Meant)[i - 1] = st /\ st.word = <<>>
        /\ \E h \in line_start_pos .. i - 1 : text[h] = Hash
    BY <2>1 DEF InComment
  <2>3. Meant[i] \in Separators
    <3>1. \E m \in line_start_pos .. i : text[m] = Hash
      BY <1>6, <2>2
    <3>2. Meant[i] = " "
      BY <1>3, <3>1
    <3> QED BY <3>2, Characters
  <2>4. Walk(Meant)[i] = st
    <3>1. i \in 1 .. Len(Meant) /\ Walk(Meant)[i - 1].word = <<>>
      BY <1>3, <2>2
    <3>2. Walk(Meant)[i] = Walk(Meant)[i - 1]
      BY <1>3, <2>3, <3>1, StillHere
    <3> QED BY <2>2, <3>2
  <2>5. i' - 1 = i /\ \E h \in line_start_pos .. i' - 1 : text[h] = Hash
    <3>1. \E h \in line_start_pos .. i : text[h] = Hash
      BY <1>6, <2>2
    <3> QED BY <1>6, <3>1
  <2>6. InComment(st)'
    BY <1>1, <1>2, <2>2, <2>4, <2>5 DEF InComment
  <2> QED BY <1>1, <1>4, <2>6 DEF Agrees
<1>5. CASE ~comment_flag
  <2>1. InCode(st)
    BY <1>1, <1>5 DEF Scanning, Agrees
  <2>2. \A m \in line_start_pos .. i' - 1 : text[m] # Hash
    <3>1. \A m \in line_start_pos .. i - 1 : text[m] # Hash
      BY <2>1 DEF InCode
    <3>2. \A m \in line_start_pos .. i : m = i \/ m \in line_start_pos .. i - 1
      BY <1>6
    <3> QED BY <1>1, <1>6, <3>1, <3>2
  <2>3. InCode(st)'
    BY <1>1, <1>2, <2>1, <2>2 DEF InCode
  <2> QED BY <1>1, <1>5, <2>3 DEF Agrees
<1> QED
  BY <1>4, <1>5

\* A plain file has one comment in a line, and something in front of the first.
LEMMA PlainComment ==
    ASSUME Scanning, text[i] = Hash, NEW end \in CodeEnds(i)
    PROVE  /\ \A m \in line_start_pos .. i - 1 : text[m] # Hash
           /\ end \in line_start_pos .. i /\ \A m \in end .. i - 1 : text[m] \in Blanks
<1>1. /\ given \in Seq(Chars) /\ text = Append(given, NewLine) /\ source = "file" /\ Plain
      /\ i \in 1 .. Len(text) /\ line_start_pos \in 1 .. i
      /\ \A m \in line_start_pos .. i - 1 : text[m] # NewLine
  BY AtMeant DEF Scanning, ScanInv, AtLineStart
<1>2. NewLine \in Chars /\ Hash # NewLine
  BY Characters
<1>3. /\ \A k \in 1 .. Len(given) : text[k] = given[k]
      /\ Len(text) = Len(given) + 1 /\ text[Len(given) + 1] = NewLine /\ Len(given) \in Nat
  BY <1>1, <1>2, AppendFacts
<1>4. i \in 1 .. Len(given) /\ given[i] = Hash /\ DOMAIN given = 1 .. Len(given)
  BY <1>1, <1>2, <1>3
<1>5. ASSUME NEW h \in line_start_pos .. i - 1, text[h] = Hash PROVE FALSE
  <2>1. h \in 1 .. Len(given) /\ given[h] = Hash /\ h < i
    BY <1>1, <1>3, <1>4, <1>5
  <2>2. PICK m \in h .. i : given[m] = NewLine
    BY <1>1, <1>4, <2>1 DEF Plain
  <2>3. m \in line_start_pos .. i - 1 /\ m \in 1 .. Len(given)
    BY <1>1, <1>2, <1>4, <1>5, <2>1, <2>2
  <2> QED BY <1>1, <1>3, <2>2, <2>3
<1>6. 1 \notin BlanksFrom(i)
  <2>1. PICK m \in 1 .. i - 1 : given[m] \notin Blanks
    BY <1>1, <1>4 DEF Plain
  <2>2. m \in 1 .. Len(given)
    BY <1>4, <2>1
  <2>3. text[m] \notin Blanks
    BY <1>3, <2>1, <2>2
  <2> QED BY <2>1, <2>3 DEF BlanksFrom
<1>7. end \in BlanksFrom(i)
  BY <1>6 DEF CodeEnds
<1>8. end \in line_start_pos .. i
  BY <1>7, StaysInLine DEF Scanning
<1>9. \A m \in end .. i - 1 : text[m] \in Blanks
  BY <1>7 DEF BlanksFrom
<1> QED
  BY <1>5, <1>8, <1>9

LEMMA PartOf ==
    ASSUME NEW s \in Seq(Chars), NEW from \in Nat, NEW to \in Nat, NEW b \in Nat,
           b + 1 = from, from <= to, to <= Len(s)
    PROVE  /\ SubSeq(s, from, to - 1) \in Seq(Chars)
           /\ Len(SubSeq(s, from, to - 1)) = to - from
           /\ \A k \in 1 .. Len(SubSeq(s, from, to - 1)) : SubSeq(s, from, to - 1)[k] = s[b + k]
<1>1. /\ SubSeq(s, from, to - 1) \in Seq(Chars)
      /\ Len(SubSeq(s, from, to - 1)) = to - from
  OBVIOUS
<1> QED
  BY <1>1

\* The code in front of a separator, cut out and ended by a new line.
LEMMA LineCut ==
    ASSUME Scanning, NEW st, st = End(Excerpt(text, ranges)), InCode(st),
           NEW end \in line_start_pos .. i,
           \A m \in line_start_pos .. end - 1 : Meant[m] = text[m],
           Meant[end] \in Separators,
           NEW r \in Ranges(text), r = [from |-> line_start_pos, to |-> end]
    PROVE  /\ Walk(Meant)[end] = End(Excerpt(text, Append(ranges, r)))
           /\ Walk(Meant)[end].word = <<>>
<1>1. /\ text \in Seq(Chars) /\ Len(Meant) = Len(text) /\ Meant \in Seq(Chars)
      /\ i \in 1 .. Len(text) /\ line_start_pos \in 1 .. i
      /\ ranges \in Seq(Ranges(text)) /\ Excerpt(text, ranges) \in Seq(Chars)
  BY AtMeant
<1> DEFINE p == Excerpt(text, ranges)
           a == line_start_pos - 1
           q == SubSeq(text, line_start_pos, end - 1)
<1> HIDE DEF p
<1>0. /\ line_start_pos \in Nat /\ end \in Nat /\ Len(text) \in Nat /\ a \in Nat
      /\ 1 <= line_start_pos /\ line_start_pos <= end /\ end <= Len(text)
      /\ a + 1 = line_start_pos
  <2>1. Len(text) \in Nat
    BY <1>1
  <2>2. i \in 1 .. Len(text) /\ line_start_pos \in 1 .. i /\ end \in line_start_pos .. i
    BY <1>1
  <2> QED BY <2>1, <2>2
<1> HIDE DEF a
<1>2. /\ q \in Seq(Chars) /\ Len(q) = end - line_start_pos
      /\ \A k \in 1 .. Len(q) : q[k] = text[a + k]
  BY <1>0, <1>1, PartOf DEF q
<1>3. Excerpt(text, Append(ranges, r)) = p \o Append(q, NewLine)
  <2>1. Excerpt(text, Append(ranges, r)) = p \o Piece(text, r)
    BY <1>1, ExcerptNext DEF p
  <2>2. Piece(text, r) = Append(q, NewLine)
    BY DEF Piece
  <2> QED BY <2>1, <2>2
<1>4. Walk(Meant)[a] = End(p)
  BY DEF InCode, a, p
<1>5. /\ a \in Nat /\ a + Len(q) + 1 = end /\ a + Len(q) < Len(Meant) /\ p \in Seq(Chars)
      /\ \A k \in 1 .. Len(q) : a + k \in line_start_pos .. end - 1
  <2> HIDE DEF q
  <2>1. p \in Seq(Chars)
    BY <1>1 DEF p
  <2>2. Len(q) = end - line_start_pos /\ Len(Meant) = Len(text)
    BY <1>1, <1>2
  <2> QED BY <1>0, <2>1, <2>2
<1> HIDE DEF q
<1>6. \A k \in 1 .. Len(q) : Meant[a + k] = q[k]
  BY <1>2, <1>5
<1>7. Meant[a + Len(q) + 1] \in Separators
  BY <1>5
<1>8. /\ Walk(Meant)[a + Len(q) + 1] = End(p \o Append(q, NewLine))
      /\ Walk(Meant)[a + Len(q) + 1].word = <<>>
  BY <1>1, <1>2, <1>4, <1>5, <1>6, <1>7, WalkLine
<1> QED
  BY <1>3, <1>5, <1>8

LEMMA CommentAgrees ==
    ASSUME Scanning, Comment
    PROVE  Agrees'
<1>1. /\ UNCHANGED <<source, given, text, line_start_pos, status>> /\ comment_flag' = TRUE
      /\ i' = i + 1 /\ text[i] = Hash /\ status = "scanning"
  BY DEF Comment, AtChar, reading
<1>2. PICK end \in CodeEnds(i) :
        ranges' = Append(ranges, [from |-> line_start_pos, to |-> end])
  BY DEF Comment
<1> DEFINE r == [from |-> line_start_pos, to |-> end]
           st == End(Excerpt(text, ranges))
<1>3. r \in Ranges(text)
  BY CommentRange DEF Scanning
<1>4. /\ \A m \in line_start_pos .. i - 1 : text[m] # Hash
      /\ end \in line_start_pos .. i /\ \A m \in end .. i - 1 : text[m] \in Blanks
  BY <1>1, PlainComment
<1>5. /\ i \in 1 .. Len(text) /\ line_start_pos \in 1 .. i
      /\ Meant \in Seq(Chars) /\ Len(Meant) = Len(text) /\ text \in Seq(Chars)
  BY AtMeant
<1>6. i \in Nat /\ line_start_pos \in Nat /\ line_start_pos <= i /\ i' - 1 = i /\ end \in Nat
      /\ line_start_pos <= end /\ end <= i
  <2>1. Len(text) \in Nat
    BY <1>5
  <2>2. i \in 1 .. Len(text) /\ line_start_pos \in 1 .. i /\ i' = i + 1 /\ end \in line_start_pos .. i
    BY <1>1, <1>4, <1>5
  <2> QED BY <2>1, <2>2
<1>7. ~comment_flag
  <2>1. comment_flag \in BOOLEAN /\ (comment_flag => InComment(st))
    BY <1>1 DEF Scanning, Agrees, LexTypes
  <2> QED BY <1>4, <2>1 DEF InComment
<1>8. InCode(st)
  BY <1>1, <1>7 DEF Scanning, Agrees
<1>9. \A k \in line_start_pos .. i - 1 : Meant[k] = text[k]
  <2> SUFFICES ASSUME NEW k \in line_start_pos .. i - 1 PROVE Meant[k] = text[k]
    OBVIOUS
  <2>1. k \in line_start_pos .. i /\ \A m \in line_start_pos .. k : text[m] # Hash
    BY <1>4, <1>6
  <2> QED BY <2>1, AtMeant
<1>10. Meant[i] = " "
  <2>1. i \in line_start_pos .. i
    BY <1>6
  <2>2. Hash # NewLine
    BY Characters
  <2>3. text[i] # NewLine /\ \E m \in line_start_pos .. i : text[m] = Hash
    BY <1>1, <2>1, <2>2
  <2> QED BY <2>1, <2>3, AtMeant
<1>11. \A k \in end .. i : Meant[k] \in Separators
  <2> SUFFICES ASSUME NEW k \in end .. i PROVE Meant[k] \in Separators
    OBVIOUS
  <2>1. CASE k = i
    BY <2>1, <1>10, Characters
  <2>2. CASE k \in end .. i - 1
    <3>1. text[k] \in Blanks /\ k \in line_start_pos .. i - 1
      BY <1>4, <1>6, <2>2
    <3> QED BY <1>9, <3>1 DEF Separators
  <2> QED BY <2>1, <2>2, <1>6
<1> HIDE DEF r, st
<1>12. /\ Walk(Meant)[end] = End(Excerpt(text, Append(ranges, r)))
       /\ Walk(Meant)[end].word = <<>>
  <2>1. \A m \in line_start_pos .. end - 1 : Meant[m] = text[m]
    BY <1>6, <1>9
  <2>2. Meant[end] \in Separators
    BY <1>6, <1>11
  <2> QED BY <1>3, <1>4, <1>8, <2>1, <2>2, LineCut DEF r, st
<1>13. Walk(Meant)[i] = Walk(Meant)[end]
  <2>1. i <= Len(Meant) /\ \A k \in end + 1 .. i : Meant[k] \in Separators
    <3>1. \A k \in end + 1 .. i : k \in end .. i
      BY <1>6
    <3>2. i <= Len(Meant)
      BY <1>5
    <3> QED BY <1>11, <3>1, <3>2
  <2> QED BY <1>5, <1>6, <1>12, <2>1, WalkStill
<1>14. \E h \in line_start_pos .. i' - 1 : text[h] = Hash
  BY <1>1, <1>6
<1>15. Meant' = Meant /\ ranges' = Append(ranges, r)
  BY <1>1, <1>2 DEF Meant, r
<1>16. InComment(End(Excerpt(text, ranges)))'
  BY <1>1, <1>6, <1>12, <1>13, <1>14, <1>15 DEF InComment
<1> QED
  BY <1>1, <1>16 DEF Agrees

LEMMA LineEndAgrees ==
    ASSUME Scanning, LineEnd
    PROVE  Agrees'
<1>1. /\ UNCHANGED <<source, given, text, status>> /\ comment_flag' = FALSE
      /\ i' = i + 1 /\ line_start_pos' = i + 1 /\ text[i] = NewLine /\ status = "scanning"
      /\ ranges' = IF ~comment_flag /\ line_start_pos # i
                   THEN Append(ranges, [from |-> line_start_pos, to |-> i]) ELSE ranges
  BY DEF LineEnd, AtChar, reading
<1>2. /\ i \in 1 .. Len(text) /\ line_start_pos \in 1 .. i
      /\ Meant \in Seq(Chars) /\ Len(Meant) = Len(text) /\ text \in Seq(Chars)
  BY AtMeant
<1>3. /\ i \in Nat /\ line_start_pos \in Nat /\ line_start_pos <= i /\ 1 <= line_start_pos
      /\ i <= Len(text) /\ Len(text) \in Nat /\ i' = i + 1 /\ line_start_pos' = i + 1
  <2>1. Len(text) \in Nat
    BY <1>2
  <2> QED BY <1>1, <1>2, <2>1
<1>4. Meant[i] = NewLine
  <2>1. i \in line_start_pos .. i
    BY <1>3
  <2> QED BY <1>1, <2>1, AtMeant
<1>5. Meant[i] \in Separators
  BY <1>4, Characters
<1> DEFINE st == End(Excerpt(text, ranges))
<1>6. /\ comment_flag \in BOOLEAN
      /\ IF comment_flag THEN InComment(st) ELSE InCode(st)
  BY <1>1 DEF Scanning, Agrees, LexTypes
\* What is left to show: the new line leads to the state of the new ranges.
<1>7. SUFFICES /\ Walk(Meant)[i] = End(Excerpt(text, ranges'))
               /\ Walk(Meant)[i].word = <<>>
  <2> SUFFICES ASSUME /\ Walk(Meant)[i] = End(Excerpt(text, ranges'))
                      /\ Walk(Meant)[i].word = <<>>
               PROVE  Agrees'
    OBVIOUS
  <2>1. Meant' = Meant
    BY <1>1 DEF Meant
  <2>2. line_start_pos' - 1 = i /\ \A m \in line_start_pos' .. i' - 1 : FALSE
    BY <1>3
  <2>3. InCode(End(Excerpt(text, ranges)))'
    BY <1>1, <2>1, <2>2 DEF InCode
  <2> QED BY <1>1, <2>3 DEF Agrees
<1>8. Walk(Meant)[i - 1].word = <<>> => Walk(Meant)[i] = Walk(Meant)[i - 1]
  <2>1. i \in 1 .. Len(Meant)
    BY <1>2
  <2> QED BY <1>2, <1>5, <2>1, StillHere
<1>9. CASE comment_flag
  <2>1. Walk(Meant)[i - 1] = st /\ st.word = <<>> /\ ranges' = ranges
    BY <1>1, <1>6, <1>9 DEF InComment
  <2> QED BY <1>8, <2>1
<1>10. CASE ~comment_flag /\ line_start_pos = i
  <2>1. Walk(Meant)[i - 1] = st /\ st.word = <<>> /\ ranges' = ranges
    BY <1>1, <1>6, <1>10 DEF InCode
  <2> QED BY <1>8, <2>1
<1>11. CASE ~comment_flag /\ line_start_pos # i
  <2> DEFINE r == [from |-> line_start_pos, to |-> i]
  <2>1. InCode(st) /\ ranges' = Append(ranges, r)
    BY <1>1, <1>6, <1>11
  <2>2. r \in Ranges(text) /\ i \in line_start_pos .. i
    BY <1>3 DEF Ranges
  <2>3. ASSUME NEW m \in line_start_pos .. i - 1 PROVE Meant[m] = text[m]
    <3>1. m \in line_start_pos .. i /\ \A h \in line_start_pos .. m : h \in line_start_pos .. i - 1
      BY <1>3
    <3>2. \A h \in line_start_pos .. m : text[h] # Hash
      BY <2>1, <3>1 DEF InCode
    <3> QED BY <3>1, <3>2, AtMeant
  <2> HIDE DEF r, st
  <2>4. /\ Walk(Meant)[i] = End(Excerpt(text, Append(ranges, r)))
        /\ Walk(Meant)[i].word = <<>>
    BY <1>5, <2>1, <2>2, <2>3, LineCut DEF r, st
  <2> QED BY <2>1, <2>4
<1> QED
  BY <1>6, <1>9, <1>10, <1>11

LEMMA CutAgrees ==
    ASSUME ScanInv, LexTypes, Given, Agrees, Cut
    PROVE  Agrees'
<1> SUFFICES ASSUME source = "file", Plain PROVE End(code') = End(Meant)
  <2>1. UNCHANGED <<source, given>> /\ status' = "lexing"
    BY DEF Cut, reading
  <2>2. Meant' = Meant /\ (Plain' <=> Plain)
    BY <2>1 DEF Meant, Plain
  <2> QED BY <2>1, <2>2 DEF Agrees, End
<1>1. status = "scanning" /\ i > Len(text) /\ code' = Excerpt(text, ranges)
  BY DEF Cut, Excerpt
<1>2. /\ text \in Seq(Chars) /\ given \in Seq(Chars) /\ text = Append(given, NewLine)
      /\ i \in 1 .. Len(text) + 1 /\ line_start_pos \in 1 .. i
      /\ \A m \in line_start_pos .. i - 1 : text[m] # NewLine
  BY <1>1 DEF ScanInv, ScanTypes, Given, AtLineStart
<1>3. /\ NewLine \in Chars
  BY Characters
<1>4. Len(text) = Len(given) + 1 /\ text[Len(text)] = NewLine /\ Len(given) \in Nat
  BY <1>2, <1>3, AppendFacts
<1>5. i = Len(text) + 1 /\ line_start_pos = i
  <2>1. i \in Nat /\ line_start_pos \in Nat /\ i = Len(text) + 1 /\ line_start_pos <= i
    BY <1>1, <1>2, <1>4
  <2>2. line_start_pos <= Len(text) => Len(text) \in line_start_pos .. i - 1
    BY <1>4, <2>1
  <2>3. ~(line_start_pos <= Len(text))
    BY <1>2, <1>4, <2>2
  <2> QED BY <1>4, <2>1, <2>3
<1>6. Meant \in Seq(Chars) /\ Len(Meant) = Len(text)
  BY <1>2, MeantFacts
<1> DEFINE st == End(Excerpt(text, ranges))
<1>7. Walk(Meant)[i - 1] = st
  <2>1. IF comment_flag THEN InComment(st) ELSE InCode(st)
    BY <1>1 DEF Agrees
  <2> QED BY <1>5, <2>1 DEF InComment, InCode
<1>8. i - 1 = Len(Meant)
  BY <1>4, <1>5, <1>6
<1> QED
  BY <1>1, <1>7, <1>8 DEF End

LEMMA InitAgrees == Init => Agrees
  BY DEF Init, Agrees

LEMMA ReadAgrees ==
    ASSUME ScanInv, LexTypes, Given, ReadLast
    PROVE  Agrees'
<1>1. /\ ranges = <<>> /\ comment_flag = FALSE /\ line_start_pos = 1 /\ i = 1
      /\ UNCHANGED <<source, given, ranges, comment_flag, line_start_pos, i>>
      /\ status' = "scanning" /\ text' = Append(given, NewLine) /\ source = "file"
      /\ text \o rest = given /\ given \in Seq(Chars)
  BY DEF ScanInv, ScanTypes, ReadFirst, LexTypes, Given, ReadLast, scanning
<1>0. NewLine \in Chars
  BY Characters
<1>2. NewLine \in Chars /\ <<>> \in Seq(Chars) /\ <<>> \in Seq(Ranges(text')) /\ Len(<<>>) = 0
  BY <1>0
<1>3. text' \in Seq(Chars)
  BY <1>1, <1>2, AppendFacts
<1>4. Excerpt(text', ranges') = <<>>
  <2>1. Pieces(text', <<>>)[0] = <<>>
    BY <1>2, <1>3, PiecesFacts
  <2> QED BY <1>1, <1>2, <2>1 DEF Excerpt
<1>5. Meant' = Meant /\ Meant \in Seq(Chars)
  <2>1. Meant' = Meant
    BY <1>1 DEF Meant
  <2> QED BY <1>1, <2>1, MeantFacts
<1>6. Walk(Meant)[0] = Begin /\ End(<<>>) = Begin
  BY <1>2, <1>5, WalkFacts DEF End
<1>7. line_start_pos' - 1 = 0 /\ \A m \in line_start_pos' .. i' - 1 : FALSE
  BY <1>1
<1>8. Begin.word = <<>>
  BY DEF Begin
<1>9. InCode(End(Excerpt(text, ranges)))'
  BY <1>4, <1>5, <1>6, <1>7, <1>8 DEF InCode
<1> QED
  BY <1>1, <1>9 DEF Agrees

LEMMA AgreesNext ==
    ScanInv /\ LexTypes /\ Given /\ Agrees /\ [Next]_vars => Agrees'
<1> SUFFICES ASSUME ScanInv, LexTypes, Given, Agrees, [Next]_vars, source' = "file", Plain'
             PROVE  Agrees'
  BY DEF Agrees
<1>1. source' = source /\ given' = given
  BY DEF Next, vars, ReadLine, ReadLast, ReadMissing, Comment, LineEnd, SkipChar, Cut,
         Lengthen, Separate, Lexed, reading
<1>2. source = "file" /\ Plain /\ Meant' = Meant
  BY <1>1 DEF Plain, Meant
<1>3. CASE ReadLine \/ ReadMissing
  BY <1>3 DEF ReadLine, ReadMissing, Agrees
<1>4. CASE ReadLast
  BY <1>4, ReadAgrees
<1>5. CASE Comment \/ LineEnd \/ SkipChar
  <2>1. Scanning
    BY <1>2, <1>5 DEF Scanning, Comment, LineEnd, SkipChar
  <2> QED BY <1>5, <2>1, CommentAgrees, LineEndAgrees, SkipAgrees
<1>6. CASE Cut
  BY <1>6, CutAgrees
<1>7. CASE Lengthen \/ Separate \/ Lexed
  <2>1. status = "lexing" /\ status' \notin {"reading", "scanning"} /\ code' = code
    BY <1>7 DEF Lengthen, Separate, Lexed, AtCode, lexing
  <2>2. End(code) = End(Meant)
    BY <1>2, <2>1 DEF Agrees
  <2> QED BY <1>2, <2>1, <2>2 DEF Agrees
<1>8. CASE UNCHANGED vars
  <2>1. UNCHANGED <<text, i, line_start_pos, comment_flag, ranges, code, status>>
    BY <1>8 DEF vars
  <2>2. \A st : InCode(st)' <=> InCode(st)
    BY <1>2, <2>1 DEF InCode
  <2>3. \A st : InComment(st)' <=> InComment(st)
    BY <1>2, <2>1 DEF InComment
  <2> QED BY <1>2, <2>1, <2>2, <2>3 DEF Agrees
<1> QED
  BY <1>3, <1>4, <1>5, <1>6, <1>7, <1>8 DEF Next

-----------------------------------------------------------------------------
(* The lexer takes the walk along the code.                                *)

\* The lexer is at this state of the walk.
Reached(st) == word = st.word /\ tokens = st.tokens /\ ~st.wrong

LexAgrees ==
    /\ status \in {"reading", "scanning"} => tokens = <<>>
    /\ status \in {"lexing", "lexed"} => Reached(Walk(code)[at - 1])
    /\ status = "lexed" => at = Len(code) + 1
    /\ status = "thrown" => at \in 1 .. Len(code) /\ Walk(code)[at].wrong

LEMMA AtBegin ==
    ASSUME code \in Seq(Chars), at = 1, word = <<>>, tokens = <<>>
    PROVE  Reached(Walk(code)[at - 1])
<1>1. Walk(code)[0] = Begin /\ at - 1 = 0
  BY WalkFacts
<1> QED
  BY <1>1 DEF Reached, Begin

LEMMA InitLex == Init => LexAgrees
<1> SUFFICES ASSUME Init PROVE LexAgrees
  OBVIOUS
<1>1. code \in Seq(Chars) /\ at = 1 /\ word = <<>> /\ tokens = <<>>
  BY InitTypes DEF LexTypes, Init
<1>2. Reached(Walk(code)[at - 1])
  BY <1>1, AtBegin
<1>3. status \in {"lexing", "reading"}
  BY DEF Init
<1> QED
  BY <1>1, <1>2, <1>3 DEF LexAgrees

\* One step of the lexer at a character: the state before it and after it.
LEMMA AtNext ==
    ASSUME LexTypes, LexAgrees, AtCode
    PROVE  /\ at \in 1 .. Len(code) /\ code[at] \in Chars
           /\ Walk(code)[at - 1] \in States /\ Reached(Walk(code)[at - 1])
           /\ Walk(code)[at] = After(Walk(code)[at - 1], code[at])
<1>1. code \in Seq(Chars) /\ at \in 1 .. Len(code)
  BY DEF LexTypes, AtCode
<1>2. code[at] \in Chars /\ at - 1 \in Nat /\ at - 1 < Len(code) /\ (at - 1) + 1 = at
  BY <1>1
<1>3. /\ Walk(code)[at - 1] \in States
      /\ Walk(code)[at] = After(Walk(code)[at - 1], code[at])
  <2> DEFINE k == at - 1
  <2>1. k \in Nat /\ k < Len(code) /\ k + 1 = at
    BY <1>2
  <2> HIDE DEF k
  <2>2. Walk(code)[k] \in States /\ Walk(code)[k + 1] = After(Walk(code)[k], code[k + 1])
    BY <1>1, <2>1, Next1
  <2>3. Walk(code)[k] \in States /\ Walk(code)[at] = After(Walk(code)[k], code[at])
    BY <2>1, <2>2
  <2> QED BY <2>3 DEF k
<1>4. Reached(Walk(code)[at - 1])
  BY DEF LexAgrees, AtCode
<1> QED
  BY <1>1, <1>2, <1>3, <1>4

LEMMA AtSeparator ==
    ASSUME NEW st \in States, NEW c, c \notin AlphaNumeric
    PROVE  /\ After(st, c).word = <<>>
           /\ After(st, c).tokens = st.tokens \o WordTokens(st.word) \o MarkTokens(c)
           /\ After(st, c).wrong <=> (st.wrong \/ (st.word # <<>> /\ WrongNumber(st.word)))
<1> DEFINE t == After(st, c)
<1>1. /\ t.word = <<>> /\ t.tokens = st.tokens \o WordTokens(st.word) \o MarkTokens(c)
      /\ t.wrong = (st.wrong \/ (st.word # <<>> /\ WrongNumber(st.word)))
  BY DEF After
<1>2. st.wrong \in BOOLEAN
  BY DEF States
<1> HIDE DEF t
<1>3. t.wrong <=> (st.wrong \/ (st.word # <<>> /\ WrongNumber(st.word)))
  BY <1>1, <1>2
<1> QED
  BY <1>1, <1>3 DEF t

LEMMA LexNext ==
    ScanInv /\ LexTypes /\ LexAgrees /\ [Next]_vars => LexAgrees'
<1> SUFFICES ASSUME ScanInv, LexTypes, LexAgrees, [Next]_vars PROVE LexAgrees'
  OBVIOUS
<1>1. CASE ReadLine \/ ReadLast \/ ReadMissing \/ Comment \/ LineEnd \/ SkipChar
  <2>1. /\ status \in {"reading", "scanning"} /\ status' \in {"reading", "scanning"}
        /\ tokens' = tokens
    BY <1>1 DEF ReadLine, ReadLast, ReadMissing, Comment, LineEnd, SkipChar, AtChar, lexing
  <2> QED BY <2>1 DEF LexAgrees
<1>2. CASE Cut
  <2>1. status' = "lexing" /\ at' = 1 /\ word' = <<>> /\ tokens' = <<>> /\ code' \in Seq(Chars)
    <3>1. /\ at = 1 /\ word = <<>> /\ tokens = <<>> /\ status' = "lexing"
          /\ UNCHANGED <<at, word, tokens>>
      BY <1>2 DEF Cut, LexTypes, LexAgrees
    <3>2. LexTypes'
      BY TypesNext
    <3> QED BY <3>1, <3>2 DEF LexTypes
  <2>2. Walk(code')[0] = Begin /\ at' - 1 = 0
    BY <2>1, WalkFacts
  <2>3. Reached(Walk(code)[at - 1])'
    BY <2>1, <2>2 DEF Reached, Begin
  <2> QED BY <2>1, <2>3 DEF LexAgrees
<1>3. CASE Lengthen
  <2>1. /\ word' = Append(word, code[at]) /\ at' = at + 1 /\ UNCHANGED <<code, tokens, status>>
        /\ status = "lexing" /\ code[at] \in AlphaNumeric /\ AtCode
    BY <1>3 DEF Lengthen, AtCode
  <2>2. /\ at \in 1 .. Len(code) /\ Reached(Walk(code)[at - 1])
        /\ Walk(code)[at] = After(Walk(code)[at - 1], code[at])
    BY <2>1, AtNext
  <2> DEFINE st == Walk(code)[at - 1]
  <2>3. /\ Walk(code)[at].word = Append(st.word, code[at])
        /\ Walk(code)[at].tokens = st.tokens
        /\ Walk(code)[at].wrong = st.wrong
    BY <2>1, <2>2 DEF After
  <2>4. word = st.word /\ tokens = st.tokens /\ ~st.wrong
    BY <2>2 DEF Reached
  <2>5. at' - 1 = at
    BY <2>1, <2>2
  <2> HIDE DEF st
  <2>6. Reached(Walk(code)[at - 1])'
    BY <2>1, <2>3, <2>4, <2>5 DEF Reached
  <2> QED BY <2>1, <2>6 DEF LexAgrees
<1>4. CASE Separate
  <2>1. /\ status = "lexing" /\ code[at] \notin AlphaNumeric /\ AtCode /\ code' = code
    BY <1>4 DEF Separate, AtCode
  <2>2. /\ at \in 1 .. Len(code) /\ Reached(Walk(code)[at - 1])
        /\ Walk(code)[at] = After(Walk(code)[at - 1], code[at])
    BY <2>1, AtNext
  <2> DEFINE st == Walk(code)[at - 1]
  <2>3. /\ Walk(code)[at].word = <<>>
        /\ Walk(code)[at].tokens = st.tokens \o WordTokens(st.word) \o MarkTokens(code[at])
        /\ Walk(code)[at].wrong <=> (st.wrong \/ (st.word # <<>> /\ WrongNumber(st.word)))
    <3>1. st \in States /\ Walk(code)[at] = After(st, code[at])
      BY <2>1, AtNext
    <3> HIDE DEF st
    <3> DEFINE new == Walk(code)[at]
    <3>2. new = After(st, code[at])
      BY <3>1
    <3> HIDE DEF new
    <3>3. /\ After(st, code[at]).word = <<>>
          /\ After(st, code[at]).tokens = st.tokens \o WordTokens(st.word) \o MarkTokens(code[at])
          /\ After(st, code[at]).wrong <=> (st.wrong \/ (st.word # <<>> /\ WrongNumber(st.word)))
      BY <2>1, <3>1, AtSeparator
    <3>4. /\ new.word = <<>>
          /\ new.tokens = st.tokens \o WordTokens(st.word) \o MarkTokens(code[at])
          /\ new.wrong <=> (st.wrong \/ (st.word # <<>> /\ WrongNumber(st.word)))
      BY <3>2, <3>3
    <3> QED BY <3>4, Zenon DEF new
  <2>4. word = st.word /\ tokens = st.tokens /\ ~st.wrong
    BY <2>2 DEF Reached
  <2> HIDE DEF st
  <2>5. CASE word # <<>> /\ WrongNumber(word)
    <3>1. status' = "thrown" /\ at' = at
      BY <1>4, <2>5 DEF Separate
    <3>2. Walk(code)[at].wrong
      BY <2>3, <2>4, <2>5
    <3> QED BY <2>1, <2>2, <3>1, <3>2 DEF LexAgrees
  <2>6. CASE ~(word # <<>> /\ WrongNumber(word))
    <3>1. /\ tokens' = tokens \o WordTokens(word) \o MarkTokens(code[at])
          /\ word' = <<>> /\ at' = at + 1 /\ status' = status
      BY <1>4, <2>6 DEF Separate, WordTokens, MarkTokens
    <3>2. at' - 1 = at
      BY <2>2, <3>1
    <3>3. ~Walk(code)[at].wrong
      BY <2>3, <2>4, <2>6
    <3>4. Reached(Walk(code)[at - 1])'
      BY <2>1, <2>3, <2>4, <3>1, <3>2, <3>3 DEF Reached
    <3> QED BY <2>1, <3>1, <3>4 DEF LexAgrees
  <2> QED BY <2>5, <2>6
<1>5. CASE Lexed
  <2>1. /\ status = "lexing" /\ at > Len(code) /\ status' = "lexed"
        /\ UNCHANGED <<code, at, word, tokens>>
    BY <1>5 DEF Lexed, lexing
  <2>2. at = Len(code) + 1
    BY <2>1 DEF LexTypes
  <2>3. Reached(Walk(code)[at - 1])'
    BY <2>1 DEF LexAgrees, Reached
  <2> QED BY <2>1, <2>2, <2>3 DEF LexAgrees
<1>6. CASE UNCHANGED vars
  <2>1. UNCHANGED <<code, at, word, tokens, status>>
    BY <1>6 DEF vars
  <2>2. Reached(Walk(code)[at - 1])' <=> Reached(Walk(code)[at - 1])
    BY <2>1 DEF Reached
  <2> QED BY <2>1, <2>2 DEF LexAgrees
<1> QED
  BY <1>1, <1>2, <1>3, <1>4, <1>5, <1>6 DEF Next

LEMMA StartsAgree ==
    ASSUME NEW s \in Seq(Chars)
    PROVE  /\ Starts(s) = StartsTo(s, Len(s))
           /\ \A p \in Starts(s) : { q \in Starts(s) : q <= p } = StartsTo(s, p)
<1>1. DOMAIN s = 1 .. Len(s) /\ Len(s) \in Nat
  OBVIOUS
<1>2. Starts(s) = StartsTo(s, Len(s))
  BY <1>1 DEF Starts, StartsTo
<1>3. ASSUME NEW p \in Starts(s) PROVE { q \in Starts(s) : q <= p } = StartsTo(s, p)
  <2>1. p \in 1 .. Len(s)
    BY <1>1 DEF Starts
  <2>2. \A q : (q \in 1 .. Len(s) /\ q <= p) <=> q \in 1 .. p
    BY <1>1, <2>1
  <2> QED BY <1>2, <2>2 DEF StartsTo
<1> QED
  BY <1>2, <1>3

LEMMA ToldAll ==
    ASSUME NEW s \in Seq(Chars), NEW ts, Told(ts, s, Len(s))
    PROVE  AreTokensOf(ts, s)
<1>1. Starts(s) = StartsTo(s, Len(s))
  BY StartsAgree
<1>2. ASSUME NEW p \in Starts(s)
      PROVE  ts[Cardinality({ q \in Starts(s) : q <= p })] = TokenAt(s, p)
  <2>1. { q \in Starts(s) : q <= p } = StartsTo(s, p)
    BY StartsAgree
  <2>2. ts[Cardinality(StartsTo(s, p))] = TokenAt(s, p)
    BY <1>1 DEF Told
  <2> QED BY <2>1, <2>2
<1>3. Len(ts) = Cardinality(Starts(s))
  BY <1>1 DEF Told
<1> QED
  BY <1>2, <1>3 DEF AreTokensOf

LEMMA WrongWords ==
    ASSUME NEW s \in Seq(Chars)
    PROVE  WrongTo(s, Len(s)) <=> \E w \in Words(s) : WrongNumber(w)
<1>1. Starts(s) = StartsTo(s, Len(s))
  BY StartsAgree
<1> QED
  BY <1>1 DEF WrongTo, IsWrong, Words

\* A text that ends with a separator leaves no word behind.
LEMMA AllSaid ==
    ASSUME Meant \in Seq(Chars), Ended
    PROVE  /\ AreTokensOf(End(Meant).tokens, Meant)
           /\ End(Meant).wrong <=> \E w \in Words(Meant) : WrongNumber(w)
<1> DEFINE k == Len(Meant)
           st == End(Meant)
<1>1. k \in Nat /\ k \in 0 .. Len(Meant)
  OBVIOUS
<1>2. Means(st, Meant, k) /\ st \in States
  BY <1>1, WalkMeans, WalkFacts DEF End
<1> HIDE DEF st
<1> DEFINE b == k - Len(st.word)
<1>3. /\ \A m \in b + 1 .. k : Meant[m] \in AlphaNumeric
      /\ Told(st.tokens, Meant, b)
      /\ st.wrong <=> WrongTo(Meant, b)
      /\ b >= 0
  BY <1>2, Zenon DEF Means
<1>4. Len(st.word) \in Nat
  BY <1>2 DEF States
<1>5. b = k
  <2> SUFFICES ASSUME b < k PROVE FALSE
    BY <1>1, <1>4
  <2>1. k \in b + 1 .. k /\ k > 0
    BY <1>1, <1>3, <1>4
  <2>2. Meant[k] \in AlphaNumeric
    BY <1>3, <2>1
  <2>3. Meant # <<>> /\ Last(Meant) = Meant[k]
    BY <2>1 DEF Last
  <2> QED BY <2>2, <2>3 DEF Ended
<1>6. Told(st.tokens, Meant, Len(Meant)) /\ (st.wrong <=> WrongTo(Meant, Len(Meant)))
  <2> HIDE DEF b
  <2>1. b = Len(Meant)
    BY <1>5
  <2> QED BY <1>3, <2>1
<1>7. AreTokensOf(st.tokens, Meant)
  BY <1>6, ToldAll
<1>8. WrongTo(Meant, Len(Meant)) <=> \E w \in Words(Meant) : WrongNumber(w)
  BY WrongWords
<1>9. st.wrong <=> \E w \in Words(Meant) : WrongNumber(w)
  BY <1>6, <1>8
<1> QED
  BY <1>7, <1>9 DEF st

LEMMA SaidRight ==
    ASSUME ScanInv, LexTypes, Given, Agrees, LexAgrees
    PROVE  LexedRight
<1> SUFFICES ASSUME Plain, Ended, status \in {"lexed", "thrown"}
             PROVE  /\ status = "lexed" => AreTokensOf(tokens, Meant)
                    /\ status = "lexed" => \A w \in Words(Meant) : ~WrongNumber(w)
                    /\ status = "thrown" => \E w \in Words(Meant) : WrongNumber(w)
  BY DEF LexedRight
<1>1. given \in Seq(Chars) /\ code \in Seq(Chars) /\ source \in {"file", "text"}
  BY DEF ScanInv, ScanTypes, LexTypes, Given
<1>2. Meant \in Seq(Chars) /\ End(code) = End(Meant)
  <2>1. CASE source = "file"
    <3>1. Meant \in Seq(Chars)
      BY <1>1, <2>1, MeantFacts
    <3>2. End(code) = End(Meant)
      BY <2>1 DEF Agrees
    <3> QED BY <3>1, <3>2
  <2>2. CASE source = "text"
    <3>1. Meant = given /\ code = given
      BY <2>2 DEF Meant, Given
    <3> QED BY <1>1, <3>1
  <2> QED BY <1>1, <2>1, <2>2
<1>3. /\ AreTokensOf(End(code).tokens, Meant)
      /\ End(code).wrong <=> \E w \in Words(Meant) : WrongNumber(w)
  BY <1>2, AllSaid
<1>4. CASE status = "lexed"
  <2>1. at = Len(code) + 1 /\ Reached(Walk(code)[at - 1])
    BY <1>4 DEF LexAgrees
  <2>2. Len(code) \in Nat
    BY <1>1
  <2>3. at - 1 = Len(code)
    BY <2>1, <2>2
  <2>4. Reached(End(code))
    BY <2>1, <2>3 DEF End
  <2> QED BY <1>3, <1>4, <2>4 DEF Reached
<1>5. CASE status = "thrown"
  <2>1. at \in 0 .. Len(code) /\ Walk(code)[at].wrong
    <3>1. at \in 1 .. Len(code) /\ Walk(code)[at].wrong
      BY <1>5 DEF LexAgrees
    <3> QED BY <1>1, <3>1
  <2>2. End(code).wrong
    BY <1>1, <2>1, WrongStays
  <2> QED BY <1>3, <1>5, <2>2
<1> QED
  BY <1>4, <1>5

\* The lexer finds every token of every plain text, and refuses nothing but
\* wrong numbers: what scan_file cuts out and lexer::process walks over loses
\* no word, glues none to its neighbour and cuts none in two.
THEOREM LexesRight == Spec => []LexedRight
<1> DEFINE I == ScanInv /\ LexTypes /\ Given /\ Agrees /\ LexAgrees
<1>1. Init => I
  BY InitScan, InitTypes, InitGiven, InitAgrees, InitLex
<1>2. I /\ [Next]_vars => I'
  BY NextScan, TypesNext, GivenNext, AgreesNext, LexNext
<1>3. I => LexedRight
  BY SaidRight
<1> HIDE DEF I
<1> QED
  BY <1>1, <1>2, <1>3, PTL DEF Spec
=============================================================================
