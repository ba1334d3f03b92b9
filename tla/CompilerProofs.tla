--------------------------- MODULE CompilerProofs ---------------------------
(***************************************************************************)
(* Proofs about the compiler, the parser with the translator behind it, for*)
(* all codes, sizes and programs whose sizes fit in words and whose names  *)
(* are spelled apart: the bytecode of a proper program means what its text *)
(* means.  The functions the translator is given are those of the meaning, *)
(* with places for names (ParserProofs); their code is laid out at the     *)
(* places the meaning gives them (TranslatorProofs); what is read back from*)
(* there is what was written.                                              *)
(***************************************************************************)
EXTENDS Compiler, ParserProofs

-----------------------------------------------------------------------------
(* What the parser has handed over when it has parsed a proper program.    *)

Released(p, ls, fs) ==
    /\ GlobalsKept(ls, p, Len(p)) /\ ScopesClean(ls, Len(fs) + 1)
    /\ Handed(p, Len(p), fs)

ReleasedInv ==
    /\ status # "idle" => \E n \in DOMAIN Sources : program \in Sources[n]
    /\ status = "parsed" /\ Proper(program) => Released(program, parsed.layers, parsed.functions)

\* What was handed over is kept until the next program is parsed.
LEMMA ReleasedInit == Init => ReleasedInv
<1> SUFFICES ASSUME Init PROVE ReleasedInv
  OBVIOUS
<1>1. status = "idle"
  BY Zenon DEF Init
<1>2. ~(status # "idle") /\ status # "parsed"
  BY <1>1
<1> QED BY <1>2, Zenon DEF ReleasedInv

LEMMA ReleasedConstruct ==
    ASSUME ParserInv, ReleasedInv, Construct
    PROVE  ReleasedInv'
<1> DEFINE p == program
           n == Len(p)
<1>1. program' = p /\ tokens' = tokens /\ status = "parsing"
  BY ConstructFrame, ConstructParses, Zenon
<1>2. status # "idle" /\ status # "parsed"
  BY <1>1
<1>3. \E k \in DOMAIN Sources : program' \in Sources[k]
  BY <1>1, <1>2, Zenon DEF ReleasedInv
<1>4. CASE ~Release
  <2>1. status' = status \/ status' \in {"thrown", "undefined"}
    BY <1>4, ConstructEnds, Zenon
  <2>2. status' # "parsed"
    BY <1>1, <2>1
  <2> QED BY <1>3, <2>2, Zenon DEF ReleasedInv
<1>5. CASE Release
  <2>1. status' = "parsed" /\ parsed' = [functions |-> functions, layers |-> layers]
    BY <1>5, ReleaseFresh, Zenon
  <2>2. status' # status
    BY <1>2, <2>1, Zenon
  <2>3. parsed'.functions = functions /\ parsed'.layers = layers
    BY <2>1, ResultParts, Zenon
  <2>4. ASSUME Proper(p) PROVE Released(p, layers, functions)
    <3>1. p \in Seq(Items) /\ tokens = Marked(Tokens(p)) /\ Parsing(p, pos, layers, functions, open)
      BY <1>1, <2>4, Zenon DEF ParserInv
    <3>2. ProperProgram(p, n) /\ Given(p)
      BY <2>4, <3>1, ProperTaken, Zenon DEF Given
    <3>3. Follows(p)
      BY <1>5, <2>4, <3>1, <3>2, ParsingStep, Zenon
    <3>4. Between(p, n, pos, layers, functions, open)
      BY <2>2, <3>3, Zenon DEF Follows
    <3> QED BY <3>4, Zenon DEF Between, Released
  <2> QED BY <1>1, <1>3, <2>3, <2>4, Zenon DEF ReleasedInv
<1> QED BY <1>4, <1>5, Zenon

LEMMA ReleasedParse ==
    ASSUME Parse
    PROVE  ReleasedInv'
<1>1. parses + 1 \in DOMAIN Sources /\ program' \in Sources[parses + 1] /\ status' = "parsing"
  BY Zenon DEF Parse
<1>2. status' # "parsed"
  BY <1>1
<1> QED BY <1>1, <1>2, Zenon DEF ReleasedInv

-----------------------------------------------------------------------------
(* What a proper program means is made of lines of these kinds.            *)

MeantPlaces == [lit : Nat] \cup [at : B!Words] \cup [via : B!Words, diff : Int]

MeantInsts ==
    { m \in [inst : DOMAIN Insts, args : Seq(MeantPlaces)] :
        Insts[m.inst].op \notin {"fcall", "ncall"} /\ Len(m.args) <= Insts[m.inst].max }

MeantLines == LabelLines \cup CallLines \cup MeantInsts

\* Registers, places relative to them and numbers are places.
LEMMA RegisterPlaces ==
    /\ \A r \in DOMAIN Registers : [at |-> Registers[r]] \in MeantPlaces
    /\ \A r \in DOMAIN Registers : \A d \in Int : [via |-> Registers[r], diff |-> d] \in MeantPlaces
    /\ \A n \in Nat : [lit |-> n] \in MeantPlaces
<1> DEFINE W == B!Words
<1>1. \A r \in DOMAIN Registers : Registers[r] \in W
  BY CompilerConstants, Zenon
<1> HIDE DEF W
<1>2. \A x \in W : [at |-> x] \in [at : W]
  OBVIOUS
<1>3. \A x \in W, d \in Int : [via |-> x, diff |-> d] \in [via : W, diff : Int]
  OBVIOUS
<1>4. \A x \in Nat : [lit |-> x] \in [lit : Nat]
  OBVIOUS
<1> QED BY <1>1, <1>2, <1>3, <1>4, Zenon DEF MeantPlaces, W

\* The operands of a line that names no field.
LEMMA OperandKinds ==
    ASSUME NEW a \in Operands, ~Has(a, "field")
    PROVE  \/ a \in [num : Nat]
           \/ a \in [name : STRING] /\ Has(a, "name") /\ ~Has(a, "num")
           \/ a \in [name : STRING, diff : Int] /\ Has(a, "name") /\ ~Has(a, "num") /\ a.diff \in Int
BY OperandFields, Zenon DEF Operands

LEMMA Below ==
    ASSUME NEW n \in Nat, NEW k \in 1 .. n, NEW d \in 1 .. k - 1
    PROVE  d \in 1 .. n
OBVIOUS

LEMMA Sums == \A x, y \in Int : x + y \in Int
OBVIOUS

\* An operand stands for a number, a register or the place of a variable.
LEMMA PlaceOf ==
    ASSUME NEW p, NEW lines, NEW k, NEW a \in Operands, ~Has(a, "field"),
           NEW d, d = DeclaredAt(lines, k, a.name),
           Has(a, "name") /\ d # 0 =>
              Has(lines[d], "base") /\ lines[d].base \in DOMAIN Registers /\ lines[d].diff \in Int,
           Has(a, "name") /\ ~Has(a, "num") /\ d = 0 => a.name \in DOMAIN Registers
    PROVE  Place(p, lines, k, a) \in MeantPlaces
<1> DEFINE place == Place(p, lines, k, a)
           goal == place \in MeantPlaces
<1>1. a \in [name : STRING] =>
         /\ d = 0 => place = [at |-> Registers[a.name]]
         /\ d # 0 /\ Has(lines[d], "base") =>
               place = [via |-> Registers[lines[d].base], diff |-> lines[d].diff + 0]
  BY NamePlace
<1>2. a \in [name : STRING, diff : Int] =>
         /\ d = 0 => place = [via |-> Registers[a.name], diff |-> a.diff]
         /\ d # 0 /\ Has(lines[d], "base") =>
               place = [via |-> Registers[lines[d].base], diff |-> lines[d].diff + a.diff]
  BY ShiftedPlace
<1>3. a \in [num : Nat] => place = [lit |-> a.num] /\ a.num \in Nat
  BY NumberPlace, OperandFields, Zenon
<1> HIDE DEF place
<1>4. 0 \in Int
  OBVIOUS
<1>5. ASSUME a \in [num : Nat] PROVE goal
  BY <1>3, <1>5, RegisterPlaces, Zenon
<1>6. ASSUME a \in [name : STRING], Has(a, "name"), ~Has(a, "num") PROVE goal
  <2>1. CASE d = 0
    BY <1>1, <1>6, <2>1, RegisterPlaces, Zenon
  <2>2. CASE d # 0
    <3>1. lines[d].diff + 0 \in Int
      BY <1>4, <1>6, <2>2, Sums, Zenon
    <3> QED BY <1>1, <1>6, <2>2, <3>1, RegisterPlaces, Zenon
  <2> QED BY <2>1, <2>2, Zenon
<1>7. ASSUME a \in [name : STRING, diff : Int], Has(a, "name"), ~Has(a, "num"), a.diff \in Int PROVE goal
  <2>1. CASE d = 0
    BY <1>2, <1>7, <2>1, RegisterPlaces, Zenon
  <2>2. CASE d # 0
    <3>1. lines[d].diff + a.diff \in Int
      BY <1>7, <2>2, Sums, Zenon
    <3> QED BY <1>2, <1>7, <2>2, <3>1, RegisterPlaces, Zenon
  <2> QED BY <2>1, <2>2, Zenon
<1>8. goal
  BY <1>5, <1>6, <1>7, OperandKinds, Zenon
<1> QED BY <1>8 DEF place

\* Every operand of a proper program stands for a place.
LEMMA PlaceTyped ==
    ASSUME NEW p, NEW n, ProperProgram(p, n), NEW i \in 1 .. n, Has(p[i], "func"),
           NEW k \in DOMAIN p[i].lines, p[i].lines[k] \in InstLines,
           NEW j \in DOMAIN p[i].lines[k].args
    PROVE  Place(p, p[i].lines, k, p[i].lines[k].args[j]) \in MeantPlaces
<1> DEFINE lines == p[i].lines
           line == p[i].lines[k]
           a == p[i].lines[k].args[j]
           d == DeclaredAt(lines, k, a.name)
<1>1. p[i] \in FuncItems /\ LineFormed(p, i, k) /\ SupportedLine(p, i, k)
  BY FuncFormed, Zenon
<1>2. DOMAIN lines = 1 .. Len(lines) /\ Len(lines) \in Nat /\ k \in 1 .. Len(lines)
  BY <1>1, FuncLines, Zenon
<1>3. k \in Nat
  BY <1>2
<1>4. Has(line, "inst") /\ line.args \in Seq(Operands)
  BY InstMeans, Zenon
<1>5. a \in Operands
  BY <1>4, SeqElement, Zenon
<1>6. OperandFormed(p, lines, k, a)
  BY <1>1, LineFormedIs, Zenon
<1>7. SupportedOperand(lines, k, j)
  BY <1>1, <1>4, Zenon DEF SupportedLine
<1>8. /\ ~Has(a, "field")
      /\ LET e == IF Has(a, "name") THEN DeclaredAt(lines, k, a.name) ELSE 0
         IN e # 0 => Has(lines[e], "base") /\ lines[e].diff # 0
  BY <1>7, Zenon DEF SupportedOperand
<1>9. Has(a, "name") /\ d # 0 => Has(lines[d], "base")
  BY <1>8, Zenon
<1>10. Has(a, "name") /\ ~Has(a, "num") /\ d = 0 => a.name \in DOMAIN Registers
  BY <1>6, <1>8, Zenon DEF OperandFormed
<1>11. DeclaresFirst(lines, k, a.name, d)
  BY <1>3, DeclaredIs, Zenon
<1>12. \A e : e \in DOMAIN lines /\ Has(lines[e], "var") /\ Has(lines[e], "base") =>
                 lines[e].base \in DOMAIN Registers /\ lines[e].diff \in Int
  BY VarFormed, Zenon
<1>13. d = DeclaredAt(lines, k, a.name)
  OBVIOUS
<1> HIDE DEF a, d, lines
<1>14. d # 0 => d \in DOMAIN lines /\ Has(lines[d], "var")
  <2> SUFFICES ASSUME d # 0 PROVE d \in DOMAIN lines /\ Has(lines[d], "var")
    OBVIOUS
  <2>1. d \in 1 .. k - 1 /\ Has(lines[d], "var")
    BY <1>11, Zenon DEF DeclaresFirst
  <2> QED BY <1>2, <2>1, Below, Zenon
<1>15. Has(a, "name") /\ d # 0 =>
          Has(lines[d], "base") /\ lines[d].base \in DOMAIN Registers /\ lines[d].diff \in Int
  BY <1>9, <1>12, <1>14, Zenon
<1>16. Place(p, lines, k, a) \in MeantPlaces
  BY <1>5, <1>8, <1>10, <1>13, <1>15, PlaceOf, Zenon
<1> QED BY <1>16 DEF a, lines

\* The three kinds of lines and their fields.
LEMMA MeantFields ==
    /\ \A m \in LabelLines : Has(m, "label") /\ ~Has(m, "call") /\ ~Has(m, "inst") /\ m.label \in STRING
    /\ \A m \in CallLines :
          /\ ~Has(m, "label") /\ Has(m, "call") /\ ~Has(m, "inst")
          /\ m.call \in {"fcall", "ncall"} /\ m.callee \in Seq(STRING)
    /\ \A m \in MeantInsts :
          /\ ~Has(m, "label") /\ ~Has(m, "call") /\ Has(m, "inst") /\ Has(m, "args")
          /\ m.inst \in DOMAIN Insts /\ m.args \in Seq(MeantPlaces)
          /\ Insts[m.inst].op \notin {"fcall", "ncall"} /\ Len(m.args) <= Insts[m.inst].max
<1>1. \A m \in LabelLines \cup CallLines :
         (m \in LabelLines \/ m \in CallLines) /\ m \in Lines
  BY Zenon DEF LabelLines, CallLines, Lines
<1>2. \A m \in MeantInsts :
          /\ ~Has(m, "label") /\ ~Has(m, "call") /\ Has(m, "inst") /\ Has(m, "args")
          /\ m.inst \in DOMAIN Insts /\ m.args \in Seq(MeantPlaces)
          /\ Insts[m.inst].op \notin {"fcall", "ncall"} /\ Len(m.args) <= Insts[m.inst].max
  <2> SUFFICES ASSUME NEW m \in MeantInsts
               PROVE  /\ ~Has(m, "label") /\ ~Has(m, "call") /\ Has(m, "inst") /\ Has(m, "args")
                      /\ m.inst \in DOMAIN Insts /\ m.args \in Seq(MeantPlaces)
                      /\ Insts[m.inst].op \notin {"fcall", "ncall"} /\ Len(m.args) <= Insts[m.inst].max
    OBVIOUS
  <2>1. m \in [inst : DOMAIN Insts, args : Seq(MeantPlaces)]
        /\ Insts[m.inst].op \notin {"fcall", "ncall"} /\ Len(m.args) <= Insts[m.inst].max
    BY Zenon DEF MeantInsts
  <2> DEFINE D == DOMAIN Insts
             E == Seq(MeantPlaces)
  <2>2. \A x \in [inst : D, args : E] :
           /\ "label" \notin DOMAIN x /\ "call" \notin DOMAIN x /\ "inst" \in DOMAIN x
           /\ "args" \in DOMAIN x /\ x.inst \in D /\ x.args \in E
    <3> HIDE DEF D, E
    <3> QED OBVIOUS
  <2> QED BY <2>1, <2>2, Zenon DEF Has
<1>3. \A m \in LabelLines : Has(m, "label") /\ ~Has(m, "call") /\ ~Has(m, "inst") /\ m.label \in STRING
  BY LineFields, Zenon DEF LabelLines
<1>4. \A m \in CallLines :
          /\ ~Has(m, "label") /\ Has(m, "call") /\ ~Has(m, "inst")
          /\ m.call \in {"fcall", "ncall"} /\ m.callee \in Seq(STRING)
  BY LineFields, Zenon DEF CallLines
<1> QED BY <1>2, <1>3, <1>4, Zenon

LEMMA OneIn == \A E : \A x \in E : <<x>> \in Seq(E)
OBVIOUS

LEMMA NoneIn == \A E : <<>> \in Seq(E) /\ Len(<<>>) = 0
OBVIOUS

\* A variable without an address becomes the push of its size.
LEMMA BareTyped ==
    ASSUME NEW p, NEW type, PushOf(SizeOf(p, type)) # {}
    PROVE  BareCode(p, type) \in MeantInsts
<1> DEFINE S == PushOf(SizeOf(p, type))
           w == CHOOSE i \in S : TRUE
           m == [inst |-> w, args |-> <<>>]
           D == DOMAIN Insts
<1>1. w \in S
  <2> HIDE DEF S
  <2>1. S # {}
    BY DEF S
  <2> QED BY <2>1, Zenon
<1>2. w \in D /\ Insts[w].op = "push"
  BY <1>1, Zenon DEF PushOf
<1>3. Insts[w].max \in Nat
  BY <1>2, AmasmConstants, Zenon
<1>4. "push" \notin {"fcall", "ncall"}
  OBVIOUS
<1> HIDE DEF w, D
<1>5. m \in [inst : D, args : Seq(MeantPlaces)] /\ m.inst = w /\ Len(m.args) = 0
  BY <1>2
<1> HIDE DEF m
<1>6. Len(m.args) <= Insts[m.inst].max
  <2> DEFINE max == Insts[w].max
             len == Len(m.args)
  <2>1. max \in Nat /\ len = 0
    BY <1>3, <1>5, Zenon
  <2> HIDE DEF max, len
  <2>2. len <= max
    BY <2>1
  <2> QED BY <1>5, <2>2, Zenon DEF max, len
<1>7. m \in MeantInsts
  BY <1>2, <1>4, <1>5, <1>6, Zenon DEF MeantInsts, D
<1> QED BY <1>7 DEF m, w, BareCode

\* An instruction with places is a line of a meaning,
LEMMA CodeTyped ==
    ASSUME NEW w \in DOMAIN Insts, NEW args \in Seq(MeantPlaces),
           Insts[w].op \notin {"fcall", "ncall"}, Len(args) <= Insts[w].max
    PROVE  Code(w, args) \in MeantInsts
<1> DEFINE m == [inst |-> w, args |-> args]
           D == DOMAIN Insts
<1>1. w \in D
  OBVIOUS
<1> HIDE DEF D
<1>2. m \in [inst : D, args : Seq(MeantPlaces)] /\ m.inst = w /\ m.args = args
  BY <1>1
<1> HIDE DEF m
<1>3. m \in MeantInsts
  BY <1>2, Zenon DEF MeantInsts, D
<1> QED BY <1>3 DEF m, Code

\* and so is one of the text, with the places of its operands.
LEMMA PlacesTyped ==
    ASSUME NEW p, NEW n, ProperProgram(p, n), NEW i \in 1 .. n, Has(p[i], "func"),
           NEW k \in DOMAIN p[i].lines, p[i].lines[k] \in InstLines
    PROVE  /\ Places(p, p[i].lines, k, p[i].lines[k].args) \in Seq(MeantPlaces)
           /\ Len(Places(p, p[i].lines, k, p[i].lines[k].args)) = Len(p[i].lines[k].args)
<1> DEFINE args == p[i].lines[k].args
           place(j) == Place(p, p[i].lines, k, args[j])
<1>1. args \in Seq(Operands)
  BY InstMeans, Zenon
<1>2. \A j \in DOMAIN args : place(j) \in MeantPlaces
  BY PlaceTyped, Zenon
<1>3. Places(p, p[i].lines, k, args) = [j \in DOMAIN args |-> place(j)]
  BY Zenon DEF Places
<1> HIDE DEF args, place
<1>4. [j \in DOMAIN args |-> place(j)] \in Seq(MeantPlaces) /\ Len([j \in DOMAIN args |-> place(j)]) = Len(args)
  <2>1. DOMAIN args = 1 .. Len(args) /\ Len(args) \in Nat
    BY <1>1
  <2> QED BY <1>2, <2>1
<1>5. /\ Places(p, p[i].lines, k, args) \in Seq(MeantPlaces)
      /\ Len(Places(p, p[i].lines, k, args)) = Len(args)
  BY <1>3, <1>4, Zenon
<1> QED BY <1>5 DEF args

\* A line of a proper program means lines, none, one or more of them.
LEMMA LineTypedMeaning ==
    ASSUME NEW p, NEW n, ProperProgram(p, n), NEW i \in 1 .. n, Has(p[i], "func"),
           NEW k \in DOMAIN p[i].lines
    PROVE  LineMeaning(p, p[i].lines, k) \in Seq(MeantLines)
<1> DEFINE lines == p[i].lines
           line == p[i].lines[k]
           m == LineMeaning(p, lines, k)
<1>1. p[i] \in FuncItems /\ LineFormed(p, i, k)
  BY FuncFormed, Zenon
<1>2. line \in Lines
  BY <1>1, FuncLines, Zenon
<1>3. \A x \in MeantLines : <<x>> \in Seq(MeantLines)
  BY OneIn, Zenon
<1>4. CASE line \in LabelLines
  <2>1. m = <<[label |-> line.label]>>
    BY <1>4, LabelMeans, Zenon
  <2>2. line.label \in STRING
    BY <1>4, MeantFields, Zenon
  <2>3. [label |-> line.label] \in LabelLines
    BY <2>2 DEF LabelLines
  <2> QED BY <1>3, <2>1, <2>3, Zenon DEF MeantLines
<1>5. CASE line \in CallLines
  <2>1. m = <<[call |-> line.call, callee |-> line.callee]>>
    BY <1>5, CallMeans, Zenon
  <2>2. line.call \in {"fcall", "ncall"} /\ line.callee \in Seq(STRING)
    BY <1>5, MeantFields, Zenon
  <2>3. [call |-> line.call, callee |-> line.callee] \in CallLines
    BY <2>2 DEF CallLines
  <2> QED BY <1>3, <2>1, <2>3, Zenon DEF MeantLines
<1>6. CASE line \in InstLines
  <2> DEFINE places == Places(p, lines, k, line.args)
             max == Insts[line.inst].max
  <2>1. m = <<Code(line.inst, places)>>
    BY <1>6, InstMeans, Zenon
  <2>2. places \in Seq(MeantPlaces) /\ Len(places) = Len(line.args)
    BY <1>6, PlacesTyped, Zenon
  <2>3. line.inst \in DOMAIN Insts /\ Insts[line.inst].op \notin {"fcall", "ncall"}
        /\ Len(line.args) \in Insts[line.inst].min .. max
    BY <1>1, <1>6, LineFormedIs, Zenon
  <2>4. max \in Nat /\ Insts[line.inst].min \in 0 .. max
    BY <2>3, AmasmConstants, Zenon
  <2>5. Len(places) <= max
    <3> DEFINE min == Insts[line.inst].min
               len == Len(line.args)
    <3>1. min \in 0 .. max /\ len \in min .. max /\ Len(places) = len /\ max \in Nat
      BY <2>2, <2>3, <2>4, Zenon
    <3> HIDE DEF min, max, len, places
    <3> QED BY <3>1
  <2> HIDE DEF places
  <2>6. Code(line.inst, places) \in MeantInsts
    BY <2>2, <2>3, <2>5, CodeTyped, Zenon
  <2> QED BY <1>3, <2>1, <2>6, Zenon DEF MeantLines, places
<1>7. CASE line \in BareLines
  <2>1. m = <<BareCode(p, line.type)>>
    BY <1>7, BareMeans, Zenon
  <2>2. PushOf(SizeOf(p, line.type)) # {}
    BY <1>1, <1>7, LineFormedIs, Zenon
  <2>3. BareCode(p, line.type) \in MeantInsts
    BY <2>2, BareTyped, Zenon
  <2> QED BY <1>3, <2>1, <2>3, Zenon DEF MeantLines
<1>8. CASE line \in PlacedLines
  BY <1>8, PlacedMeans, NoneIn, Zenon
<1> QED BY <1>2, <1>4, <1>5, <1>6, <1>7, <1>8, LineKinds, Zenon

LEMMA LinesTypedMeaning ==
    ASSUME NEW p, NEW n, ProperProgram(p, n), NEW i \in 1 .. n, Has(p[i], "func")
    PROVE  FunctionMeaning(p, p[i]).lines \in Seq(MeantLines)
<1> DEFINE lines == p[i].lines
           seqs == LineMeanings(p, lines)
<1>1. p[i] \in FuncItems
  BY FuncFormed, Zenon
<1>2. DOMAIN lines = 1 .. Len(lines) /\ Len(lines) \in Nat
  BY <1>1, FuncLines, Zenon
<1>3. seqs = [k \in 1 .. Len(lines) |-> LineMeaning(p, lines, k)]
  BY <1>2, Zenon DEF LineMeanings
<1>4. \A k \in 1 .. Len(lines) : LineMeaning(p, lines, k) \in Seq(MeantLines)
  BY <1>2, LineTypedMeaning, Zenon
<1>5. seqs \in Seq(Seq(MeantLines))
  <2> DEFINE E == Seq(MeantLines)
             len == Len(lines)
             u(k) == LineMeaning(p, lines, k)
  <2>1. len \in Nat /\ \A k \in 1 .. len : u(k) \in E
    BY <1>2, <1>4, Zenon
  <2> HIDE DEF E, len, u
  <2>2. [k \in 1 .. len |-> u(k)] \in Seq(E)
    BY <2>1
  <2> QED BY <1>3, <2>2, Zenon DEF E, len, u
<1>6. Joined(seqs) \in Seq(MeantLines)
  <2> HIDE DEF seqs
  <2>1. Joins(seqs)[Len(seqs)] = Joined(seqs) /\ \A k \in 0 .. Len(seqs) : Joins(seqs)[k] \in Seq(MeantLines)
    BY <1>5, JoinsBase, Zenon
  <2>2. Len(seqs) \in 0 .. Len(seqs)
    BY <1>5
  <2> QED BY <2>1, <2>2, Zenon
<1>7. FunctionMeaning(p, p[i]).lines = Joined([k \in DOMAIN lines |-> LineMeaning(p, lines, k)])
  BY DEF FunctionMeaning
<1> QED BY <1>6, <1>7, Zenon DEF LineMeanings

\* The meaning of a proper program is a sequence of functions of such lines.
LEMMA FunctionsMeant ==
    ASSUME NEW p, NEW n, ProperProgram(p, n)
    PROVE  /\ Indexed(Meaning(p), Len(Meaning(p)))
           /\ \A k \in DOMAIN Meaning(p) : Meaning(p)[k].lines \in Seq(MeantLines)
<1> DEFINE x(i) == FunctionMeaning(p, p[i])
           E == { x(i) : i \in { j \in 1 .. n : Has(p[j], "func") } }
           piece(i) == IF Has(p[i], "func") THEN <<x(i)>> ELSE <<>>
<1>1. n \in Nat /\ DOMAIN p = 1 .. n
  BY Zenon DEF ProperProgram
<1>2. Meanings(p) = [i \in 1 .. n |-> piece(i)]
  BY <1>1, Zenon DEF Meanings
<1>3. \A e \in E : e.lines \in Seq(MeantLines)
  BY LinesTypedMeaning, Zenon
<1>4. \A i \in 1 .. n : Has(p[i], "func") => x(i) \in E
  OBVIOUS
<1> HIDE DEF x, E
<1>5. \A i \in 1 .. n : piece(i) \in Seq(E)
  BY <1>4, OneIn, NoneIn, Zenon
<1> HIDE DEF piece
<1>6. Meanings(p) \in Seq(Seq(E)) /\ Len(Meanings(p)) = n
  <2>1. [i \in 1 .. n |-> piece(i)] \in Seq(Seq(E)) /\ Len([i \in 1 .. n |-> piece(i)]) = n
    BY <1>1, <1>5
  <2> QED BY <1>2, <2>1, Zenon
<1>7. n \in 0 .. n
  BY <1>1
<1>8. Meaning(p) = Joins(Meanings(p))[n] /\ Indexed(Meaning(p), Len(Meaning(p)))
  BY <1>1, <1>7, MeaningIs, Zenon
<1>9. Meaning(p) \in Seq(E)
  BY <1>6, <1>7, <1>8, JoinsBase, Zenon
<1>10. \A k \in DOMAIN Meaning(p) : Meaning(p)[k] \in E
  BY <1>9, SeqElement, Zenon
<1> QED BY <1>3, <1>8, <1>10, Zenon

-----------------------------------------------------------------------------
(* What the translator makes of it.                                        *)

PlaceOperand(place) ==
    CASE Has(place, "lit") -> [kind |-> B!Fixed, value |-> place.lit]
      [] Has(place, "at")  -> [kind |-> B!Relative, base |-> place.at]
      [] OTHER             -> [kind |-> B!RelativeWithDiff, base |-> place.via, value |-> place.diff]

MeantInst(m) ==
    [name |-> Insts[m.inst].op,
     size |-> Insts[m.inst].size,
     sign |-> Insts[m.inst].sign,
     args |-> [n \in DOMAIN m.args |-> PlaceOperand(m.args[n])]]

MeantLine(m) ==
    CASE Has(m, "label") -> m
      [] Has(m, "call")  -> CallOf(m)
      [] OTHER           -> MeantInst(m)

MeantFunction(k, f) ==
    [name  |-> Spelled(f.name),
     scope |-> k,
     args  |-> f.args,
     ret   |-> f.ret,
     lines |-> [n \in DOMAIN f.lines |-> MeantLine(f.lines[n])]]

Settles(ls, scope) ==
    \A a : Settled(a) => /\ OperandOf(ls, scope, a) = PlaceOperand(PlainArg(a))
                         /\ OperandFault(ls, scope, a) = ""

\* The operand of each kind of place.
LEMMA PlacedOperands ==
    /\ \A x : PlaceOperand([lit |-> x]) = [kind |-> B!Fixed, value |-> x]
    /\ \A x : PlaceOperand([at |-> x]) = [kind |-> B!Relative, base |-> x]
    /\ \A x, d : PlaceOperand([via |-> x, diff |-> d]) = [kind |-> B!RelativeWithDiff, base |-> x, value |-> d]
<1> DEFINE K == B!Fixed
           L == B!Relative
           M == B!RelativeWithDiff
<1> HIDE DEF K, L, M
<1>1. \A x : /\ "lit" \in DOMAIN [lit |-> x] /\ [lit |-> x].lit = x
  OBVIOUS
<1>2. \A x : "lit" \notin DOMAIN [at |-> x] /\ "at" \in DOMAIN [at |-> x] /\ [at |-> x].at = x
  OBVIOUS
<1>3. \A x, d : /\ "lit" \notin DOMAIN [via |-> x, diff |-> d] /\ "at" \notin DOMAIN [via |-> x, diff |-> d]
                /\ [via |-> x, diff |-> d].via = x /\ [via |-> x, diff |-> d].diff = d
  OBVIOUS
<1>4. \A x : PlaceOperand([lit |-> x]) = [kind |-> K, value |-> x]
  BY <1>1, Zenon DEF PlaceOperand, Has, K
<1>5. \A x : PlaceOperand([at |-> x]) = [kind |-> L, base |-> x]
  BY <1>2, Zenon DEF PlaceOperand, Has, L
<1>6. \A x, d : PlaceOperand([via |-> x, diff |-> d]) = [kind |-> M, base |-> x, value |-> d]
  BY <1>3, Zenon DEF PlaceOperand, Has, M
<1> QED BY <1>4, <1>5, <1>6 DEF K, L, M

\* Operands the parser has settled are looked up as what they stand for.
LEMMA OperandsMeant ==
    ASSUME NEW ls, NEW p, NEW i, GlobalsKept(ls, p, i), NEW m, ScopesClean(ls, m),
           NEW scope, scope + 1 \in 2 .. m
    PROVE  Settles(ls, scope)
<1> SUFFICES ASSUME NEW a, Settled(a)
             PROVE  /\ OperandOf(ls, scope, a) = PlaceOperand(PlainArg(a))
                    /\ OperandFault(ls, scope, a) = ""
  BY Zenon DEF Settles
<1>1. CASE a.kind = "Fixed"
  <2>1. PlainArg(a) = [lit |-> a.abs]
    BY <1>1, Zenon DEF PlainArg
  <2>2. OperandOf(ls, scope, a) = [kind |-> B!Fixed, value |-> a.abs]
    BY <1>1, Zenon DEF OperandOf
  <2>3. OperandFault(ls, scope, a) = ""
    BY <1>1, Zenon DEF OperandFault
  <2> QED BY <2>1, <2>2, <2>3, PlacedOperands, Zenon
<1>2. CASE a.kind # "Fixed"
  <2> DEFINE v == Lookup(ls, a.name, scope)
  <2>1. a.name \in DOMAIN Registers
    BY <1>2, Zenon DEF Settled
  <2>2. v = Globals[a.name]
    BY <2>1, RegisterLooked, Zenon
  <2>3. v.address.abs = Registers[a.name] /\ v.kind = "var"
    BY <2>1, <2>2, GlobalRegister, Zenon
  <2>4. OperandFault(ls, scope, a) = ""
    BY <1>2, <2>3, Zenon DEF OperandFault, Fault
  <2>5. CASE a.kind = "Relative"
    <3>1. PlainArg(a) = [at |-> Registers[a.name]]
      BY <1>2, <2>5, Zenon DEF PlainArg
    <3>2. OperandOf(ls, scope, a) = [kind |-> B!Relative, base |-> v.address.abs]
      BY <1>2, <2>5, Zenon DEF OperandOf
    <3> QED BY <2>3, <2>4, <3>1, <3>2, PlacedOperands, Zenon
  <2>6. CASE a.kind # "Relative"
    <3>1. PlainArg(a) = [via |-> Registers[a.name], diff |-> a.sign]
      BY <1>2, <2>6, Zenon DEF PlainArg
    <3>2. OperandOf(ls, scope, a) = [kind |-> B!RelativeWithDiff, base |-> v.address.abs, value |-> a.sign]
      BY <1>2, <2>6, Zenon DEF OperandOf
    <3>3. PlaceOperand([via |-> Registers[a.name], diff |-> a.sign])
             = [kind |-> B!RelativeWithDiff, base |-> Registers[a.name], value |-> a.sign]
      BY PlacedOperands
    <3> HIDE DEF v
    <3>4. OperandOf(ls, scope, a) = PlaceOperand(PlainArg(a))
      BY <2>3, <3>1, <3>2, <3>3
    <3> QED BY <2>4, <3>4, Zenon
  <2> QED BY <2>5, <2>6, Zenon
<1> QED BY <1>1, <1>2, Zenon

\* A line as the parser keeps it and as it is meant has the same fields.
LEMMA PlainParts ==
    ASSUME NEW line, Has(line, "inst"), NEW m, PlainLine(line) = m, Has(m, "args")
    PROVE  /\ DOMAIN line = DOMAIN m /\ m.inst = line.inst
           /\ m.args = [n \in DOMAIN line.args |-> PlainArg(line.args[n])]
<1> DEFINE u == [n \in DOMAIN line.args |-> PlainArg(line.args[n])]
<1>1. m = [line EXCEPT !.args = u]
  BY Zenon DEF PlainLine
<1> HIDE DEF u
<1>2. DOMAIN line = DOMAIN m /\ "inst" \in DOMAIN line /\ "args" \in DOMAIN line
  BY <1>1, Zenon DEF Has
<1>3. m.inst = line.inst /\ m.args = u
  BY <1>1, <1>2
<1> QED BY <1>2, <1>3 DEF u

\* The translator is given what a line means.
LEMMA LineMeant ==
    ASSUME NEW ls, NEW scope, Settles(ls, scope),
           NEW line, NEW m \in MeantLines, LineMatches(line, m)
    PROVE  /\ LineOf(ls, scope, line) = MeantLine(m)
           /\ Has(line, "inst") =>
                 /\ \A n \in DOMAIN line.args : OperandFault(ls, scope, line.args[n]) = ""
                 /\ \E len \in Nat : DOMAIN line.args = 1 .. len
<1>1. SettledLine(line) /\ PlainLine(line) = m
  BY Zenon DEF LineMatches
<1>2. CASE ~Has(line, "inst")
  <2>1. line = m
    BY <1>1, <1>2, Zenon DEF PlainLine
  <2>2. Has(m, "label") \/ Has(m, "call")
    BY <1>2, <2>1, MeantFields, Zenon DEF MeantLines
  <2>3. CASE Has(m, "label")
    <3>0. ~Has(m, "call")
      BY <2>3, MeantFields, Zenon DEF MeantLines
    <3>1. LineOf(ls, scope, m) = m
      BY <2>3, <3>0 DEF LineOf
    <3>2. MeantLine(m) = m
      BY <2>3, <3>0 DEF MeantLine
    <3>3. LineOf(ls, scope, line) = m
      BY <2>1, <3>1
    <3> QED BY <1>2, <3>2, <3>3, Zenon
  <2>4. CASE ~Has(m, "label") /\ Has(m, "call")
    <3>1. LineOf(ls, scope, m) = CallOf(m) /\ MeantLine(m) = CallOf(m)
      BY <2>4, Zenon DEF LineOf, MeantLine
    <3>2. LineOf(ls, scope, line) = CallOf(m)
      BY <2>1, <3>1
    <3> QED BY <1>2, <3>1, <3>2, Zenon
  <2> QED BY <2>2, <2>3, <2>4, Zenon
<1>3. CASE Has(line, "inst")
  <2> DEFINE args == line.args
  <2>1. DOMAIN line = DOMAIN m
    BY <1>1, <1>3 DEF PlainLine
  <2>2. Has(m, "inst")
    BY <1>3, <2>1, Zenon DEF Has
  <2>3. m \in MeantInsts
    BY <2>2, MeantFields, Zenon DEF MeantLines
  <2>4. Has(m, "args") /\ ~Has(m, "label") /\ ~Has(m, "call")
    BY <2>3, MeantFields, Zenon
  <2>5. ~Has(line, "label") /\ ~Has(line, "call")
    BY <2>1, <2>4, Zenon DEF Has
  <2>6. m.inst = line.inst /\ m.args = [n \in DOMAIN args |-> PlainArg(args[n])]
    BY <1>1, <1>3, <2>4, PlainParts, Zenon
  <2>7. \A n \in DOMAIN args : Settled(args[n])
    BY <1>1, <1>3, Zenon DEF SettledLine
  <2>8. \A n \in DOMAIN args : /\ OperandOf(ls, scope, args[n]) = PlaceOperand(PlainArg(args[n]))
                               /\ OperandFault(ls, scope, args[n]) = ""
    BY <2>7, Zenon DEF Settles
  <2>9. DOMAIN m.args = DOMAIN args /\ \A n \in DOMAIN args : m.args[n] = PlainArg(args[n])
    <3> HIDE DEF args
    <3>1. \A f : f = [n \in DOMAIN args |-> PlainArg(args[n])] =>
             DOMAIN f = DOMAIN args /\ \A n \in DOMAIN args : f[n] = PlainArg(args[n])
      BY Zenon
    <3> QED BY <2>6, <3>1, Zenon
  <2>10. [n \in DOMAIN args |-> OperandOf(ls, scope, args[n])]
            = [n \in DOMAIN m.args |-> PlaceOperand(m.args[n])]
    BY <2>8, <2>9, Zenon
  <2>11. LineOf(ls, scope, line) = InstOf(ls, scope, line) /\ MeantLine(m) = MeantInst(m)
    BY <2>4, <2>5, Zenon DEF LineOf, MeantLine
  <2>12. InstOf(ls, scope, line) = MeantInst(m)
    BY <2>6, <2>10, Zenon DEF InstOf, MeantInst
  <2>13. \E len \in Nat : DOMAIN args = 1 .. len
    <3> DEFINE s == m.args
    <3>1. s \in Seq(MeantPlaces)
      BY <2>3, MeantFields, Zenon
    <3> HIDE DEF s
    <3>2. Len(s) \in Nat /\ DOMAIN s = 1 .. Len(s)
      BY <3>1
    <3> QED BY <2>9, <3>2, Zenon DEF s
  <2> QED BY <2>8, <2>11, <2>12, <2>13, Zenon
<1> QED BY <1>2, <1>3, Zenon

LEMMA IndexedIn ==
    ASSUME NEW E, NEW n, NEW s, Indexed(s, n), \A k \in 1 .. n : s[k] \in E
    PROVE  s \in Seq(E) /\ Len(s) = n /\ n \in Nat
<1> DEFINE t == [k \in 1 .. n |-> s[k]]
<1>1. n \in Nat /\ s = t
  BY Zenon DEF Indexed
<1>2. t \in Seq(E) /\ Len(t) = n
  BY <1>1
<1> HIDE DEF t
<1> QED BY <1>1, <1>2, Zenon

LEMMA Within0 == \A n \in Nat : n \in 0 .. n
OBVIOUS

\* Pieces without a fault have none together.
LEMMA NoneFaulty ==
    ASSUME NEW n \in Nat, NEW pieces, Indexed(pieces, n),
           \A k \in 1 .. n : pieces[k] \in Seq({""})
    PROVE  FirstOf(Joined(pieces)) = ""
<1> DEFINE E == {""}
           t == Joined(pieces)
<1>1. pieces \in Seq(Seq(E)) /\ Len(pieces) = n
  BY IndexedIn, Zenon
<1>0. n \in 0 .. n
  BY Within0, Zenon
<1>2. t \in Seq(E)
  <2> HIDE DEF E
  <2> QED BY <1>0, <1>1, JoinsBase, Zenon
<1>3. \A k \in DOMAIN t : t[k] \in E
  BY <1>2, SeqElement, Zenon
<1> HIDE DEF t
<1>4. { k \in DOMAIN t : t[k] # "" } = {}
  BY <1>3, Zenon
<1>5. FirstOf(t) = ""
  BY <1>4, Zenon DEF FirstOf
<1> QED BY <1>5, Zenon DEF t

\* The translator is given what a function means, without a fault,
LEMMA FunctionMeant ==
    ASSUME NEW ls, NEW f, Settles(ls, f.scope),
           NEW m, FunctionMatches(f, m), m.lines \in Seq(MeantLines)
    PROVE  FunctionOf(ls, f) = MeantFunction(f.scope, m) /\ FunctionFault(ls, f) = ""
<1> DEFINE len == Len(m.lines)
<1>1. Settles(ls, f.scope)
  OBVIOUS
<1>2. /\ m.name = FullName(f.name, [n \in DOMAIN f.args |-> f.args[n].name])
      /\ m.args = Total([n \in DOMAIN f.args |-> f.args[n].size])
      /\ m.ret = f.ret /\ Matches(f.lines, m.lines)
  <2> DEFINE x == FullName(f.name, [n \in DOMAIN f.args |-> f.args[n].name])
             y == Total([n \in DOMAIN f.args |-> f.args[n].size])
  <2>1. m = [name |-> x, args |-> y, ret |-> f.ret, lines |-> m.lines] /\ Matches(f.lines, m.lines)
    BY Zenon DEF FunctionMatches
  <2> HIDE DEF x, y
  <2>2. m.name = x /\ m.args = y /\ m.ret = f.ret
    BY <2>1
  <2> QED BY <2>1, <2>2 DEF x, y
<1>3. /\ Indexed(f.lines, len) /\ Indexed(m.lines, len)
      /\ \A n \in 1 .. len : LineMatches(f.lines[n], m.lines[n])
  BY <1>2, Zenon DEF Matches
<1>4. DOMAIN f.lines = 1 .. len /\ DOMAIN m.lines = 1 .. len /\ len \in Nat
  BY <1>3, IndexedSeq, Zenon
<1>5. \A n \in 1 .. len : m.lines[n] \in MeantLines
  BY <1>4, SeqElement, Zenon
<1> DEFINE Done(n) ==
        /\ LineOf(ls, f.scope, f.lines[n]) = MeantLine(m.lines[n])
        /\ Has(f.lines[n], "inst") =>
              /\ \A j \in DOMAIN f.lines[n].args : OperandFault(ls, f.scope, f.lines[n].args[j]) = ""
              /\ \E l \in Nat : DOMAIN f.lines[n].args = 1 .. l
<1>6. \A n \in 1 .. len : Done(n)
  BY <1>1, <1>3, <1>5, LineMeant, Zenon
<1>7. [n \in DOMAIN f.lines |-> LineOf(ls, f.scope, f.lines[n])]
         = [n \in DOMAIN m.lines |-> MeantLine(m.lines[n])]
  BY <1>4, <1>6, Zenon
<1>8. FunctionOf(ls, f) = MeantFunction(f.scope, m)
  <2> DEFINE u == [n \in DOMAIN f.lines |-> LineOf(ls, f.scope, f.lines[n])]
             v == [n \in DOMAIN m.lines |-> MeantLine(m.lines[n])]
             x == FullName(f.name, [n \in DOMAIN f.args |-> f.args[n].name])
             y == Total([n \in DOMAIN f.args |-> f.args[n].size])
  <2>1. FunctionOf(ls, f) = [name |-> Spelled(x), scope |-> f.scope, args |-> y, ret |-> f.ret, lines |-> u]
    BY Zenon DEF FunctionOf
  <2>2. MeantFunction(f.scope, m) = [name |-> Spelled(m.name), scope |-> f.scope, args |-> m.args, ret |-> m.ret, lines |-> v]
    BY Zenon DEF MeantFunction
  <2>3. u = v /\ m.name = x /\ m.args = y
    BY <1>2, <1>7, Zenon
  <2> HIDE DEF u, v, x, y
  <2> QED BY <1>2, <2>1, <2>2, <2>3
<1>9. FunctionFault(ls, f) = ""
  <2> DEFINE faults(n) == [j \in DOMAIN f.lines[n].args |-> OperandFault(ls, f.scope, f.lines[n].args[j])]
             piece(n) == IF ~Has(f.lines[n], "inst") THEN <<>> ELSE faults(n)
             pieces == [n \in 1 .. len |-> piece(n)]
  <2>1. ASSUME NEW n \in 1 .. len PROVE piece(n) \in Seq({""})
    <3>1. CASE ~Has(f.lines[n], "inst")
      BY <3>1, NoneIn, Zenon
    <3>2. CASE Has(f.lines[n], "inst")
      <4>1. PICK l \in Nat : DOMAIN f.lines[n].args = 1 .. l
        BY <1>6, <3>2, Zenon
      <4>2. Indexed(faults(n), l) /\ \A j \in 1 .. l : faults(n)[j] = ""
        BY <1>6, <3>2, <4>1, Zenon DEF Indexed
      <4> HIDE DEF faults
      <4>0. "" \in {""}
        OBVIOUS
      <4>3. faults(n) \in Seq({""})
        BY <4>0, <4>2, IndexedIn, Zenon
      <4> QED BY <3>2, <4>3, Zenon
    <3> QED BY <3>1, <3>2, Zenon
  <2>2. FunctionFault(ls, f) = FirstOf(Joined(pieces))
    BY <1>4, Zenon DEF FunctionFault
  <2> HIDE DEF piece
  <2>3. Indexed(pieces, len) /\ \A n \in 1 .. len : pieces[n] \in Seq({""})
    BY <1>4, <2>1, Zenon DEF Indexed
  <2> HIDE DEF pieces, len
  <2>4. FirstOf(Joined(pieces)) = ""
    BY <1>4, <2>3, NoneFaulty, Zenon
  <2> QED BY <2>2, <2>4, Zenon
<1> QED BY <1>8, <1>9, Zenon

-----------------------------------------------------------------------------
(* The functions of a program, as the translator takes them.               *)

Meant(M) == [k \in 1 .. Len(M) |-> MeantFunction(k, M[k])]

\* The functions fs, with the scopes ls, are those that M means, without a fault.
GivenAs(ls, fs, M) ==
    /\ DOMAIN fs = 1 .. Len(M)
    /\ \A k \in DOMAIN fs : FunctionOf(ls, fs[k]) = Meant(M)[k]
    /\ FirstOf([k \in DOMAIN fs |-> FunctionFault(ls, fs[k])]) = ""

\* and that of every function.
LEMMA GivenMeant ==
    ASSUME NEW p, NEW n, ProperProgram(p, n), NEW ls, NEW fs, Released(p, ls, fs)
    PROVE  GivenAs(ls, fs, Meaning(p))
<1> DEFINE M == Meaning(p)
           len == Len(M)
           max == Len(fs) + 1
<1>1. n = Len(p) /\ n \in Nat /\ DOMAIN p = 1 .. n
  BY Zenon DEF ProperProgram
<1>2. n \in 0 .. n
  BY <1>1
<1>3. M = Joins(Meanings(p))[n]
  BY <1>1, <1>2, MeaningIs, Zenon
<1>4. GlobalsKept(ls, p, n) /\ ScopesClean(ls, max) /\ HandedAt(M, fs)
  BY <1>1, <1>3, HandedIs, Zenon DEF Released
<1>5. Indexed(M, len) /\ \A k \in DOMAIN M : M[k].lines \in Seq(MeantLines)
  BY FunctionsMeant, Zenon
<1> HIDE DEF M
<1>6. /\ Indexed(fs, len)
      /\ \A k \in 1 .. len : fs[k].scope = k /\ FunctionMatches(fs[k], M[k])
  BY <1>4, Zenon DEF HandedAt
<1>7. len \in Nat /\ DOMAIN M = 1 .. len /\ DOMAIN fs = 1 .. len /\ Len(fs) = len
  BY <1>5, <1>6, IndexedSeq, Zenon
<1>8. \A k \in 1 .. len : k + 1 \in 2 .. max
  <2> HIDE DEF len
  <2> QED BY <1>7
<1> HIDE DEF max, len
<1>9. \A k \in 1 .. len : FunctionOf(ls, fs[k]) = MeantFunction(k, M[k]) /\ FunctionFault(ls, fs[k]) = ""
  <2> SUFFICES ASSUME NEW k \in 1 .. len
               PROVE  FunctionOf(ls, fs[k]) = MeantFunction(k, M[k]) /\ FunctionFault(ls, fs[k]) = ""
    BY Zenon
  <2>1. fs[k].scope = k /\ FunctionMatches(fs[k], M[k]) /\ k + 1 \in 2 .. max
    BY <1>6, <1>8, Zenon DEF len
  <2>2. M[k].lines \in Seq(MeantLines)
    BY <1>5, <1>7, Zenon
  <2>3. Settles(ls, k)
    BY <1>4, <2>1, OperandsMeant, Zenon
  <2>4. Settles(ls, fs[k].scope)
    BY <2>1, <2>3
  <2>5. FunctionOf(ls, fs[k]) = MeantFunction(fs[k].scope, M[k]) /\ FunctionFault(ls, fs[k]) = ""
    BY <2>1, <2>2, <2>4, FunctionMeant, Zenon
  <2> QED BY <2>1, <2>5, Zenon
<1>10. \A k \in 1 .. len : Meant(M)[k] = MeantFunction(k, M[k])
  BY Zenon DEF Meant, len
<1>11. FirstOf([k \in DOMAIN fs |-> FunctionFault(ls, fs[k])]) = ""
  <2> DEFINE t == [k \in DOMAIN fs |-> FunctionFault(ls, fs[k])]
  <2>1. { k \in DOMAIN t : t[k] # "" } = {}
    BY <1>7, <1>9, Zenon
  <2> HIDE DEF t
  <2>2. FirstOf(t) = ""
    BY <2>1, Zenon DEF FirstOf
  <2> QED BY <2>2, Zenon DEF t
<1>12. \A k \in DOMAIN fs : FunctionOf(ls, fs[k]) = Meant(M)[k]
  BY <1>7, <1>9, <1>10, Zenon
<1> QED BY <1>7, <1>11, <1>12, Zenon DEF GivenAs, M, len

-----------------------------------------------------------------------------
(* Sums.                                                                   *)

\* A total adds the numbers of a sequence one after the other.
LEMMA TotalsRun ==
    ASSUME NEW s \in Seq(Nat)
    PROVE  /\ Totals(s)[0] = 0
           /\ \A k \in 1 .. Len(s) : Totals(s)[k] = Totals(s)[k - 1] + s[k]
<1> DEFINE V == Nat
           n == Len(s)
           cat(p, q) == p + q
           step == [p \in V \X V |-> cat(p[1], p[2])]
           none == 0
           Eq(f) == f = [k \in 0 .. n |-> IF k = 0 THEN 0 ELSE cat(f[k - 1], s[k])]
<1>1. n \in Nat /\ none \in V
  OBVIOUS
<1>2. \A p, q \in V : cat(p, q) \in V
  OBVIOUS
<1>3. s \in Seq(V) /\ \A k \in 1 .. n : s[k] \in V
  OBVIOUS
<1> HIDE DEF V, cat
<1>4. step \in [V \X V -> V] /\ \A p, q \in V : step[<<p, q>>] = cat(p, q)
  BY <1>2
<1> HIDE DEF step, none
<1>5. PICK g : Runs(g, V, none, step, s)
  BY <1>1, <1>3, <1>4, Recursion
<1>6. /\ g \in [0 .. n -> V] /\ g[0] = none
      /\ \A k \in 1 .. n : g[k] = step[<<g[k - 1], s[k]>>]
  BY <1>5 DEF Runs
<1> HIDE DEF n
<1>7. ASSUME NEW k \in 1 .. n PROVE g[k] = cat(g[k - 1], s[k])
  <2>1. k - 1 \in 0 .. n
    BY <1>1
  <2>2. g[k - 1] \in V /\ s[k] \in V
    BY <1>3, <1>6, <2>1
  <2> QED BY <1>4, <1>6, <2>2
<1>8. [k \in 0 .. n |-> g[k]] = [k \in 0 .. n |-> IF k = 0 THEN none ELSE cat(g[k - 1], s[k])]
  <2>1. ASSUME NEW k \in 0 .. n
        PROVE  g[k] = IF k = 0 THEN none ELSE cat(g[k - 1], s[k])
    <3>1. k = 0 \/ k \in 1 .. n
      BY <1>1
    <3> QED BY <1>6, <1>7, <3>1
  <2> QED BY <2>1, Zenon
<1>9. \E f : Eq(f)
  <2>1. g = [k \in 0 .. n |-> g[k]]
    BY <1>6
  <2> QED BY <1>8, <2>1, Zenon DEF none
<1> DEFINE j == Totals(s)
<1>10. j = [k \in 0 .. n |-> IF k = 0 THEN none ELSE cat(j[k - 1], s[k])]
  <2>1. Eq(j)
    BY <1>9, Zenon DEF Totals, n, cat
  <2> QED BY <2>1, Zenon DEF none
<1> HIDE DEF j
<1>11. j[0] = none /\ \A k \in 1 .. n : j[k] = cat(j[k - 1], s[k])
  <2>1. \A k \in 0 .. n : j[k] = IF k = 0 THEN none ELSE cat(j[k - 1], s[k])
    BY <1>10, Zenon
  <2> QED BY <1>1, <2>1
<1> QED
  BY <1>11, Zenon DEF j, n, cat, none

\* L adds one summand of F at a time.
Adds(L, F, n) ==
    /\ L[0] = 0
    /\ \A k \in 1 .. n : F[k] \in Nat /\ L[k] = L[k - 1] + F[k]

(***************************************************************************)
(* A sum is what any function says that adds one summand at a time.        *)
(***************************************************************************)
LEMMA TotalIs ==
    ASSUME NEW n, NEW s, Indexed(s, n), NEW L, Adds(L, s, n)
    PROVE  Total(s) = L[n]
<1>0. L[0] = 0 /\ \A k \in 1 .. n : s[k] \in Nat /\ L[k] = L[k - 1] + s[k]
  BY Zenon DEF Adds
<1>1. s \in Seq(Nat) /\ Len(s) = n /\ n \in Nat
  BY <1>0, IndexedIn, Zenon
<1> DEFINE j == Totals(s)
<1>2. j[0] = 0 /\ \A k \in 1 .. n : j[k] = j[k - 1] + s[k]
  BY <1>1, TotalsRun, Zenon
<1>3. Total(s) = j[n]
  BY <1>1, Zenon DEF Total
<1> HIDE DEF j
<1> DEFINE S == { k \in Nat : k <= n => j[k] = L[k] }
<1>4. 0 \in S
  BY <1>0, <1>2
<1>5. ASSUME NEW k \in Nat, k \in S PROVE k + 1 \in S
  <2> SUFFICES ASSUME k + 1 <= n PROVE j[k + 1] = L[k + 1]
    OBVIOUS
  <2>1. k + 1 \in 1 .. n /\ (k + 1) - 1 = k /\ k <= n
    BY <1>1
  <2>2. j[k] = L[k]
    BY <1>5, <2>1
  <2> QED BY <1>0, <1>2, <2>1, <2>2
<1>6. Nat \subseteq S
  <2> HIDE DEF S
  <2> QED BY <1>4, <1>5, SetInduction
<1> QED
  BY <1>1, <1>3, <1>6

-----------------------------------------------------------------------------
(* The lines of the translator's functions.                                *)

-----------------------------------------------------------------------------
(* The translator in the compiler is that of TranslatorProofs.             *)

T == INSTANCE TranslatorProofs WITH Programs <- {}

LEMMA SpanIs == \A n : T!Span(n) = B!Span(n)
BY Zenon DEF T!Span, B!Span, T!Powers, B!Powers

LEMMA ValueIs == \A m, a, n : T!Value(m, a, n) = B!Value(m, a, n)
BY Zenon DEF T!Value, B!Value, T!Uppers, B!Uppers

LEMMA KindsAre ==
    /\ T!Empty = B!Empty /\ T!Fixed = B!Fixed /\ T!Relative = B!Relative
    /\ T!RelativeWithDiff = B!RelativeWithDiff
BY Zenon DEF T!Empty, B!Empty, T!Fixed, B!Fixed, T!Relative, B!Relative, T!RelativeWithDiff, B!RelativeWithDiff

LEMMA LittleIs == \A v, n : T!Little(v, n) = B!Little(v, n)
BY SpanIs, Zenon DEF T!Little, B!Little, T!Part, B!Part

LEMMA InfosAre == T!InstInfos = B!InstInfos
<1>1. T!SystemIds = B!SystemIds /\ T!SizeIds = B!SizeIds /\ T!TypeIds = B!TypeIds
  BY Zenon DEF T!SystemIds, B!SystemIds, T!SizeIds, B!SizeIds, T!TypeIds, B!TypeIds
<1>2. \A first, ids, sign : T!InfosFrom(first, ids, sign) = B!InfosFrom(first, ids, sign)
  BY SMT DEF T!InfosFrom, B!InfosFrom
<1>3. { [name |-> n, size |-> 0, sign |-> "", code |-> T!SystemIds[n]] : n \in DOMAIN T!SystemIds }
         = { [name |-> n, size |-> 0, sign |-> "", code |-> B!SystemIds[n]] : n \in DOMAIN B!SystemIds }
  BY <1>1, Zenon
<1> QED BY <1>1, <1>2, <1>3, Zenon DEF T!InstInfos, B!InstInfos

LEMMA CodeIs == \A inst, mask : T!CodeBytes(inst, mask) = B!CodeBytes(inst, mask)
BY InfosAre, SpanIs, LittleIs, Zenon DEF T!CodeBytes, B!CodeBytes, T!CodeOf, B!CodeOf

LEMMA ArgsAre == \A inst, k : T!ArgBytes(inst, k) = B!ArgBytes(inst, k)
<1>1. \A arg, size : T!OperandBytes(arg, size) = B!OperandBytes(arg, size)
  BY LittleIs, KindsAre, Zenon DEF T!OperandBytes, B!OperandBytes
<1> QED BY <1>1, Zenon DEF T!ArgBytes, B!ArgBytes

LEMMA InstBytesAre == \A inst : T!InstBytes(inst) = B!InstBytes(inst)
<1>1. \A args, k : T!ArgKind(args, k) = B!ArgKind(args, k)
  BY KindsAre, Zenon DEF T!ArgKind, B!ArgKind
<1>2. \A args : T!Mask(args) = B!Mask(args)
  BY <1>1, Zenon DEF T!Mask, B!Mask
<1> QED BY <1>2, CodeIs, ArgsAre, LittleIs, Zenon DEF T!InstBytes, B!InstBytes

LEMMA SameLineAdded == \A acc, line : T!AddLine(acc, line) = B!AddLine(acc, line)
<1> SUFFICES ASSUME NEW acc, NEW line PROVE T!AddLine(acc, line) = B!AddLine(acc, line)
  OBVIOUS
<1>1. \A map, name, value : T!Emplace(map, name, value) = B!Emplace(map, name, value)
  BY Zenon DEF T!Emplace, B!Emplace
<1>2. T!IsLabel(line) = B!IsLabel(line)
  BY Zenon DEF T!IsLabel, B!IsLabel
<1>3. T!InstBytes(line) = B!InstBytes(line)
  BY InstBytesAre, Zenon
<1> QED BY <1>1, <1>2, <1>3, Zenon DEF T!AddLine, B!AddLine

LEMMA SameHeaderAdded == \A acc, f : T!AddHeader(acc, f) = B!AddHeader(acc, f)
BY LittleIs, Zenon DEF T!AddHeader, B!AddHeader, T!Emplace, B!Emplace

LEMMA SameFunctionAdded == \A acc, f : T!AddFunction(acc, f) = B!AddFunction(acc, f)
<1> SUFFICES ASSUME NEW acc, NEW f PROVE T!AddFunction(acc, f) = B!AddFunction(acc, f)
  OBVIOUS
<1> DEFINE a == T!AddHeader(acc, f)
           s == f.lines
           P(g) == g = [k \in 0 .. Len(s) |-> IF k = 0 THEN a ELSE T!AddLine(g[k - 1], s[k])]
           Q(g) == g = [k \in 0 .. Len(s) |-> IF k = 0 THEN a ELSE B!AddLine(g[k - 1], s[k])]
<1>1. ASSUME NEW g PROVE P(g) <=> Q(g)
  <2>1. \A k : T!AddLine(g[k - 1], s[k]) = B!AddLine(g[k - 1], s[k])
    <3> TAKE k
    <3> DEFINE u == g[k - 1]
               w == s[k]
    <3> HIDE DEF u, w
    <3>1. T!AddLine(u, w) = B!AddLine(u, w)
      BY SameLineAdded, Zenon
    <3> QED BY <3>1, Zenon DEF u, w
  <2> HIDE DEF a, s
  <2>2. [k \in 0 .. Len(s) |-> IF k = 0 THEN a ELSE T!AddLine(g[k - 1], s[k])]
           = [k \in 0 .. Len(s) |-> IF k = 0 THEN a ELSE B!AddLine(g[k - 1], s[k])]
    BY <2>1, Zenon
  <2> QED BY <2>2, Zenon
<1>2. T!AddFunction(acc, f) = (CHOOSE g : P(g))[Len(s)]
  BY Zenon DEF T!AddFunction, T!Running
<1>3. B!AddFunction(acc, f) = (CHOOSE g : Q(g))[Len(s)]
  BY SameHeaderAdded, Zenon DEF B!AddFunction, B!Running
<1> HIDE DEF P, Q
<1>4. (CHOOSE g : P(g)) = (CHOOSE g : Q(g))
  BY <1>1, Zenon
<1> QED BY <1>2, <1>3, <1>4, Zenon

LEMMA SameLayout == \A fs : T!Layout(fs) = B!Layout(fs)
<1> SUFFICES ASSUME NEW fs PROVE T!Layout(fs) = B!Layout(fs)
  OBVIOUS
<1> DEFINE a == T!NoLayout
           s == T!InOrder(fs)
           P(g) == g = [k \in 0 .. Len(s) |-> IF k = 0 THEN a ELSE T!AddFunction(g[k - 1], s[k])]
           Q(g) == g = [k \in 0 .. Len(s) |-> IF k = 0 THEN a ELSE B!AddFunction(g[k - 1], s[k])]
<1>1. ASSUME NEW g PROVE P(g) <=> Q(g)
  <2>1. \A k : T!AddFunction(g[k - 1], s[k]) = B!AddFunction(g[k - 1], s[k])
    BY SameFunctionAdded, Zenon
  <2> HIDE DEF a, s
  <2>2. [k \in 0 .. Len(s) |-> IF k = 0 THEN a ELSE T!AddFunction(g[k - 1], s[k])]
           = [k \in 0 .. Len(s) |-> IF k = 0 THEN a ELSE B!AddFunction(g[k - 1], s[k])]
    BY <2>1, Zenon
  <2> QED BY <2>2, Zenon
<1>5. T!Cardinality(fs) = B!Cardinality(fs)
  BY Zenon DEF T!Cardinality, B!Cardinality
<1>6. T!InOrder(fs) = B!InOrder(fs) /\ T!NoLayout = B!NoLayout
  BY <1>5, Zenon DEF T!InOrder, B!InOrder, T!NoLayout, B!NoLayout
<1>2. T!Layout(fs) = (CHOOSE g : P(g))[T!Cardinality(fs)]
  BY Zenon DEF T!Layout, T!Running
<1>3. B!Layout(fs) = (CHOOSE g : Q(g))[T!Cardinality(fs)]
  BY <1>5, <1>6, Zenon DEF B!Layout, B!Running
<1> HIDE DEF P, Q
<1>4. (CHOOSE g : P(g)) = (CHOOSE g : Q(g))
  BY <1>1, Zenon
<1> QED BY <1>2, <1>3, <1>4, Zenon

LEMMA LinkedIs == \A fs : T!Linked(fs) = B!Linked(fs)
BY Zenon DEF T!Linked, B!Linked, T!Put, B!Put, T!Write, B!Write,T!Little, B!Little, T!Part, B!Part,T!Span, B!Span, T!Powers, B!Powers, T!Offset, B!Offset, T!Running, B!Running

LEMMA ThrowsIs == \A fs : T!Throws(fs) = B!Throws(fs)
BY Zenon, SameLayout DEF T!Throws, B!Throws, T!WrongOperand, B!WrongOperand, T!Empty, B!Empty, T!IsLabel, B!IsLabel

LEMMA InstIs == T!Instructions = B!Instructions
BY SMT DEF T!Instructions, B!Instructions, T!CodesFrom, B!CodesFrom, T!SystemNames, B!SystemNames, T!SizeNames, B!SizeNames,
  T!TypeNames, B!TypeNames, T!SignedNames, B!SignedNames

\* The constants of the compiler are those its translator asks for.
LEMMA Csts == T!IsaConstants /\ T!CodesFit
<1>1. T!IsaConstants
BY Zenon, CodeConstants DEF T!IsaConstants, B!IsaConstants
<1>2. T!CodesFit
BY Zenon, CodeConstants, InstIs, SpanIs DEF T!CodesFit, B!CodesFit
<1> QED BY <1>1, <1>2

LEMMA Nothing0 == T!TranslatorConstants
BY Zenon DEF T!TranslatorConstants

\* The entry, read as the compiler's properties read it.
LEMMA Entry ==
    ASSUME NEW s \in Seq(T!Functions), T!Placeable(s), NEW i \in 1 .. Len(s),
           s[i].name = "@main()", T!Leads(s, i)
    PROVE  B!Value(T!Code(s), 0, Word) = T!Start(s, i)
BY T!EntryRead, Csts, Nothing0, ValueIs, Zenon

\* The words in front of a function, read in the same way.
LEMMA Header ==
    ASSUME NEW s \in Seq(T!Functions), T!Placeable(s), NEW i \in 1 .. Len(s)
    PROVE  /\ B!Value(T!Code(s), T!Start(s, i) - Word, Word) = s[i].ret
           /\ i # 1 => B!Value(T!Code(s), T!Start(s, i) - 2 * Word, Word) = s[i].args
BY T!HeaderRead, Csts, Nothing0, ValueIs, Zenon

\* Sizes of operands are numbers.
LEMMA InfoSizes == \A i \in T!InstInfos : i.size \in Nat
<1>1. \A k \in DOMAIN OperandSizes : OperandSizes[k] \in Nat
  <2>1. OperandSizes \in Seq(1 .. Word) /\ Word \in Nat
    BY Csts DEF T!IsaConstants
  <2> QED BY <2>1
<1>2. \A first, ids, sign : \A i \in T!InfosFrom(first, ids, sign) : i.size \in Nat
  <2> SUFFICES ASSUME NEW first, NEW ids, NEW sign, NEW n \in DOMAIN ids, NEW k \in DOMAIN OperandSizes
               PROVE  [name |-> n, size |-> OperandSizes[k], sign |-> sign,
                       code |-> first + (k - 1) * CodeStride + ids[n]].size \in Nat
    BY DEF T!InfosFrom
  <2> QED BY <1>1
<1> DEFINE Sys == { [name |-> n, size |-> 0, sign |-> "", code |-> T!SystemIds[n]] : n \in DOMAIN T!SystemIds }
<1>3. \A i \in Sys : i.size = 0
  <2> DEFINE Of(n) == [name |-> n, size |-> 0, sign |-> "", code |-> T!SystemIds[n]]
  <2>1. \A n : Of(n).size = 0
    OBVIOUS
  <2>2. Sys = { Of(n) : n \in DOMAIN T!SystemIds }
    OBVIOUS
  <2> HIDE DEF Sys, Of
  <2> QED BY <2>1, <2>2, Zenon
<1>4. 0 \in Nat
  OBVIOUS
<1> HIDE DEF Sys
<1>5. T!InstInfos = Sys \cup T!InfosFrom(SizeCodes, T!SizeIds, "")
         \cup T!InfosFrom(UnsignedCodes, T!TypeIds, "u")
         \cup T!InfosFrom(SignedCodes, T!TypeIds, "i")
  BY Zenon DEF T!InstInfos, Sys
<1> QED BY <1>2, <1>3, <1>4, <1>5, Zenon

\* Both calls are in the table of the compiler.
LEMMA CallsInTable ==
    \A n \in {"fcall", "ncall"} :
        \E i \in T!InstInfos : i.name = n /\ i.size = 0 /\ i.sign = ""
<1>1. \A n \in {"fcall", "ncall"} : n \in DOMAIN T!SystemIds
  BY DEF T!SystemIds
<1> SUFFICES ASSUME NEW n \in {"fcall", "ncall"}
             PROVE  \E i \in T!InstInfos : i.name = n /\ i.size = 0 /\ i.sign = ""
  BY Zenon
<1> DEFINE i == [name |-> n, size |-> 0, sign |-> "", code |-> T!SystemIds[n]]
<1>2. i \in T!InstInfos
  BY <1>1, Zenon DEF T!InstInfos
<1>3. i.name = n /\ i.size = 0 /\ i.sign = ""
  OBVIOUS
<1> QED BY <1>2, <1>3, Zenon

LEMMA FewOperands == \A n : B!Arity(n)[2] \in 0 .. 3
<1>1. <<0, 0>>[2] = 0 /\ <<1, 1>>[2] = 1 /\ <<0, 1>>[2] = 1 /\ <<2, 2>>[2] = 2 /\ <<2, 3>>[2] = 3
  OBVIOUS
<1> QED BY <1>1 DEF B!Arity

\* The operand of a place is one of the translator's, of some kind.
LEMMA OperandTyped == \A place \in MeantPlaces : 
    /\ PlaceOperand(place) \in T!Operands
    /\ PlaceOperand(place).kind # T!Empty
    /\ PlaceOperand(place).kind \in {T!Relative, T!RelativeWithDiff} => PlaceOperand(place).base \in T!Words
<1>1. B!Words \subseteq Int /\ B!Words = T!Words
  <2>1. B!Words = T!Words
    BY SpanIs, Zenon DEF T!Words, B!Words
  <2>2. T!Words \subseteq Int
    BY DEF T!Words
  <2> QED BY <2>1, <2>2
<1>2. /\ B!Empty = 0 /\ B!Fixed = 3 /\ B!Relative = 1 /\ B!RelativeWithDiff = 2
      /\ T!Empty = 0 /\ T!Fixed = 3 /\ T!Relative = 1 /\ T!RelativeWithDiff = 2
  BY Zenon DEF B!Empty, B!Fixed, B!Relative, B!RelativeWithDiff, T!Empty, T!Fixed, T!Relative, T!RelativeWithDiff
<1> DEFINE W == B!Words
           OkOperand(o) == /\ o \in T!Operands /\ o.kind # T!Empty
                           /\ o.kind \in {T!Relative, T!RelativeWithDiff} => o.base \in T!Words
<1> HIDE DEF W
<1>0. W \subseteq Int /\ W = T!Words
  BY <1>1 DEF W
<1>3. \A x \in Nat : OkOperand([kind |-> B!Fixed, value |-> x])
  <2> SUFFICES ASSUME NEW x \in Nat PROVE OkOperand([kind |-> B!Fixed, value |-> x])
    OBVIOUS
  <2>1. [kind |-> B!Fixed, value |-> x] \in [kind : {T!Fixed}, value : Int]
    BY <1>2
  <2>2. [kind |-> B!Fixed, value |-> x].kind = 3
    BY <1>2
  <2> QED BY <1>2, <2>1, <2>2 DEF T!Operands
<1>4. \A x \in W : OkOperand([kind |-> B!Relative, base |-> x])
  <2> SUFFICES ASSUME NEW x \in W PROVE OkOperand([kind |-> B!Relative, base |-> x])
    OBVIOUS
  <2>1. [kind |-> B!Relative, base |-> x] \in [kind : {T!Relative}, base : Int]
    BY <1>0, <1>2
  <2>2. [kind |-> B!Relative, base |-> x].kind = 1 /\ [kind |-> B!Relative, base |-> x].base = x
    BY <1>2
  <2> QED BY <1>0, <1>2, <2>1, <2>2 DEF T!Operands
<1>5. \A x \in W : \A d \in Int : OkOperand([kind |-> B!RelativeWithDiff, base |-> x, value |-> d])
  <2> SUFFICES ASSUME NEW x \in W, NEW d \in Int
               PROVE  OkOperand([kind |-> B!RelativeWithDiff, base |-> x, value |-> d])
    OBVIOUS
  <2> DEFINE o == [kind |-> B!RelativeWithDiff, base |-> x, value |-> d]
  <2>1. o \in [kind : {T!RelativeWithDiff}, base : Int, value : Int]
    BY <1>0, <1>2
  <2>2. o.kind = 2 /\ o.base = x
    BY <1>2
  <2> HIDE DEF o
  <2>3. OkOperand(o)
    BY <1>0, <1>2, <2>1, <2>2 DEF T!Operands
  <2> QED BY <2>3 DEF o
<1> HIDE DEF OkOperand
<1>6. ASSUME NEW place \in MeantPlaces PROVE OkOperand(PlaceOperand(place))
  <2>1. CASE place \in [lit : Nat]
    <3>1. place.lit \in Nat /\ place = [lit |-> place.lit]
      BY <2>1
    <3> QED BY <1>3, <3>1, PlacedOperands, ZenonT(40)
  <2>2. CASE place \in [at : W]
    <3>1. place.at \in W /\ place = [at |-> place.at]
      BY <2>2
    <3> QED BY <1>4, <3>1, PlacedOperands, ZenonT(40)
  <2>3. CASE place \in [via : W, diff : Int]
    <3>1. place.via \in W /\ place.diff \in Int
      BY <2>3
    <3>2. place = [via |-> place.via, diff |-> place.diff]
      BY <2>3
    <3> DEFINE x == place.via
               d == place.diff
    <3> HIDE DEF x, d
    <3>3. PlaceOperand([via |-> x, diff |-> d])
             = [kind |-> B!RelativeWithDiff, base |-> x, value |-> d]
      BY PlacedOperands, Zenon
    <3>4. OkOperand([kind |-> B!RelativeWithDiff, base |-> x, value |-> d])
      BY <1>5, <3>1, Zenon DEF x, d
    <3>5. place = [via |-> x, diff |-> d]
      BY <3>2 DEF x, d
    <3> QED BY <3>3, <3>4, <3>5, Zenon
  <2> QED BY <2>1, <2>2, <2>3, Zenon DEF MeantPlaces, W
<1> QED BY <1>6, Zenon DEF OkOperand

\* An instruction of a meaning is one of the translator's.
LEMMA InstInTable ==
    ASSUME NEW m \in MeantInsts
    PROVE  MeantInst(m) \in T!Others /\ T!InTable(MeantInst(m))
<1>1. /\ m.inst \in DOMAIN Insts /\ m.args \in Seq(MeantPlaces)
      /\ Insts[m.inst].op \notin {"fcall", "ncall"} /\ Len(m.args) <= Insts[m.inst].max
  BY MeantFields
<1>2. PICK i \in T!InstInfos :
          /\ Insts[m.inst] = [op |-> i.name, size |-> i.size, sign |-> i.sign,
                                 min |-> B!Arity(i.name)[1], max |-> B!Arity(i.name)[2]]
          /\ i.name \in STRING /\ i.sign \in STRING
  BY <1>1, InstsOfTable, InfosAre, Zenon
<1>3. /\ Insts[m.inst].op = i.name /\ Insts[m.inst].size = i.size /\ Insts[m.inst].sign = i.sign
      /\ Insts[m.inst].max \in 0 .. 3
  BY <1>2, FewOperands
<1> DEFINE inst == MeantInst(m)
           args == [n \in DOMAIN m.args |-> PlaceOperand(m.args[n])]
<1>4. inst = [name |-> i.name, size |-> i.size, sign |-> i.sign, args |-> args]
  BY <1>3, Zenon DEF MeantInst
<1>5. args \in Seq(T!Operands) /\ Len(args) <= 3
  <2>1. DOMAIN m.args = 1 .. Len(m.args) /\ Len(m.args) \in Nat /\ Len(m.args) <= 3
    BY <1>1, <1>3
  <2>2. \A n \in 1 .. Len(m.args) : m.args[n] \in MeantPlaces
    BY <1>1
  <2> DEFINE l == Len(m.args)
  <2>3. args = [n \in 1 .. l |-> PlaceOperand(m.args[n])]
    BY <2>1, Zenon
  <2> HIDE DEF l
  <2>4. \A n \in 1 .. l : PlaceOperand(m.args[n]) \in T!Operands
    BY <2>2, OperandTyped, Zenon DEF l
  <2> HIDE DEF args
  <2>5. Indexed(args, l)
    BY <2>1, <2>3 DEF l, Indexed
  <2>6. \A n \in 1 .. l : args[n] \in T!Operands
    BY <2>3, <2>4
  <2>7. args \in Seq(T!Operands) /\ Len(args) = l
    BY <2>5, <2>6, IndexedIn, Zenon
  <2> QED BY <2>1, <2>7 DEF l
<1> HIDE DEF args, inst
<1>6. i.name \in STRING /\ i.size \in Nat /\ i.sign \in STRING
  BY <1>2, InfoSizes
<1>7. inst.name = i.name /\ inst.size = i.size /\ inst.sign = i.sign /\ inst.args = args
  BY <1>4
<1>8. T!InTable(inst)
  BY <1>7, Zenon DEF T!InTable
<1>9. inst \in T!Others
  BY <1>1, <1>3, <1>4, <1>5, <1>6, <1>7 DEF T!Others
<1> QED BY <1>8, <1>9 DEF inst

Translatable(m) ==
    /\ MeantLine(m) \in T!Lines
    /\ Has(m, "label") => MeantLine(m) = m /\ T!IsLabel(MeantLine(m))
    /\ Has(m, "call") =>
          /\ ~T!IsLabel(MeantLine(m)) /\ MeantLine(m) \notin T!Others
          /\ MeantLine(m).name = m.call /\ MeantLine(m).size = 0 /\ MeantLine(m).sign = ""
          /\ m.call = "fcall" => MeantLine(m) \in T!Fcalls /\ MeantLine(m).target = Spelled(m.callee)
          /\ m.call = "ncall" => /\ MeantLine(m) \in T!Ncalls
                                 /\ MeantLine(m).key = Hash(Spelled(m.callee))
                                 /\ MeantLine(m).key \in T!Words
    /\ Has(m, "inst") =>
          /\ MeantLine(m) = MeantInst(m) /\ MeantLine(m) \in T!Others /\ ~T!IsLabel(MeantLine(m))

\* Words are the same numbers for the compiler and the translator.
LEMMA WordsSame == B!Words = T!Words /\ \A w \in T!Words : w \in Nat
<1>1. B!Words = T!Words
  BY SpanIs, Zenon DEF T!Words, B!Words
<1> QED BY <1>1 DEF T!Words

\* A call is one of the translator's lines,
LEMMA CallTyped ==
    ASSUME NEW m \in CallLines, LineFits(m), Spelled(m.callee) \in STRING
    PROVE  Translatable(m)
<1>1. ~Has(m, "label") /\ Has(m, "call") /\ ~Has(m, "inst") /\ m.call \in {"fcall", "ncall"}
  BY MeantFields, Zenon
<1> DEFINE x == Spelled(m.callee)
           t == MeantLine(m)
<1>2. t = CallOf(m)
  BY <1>1, Zenon DEF MeantLine
<1>3. x \in STRING
  OBVIOUS
<1> HIDE DEF x, t
<1>5. CASE m.call = "fcall"
  <2>1. t = [name |-> "fcall", size |-> 0, sign |-> "", target |-> x]
    BY <1>2, <1>5, Zenon DEF CallOf, x
  <2>2. t \in T!Fcalls /\ t.name = "fcall" /\ t.size = 0 /\ t.sign = "" /\ t.target = x
    BY <1>3, <2>1, Zenon DEF T!Fcalls
  <2>3. ~T!IsLabel(t) /\ t \notin T!Others
    <3>1. ~T!IsLabel(t)
      BY <2>1, Zenon DEF T!IsLabel
    <3>2. t \notin T!Others
      BY <2>2, Zenon DEF T!Others
    <3> QED BY <3>1, <3>2
  <2>4. T!InTable(t)
    BY <2>2, CallsInTable, Zenon DEF T!InTable
  <2>5. t \in T!Lines
    BY <2>2, <2>4, Zenon DEF T!Lines
  <2> QED BY <1>1, <1>5, <2>2, <2>3, <2>5, Zenon DEF Translatable, x, t
<1>6. CASE m.call = "ncall"
  <2>0. m.call # "fcall"
    BY <1>6
  <2>1. t = [name |-> "ncall", size |-> 0, sign |-> "", key |-> Hash(x)]
    BY <1>2, <2>0, Zenon DEF CallOf, x
  <2>6. Hash(x) \in T!Words /\ Hash(x) \in Nat
    BY <1>1, <1>6, WordsSame, Zenon DEF LineFits, x
  <2>2. t \in T!Ncalls /\ t.name = "ncall" /\ t.size = 0 /\ t.sign = "" /\ t.key = Hash(x)
    BY <2>1, <2>6, Zenon DEF T!Ncalls
  <2>3. ~T!IsLabel(t) /\ t \notin T!Others
    <3>1. ~T!IsLabel(t)
      BY <2>1, Zenon DEF T!IsLabel
    <3>2. t \notin T!Others
      BY <2>2, Zenon DEF T!Others
    <3> QED BY <3>1, <3>2
  <2>4. T!InTable(t)
    BY <2>2, CallsInTable, Zenon DEF T!InTable
  <2>5. t \in T!Lines
    BY <2>2, <2>4, Zenon DEF T!Lines
  <2> QED BY <1>1, <1>6, <2>0, <2>2, <2>3, <2>5, <2>6, Zenon DEF Translatable, x, t
<1> QED BY <1>1, <1>5, <1>6

\* and so is every line.
LEMMA MeantLineTyped ==
    ASSUME NEW m \in MeantLines, LineFits(m), Has(m, "call") => Spelled(m.callee) \in STRING
    PROVE  Translatable(m)
<1>1. CASE m \in LabelLines
  <2>1. Has(m, "label") /\ ~Has(m, "call") /\ ~Has(m, "inst")
    BY <1>1, MeantFields, Zenon
  <2>2. MeantLine(m) = m
    BY <2>1, Zenon DEF MeantLine
  <2>3. m \in T!Labels /\ T!IsLabel(m)
    BY <1>1, <2>1, Zenon DEF LabelLines, T!Labels, T!IsLabel, Has
  <2> QED BY <2>1, <2>2, <2>3, Zenon DEF Translatable, T!Lines
<1>2. CASE m \in CallLines
  BY <1>2, CallTyped, MeantFields, Zenon
<1>3. CASE m \in MeantInsts
  <2>1. ~Has(m, "label") /\ ~Has(m, "call") /\ Has(m, "inst")
    BY <1>3, MeantFields, Zenon
  <2>2. MeantLine(m) = MeantInst(m)
    BY <2>1, Zenon DEF MeantLine
  <2>3. MeantInst(m) \in T!Others /\ T!InTable(MeantInst(m))
    BY <1>3, InstInTable
  <2>4. ~T!IsLabel(MeantInst(m))
    BY <2>3, Zenon DEF T!Others, T!IsLabel
  <2> QED BY <2>1, <2>2, <2>3, <2>4, Zenon DEF Translatable, T!Lines
<1> QED BY <1>1, <1>2, <1>3, Zenon DEF MeantLines

-----------------------------------------------------------------------------
Sensible(M) ==
    /\ Indexed(M, Len(M)) /\ \A k \in DOMAIN M : M[k].lines \in Seq(MeantLines)
    /\ Fits(M) /\ SpelledApart(M)

FunctionTyped(M, k) ==
    /\ Meant(M)[k] = MeantFunction(k, M[k])
    /\ Meant(M)[k] \in T!Functions
    /\ Meant(M)[k].name = Spelled(M[k].name) /\ Meant(M)[k].scope = k
    /\ Meant(M)[k].args = M[k].args /\ Meant(M)[k].ret = M[k].ret
    /\ M[k].lines \in Seq(MeantLines) /\ Meant(M)[k].lines \in Seq(T!Lines)
    /\ DOMAIN Meant(M)[k].lines = DOMAIN M[k].lines
    /\ \A n \in DOMAIN M[k].lines :
          Meant(M)[k].lines[n] = MeantLine(M[k].lines[n]) /\ Translatable(M[k].lines[n])

\* A name that is called is spelled as a string.
LEMMA CalleesSpelled ==
    ASSUME NEW M, SpelledApart(M), NEW k \in DOMAIN M, NEW n \in DOMAIN M[k].lines,
           Has(M[k].lines[n], "call")
    PROVE  Spelled(M[k].lines[n].callee) \in STRING
<1> DEFINE C(j) == { M[j].lines[i].callee : i \in { h \in DOMAIN M[j].lines : Has(M[j].lines[h], "call") } }
<1>2. Callees(M) = UNION { C(j) : j \in DOMAIN M }
  BY Zenon DEF Callees
<1>3. M[k].lines[n].callee \in C(k)
  BY Zenon
<1> HIDE DEF C
<1>1. M[k].lines[n].callee \in Callees(M)
  BY <1>2, <1>3, Zenon
<1> QED BY <1>1, Zenon DEF SpelledApart

\* A function of a meaning is one of the translator's,
LEMMA MeantFunctionTyped ==
    ASSUME NEW M, Sensible(M), NEW k \in DOMAIN M
    PROVE  FunctionTyped(M, k)
<1>1. DOMAIN M = 1 .. Len(M) /\ Len(M) \in Nat
  BY IndexedSeq, Zenon DEF Sensible
<1>2. Meant(M)[k] = MeantFunction(k, M[k])
  BY <1>1, Zenon DEF Meant
<1>3. M[k].lines \in Seq(MeantLines)
  BY Zenon DEF Sensible
<1>4. M[k].args \in B!Words /\ M[k].ret \in B!Words /\ \A n \in DOMAIN M[k].lines : LineFits(M[k].lines[n])
  BY Zenon DEF Sensible, Fits
<1>5. Spelled(M[k].name) \in STRING
  <2>1. M[k].name \in Definitions(M)
    BY Zenon DEF Definitions
  <2> QED BY <2>1, Zenon DEF Sensible, SpelledApart
<1> DEFINE s == M[k].lines
           t == Meant(M)[k].lines
           l == Len(s)
<1>6. DOMAIN s = 1 .. l /\ l \in Nat /\ \A n \in 1 .. l : s[n] \in MeantLines
  BY <1>3
<1>7. \A n \in 1 .. l : Translatable(s[n])
  <2> SUFFICES ASSUME NEW n \in 1 .. l PROVE Translatable(s[n])
    OBVIOUS
  <2>1. Has(s[n], "call") => Spelled(s[n].callee) \in STRING
    BY <1>6, CalleesSpelled, Zenon DEF Sensible
  <2>2. s[n] \in MeantLines /\ LineFits(s[n])
    BY <1>4, <1>6, Zenon
  <2> HIDE DEF s
  <2> QED BY <2>1, <2>2, MeantLineTyped, Zenon
<1>8. /\ Meant(M)[k].name = Spelled(M[k].name) /\ Meant(M)[k].scope = k
      /\ Meant(M)[k].args = M[k].args /\ Meant(M)[k].ret = M[k].ret
      /\ t = [n \in DOMAIN s |-> MeantLine(s[n])]
      /\ Meant(M)[k] = [name |-> Spelled(M[k].name), scope |-> k, args |-> M[k].args,
                        ret |-> M[k].ret, lines |-> t]
  BY <1>2 DEF MeantFunction
<1>9. t = [n \in 1 .. l |-> MeantLine(s[n])]
  BY <1>6, <1>8, Zenon
<1> HIDE DEF s, t, l
<1>10. DOMAIN t = 1 .. l /\ \A n \in 1 .. l : t[n] = MeantLine(s[n])
  BY <1>9
<1>11. t \in Seq(T!Lines)
  <2>1. Indexed(t, l)
    BY <1>6, <1>9 DEF Indexed
  <2>2. \A n \in 1 .. l : t[n] \in T!Lines
    BY <1>7, <1>10, Zenon DEF Translatable
  <2> QED BY <2>1, <2>2, IndexedIn, Zenon
<1>12. Meant(M)[k] \in T!Functions
  <2>1. k \in Nat
    BY <1>1
  <2>2. M[k].args \in T!Words /\ M[k].ret \in T!Words
    BY <1>4, WordsSame
  <2> QED BY <1>5, <1>8, <1>11, <2>1, <2>2 DEF T!Functions
<1> QED BY <1>2, <1>3, <1>6, <1>7, <1>8, <1>10, <1>11, <1>12, Zenon DEF FunctionTyped, s, t, l

\* and its functions are a sequence of them.
LEMMA MeantTyped ==
    ASSUME NEW M, Sensible(M)
    PROVE  /\ Meant(M) \in Seq(T!Functions) /\ Len(Meant(M)) = Len(M) /\ Len(M) \in Nat
           /\ DOMAIN Meant(M) = 1 .. Len(M) /\ DOMAIN M = 1 .. Len(M)
           /\ \A k \in 1 .. Len(M) : FunctionTyped(M, k)
<1> DEFINE s == Meant(M)
           n == Len(M)
<1>1. DOMAIN M = 1 .. n /\ n \in Nat
  BY IndexedSeq, Zenon DEF Sensible
<1>2. \A k \in 1 .. n : FunctionTyped(M, k)
  BY <1>1, MeantFunctionTyped, Zenon
<1>3. \A k \in 1 .. n : s[k] \in T!Functions
  BY <1>2, Zenon DEF FunctionTyped
<1>4. Indexed(s, n) /\ DOMAIN s = 1 .. n
  BY <1>1 DEF Indexed, Meant
<1> HIDE DEF s, n
<1>5. s \in Seq(T!Functions) /\ Len(s) = n
  BY <1>3, <1>4, IndexedIn, Zenon
<1> QED BY <1>1, <1>2, <1>4, <1>5, Zenon DEF s, n

-----------------------------------------------------------------------------
(* Lengths.                                                                *)

LEMMA CodeSizes ==
    Word \in Nat /\ InstSize \in Nat /\ RegistersSize \in Nat
BY Csts DEF T!IsaConstants

WidthOf(m, k) == T!Width(T!ArgKind(MeantInst(m).args, k), MeantInst(m).size)

\* An operand takes the bytes its place is said to take,
LEMMA PlaceWidth ==
    ASSUME NEW place \in MeantPlaces, NEW size \in Nat
    PROVE  /\ PlaceBytes(place, size) = T!Width(PlaceOperand(place).kind, size)
           /\ PlaceBytes(place, size) \in Nat
<1>1. T!Empty = 0 /\ T!Fixed = 3 /\ T!Relative = 1 /\ T!RelativeWithDiff = 2
  BY Zenon DEF T!Empty, T!Fixed, T!Relative, T!RelativeWithDiff
<1>2. T!Width(1, size) = Word /\ T!Width(2, size) = 2 * Word /\ T!Width(3, size) = size
  BY <1>1 DEF T!Width
<1>3. Word \in Nat /\ 2 * Word \in Nat
  BY CodeSizes
<1> DEFINE W == B!Words
<1> HIDE DEF W
<1>4. CASE place \in [lit : Nat]
  <2>1. Has(place, "lit") /\ ~Has(place, "at")
    BY <1>4 DEF Has
  <2>2. PlaceOperand(place) = [kind |-> B!Fixed, value |-> place.lit] /\ PlaceBytes(place, size) = size
    BY <2>1, Zenon DEF PlaceOperand, PlaceBytes
  <2>3. PlaceOperand(place).kind = 3
    BY <1>1, <2>2, KindsAre
  <2> QED BY <1>2, <2>2, <2>3
<1>5. CASE place \in [at : W]
  <2>1. ~Has(place, "lit") /\ Has(place, "at")
    BY <1>5 DEF Has
  <2>2. PlaceOperand(place) = [kind |-> B!Relative, base |-> place.at] /\ PlaceBytes(place, size) = Word
    BY <2>1, Zenon DEF PlaceOperand, PlaceBytes
  <2>3. PlaceOperand(place).kind = 1
    BY <1>1, <2>2, KindsAre
  <2> QED BY <1>2, <1>3, <2>2, <2>3
<1>6. CASE place \in [via : W, diff : Int]
  <2>1. ~Has(place, "lit") /\ ~Has(place, "at")
    BY <1>6 DEF Has
  <2>2. /\ PlaceOperand(place) = [kind |-> B!RelativeWithDiff, base |-> place.via, value |-> place.diff]
        /\ PlaceBytes(place, size) = 2 * Word
    BY <2>1, Zenon DEF PlaceOperand, PlaceBytes
  <2>3. PlaceOperand(place).kind = 2
    BY <1>1, <2>2, KindsAre
  <2> QED BY <1>2, <1>3, <2>2, <2>3
<1> QED BY <1>4, <1>5, <1>6, Zenon DEF MeantPlaces, W

\* every one of an instruction,
LEMMA ArgWidth ==
    ASSUME NEW m \in MeantInsts
    PROVE  /\ Len(m.args) \in 0 .. 3 /\ DOMAIN m.args = 1 .. Len(m.args)
           /\ \A k \in 1 .. Len(m.args) : ArgBytes(m, k) = WidthOf(m, k) /\ ArgBytes(m, k) \in Nat
           /\ \A k : k \notin 1 .. Len(m.args) => WidthOf(m, k) = 0
<1>1. m.inst \in DOMAIN Insts /\ m.args \in Seq(MeantPlaces)
  BY MeantFields
<1>2. MeantInst(m) \in T!Others
  BY InstInTable
<1> DEFINE i == MeantInst(m)
           l == Len(m.args)
<1>3. l \in Nat /\ DOMAIN m.args = 1 .. l /\ \A k \in 1 .. l : m.args[k] \in MeantPlaces
  BY <1>1
<1>4. /\ i.size = Insts[m.inst].size /\ i.args = [n \in DOMAIN m.args |-> PlaceOperand(m.args[n])]
      /\ i.args = [n \in 1 .. l |-> PlaceOperand(m.args[n])]
  BY <1>3 DEF MeantInst
<1>5. i.size \in Nat /\ Len(i.args) <= 3
  BY <1>2 DEF T!Others
<1>6. Len(i.args) = l
  BY <1>3, <1>4
<1> HIDE DEF i, l
<1>7. ASSUME NEW k \in 1 .. l PROVE ArgBytes(m, k) = WidthOf(m, k) /\ ArgBytes(m, k) \in Nat
  <2>1. i.args[k] = PlaceOperand(m.args[k]) /\ k \in DOMAIN i.args
    BY <1>4
  <2>2. T!ArgKind(i.args, k) = PlaceOperand(m.args[k]).kind
    BY <2>1, Zenon DEF T!ArgKind
  <2>3. ArgBytes(m, k) = PlaceBytes(m.args[k], i.size)
    BY <1>4, Zenon DEF ArgBytes
  <2> QED BY <1>3, <1>5, <2>2, <2>3, PlaceWidth, Zenon DEF WidthOf, i
<1>8. ASSUME NEW k, k \notin 1 .. l PROVE WidthOf(m, k) = 0
  <2>1. k \notin DOMAIN i.args
    BY <1>4, <1>8
  <2>2. T!ArgKind(i.args, k) = T!Empty
    BY <2>1, Zenon DEF T!ArgKind
  <2>3. T!Width(T!Empty, i.size) = 0
    BY DEF T!Width, T!Empty, T!Relative, T!RelativeWithDiff, T!Fixed
  <2> QED BY <2>2, <2>3, Zenon DEF WidthOf, i
<1>9. l \in 0 .. 3
  BY <1>3, <1>5, <1>6
<1> QED BY <1>3, <1>7, <1>8, <1>9, Zenon DEF l

\* and together they take the sum of them.
LEMMA ArgSums ==
    ASSUME NEW m \in MeantInsts
    PROVE  /\ \A n \in 1 .. Len(m.args) :
                 /\ n \in 1 .. 3
                 /\ Total([k \in 1 .. n - 1 |-> ArgBytes(m, k)])
                       = <<0, WidthOf(m, 1), WidthOf(m, 1) + WidthOf(m, 2)>>[n]
           /\ Total([n \in DOMAIN m.args |-> ArgBytes(m, n)])
                 = WidthOf(m, 1) + WidthOf(m, 2) + WidthOf(m, 3)
<1> DEFINE l == Len(m.args)
           w1 == WidthOf(m, 1)
           w2 == WidthOf(m, 2)
           w3 == WidthOf(m, 3)
           L == [k \in 0 .. 3 |-> IF k = 0 THEN 0 ELSE IF k = 1 THEN w1
                                  ELSE IF k = 2 THEN w1 + w2 ELSE w1 + w2 + w3]
           Sums3(n) == [k \in 1 .. n |-> ArgBytes(m, k)]
<1>1. /\ l \in 0 .. 3 /\ DOMAIN m.args = 1 .. l
      /\ \A k \in 1 .. l : ArgBytes(m, k) = WidthOf(m, k) /\ ArgBytes(m, k) \in Nat
      /\ \A k : k \notin 1 .. l => WidthOf(m, k) = 0
  BY ArgWidth, Zenon
<1> HIDE DEF l
<1>2. \A k \in 1 .. 3 : WidthOf(m, k) \in Nat
  BY <1>1
<1>3. w1 \in Nat /\ w2 \in Nat /\ w3 \in Nat
  BY <1>2
<1>4. L[0] = 0 /\ \A k \in 1 .. 3 : L[k] = L[k - 1] + WidthOf(m, k)
  <2>1. L[0] = 0 /\ L[1] = w1 /\ L[2] = w1 + w2 /\ L[3] = w1 + w2 + w3
    OBVIOUS
  <2> HIDE DEF L
  <2>2. L[1] = L[0] + w1 /\ L[2] = L[1] + w2 /\ L[3] = L[2] + w3
    BY <1>3, <2>1
  <2>3. ASSUME NEW k \in 1 .. 3 PROVE L[k] = L[k - 1] + WidthOf(m, k)
    <3>1. (k = 1 /\ k - 1 = 0) \/ (k = 2 /\ k - 1 = 1) \/ (k = 3 /\ k - 1 = 2)
      OBVIOUS
    <3> QED BY <2>2, <3>1
  <2> QED BY <2>1, <2>3
<1>5. L[0] = 0 /\ L[1] = w1 /\ L[2] = w1 + w2 /\ L[3] = w1 + w2 + w3
  OBVIOUS
<1> HIDE DEF L, w1, w2, w3
<1>6. ASSUME NEW n \in 0 .. l PROVE Total(Sums3(n)) = L[n]
  <2>1. Indexed(Sums3(n), n)
    BY DEF Indexed
  <2>2. ASSUME NEW k \in 1 .. n PROVE Sums3(n)[k] \in Nat /\ L[k] = L[k - 1] + Sums3(n)[k]
    <3>1. k \in 1 .. l /\ k \in 1 .. 3
      BY <1>1
    <3>2. Sums3(n)[k] = ArgBytes(m, k)
      OBVIOUS
    <3> QED BY <1>1, <1>4, <3>1, <3>2, Zenon
  <2> DEFINE s == Sums3(n)
  <2> HIDE DEF Sums3
  <2>3. Indexed(s, n) /\ Adds(L, s, n)
    BY <1>4, <2>1, <2>2, Zenon DEF Adds
  <2> HIDE DEF s
  <2>4. Total(s) = L[n]
    BY <2>3, TotalIs, Zenon
  <2> QED BY <2>4, Zenon DEF s
<1>7. ASSUME NEW n \in 1 .. l
      PROVE  n \in 1 .. 3 /\ Total(Sums3(n - 1)) = <<0, w1, w1 + w2>>[n]
  <2>1. n - 1 \in 0 .. l /\ n \in 1 .. 3
    BY <1>1
  <2>2. Total(Sums3(n - 1)) = L[n - 1]
    BY <1>6, <2>1, Zenon
  <2>3. (n = 1 /\ n - 1 = 0) \/ (n = 2 /\ n - 1 = 1) \/ (n = 3 /\ n - 1 = 2)
    BY <2>1
  <2> HIDE DEF Sums3
  <2> QED BY <1>5, <2>1, <2>2, <2>3
<1>8. L[l] = w1 + w2 + w3
  <2>1. l = 0 \/ l = 1 \/ l = 2 \/ l = 3
    BY <1>1
  <2>2. /\ l < 1 => w1 = 0
        /\ l < 2 => w2 = 0
        /\ l < 3 => w3 = 0
    BY <1>1 DEF w1, w2, w3
  <2> QED BY <1>3, <1>5, <2>1, <2>2
<1>9. Total(Sums3(l)) = L[l]
  <2>1. l \in 0 .. l
    BY <1>1
  <2> QED BY <1>6, <2>1, Zenon
<1>10. [n \in DOMAIN m.args |-> ArgBytes(m, n)] = Sums3(l)
  BY <1>1, Zenon
<1>11. Total([n \in DOMAIN m.args |-> ArgBytes(m, n)]) = w1 + w2 + w3
  <2> HIDE DEF Sums3
  <2> QED BY <1>8, <1>9, <1>10, Zenon
<1> QED BY <1>7, <1>11, Zenon DEF l, w1, w2, w3

\* A line is a label, a call, a native call or another instruction.
LEMMA Splits == \A line \in T!Lines :
    \/ T!IsLabel(line) /\ line \in T!Labels /\ line \notin T!Fcalls \cup T!Ncalls
    \/ /\ ~T!IsLabel(line) /\ T!InTable(line)
       /\ \/ line \in T!Fcalls /\ line.name = "fcall" /\ line \notin T!Ncalls \cup T!Others
          \/ line \in T!Ncalls /\ line.name = "ncall" /\ line \notin T!Fcalls \cup T!Others
          \/ /\ line \in T!Others /\ line \notin T!Fcalls \cup T!Ncalls
             /\ line.name # "fcall" /\ line.name # "ncall"
BY T!LinesSplit, Csts, Nothing0, Zenon

\* A line takes the bytes it is said to take,
LEMMA SameLength ==
    ASSUME NEW m \in MeantLines, Translatable(m)
    PROVE  LineBytes(m) = T!LineLength(MeantLine(m)) /\ LineBytes(m) \in Nat
<1> DEFINE t == MeantLine(m)
<1>0. InstSize \in Nat /\ Word \in Nat /\ InstSize + Word \in Nat /\ 0 \in Nat
  BY CodeSizes
<1>1. CASE m \in LabelLines
  <2>1. Has(m, "label")
    BY <1>1, MeantFields, Zenon
  <2>2. T!IsLabel(t)
    BY <2>1, Zenon DEF Translatable
  <2>3. t \notin T!Fcalls \cup T!Ncalls
    BY <2>2, Splits, Zenon DEF Translatable
  <2>4. T!LineLength(t) = 0
    BY <2>2, <2>3, Zenon DEF T!LineLength
  <2>6. ~Has(m, "call")
    BY <1>1, MeantFields, Zenon
  <2>5. LineBytes(m) = 0
    BY <2>1, <2>6, Zenon DEF LineBytes
  <2> QED BY <1>0, <2>4, <2>5
<1>2. CASE m \in CallLines
  <2>1. ~Has(m, "label") /\ Has(m, "call") /\ m.call \in {"fcall", "ncall"}
    BY <1>2, MeantFields, Zenon
  <2>2. ~T!IsLabel(t) /\ t \in T!Fcalls \cup T!Ncalls
    BY <2>1, Zenon DEF Translatable
  <2>3. T!LineLength(t) = InstSize + Word
    BY <2>2, Zenon DEF T!LineLength
  <2>4. LineBytes(m) = InstSize + Word
    BY <2>1, Zenon DEF LineBytes
  <2> QED BY <1>0, <2>3, <2>4
<1>3. CASE m \in MeantInsts
  <2>1. ~Has(m, "label") /\ ~Has(m, "call") /\ Has(m, "inst")
    BY <1>3, MeantFields, Zenon
  <2>2. t = MeantInst(m) /\ t \in T!Others /\ ~T!IsLabel(t)
    BY <2>1, Zenon DEF Translatable
  <2>3. t \notin T!Fcalls \cup T!Ncalls
    BY <2>2, Zenon DEF T!Others, T!Fcalls, T!Ncalls
  <2>4. T!LineLength(t) = InstSize + WidthOf(m, 1) + WidthOf(m, 2) + WidthOf(m, 3)
    BY <2>2, <2>3, Zenon DEF T!LineLength, WidthOf
  <2>5. LineBytes(m) = InstSize + (WidthOf(m, 1) + WidthOf(m, 2) + WidthOf(m, 3))
    BY <1>3, <2>1, ArgSums, Zenon DEF LineBytes
  <2>6. \A k \in 1 .. 3 : WidthOf(m, k) \in Nat
    BY <1>3, ArgWidth
  <2> HIDE DEF t
  <2>7. WidthOf(m, 1) \in Nat /\ WidthOf(m, 2) \in Nat /\ WidthOf(m, 3) \in Nat
    BY <2>6
  <2> QED BY <1>0, <2>4, <2>5, <2>7 DEF t
<1> QED BY <1>1, <1>2, <1>3, Zenon DEF MeantLines, t

\* The translator adds up the lengths of lines,
LEMMA Bodies ==
    ASSUME NEW f, f.lines \in Seq(T!Lines)
    PROVE  /\ T!BodyLengths(f)[0] = 0
           /\ \A k \in 1 .. Len(f.lines) :
                 T!BodyLengths(f)[k] = T!BodyLengths(f)[k - 1] + T!LineLength(f.lines[k])
           /\ \A k \in 0 .. Len(f.lines) : T!BodyLengths(f)[k] \in Nat
BY T!RunBody, Csts, Nothing0, Zenon

\* and those of functions.
LEMMA SeqLengths ==
    ASSUME NEW s \in Seq(T!Functions)
    PROVE  /\ T!LengthsOf(s)[0] = 0
           /\ \A k \in 1 .. Len(s) : T!LengthsOf(s)[k] = T!LengthsOf(s)[k - 1] + T!FunctionLength(s[k])
           /\ \A k \in 0 .. Len(s) : T!LengthsOf(s)[k] \in Nat
BY T!RunLengths, Csts, Nothing0, Zenon

\* s has the first i of F.
FirstIn(s, F, i) == s = [k \in 1 .. i |-> F[k]]

\* The sum of the first numbers is what adds them one at a time.
LEMMA SumBelow ==
    ASSUME NEW n \in Nat, NEW L, NEW F, Adds(L, F, n), NEW i \in 0 .. n, NEW s, FirstIn(s, F, i)
    PROVE  Total(s) = L[i]
<1>1. Indexed(s, i)
  BY DEF Indexed, FirstIn
<1>2. \A k \in 1 .. i : k \in 1 .. n /\ s[k] = F[k]
  BY DEF FirstIn
<1>3. Adds(L, s, i)
  BY <1>2, Zenon DEF Adds
<1> QED BY <1>1, <1>3, TotalIs, Zenon

\* The lines of a function begin where they are said to,
LEMMA SameBody ==
    ASSUME NEW M, Sensible(M), NEW k \in 1 .. Len(M)
    PROVE  /\ DOMAIN M[k].lines = 1 .. Len(M[k].lines) /\ Len(M[k].lines) \in Nat
           /\ Len(Meant(M)[k].lines) = Len(M[k].lines)
           /\ \A n \in 1 .. Len(M[k].lines) + 1 : BytesBefore(M[k], n) = T!BodyLengths(Meant(M)[k])[n - 1]
           /\ \A n \in 0 .. Len(M[k].lines) : T!BodyLengths(Meant(M)[k])[n] \in Nat
           /\ FunctionBytes(M[k]) = T!BodyLengths(Meant(M)[k])[Len(Meant(M)[k].lines)]
<1> DEFINE f == Meant(M)[k]
           s == M[k].lines
           l == Len(s)
           L == T!BodyLengths(f)
<1>1. FunctionTyped(M, k)
  BY MeantTyped
<1>2. s \in Seq(MeantLines) /\ f.lines \in Seq(T!Lines) /\ DOMAIN f.lines = DOMAIN s
  BY <1>1 DEF FunctionTyped
<1>3. DOMAIN s = 1 .. l /\ l \in Nat /\ Len(f.lines) = l /\ \A n \in 1 .. l : s[n] \in MeantLines
  BY <1>2
<1>4. \A n \in 1 .. l : f.lines[n] = MeantLine(s[n]) /\ Translatable(s[n])
  BY <1>1, <1>3, Zenon DEF FunctionTyped
<1>5. \A n \in 1 .. l : LineBytes(s[n]) = T!LineLength(f.lines[n]) /\ LineBytes(s[n]) \in Nat
  BY <1>3, <1>4, SameLength, Zenon
<1>6. /\ L[0] = 0 /\ \A n \in 1 .. l : L[n] = L[n - 1] + T!LineLength(f.lines[n])
      /\ \A n \in 0 .. l : L[n] \in Nat
  BY <1>2, <1>3, Bodies, Zenon
<1> HIDE DEF L
<1>7. \A n \in 1 .. l : LineBytes(s[n]) \in Nat /\ L[n] = L[n - 1] + LineBytes(s[n])
  BY <1>5, <1>6, Zenon
<1> HIDE DEF l
<1> DEFINE F == [n \in 1 .. l |-> LineBytes(s[n])]
<1>70. \A n \in 1 .. l : F[n] = LineBytes(s[n])
  OBVIOUS
<1> HIDE DEF F
<1>71. Adds(L, F, l)
  BY <1>6, <1>7, <1>70, Zenon DEF Adds
<1>72. l \in Nat
  BY <1>3
<1>8. ASSUME NEW i \in 0 .. l PROVE Total([n \in 1 .. i |-> LineBytes(s[n])]) = L[i]
  <2> DEFINE t == [n \in 1 .. i |-> LineBytes(s[n])]
  <2>1. FirstIn(t, F, i)
    BY <1>3, <1>70 DEF FirstIn
  <2> HIDE DEF t
  <2>2. Total(t) = L[i]
    BY <1>71, <1>72, <2>1, SumBelow, Zenon
  <2> QED BY <2>2, Zenon DEF t
<1>9. ASSUME NEW n \in 1 .. l + 1 PROVE BytesBefore(M[k], n) = L[n - 1]
  <2>1. n - 1 \in 0 .. l
    BY <1>3
  <2> QED BY <1>8, <2>1 DEF BytesBefore
<1>10. FunctionBytes(M[k]) = L[l]
  <2>1. l + 1 \in 1 .. l + 1 /\ (l + 1) - 1 = l
    BY <1>3
  <2>2. BytesBefore(M[k], l + 1) = L[l]
    BY <1>9, <2>1
  <2> QED BY <2>2, Zenon DEF FunctionBytes, l
<1> QED BY <1>3, <1>6, <1>9, <1>10, Zenon DEF L, l

\* and so do the functions,
LEMMA SameStart ==
    ASSUME NEW M, Sensible(M)
    PROVE  /\ \A k \in 1 .. Len(M) + 1 : StartOf(M, k) = 2 * Word + T!LengthsOf(Meant(M))[k - 1]
           /\ \A k \in 0 .. Len(M) : T!LengthsOf(Meant(M))[k] \in Nat
           /\ \A k \in 1 .. Len(M) : StartOf(M, k) = T!Start(Meant(M), k)
<1> DEFINE s == Meant(M)
           n == Len(M)
           L == T!LengthsOf(s)
<1>1. s \in Seq(T!Functions) /\ Len(s) = n /\ n \in Nat
  BY MeantTyped
<1>2. /\ L[0] = 0 /\ \A k \in 1 .. n : L[k] = L[k - 1] + T!FunctionLength(s[k])
      /\ \A k \in 0 .. n : L[k] \in Nat
  BY <1>1, SeqLengths, Zenon
<1> HIDE DEF L
<1>3. \A k \in 1 .. n : T!FunctionLength(s[k]) = 2 * Word + FunctionBytes(M[k])
  BY SameBody, Zenon DEF T!FunctionLength
<1>4. ASSUME NEW k \in 1 .. n PROVE 2 * Word + FunctionBytes(M[k]) \in Nat
  <2>1. Len(M[k].lines) \in Nat /\ \A i \in 0 .. Len(M[k].lines) : T!BodyLengths(s[k])[i] \in Nat
    BY SameBody, Zenon
  <2>2. FunctionBytes(M[k]) = T!BodyLengths(s[k])[Len(M[k].lines)]
    BY SameBody, Zenon
  <2>3. Len(M[k].lines) \in 0 .. Len(M[k].lines)
    BY <2>1
  <2>4. FunctionBytes(M[k]) \in Nat
    BY <2>1, <2>2, <2>3, Zenon
  <2> QED BY <2>4, CodeSizes
<1> HIDE DEF n
<1>5. \A k \in 1 .. n : 2 * Word + FunctionBytes(M[k]) \in Nat /\ L[k] = L[k - 1] + (2 * Word + FunctionBytes(M[k]))
  BY <1>2, <1>3, <1>4, Zenon
<1> DEFINE F == [j \in 1 .. n |-> 2 * Word + FunctionBytes(M[j])]
<1>50. \A j \in 1 .. n : F[j] = 2 * Word + FunctionBytes(M[j])
  OBVIOUS
<1> HIDE DEF F
<1>51. Adds(L, F, n)
  BY <1>2, <1>5, <1>50, Zenon DEF Adds
<1>52. n \in Nat
  BY <1>1
<1>6. ASSUME NEW i \in 0 .. n
      PROVE  Total([j \in 1 .. i |-> 2 * Word + FunctionBytes(M[j])]) = L[i]
  <2> DEFINE t == [j \in 1 .. i |-> 2 * Word + FunctionBytes(M[j])]
  <2>1. FirstIn(t, F, i)
    BY <1>1, <1>50 DEF FirstIn
  <2> HIDE DEF t
  <2>2. Total(t) = L[i]
    BY <1>51, <1>52, <2>1, SumBelow, Zenon
  <2> QED BY <2>2, Zenon DEF t
<1>7. ASSUME NEW k \in 1 .. n + 1 PROVE StartOf(M, k) = 2 * Word + L[k - 1]
  <2>1. k - 1 \in 0 .. n
    BY <1>1
  <2> QED BY <1>6, <2>1 DEF StartOf
<1>8. ASSUME NEW k \in 1 .. n PROVE StartOf(M, k) = T!Start(s, k)
  <2>1. k \in 1 .. n + 1 /\ k - 1 \in 0 .. n
    BY <1>1
  <2>2. StartOf(M, k) = 2 * Word + L[k - 1] /\ L[k - 1] \in Nat
    BY <1>2, <1>7, <2>1
  <2>3. T!Start(s, k) = L[k - 1] + 2 * Word
    BY Zenon DEF T!Start, L
  <2>4. 2 * Word \in Nat
    BY CodeSizes
  <2> QED BY <2>2, <2>3, <2>4
<1> QED BY <1>2, <1>7, <1>8, Zenon DEF n, L

\* and the lines in the whole code.
LEMMA SamePlace ==
    ASSUME NEW M, Sensible(M), NEW k \in 1 .. Len(M), NEW n \in DOMAIN M[k].lines
    PROVE  LineAt(M, k, n) = T!At(Meant(M), k, n)
<1>1. DOMAIN M[k].lines = 1 .. Len(M[k].lines) /\ Len(M[k].lines) \in Nat
  BY SameBody, Zenon
<1>2. n \in 1 .. Len(M[k].lines) + 1
  BY <1>1
<1>3. BytesBefore(M[k], n) = T!BodyLengths(Meant(M)[k])[n - 1]
  BY <1>2, SameBody, Zenon
<1> QED BY <1>3, SameStart, Zenon DEF LineAt, T!At

-----------------------------------------------------------------------------
(* What names stand for.                                                   *)

Main == FullName("main", <<>>)
Names(M) == Definitions(M) \cup {Main}

\* main is spelled by four words.
LEMMA MainLength == Len(Main) = 4
<1> DEFINE E == {"@", "main", "(", ")", ","}
           none == [k \in DOMAIN <<>> |-> IF k = 1 THEN <<<<>>[k]>> ELSE <<",", <<>>[k]>>]
<1>1. none = <<>>
  OBVIOUS
<1>2. <<>> \in Seq(Seq(E)) /\ Len(<<>>) = 0
  OBVIOUS
<1> HIDE DEF none
<1>3. Joined(none) = <<>>
  <2> HIDE DEF E
  <2> QED BY <1>1, <1>2, JoinsBase, Zenon
<1>4. Main = <<"@", "main", "(">> \o Joined(none) \o <<")">>
  BY Zenon DEF Main, FullName, none
<1>5. <<"@", "main", "(">> \in Seq(E) /\ <<")">> \in Seq(E) /\ <<>> \in Seq(E)
  OBVIOUS
<1>6. Len(<<"@", "main", "(">>) = 3 /\ Len(<<")">>) = 1
  OBVIOUS
<1> DEFINE a == <<"@", "main", "(">>
           b == <<")">>
<1> HIDE DEF a, b, E
<1>7. a \o <<>> = a
  BY <1>5 DEF a
<1>8. Len(a \o b) = 4
  BY <1>5, <1>6 DEF a, b
<1> QED BY <1>3, <1>4, <1>7, <1>8, Zenon DEF a, b

\* Names of a program are told apart by how they are spelled.
LEMMA ApartNames ==
    ASSUME NEW M, SpelledApart(M)
    PROVE  /\ Spelled(Main) = "@main()"
           /\ \A name \in Names(M) : Spelled(name) \in STRING
           /\ \A name \in Names(M) : Len(name) = 1 => Spelled(name) = name[1]
           /\ \A n, m \in Names(M) : Spelled(n) = Spelled(m) => n = m
BY Zenon DEF SpelledApart, Names, Main

\* Functions and labels are names of the program.
LEMMA NameDefined ==
    ASSUME NEW M, NEW k \in DOMAIN M
    PROVE  /\ M[k].name \in Names(M)
           /\ \A n \in DOMAIN M[k].lines : Has(M[k].lines[n], "label") => <<M[k].lines[n].label>> \in Names(M)
<1> DEFINE D(j) == { <<M[j].lines[n].label>> : n \in { m \in DOMAIN M[j].lines : Has(M[j].lines[m], "label") } }
<1>1. Definitions(M) = { M[j].name : j \in DOMAIN M } \cup UNION { D(j) : j \in DOMAIN M }
  BY Zenon DEF Definitions
<1>2. \A n \in DOMAIN M[k].lines : Has(M[k].lines[n], "label") => <<M[k].lines[n].label>> \in D(k)
  BY Zenon
<1> HIDE DEF D
<1> QED BY <1>1, <1>2, Zenon DEF Names

\* A name and a label.
LEMMA LabelNamed ==
    ASSUME NEW M, SpelledApart(M), NEW S, NEW name \in Names(M), name = Main \/ name \in Seq(S),
           NEW l, <<l>> \in Names(M)
    PROVE  l = Spelled(name) <=> Len(name) = 1 /\ name[1] = l
<1>1. Len(<<l>>) = 1 /\ <<l>>[1] = l
  OBVIOUS
<1>2. Spelled(<<l>>) = l
  BY <1>1, ApartNames, Zenon
<1>3. Spelled(<<l>>) = Spelled(name) => <<l>> = name
  BY ApartNames, Zenon
<1>4. Len(name) = 1 /\ name[1] = l => name = <<l>>
  <2> SUFFICES ASSUME Len(name) = 1, name[1] = l PROVE name = <<l>>
    OBVIOUS
  <2>1. name # Main
    <3>1. 4 # 1
      OBVIOUS
    <3> QED BY <3>1, MainLength, Zenon
  <2>2. name \in Seq(S)
    BY <2>1
  <2> QED BY <2>2
<1> QED BY <1>1, <1>2, <1>3, <1>4, Zenon

\* Line n of function k is a label spelled like a name when it is its label.
LabelledAs(M, name, k, n) ==
    /\ n \in DOMAIN Meant(M)[k].lines
    /\ (T!IsLabel(Meant(M)[k].lines[n]) /\ Meant(M)[k].lines[n].label = Spelled(name))
          <=> (Len(name) = 1 /\ M[k].lines[n] = [label |-> name[1]])

LEMMA LabelLineNamed ==
    ASSUME NEW M, Sensible(M), NEW S, NEW name \in Names(M), name = Main \/ name \in Seq(S),
           NEW k \in 1 .. Len(M), NEW n \in DOMAIN M[k].lines
    PROVE  LabelledAs(M, name, k, n)
<1> DEFINE m == M[k].lines[n]
           t == Meant(M)[k].lines[n]
<1>1. FunctionTyped(M, k) /\ k \in DOMAIN M
  BY MeantTyped, Zenon
<1>2. n \in DOMAIN Meant(M)[k].lines /\ t = MeantLine(m) /\ Translatable(m)
  BY <1>1, Zenon DEF FunctionTyped
<1>3. m \in MeantLines
  <2>1. M[k].lines \in Seq(MeantLines)
    BY <1>1, Zenon DEF FunctionTyped
  <2> QED BY <2>1
<1>4. SpelledApart(M)
  BY Zenon DEF Sensible
<1> HIDE DEF m, t
<1>5. CASE m \in LabelLines
  <2>1. Has(m, "label")
    BY <1>5, MeantFields, Zenon
  <2>2. t = m /\ T!IsLabel(t)
    BY <1>2, <2>1, Zenon DEF Translatable
  <2>3. <<m.label>> \in Names(M)
    BY <1>1, <2>1, NameDefined, Zenon DEF m
  <2>4. m.label = Spelled(name) <=> Len(name) = 1 /\ name[1] = m.label
    BY <1>4, <2>3, LabelNamed
  <2>5. m = [label |-> m.label]
    BY <1>5 DEF LabelLines
  <2>6. \A x : m = [label |-> x] <=> m.label = x
    BY <2>5
  <2> QED BY <1>2, <2>2, <2>4, <2>6, Zenon DEF m, t, LabelledAs
<1>6. CASE m \notin LabelLines
  <2>1. ~Has(m, "label")
    BY <1>3, <1>6, MeantFields, Zenon DEF MeantLines
  <2>2. Has(m, "call") \/ Has(m, "inst")
    BY <1>3, <1>6, MeantFields, Zenon DEF MeantLines
  <2>3. ~T!IsLabel(t)
    BY <1>2, <2>2, Zenon DEF Translatable
  <2>4. m # [label |-> name[1]]
    BY <2>1 DEF Has
  <2> QED BY <1>2, <2>3, <2>4, Zenon DEF m, t, LabelledAs
<1> QED BY <1>5, <1>6

\* What a spelling stands for in the code,
LEMMA PlacesOf ==
    ASSUME NEW s, NEW x, NEW p
    PROVE  p \in T!Places(s, x) <=>
              \/ \E i \in DOMAIN s : s[i].name = x /\ p = T!Start(s, i)
              \/ \E i \in DOMAIN s : \E j \in DOMAIN s[i].lines :
                    T!IsLabel(s[i].lines[j]) /\ s[i].lines[j].label = x /\ p = T!At(s, i, j)
<1> DEFINE L(i) == { T!At(s, i, j) : j \in { k \in DOMAIN s[i].lines :
                                     T!IsLabel(s[i].lines[k]) /\ s[i].lines[k].label = x } }
           F == { T!Start(s, i) : i \in { k \in DOMAIN s : s[k].name = x } }
<1>1. T!Places(s, x) = F \cup UNION { L(i) : i \in DOMAIN s }
  BY Zenon DEF T!Places
<1>2. p \in F <=> \E i \in DOMAIN s : s[i].name = x /\ p = T!Start(s, i)
  BY Zenon
<1>3. \A i : p \in L(i) <=> \E j \in DOMAIN s[i].lines :
                    T!IsLabel(s[i].lines[j]) /\ s[i].lines[j].label = x /\ p = T!At(s, i, j)
  BY Zenon
<1> HIDE DEF F, L
<1> QED BY <1>1, <1>2, <1>3, Zenon

\* and what a name stands for in the meaning.
LEMMA TargetsOf ==
    ASSUME NEW M, NEW callee, NEW p
    PROVE  p \in Targets(M, callee) <=>
              \/ \E i \in DOMAIN M : M[i].name = callee /\ p = StartOf(M, i)
              \/ \E i \in DOMAIN M : \E j \in DOMAIN M[i].lines :
                    /\ Len(callee) = 1 /\ M[i].lines[j] = [label |-> callee[1]]
                    /\ p = LineAt(M, i, j)
<1> DEFINE L(i) == { LineAt(M, i, j) : j \in { k \in DOMAIN M[i].lines : M[i].lines[k] = [label |-> callee[1]] } }
           F == { StartOf(M, i) : i \in { k \in DOMAIN M : M[k].name = callee } }
<1>1. Targets(M, callee) = F \cup UNION { L(i) : i \in { j \in DOMAIN M : Len(callee) = 1 } }
  BY Zenon DEF Targets
<1>2. p \in F <=> \E i \in DOMAIN M : M[i].name = callee /\ p = StartOf(M, i)
  BY Zenon
<1>3. \A i : p \in L(i) <=> \E j \in DOMAIN M[i].lines :
                    M[i].lines[j] = [label |-> callee[1]] /\ p = LineAt(M, i, j)
  BY Zenon
<1> HIDE DEF F, L
<1> QED BY <1>1, <1>2, <1>3, Zenon

(***************************************************************************)
(* What a name stands for is what its spelling stands for.                 *)
(***************************************************************************)
LEMMA SameTargets ==
    ASSUME NEW M, Sensible(M), NEW S, NEW name \in Names(M), name = Main \/ name \in Seq(S)
    PROVE  T!Places(Meant(M), Spelled(name)) = Targets(M, name)
<1> DEFINE s == Meant(M)
           x == Spelled(name)
<1>1. DOMAIN s = DOMAIN M /\ DOMAIN M = 1 .. Len(M)
  BY MeantTyped, Zenon
<1>2. SpelledApart(M)
  BY Zenon DEF Sensible
<1>3. ASSUME NEW i \in DOMAIN M
      PROVE  /\ s[i].name = x <=> M[i].name = name
             /\ StartOf(M, i) = T!Start(s, i)
             /\ DOMAIN s[i].lines = DOMAIN M[i].lines
             /\ \A j \in DOMAIN M[i].lines :
                   /\ LineAt(M, i, j) = T!At(s, i, j)
                   /\ (T!IsLabel(s[i].lines[j]) /\ s[i].lines[j].label = x)
                         <=> (Len(name) = 1 /\ M[i].lines[j] = [label |-> name[1]])
  <2>0. i \in 1 .. Len(M)
    BY <1>1
  <2>1. FunctionTyped(M, i)
    BY <2>0, MeantTyped, Zenon
  <2>2. s[i].name = Spelled(M[i].name) /\ DOMAIN s[i].lines = DOMAIN M[i].lines
    BY <2>1, Zenon DEF FunctionTyped
  <2>3. s[i].name = x <=> M[i].name = name
    BY <1>2, <2>2, NameDefined, ApartNames, Zenon
  <2>4. StartOf(M, i) = T!Start(s, i)
    BY <2>0, SameStart, Zenon
  <2>5. \A j \in DOMAIN M[i].lines : LineAt(M, i, j) = T!At(s, i, j)
    BY <2>0, SamePlace, Zenon
  <2>6. ASSUME NEW j \in DOMAIN M[i].lines
        PROVE  (T!IsLabel(s[i].lines[j]) /\ s[i].lines[j].label = x)
                  <=> (Len(name) = 1 /\ M[i].lines[j] = [label |-> name[1]])
    <3>1. LabelledAs(M, name, i, j)
      BY <2>0, LabelLineNamed, Zenon
    <3> QED BY <3>1, Zenon DEF LabelledAs
  <2> QED BY <2>2, <2>3, <2>4, <2>5, <2>6, Zenon
<1> HIDE DEF s, x
<1>4. ASSUME NEW p PROVE p \in T!Places(s, x) <=> p \in Targets(M, name)
  <2>1. p \in T!Places(s, x) <=>
              \/ \E i \in DOMAIN s : s[i].name = x /\ p = T!Start(s, i)
              \/ \E i \in DOMAIN s : \E j \in DOMAIN s[i].lines :
                    T!IsLabel(s[i].lines[j]) /\ s[i].lines[j].label = x /\ p = T!At(s, i, j)
    BY PlacesOf
  <2>2. p \in Targets(M, name) <=>
              \/ \E i \in DOMAIN M : M[i].name = name /\ p = StartOf(M, i)
              \/ \E i \in DOMAIN M : \E j \in DOMAIN M[i].lines :
                    /\ Len(name) = 1 /\ M[i].lines[j] = [label |-> name[1]]
                    /\ p = LineAt(M, i, j)
    BY TargetsOf, SMTT(30)
  <2> QED BY <1>1, <1>3, <2>1, <2>2, Zenon
<1> QED BY <1>4, Zenon DEF s, x

\* A name that stands for something is one of the program's.
LEMMA TargetNamed ==
    ASSUME NEW M, NEW S, NEW callee \in Seq(S), Targets(M, callee) # {}
    PROVE  callee \in Names(M)
<1>1. PICK p : p \in Targets(M, callee)
  OBVIOUS
<1>2. \/ \E i \in DOMAIN M : M[i].name = callee /\ p = StartOf(M, i)
      \/ \E i \in DOMAIN M : \E j \in DOMAIN M[i].lines :
            /\ Len(callee) = 1 /\ M[i].lines[j] = [label |-> callee[1]]
            /\ p = LineAt(M, i, j)
  BY <1>1, TargetsOf
<1>3. CASE \E i \in DOMAIN M : M[i].name = callee /\ p = StartOf(M, i)
  BY <1>3, NameDefined, Zenon
<1>4. ASSUME NEW i \in DOMAIN M, NEW j \in DOMAIN M[i].lines,
             Len(callee) = 1, M[i].lines[j] = [label |-> callee[1]]
      PROVE  callee \in Names(M)
  <2>1. callee = <<callee[1]>>
    BY <1>4
  <2>2. Has(M[i].lines[j], "label") /\ M[i].lines[j].label = callee[1]
    BY <1>4 DEF Has
  <2> QED BY <2>1, <2>2, NameDefined, Zenon
<1> QED BY <1>2, <1>3, <1>4, Zenon

\* The functions that are called main.
Mains(M) == { k \in DOMAIN M : M[k].name = Main }

\* The places of main are the beginnings of functions called so.
LEMMA MainPlaces ==
    ASSUME NEW M, Sensible(M)
    PROVE  /\ T!Places(Meant(M), "@main()") = { StartOf(M, k) : k \in Mains(M) }
           /\ \A k \in 1 .. Len(M) : Meant(M)[k].name = "@main()" <=> k \in Mains(M)
<1>1. SpelledApart(M)
  BY Zenon DEF Sensible
<1>2. Spelled(Main) = "@main()" /\ Main \in Names(M)
  BY <1>1, ApartNames, Zenon DEF Names
<1>3. T!Places(Meant(M), "@main()") = Targets(M, Main)
  BY <1>2, SameTargets
<1>4. ASSUME NEW p PROVE p \in Targets(M, Main) <=> \E i \in DOMAIN M : M[i].name = Main /\ p = StartOf(M, i)
  <2>1. Len(Main) # 1
    BY MainLength
  <2>2. p \in Targets(M, Main) <=>
              \/ \E i \in DOMAIN M : M[i].name = Main /\ p = StartOf(M, i)
              \/ \E i \in DOMAIN M : \E j \in DOMAIN M[i].lines :
                    /\ Len(Main) = 1 /\ M[i].lines[j] = [label |-> Main[1]]
                    /\ p = LineAt(M, i, j)
    BY TargetsOf, SMTT(30)
  <2> QED BY <2>1, <2>2, Zenon
<1>5. Targets(M, Main) = { StartOf(M, k) : k \in Mains(M) }
  BY <1>4 DEF Mains
<1>6. ASSUME NEW k \in 1 .. Len(M) PROVE Meant(M)[k].name = "@main()" <=> k \in Mains(M)
  <2>1. FunctionTyped(M, k) /\ k \in DOMAIN M
    BY MeantTyped, Zenon
  <2>2. Meant(M)[k].name = Spelled(M[k].name)
    BY <2>1, Zenon DEF FunctionTyped
  <2>3. M[k].name \in Names(M)
    BY <2>1, NameDefined, Zenon
  <2>4. Spelled(M[k].name) = Spelled(Main) <=> M[k].name = Main
    BY <1>1, <1>2, <2>3, ApartNames, Zenon
  <2>5. k \in Mains(M) <=> M[k].name = Main
    BY <2>1, Zenon DEF Mains
  <2>6. Spelled(Main) = "@main()"
    BY <1>2
  <2> QED BY <2>2, <2>4, <2>5, <2>6, Zenon
<1> QED BY <1>3, <1>5, <1>6, Zenon

-----------------------------------------------------------------------------
(* The bytecode of a program.                                              *)

CodeFor(M) == T!Code(Meant(M))

\* A main with a place is a label.
LEMMA Placing ==
    ASSUME NEW s \in Seq(T!Functions), T!Places(s, "@main()") # {}
    PROVE  "@main()" \in DOMAIN T!LayoutOf(s).labels
BY T!LabelsPlaced, Csts, Nothing0, Zenon

\* The length of the code.
LEMMA CodeLengths ==
    ASSUME NEW s \in Seq(T!Functions), "@main()" \in DOMAIN T!LayoutOf(s).labels
    PROVE  Len(T!Code(s)) = T!LengthsOf(s)[Len(s)]
BY T!CodeFacts, Csts, Nothing0, Zenon

\* The code of a program with a main is as long as its functions and headers.
LEMMA SensiblePlaceable ==
    ASSUME NEW M, Sensible(M), Mains(M) # {}
    PROVE  /\ T!Placeable(Meant(M)) /\ Meant(M) \in Seq(T!Functions)
           /\ Len(CodeFor(M)) = StartOf(M, Len(M) + 1) - 2 * Word
<1> DEFINE s == Meant(M)
           n == Len(M)
           L == T!LengthsOf(s)
<1>1. s \in Seq(T!Functions) /\ Len(s) = n /\ n \in Nat
  BY MeantTyped, Zenon
<1>2. T!Places(s, "@main()") # {}
  <2>1. T!Places(s, "@main()") = { StartOf(M, k) : k \in Mains(M) }
    BY MainPlaces, Zenon
  <2> QED BY <2>1
<1>3. "@main()" \in DOMAIN T!LayoutOf(s).labels
  BY <1>1, <1>2, Placing, Zenon
<1>4. StartOf(M, n + 1) = 2 * Word + L[n] /\ L[n] \in Nat
  <2>1. n + 1 \in 1 .. n + 1 /\ (n + 1) - 1 = n /\ n \in 0 .. n
    BY <1>1
  <2>2. StartOf(M, n + 1) = 2 * Word + L[(n + 1) - 1] /\ L[n] \in Nat
    BY <2>1, SameStart, Zenon
  <2> HIDE DEF L, n
  <2> QED BY <2>1, <2>2
<1>5. StartOf(M, n + 1) + RegistersSize < T!Span(Word)
  BY SpanIs, Zenon DEF Sensible, Fits
<1>6. Len(T!Code(s)) = L[n]
  BY <1>1, <1>3, CodeLengths
<1>7. T!LengthsOf(s)[Len(s)] = L[n]
  BY <1>1
<1>8. T!Span(Word) \in Nat
  BY T!WordsFacts, Csts, Nothing0, Zenon
<1> HIDE DEF L, n, s
<1>9. L[n] + RegistersSize < T!Span(Word)
  BY <1>4, <1>5, <1>8, CodeSizes
<1>10. L[n] = StartOf(M, n + 1) - 2 * Word
  BY <1>4, CodeSizes
<1>11. T!Placeable(s)
  BY <1>3, <1>7, <1>9, Zenon DEF T!Placeable
<1> QED BY <1>1, <1>6, <1>10, <1>11, Zenon DEF CodeFor, s, n

(***************************************************************************)
(* The first word of the code leads to the first main.                     *)
(***************************************************************************)
LEMMA EntryAtMain ==
    ASSUME NEW M, Sensible(M), Mains(M) # {}
    PROVE  \E k \in Mains(M) : /\ \A j \in Mains(M) : k <= j
                               /\ B!Value(CodeFor(M), 0, Word) = StartOf(M, k)
<1> DEFINE s == Meant(M)
<1>1. /\ s \in Seq(T!Functions) /\ Len(s) = Len(M) /\ Len(M) \in Nat /\ DOMAIN M = 1 .. Len(M)
  BY MeantTyped, Zenon
<1>2. Mains(M) \in SUBSET Nat /\ \A k \in Mains(M) : k \in 1 .. Len(M)
  BY <1>1 DEF Mains
<1>3. PICK k \in Mains(M) : \A j \in Mains(M) : k <= j
  BY <1>2, LeastElement, Zenon
<1>4. k \in 1 .. Len(M) /\ s[k].name = "@main()"
  BY <1>2, <1>3, MainPlaces, Zenon
<1>5. ASSUME NEW i \in 1 .. k - 1
      PROVE  /\ s[i].name # "@main()"
             /\ \A j \in DOMAIN s[i].lines : T!IsLabel(s[i].lines[j]) => s[i].lines[j].label # "@main()"
  <2>1. i \in 1 .. Len(M) /\ ~(k <= i)
    BY <1>1, <1>4
  <2>2. i \notin Mains(M)
    BY <1>3, <2>1
  <2>3. s[i].name # "@main()"
    BY <2>1, <2>2, MainPlaces, Zenon
  <2>4. SpelledApart(M)
    BY Zenon DEF Sensible
  <2>5. Spelled(Main) = "@main()" /\ Main \in Names(M)
    BY <2>4, ApartNames, Zenon DEF Names
  <2>6. FunctionTyped(M, i)
    BY <2>1, MeantTyped, Zenon
  <2>7. Len(Main) # 1
    BY MainLength
  <2>8. ASSUME NEW j \in DOMAIN s[i].lines PROVE ~(T!IsLabel(s[i].lines[j]) /\ s[i].lines[j].label = "@main()")
    <3>1. j \in DOMAIN M[i].lines
      BY <2>6, Zenon DEF FunctionTyped
    <3>2. (T!IsLabel(s[i].lines[j]) /\ s[i].lines[j].label = Spelled(Main))
             => Len(Main) = 1
      <4>1. LabelledAs(M, Main, i, j)
        BY <2>1, <2>5, <3>1, LabelLineNamed, Zenon
      <4> QED BY <4>1, Zenon DEF LabelledAs
    <3> QED BY <2>5, <2>7, <3>2, Zenon
  <2> QED BY <2>3, <2>8, Zenon
<1>6. T!Leads(s, k)
  BY <1>4, <1>5, Zenon DEF T!Leads
<1>7. T!Placeable(s)
  BY SensiblePlaceable, Zenon
<1>8. k \in 1 .. Len(s)
  BY <1>1, <1>4
<1>9. B!Value(T!Code(s), 0, Word) = T!Start(s, k)
  BY <1>1, <1>4, <1>6, <1>7, <1>8, Entry, Zenon
<1>10. StartOf(M, k) = T!Start(s, k)
  BY <1>4, SameStart, Zenon
<1>11. B!Value(CodeFor(M), 0, Word) = StartOf(M, k)
  BY <1>9, <1>10, Zenon DEF CodeFor
<1> QED BY <1>3, <1>11, Zenon

\* The two words in front of a function.
LEMMA HeaderThere ==
    ASSUME NEW M, Sensible(M), Mains(M) # {}, NEW k \in 1 .. Len(M)
    PROVE  /\ B!Value(CodeFor(M), StartOf(M, k) - Word, Word) = M[k].ret
           /\ k # 1 => B!Value(CodeFor(M), StartOf(M, k) - 2 * Word, Word) = M[k].args
<1> DEFINE s == Meant(M)
<1>1. s \in Seq(T!Functions) /\ Len(s) = Len(M) /\ FunctionTyped(M, k)
  BY MeantTyped, Zenon
<1>2. T!Placeable(s)
  BY SensiblePlaceable, Zenon
<1>3. s[k].ret = M[k].ret /\ s[k].args = M[k].args
  BY <1>1, Zenon DEF FunctionTyped
<1>4. StartOf(M, k) = T!Start(s, k)
  BY SameStart, Zenon
<1>5. k \in 1 .. Len(s)
  BY <1>1
<1>6. /\ B!Value(T!Code(s), T!Start(s, k) - Word, Word) = s[k].ret
      /\ k # 1 => B!Value(T!Code(s), T!Start(s, k) - 2 * Word, Word) = s[k].args
  BY <1>1, <1>2, <1>5, Header, Zenon
<1> QED BY <1>3, <1>4, <1>6, Zenon DEF CodeFor

\* Functions of the translator with the scopes 1, 2, ... and no empty operand.
Numbered(s) == \A i \in DOMAIN s : s[i].scope = i
KindsGiven(s) ==
    \A i \in DOMAIN s : \A j \in DOMAIN s[i].lines :
        s[i].lines[j] \in T!Others =>
            \A k \in DOMAIN s[i].lines[j].args : s[i].lines[j].args[k].kind # T!Empty

\* Numbered functions are translated in their order, and refused without main.
LEMMA Refused ==
    ASSUME NEW s \in Seq(T!Functions), Numbered(s), KindsGiven(s)
    PROVE  /\ T!Throws({ s[i] : i \in DOMAIN s }) <=> T!Places(s, "@main()") = {}
           /\ T!Layout({ s[i] : i \in DOMAIN s }) = T!LayoutOf(s)
<1>1. /\ \A i \in DOMAIN s : s[i].scope = i
      /\ \A i \in DOMAIN s : \A j \in DOMAIN s[i].lines :
             s[i].lines[j] \in T!Others =>
                 \A k \in DOMAIN s[i].lines[j].args : s[i].lines[j].args[k].kind # T!Empty
  BY Zenon DEF Numbered, KindsGiven
<1>2. T!Throws({ s[i] : i \in DOMAIN s }) <=> T!Places(s, "@main()") = {}
  BY <1>1, T!ThrowsWithoutMain, Csts, Nothing0
<1>3. T!Layout({ s[i] : i \in DOMAIN s }) = T!LayoutOf(s)
  BY <1>1, T!NumberedOrder, Csts, Nothing0
<1> QED BY <1>2, <1>3

(***************************************************************************)
(* Only a program without main is refused.                                 *)
(***************************************************************************)
LEMMA RefusedWithoutMain ==
    ASSUME NEW M, Sensible(M)
    PROVE  /\ B!Throws({ Meant(M)[i] : i \in DOMAIN Meant(M) }) <=> Mains(M) = {}
           /\ B!Linked(B!Layout({ Meant(M)[i] : i \in DOMAIN Meant(M) })) = CodeFor(M)
<1> DEFINE s == Meant(M)
           g == { s[i] : i \in DOMAIN s }
<1>1. s \in Seq(T!Functions) /\ Len(s) = Len(M) /\ DOMAIN s = 1 .. Len(M) /\ DOMAIN M = 1 .. Len(M)
  BY MeantTyped, Zenon
<1>2. \A i \in DOMAIN s : FunctionTyped(M, i) /\ s[i].scope = i
  <2>1. \A i \in DOMAIN s : FunctionTyped(M, i)
    BY <1>1, MeantTyped, Zenon
  <2>2. \A i : FunctionTyped(M, i) => s[i].scope = i
    BY Zenon DEF FunctionTyped
  <2> QED BY <2>1, <2>2, Zenon
<1>3. ASSUME NEW i \in DOMAIN s, NEW j \in DOMAIN s[i].lines, s[i].lines[j] \in T!Others,
             NEW k \in DOMAIN s[i].lines[j].args
      PROVE  s[i].lines[j].args[k].kind # T!Empty
  <2> DEFINE m == M[i].lines[j]
             t == s[i].lines[j]
  <2>1. /\ j \in DOMAIN M[i].lines /\ M[i].lines \in Seq(MeantLines)
        /\ t = MeantLine(m) /\ Translatable(m)
    BY <1>2, Zenon DEF FunctionTyped
  <2>2. m \in MeantLines
    BY <2>1
  <2> HIDE DEF m
  <2>0. t = MeantLine(m)
    BY <2>1
  <2>3. ~T!IsLabel(t)
    BY <1>3, Zenon DEF T!Others, T!IsLabel
  <2>4. m \notin LabelLines /\ m \notin CallLines
    BY <1>3, <2>0, <2>1, <2>3, MeantFields, Zenon DEF Translatable
  <2>5. m \in MeantInsts
    BY <2>2, <2>4, Zenon DEF MeantLines
  <2>6. t = MeantInst(m)
    BY <2>0, <2>1, <2>5, MeantFields, Zenon DEF Translatable
  <2> HIDE DEF t
  <2>7. t.args = [n \in DOMAIN m.args |-> PlaceOperand(m.args[n])] /\ m.args \in Seq(MeantPlaces)
    BY <2>5, <2>6, MeantFields DEF MeantInst
  <2>8. k \in DOMAIN t.args
    BY DEF t
  <2>9. k \in DOMAIN m.args /\ t.args[k] = PlaceOperand(m.args[k]) /\ m.args[k] \in MeantPlaces
    BY <2>7, <2>8
  <2>10. t.args[k].kind # T!Empty
    BY <2>9, OperandTyped, Zenon
  <2> QED BY <2>10, Zenon DEF t
<1>4. (T!Throws(g) <=> T!Places(s, "@main()") = {}) /\ T!Layout(g) = T!LayoutOf(s)
  <2>1. Numbered(s)
    BY <1>2, Zenon DEF Numbered
  <2>2. KindsGiven(s)
    BY <1>3, Zenon DEF KindsGiven
  <2> HIDE DEF s
  <2> QED BY <1>1, <2>1, <2>2, Refused, Zenon
<1>5. T!Places(s, "@main()") = {} <=> Mains(M) = {}
  <2>1. T!Places(s, "@main()") = { StartOf(M, k) : k \in Mains(M) }
    BY MainPlaces, Zenon
  <2> QED BY <2>1
<1>7. B!Linked(B!Layout(g)) = CodeFor(M)
  BY <1>4, SameLayout, LinkedIs, Zenon DEF CodeFor, T!Code
<1> QED BY <1>4, <1>5, <1>7, ThrowsIs, Zenon

-----------------------------------------------------------------------------
(* Lines read back.                                                        *)

InstFound(c, offset, name, size, sign) ==
    \E i \in B!Instructions :
        /\ i.code = B!Value(c, offset, InstSize - 1)
        /\ i.name = name /\ i.size = size /\ i.sign = sign

KindFound(c, offset, n) == (c[offset + InstSize] \div <<1, 4, 16>>[n]) % 4

\* The code and the kinds of operands, read back as the properties read them,
LEMMA InstReadBack ==
    ASSUME NEW s \in Seq(T!Functions), T!Placeable(s), NEW i \in 1 .. Len(s),
           NEW j \in DOMAIN s[i].lines, NEW t, t = s[i].lines[j], ~T!IsLabel(t)
    PROVE  /\ InstFound(T!Code(s), T!At(s, i, j), t.name, t.size, t.sign)
           /\ t \in T!Others =>
                 \A k \in 1 .. 3 : KindFound(T!Code(s), T!At(s, i, j), k) = T!ArgKind(t.args, k)
<1>1. /\ \E known \in T!Instructions :
            /\ known.code = T!Value(T!Code(s), T!At(s, i, j), InstSize - 1)
            /\ known.name = s[i].lines[j].name
            /\ known.size = s[i].lines[j].size /\ known.sign = s[i].lines[j].sign
      /\ s[i].lines[j] \in T!Others =>
            \A k \in 1 .. 3 :
                (T!Code(s)[T!At(s, i, j) + InstSize] \div <<1, 4, 16>>[k]) % 4
                    = T!ArgKind(s[i].lines[j].args, k)
  BY T!InstRead, Csts, Nothing0, Zenon
<1> QED BY <1>1, ValueIs, InstIs, Zenon DEF InstFound, KindFound

\* an operand,
LEMMA ArgReadBack ==
    ASSUME NEW s \in Seq(T!Functions), T!Placeable(s), NEW i \in 1 .. Len(s),
           NEW j \in DOMAIN s[i].lines, NEW t, t = s[i].lines[j], t \in T!Others,
           NEW k \in DOMAIN t.args,
           t.args[k].kind \in {T!Relative, T!RelativeWithDiff} => t.args[k].base \in T!Words
    PROVE  T!OperandReads(T!Code(s), T!At(s, i, j) + InstSize + T!ArgOffset(t, k), t.args[k], t.size)
<1>1. /\ s[i].lines[j] \in T!Others /\ k \in DOMAIN s[i].lines[j].args
      /\ s[i].lines[j].args[k].kind \in {T!Relative, T!RelativeWithDiff}
              => s[i].lines[j].args[k].base \in T!Words
  BY Zenon
<1>2. T!OperandReads(T!Code(s), T!At(s, i, j) + InstSize + T!ArgOffset(s[i].lines[j], k),
                        s[i].lines[j].args[k], s[i].lines[j].size)
  BY <1>1, T!ArgRead, Csts, Nothing0, Zenon
<1> QED BY <1>2, Zenon

\* the key of a native function,
LEMMA NcallReadBack ==
    ASSUME NEW s \in Seq(T!Functions), T!Placeable(s), NEW i \in 1 .. Len(s),
           NEW j \in DOMAIN s[i].lines, NEW t, t = s[i].lines[j], t \in T!Ncalls, t.key \in T!Words
    PROVE  B!Value(T!Code(s), T!At(s, i, j) + InstSize, Word) = t.key
<1>1. s[i].lines[j] \in T!Ncalls /\ s[i].lines[j].key \in T!Words
  BY Zenon
<1>2. T!Value(T!Code(s), T!At(s, i, j) + InstSize, Word) = s[i].lines[j].key
  BY <1>1, T!NcallRead, Csts, Nothing0, Zenon
<1> QED BY <1>2, ValueIs, Zenon

\* and the place a call goes to.
LEMMA FcallReadBack ==
    ASSUME NEW s \in Seq(T!Functions), T!Placeable(s), NEW i \in 1 .. Len(s),
           NEW j \in DOMAIN s[i].lines, NEW t, t = s[i].lines[j], t \in T!Fcalls,
           NEW p, T!Places(s, t.target) = {p}
    PROVE  B!Value(T!Code(s), T!At(s, i, j) + InstSize, Word) = p + RegistersSize
<1>1. s[i].lines[j] \in T!Fcalls /\ T!Places(s, s[i].lines[j].target) = {p}
  BY Zenon
<1>2. T!Value(T!Code(s), T!At(s, i, j) + InstSize, Word) = p + RegistersSize
  BY <1>1, T!FcallRead, Csts, Nothing0, Zenon
<1> QED BY <1>2, ValueIs, Zenon

\* Line n of function k is a line of the translator's function.
LEMMA LineOfMeant ==
    ASSUME NEW M, Sensible(M), Mains(M) # {}, NEW k \in 1 .. Len(M), NEW n \in DOMAIN M[k].lines
    PROVE  /\ Meant(M) \in Seq(T!Functions) /\ T!Placeable(Meant(M))
           /\ k \in 1 .. Len(Meant(M)) /\ n \in DOMAIN Meant(M)[k].lines
           /\ Meant(M)[k].lines[n] = MeantLine(M[k].lines[n])
           /\ Translatable(M[k].lines[n]) /\ M[k].lines[n] \in MeantLines
           /\ T!At(Meant(M), k, n) = LineAt(M, k, n) /\ T!Code(Meant(M)) = CodeFor(M)
           /\ LineFits(M[k].lines[n])
<1>1. Meant(M) \in Seq(T!Functions) /\ Len(Meant(M)) = Len(M) /\ FunctionTyped(M, k) /\ k \in DOMAIN M
  BY MeantTyped, Zenon
<1>2. /\ n \in DOMAIN Meant(M)[k].lines /\ Meant(M)[k].lines[n] = MeantLine(M[k].lines[n])
      /\ Translatable(M[k].lines[n]) /\ M[k].lines \in Seq(MeantLines)
  BY <1>1, Zenon DEF FunctionTyped
<1>3. M[k].lines[n] \in MeantLines
  BY <1>2
<1>4. LineFits(M[k].lines[n])
  BY <1>1, Zenon DEF Sensible, Fits
<1> QED BY <1>1, <1>2, <1>3, <1>4, SensiblePlaceable, SamePlace, Zenon DEF CodeFor

\* The code reads as the call m at the offset o.
CallFound(code, M, o, m) ==
    /\ InstFound(code, o, m.call, 0, "")
    /\ m.call = "ncall" => B!Value(code, o + InstSize, Word) = Hash(Spelled(m.callee))
    /\ m.call = "fcall" =>
          \A start \in Targets(M, m.callee) : Targets(M, m.callee) = {start}
             => B!Value(code, o + InstSize, Word) = start + RegistersSize

\* A call lies in the code with what it names.
LEMMA CallThere ==
    ASSUME NEW M, Sensible(M), Mains(M) # {}, NEW k \in 1 .. Len(M), NEW n \in DOMAIN M[k].lines,
           NEW m \in CallLines, m = M[k].lines[n]
    PROVE  CallFound(CodeFor(M), M, LineAt(M, k, n), m)
<1> DEFINE s == Meant(M)
           t == MeantLine(m)
<1>1. /\ s \in Seq(T!Functions) /\ T!Placeable(s) /\ k \in 1 .. Len(s) /\ n \in DOMAIN s[k].lines
      /\ t = s[k].lines[n] /\ Translatable(m)
      /\ T!At(s, k, n) = LineAt(M, k, n) /\ T!Code(s) = CodeFor(M)
  BY LineOfMeant, ZenonT(40)
<1>2. Has(m, "call") /\ m.call \in {"fcall", "ncall"} /\ m.callee \in Seq(STRING)
  BY MeantFields, Zenon
<1>3. /\ ~T!IsLabel(t) /\ t.name = m.call /\ t.size = 0 /\ t.sign = ""
      /\ m.call = "fcall" => t \in T!Fcalls /\ t.target = Spelled(m.callee)
      /\ m.call = "ncall" => t \in T!Ncalls /\ t.key = Hash(Spelled(m.callee)) /\ t.key \in T!Words
  BY <1>1, <1>2, Zenon DEF Translatable
<1> HIDE DEF s, t
<1>4. InstFound(CodeFor(M), LineAt(M, k, n), m.call, 0, "")
  <2>1. InstFound(T!Code(s), T!At(s, k, n), t.name, t.size, t.sign)
    BY <1>1, <1>3, InstReadBack, Zenon
  <2> QED BY <1>1, <1>3, <2>1, Zenon
<1>5. ASSUME m.call = "ncall"
      PROVE  B!Value(CodeFor(M), LineAt(M, k, n) + InstSize, Word) = Hash(Spelled(m.callee))
  <2>1. B!Value(T!Code(s), T!At(s, k, n) + InstSize, Word) = t.key
    BY <1>1, <1>3, <1>5, NcallReadBack, Zenon
  <2> QED BY <1>1, <1>3, <1>5, <2>1, Zenon
<1>6. ASSUME m.call = "fcall", NEW start \in Targets(M, m.callee), Targets(M, m.callee) = {start}
      PROVE  B!Value(CodeFor(M), LineAt(M, k, n) + InstSize, Word) = start + RegistersSize
  <2>1. m.callee \in Names(M)
    BY <1>2, <1>6, TargetNamed, Zenon
  <2>2. T!Places(s, Spelled(m.callee)) = Targets(M, m.callee)
    BY <1>2, <2>1, SameTargets, Zenon DEF s
  <2>3. t \in T!Fcalls /\ T!Places(s, t.target) = {start}
    BY <1>3, <1>6, <2>2, Zenon
  <2>4. B!Value(T!Code(s), T!At(s, k, n) + InstSize, Word) = start + RegistersSize
    BY <1>1, <2>3, FcallReadBack, Zenon
  <2> QED BY <1>1, <2>4, Zenon
<1> QED BY <1>4, <1>5, <1>6, Zenon DEF CallFound

ReadPlace(c, at, kind, size) ==
    CASE kind = B!Fixed    -> [lit |-> B!Value(c, at, size)]
      [] kind = B!Relative -> [at |-> B!Value(c, at, Word)]
      [] OTHER             -> [via  |-> B!Value(c, at, Word),
                               diff |-> B!Signed(B!Value(c, at + Word, Word), Word)]

LEMMA SignedIs == \A v, n : T!Signed(v, n) = B!Signed(v, n)
BY SpanIs, Zenon DEF T!Signed, B!Signed

\* Signed numbers that fit in a word.
LEMMA SignedFits ==
    ASSUME NEW d \in Int, IsSigned(d)
    PROVE  -T!Span(Word) <= 2 * d /\ 2 * d < T!Span(Word)
<1>1. T!Span(Word) \in Nat /\ T!Span(Word) = B!Span(Word)
  BY T!WordsFacts, SpanIs, Csts, Nothing0, Zenon
<1> DEFINE S == B!Span(Word)
<1>2. 2 * d \in -S .. S - 1
  BY Zenon DEF IsSigned
<1> HIDE DEF S
<1>3. S \in Nat /\ T!Span(Word) = S
  BY <1>1 DEF S
<1> QED BY <1>2, <1>3

\* A place is read back from the bytes of its operand.
LEMMA PlaceBack ==
    ASSUME NEW place \in MeantPlaces, NEW c, NEW at, NEW size,
           T!OperandReads(c, at, PlaceOperand(place), size),
           Has(place, "diff") => IsSigned(place.diff)
    PROVE  ReadPlace(c, at, KindOf(place), size) = Kept(place, size)
<1>1. /\ B!Empty = 0 /\ B!Fixed = 3 /\ B!Relative = 1 /\ B!RelativeWithDiff = 2
      /\ T!Empty = 0 /\ T!Fixed = 3 /\ T!Relative = 1 /\ T!RelativeWithDiff = 2
  BY Zenon DEF B!Empty, B!Fixed, B!Relative, B!RelativeWithDiff, T!Empty, T!Fixed, T!Relative, T!RelativeWithDiff
<1> DEFINE W == B!Words
           o == PlaceOperand(place)
<1>2. /\ o.kind = T!Fixed => T!Value(c, at, size) = o.value % T!Span(size)
      /\ o.kind = T!Relative => T!Value(c, at, Word) = o.base
      /\ o.kind = T!RelativeWithDiff =>
            /\ T!Value(c, at, Word) = o.base
            /\ -T!Span(Word) <= 2 * o.value /\ 2 * o.value < T!Span(Word)
                 => T!Signed(T!Value(c, at + Word, Word), Word) = o.value
  BY Zenon DEF T!OperandReads
<1> HIDE DEF W, o
<1>3. CASE place \in [lit : Nat]
  <2>1. Has(place, "lit")
    BY <1>3 DEF Has
  <2>1b. ~Has(place, "at")
    BY <1>3 DEF Has
  <2>2. o = [kind |-> B!Fixed, value |-> place.lit] /\ KindOf(place) = B!Fixed
    BY <2>1, <2>1b, Zenon DEF PlaceOperand, KindOf, o
  <2>3. o.kind = T!Fixed /\ o.value = place.lit
    BY <1>1, <2>2
  <2>4. B!Value(c, at, size) = place.lit % B!Span(size)
    BY <1>2, <2>3, SpanIs, ValueIs, Zenon
  <2>5. B!Fixed # B!Relative
    BY <1>1
  <2>6. ReadPlace(c, at, KindOf(place), size) = [lit |-> B!Value(c, at, size)]
    BY <2>2, <2>5, Zenon DEF ReadPlace
  <2>7. Kept(place, size) = [lit |-> place.lit % B!Span(size)]
    BY <2>1, Zenon DEF Kept
  <2> QED BY <2>4, <2>6, <2>7, Zenon
<1>4. CASE place \in [at : W]
  <2>1. ~Has(place, "lit") /\ Has(place, "at") /\ place = [at |-> place.at]
    BY <1>4 DEF Has
  <2>2. o = [kind |-> B!Relative, base |-> place.at] /\ KindOf(place) = B!Relative
    BY <2>1, Zenon DEF PlaceOperand, KindOf, o
  <2>3. o.kind = T!Relative /\ o.base = place.at
    BY <1>1, <2>2
  <2>4. B!Value(c, at, Word) = place.at
    BY <1>2, <2>3, ValueIs, Zenon
  <2>5. B!Relative # B!Fixed
    BY <1>1
  <2>6. ReadPlace(c, at, KindOf(place), size) = [at |-> B!Value(c, at, Word)]
    BY <2>2, <2>5, Zenon DEF ReadPlace
  <2>7. Kept(place, size) = place
    BY <2>1, Zenon DEF Kept
  <2> QED BY <2>1, <2>4, <2>6, <2>7, Zenon
<1>5. CASE place \in [via : W, diff : Int]
  <2>1. ~Has(place, "lit") /\ ~Has(place, "at") /\ Has(place, "diff") /\ place.diff \in Int
    BY <1>5 DEF Has
  <2>8. place = [via |-> place.via, diff |-> place.diff]
    BY <1>5
  <2>2. /\ o = [kind |-> B!RelativeWithDiff, base |-> place.via, value |-> place.diff]
        /\ KindOf(place) = B!RelativeWithDiff
    BY <2>1, Zenon DEF PlaceOperand, KindOf, o
  <2>3. o.kind = T!RelativeWithDiff /\ o.base = place.via /\ o.value = place.diff
    BY <1>1, <2>2
  <2>4. IsSigned(place.diff)
    BY <2>1
  <2>5. -T!Span(Word) <= 2 * place.diff /\ 2 * place.diff < T!Span(Word)
    BY <2>1, <2>4, SignedFits
  <2>6. B!Value(c, at, Word) = place.via /\ B!Signed(B!Value(c, at + Word, Word), Word) = place.diff
    BY <1>2, <2>3, <2>5, ValueIs, SignedIs, Zenon
  <2>7. B!RelativeWithDiff # B!Fixed /\ B!RelativeWithDiff # B!Relative
    BY <1>1
  <2>9. ReadPlace(c, at, KindOf(place), size)
          = [via |-> B!Value(c, at, Word), diff |-> B!Signed(B!Value(c, at + Word, Word), Word)]
    BY <2>2, <2>7, Zenon DEF ReadPlace
  <2>10. Kept(place, size) = place
    BY <2>1, Zenon DEF Kept
  <2> QED BY <2>6, <2>8, <2>9, <2>10, Zenon
<1> QED BY <1>3, <1>4, <1>5, Zenon DEF MeantPlaces, W

\* The kind of a place is that of its operand.
LEMMA KindBack ==
    ASSUME NEW place \in MeantPlaces
    PROVE  KindOf(place) = PlaceOperand(place).kind
<1> DEFINE W == B!Words
<1> HIDE DEF W
<1>3. CASE place \in [lit : Nat]
  <2>1. Has(place, "lit") /\ ~Has(place, "at")
    BY <1>3 DEF Has
  <2>2. PlaceOperand(place) = [kind |-> B!Fixed, value |-> place.lit] /\ KindOf(place) = B!Fixed
    BY <2>1, Zenon DEF PlaceOperand, KindOf
  <2> QED BY <2>2
<1>4. CASE place \in [at : W]
  <2>1. ~Has(place, "lit") /\ Has(place, "at")
    BY <1>4 DEF Has
  <2>2. PlaceOperand(place) = [kind |-> B!Relative, base |-> place.at] /\ KindOf(place) = B!Relative
    BY <2>1, Zenon DEF PlaceOperand, KindOf
  <2> QED BY <2>2
<1>5. CASE place \in [via : W, diff : Int]
  <2>1. ~Has(place, "lit") /\ ~Has(place, "at")
    BY <1>5 DEF Has
  <2>2. /\ PlaceOperand(place) = [kind |-> B!RelativeWithDiff, base |-> place.via, value |-> place.diff]
        /\ KindOf(place) = B!RelativeWithDiff
    BY <2>1, Zenon DEF PlaceOperand, KindOf
  <2> QED BY <2>2
<1> QED BY <1>3, <1>4, <1>5, Zenon DEF MeantPlaces, W

(***************************************************************************)
(* An instruction lies in the code with what its operands stand for.       *)
(***************************************************************************)
\* The code reads as the instruction m at the offset o.
InstKept(code, o, m) ==
    /\ InstFound(code, o, Insts[m.inst].op, Insts[m.inst].size, Insts[m.inst].sign)
    /\ \A i \in 1 .. 3 : KindFound(code, o, i)
          = IF i \in DOMAIN m.args THEN KindOf(m.args[i]) ELSE B!Empty
    /\ \A i \in DOMAIN m.args :
          ReadPlace(code, o + InstSize + Total([j \in 1 .. i - 1 |-> ArgBytes(m, j)]),
                    KindOf(m.args[i]), Insts[m.inst].size)
             = Kept(m.args[i], Insts[m.inst].size)

LEMMA InstThere ==
    ASSUME NEW M, Sensible(M), Mains(M) # {}, NEW k \in 1 .. Len(M), NEW n \in DOMAIN M[k].lines,
           NEW m \in MeantInsts, m = M[k].lines[n],
           NEW o, o = LineAt(M, k, n)
    PROVE  InstKept(CodeFor(M), o, m)
<1> DEFINE s == Meant(M)
           t == MeantLine(m)
<1>1. /\ s \in Seq(T!Functions) /\ T!Placeable(s) /\ k \in 1 .. Len(s) /\ n \in DOMAIN s[k].lines
      /\ t = s[k].lines[n] /\ Translatable(m)
      /\ T!At(s, k, n) = o /\ T!Code(s) = CodeFor(M) /\ LineFits(m)
  BY LineOfMeant, ZenonT(40)
<1>2. Has(m, "inst") /\ m.args \in Seq(MeantPlaces)
  BY MeantFields, Zenon
<1>3. t = MeantInst(m) /\ t \in T!Others /\ ~T!IsLabel(t)
  BY <1>1, <1>2, Zenon DEF Translatable
<1>4. /\ t.name = Insts[m.inst].op /\ t.size = Insts[m.inst].size /\ t.sign = Insts[m.inst].sign
      /\ t.args = [i \in DOMAIN m.args |-> PlaceOperand(m.args[i])]
  <2>1. t = [name |-> Insts[m.inst].op, size |-> Insts[m.inst].size, sign |-> Insts[m.inst].sign,
             args |-> [i \in DOMAIN m.args |-> PlaceOperand(m.args[i])]]
    BY <1>3, Zenon DEF MeantInst
  <2> HIDE DEF t
  <2> QED BY <2>1
<1>5. \A i \in DOMAIN m.args : m.args[i] \in MeantPlaces
  BY <1>2
<1>6. \A i \in DOMAIN m.args : Has(m.args[i], "diff") => IsSigned(m.args[i].diff)
  <2>1. LineFits(m)
    BY <1>1, Zenon
  <2> QED BY <1>2, <2>1, ZenonT(40) DEF LineFits
<1>7. DOMAIN t.args = DOMAIN m.args /\ \A i \in DOMAIN m.args : t.args[i] = PlaceOperand(m.args[i])
  BY <1>4
<1> HIDE DEF s, t
<1>8. /\ InstFound(CodeFor(M), o, Insts[m.inst].op, Insts[m.inst].size, Insts[m.inst].sign)
      /\ \A i \in 1 .. 3 : KindFound(CodeFor(M), o, i) = T!ArgKind(t.args, i)
  <2>1. /\ InstFound(T!Code(s), T!At(s, k, n), t.name, t.size, t.sign)
        /\ t \in T!Others =>
              \A i \in 1 .. 3 : KindFound(T!Code(s), T!At(s, k, n), i) = T!ArgKind(t.args, i)
    BY <1>1, <1>3, InstReadBack
  <2> QED BY <1>1, <1>3, <1>4, <2>1, Zenon
<1>9. ASSUME NEW i \in 1 .. 3
      PROVE  T!ArgKind(t.args, i) = IF i \in DOMAIN m.args THEN KindOf(m.args[i]) ELSE B!Empty
  BY <1>5, <1>7, KindBack, KindsAre, Zenon DEF T!ArgKind
<1>10. ASSUME NEW i \in DOMAIN m.args
       PROVE  ReadPlace(CodeFor(M), o + InstSize + Total([j \in 1 .. i - 1 |-> ArgBytes(m, j)]),
                        KindOf(m.args[i]), Insts[m.inst].size)
                 = Kept(m.args[i], Insts[m.inst].size)
  <2> DEFINE at == o + InstSize + Total([j \in 1 .. i - 1 |-> ArgBytes(m, j)])
  <2>1. i \in DOMAIN t.args /\ t.args[i] = PlaceOperand(m.args[i]) /\ m.args[i] \in MeantPlaces
    BY <1>5, <1>7, Zenon
  <2>2. t.args[i].kind \in {T!Relative, T!RelativeWithDiff} => t.args[i].base \in T!Words
    BY <2>1, OperandTyped, Zenon
  <2>3. T!OperandReads(T!Code(s), T!At(s, k, n) + InstSize + T!ArgOffset(t, i), t.args[i], t.size)
    BY <1>1, <1>3, <2>1, <2>2, ArgReadBack
  <2>4. T!ArgOffset(t, i) = Total([j \in 1 .. i - 1 |-> ArgBytes(m, j)])
    <3>1. i \in 1 .. Len(m.args)
      BY <1>2
    <3>2. Total([j \in 1 .. i - 1 |-> ArgBytes(m, j)])
                       = <<0, WidthOf(m, 1), WidthOf(m, 1) + WidthOf(m, 2)>>[i]
      BY <3>1, ArgSums, Zenon
    <3> QED BY <1>3, <3>2, Zenon DEF T!ArgOffset, WidthOf
  <2>5. T!OperandReads(CodeFor(M), at, PlaceOperand(m.args[i]), Insts[m.inst].size)
    BY <1>1, <1>4, <2>1, <2>3, <2>4, Zenon
  <2> DEFINE a == m.args[i]
             z == Insts[m.inst].size
             c == CodeFor(M)
  <2>55. a \in MeantPlaces /\ (Has(a, "diff") => IsSigned(a.diff)) /\ T!OperandReads(c, at, PlaceOperand(a), z)
    BY <1>6, <2>1, <2>5, Zenon
  <2> HIDE DEF at, a, z, c
  <2>56. ReadPlace(c, at, KindOf(a), z) = Kept(a, z)
    BY <2>55, PlaceBack
  <2>6. ReadPlace(CodeFor(M), at, KindOf(m.args[i]), Insts[m.inst].size) = Kept(m.args[i], Insts[m.inst].size)
    BY <2>56, Zenon DEF a, z, c
  <2> QED BY <2>6, Zenon DEF at
<1> QED BY <1>8, <1>9, <1>10, Zenon DEF InstKept

-----------------------------------------------------------------------------
(* Translating a proper program.                                           *)

\* A proper program is one the translator can place and link.
LEMMA ProgramSensible ==
    ASSUME ParserInv, ReleasedInv, status = "parsed", Proper(program)
    PROVE  Sensible(Meaning(program)) /\ ProperProgram(program, Len(program))
<1>1. program \in Seq(Items)
  BY Zenon DEF ParserInv
<1>2. ProperProgram(program, Len(program))
  BY <1>1, ProperTaken, Zenon
<1>3. Indexed(Meaning(program), Len(Meaning(program)))
      /\ \A k \in DOMAIN Meaning(program) : Meaning(program)[k].lines \in Seq(MeantLines)
  BY <1>2, FunctionsMeant, Zenon
<1>4. status # "idle"
  OBVIOUS
<1>5. PICK n \in DOMAIN Sources : program \in Sources[n]
  BY <1>4, Zenon DEF ReleasedInv
<1>6. Fits(Meaning(program)) /\ SpelledApart(Meaning(program))
  BY <1>5, CompilerConstants, Zenon
<1> QED BY <1>2, <1>3, <1>6, Zenon DEF Sensible

\* Translating a proper program makes the code of its meaning, or refuses it.
LEMMA TranslatesMeaning ==
    ASSUME ParserInv, ReleasedInv, Translate, Proper(program), NEW M, M = Meaning(program)
    PROVE  /\ Mains(M) = {} => stage' = "thrown"
           /\ Mains(M) # {} => stage' = "translated" /\ bytecode' = CodeFor(M)
<1> DEFINE ls == parsed.layers
           fs == parsed.functions
           fault == FirstOf([k \in DOMAIN fs |-> FunctionFault(ls, fs[k])])
           given == { FunctionOf(ls, fs[k]) : k \in DOMAIN fs }
<1>1. /\ status = "parsed"
      /\ IF fault # "" THEN stage' = fault /\ UNCHANGED bytecode
         ELSE IF B!Throws(given) THEN stage' = "thrown" /\ UNCHANGED bytecode
         ELSE stage' = "translated" /\ bytecode' = B!Linked(B!Layout(given))
  BY Zenon DEF Translate
<1>2. Sensible(M) /\ ProperProgram(program, Len(program))
  BY <1>1, ProgramSensible, Zenon
<1>3. Released(program, ls, fs)
  BY <1>1, Zenon DEF ReleasedInv
<1>4. GivenAs(ls, fs, M)
  BY <1>2, <1>3, GivenMeant, Zenon
<1>5. fault = ""
  BY <1>4, Zenon DEF GivenAs
<1> HIDE DEF fault
<1>7. given = { Meant(M)[i] : i \in DOMAIN Meant(M) }
  <2> HIDE DEF ls, fs
  <2>1. DOMAIN Meant(M) = DOMAIN fs
    BY <1>2, <1>4, MeantTyped, Zenon DEF GivenAs
  <2>2. \A k \in DOMAIN fs : FunctionOf(ls, fs[k]) = Meant(M)[k]
    BY <1>4, Zenon DEF GivenAs
  <2> QED BY <2>1, <2>2, Zenon
<1> HIDE DEF ls, fs, given
<1>8. (B!Throws(given) <=> Mains(M) = {}) /\ B!Linked(B!Layout(given)) = CodeFor(M)
  BY <1>2, <1>7, RefusedWithoutMain, Zenon
<1> QED BY <1>1, <1>5, <1>8, Zenon

-----------------------------------------------------------------------------
(* Bytecode that means what a program means.                               *)

CodeMeans(fs) ==
    /\ Len(bytecode) = StartOf(fs, Len(fs) + 1) - 2 * Word
    /\ \E k \in Mains(fs) : /\ \A j \in Mains(fs) : k <= j
                            /\ WordAt(0) = StartOf(fs, k)
    /\ \A k \in DOMAIN fs :
          /\ HasHeader(fs, k)
          /\ \A n \in DOMAIN fs[k].lines : ReadsAs(LineAt(fs, k, n), fs[k].lines[n], fs)

\* Compiled, by what the bytecode means.
LEMMA CompiledMeans ==
    Compiled <=>
        (stage # "source" /\ Proper(program) =>
            IF Mains(Meaning(program)) = {} THEN stage = "thrown"
            ELSE stage = "translated" /\ CodeMeans(Meaning(program)))
BY Zenon DEF Compiled, CodeMeans, Mains, Main

\* Bytecode with a call in it reads as the call,
LEMMA ReadBackCall ==
    ASSUME NEW M, bytecode' = CodeFor(M), NEW o, NEW m \in CallLines,
           CallFound(CodeFor(M), M, o, m)
    PROVE  ReadsAsCall(o, m, M)'
<1>1. IsInstruction(o, m.call, 0, "")' <=> InstFound(CodeFor(M), o, m.call, 0, "")
  BY Zenon DEF IsInstruction, InstFound
<1>2. WordAt(o + InstSize)' = B!Value(CodeFor(M), o + InstSize, Word)
  BY Zenon DEF WordAt
<1> m.call \in {"fcall", "ncall"}
  BY MeantFields, Zenon
<1>3. CASE m.call = "ncall"
  BY <1>1, <1>2, <1>3, Zenon DEF ReadsAsCall, CallFound
<1>4. CASE m.call = "fcall"
  <2>1. m.call # "ncall"
    BY <1>4
  <2> QED BY <1>1, <1>2, <1>4, <2>1, Zenon DEF ReadsAsCall, CallFound
<1> QED BY <1>3, <1>4

\* with an instruction as the instruction,
LEMMA ReadBackInst ==
    ASSUME NEW M, bytecode' = CodeFor(M), NEW o, NEW m, InstKept(CodeFor(M), o, m)
    PROVE  ReadsAsInst(o, m)'
<1>2. ASSUME NEW at, NEW kind, NEW size
      PROVE  PlaceAt(at, kind, size)' = ReadPlace(CodeFor(M), at, kind, size)
  BY Zenon DEF PlaceAt, ReadPlace, WordAt
<1>3. ASSUME NEW i PROVE KindAt(o, i)' = KindFound(CodeFor(M), o, i)
  BY Zenon DEF KindAt, KindFound
<1>4. ASSUME NEW name, NEW size, NEW sign
      PROVE  IsInstruction(o, name, size, sign)' <=> InstFound(CodeFor(M), o, name, size, sign)
  BY Zenon DEF IsInstruction, InstFound
<1> QED BY <1>2, <1>3, <1>4, Zenon DEF ReadsAsInst, InstKept

-----------------------------------------------------------------------------
(* Every line, every function and the whole bytecode.                      *)

\* and every line as what it means,
LEMMA ReadBackMeant ==
    ASSUME NEW M, bytecode' = CodeFor(M), NEW o, NEW m \in MeantLines,
           m \in CallLines => CallFound(CodeFor(M), M, o, m),
           m \in MeantInsts => InstKept(CodeFor(M), o, m)
    PROVE  ReadsAs(o, m, M)'
<1>1. CASE m \in LabelLines
  <2>1. Has(m, "label") /\ ~Has(m, "call")
    BY <1>1, MeantFields, Zenon
  <2> QED BY <2>1, Zenon DEF ReadsAs
<1>2. CASE m \in CallLines
  <2>1. Has(m, "call") /\ ~Has(m, "label")
    BY <1>2, MeantFields, Zenon
  <2>2. ReadsAsCall(o, m, M)'
    BY <1>2, <2>1, ReadBackCall, Zenon
  <2> QED BY <2>1, <2>2, Zenon DEF ReadsAs
<1>3. CASE m \in MeantInsts
  <2>1. ~Has(m, "call") /\ ~Has(m, "label")
    BY <1>3, MeantFields, Zenon
  <2>2. ReadsAsInst(o, m)'
    BY <1>3, ReadBackInst, Zenon
  <2> QED BY <2>1, <2>2, Zenon DEF ReadsAs
<1> QED BY <1>1, <1>2, <1>3, Zenon DEF MeantLines

\* where it should lie.
LEMMA ReadBackLine ==
    ASSUME NEW M, Sensible(M), Mains(M) # {}, bytecode' = CodeFor(M),
           NEW k \in 1 .. Len(M), NEW n \in DOMAIN M[k].lines,
           NEW m, m = M[k].lines[n], NEW o, o = LineAt(M, k, n)
    PROVE  ReadsAs(o, m, M)'
<1>1. FunctionTyped(M, k)
  BY MeantTyped, Zenon
<1>2. m \in MeantLines
  BY <1>1 DEF FunctionTyped
<1>3. m \in CallLines => CallFound(CodeFor(M), M, o, m)
  BY CallThere, Zenon
<1>4. m \in MeantInsts => InstKept(CodeFor(M), o, m)
  BY InstThere, Zenon
<1> QED BY <1>2, <1>3, <1>4, ReadBackMeant, Zenon

\* The code of a meaning means it.
LEMMA MeansHolds ==
    ASSUME NEW M, Sensible(M), Mains(M) # {}, bytecode' = CodeFor(M)
    PROVE  CodeMeans(M)'
<1>1. Len(bytecode') = StartOf(M, Len(M) + 1) - 2 * Word
  BY SensiblePlaceable, Zenon
<1>2. PICK k \in Mains(M) : /\ \A j \in Mains(M) : k <= j
                            /\ B!Value(CodeFor(M), 0, Word) = StartOf(M, k)
  BY EntryAtMain, Zenon
<1>3. WordAt(0)' = StartOf(M, k)
  BY <1>2, Zenon DEF WordAt
<1>4. DOMAIN M = 1 .. Len(M)
  BY MeantTyped, Zenon
<1>5. ASSUME NEW i \in DOMAIN M
      PROVE  HasHeader(M, i)'
  <2>1. /\ B!Value(CodeFor(M), StartOf(M, i) - Word, Word) = M[i].ret
        /\ i # 1 => B!Value(CodeFor(M), StartOf(M, i) - 2 * Word, Word) = M[i].args
    BY <1>4, HeaderThere, Zenon
  <2> QED BY <2>1, Zenon DEF HasHeader, WordAt
<1>6. ASSUME NEW i \in DOMAIN M, NEW n \in DOMAIN M[i].lines
      PROVE  ReadsAs(LineAt(M, i, n), M[i].lines[n], M)'
  BY <1>4, ReadBackLine, Zenon
<1> QED BY <1>1, <1>2, <1>3, <1>5, <1>6, Zenon DEF CodeMeans

-----------------------------------------------------------------------------
(* The compiler means the same.                                            *)

CompInv ==
    /\ ParserInv
    /\ ReleasedInv
    /\ stage # "source" => status = "parsed"
    /\ Compiled

\* The invariant: the parser's, and what has been translated is what is parsed.
LEMMA CompInit == CompilerInit => CompInv
BY InvInit, ReleasedInit, Zenon DEF CompilerInit, CompInv, Compiled

\* A new program begins from the source.
LEMMA CompParse ==
    ASSUME CompInv, ParseNext
    PROVE  CompInv'
<1>1. ParserInv'
  BY InvParse, Zenon DEF CompInv, ParseNext
<1>2. ReleasedInv'
  BY ReleasedParse, Zenon DEF ParseNext
<1> QED BY <1>1, <1>2, Zenon DEF CompInv, ParseNext, Compiled

\* What is parsed is not translated before its end.
LEMMA CompConstruct ==
    ASSUME CompInv, Construct, UNCHANGED <<bytecode, stage>>
    PROVE  CompInv'
<1>1. status = "parsing"
  BY ConstructParses, Zenon
<1>2. status # "parsed"
  BY <1>1
<1>3. stage' = "source"
  BY <1>2, Zenon DEF CompInv
<1>4. ParserInv' /\ ReleasedInv'
  BY InvConstruct, ReleasedConstruct, Zenon DEF CompInv
<1> QED BY <1>3, <1>4, Zenon DEF CompInv, Compiled

\* A step of the translator leaves the parser alone.
LEMMA SameParser ==
    ASSUME ParserInv, ReleasedInv, UNCHANGED vars
    PROVE  ParserInv' /\ ReleasedInv'
<1>1. ParserInv'
  BY InvNext, Zenon
<1>2. UNCHANGED <<program, status, parsed>>
  BY Zenon DEF vars
<1> QED BY <1>1, <1>2, Zenon DEF ReleasedInv

\* Bytecode is made once, from what is parsed, and means it.
LEMMA CompTranslate ==
    ASSUME CompInv, Translate, NEW M, M = Meaning(program)
    PROVE  CompInv'
<1>1. UNCHANGED vars /\ status = "parsed"
  BY Zenon DEF Translate
<1>2. UNCHANGED <<program, status>>
  BY <1>1, Zenon DEF vars
<1>3. ParserInv' /\ ReleasedInv'
  BY <1>1, SameParser, Zenon DEF CompInv
<1>4. ASSUME Proper(program), Mains(M) = {}
      PROVE  stage' = "thrown"
  BY <1>4, TranslatesMeaning, Zenon DEF CompInv
<1>5. ASSUME Proper(program), Mains(M) # {}
      PROVE  stage' = "translated" /\ CodeMeans(M)'
  <2>1. Sensible(M)
    BY <1>1, <1>5, ProgramSensible, Zenon DEF CompInv
  <2>2. stage' = "translated" /\ bytecode' = CodeFor(M)
    BY <1>5, TranslatesMeaning, Zenon DEF CompInv
  <2> QED BY <1>5, <2>1, <2>2, MeansHolds, Zenon
<1>6. M = Meaning(program')
  BY <1>2, Zenon
<1>7. Compiled'
  BY <1>2, <1>4, <1>5, <1>6, Zenon DEF Compiled, CodeMeans, Mains, Main
<1> QED BY <1>1, <1>2, <1>3, <1>7, Zenon DEF CompInv

\* Reading depends on the bytecode alone.
LEMMA ReadsTheSame ==
    ASSUME bytecode' = bytecode, NEW M, NEW o, NEW m
    PROVE  ReadsAs(o, m, M)' <=> ReadsAs(o, m, M)
<1>1. ASSUME NEW at, NEW kind, NEW size
      PROVE  PlaceAt(at, kind, size)' = PlaceAt(at, kind, size)
  BY Zenon DEF PlaceAt, WordAt
<1>2. ASSUME NEW i PROVE KindAt(o, i)' = KindAt(o, i)
  BY Zenon DEF KindAt
<1>3. ASSUME NEW name, NEW size, NEW sign
      PROVE  IsInstruction(o, name, size, sign)' <=> IsInstruction(o, name, size, sign)
  BY Zenon DEF IsInstruction
<1>4. ReadsAsInst(o, m)' <=> ReadsAsInst(o, m)
  BY <1>1, <1>2, <1>3, Zenon DEF ReadsAsInst
<1>5. ASSUME NEW at PROVE WordAt(at)' = WordAt(at)
  BY Zenon DEF WordAt
<1>6. ReadsAsCall(o, m, M)' <=> ReadsAsCall(o, m, M)
  BY <1>3, <1>5, Zenon DEF ReadsAsCall
<1>7. CASE Has(m, "label")
  <2>1. CASE Has(m, "call")
    BY <1>6, <1>7, <2>1 DEF ReadsAs
  <2>2. CASE ~Has(m, "call")
    BY <1>7, <2>2, Zenon DEF ReadsAs
  <2> QED BY <2>1, <2>2
<1>8. CASE ~Has(m, "label") /\ Has(m, "call")
  BY <1>6, <1>8, Zenon DEF ReadsAs
<1>9. CASE ~Has(m, "label") /\ ~Has(m, "call")
  BY <1>4, <1>9, Zenon DEF ReadsAs
<1> QED BY <1>7, <1>8, <1>9

LEMMA MeansTheSameStill ==
    ASSUME bytecode' = bytecode, NEW M, CodeMeans(M)
    PROVE  CodeMeans(M)'
<1>1. ASSUME NEW at PROVE WordAt(at)' = WordAt(at)
  BY Zenon DEF WordAt
<1>2. ASSUME NEW k PROVE HasHeader(M, k)' <=> HasHeader(M, k)
  BY <1>1, Zenon DEF HasHeader
<1> QED BY <1>1, <1>2, ReadsTheSame, Zenon DEF CodeMeans

LEMMA CompStutter ==
    ASSUME CompInv, UNCHANGED compilerVars, NEW M, M = Meaning(program)
    PROVE  CompInv'
<1>1. UNCHANGED vars /\ UNCHANGED <<bytecode, stage>>
  BY Zenon DEF compilerVars
<1>2. UNCHANGED <<program, status>>
  BY <1>1, Zenon DEF vars
<1>3. ParserInv' /\ ReleasedInv'
  BY <1>1, SameParser, Zenon DEF CompInv
<1>4. stage # "source" /\ Proper(program) =>
         IF Mains(M) = {} THEN stage = "thrown" ELSE stage = "translated" /\ CodeMeans(M)
  BY CompiledMeans, Zenon DEF CompInv
<1>5. stage' # "source" /\ Proper(program') =>
         IF Mains(M) = {} THEN stage' = "thrown" ELSE stage' = "translated" /\ CodeMeans(M)'
  BY <1>1, <1>2, <1>4, MeansTheSameStill, Zenon
<1>6. M = Meaning(program')
  BY <1>2, Zenon
<1>7. Compiled'
  BY <1>5, <1>6, Zenon DEF Compiled, CodeMeans, Mains, Main
<1> QED BY <1>1, <1>2, <1>3, <1>7, Zenon DEF CompInv

(***************************************************************************)
(* The bytecode of a proper program means what its text means, whatever    *)
(* program it is and whatever has been compiled before it.                 *)
(***************************************************************************)
THEOREM MeansTheSame == CompilerSpec => []Compiled
<1>1. CompInv /\ [CompilerNext]_compilerVars => CompInv'
  BY CompParse, CompConstruct, CompTranslate, CompStutter, Zenon DEF CompilerNext
<1>2. CompInv => Compiled
  BY Zenon DEF CompInv
<1> QED BY CompInit, <1>1, <1>2, PTL DEF CompilerSpec
=============================================================================
