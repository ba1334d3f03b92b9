------------------------------- MODULE Amasm -------------------------------
(***************************************************************************)
(* Programs in amasm: their syntax, the tokens the lexer makes of them, and*)
(* what they mean.  The parser is checked against this meaning.            *)
(*                                                                         *)
(* A program is a sequence of items: a struct [struct, fields], a function *)
(* [func, args, ret, lines] or a constant [const, type, num].  A line is   *)
(* one of                                                                  *)
(*   [var, type, base, diff]   var %var: type, [%base + diff]              *)
(*   [var, type]               var %var: type                              *)
(*   [label]                   label label:                                *)
(*   [call, callee]            fcall or ncall and the words of the name    *)
(*   [inst, args]              an instruction                              *)
(* and an operand of an instruction one of                                 *)
(*   [num]    [name]    [name, field]    [name, diff]                      *)
(* that is 5, %name, %name.field and [%name + diff], or [%name] without    *)
(* a difference.                                                           *)
(***************************************************************************)
EXTENDS Integers, Sequences, SequencesExt

CONSTANTS Insts,      \* [name -> [op, size, sign, min, max]]: the instructions
          Builtin,    \* [name -> bytes]: the types every program has
          Registers   \* [name -> address]: the variables every program has

\* The texts of tokens that are not names: a number has none.
Signs ==
    {"", "%", ",", ";", ":", "@", "(", ")", "{", "}", "[", "]", "+", "-", ".",
     "var", "label", "struct", "func", "const"}

\* No instruction is named like a sign, a type or a register, and none of
\* these like another.
ASSUME AmasmConstants ==
    /\ \A n \in DOMAIN Insts : Insts[n].max \in Nat /\ Insts[n].min \in 0 .. Insts[n].max
    /\ \A call \in {"fcall", "ncall"} : call \in DOMAIN Insts /\ Insts[call].op = call
    /\ "void" \in DOMAIN Builtin /\ Builtin["void"] = 0
    /\ DOMAIN Insts \cap (DOMAIN Builtin \cup DOMAIN Registers \cup Signs) = {}
    /\ DOMAIN Builtin \cap DOMAIN Registers = {}

Has(r, field) == field \in DOMAIN r

Operands ==
    [num : Nat] \cup [name : STRING] \cup [name : STRING, field : STRING]
                \cup [name : STRING, diff : Int]

Lines ==
    [label : STRING] \cup [call : {"fcall", "ncall"}, callee : Seq(STRING)]
       \cup [inst : STRING, args : Seq(Operands)]
       \cup [var : STRING, type : STRING]
       \cup [var : STRING, type : STRING, base : STRING, diff : Int]

Items ==
    [struct : STRING, fields : Seq([name : STRING, type : STRING])]
       \cup [func : STRING, args : Seq(STRING), ret : STRING, lines : Seq(Lines)]
       \cup [const : STRING, type : STRING, num : Nat]

-----------------------------------------------------------------------------
(* Tokens: a type, the text of a word or a mark, and the value of a number. *)

Mark(c) == [type |-> c, lit |-> c, num |-> 0]
Ident(w) == [type |-> "Id", lit |-> w, num |-> 0]
Number(n) == [type |-> "Number", lit |-> "", num |-> n]

\* The first 0, 1, ... of some sequences behind one another, and all of them.
Joins(seqs) ==
    LET join[k \in 0 .. Len(seqs)] == IF k = 0 THEN <<>> ELSE join[k - 1] \o seqs[k]
    IN join

Joined(seqs) == Joins(seqs)[Len(seqs)]

Totals(numbers) ==
    LET total[k \in 0 .. Len(numbers)] == IF k = 0 THEN 0 ELSE total[k - 1] + numbers[k]
    IN total

Total(numbers) == Totals(numbers)[Len(numbers)]

Sign(d) == Mark(IF d < 0 THEN "-" ELSE "+")
Amount(d) == Number(IF d < 0 THEN -d ELSE d)

OperandTokens(a) ==
    CASE Has(a, "num")   -> <<Number(a.num)>>
      [] Has(a, "field") -> <<Mark("%"), Ident(a.name), Mark("."), Ident(a.field)>>
      [] Has(a, "diff")  ->
           IF a.diff = 0 THEN <<Mark("["), Mark("%"), Ident(a.name), Mark("]")>>
           ELSE <<Mark("["), Mark("%"), Ident(a.name), Sign(a.diff), Amount(a.diff), Mark("]")>>
      [] OTHER           -> <<Mark("%"), Ident(a.name)>>

\* Sequences of tokens with commas between them.
Separated(seqs) == [k \in DOMAIN seqs |-> IF k = 1 THEN seqs[k] ELSE <<Mark(",")>> \o seqs[k]]
Listed(seqs) == Joined(Separated(seqs))

End == <<Mark(";")>>
Close == <<Mark("}")>>

\* The words of a name in a call: marks where they are marks.
CallTokens(callee) ==
    [k \in DOMAIN callee |->
        IF callee[k] \in {"@", "(", ")", ","} THEN Mark(callee[k]) ELSE Ident(callee[k])]

LineTokens(line) ==
    CASE Has(line, "label") -> <<Mark("label"), Ident(line.label), Mark(":")>>
      [] Has(line, "call")  -> <<Ident(line.call)>> \o CallTokens(line.callee) \o End
      [] Has(line, "inst")  ->
           <<Ident(line.inst)>>
              \o Listed([k \in DOMAIN line.args |-> OperandTokens(line.args[k])])
              \o End
      [] Has(line, "base")  ->
           <<Mark("var"), Mark("%"), Ident(line.var), Mark(":"), Ident(line.type), Mark(","),
             Mark("["), Mark("%"), Ident(line.base), Sign(line.diff), Amount(line.diff), Mark("]"),
             Mark(";")>>
      [] OTHER              ->
           <<Mark("var"), Mark("%"), Ident(line.var), Mark(":"), Ident(line.type), Mark(";")>>

\* A struct has its fields as lines, a function its own; both are closed by }.
LinesOf(item) ==
    IF Has(item, "struct")
    THEN [k \in DOMAIN item.fields |->
             [var |-> item.fields[k].name, type |-> item.fields[k].type]]
    ELSE item.lines

ConstTokens(item) ==
    <<Mark("const"), Mark("%"), Ident(item.const), Mark(":"), Ident(item.type), Mark(","),
      Number(item.num), Mark(";")>>

HeadTokens(item) ==
    IF Has(item, "struct")
    THEN <<Mark("struct"), Ident(item.struct), Mark("{")>>
    ELSE <<Mark("func"), Mark("@"), Ident(item.func), Mark("(")>>
            \o Listed([k \in DOMAIN item.args |-> <<Ident(item.args[k])>>])
            \o (IF item.ret = "void" THEN <<Mark(")"), Mark("{")>>
                ELSE <<Mark(")"), Mark(":"), Ident(item.ret), Mark("{")>>)

\* The tokens of an item in parts: its head, its lines, its closing brace.
Parts(item) ==
    IF Has(item, "const") THEN <<ConstTokens(item)>>
    ELSE <<HeadTokens(item)>>
            \o [k \in DOMAIN LinesOf(item) |-> LineTokens(LinesOf(item)[k])]
            \o <<Close>>

ItemTokens(program) == [k \in DOMAIN program |-> Joined(Parts(program[k]))]
Tokens(program) == Joined(ItemTokens(program))

\* Where the parts of a program that are parsed by themselves begin: items,
\* the lines and the closing braces of functions.
PartStarts(program) ==
    LET before == Joins(ItemTokens(program))
        inside(k) == Joins(Parts(program[k]))
        functions == { k \in DOMAIN program : Has(program[k], "func") }
    IN { 1 + Len(before[k]) : k \in 0 .. Len(program) }
          \cup UNION { { 1 + Len(before[k - 1]) + Len(inside(k)[n]) :
                             n \in 0 .. Len(Parts(program[k])) } : k \in functions }

-----------------------------------------------------------------------------
(* Meaning: the functions, with the place every operand stands for: a       *)
(* literal [lit], the memory at an address [at], or the memory at the       *)
(* address that lies at one, plus a difference [via, diff].                 *)

Structs(program) == { k \in DOMAIN program : Has(program[k], "struct") }

\* Bytes of a type: structs have only builtin fields here.
SizeOf(program, type) ==
    IF type \in DOMAIN Builtin THEN Builtin[type]
    ELSE LET s == program[CHOOSE k \in Structs(program) : program[k].struct = type]
         IN Total([f \in DOMAIN s.fields |-> Builtin[s.fields[f].type]])

FieldOffset(program, type, field) ==
    LET s == program[CHOOSE k \in Structs(program) : program[k].struct = type]
        n == CHOOSE k \in DOMAIN s.fields : s.fields[k].name = field
    IN Total([f \in 1 .. n - 1 |-> Builtin[s.fields[f].type]])

\* The declaration of a name that the line at k sees, 0 for a register.
DeclaredAt(lines, k, name) ==
    LET earlier == { n \in 1 .. k - 1 : Has(lines[n], "var") /\ lines[n].var = name }
    IN IF earlier = {} THEN 0 ELSE CHOOSE n \in earlier : \A m \in earlier : n <= m

Place(program, lines, k, a) ==
    IF Has(a, "num") THEN [lit |-> a.num]
    ELSE LET n == DeclaredAt(lines, k, a.name)
             more == IF Has(a, "diff") THEN a.diff
                     ELSE IF Has(a, "field") THEN FieldOffset(program, lines[n].type, a.field)
                     ELSE 0
         IN IF n = 0
            THEN IF Has(a, "diff") THEN [via |-> Registers[a.name], diff |-> more]
                 ELSE [at |-> Registers[a.name]]
            ELSE IF Has(lines[n], "base")
            THEN [via |-> Registers[lines[n].base], diff |-> lines[n].diff + more]
            ELSE [via  |-> Registers["rsp"], diff |-> more - SizeOf(program, lines[n].type)]

PushOf(bytes) == { i \in DOMAIN Insts : Insts[i].op = "push" /\ Insts[i].size = bytes }

\* The lines of code a line becomes: none if it only names an address.
LineMeaning(program, lines, k) ==
    LET line == lines[k]
    IN CASE Has(line, "label") -> <<[label |-> line.label]>>
         [] Has(line, "call")  -> <<[call |-> line.call, callee |-> line.callee]>>
         [] Has(line, "inst")  ->
              <<[inst |-> line.inst,
                 args |-> [n \in DOMAIN line.args |-> Place(program, lines, k, line.args[n])]]>>
         [] Has(line, "base")  -> <<>>
         [] OTHER              ->
              <<[inst |-> CHOOSE i \in PushOf(SizeOf(program, line.type)) : TRUE,
                 args |-> <<>>]>>

FullName(name, args) ==
    <<"@", name, "(">> \o Joined([k \in DOMAIN args |->
                                     IF k = 1 THEN <<args[k]>> ELSE <<",", args[k]>>]) \o <<")">>

FunctionMeaning(program, f) ==
    [name  |-> FullName(f.func, f.args),
     args  |-> Total([k \in DOMAIN f.args |-> SizeOf(program, f.args[k])]),
     ret   |-> SizeOf(program, f.ret),
     lines |-> Joined([k \in DOMAIN f.lines |-> LineMeaning(program, f.lines, k)])]

Meaning(program) ==
    Joined([k \in DOMAIN program |-> IF Has(program[k], "func")
                                     THEN <<FunctionMeaning(program, program[k])>> ELSE <<>>])

-----------------------------------------------------------------------------
(* Well-formed programs.  Structs have only builtin fields here, and a      *)
(* variable is based on a register.                                         *)

NamesOf(program, kind) == { program[k][kind] : k \in { n \in DOMAIN program : Has(program[n], kind) } }

\* Types that the item at n sees.
KnownTypes(program, n) == DOMAIN Builtin \cup NamesOf(SubSeq(program, 1, n - 1), "struct")

Reserved == DOMAIN Insts \cup DOMAIN Registers \cup DOMAIN Builtin

HasField(program, type, field) ==
    \E k \in Structs(program) :
        /\ program[k].struct = type
        /\ \E f \in DOMAIN program[k].fields : program[k].fields[f].name = field

OperandFormed(program, lines, k, a) ==
    Has(a, "num") \/ LET n == DeclaredAt(lines, k, a.name)
                     IN IF Has(a, "field")
                        THEN n # 0 /\ HasField(program, lines[n].type, a.field)
                        ELSE n # 0 \/ a.name \in DOMAIN Registers

LineFormed(program, item, k) ==
    LET lines == program[item].lines
        line == lines[k]
    IN CASE Has(line, "label") -> line.label \notin Reserved
         [] Has(line, "call")  -> TRUE
         [] Has(line, "inst")  ->
              /\ line.inst \in DOMAIN Insts /\ Insts[line.inst].op \notin {"fcall", "ncall"}
              /\ Len(line.args) \in Insts[line.inst].min .. Insts[line.inst].max
              /\ \A n \in DOMAIN line.args : OperandFormed(program, lines, k, line.args[n])
         [] OTHER              ->
              /\ line.var \notin Reserved
              /\ line.type \in KnownTypes(program, item)
              /\ IF Has(line, "base") THEN line.base \in DOMAIN Registers
                 ELSE PushOf(SizeOf(program, line.type)) # {}

ItemFormed(program, item) ==
    LET it == program[item]
    IN CASE Has(it, "struct") ->
              /\ it.struct \notin Reserved
                               \cup NamesOf(program, "func")
                               \cup NamesOf(SubSeq(program, 1, item - 1), "struct")
              /\ IsInjective([f \in DOMAIN it.fields |-> it.fields[f].name])
              /\ \A f \in DOMAIN it.fields :
                    it.fields[f].name \notin Reserved /\ it.fields[f].type \in DOMAIN Builtin
         [] Has(it, "func")   ->
              /\ it.func \notin Reserved
              /\ \A k \in DOMAIN it.args : it.args[k] \in KnownTypes(program, item)
              /\ it.ret \in KnownTypes(program, item)
              /\ \A k \in DOMAIN it.lines : LineFormed(program, item, k)
         [] OTHER             -> it.type \in DOMAIN Builtin

WellFormed(program) == \A item \in DOMAIN program : ItemFormed(program, item)
=============================================================================
