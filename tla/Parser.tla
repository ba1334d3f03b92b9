------------------------------- MODULE Parser -------------------------------
(***************************************************************************)
(* The parser: it walks over the tokens of a program by the number of      *)
(* tokens each construct takes, keeps the elements of the program in one   *)
(* layer of names per function under a global one, and hands the functions *)
(* over when it has passed the last token.                                 *)
(*                                                                         *)
(* One action parses a struct, the head of a function, one line of it or   *)
(* its end.  A context is used again after a program, as release_container *)
(* allows; one that threw is not.                                          *)
(***************************************************************************)
EXTENDS Amasm

CONSTANT Sources   \* the programs the parser may be given first, second, ...:
                   \* as many as are parsed with one context

ASSUME ParserConstants == \A n \in DOMAIN Sources : Sources[n] \subseteq Seq(Items)

VARIABLES
    program,    \* the program parsed last
    tokens,     \* its tokens
    pos,        \* the token the parser is at
    layers,     \* names of the context, the global ones first
    functions,  \* functions in the container of the context
    open,       \* the function being parsed, NoFunction outside of one
    status,     \* idle, parsing, parsed, thrown or undefined
    parsed,     \* what the last program became: [functions, layers]
    parses      \* programs so far

vars == <<program, tokens, pos, layers, functions, open, status, parsed, parses>>

NoFunction == [scope |-> 0]
Nothing == [kind |-> "none"]

Type(size, poles) == [kind |-> "type", size |-> size, poles |-> poles]
Var(type, address) == [kind |-> "var", type |-> type, address |-> address]

\* address_info: a name, a value without and one with sign, and a kind.
Address(name, abs, sign, kind) == [name |-> name, abs |-> abs, sign |-> sign, kind |-> kind]

\* Builtin types and registers.  The type of a register is never a struct.
Globals ==
    [n \in DOMAIN Builtin \cup DOMAIN Registers |->
        IF n \in DOMAIN Builtin THEN Type(Builtin[n], <<>>)
        ELSE Var(Type(0, <<>>), Address("", Registers[n], 0, "Fixed"))]

-----------------------------------------------------------------------------
(* Reading tokens. *)

Past == [type |-> "past", lit |-> "", num |-> 0]
Tok(k) == IF k \in DOMAIN tokens THEN tokens[k] ELSE Past
Is(k, type) == Tok(k).type = type

Match(rule, k) == \A n \in DOMAIN rule : Is(k + n - 1, rule[n])

VarDefine == <<"var", "%", "Id", ":", "Id">>
FuncDefine == <<"func", "@", "Id", "(">>
StructDefine == <<"struct", "Id", "{">>
LabelDefine == <<"label", "Id", ":">>
Direct == <<"%", "Id">>
IndirectRule == <<"[", "%", "Id">>

\* The first token of a type from k on, behind the last one if there is none.
Next1(type, k) ==
    LET found == { n \in k .. Len(tokens) : Is(n, type) }
    IN IF found = {} THEN Len(tokens) + 1 ELSE CHOOSE n \in found : \A m \in found : n <= m

\* The name of an instruction is one wherever it stands.
MarkedToken(t) == IF t.lit \in DOMAIN Insts THEN [t EXCEPT !.type = "Inst"] ELSE t
Marked(ts) == [k \in DOMAIN ts |-> MarkedToken(ts[k])]

-----------------------------------------------------------------------------
(* Names. *)

Lookup(ls, name, id) ==
    IF name \in DOMAIN ls[id + 1] THEN ls[id + 1][name]
    ELSE IF name \in DOMAIN ls[1] THEN ls[1][name]
    ELSE Nothing

\* Mutant of Add: the name of a variable and the name in its address swapped.
UnderItsBase(ls, id, name, element) ==
    LET key == IF element.kind = "var" THEN element.address.name ELSE name
    IN [ls EXCEPT ![id + 1] =
           [n \in DOMAIN @ \cup {key} |-> IF n \in DOMAIN @ THEN @[n] ELSE element]]

\* emplace keeps the element a name already has.
Add(ls, id, name, element) ==
    [ls EXCEPT ![id + 1] =
        IF name \in DOMAIN @ THEN @
        ELSE [n \in DOMAIN @ \cup {name} |-> IF n = name THEN element ELSE @[n]]]

\* A missing name throws, an element of another kind is a null pointer.
Fault(element, kind) ==
    IF element.kind = kind THEN "" ELSE IF element = Nothing THEN "thrown" ELSE "undefined"

TypeAt(k) == Lookup(layers, Tok(k).lit, 0)
TypeFault(k) == Fault(TypeAt(k), "type")

\* The first of some faults ends the parser.
FirstOf(faults) ==
    LET real == { k \in DOMAIN faults : faults[k] # "" }
    IN IF real = {} THEN "" ELSE faults[CHOOSE k \in real : \A j \in real : k <= j]

Throws(b) == IF b THEN "thrown" ELSE ""

-----------------------------------------------------------------------------
Init ==
    /\ program = <<>> /\ tokens = <<>> /\ pos = 1
    /\ layers = <<Globals>>
    /\ functions = <<>>
    /\ open = NoFunction
    /\ status = "idle"
    /\ parsed = [functions |-> <<>>, layers |-> <<Globals>>]
    /\ parses = 0

Parse ==
    /\ status \in {"idle", "parsed"}
    /\ parses + 1 \in DOMAIN Sources
    /\ parses' = parses + 1
    /\ \E p \in Sources[parses + 1] : program' = p /\ tokens' = Marked(Tokens(p))
    /\ pos' = 1
    /\ status' = "parsing"
    /\ UNCHANGED <<layers, functions, open, parsed>>

AtItem == status = "parsing" /\ open = NoFunction /\ pos <= Len(tokens)
AtLine == status = "parsing" /\ open # NoFunction /\ pos <= Len(tokens)

\* The construct ends in a fault, a throw or undefined behaviour, or moves the
\* parser by delta tokens.
Outcome(fault, delta) ==
    IF fault = "" THEN pos' = pos + delta /\ UNCHANGED status
    ELSE status' = (IF fault = "thrown" THEN fault ELSE "undefined") /\ UNCHANGED pos

-----------------------------------------------------------------------------
(* Structs. *)

PoleSize == 6
PoleAt(k) == pos + 3 + PoleSize * (k - 1)

\* A brace is only seen where a pole could begin.
Poles ==
    LET ends == { n \in 0 .. Len(tokens) : Is(PoleAt(n + 1), "}") }
    IN IF ends = {} THEN Len(tokens) ELSE CHOOSE n \in ends : \A m \in ends : n <= m

PoleName(k) == Tok(PoleAt(k) + 2).lit
PoleType(k) == TypeAt(PoleAt(k) + 4)

\* A second pole of a name is dropped; one that is not lies behind those before it.
PoleKept(k) == \A j \in 1 .. k - 1 : PoleName(j) # PoleName(k)
OffsetOf(k) == Total([j \in 1 .. k - 1 |-> IF PoleKept(j) THEN PoleType(j).size ELSE 0])

\* The type of the first n poles.
Built(n) ==
    LET kept == { k \in 1 .. n : PoleKept(k) }
    IN Type(OffsetOf(n + 1),
            [name \in { PoleName(k) : k \in kept } |->
                LET k == CHOOSE j \in kept : PoleName(j) = name
                IN [offset |-> OffsetOf(k), type |-> PoleType(k)]])

Datatype ==
    /\ AtItem
    /\ Is(pos, "struct")
    /\ LET faults == [k \in 1 .. Poles |->
                         FirstOf(<<Throws(~Match(VarDefine, PoleAt(k))), TypeFault(PoleAt(k) + 4)>>)]
           fault == FirstOf(<<Throws(~Match(StructDefine, pos))>> \o faults)
       IN /\ layers' = IF fault = ""
                       THEN Add(layers, 0, Tok(pos + 1).lit, Built(Poles))
                       ELSE layers
          /\ Outcome(fault, 3 + PoleSize * Poles + 1)
    /\ UNCHANGED <<program, tokens, functions, open, parsed, parses>>

-----------------------------------------------------------------------------
(* Functions. *)

\* The head up to its brace.  The scope of the function is there before its
\* arguments are read.
Function ==
    /\ AtItem
    /\ Is(pos, "func")
    /\ LET close == Next1(")", pos + 4)
           list == [k \in 1 .. close - (pos + 4) |-> pos + 3 + k]
           faults == [k \in DOMAIN list |->
                         IF k % 2 = 0 THEN Throws(~Is(list[k], ","))
                         ELSE FirstOf(<<Throws(~Is(list[k], "Id")), TypeFault(list[k])>>)]
           hasRet == Is(close + 1, ":")
           fault == FirstOf(<<Throws(~Match(FuncDefine, pos))>> \o faults
                               \o <<IF hasRet THEN TypeFault(close + 2) ELSE "">>)
           args == [k \in 1 .. (Len(list) + 1) \div 2 |-> list[2 * k - 1]]
       IN /\ layers' = IF Match(FuncDefine, pos) THEN Append(layers, <<>>) ELSE layers
          /\ open' = IF fault # "" THEN open
                     ELSE [scope |-> Len(layers),
                           name  |-> Tok(pos + 2).lit,
                           args  |-> [k \in DOMAIN args |->
                                        [name |-> Tok(args[k]).lit, size |-> TypeAt(args[k]).size]],
                           ret   |-> IF hasRet THEN TypeAt(close + 2).size ELSE Builtin["void"],
                           lines |-> <<>>]
          /\ Outcome(fault, close - pos + (IF hasRet THEN 4 ELSE 2))
    /\ UNCHANGED <<program, tokens, functions, parsed, parses>>

\* Mutant of CloseFunction: the current scope is not set back.
CloseInScope ==
    /\ AtLine
    /\ Is(pos, "}")
    /\ functions' = Append(functions, open)
    /\ layers' = Add(layers, 0, open.name, [kind |-> "func"])
    /\ Outcome("", 1)
    /\ UNCHANGED <<program, tokens, open, parsed, parses>>

CloseFunction ==
    /\ AtLine
    /\ Is(pos, "}")
    /\ functions' = Append(functions, open)
    /\ layers' = Add(layers, 0, open.name, [kind |-> "func"])
    /\ open' = NoFunction
    /\ Outcome("", 1)
    /\ UNCHANGED <<program, tokens, parsed, parses>>

AddLine(line) == open' = [open EXCEPT !.lines = Append(@, line)]

IsInst(k) == Tok(k).lit \in DOMAIN Insts
Op == Insts[Tok(pos).lit].op

Label ==
    /\ AtLine
    /\ ~IsInst(pos) /\ Is(pos, "label")
    /\ IF Match(LabelDefine, pos) THEN AddLine([label |-> Tok(pos + 1).lit]) ELSE UNCHANGED open
    /\ Outcome(Throws(~Match(LabelDefine, pos)), 3)
    /\ UNCHANGED <<program, tokens, layers, functions, parsed, parses>>

\* The name of a function is all that stands before the semicolon.
Call ==
    /\ AtLine
    /\ IsInst(pos) /\ Op \in {"fcall", "ncall"}
    /\ LET close == Next1(";", pos + 1)
       IN IF close > Len(tokens)
          THEN Outcome("undefined", 0) /\ UNCHANGED open
          ELSE /\ AddLine([call   |-> Op,
                           callee |-> [k \in 1 .. close - pos - 1 |-> Tok(pos + k).lit]])
               /\ Outcome("", close - pos + 1)
    /\ UNCHANGED <<program, tokens, layers, functions, parsed, parses>>

\* With an address the line only names it.  Without one it becomes a push,
\* and the address is read off the token that stands three behind the line's
\* last one but one.
DeclareVariable ==
    /\ AtLine
    /\ ~IsInst(pos) /\ Is(pos, "var")
    /\ LET type == TypeAt(pos + 4)
           placed == Is(pos + 5, ",")
           diff == IF Is(pos + 9, "-") THEN -Tok(pos + 10).num ELSE Tok(pos + 10).num
           fault == FirstOf(<<Throws(~Match(VarDefine, pos)), TypeFault(pos + 4)>>
                      \o IF placed
                         THEN <<Throws(~Match(IndirectRule, pos + 6)), Throws(~Is(pos + 10, "Number"))>>
                         ELSE <<Throws(type.kind = "type" /\ PushOf(type.size) = {}),
                                IF pos + 8 > Len(tokens) THEN "undefined" ELSE "">>)
           address == Address(Tok(pos + 8).lit, 0, IF placed THEN diff ELSE -type.size,
                              "RelativeWithDiff")
       IN /\ layers' = IF fault # "" THEN layers
                       ELSE Add(layers, open.scope, Tok(pos + 2).lit, Var(type, address))
          /\ IF fault # "" \/ placed THEN UNCHANGED open
             ELSE AddLine([inst |-> CHOOSE i \in PushOf(type.size) : TRUE, args |-> <<>>])
          /\ Outcome(fault, IF placed THEN 13 ELSE 6)
    /\ UNCHANGED <<program, tokens, functions, parsed, parses>>

-----------------------------------------------------------------------------
(* Instructions. *)

\* The dots of a chain of fields, with one token between each two.
Dots(k) ==
    LET ends == { n \in 0 .. Len(tokens) : ~Is(k + 2 * n, ".") }
    IN CHOOSE n \in ends : \A m \in ends : n <= m

\* calc_offset: the fields from token k on.  The name of a field is looked up
\* two tokens behind the dot.
Fields(type, k) ==
    LET step(acc, n) ==
            LET field == Tok(k + 2 * n).lit
            IN IF acc.fault # "" THEN acc
               ELSE IF field \notin DOMAIN acc.type.poles THEN [acc EXCEPT !.fault = "thrown"]
               ELSE [type  |-> acc.type.poles[field].type,
                     diff  |-> acc.diff + acc.type.poles[field].offset,
                     taken |-> 2 * n,
                     fault |-> ""]
        steps[n \in 0 .. Dots(k)] ==
            IF n = 0 THEN [type |-> type, diff |-> 0, taken |-> 0, fault |-> ""]
            ELSE step(steps[n - 1], n)
    IN steps[Dots(k)]

\* Mutant of Based: the name is kept although the difference is added.
OwnName(var, name) == name

\* A variable with an address stands for its base, with the difference added.
Based(var, name) == IF var.address.kind = "RelativeWithDiff" THEN var.address.name ELSE name
Beyond(var) == IF var.address.kind = "RelativeWithDiff" THEN var.address.sign ELSE 0

\* An operand at token k and the tokens it takes.
Arg(fault, address, taken) == [fault |-> fault, address |-> address, taken |-> taken]
NoAddress == Address("", 0, 0, "Empty")

\* Mutant of DirectArg: the name is looked up in the default scope, the
\* global one.
GlobalArg(k) ==
    LET name == Tok(k + 1).lit
        var == Lookup(layers, name, 0)
    IN IF Fault(var, "var") # "" THEN Arg(Fault(var, "var"), NoAddress, 0)
       ELSE LET diff == Beyond(var)
            IN Arg("", Address(Based(var, name), diff, diff,
                               IF diff # 0 THEN "RelativeWithDiff" ELSE "Relative"), 2)

DirectArg(k) ==
    LET name == Tok(k + 1).lit
        var == Lookup(layers, name, open.scope)
    IN IF Fault(var, "var") # "" THEN Arg(Fault(var, "var"), NoAddress, 0)
       ELSE LET fields == Fields(var.type, k + 2)
                diff == fields.diff + Beyond(var)
            IN Arg(fields.fault,
                   Address(Based(var, name), diff, diff,
                           IF diff # 0 THEN "RelativeWithDiff" ELSE "Relative"),
                   fields.taken + 2)

\* Behind a difference the parser stays on the closing bracket.
IndirectArg(k) ==
    LET name == Tok(k + 2).lit
        var == Lookup(layers, name, open.scope)
    IN IF Fault(var, "var") # "" THEN Arg(Fault(var, "var"), NoAddress, 0)
       ELSE LET fields == Fields(var.type, k + 3)
                at == k + 3 + fields.taken
                shifted == Is(at, "+") \/ Is(at, "-")
                more == IF Is(at, "+") THEN Tok(at + 1).num
                        ELSE IF Is(at, "-") THEN -Tok(at + 1).num ELSE 0
            IN Arg(FirstOf(<<fields.fault, Throws(shifted /\ ~Is(at + 1, "Number"))>>),
                   Address(Based(var, name), 0, fields.diff + Beyond(var) + more,
                           "RelativeWithDiff"),
                   fields.taken + (IF shifted THEN 5 ELSE 4))

NumberArg(k) == Arg("", Address("", Tok(k).num, 0, "Fixed"), 1)

IsArg(k) == Match(Direct, k) \/ Is(k, "Number") \/ Match(IndirectRule, k)
ArgAt(k) ==
    CASE Match(Direct, k) -> DirectArg(k)
      [] Is(k, "Number")  -> NumberArg(k)
      [] OTHER            -> IndirectArg(k)

\* Mutant of TakeArg: the semicolon is skipped like a comma.
SkipEnd(acc, min) ==
    IF acc.done THEN acc
    ELSE IF ~IsArg(acc.at)
    THEN IF Len(acc.args) >= min THEN [acc EXCEPT !.at = @ + 1, !.done = TRUE]
         ELSE [acc EXCEPT !.fault = "thrown", !.done = TRUE]
    ELSE LET arg == ArgAt(acc.at)
         IN IF arg.fault # "" THEN [acc EXCEPT !.fault = arg.fault, !.done = TRUE]
            ELSE [acc EXCEPT !.args = Append(@, arg.address),
                             !.at   = acc.at + arg.taken + 1,
                             !.done = Is(acc.at + arg.taken, ";")]

\* One turn of the loop over the operands: at is the token it is at.
TakeArg(acc, min) ==
    IF acc.done THEN acc
    ELSE IF ~IsArg(acc.at)
    THEN IF Len(acc.args) >= min THEN [acc EXCEPT !.at = @ + 1, !.done = TRUE]
         ELSE [acc EXCEPT !.fault = "thrown", !.done = TRUE]
    ELSE LET arg == ArgAt(acc.at)
             next == acc.at + arg.taken
         IN IF arg.fault # "" THEN [acc EXCEPT !.fault = arg.fault, !.done = TRUE]
            ELSE [at    |-> IF Is(next, ";") THEN next ELSE next + 1,
                  args  |-> Append(acc.args, arg.address),
                  fault |-> "",
                  done  |-> Is(next, ";")]

\* The loop's turns over the operands of an instruction.
Turns(info) ==
    LET turn[n \in 0 .. info.max] ==
            IF n = 0 THEN [at |-> pos + 1, args |-> <<>>, fault |-> "", done |-> Is(pos + 1, ";")]
            ELSE TakeArg(turn[n - 1], info.min)
    IN turn

Instruction ==
    /\ AtLine
    /\ IsInst(pos) /\ Op \notin {"fcall", "ncall"}
    /\ LET info == Insts[Tok(pos).lit]
           taken == Turns(info)[info.max]
       IN /\ IF taken.fault = ""
             THEN AddLine([inst |-> Tok(pos).lit, args |-> taken.args]) ELSE UNCHANGED open
          /\ Outcome(taken.fault, taken.at - pos + 1)
    /\ UNCHANGED <<program, tokens, layers, functions, parsed, parses>>

-----------------------------------------------------------------------------
\* Mutant of Reject: what is not known is passed over, by no tokens at all.
PassOver ==
    /\ \/ AtItem /\ Tok(pos).type \notin {"struct", "func"}
       \/ AtLine /\ ~IsInst(pos) /\ Tok(pos).type \notin {"var", "label", "}"}
    /\ Outcome("", 0)
    /\ UNCHANGED <<program, tokens, layers, functions, open, parsed, parses>>

\* Nothing an item or a line begins with.
Reject ==
    /\ \/ AtItem /\ Tok(pos).type \notin {"struct", "func"}
       \/ AtLine /\ ~IsInst(pos) /\ Tok(pos).type \notin {"var", "label", "}"}
    /\ Outcome("thrown", 0)
    /\ UNCHANGED <<program, tokens, layers, functions, open, parsed, parses>>

\* Inside a function the parser goes on behind the last token.
RunOut ==
    /\ status = "parsing" /\ open # NoFunction /\ pos > Len(tokens)
    /\ Outcome("undefined", 0)
    /\ UNCHANGED <<program, tokens, layers, functions, open, parsed, parses>>

\* The container is cloned and the context starts anew.
Release ==
    /\ status = "parsing" /\ open = NoFunction /\ pos > Len(tokens)
    /\ status' = "parsed"
    /\ parsed' = [functions |-> functions, layers |-> layers]
    /\ functions' = <<>>
    /\ layers' = <<Globals>>
    /\ UNCHANGED <<program, tokens, pos, open, parses>>

\* A step of the parser in a program.
Construct ==
    \/ Datatype \/ Function \/ CloseFunction
    \/ Label \/ Call \/ DeclareVariable \/ Instruction
    \/ Reject \/ RunOut \/ Release

Next == Parse \/ Construct

Spec == Init /\ [][Next]_vars

-----------------------------------------------------------------------------
(* What the translator takes the operands of the parsed functions for: it  *)
(* looks up their names once more, in the layers the parser has left.      *)

DenotedArg(ls, scope, a) ==
    LET address == Lookup(ls, a.name, scope).address.abs
    IN CASE a.kind = "Fixed"    -> [lit |-> a.abs]
         [] a.kind = "Relative" -> [at |-> address]
         [] OTHER               -> [via |-> address, diff |-> a.sign]

DenotedLine(ls, scope, line) ==
    IF ~Has(line, "inst") THEN line
    ELSE [line EXCEPT !.args = [n \in DOMAIN @ |-> DenotedArg(ls, scope, @[n])]]

Denoted(result) ==
    [k \in DOMAIN result.functions |->
        LET f == result.functions[k]
        IN [name  |-> FullName(f.name, [n \in DOMAIN f.args |-> f.args[n].name]),
            args  |-> Total([n \in DOMAIN f.args |-> f.args[n].size]),
            ret   |-> f.ret,
            lines |-> [n \in DOMAIN f.lines |-> DenotedLine(result.layers, f.scope, f.lines[n])]]]

-----------------------------------------------------------------------------
(* What the parser can take of the language.  Not: constants; a field of a *)
(* struct; an operand [%name + diff] where another could follow; a variable*)
(* at its base itself; the use of a variable without an address, or one    *)
(* declared with fewer than three tokens behind it.                        *)

SupportedOperand(lines, k, n) ==
    LET a == lines[k].args[n]
        declared == IF Has(a, "name") THEN DeclaredAt(lines, k, a.name) ELSE 0
    IN /\ ~Has(a, "field")
       /\ Has(a, "diff") => a.diff = 0 \/ n = Insts[lines[k].inst].max
       /\ declared # 0 => /\ Has(lines[declared], "base")
                          /\ lines[declared].diff # 0

SupportedLine(p, item, k) ==
    LET line == p[item].lines[k]
    IN /\ Has(line, "inst") => \A n \in DOMAIN line.args : SupportedOperand(p[item].lines, k, n)
       /\ Has(line, "var") /\ ~Has(line, "base") => k < Len(p[item].lines) \/ item < Len(p)

Supported(p) ==
    \A item \in DOMAIN p :
        /\ ~Has(p[item], "const")
        /\ Has(p[item], "func") =>
              \A k \in DOMAIN p[item].lines : SupportedLine(p, item, k)

Proper(p) == WellFormed(p) /\ Supported(p)

-----------------------------------------------------------------------------
(* Properties. *)

Failed == status \in {"thrown", "undefined"}

TypeOK ==
    /\ pos \in 1 .. Len(tokens) + 2
    /\ \A id \in DOMAIN layers : \A n \in DOMAIN layers[id] :
          layers[id][n].kind \in {"type", "var", "func"}
    /\ \A k \in DOMAIN functions : functions[k].scope = k
    /\ open = NoFunction \/ open.scope = Len(functions) + 1
    /\ status \in {"idle", "parsing", "parsed", "thrown", "undefined"}
    /\ parses = 0 \/ parses \in DOMAIN Sources

\* Every construct takes the tokens it consists of: between two of them the
\* parser stands where an item, a line or a closing brace begins.
Synchronised ==
    status = "parsing" /\ Proper(program) => pos \in PartStarts(program)

\* A program the parser can take is not refused, nor read past its end.
Accepted == Failed => ~Proper(program)

\* The functions handed over are those of the program, line by line: names
\* stand for the places they were declared for, in this function and in this
\* program, pushes are there for variables without an address, and sizes
\* and full names are those of the declaration.
Faithful == status = "parsed" /\ Proper(program) => Denoted(parsed) = Meaning(program)

\* An operand already parsed is resolved again by the translator: no later
\* declaration changes what it stands for.
ResolvedOnce ==
    [][ open # NoFunction /\ status' # "parsed" /\ Proper(program) =>
          \A n \in DOMAIN open.lines :
              DenotedLine(layers', open.scope, open.lines[n])
                  = DenotedLine(layers, open.scope, open.lines[n]) ]_vars

\* Every program the language has is taken (res/amasm_features.md).
AllAccepted == Failed => ~WellFormed(program)

=============================================================================
