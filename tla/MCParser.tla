------------------------------ MODULE MCParser ------------------------------
(***************************************************************************)
(* Parser for TLC: two structs, a function with names of its own and a     *)
(* main whose body is any two lines of a pool, behind it or before it.     *)
(***************************************************************************)
EXTENDS Parser

Takes(op, size, sign, min, max) ==
    [op |-> op, size |-> size, sign |-> sign, min |-> min, max |-> max]

\* A word has four bytes.
MCInsts ==
    [ halt |-> Takes("halt", 0, "", 0, 0), ret |-> Takes("ret", 0, "", 0, 1),
      fcall |-> Takes("fcall", 0, "", 1, 1), ncall |-> Takes("ncall", 0, "", 1, 1),
      mov32 |-> Takes("mov", 4, "", 2, 2), not32 |-> Takes("not", 4, "", 0, 1),
      push8 |-> Takes("push", 1, "", 0, 1), push32 |-> Takes("push", 4, "", 0, 1),
      add32u |-> Takes("add", 4, "u", 2, 3), cmp8i |-> Takes("cmp", 1, "i", 2, 2) ]

MCBuiltin == [ void |-> 0, uint8 |-> 1, uint32 |-> 4 ]
MCRegisters == [ rax |-> 0, rcx |-> 8, rsp |-> 32 ]

-----------------------------------------------------------------------------
(* Lines. *)

At(var, type, base, diff) == [var |-> var, type |-> type, base |-> base, diff |-> diff]
Bare(var, type) == [var |-> var, type |-> type]
I(inst, args) == [inst |-> inst, args |-> args]
N(name) == [name |-> name]
D(name, diff) == [name |-> name, diff |-> diff]
Num(n) == [num |-> n]
Ret == I("ret", <<>>)

Declarations ==
    { At("a", "uint32", "rsp", -8), At("a", "uint8", "rcx", 1), At("p", "pair", "rax", 8),
      At("a", "uint32", "rax", 0), Bare("b", "cell"), Bare("c", "uint8") }

Uses ==
    { I("mov32", <<N("rax"), N("a")>>), I("mov32", <<N("p"), Num(5)>>),
      I("add32u", <<N("a"), D("a", 0), D("rsp", -16)>>), I("not32", <<D("p", -3)>>),
      I("add32u", <<N("rcx"), N("a")>>), I("not32", <<N("b")>>),
      I("push32", <<[name |-> "p", field |-> "y"]>>),
      I("cmp8i", <<Num(70), N("rcx")>>), I("ret", <<N("rcx")>>) }

Calls == { [call |-> "fcall", callee |-> <<"@", "g", "(", "uint8", ",", "cell", ")">>],
           [call |-> "ncall", callee |-> <<"@", "print", "(", ")">>],
           [call |-> "fcall", callee |-> <<"loop">>] }

\* Too few operands, too many, one that leaves the parser on its bracket, a
\* type as a variable, unknown and reserved names, a size without a push.
Wrong ==
    { I("mov32", <<N("rax")>>), I("mov32", <<N("rax"), N("rcx"), Num(5)>>),
      I("add32u", <<N("rax"), D("rsp", -8)>>), I("mov32", <<N("pair"), Num(1)>>),
      At("v", "gone", "rax", 8), At("v", "rax", "rax", 8), At("ret", "uint8", "rax", 8),
      [label |-> "halt"], Bare("b", "pair") }

Pool == Declarations \cup Uses \cup Calls \cup Wrong \cup { [label |-> "loop"] }

\* What a function leaves for those behind it: names it declares, and calls of
\* functions that come later.
Early == Declarations \cup Calls \cup { [label |-> "loop"] }

-----------------------------------------------------------------------------
(* Programs. *)

Field(name, type) == [name |-> name, type |-> type]
Pair == [struct |-> "pair", fields |-> <<Field("x", "uint8"), Field("y", "uint32")>>]
Cell == [struct |-> "cell", fields |-> <<Field("v", "uint32")>>]

Func(name, args, ret, lines) == [func |-> name, args |-> args, ret |-> ret, lines |-> lines]
G == Func("g", <<"uint8", "cell">>, "uint32",
          << At("a", "uint32", "rsp", -24), At("p", "cell", "rcx", -4),
             I("mov32", <<N("p"), N("a")>>), Ret >>)
Main(lines) == Func("main", <<>>, "void", lines)

Program(items) == <<Pair, Cell>> \o items

\* Two functions of one name, called by their full ones before and after they
\* are defined; a label that main has, and g has, too.
Overload(type) == Func("g", <<type>>, type, <<[label |-> "loop"], Ret>>)
Both == Main(<< [label |-> "end"], [call |-> "fcall", callee |-> <<"@", "g", "(", "uint32", ")">>],
                [call |-> "fcall", callee |-> <<"@", "g", "(", "uint8", ")">>],
                [label |-> "loop"], [call |-> "fcall", callee |-> <<"end">>] >>)
Overloads ==
    { <<Overload("uint8"), Both, Overload("uint32")>>, <<Overload("uint32"), Overload("uint8"), Both>> }

MCPrograms ==
    { Program(<<G, Main(<<k, l>>)>>) : k \in Pool, l \in Pool }
      \cup { Program(<<Main(<<k, l>>), G>>) : k \in Early, l \in Pool }
      \cup { Program(<<Main(<<At("p", "pair", "rax", 8), k, l, Ret>>)>>) : k \in Pool, l \in Pool }
      \cup { Program(fs) : fs \in Overloads }
      \cup { <<Cell, [const |-> "k", type |-> "uint8", num |-> 3]>>,
             <<Func("h", <<"gone">>, "void", <<Ret>>)>>,
             <<[struct |-> "s", fields |-> <<Field("ret", "uint8")>>]>> }

\* Programs with the same names for other things.
MCFew ==
    { Program(<<G, Main(<<At("a", "uint32", "rsp", -8), I("mov32", <<N("rax"), N("a")>>)>>)>>),
      <<[Pair EXCEPT !.struct = "cell"],
        Main(<<At("a", "cell", "rcx", 16), Bare("b", "uint8"), I("mov32", <<N("rax"), N("a")>>)>>)>>,
      <<Func("cell", <<"uint8">>, "void", <<Ret>>), Func("h", <<"uint32", "uint32">>, "uint8", <<Ret>>)>> }

MCSources == [n \in 1 .. 2 |-> IF n = 1 THEN MCPrograms ELSE MCFew]

\* mov32 %p.y, 10
MCFields == <<{ Program(<<Main(<<At("p", "pair", "rax", 8),
                              I("mov32", <<[name |-> "p", field |-> "y"], Num(10)>>), Ret>>)>>) }>>

=============================================================================
