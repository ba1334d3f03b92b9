----------------------------- MODULE MCToolchain -----------------------------
(***************************************************************************)
(* Toolchain for TLC: the programs of MCParser.  Bytes have 64 values, words*)
(* four bytes and codes two, as for the translator and the machine.        *)
(***************************************************************************)
EXTENDS MCParser, Toolchain

MCSizes == <<1, 4>>

MCHash(name) == IF name = "@print()" THEN 70 ELSE 71

-----------------------------------------------------------------------------
(* Programs that run for a while: main passes two arguments to h, which     *)
(* works on them, and once more through f; a line before the call; a use, a *)
(* label or a third call between it and f's.                               *)

CallTo(name) == [call |-> "fcall", callee |-> name]
ToH == CallTo(FullName("h", <<"uint8", "cell">>))

H == Func("h", <<"uint8", "cell">>, "uint8",
          << At("x", "uint8", "rsp", -9), At("y", "cell", "rsp", -8),
             I("mov32", <<N("rax"), N("y")>>), I("add32u", <<N("y"), N("rax"), Num(5)>>),
             I("cmp8i", <<N("x"), Num(3)>>), Ret >>)
F == Func("f", <<>>, "void", << Bare("c", "uint8"), Bare("b", "cell"), ToH, Ret >>)

Between == { u \in Uses : u.inst # "ret" } \cup Calls \cup { [label |-> "loop"], ToH }
Behind == Calls \cup { [label |-> "loop"], ToH, I("mov32", <<N("rax"), N("a")>>),
                       I("push32", <<[name |-> "p", field |-> "y"]>>) }

Working(k, l) ==
    << Pair, Cell,
       Main(<< Bare("c", "uint8"), Bare("b", "cell"),
               At("a", "uint32", "rsp", -4), At("p", "pair", "rsp", -5),
               I("mov32", <<N("a"), Num(7)>>), k, ToH, l, CallTo(FullName("f", <<>>)),
               I("halt", <<>>) >>),
       F, H >>

MCToolchainSources ==
    [n \in 1 .. 2 |-> IF n = 1
                      THEN MCPrograms \cup { Working(k, l) : k \in Between, l \in Behind }
                      ELSE MCFew]
=============================================================================
