-------------------------- MODULE MCVirtualMachine --------------------------
(***************************************************************************)
(* VirtualMachine for TLC: the programs are what Translator makes of small *)
(* functions.  Bytes have 64 values, words four bytes and codes two.       *)
(***************************************************************************)
EXTENDS VirtualMachine, Bytecode, SequencesExt

MCSizes == <<1, 4>>

Compiled(fs) ==
    LET layout == Layout(fs)
        entry(f) == layout.labels[f.name] + RegistersSize
    IN [bytes  |-> Linked(layout),
        starts |-> { s + RegistersSize : s \in layout.starts },
        args   |-> FoldLeft(LAMBDA map, f : (entry(f) :> f.args) @@ map,
                            <<>>, InOrder(fs))]

-----------------------------------------------------------------------------
(* Lines. *)

Rel(r) == [kind |-> Relative, base |-> r]
Fix(v) == [kind |-> Fixed, value |-> v]
At(r, d) == [kind |-> RelativeWithDiff, base |-> r, value |-> d]

Line(name, size, sign, args) == [name |-> name, size |-> size, sign |-> sign, args |-> args]
PushOf(n, arg) == Line("push", n, "", <<arg>>)
MovOf(n, to, from) == Line("mov", n, "", <<to, from>>)
Stop == Line("halt", 0, "", <<>>)
Return == Line("ret", 0, "", <<>>)
ReturnOf(arg) == Line("ret", 0, "", <<arg>>)
CallOf(target) == [name |-> "fcall", size |-> 0, sign |-> "", target |-> target]
NativeOf(key) == [name |-> "ncall", size |-> 0, sign |-> "", key |-> key]

Function(name, scope, args, ret, lines) ==
    [name |-> name, scope |-> scope, args |-> args, ret |-> ret, lines |-> lines]
Main(lines) == Function("@main()", 1, 0, 0, lines)

-----------------------------------------------------------------------------
(* Programs of single lines: all pairs out of a pool, then halt. *)

Pool == {
    MovOf(4, Rel(AX), Fix(70)),
    MovOf(4, Rel(BX), Fix(-7)),
    MovOf(1, At(SP, 2), Rel(CX)),
    MovOf(1, Fix(3), Rel(AX)),
    PushOf(4, Fix(GP)),
    PushOf(1, At(SP, -4)),
    Line("push", 4, "", <<>>),
    Line("xor", 1, "", <<Rel(AX), Fix(21)>>),
    Line("sub", 4, "i", <<Rel(DX), Rel(BX), Fix(9)>>),
    Line("div", 1, "u", <<Rel(AX), Fix(9), Rel(BX)>>),
    Line("not", 4, "", <<Rel(CX), Rel(BX)>>),
    Line("cmp", 1, "u", <<Rel(AX), Fix(3)>>),
    Line("cmp", 1, "i", <<Rel(AX), Fix(9)>>),
    Line("cmp", 1, "i", <<Fix(-20), Fix(-30)>>),
    Line("cmp", 4, "u", <<Rel(BX), Fix(-7)>>),
    Line("cmp", 4, "i", <<Rel(BX), Rel(AX)>>),
    Line("cmp", 4, "i", <<At(SP, -4), Fix(2 ^ 23)>>),
    NativeOf(5),
    NativeOf(6),
    CallOf("@next()")}

\* Only as the last line: a push after more pops than pushes meets the code.
Pops == {Line("pop", 4, "", <<Rel(CX)>>), Line("pop", 1, "", <<>>)}

Next1 == Function("@next()", 2, 0, 1,
                  << Line("add", 1, "u", <<Rel(AX), At(SP, -5), Fix(1)>>), ReturnOf(Rel(CX)) >>)

\* A jump over a push, a call too deep for the frame, and a callee that
\* returns more than AX holds.
Jump == << Line("add", 4, "u", <<Rel(IP), Fix(InstSize + 4)>>), PushOf(4, Fix(1)), Stop >>
Deep == {Main(<<CallOf("@next()")>>),
         Function("@next()", 2, 0, 1,
                  <<PushOf(4, Fix(1)), CallOf("@next()"), Return>>)}
Long == {Main(<<CallOf("@next()"), Stop>>),
         Function("@next()", 2, 0, 6, <<ReturnOf(Rel(CX)), Stop, Stop>>)}

\* neg, which the machine has and the compiler has not: by its code.
Negate ==
    [Compiled({Main(<<Line("not", 1, "", <<Rel(AX)>>), Stop>>)})
        EXCEPT !.bytes[2 * Word + 1] = SignedCodes + Len(SignedNames) - 1]

LinePrograms ==
    { Compiled({Main(<<a, b, Stop>>), Next1}) : a \in Pool, b \in Pool \cup Pops }
        \cup { Compiled({Main(Jump)}), Compiled(Deep), Compiled(Long), Negate }

-----------------------------------------------------------------------------
(* Programs of calls. *)

F(args, lines) == Function("@f(u8)", 2, args, 4, lines)
G(lines) == Function("@g()", 3, 0, 1, lines)

CallsOf(body, last) ==
    Compiled({Main(<<PushOf(1, Fix(3)), CallOf("@f(u8)"), CallOf("@g()"), Stop>>),
              F(1, Append(body, Return)),
              G(<<PushOf(4, Rel(BP)), last, Return>>)})

Unwind == Line("add", 4, "i", <<Rel(SP), Fix(-4)>>)

CallPrograms ==
    { CallsOf(<<>>, Unwind),
       CallsOf(<<MovOf(4, Rel(AX), At(SP, -4))>>, Stop),
       CallsOf(<<PushOf(1, Fix(7)), CallOf("@g()"), Line("add", 4, "i", <<Rel(SP), Fix(-1)>>)>>, Unwind),
       CallsOf(<<CallOf("@g()")>>, Unwind) }

ASSUME CallsAreFramed == \A p \in CallPrograms : Framed(p)
=============================================================================
