---------------------------- MODULE MCTranslator ----------------------------
(***************************************************************************)
(* Translator for TLC: all bodies of main of up to two lines out of a pool *)
(* with every kind of line, together with two other functions, in every    *)
(* order of definition.                                                    *)
(*                                                                         *)
(* Bytes have 64 values, words four bytes and codes two, so that a code is *)
(* half a word as in the code.                                             *)
(***************************************************************************)
EXTENDS Translator

MCSizes == <<1, 4>>

MovByte == [name |-> "mov", size |-> 1, sign |-> "",
            args |-> << [kind |-> Relative, base |-> AX],
                        [kind |-> Fixed, value |-> 5] >>]
AddWord == [name |-> "add", size |-> 4, sign |-> "u",
            args |-> << [kind |-> Relative, base |-> BX],
                        [kind |-> RelativeWithDiff, base |-> SP, value |-> -8],
                        [kind |-> Fixed, value |-> 70] >>]
PushByte == [name |-> "push", size |-> 1, sign |-> "",
             args |-> << [kind |-> Fixed, value |-> -3] >>]
PushNone == [name |-> "push", size |-> 4, sign |-> "", args |-> <<>>]
Ncall == [name |-> "ncall", size |-> 0, sign |-> "", key |-> 9]
Return == [name |-> "ret", size |-> 0, sign |-> "", args |-> <<>>]
Fcall(target) == [name |-> "fcall", size |-> 0, sign |-> "", target |-> target]
NoKind == [name |-> "pop", size |-> 1, sign |-> "", args |-> << [kind |-> Empty] >>]

Pool == {MovByte, AddWord, PushByte, PushNone, Ncall, Fcall("@f(u8)"), Fcall("@g()"),
         Fcall("@main()"), Fcall("@gone()"), [label |-> "loop"], NoKind}

Bodies == {<<>>} \cup { <<l>> : l \in Pool } \cup { <<k, l>> : k \in Pool, l \in Pool }

Main(body, scope) ==
    [name |-> "@main()", scope |-> scope, args |-> 0, ret |-> 0, lines |-> body]
F(scope) ==
    [name |-> "@f(u8)", scope |-> scope, args |-> 1, ret |-> 4,
     lines |-> << [label |-> "loop"], AddWord, Fcall("@g()"), Return >>]
G(body, scope) ==
    [name |-> "@g()", scope |-> scope, args |-> 6, ret |-> 1, lines |-> body]

Orders == {<<1, 2, 3>>, <<1, 3, 2>>, <<2, 1, 3>>, <<2, 3, 1>>, <<3, 1, 2>>, <<3, 2, 1>>}

MCPrograms ==
    { {Main(b, o[1]), F(o[2]), G(<<Return>>, o[3])} : b \in Bodies, o \in Orders }
        \cup { {F(1)} }

=============================================================================
