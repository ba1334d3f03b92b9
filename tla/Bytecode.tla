------------------------------ MODULE Bytecode ------------------------------
(***************************************************************************)
(* From the functions of a parsed program to bytecode.                     *)
(*                                                                         *)
(* A function is a record [name, scope, args, ret, lines]: its full name,  *)
(* its scope id, the bytes of its arguments and of its result, and a       *)
(* sequence of lines.  A line is a label [label] or an instruction         *)
(* [name, size, sign, args], whose operands are records [kind, base, value]*)
(* with the address of a variable and a number.  The operand of fcall is   *)
(* the [target] name, that of ncall the [key] of a native function.        *)
(*                                                                         *)
(* Offsets in the bytecode count from 0.                                   *)
(***************************************************************************)
EXTENDS Isa, FiniteSets

\* What Op makes of base along the first 0, 1, ..., Len(s) elements of s.
Running(Op(_, _), base, s) ==
    LET upTo[k \in 0 .. Len(s)] == IF k = 0 THEN base ELSE Op(upTo[k - 1], s[k])
    IN upTo

IsLabel(line) == "label" \in DOMAIN line

-----------------------------------------------------------------------------
(* One instruction. *)

\* Mutant of OperandBytes: a one-byte literal is not reduced to a byte.
WholeLiteral(arg, size) ==
    CASE arg.kind = Relative         -> Little(arg.base, Word)
      [] arg.kind = Fixed            -> IF size = 1 THEN <<arg.value>> ELSE Little(arg.value, size)
      [] arg.kind = RelativeWithDiff -> Little(arg.base, Word) \o Little(arg.value, Word)
      [] OTHER                       -> <<>>

OperandBytes(arg, size) ==
    CASE arg.kind = Relative         -> Little(arg.base, Word)
      [] arg.kind = Fixed            -> Little(arg.value, size)
      [] arg.kind = RelativeWithDiff -> Little(arg.base, Word) \o Little(arg.value, Word)
      [] OTHER                       -> <<>>

\* An instruction has up to three operands.
ArgKind(args, k) == IF k \in DOMAIN args THEN args[k].kind ELSE Empty

\* Mutant of Mask: the last kind lowest.
ReversedMask(args) == 16 * ArgKind(args, 1) + 4 * ArgKind(args, 2) + ArgKind(args, 3)

\* The kinds of the operands, two bits each, the first one lowest.
Mask(args) == ArgKind(args, 1) + 4 * ArgKind(args, 2) + 16 * ArgKind(args, 3)

\* The mask lies in the last byte of the code.
CodeBytes(inst, mask) ==
    Little(CodeOf(inst.name, inst.size, inst.sign) + mask * Span(InstSize - 1), InstSize)

ArgBytes(inst, k) ==
    IF k \in DOMAIN inst.args THEN OperandBytes(inst.args[k], inst.size) ELSE <<>>

InstBytes(inst) ==
    CASE inst.name = "fcall" -> CodeBytes(inst, 0) \o Little(0, Word)
      [] inst.name = "ncall" -> CodeBytes(inst, 0) \o Little(inst.key, Word)
      [] OTHER -> CodeBytes(inst, Mask(inst.args))
                    \o ArgBytes(inst, 1) \o ArgBytes(inst, 2) \o ArgBytes(inst, 3)

WrongOperand(inst) ==
    /\ inst.name \notin {"fcall", "ncall"}
    /\ \E k \in DOMAIN inst.args : inst.args[k].kind = Empty

-----------------------------------------------------------------------------
(* The whole program. *)

\* emplace keeps the entry a name already has.
Emplace(map, name, offset) ==
    IF name \in DOMAIN map THEN map
    ELSE [n \in DOMAIN map \cup {name} |-> IF n = name THEN offset ELSE map[n]]

AddLine(acc, line) ==
    IF IsLabel(line)
    THEN [acc EXCEPT !.labels = Emplace(@, line.label, Len(acc.bytes))]
    ELSE [acc EXCEPT
            !.bytes  = @ \o InstBytes(line),
            !.starts = @ \cup {Len(acc.bytes)},
            !.hints  = IF line.name = "fcall"
                       THEN Append(@, [name   |-> line.target,
                                       offset |-> Len(acc.bytes) + InstSize])
                       ELSE @]

\* Mutant of AddHeader: the two words swapped.
SwappedHeader(acc, f) ==
    [acc EXCEPT !.bytes  = @ \o Little(f.ret, Word) \o Little(f.args, Word),
                !.labels = Emplace(@, f.name, Len(acc.bytes) + 2 * Word)]

\* A function is preceded by the sizes of its arguments and of its result.
AddHeader(acc, f) ==
    [acc EXCEPT !.bytes  = @ \o Little(f.args, Word) \o Little(f.ret, Word),
                !.labels = Emplace(@, f.name, Len(acc.bytes) + 2 * Word)]

AddFunction(acc, f) == Running(AddLine, AddHeader(acc, f), f.lines)[Len(f.lines)]

\* starts are the offsets of the instructions: for the properties only.
NoLayout == [bytes |-> <<>>, labels |-> <<>>, hints |-> <<>>, starts |-> {}]

\* The functions of fs, which have different scopes, as a sequence.
InOrder(fs) ==
    CHOOSE s \in [1 .. Cardinality(fs) -> fs] :
        /\ \A f \in fs : \E i \in DOMAIN s : s[i] = f
        /\ \A i, j \in DOMAIN s : i < j => s[i].scope < s[j].scope

Layout(fs) == Running(AddFunction, NoLayout, InOrder(fs))[Cardinality(fs)]

\* A name no label has reads as 0.
Offset(labels, name) == IF name \in DOMAIN labels THEN labels[name] ELSE 0

\* Mutants of Linked: main at its loaded address, which exec computes itself;
\* the targets of calls as offsets, which fcall takes for addresses.
MainLoaded(layout) ==
    LET patch(bytes, h) ==
            Put(bytes, h.offset, Word, Offset(layout.labels, h.name) + RegistersSize)
        entered == Put(layout.bytes, 0, Word, layout.labels["@main()"] + RegistersSize)
    IN Running(patch, entered, layout.hints)[Len(layout.hints)]
CallsUnloaded(layout) ==
    LET patch(bytes, h) == Put(bytes, h.offset, Word, Offset(layout.labels, h.name))
        entered == Put(layout.bytes, 0, Word, layout.labels["@main()"])
    IN Running(patch, entered, layout.hints)[Len(layout.hints)]

\* The offset of main replaces the first word; every fcall gets the address
\* its target will be loaded at.
Linked(layout) ==
    LET patch(bytes, h) ==
            Put(bytes, h.offset, Word, Offset(layout.labels, h.name) + RegistersSize)
        entered == Put(layout.bytes, 0, Word, layout.labels["@main()"])
    IN Running(patch, entered, layout.hints)[Len(layout.hints)]

Throws(fs) ==
    \/ \E f \in fs : \E k \in DOMAIN f.lines :
         ~IsLabel(f.lines[k]) /\ WrongOperand(f.lines[k])
    \/ "@main()" \notin DOMAIN Layout(fs).labels
=============================================================================
