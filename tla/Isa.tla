-------------------------------- MODULE Isa --------------------------------
(***************************************************************************)
(* What the translator and the virtual machine share: the sizes of words,  *)
(* instruction codes and registers, how numbers lie in memory, the kinds of*)
(* operands and the table of instruction codes.                            *)
(*                                                                         *)
(* The sizes are parameters.  The code has Byte = 256, Word = 8,           *)
(* InstSize = 4, RegistersSize = 256, operand sizes 1, 2, 4 and 8, and the *)
(* code ranges 0x100, 0x140 and 0x180 with a stride of 0x10.               *)
(***************************************************************************)
EXTENDS Integers, Sequences

CONSTANTS Byte,           \* values of a byte
          Word,           \* bytes of a machine word and of an address
          InstSize,       \* bytes of an instruction code
          RegistersSize,  \* bytes of the register file
          OperandSizes,   \* sequence of the operand sizes, in bytes
          SizeCodes,      \* first code of mov, push, ..., shr
          UnsignedCodes,  \* first code of add, ..., cmp on unsigned operands
          SignedCodes,    \* first code of add, ..., neg on signed operands
          CodeStride      \* codes from one operand size to the next

ASSUME IsaConstants ==
    /\ Byte \in Nat /\ Byte >= 64 /\ Byte % 64 = 0
    /\ Word \in Nat \ {0} /\ InstSize \in 2 .. Word
    /\ RegistersSize \in Nat /\ RegistersSize >= 11 * Word
    /\ OperandSizes \in Seq(1 .. Word)
    /\ {SizeCodes, UnsignedCodes, SignedCodes, CodeStride} \subseteq Nat

-----------------------------------------------------------------------------
(* Numbers in memory, a sequence of bytes: least significant byte first. *)

Powers(b, n) ==
    LET power[k \in 0 .. n] == IF k = 0 THEN 1 ELSE b * power[k - 1]
    IN power

TwoTo(n) == Powers(2, n)[n]
Span(n) == Powers(Byte, n)[n]            \* values of n bytes

Words == 0 .. Span(Word) - 1

\* The k-th byte (from 0) of v; a negative v in two's complement.
Part(v, k) == (v \div Span(k)) % Byte
Little(v, n) == [k \in 1 .. n |-> Part(v, k - 1)]

\* The n bytes at address a of m, as a number: Uppers has the numbers the
\* upper 0, 1, ..., n of them make.  Addresses count from 0.
Uppers(m, a, n) ==
    LET upper[k \in 0 .. n] ==
            IF k = 0 THEN 0 ELSE m[a + n - k + 1] + Byte * upper[k - 1]
    IN upper

Value(m, a, n) == Uppers(m, a, n)[n]

\* Memory, or bytecode, with bytes written at address a.
Write(m, a, bytes) ==
    SubSeq(m, 1, a) \o bytes \o SubSeq(m, a + Len(bytes) + 1, Len(m))

Put(m, a, n, v) == Write(m, a, Little(v, n))

\* v, n bytes wide, read as a signed number.
Signed(v, n) == IF 2 * v < Span(n) THEN v ELSE v - Span(n)

-----------------------------------------------------------------------------
(* Registers, flags and operand kinds. *)

AX == 0
BX == Word
CX == 2 * Word
DX == 3 * Word
IP == 6 * Word
BP == 7 * Word
SP == 8 * Word
FLAGS == 9 * Word
GP == 10 * Word

RF == 0
ZF == 3
SF == 4

Empty == 0
Relative == 1
RelativeWithDiff == 2
Fixed == 3

\* Bytes an operand of size n takes in the code.
Width(kind, n) ==
    CASE kind = Empty            -> 0
      [] kind = Relative         -> Word
      [] kind = RelativeWithDiff -> 2 * Word
      [] kind = Fixed            -> n

-----------------------------------------------------------------------------
(* Instruction codes. *)

\* The machine's table: instructions by the place they have in their range.
SystemNames == <<"halt", "ncall", "fcall", "ret">>
SizeNames == <<"mov", "push", "pop", "not", "and", "or", "xor", "shl", "shr">>
TypeNames == <<"add", "sub", "mul", "div", "mod", "cmp">>
SignedNames == Append(TypeNames, "neg")

CodesFrom(first, names, sign) ==
    { [name |-> names[i], size |-> OperandSizes[k], sign |-> sign,
       code |-> first + (k - 1) * CodeStride + i - 1] :
         i \in DOMAIN names, k \in DOMAIN OperandSizes }

Instructions ==
    { [name |-> SystemNames[i], size |-> 0, sign |-> "", code |-> i - 1] :
         i \in DOMAIN SystemNames }
        \cup CodesFrom(SizeCodes, SizeNames, "")
        \cup CodesFrom(UnsignedCodes, TypeNames, "u")
        \cup CodesFrom(SignedCodes, SignedNames, "i")

InstructionOf(code) == CHOOSE i \in Instructions : i.code = code

\* The compiler's table, written down a second time: it has no neg.
SystemIds == [halt |-> 0, ncall |-> 1, fcall |-> 2, ret |-> 3]
SizeIds == [mov |-> 0, push |-> 1, pop |-> 2, not |-> 3, and |-> 4, or |-> 5,
            xor |-> 6, shl |-> 7, shr |-> 8]
TypeIds == [add |-> 0, sub |-> 1, mul |-> 2, div |-> 3, mod |-> 4, cmp |-> 5]

InfosFrom(first, ids, sign) ==
    { [name |-> n, size |-> OperandSizes[k], sign |-> sign,
       code |-> first + (k - 1) * CodeStride + ids[n]] :
         n \in DOMAIN ids, k \in DOMAIN OperandSizes }

InstInfos ==
    { [name |-> n, size |-> 0, sign |-> "", code |-> SystemIds[n]] : n \in DOMAIN SystemIds }
        \cup InfosFrom(SizeCodes, SizeIds, "")
        \cup InfosFrom(UnsignedCodes, TypeIds, "u")
        \cup InfosFrom(SignedCodes, TypeIds, "i")

\* The least and the greatest number of operands.
Arity(name) ==
    CASE name = "halt"                         -> <<0, 0>>
      [] name \in {"ncall", "fcall"}           -> <<1, 1>>
      [] name \in {"ret", "push", "pop", "not"} -> <<0, 1>>
      [] name \in {"mov", "cmp"}               -> <<2, 2>>
      [] OTHER                                 -> <<2, 3>>

CodeOf(name, size, sign) ==
    (CHOOSE i \in InstInfos : i.name = name /\ i.size = size /\ i.sign = sign).code

\* Codes leave the last byte of an instruction to the kinds of its operands.
ASSUME CodesFit ==
    /\ \A i, j \in Instructions : i.code = j.code => i = j
    /\ \A i \in Instructions : i.code \in 0 .. Span(InstSize - 1) - 1
=============================================================================
