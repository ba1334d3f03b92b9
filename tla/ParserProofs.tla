---------------------------- MODULE ParserProofs ----------------------------
(***************************************************************************)
(* Proofs about the parser, for all instructions, types and registers, and *)
(* all programs it is given one after the other: as long as a program is   *)
(* one it can take, it stays in step with the tokens, accepts them, hands  *)
(* over what the program means, and no declaration changes what an operand *)
(* it has read stands for.                                                 *)
(*                                                                         *)
(* The invariant ties the place of the parser, the layers of names and the *)
(* functions so far to the item and the line of the program it is at.  Each*)
(* kind of item and line has a lemma for the tokens it becomes, one for the*)
(* action that reads them, and one for what is kept behind it.             *)
(***************************************************************************)
EXTENDS Parser, WellFoundedInduction, TLAPS

-----------------------------------------------------------------------------
(* Induction and recursion, as in TranslatorProofs.                        *)

(***************************************************************************)
(* A set of numbers that holds 0 and the successor of each of its elements *)
(* holds all natural numbers.                                              *)
(***************************************************************************)
LEMMA SetInduction ==
    ASSUME NEW S, 0 \in S, \A n \in Nat : n \in S => n + 1 \in S
    PROVE  Nat \subseteq S
<1> DEFINE T == Nat \ S
           R == {p \in Nat \X Nat : p[1] < p[2]}
<1>1. IsWellFoundedOn(R, Nat)
  BY NatLessThanWellFounded DEF OpToRel
<1>2. SUFFICES ASSUME T # {} PROVE FALSE
  OBVIOUS
<1>3. PICK x \in T : \A y \in T : ~(<<y, x>> \in R)
  <2>1. T \subseteq Nat
    OBVIOUS
  <2> HIDE DEF T, R
  <2> QED BY <1>1, <1>2, <2>1, WFMin
<1>4. x # 0 /\ x \in Nat /\ x - 1 \in Nat
  BY <1>3
<1>5. x - 1 \in T
  BY <1>4, <1>3
<1>6. <<x - 1, x>> \in R
  BY <1>4
<1> QED
  BY <1>3, <1>5, <1>6

(***************************************************************************)
(* A set of natural numbers that is not empty has a least element.         *)
(***************************************************************************)
LEMMA LeastElement ==
    ASSUME NEW T \in SUBSET Nat, T # {}
    PROVE  \E x \in T : \A y \in T : x <= y
<1> DEFINE R == {p \in Nat \X Nat : p[1] < p[2]}
<1>1. IsWellFoundedOn(R, Nat)
  BY NatLessThanWellFounded DEF OpToRel
<1>2. PICK x \in T : \A y \in T : ~(<<y, x>> \in R)
  <2> HIDE DEF R
  <2> QED BY <1>1, WFMin
<1>3. ASSUME NEW y \in T PROVE x <= y
  <2>1. x \in Nat /\ y \in Nat
    OBVIOUS
  <2>2. y < x => <<y, x>> \in R
    BY <2>1
  <2> HIDE DEF R
  <2> QED BY <1>2, <2>1, <2>2
<1> QED
  BY <1>3

-----------------------------------------------------------------------------
\* g is what step makes of base along s, within V.
Runs(g, V, base, step, s) ==
    /\ g \in [0 .. Len(s) -> V]
    /\ g[0] = base
    /\ \A k \in 1 .. Len(s) : g[k] = step[<<g[k - 1], s[k]>>]

(***************************************************************************)
(* Every step that stays in a set can be taken along any sequence.         *)
(***************************************************************************)
LEMMA Recursion ==
    ASSUME NEW E, NEW s \in Seq(E), NEW V, NEW base \in V, NEW step \in [V \X E -> V]
    PROVE  \E g : Runs(g, V, base, step, s)
<1> DEFINE Upto(g, m) == /\ g \in [0 .. m -> V]
                         /\ g[0] = base
                         /\ \A k \in 1 .. m : g[k] = step[<<g[k - 1], s[k]>>]
           S == {m \in Nat : m <= Len(s) => \E g : Upto(g, m)}
<1>1. \E g : Upto(g, 0)
  <2> DEFINE h == [k \in 0 .. 0 |-> base]
  <2>1. h \in [0 .. 0 -> V] /\ h[0] = base
    OBVIOUS
  <2> HIDE DEF h
  <2>2. Upto(h, 0)
    BY <2>1
  <2> QED BY <2>2
<1>2. ASSUME NEW m \in Nat, m + 1 <= Len(s), NEW g, Upto(g, m)
      PROVE  \E h : Upto(h, m + 1)
  <2> DEFINE h == [k \in 0 .. m + 1 |-> IF k = m + 1 THEN step[<<g[m], s[m + 1]>>] ELSE g[k]]
  <2>1. s[m + 1] \in E /\ m \in 0 .. m /\ step[<<g[m], s[m + 1]>>] \in V
    BY <1>2
  <2>2. h \in [0 .. m + 1 -> V]
    BY <2>1, <1>2
  <2>3. h[m + 1] = step[<<g[m], s[m + 1]>>] /\ \A k \in 0 .. m : h[k] = g[k]
    BY <2>1
  <2> HIDE DEF h
  <2>4. Upto(h, m + 1)
    <3>1. h[0] = base
      BY <2>3, <1>2
    <3>2. ASSUME NEW k \in 1 .. m + 1 PROVE h[k] = step[<<h[k - 1], s[k]>>]
      <4>1. CASE k = m + 1
        BY <4>1, <2>3
      <4>2. CASE k \in 1 .. m
        BY <4>2, <2>3, <1>2
      <4> QED BY <4>1, <4>2
    <3> QED BY <2>2, <3>1, <3>2
  <2> QED BY <2>4
<1>3. Len(s) \in S
  <2> HIDE DEF Upto
  <2>1. 0 \in S /\ \A m \in Nat : m \in S => m + 1 \in S
    BY <1>1, <1>2
  <2> HIDE DEF S
  <2> QED BY <2>1, SetInduction
<1> QED
  BY <1>3 DEF Runs

-----------------------------------------------------------------------------
(* Sequences behind one another. *)

\* t stands in s, behind the first a elements.
Lies(s, a, t) ==
    a + Len(t) <= Len(s) /\ \A j \in 1 .. Len(t) : s[a + j] = t[j]

LEMMA ConcatElements ==
    ASSUME NEW E, NEW s \in Seq(E), NEW t \in Seq(E)
    PROVE  /\ s \o t \in Seq(E) /\ Len(s \o t) = Len(s) + Len(t)
           /\ \A i \in 1 .. Len(s) : (s \o t)[i] = s[i]
           /\ \A i \in 1 .. Len(t) : (s \o t)[Len(s) + i] = t[i]
OBVIOUS

LEMMA ConcatLies ==
    ASSUME NEW E, NEW s \in Seq(E), NEW t \in Seq(E)
    PROVE  Lies(s \o t, 0, s) /\ Lies(s \o t, Len(s), t)
<1> DEFINE st == s \o t
<1>1. /\ Len(st) = Len(s) + Len(t)
      /\ \A i \in 1 .. Len(s) : st[i] = s[i]
      /\ \A i \in 1 .. Len(t) : st[Len(s) + i] = t[i]
  BY ConcatElements
<1>2. Len(s) \in Nat /\ Len(t) \in Nat
  OBVIOUS
<1> HIDE DEF st
<1>3. Lies(st, 0, s)
  BY <1>1, <1>2 DEF Lies
<1>4. Lies(st, Len(s), t)
  BY <1>1, <1>2 DEF Lies
<1> QED
  BY <1>3, <1>4 DEF st

LEMMA LiesThrough ==
    ASSUME NEW s, NEW t, NEW u, Len(s) \in Nat, Len(t) \in Nat, Len(u) \in Nat,
           NEW a \in Nat, NEW b \in Nat, Lies(s, a, t), Lies(t, b, u)
    PROVE  Lies(s, a + b, u)
<1>1. a + Len(t) <= Len(s) /\ \A j \in 1 .. Len(t) : s[a + j] = t[j]
  BY DEF Lies
<1>2. b + Len(u) <= Len(t) /\ \A j \in 1 .. Len(u) : t[b + j] = u[j]
  BY DEF Lies
<1>3. ASSUME NEW j \in 1 .. Len(u) PROVE s[(a + b) + j] = u[j]
  <2>1. b + j \in 1 .. Len(t) /\ (a + b) + j = a + (b + j)
    BY <1>2
  <2>2. s[a + (b + j)] = t[b + j]
    BY <1>1, <2>1
  <2> QED BY <1>2, <2>1, <2>2
<1>4. (a + b) + Len(u) <= Len(s)
  BY <1>1, <1>2
<1> QED
  BY <1>3, <1>4 DEF Lies

(***************************************************************************)
(* What is joined of seqs grows by one of them at a time.                  *)
(***************************************************************************)
Grows(seqs, E) ==
    /\ Joins(seqs) \in [0 .. Len(seqs) -> Seq(E)]
    /\ Joins(seqs)[0] = <<>>
    /\ \A k \in 1 .. Len(seqs) : Joins(seqs)[k] = Joins(seqs)[k - 1] \o seqs[k]

LEMMA JoinsGrow ==
    ASSUME NEW E, NEW seqs \in Seq(Seq(E))
    PROVE  Grows(seqs, E)
<1> DEFINE V == Seq(E)
           n == Len(seqs)
           cat(p, q) == p \o q
           step == [p \in V \X V |-> cat(p[1], p[2])]
           Eq(f) == f = [k \in 0 .. n |-> IF k = 0 THEN <<>> ELSE cat(f[k - 1], seqs[k])]
           none == <<>>
<1>1. n \in Nat /\ none \in V
  OBVIOUS
<1>2. \A p, q \in V : cat(p, q) \in V
  OBVIOUS
<1>3. seqs \in Seq(V) /\ \A k \in 1 .. n : seqs[k] \in V
  OBVIOUS
<1> HIDE DEF V, cat
<1>4. step \in [V \X V -> V] /\ \A p, q \in V : step[<<p, q>>] = cat(p, q)
  BY <1>2
<1> HIDE DEF step, none
<1>5. PICK g : Runs(g, V, none, step, seqs)
  BY <1>1, <1>3, <1>4, Recursion
<1>6. /\ g \in [0 .. n -> V] /\ g[0] = none
      /\ \A k \in 1 .. n : g[k] = step[<<g[k - 1], seqs[k]>>]
  BY <1>5 DEF Runs
<1> HIDE DEF n
<1>7. ASSUME NEW k \in 1 .. n PROVE g[k] = cat(g[k - 1], seqs[k])
  <2>1. k - 1 \in 0 .. n
    BY <1>1
  <2>2. g[k - 1] \in V /\ seqs[k] \in V
    BY <1>3, <1>6, <2>1
  <2> QED BY <1>4, <1>6, <2>2
<1>8. [k \in 0 .. n |-> g[k]] = [k \in 0 .. n |-> IF k = 0 THEN none ELSE cat(g[k - 1], seqs[k])]
  <2>1. ASSUME NEW k \in 0 .. n
        PROVE  g[k] = IF k = 0 THEN none ELSE cat(g[k - 1], seqs[k])
    <3>1. k = 0 \/ k \in 1 .. n
      BY <1>1
    <3> QED BY <1>6, <1>7, <3>1
  <2> QED BY <2>1, Zenon
<1>9. \E f : Eq(f)
  <2>1. g = [k \in 0 .. n |-> g[k]]
    BY <1>6
  <2> QED BY <1>8, <2>1, Zenon DEF none
<1> DEFINE j == Joins(seqs)
<1>10. j = [k \in 0 .. n |-> IF k = 0 THEN none ELSE cat(j[k - 1], seqs[k])]
  <2>1. Eq(j)
    BY <1>9, Zenon DEF Joins, n, cat
  <2> QED BY <2>1, Zenon DEF none
<1> HIDE DEF j
<1>11. j[0] = none /\ \A k \in 1 .. n : j[k] = cat(j[k - 1], seqs[k])
  <2>1. \A k \in 0 .. n : j[k] = IF k = 0 THEN none ELSE cat(j[k - 1], seqs[k])
    BY <1>10, Zenon
  <2> QED BY <1>1, <2>1
<1>12. \A k \in 0 .. n : j[k] \in V
  <2> DEFINE S == {k \in Nat : k <= n => j[k] \in V}
  <2>1. 0 \in S
    BY <1>1, <1>11
  <2>2. ASSUME NEW k \in Nat, k \in S PROVE k + 1 \in S
    <3>1. CASE k + 1 <= n
      <4>1. k + 1 \in 1 .. n /\ (k + 1) - 1 = k /\ k <= n
        BY <1>1, <3>1
      <4>2. j[k] \in V /\ seqs[k + 1] \in V
        BY <1>3, <2>2, <4>1
      <4>3. j[k + 1] = cat(j[k], seqs[k + 1])
        BY <1>11, <4>1
      <4> QED BY <1>2, <4>2, <4>3
    <3> QED BY <3>1, <1>1
  <2>3. Nat \subseteq S
    <3> HIDE DEF S
    <3> QED BY <2>1, <2>2, SetInduction
  <2> QED BY <2>3, <1>1
<1>13. j \in [0 .. n -> V]
  <2>1. j = [k \in 0 .. n |-> j[k]]
    BY <1>10
  <2> QED BY <1>12, <2>1
<1> QED
  BY <1>11, <1>13, Zenon DEF j, n, V, Grows, cat, none

(***************************************************************************)
(* Where what was joined stands: behind what was joined before it.         *)
(***************************************************************************)
Pieces(seqs, E) ==
    /\ Joined(seqs) \in Seq(E)
    /\ Joins(seqs)[0] = <<>> /\ Len(Joins(seqs)[0]) = 0
    /\ Joins(seqs)[Len(seqs)] = Joined(seqs)
    /\ \A k \in 0 .. Len(seqs) :
          /\ Joins(seqs)[k] \in Seq(E)
          /\ Len(Joins(seqs)[k]) \in 0 .. Len(Joined(seqs))
    /\ \A k \in 1 .. Len(seqs) :
          /\ Joins(seqs)[k] = Joins(seqs)[k - 1] \o seqs[k]
          /\ Len(Joins(seqs)[k]) = Len(Joins(seqs)[k - 1]) + Len(seqs[k])
          /\ Lies(Joined(seqs), Len(Joins(seqs)[k - 1]), seqs[k])

LEMMA JoinedPieces ==
    ASSUME NEW E, NEW seqs \in Seq(Seq(E))
    PROVE  Pieces(seqs, E)
<1> DEFINE n == Len(seqs)
           j == Joins(seqs)
<1>0. n \in Nat /\ \A k \in 1 .. n : seqs[k] \in Seq(E)
  OBVIOUS
<1>1. /\ j \in [0 .. n -> Seq(E)] /\ j[0] = <<>>
      /\ \A k \in 1 .. n : j[k] = j[k - 1] \o seqs[k]
  BY JoinsGrow, Zenon DEF Grows
<1>2. j[n] = Joined(seqs)
  BY DEF Joined
<1> HIDE DEF j, n
<1>3. \A k \in 0 .. n : j[k] \in Seq(E) /\ Len(j[k]) \in Nat
  BY <1>1
<1>4. Len(j[0]) = 0
  BY <1>1
<1>5. ASSUME NEW k \in 1 .. n
      PROVE  /\ Len(j[k]) = Len(j[k - 1]) + Len(seqs[k])
             /\ Lies(j[k], 0, j[k - 1]) /\ Lies(j[k], Len(j[k - 1]), seqs[k])
  <2>1. k - 1 \in 0 .. n
    BY <1>0
  <2>2. j[k - 1] \in Seq(E) /\ seqs[k] \in Seq(E)
    BY <1>0, <1>3, <2>1
  <2>3. j[k] = j[k - 1] \o seqs[k]
    BY <1>1
  <2> DEFINE a == j[k - 1]
             b == seqs[k]
  <2> HIDE DEF a, b
  <2>4. a \in Seq(E) /\ b \in Seq(E) /\ j[k] = a \o b
    BY <2>2, <2>3 DEF a, b
  <2>5. Len(a \o b) = Len(a) + Len(b) /\ Lies(a \o b, 0, a) /\ Lies(a \o b, Len(a), b)
    BY <2>4, ConcatLies, ConcatElements
  <2> QED BY <2>4, <2>5, Zenon DEF a, b
<1>6. \A m \in 0 .. n : \A k \in 0 .. m : Lies(j[m], 0, j[k])
  <2> DEFINE S == {m \in Nat : m <= n => \A k \in 0 .. m : Lies(j[m], 0, j[k])}
  <2>0. \A m \in 0 .. n : Lies(j[m], 0, j[m])
    BY <1>3 DEF Lies
  <2>1. 0 \in S
    BY <1>0, <2>0
  <2>2. ASSUME NEW m \in Nat, m \in S PROVE m + 1 \in S
    <3> SUFFICES ASSUME m + 1 <= n, NEW k \in 0 .. m + 1 PROVE Lies(j[m + 1], 0, j[k])
      OBVIOUS
    <3>1. m + 1 \in 1 .. n /\ m + 1 \in 0 .. n /\ m \in 0 .. n /\ (m + 1) - 1 = m
      BY <1>0
    <3>2. CASE k = m + 1
      BY <2>0, <3>1, <3>2
    <3>3. CASE k \in 0 .. m
      <4>1. Lies(j[m], 0, j[k])
        BY <2>2, <3>1, <3>3
      <4>2. Lies(j[m + 1], 0, j[m])
        BY <1>5, <3>1
      <4>3. Len(j[m + 1]) \in Nat /\ Len(j[m]) \in Nat /\ Len(j[k]) \in Nat
        BY <1>3, <3>1
      <4> DEFINE x == j[m + 1]
                 y == j[m]
                 z == j[k]
      <4> HIDE DEF x, y, z
      <4>4. Lies(x, 0, y) /\ Lies(y, 0, z) /\ Len(x) \in Nat /\ Len(y) \in Nat /\ Len(z) \in Nat
        BY <4>1, <4>2, <4>3 DEF x, y, z
      <4>5. Lies(x, 0 + 0, z)
        BY <4>4, LiesThrough
      <4> QED BY <4>5 DEF x, z
    <3> QED BY <3>1, <3>2, <3>3
  <2>3. Nat \subseteq S
    <3> HIDE DEF S
    <3> QED BY <2>1, <2>2, SetInduction
  <2> QED BY <2>3, <1>0
<1>7. n \in 0 .. n
  BY <1>0
<1>8. ASSUME NEW k \in 1 .. n PROVE Lies(j[n], Len(j[k - 1]), seqs[k])
  <2>1. k \in 0 .. n /\ k - 1 \in 0 .. n
    BY <1>0
  <2>2. Lies(j[n], 0, j[k]) /\ Lies(j[k], Len(j[k - 1]), seqs[k])
    BY <1>5, <1>6, <1>7, <2>1
  <2>3. /\ Len(j[n]) \in Nat /\ Len(j[k]) \in Nat /\ Len(j[k - 1]) \in Nat
        /\ Len(seqs[k]) \in Nat
    BY <1>0, <1>3, <1>7, <2>1
  <2> DEFINE x == j[n]
             y == j[k]
             z == seqs[k]
             b == Len(j[k - 1])
  <2> HIDE DEF x, y, z, b
  <2>4. /\ Lies(x, 0, y) /\ Lies(y, b, z) /\ b \in Nat
        /\ Len(x) \in Nat /\ Len(y) \in Nat /\ Len(z) \in Nat
    BY <2>2, <2>3 DEF x, y, z, b
  <2>5. Lies(x, 0 + b, z) /\ 0 + b = b
    BY <2>4, LiesThrough
  <2> QED BY <2>5 DEF x, z, b
<1>9. ASSUME NEW k \in 0 .. n PROVE Len(j[k]) \in 0 .. Len(j[n])
  <2>1. Lies(j[n], 0, j[k])
    BY <1>6, <1>7
  <2> QED BY <1>3, <1>7, <2>1 DEF Lies
<1> QED
  BY <1>1, <1>2, <1>3, <1>4, <1>5, <1>7, <1>8, <1>9, Zenon DEF Pieces, j, n

-----------------------------------------------------------------------------
(* The tokens of a program. *)

Texts == STRING \cup Signs \cup {"Id", "Number", "fcall", "ncall"}
Toks == [type : Texts, lit : Texts, num : Int]

LEMMA TokenTypes ==
    /\ \A c \in Texts : Mark(c) \in Toks /\ Ident(c) \in Toks
    /\ \A n \in Int : Number(n) \in Toks
    /\ \A d \in Int : Sign(d) \in Toks /\ Amount(d) \in Toks
<1>0. "Id" \in Texts /\ "Number" \in Texts /\ "" \in Texts /\ "+" \in Texts /\ "-" \in Texts
  BY DEF Texts, Signs
<1> DEFINE id == "Id"
<1> HIDE DEF id
<1>1. ASSUME NEW c \in Texts PROVE Mark(c) \in Toks /\ Ident(c) \in Toks
  <2>1. id \in Texts
    BY <1>0, Zenon DEF id
  <2>2. [type |-> id, lit |-> c, num |-> 0] \in Toks /\ [type |-> c, lit |-> c, num |-> 0] \in Toks
    BY <2>1 DEF Toks
  <2> QED BY <2>2, Zenon DEF Mark, Ident, id
<1>2. \A n \in Int : Number(n) \in Toks
  BY <1>0, Zenon DEF Number, Toks
<1>3. ASSUME NEW d \in Int PROVE Sign(d) \in Toks /\ Amount(d) \in Toks
  <2>1. Sign(d) \in Toks
    BY <1>0, <1>1, Zenon DEF Sign
  <2>2. (IF d < 0 THEN -d ELSE d) \in Int
    OBVIOUS
  <2> QED BY <1>2, <2>1, <2>2 DEF Amount
<1> QED
  BY <1>1, <1>2, <1>3

\* The fields of a record of the syntax.
LEMMA OperandFields ==
    /\ \A a \in [num : Nat] :
          Has(a, "num") /\ ~Has(a, "field") /\ ~Has(a, "diff") /\ a.num \in Nat /\ a.num \in Int
    /\ \A a \in [name : STRING] :
          /\ ~Has(a, "num") /\ ~Has(a, "field") /\ ~Has(a, "diff") /\ Has(a, "name")
          /\ a.name \in STRING
    /\ \A a \in [name : STRING, field : STRING] :
          /\ ~Has(a, "num") /\ Has(a, "field") /\ ~Has(a, "diff")
          /\ a.name \in STRING /\ a.field \in STRING
    /\ \A a \in [name : STRING, diff : Int] :
          /\ ~Has(a, "num") /\ ~Has(a, "field") /\ Has(a, "diff") /\ Has(a, "name")
          /\ a.name \in STRING /\ a.diff \in Int
BY DEF Has

LEMMA LineFields ==
    /\ \A l \in [label : STRING] :
          /\ Has(l, "label") /\ ~Has(l, "call") /\ ~Has(l, "inst") /\ ~Has(l, "base")
          /\ ~Has(l, "var") /\ l.label \in STRING
    /\ \A l \in [call : {"fcall", "ncall"}, callee : Seq(STRING)] :
          /\ ~Has(l, "label") /\ Has(l, "call") /\ ~Has(l, "inst") /\ ~Has(l, "base")
          /\ ~Has(l, "var")
          /\ l.call \in {"fcall", "ncall"} /\ l.callee \in Seq(STRING)
    /\ \A l \in [inst : STRING, args : Seq(Operands)] :
          /\ ~Has(l, "label") /\ ~Has(l, "call") /\ Has(l, "inst") /\ ~Has(l, "base")
          /\ ~Has(l, "var")
          /\ l.inst \in STRING /\ l.args \in Seq(Operands)
    /\ \A l \in [var : STRING, type : STRING] :
          /\ ~Has(l, "label") /\ ~Has(l, "call") /\ ~Has(l, "inst") /\ ~Has(l, "base")
          /\ Has(l, "var") /\ l.var \in STRING /\ l.type \in STRING
    /\ \A l \in [var : STRING, type : STRING, base : STRING, diff : Int] :
          /\ ~Has(l, "label") /\ ~Has(l, "call") /\ ~Has(l, "inst") /\ Has(l, "base")
          /\ Has(l, "var") /\ l.var \in STRING /\ l.type \in STRING
          /\ l.base \in STRING /\ l.diff \in Int
BY DEF Has

\* The tokens of an operand, of the four kinds there are.
LEMMA OperandTokensAre ==
    /\ \A a \in [num : Nat] : OperandTokens(a) = <<Number(a.num)>>
    /\ \A a \in [name : STRING] : OperandTokens(a) = <<Mark("%"), Ident(a.name)>>
    /\ \A a \in [name : STRING, field : STRING] :
          OperandTokens(a) = <<Mark("%"), Ident(a.name), Mark("."), Ident(a.field)>>
    /\ \A a \in [name : STRING, diff : Int] :
          OperandTokens(a) =
             IF a.diff = 0 THEN <<Mark("["), Mark("%"), Ident(a.name), Mark("]")>>
             ELSE <<Mark("["), Mark("%"), Ident(a.name), Sign(a.diff), Amount(a.diff), Mark("]")>>
<1>1. ASSUME NEW a \in [num : Nat] PROVE OperandTokens(a) = <<Number(a.num)>>
  <2>1. Has(a, "num") /\ ~Has(a, "field") /\ ~Has(a, "diff")
    BY OperandFields
  <2> QED BY <2>1, Zenon DEF OperandTokens
<1>2. ASSUME NEW a \in [name : STRING] PROVE OperandTokens(a) = <<Mark("%"), Ident(a.name)>>
  <2>1. ~Has(a, "num") /\ ~Has(a, "field") /\ ~Has(a, "diff")
    BY OperandFields
  <2> QED BY <2>1, Zenon DEF OperandTokens
<1>3. ASSUME NEW a \in [name : STRING, field : STRING]
      PROVE  OperandTokens(a) = <<Mark("%"), Ident(a.name), Mark("."), Ident(a.field)>>
  <2>1. ~Has(a, "num") /\ Has(a, "field") /\ ~Has(a, "diff")
    BY OperandFields
  <2> QED BY <2>1, Zenon DEF OperandTokens
<1>4. ASSUME NEW a \in [name : STRING, diff : Int]
      PROVE  OperandTokens(a) =
                IF a.diff = 0 THEN <<Mark("["), Mark("%"), Ident(a.name), Mark("]")>>
                ELSE <<Mark("["), Mark("%"), Ident(a.name), Sign(a.diff), Amount(a.diff), Mark("]")>>
  <2>1. ~Has(a, "num") /\ ~Has(a, "field") /\ Has(a, "diff")
    BY OperandFields
  <2> QED BY <2>1, Zenon DEF OperandTokens
<1> QED
  BY <1>1, <1>2, <1>3, <1>4, Zenon

LEMMA OperandTokensType ==
    ASSUME NEW a \in Operands
    PROVE  OperandTokens(a) \in Seq(Toks) /\ Len(OperandTokens(a)) \in 1 .. 6
<1>0. "%" \in Texts /\ "." \in Texts /\ "[" \in Texts /\ "]" \in Texts /\ STRING \subseteq Texts
  BY Zenon DEF Texts, Signs
<1>1. CASE a \in [num : Nat]
  <2>1. OperandTokens(a) = <<Number(a.num)>> /\ Number(a.num) \in Toks
    BY <1>1, OperandFields, OperandTokensAre, TokenTypes
  <2> QED BY <2>1
<1>2. CASE a \in [name : STRING]
  <2>1. /\ OperandTokens(a) = <<Mark("%"), Ident(a.name)>>
        /\ Mark("%") \in Toks /\ Ident(a.name) \in Toks
    BY <1>0, <1>2, OperandFields, OperandTokensAre, TokenTypes
  <2> QED BY <2>1
<1>3. CASE a \in [name : STRING, field : STRING]
  <2>1. /\ OperandTokens(a) = <<Mark("%"), Ident(a.name), Mark("."), Ident(a.field)>>
        /\ Mark("%") \in Toks /\ Ident(a.name) \in Toks
        /\ Mark(".") \in Toks /\ Ident(a.field) \in Toks
    BY <1>0, <1>3, OperandFields, OperandTokensAre, TokenTypes
  <2> QED BY <2>1
<1>4. CASE a \in [name : STRING, diff : Int]
  <2>1. /\ Mark("%") \in Toks /\ Ident(a.name) \in Toks /\ Mark("[") \in Toks /\ Mark("]") \in Toks
        /\ Sign(a.diff) \in Toks /\ Amount(a.diff) \in Toks
    BY <1>0, <1>4, OperandFields, TokenTypes
  <2>2. \/ OperandTokens(a) = <<Mark("["), Mark("%"), Ident(a.name), Mark("]")>>
        \/ OperandTokens(a) =
              <<Mark("["), Mark("%"), Ident(a.name), Sign(a.diff), Amount(a.diff), Mark("]")>>
    BY <1>4, OperandTokensAre
  <2>3. CASE OperandTokens(a) = <<Mark("["), Mark("%"), Ident(a.name), Mark("]")>>
    BY <2>1, <2>3
  <2>4. CASE OperandTokens(a) =
              <<Mark("["), Mark("%"), Ident(a.name), Sign(a.diff), Amount(a.diff), Mark("]")>>
    BY <2>1, <2>4
  <2> QED BY <2>2, <2>3, <2>4
<1> QED
  BY <1>1, <1>2, <1>3, <1>4 DEF Operands

LEMMA ListedType ==
    ASSUME NEW seqs \in Seq(Seq(Toks))
    PROVE  /\ Separated(seqs) \in Seq(Seq(Toks)) /\ Len(Separated(seqs)) = Len(seqs)
           /\ \A k \in 1 .. Len(seqs) :
                 Separated(seqs)[k] = IF k = 1 THEN seqs[k] ELSE <<Mark(",")>> \o seqs[k]
           /\ Listed(seqs) \in Seq(Toks)
           /\ Pieces(Separated(seqs), Toks)
<1> DEFINE V == Seq(Toks)
           n == Len(seqs)
           part(k) == IF k = 1 THEN seqs[k] ELSE <<Mark(",")>> \o seqs[k]
           s == [k \in 1 .. n |-> part(k)]
<1>1. n \in Nat /\ DOMAIN seqs = 1 .. n /\ \A k \in 1 .. n : seqs[k] \in Seq(Toks)
  OBVIOUS
<1>2. ASSUME NEW k \in 1 .. n PROVE part(k) \in V
  <2>1. Mark(",") \in Toks
    BY TokenTypes, Zenon DEF Texts, Signs
  <2>2. <<Mark(",")>> \in Seq(Toks) /\ seqs[k] \in Seq(Toks)
    <3> DEFINE comma == Mark(",")
    <3>1. comma \in Toks
      BY <2>1, Zenon
    <3> HIDE DEF comma
    <3>2. <<comma>> \in Seq(Toks)
      BY <3>1
    <3> QED BY <1>1, <3>2, Zenon DEF comma
  <2>3. <<Mark(",")>> \o seqs[k] \in Seq(Toks)
    BY <2>2, ConcatElements, Zenon
  <2> QED BY <2>2, <2>3, Zenon
<1> HIDE DEF n, V, part
<1>3. s \in Seq(V) /\ Len(s) = n /\ \A k \in 1 .. n : s[k] = part(k)
  BY <1>1, <1>2
<1>4. Separated(seqs) = s
  BY <1>1, Zenon DEF Separated, part
<1> HIDE DEF s
<1>5. s \in Seq(Seq(Toks))
  BY <1>3 DEF V
<1>6. Pieces(s, Toks)
  BY <1>5, JoinedPieces
<1>7. Joined(s) \in Seq(Toks)
  BY <1>6, Zenon DEF Pieces
<1> QED
  BY <1>3, <1>4, <1>5, <1>6, <1>7, Zenon DEF n, part, Listed

LEMMA OperandsListed ==
    ASSUME NEW args \in Seq(Operands)
    PROVE  /\ [k \in DOMAIN args |-> OperandTokens(args[k])] \in Seq(Seq(Toks))
           /\ Len([k \in DOMAIN args |-> OperandTokens(args[k])]) = Len(args)
<1>1. \A k \in 1 .. Len(args) : OperandTokens(args[k]) \in Seq(Toks)
  BY OperandTokensType
<1> QED
  BY <1>1

\* A name and a list behind it, and what ends the line.
Frames(w, a, s, c) ==
    /\ Len(w) = Len(s) + 2 /\ w[1] = a
    /\ \A k \in 1 .. Len(s) : w[k + 1] = s[k]
    /\ w[Len(s) + 2] = c

LEMMA Framed ==
    ASSUME NEW E, NEW a \in E, NEW s \in Seq(E), NEW c \in E
    PROVE  <<a>> \o s \o <<c>> \in Seq(E) /\ Frames(<<a>> \o s \o <<c>>, a, s, c)
<1> DEFINE x == <<a>>
           y == x \o s
           z == <<c>>
<1>1. x \in Seq(E) /\ Len(x) = 1 /\ x[1] = a /\ z \in Seq(E) /\ Len(z) = 1 /\ z[1] = c
  OBVIOUS
<1> HIDE DEF x, z
<1>2. /\ y \in Seq(E) /\ Len(y) = Len(x) + Len(s)
      /\ \A i \in 1 .. Len(x) : y[i] = x[i]
      /\ \A i \in 1 .. Len(s) : y[Len(x) + i] = s[i]
  BY <1>1, ConcatElements
<1> HIDE DEF y
<1>0. y \in Seq(E) /\ z \in Seq(E)
  BY <1>1, <1>2
<1>3. /\ y \o z \in Seq(E) /\ Len(y \o z) = Len(y) + Len(z)
      /\ \A i \in 1 .. Len(y) : (y \o z)[i] = y[i]
      /\ \A i \in 1 .. Len(z) : (y \o z)[Len(y) + i] = z[i]
  BY <1>0, ConcatElements
<1> DEFINE w == y \o z
<1> HIDE DEF w
<1>4. Len(s) \in Nat
  OBVIOUS
<1>5. w \in Seq(E) /\ Len(w) = Len(s) + 2
  BY <1>1, <1>2, <1>3, <1>4 DEF w
<1>6. w[1] = a /\ w[Len(s) + 2] = c
  <2>1. Len(y) = Len(s) + 1 /\ 1 \in 1 .. Len(y) /\ 1 \in 1 .. Len(x) /\ 1 \in 1 .. Len(z)
        /\ Len(y) + 1 = Len(s) + 2
    BY <1>1, <1>2, <1>4
  <2>2. w[1] = y[1] /\ y[1] = x[1] /\ w[Len(y) + 1] = z[1]
    BY <1>2, <1>3, <2>1 DEF w
  <2> QED BY <1>1, <2>1, <2>2
<1>7. ASSUME NEW k \in 1 .. Len(s) PROVE w[k + 1] = s[k]
  <2>1. Len(x) + k = k + 1 /\ k + 1 \in 1 .. Len(y)
    BY <1>1, <1>2, <1>4
  <2>2. y[Len(x) + k] = s[k] /\ w[k + 1] = y[k + 1]
    BY <1>2, <1>3, <2>1 DEF w
  <2> QED BY <2>1, <2>2
<1> QED
  BY <1>5, <1>6, <1>7, Zenon DEF w, x, y, z, Frames

LEMMA LineOfThree ==
    ASSUME NEW a \in Toks, NEW s \in Seq(Toks), NEW c \in Toks
    PROVE  /\ <<a>> \o s \o <<c>> \in Seq(Toks)
           /\ Len(<<a>> \o s \o <<c>>) = Len(s) + 2
           /\ (<<a>> \o s \o <<c>>)[1] = a
           /\ \A k \in 1 .. Len(s) : (<<a>> \o s \o <<c>>)[k + 1] = s[k]
           /\ (<<a>> \o s \o <<c>>)[Len(s) + 2] = c
<1> DEFINE w == <<a>> \o s \o <<c>>
<1>1. w \in Seq(Toks) /\ Frames(w, a, s, c)
  BY Framed, Zenon
<1> HIDE DEF w
<1>2. /\ w \in Seq(Toks) /\ Len(w) = Len(s) + 2 /\ w[1] = a
      /\ \A k \in 1 .. Len(s) : w[k + 1] = s[k]
      /\ w[Len(s) + 2] = c
  BY <1>1, Zenon DEF Frames
<1> QED
  BY <1>2, Zenon DEF w

-----------------------------------------------------------------------------
(* Tokens the parser sees: an instruction's name is marked, the rest is as it *)
(* was.                                                                      *)

LEMMA MarkedTypes ==
    /\ \A c \in Signs : MarkedToken(Mark(c)) = Mark(c)
    /\ \A n : MarkedToken(Number(n)) = Number(n)
    /\ \A w : MarkedToken(Ident(w)).lit = w /\ MarkedToken(Ident(w)).num = 0
    /\ \A w : w \notin DOMAIN Insts => MarkedToken(Ident(w)) = Ident(w)
    /\ \A w : w \in DOMAIN Insts => MarkedToken(Ident(w)).type = "Inst"
<1>1. \A c \in Signs : c \notin DOMAIN Insts
  BY AmasmConstants
<1>2. "" \in Signs
  BY DEF Signs
<1>3. \A c \in Signs : MarkedToken(Mark(c)) = Mark(c)
  BY <1>1 DEF MarkedToken, Mark
<1>4. \A n : MarkedToken(Number(n)) = Number(n)
  BY <1>1, <1>2, Zenon DEF MarkedToken, Number
<1>5. \A w : MarkedToken(Ident(w)).lit = w /\ MarkedToken(Ident(w)).num = 0
  BY DEF MarkedToken, Ident
<1>6. \A w : w \notin DOMAIN Insts => MarkedToken(Ident(w)) = Ident(w)
  BY DEF MarkedToken, Ident
<1>7. \A w : w \in DOMAIN Insts => MarkedToken(Ident(w)).type = "Inst"
  BY DEF MarkedToken, Ident
<1> QED
  BY <1>3, <1>4, <1>5, <1>6, <1>7

LEMMA TokenParts ==
    /\ \A c : Mark(c).type = c /\ Mark(c).lit = c
    /\ \A w : Ident(w).type = "Id" /\ Ident(w).lit = w
    /\ \A n : Number(n).type = "Number" /\ Number(n).lit = "" /\ Number(n).num = n
BY DEF Mark, Ident, Number

\* part stands at k, as the parser sees it.
Stands(k, part) ==
    /\ k + Len(part) <= Len(tokens) + 1
    /\ \A j \in 1 .. Len(part) : Tok(k + (j - 1)) = MarkedToken(part[j])

LEMMA NoFaults ==
    ASSUME NEW faults, \A k \in DOMAIN faults : faults[k] = ""
    PROVE  FirstOf(faults) = ""
BY Zenon DEF FirstOf

\* What the rules ask of the tokens from k on.
LEMMA Rules ==
    ASSUME NEW k \in Nat
    PROVE  /\ Match(Direct, k) <=> Is(k, "%") /\ Is(k + 1, "Id")
           /\ Match(IndirectRule, k) <=> Is(k, "[") /\ Is(k + 1, "%") /\ Is(k + 2, "Id")
           /\ Match(StructDefine, k) <=> Is(k, "struct") /\ Is(k + 1, "Id") /\ Is(k + 2, "{")
           /\ Match(LabelDefine, k) <=> Is(k, "label") /\ Is(k + 1, "Id") /\ Is(k + 2, ":")
           /\ Match(FuncDefine, k) <=>
                 Is(k, "func") /\ Is(k + 1, "@") /\ Is(k + 2, "Id") /\ Is(k + 3, "(")
           /\ Match(VarDefine, k) <=>
                 /\ Is(k, "var") /\ Is(k + 1, "%") /\ Is(k + 2, "Id") /\ Is(k + 3, ":")
                 /\ Is(k + 4, "Id")
<1>2. /\ k + 1 - 1 = k /\ k + 2 - 1 = k + 1 /\ k + 3 - 1 = k + 2
      /\ k + 4 - 1 = k + 3 /\ k + 5 - 1 = k + 4
  OBVIOUS
<1>4. /\ DOMAIN Direct = 1 .. 2 /\ DOMAIN IndirectRule = 1 .. 3 /\ DOMAIN StructDefine = 1 .. 3
      /\ DOMAIN LabelDefine = 1 .. 3 /\ DOMAIN FuncDefine = 1 .. 4 /\ DOMAIN VarDefine = 1 .. 5
  BY DEF Direct, IndirectRule, StructDefine, LabelDefine, FuncDefine, VarDefine
<1>5. /\ Direct[1] = "%" /\ Direct[2] = "Id"
      /\ IndirectRule[1] = "[" /\ IndirectRule[2] = "%" /\ IndirectRule[3] = "Id"
      /\ StructDefine[1] = "struct" /\ StructDefine[2] = "Id" /\ StructDefine[3] = "{"
      /\ LabelDefine[1] = "label" /\ LabelDefine[2] = "Id" /\ LabelDefine[3] = ":"
      /\ FuncDefine[1] = "func" /\ FuncDefine[2] = "@" /\ FuncDefine[3] = "Id" /\ FuncDefine[4] = "("
      /\ VarDefine[1] = "var" /\ VarDefine[2] = "%" /\ VarDefine[3] = "Id" /\ VarDefine[4] = ":"
      /\ VarDefine[5] = "Id"
  BY DEF Direct, IndirectRule, StructDefine, LabelDefine, FuncDefine, VarDefine
<1>6. Match(Direct, k) <=> Is(k, "%") /\ Is(k + 1, "Id")
  <2>1. Match(Direct, k) <=> Is(k + 1 - 1, Direct[1]) /\ Is(k + 2 - 1, Direct[2])
    BY <1>4 DEF Match
  <2> QED BY <1>2, <1>5, <2>1, Zenon
<1>7. Match(IndirectRule, k) <=> Is(k, "[") /\ Is(k + 1, "%") /\ Is(k + 2, "Id")
  <2>1. Match(IndirectRule, k) <=> /\ Is(k + 1 - 1, IndirectRule[1]) /\ Is(k + 2 - 1, IndirectRule[2])
                                   /\ Is(k + 3 - 1, IndirectRule[3])
    BY <1>4 DEF Match
  <2> QED BY <1>2, <1>5, <2>1, Zenon
<1>8. Match(StructDefine, k) <=> Is(k, "struct") /\ Is(k + 1, "Id") /\ Is(k + 2, "{")
  <2>1. Match(StructDefine, k) <=> /\ Is(k + 1 - 1, StructDefine[1]) /\ Is(k + 2 - 1, StructDefine[2])
                                   /\ Is(k + 3 - 1, StructDefine[3])
    BY <1>4 DEF Match
  <2> QED BY <1>2, <1>5, <2>1, Zenon
<1>9. Match(LabelDefine, k) <=> Is(k, "label") /\ Is(k + 1, "Id") /\ Is(k + 2, ":")
  <2>1. Match(LabelDefine, k) <=> /\ Is(k + 1 - 1, LabelDefine[1]) /\ Is(k + 2 - 1, LabelDefine[2])
                                  /\ Is(k + 3 - 1, LabelDefine[3])
    BY <1>4 DEF Match
  <2> QED BY <1>2, <1>5, <2>1, Zenon
<1>10. Match(FuncDefine, k) <=>
          Is(k, "func") /\ Is(k + 1, "@") /\ Is(k + 2, "Id") /\ Is(k + 3, "(")
  <2>1. Match(FuncDefine, k) <=> /\ Is(k + 1 - 1, FuncDefine[1]) /\ Is(k + 2 - 1, FuncDefine[2])
                                 /\ Is(k + 3 - 1, FuncDefine[3]) /\ Is(k + 4 - 1, FuncDefine[4])
    BY <1>4 DEF Match
  <2> QED BY <1>2, <1>5, <2>1, Zenon
<1>11. Match(VarDefine, k) <=>
                 /\ Is(k, "var") /\ Is(k + 1, "%") /\ Is(k + 2, "Id") /\ Is(k + 3, ":")
                 /\ Is(k + 4, "Id")
  <2>1. Match(VarDefine, k) <=> /\ Is(k + 1 - 1, VarDefine[1]) /\ Is(k + 2 - 1, VarDefine[2])
                                /\ Is(k + 3 - 1, VarDefine[3]) /\ Is(k + 4 - 1, VarDefine[4])
                                /\ Is(k + 5 - 1, VarDefine[5])
    BY <1>4 DEF Match
  <2> QED BY <1>2, <1>5, <2>1, Zenon
<1> QED
  BY <1>6, <1>7, <1>8, <1>9, <1>10, <1>11, Zenon

LEMMA LabelStep ==
    ASSUME Label, NEW w, pos \in Nat,
           Tok(pos).type = "label", Tok(pos + 1).type = "Id", Tok(pos + 2).type = ":",
           Tok(pos + 1).lit = w
    PROVE  /\ AddLine([label |-> w]) /\ pos' = pos + 3
           /\ UNCHANGED <<program, tokens, layers, functions, status, parsed, parses>>
<1>1. Match(LabelDefine, pos)
  BY Rules, Zenon DEF Is
<1>2. Throws(~Match(LabelDefine, pos)) = ""
  BY <1>1 DEF Throws
<1>3. AddLine([label |-> w])
  BY <1>1 DEF Label
<1> QED
  BY <1>2, <1>3, Zenon DEF Label, Outcome

LEMMA NextToken ==
    ASSUME NEW k \in Nat, NEW type, NEW close, close \in k .. Len(tokens), Len(tokens) \in Nat,
           Is(close, type), \A n \in k .. close - 1 : ~Is(n, type)
    PROVE  Next1(type, k) = close
<1> DEFINE found == { n \in k .. Len(tokens) : Is(n, type) }
<1>1. close \in found /\ \A m \in found : close <= m /\ m \in Nat
  OBVIOUS
<1> HIDE DEF found
<1>2. \A n \in found : (\A m \in found : n <= m) => n = close
  BY <1>1
<1>3. (CHOOSE n \in found : \A m \in found : n <= m) = close
  BY <1>1, <1>2
<1>4. found # {}
  BY <1>1
<1> QED
  BY <1>3, <1>4, Zenon DEF Next1, found

LEMMA CallTokensType ==
    ASSUME NEW callee \in Seq(STRING)
    PROVE  /\ CallTokens(callee) \in Seq(Toks) /\ Len(CallTokens(callee)) = Len(callee)
           /\ \A k \in 1 .. Len(callee) :
                 /\ MarkedToken(CallTokens(callee)[k]).lit = callee[k]
                 /\ MarkedToken(CallTokens(callee)[k]).type # ";"
<1> DEFINE marks == {"@", "(", ")", ","}
           word(k) == IF callee[k] \in marks THEN Mark(callee[k]) ELSE Ident(callee[k])
<1>0. marks \subseteq Signs /\ marks \subseteq Texts /\ STRING \subseteq Texts
  BY Zenon DEF Texts, Signs
<1>1. ASSUME NEW k \in 1 .. Len(callee)
      PROVE  word(k) \in Toks /\ MarkedToken(word(k)).lit = callee[k] /\ MarkedToken(word(k)).type # ";"
  <2>1. CASE callee[k] \in marks
    <3>1. word(k) = Mark(callee[k]) /\ word(k) \in Toks
      BY <1>0, <2>1, TokenTypes, Zenon
    <3>2. MarkedToken(word(k)) = Mark(callee[k])
      BY <1>0, <2>1, <3>1, MarkedTypes, Zenon
    <3>3. callee[k] # ";"
      BY <2>1, Zenon
    <3>4. Mark(callee[k]).type = callee[k] /\ Mark(callee[k]).lit = callee[k]
      BY TokenParts, Zenon
    <3> QED BY <3>1, <3>2, <3>3, <3>4, Zenon
  <2>2. CASE callee[k] \notin marks
    <3>1. callee[k] \in Texts
      <4>1. callee[k] \in STRING
        OBVIOUS
      <4> QED BY <1>0, <4>1, Zenon
    <3>2. word(k) = Ident(callee[k]) /\ word(k) \in Toks
      BY <2>2, <3>1, TokenTypes, Zenon
    <3>3. MarkedToken(Ident(callee[k])).lit = callee[k]
      BY MarkedTypes
    <3>4. MarkedToken(Ident(callee[k])).type \in {"Id", "Inst"}
      <4>1. CASE callee[k] \in DOMAIN Insts
        <5>1. MarkedToken(Ident(callee[k])).type = "Inst"
          BY <4>1, MarkedTypes
        <5> QED BY <5>1
      <4>2. CASE callee[k] \notin DOMAIN Insts
        <5>1. MarkedToken(Ident(callee[k])) = Ident(callee[k])
          BY <4>2, MarkedTypes
        <5>2. Ident(callee[k]).type = "Id"
          BY TokenParts, Zenon
        <5> QED BY <5>1, <5>2
      <4> QED BY <4>1, <4>2
    <3> QED BY <3>2, <3>3, <3>4, Zenon
  <2> QED BY <2>1, <2>2, Zenon
<1>2. CallTokens(callee) = [k \in DOMAIN callee |-> word(k)]
  BY DEF CallTokens
<1>3. DOMAIN callee = 1 .. Len(callee) /\ Len(callee) \in Nat
  OBVIOUS
<1> HIDE DEF word
<1>4. \A k \in 1 .. Len(callee) : CallTokens(callee)[k] = word(k)
  BY <1>2, <1>3
<1>5. CallTokens(callee) \in Seq(Toks) /\ Len(CallTokens(callee)) = Len(callee)
  <2> DEFINE f == [k \in 1 .. Len(callee) |-> word(k)]
             n == Len(callee)
  <2>0. n \in Nat /\ \A k \in 1 .. n : word(k) \in Toks
    BY <1>1, <1>3, Zenon
  <2> HIDE DEF n
  <2>1. f \in Seq(Toks) /\ Len(f) = Len(callee)
    BY <2>0 DEF n
  <2>2. f = CallTokens(callee)
    BY <1>2, <1>3, Zenon
  <2> QED BY <2>1, <2>2, Zenon
<1> QED
  BY <1>1, <1>4, <1>5, Zenon

\* The tokens of a call and of an instruction.
LEMMA CallLine ==
    ASSUME NEW line \in [call : {"fcall", "ncall"}, callee : Seq(STRING)]
    PROVE  /\ LineTokens(line) \in Seq(Toks)
           /\ Len(LineTokens(line)) = Len(line.callee) + 2
           /\ LineTokens(line)[1] = Ident(line.call)
           /\ \A k \in 1 .. Len(line.callee) : LineTokens(line)[k + 1] = CallTokens(line.callee)[k]
           /\ LineTokens(line)[Len(line.callee) + 2] = Mark(";")
<1>1. ~Has(line, "label") /\ Has(line, "call") /\ ~Has(line, "inst") /\ ~Has(line, "base")
      /\ line.call \in {"fcall", "ncall"}
      /\ line.callee \in Seq(STRING)
  BY LineFields
<1> DEFINE end == Mark(";")
           head == Ident(line.call)
<1>2. LineTokens(line) = <<head>> \o CallTokens(line.callee) \o <<end>>
  <2> DEFINE label == <<Mark("label"), Ident(line.label), Mark(":")>>
             call == <<Ident(line.call)>> \o CallTokens(line.callee) \o End
  <2>1. LineTokens(line) = call
    BY <1>1, Zenon DEF LineTokens
  <2> QED BY <2>1, Zenon DEF End
<1>3. head \in Toks /\ end \in Toks
  <2>1. line.call \in Texts /\ ";" \in Texts
    BY <1>1, Zenon DEF Texts, Signs
  <2> QED BY <2>1, TokenTypes, Zenon
<1>4. CallTokens(line.callee) \in Seq(Toks) /\ Len(CallTokens(line.callee)) = Len(line.callee)
  BY <1>1, CallTokensType, Zenon
<1> DEFINE mid == CallTokens(line.callee)
<1> HIDE DEF head, end, mid
<1>5. mid \in Seq(Toks) /\ Len(mid) = Len(line.callee)
  BY <1>4 DEF mid
<1>6. /\ <<head>> \o mid \o <<end>> \in Seq(Toks)
      /\ Len(<<head>> \o mid \o <<end>>) = Len(mid) + 2
      /\ (<<head>> \o mid \o <<end>>)[1] = head
      /\ \A k \in 1 .. Len(mid) : (<<head>> \o mid \o <<end>>)[k + 1] = mid[k]
      /\ (<<head>> \o mid \o <<end>>)[Len(mid) + 2] = end
  BY <1>3, <1>5, LineOfThree
<1> DEFINE all == <<head>> \o mid \o <<end>>
<1> HIDE DEF all
<1>7. /\ all \in Seq(Toks) /\ Len(all) = Len(mid) + 2 /\ all[1] = head
      /\ \A k \in 1 .. Len(mid) : all[k + 1] = mid[k]
      /\ all[Len(mid) + 2] = end
  BY <1>6, Zenon DEF all
<1>8. LineTokens(line) = all
  BY <1>2 DEF all, mid
<1> QED
  BY <1>5, <1>7, <1>8, Zenon DEF head, end, mid

EndsAt(k) == Is(k, ";")

\* The n words behind pos, none of which ends the line.
WordsAre(callee, n) ==
    \A k \in 1 .. n : Tok(pos + k).lit = callee[k] /\ ~EndsAt(pos + k)

LEMMA CallTokensStep ==
    ASSUME Call, NEW w, w \in {"fcall", "ncall"}, NEW n \in Nat,
           NEW callee, callee = [k \in 1 .. n |-> callee[k]],
           pos \in Nat, Len(tokens) \in Nat, pos + (n + 1) <= Len(tokens),
           Tok(pos).lit = w, EndsAt(pos + (n + 1)),
           WordsAre(callee, n)
    PROVE  /\ AddLine([call |-> w, callee |-> callee])
           /\ pos' = pos + (n + 2)
           /\ UNCHANGED <<program, tokens, layers, functions, status, parsed, parses>>
<1> DEFINE close == pos + (n + 1)
<1>1. Next1(";", pos + 1) = close
  <2>1. close \in pos + 1 .. Len(tokens) /\ pos + 1 \in Nat
    OBVIOUS
  <2>2. \A m \in pos + 1 .. close - 1 : ~EndsAt(m)
    <3> SUFFICES ASSUME NEW m \in pos + 1 .. close - 1 PROVE ~EndsAt(m)
      OBVIOUS
    <3>1. m - pos \in 1 .. n /\ pos + (m - pos) = m
      OBVIOUS
    <3> QED BY <3>1 DEF WordsAre
  <2> HIDE DEF close
  <2> QED BY <2>1, <2>2, NextToken, Zenon DEF close, EndsAt
<1>2. Op = w
  BY AmasmConstants DEF Op
<1>3. ~(close > Len(tokens)) /\ close - pos - 1 = n /\ close - pos + 1 = n + 2
  OBVIOUS
<1>4. [k \in 1 .. n |-> Tok(pos + k).lit] = callee
  <2>1. [k \in 1 .. n |-> Tok(pos + k).lit] = [k \in 1 .. n |-> callee[k]]
    BY DEF WordsAre
  <2> QED BY <2>1, Zenon
<1> HIDE DEF close
<1>5. /\ AddLine([call |-> Op, callee |-> [k \in 1 .. close - pos - 1 |-> Tok(pos + k).lit]])
      /\ Outcome("", close - pos + 1)
      /\ UNCHANGED <<program, tokens, layers, functions, parsed, parses>>
  BY <1>1, <1>3, Zenon DEF Call
<1>6. AddLine([call |-> w, callee |-> callee])
  BY <1>2, <1>3, <1>4, <1>5, Zenon
<1>7. pos' = pos + (n + 2) /\ UNCHANGED status
  BY <1>3, <1>5 DEF Outcome
<1> QED
  BY <1>5, <1>6, <1>7, Zenon

LEMMA StandsAt ==
    ASSUME NEW k \in Nat, NEW part, NEW n \in Nat, Len(part) = n, Stands(k, part)
    PROVE  /\ k + n <= Len(tokens) + 1
           /\ \A j \in 0 .. n - 1 : Tok(k + j) = MarkedToken(part[j + 1])
<1>1. \A j \in 1 .. n : Tok(k + (j - 1)) = MarkedToken(part[j])
  BY DEF Stands
<1>2. ASSUME NEW j \in 0 .. n - 1 PROVE Tok(k + j) = MarkedToken(part[j + 1])
  <2>1. j + 1 \in 1 .. n /\ (j + 1) - 1 = j
    OBVIOUS
  <2> QED BY <1>1, <2>1
<1> QED
  BY <1>2 DEF Stands

LEMMA CallStep ==
    ASSUME Call, NEW line \in [call : {"fcall", "ncall"}, callee : Seq(STRING)],
           pos \in Nat, Len(tokens) \in Nat, Stands(pos, LineTokens(line))
    PROVE  /\ AddLine([call |-> line.call, callee |-> line.callee])
           /\ pos' = pos + Len(LineTokens(line))
           /\ UNCHANGED <<program, tokens, layers, functions, status, parsed, parses>>
<1> DEFINE ts == LineTokens(line)
           callee == line.callee
           n == Len(callee)
<1>1. /\ Len(ts) = n + 2 /\ ts[1] = Ident(line.call) /\ ts[n + 2] = Mark(";")
      /\ \A k \in 1 .. n : ts[k + 1] = CallTokens(callee)[k]
  BY CallLine, Zenon
<1>2. callee \in Seq(STRING) /\ line.call \in {"fcall", "ncall"}
  BY LineFields
<1>3. n \in Nat /\ callee = [k \in 1 .. n |-> callee[k]]
  BY <1>2
<1>4. Stands(pos, ts)
  OBVIOUS
<1>5. \A k \in 1 .. n : MarkedToken(CallTokens(callee)[k]).lit = callee[k]
                        /\ MarkedToken(CallTokens(callee)[k]).type # ";"
  BY <1>2, CallTokensType, Zenon
<1> HIDE DEF ts, n, callee
<1>6. n + 2 \in Nat /\ Len(ts) = n + 2
  <2>1. n \in Nat
    BY <1>3
  <2>2. Len(ts) = n + 2
    BY <1>1, Zenon
  <2> QED BY <2>1, <2>2
<1>7. pos + (n + 2) <= Len(tokens) + 1 /\ \A j \in 0 .. (n + 2) - 1 : Tok(pos + j) = MarkedToken(ts[j + 1])
  BY <1>4, <1>6, StandsAt
<1>8. /\ 0 \in 0 .. (n + 2) - 1 /\ n + 1 \in 0 .. (n + 2) - 1 /\ pos + 0 = pos /\ 0 + 1 = 1
      /\ (n + 1) + 1 = n + 2 /\ pos + (n + 1) <= Len(tokens)
      /\ \A k \in 1 .. n : k \in 0 .. (n + 2) - 1
  BY <1>3, <1>7
<1>9. Tok(pos).lit = line.call
  <2>1. Tok(pos) = MarkedToken(Ident(line.call))
    BY <1>1, <1>7, <1>8, Zenon
  <2> QED BY <2>1, MarkedTypes
<1>10. WordsAre(callee, n)
  <2>1. ASSUME NEW k \in 1 .. n PROVE Tok(pos + k).lit = callee[k] /\ ~EndsAt(pos + k)
    <3>1. k \in 0 .. (n + 2) - 1
      BY <1>8
    <3>2. Tok(pos + k) = MarkedToken(ts[k + 1])
      BY <1>7, <3>1
    <3>3. ts[k + 1] = CallTokens(callee)[k]
      BY <1>1, Zenon
    <3>4. MarkedToken(CallTokens(callee)[k]).lit = callee[k]
          /\ MarkedToken(CallTokens(callee)[k]).type # ";"
      BY <1>5, Zenon
    <3> QED BY <3>2, <3>3, <3>4, Zenon DEF Is, EndsAt
  <2> QED BY <2>1, Zenon DEF WordsAre
<1>11. EndsAt(pos + (n + 1))
  <2>1. Tok(pos + (n + 1)) = MarkedToken(Mark(";"))
    BY <1>1, <1>7, <1>8, Zenon
  <2>2. ";" \in Signs
    BY DEF Signs
  <2>3. MarkedToken(Mark(";")) = Mark(";") /\ Mark(";").type = ";"
    BY <2>2, MarkedTypes, TokenParts, Zenon
  <2> QED BY <2>1, <2>3, Zenon DEF Is, EndsAt
<1> DEFINE w == line.call
<1> HIDE DEF w
<1>12. w \in {"fcall", "ncall"} /\ Tok(pos).lit = w
  BY <1>2, <1>9 DEF w
<1>13. /\ AddLine([call |-> w, callee |-> callee]) /\ pos' = pos + (n + 2)
       /\ UNCHANGED <<program, tokens, layers, functions, status, parsed, parses>>
  BY <1>3, <1>8, <1>10, <1>11, <1>12, CallTokensStep
<1> QED
  BY <1>6, <1>13, Zenon DEF ts, callee, w

LEMMA SeqElement ==
    ASSUME NEW E, NEW u \in Seq(E)
    PROVE  \A k \in DOMAIN u : u[k] \in E
OBVIOUS

LEMMA FaultsJoin ==
    ASSUME NEW s \in Seq({""}), NEW t \in Seq({""})
    PROVE  s \o t \in Seq({""}) /\ FirstOf(s) = "" /\ FirstOf(s \o t) = ""
<1>1. s \o t \in Seq({""})
  BY ConcatElements, Zenon
<1>2. \A u \in Seq({""}) : FirstOf(u) = ""
  <2>1. ASSUME NEW u \in Seq({""}) PROVE \A k \in DOMAIN u : u[k] = ""
    <3> DEFINE e == ""
    <3>1. u \in Seq({e})
      BY Zenon
    <3> HIDE DEF e
    <3>2. \A k \in DOMAIN u : u[k] \in {e}
      BY <3>1, SeqElement, Zenon
    <3>3. \A k \in DOMAIN u : u[k] = e
      BY <3>2, Zenon
    <3> QED BY <3>3, Zenon DEF e
  <2> QED BY <2>1, NoFaults, Zenon
<1> QED
  BY <1>1, <1>2, Zenon

\* The tokens of a declaration with an address.
LEMMA PlacedLine ==
    ASSUME NEW line \in [var : STRING, type : STRING, base : STRING, diff : Int]
    PROVE  /\ LineTokens(line) \in Seq(Toks) /\ Len(LineTokens(line)) = 13
           /\ LineTokens(line)[1] = Mark("var") /\ LineTokens(line)[2] = Mark("%")
           /\ LineTokens(line)[3] = Ident(line.var) /\ LineTokens(line)[4] = Mark(":")
           /\ LineTokens(line)[5] = Ident(line.type) /\ LineTokens(line)[6] = Mark(",")
           /\ LineTokens(line)[7] = Mark("[") /\ LineTokens(line)[8] = Mark("%")
           /\ LineTokens(line)[9] = Ident(line.base) /\ LineTokens(line)[10] = Sign(line.diff)
           /\ LineTokens(line)[11] = Amount(line.diff) /\ LineTokens(line)[12] = Mark("]")
           /\ LineTokens(line)[13] = Mark(";")
<1>1. /\ ~Has(line, "label") /\ ~Has(line, "call") /\ ~Has(line, "inst") /\ Has(line, "base")
      /\ line.var \in Texts /\ line.type \in Texts /\ line.base \in Texts /\ line.diff \in Int
  BY LineFields DEF Texts
<1>2. LineTokens(line) =
         <<Mark("var"), Mark("%"), Ident(line.var), Mark(":"), Ident(line.type), Mark(","),
           Mark("["), Mark("%"), Ident(line.base), Sign(line.diff), Amount(line.diff),
           Mark("]"), Mark(";")>>
  BY <1>1, Zenon DEF LineTokens
<1>3. /\ Mark("var") \in Toks /\ Mark("%") \in Toks /\ Mark(":") \in Toks /\ Mark(",") \in Toks
      /\ Mark("[") \in Toks /\ Mark("]") \in Toks /\ Mark(";") \in Toks
  BY TokenTypes, Zenon DEF Texts, Signs
<1>4. /\ Ident(line.var) \in Toks /\ Ident(line.type) \in Toks /\ Ident(line.base) \in Toks
      /\ Sign(line.diff) \in Toks /\ Amount(line.diff) \in Toks
  BY <1>1, TokenTypes
<1> DEFINE a == Mark("var")
           b == Mark("%")
           c == Mark(":")
           d == Mark(",")
           e == Mark("[")
           f == Mark("]")
           g == Mark(";")
           v == Ident(line.var)
           t == Ident(line.type)
           r == Ident(line.base)
           s == Sign(line.diff)
           n == Amount(line.diff)
<1>5. /\ a \in Toks /\ b \in Toks /\ c \in Toks /\ d \in Toks /\ e \in Toks /\ f \in Toks
      /\ g \in Toks /\ v \in Toks /\ t \in Toks /\ r \in Toks /\ s \in Toks /\ n \in Toks
  BY <1>3, <1>4, Zenon
<1> HIDE DEF a, b, c, d, e, f, g, v, t, r, s, n
<1> DEFINE all == <<a, b, v, c, t, d, e, b, r, s, n, f, g>>
<1>6. /\ all \in Seq(Toks) /\ Len(all) = 13
      /\ all[1] = a /\ all[2] = b /\ all[3] = v /\ all[4] = c /\ all[5] = t /\ all[6] = d
      /\ all[7] = e /\ all[8] = b /\ all[9] = r /\ all[10] = s /\ all[11] = n /\ all[12] = f
      /\ all[13] = g
  BY <1>5
<1> HIDE DEF all
<1>7. LineTokens(line) = all
  BY <1>2, Zenon DEF all, a, b, c, d, e, f, g, n, r, s, t, v
<1> QED
  BY <1>6, <1>7, Zenon DEF a, b, c, d, e, f, g, v, t, r, s, n

LEMMA BareLine ==
    ASSUME NEW line \in [var : STRING, type : STRING]
    PROVE  /\ LineTokens(line) \in Seq(Toks) /\ Len(LineTokens(line)) = 6
           /\ LineTokens(line)[1] = Mark("var") /\ LineTokens(line)[2] = Mark("%")
           /\ LineTokens(line)[3] = Ident(line.var) /\ LineTokens(line)[4] = Mark(":")
           /\ LineTokens(line)[5] = Ident(line.type) /\ LineTokens(line)[6] = Mark(";")
<1>1. /\ ~Has(line, "label") /\ ~Has(line, "call") /\ ~Has(line, "inst") /\ ~Has(line, "base")
      /\ line.var \in Texts /\ line.type \in Texts
  BY LineFields DEF Texts
<1>2. LineTokens(line) =
         <<Mark("var"), Mark("%"), Ident(line.var), Mark(":"), Ident(line.type), Mark(";")>>
  BY <1>1, Zenon DEF LineTokens
<1>3. /\ Mark("var") \in Toks /\ Mark("%") \in Toks /\ Mark(":") \in Toks /\ Mark(";") \in Toks
  BY TokenTypes, Zenon DEF Texts, Signs
<1>4. Ident(line.var) \in Toks /\ Ident(line.type) \in Toks
  BY <1>1, TokenTypes
<1> DEFINE a == Mark("var")
           b == Mark("%")
           c == Mark(":")
           d == Mark(";")
           v == Ident(line.var)
           t == Ident(line.type)
<1>5. a \in Toks /\ b \in Toks /\ c \in Toks /\ d \in Toks /\ v \in Toks /\ t \in Toks
  BY <1>3, <1>4, Zenon
<1> HIDE DEF a, b, c, d, v, t
<1> DEFINE all == <<a, b, v, c, t, d>>
<1>6. /\ all \in Seq(Toks) /\ Len(all) = 6
      /\ all[1] = a /\ all[2] = b /\ all[3] = v /\ all[4] = c /\ all[5] = t /\ all[6] = d
  BY <1>5
<1> HIDE DEF all
<1>7. LineTokens(line) = all
  BY <1>2, Zenon DEF all, a, b, c, d, t, v
<1> QED
  BY <1>6, <1>7, Zenon DEF a, b, c, d, v, t

LEMMA LabelLine ==
    ASSUME NEW line \in [label : STRING]
    PROVE  /\ LineTokens(line) \in Seq(Toks) /\ Len(LineTokens(line)) = 3
           /\ LineTokens(line)[1] = Mark("label") /\ LineTokens(line)[2] = Ident(line.label)
           /\ LineTokens(line)[3] = Mark(":")
<1>1. /\ Has(line, "label") /\ ~Has(line, "call") /\ ~Has(line, "inst") /\ ~Has(line, "base")
      /\ line.label \in Texts
  BY LineFields DEF Texts
<1>2. LineTokens(line) = <<Mark("label"), Ident(line.label), Mark(":")>>
  BY <1>1, Zenon DEF LineTokens
<1>3. Mark("label") \in Toks /\ Mark(":") \in Toks
  BY TokenTypes, Zenon DEF Texts, Signs
<1>4. Ident(line.label) \in Toks
  BY <1>1, TokenTypes
<1> DEFINE a == Mark("label")
           c == Mark(":")
           v == Ident(line.label)
<1>5. a \in Toks /\ c \in Toks /\ v \in Toks
  BY <1>3, <1>4
<1> HIDE DEF a, c, v
<1> DEFINE all == <<a, v, c>>
<1>6. /\ all \in Seq(Toks) /\ Len(all) = 3
      /\ all[1] = a /\ all[2] = v /\ all[3] = c
  BY <1>5
<1> HIDE DEF all
<1>7. LineTokens(line) = all
  BY <1>2, Zenon DEF all, a, c, v
<1> QED
  BY <1>6, <1>7, Zenon DEF a, c, v

\* What the parser sees of a declaration.
SeesVar(k, var, type) ==
    /\ Tok(k).type = "var" /\ ~IsInst(k)
    /\ Match(VarDefine, k) /\ Tok(k + 2).lit = var /\ Tok(k + 4).lit = type

SeesPlace(k, base, diff) ==
    /\ Is(k + 5, ",") /\ Match(IndirectRule, k + 6) /\ Tok(k + 8).lit = base
    /\ Is(k + 10, "Number")
    /\ diff = IF Is(k + 9, "-") THEN -Tok(k + 10).num ELSE Tok(k + 10).num

LEMMA SignAndAmount ==
    ASSUME NEW d \in Int
    PROVE  /\ MarkedToken(Sign(d)) = Sign(d) /\ MarkedToken(Amount(d)) = Amount(d)
           /\ Amount(d).type = "Number" /\ Sign(d).type \in {"+", "-"}
           /\ d = IF Sign(d).type = "-" THEN -Amount(d).num ELSE Amount(d).num
           /\ Sign(d).type = "+" => d = Amount(d).num
           /\ Sign(d).type = "-" => d = -Amount(d).num
<1>1. "+" \in Signs /\ "-" \in Signs
  BY DEF Signs
<1>2. MarkedToken(Mark("+")) = Mark("+") /\ MarkedToken(Mark("-")) = Mark("-")
  BY <1>1, MarkedTypes
<1>3. Mark("+").type = "+" /\ Mark("-").type = "-"
  BY TokenParts, Zenon
<1>4. CASE d < 0
  <2>1. Sign(d) = Mark("-") /\ Amount(d) = Number(-d)
    BY <1>4 DEF Sign, Amount
  <2>2. MarkedToken(Number(-d)) = Number(-d) /\ Number(-d).num = -d /\ Number(-d).type = "Number"
    BY MarkedTypes, TokenParts, Zenon
  <2>3. d = -(-d)
    OBVIOUS
  <2> QED BY <1>2, <1>3, <2>1, <2>2, <2>3
<1>5. CASE ~(d < 0)
  <2>1. Sign(d) = Mark("+") /\ Amount(d) = Number(d)
    BY <1>5 DEF Sign, Amount
  <2>2. MarkedToken(Number(d)) = Number(d) /\ Number(d).num = d /\ Number(d).type = "Number"
    BY MarkedTypes, TokenParts, Zenon
  <2> QED BY <1>2, <1>3, <2>1, <2>2
<1> QED
  BY <1>4, <1>5

LEMMA IdentSeen ==
    ASSUME NEW w, w \notin DOMAIN Insts, NEW k, Tok(k) = MarkedToken(Ident(w))
    PROVE  Tok(k).lit = w /\ Is(k, "Id") /\ ~IsInst(k)
<1>1. MarkedToken(Ident(w)) = Ident(w)
  BY MarkedTypes
<1>2. Ident(w).type = "Id" /\ Ident(w).lit = w
  BY TokenParts, Zenon
<1> QED
  BY <1>1, <1>2, Zenon DEF Is, IsInst

LEMMA MarkSeen ==
    ASSUME NEW c \in Signs, NEW k, Tok(k) = MarkedToken(Mark(c))
    PROVE  Is(k, c) /\ ~IsInst(k)
<1>1. MarkedToken(Mark(c)) = Mark(c)
  BY MarkedTypes
<1>2. c \notin DOMAIN Insts
  BY AmasmConstants
<1>3. Mark(c).type = c /\ Mark(c).lit = c
  BY TokenParts, Zenon
<1> QED
  BY <1>1, <1>2, <1>3, Zenon DEF Is, IsInst

LEMMA SeenPlaced ==
    ASSUME NEW line \in [var : STRING, type : STRING, base : STRING, diff : Int],
           NEW k \in Nat, Stands(k, LineTokens(line)),
           line.var \notin DOMAIN Insts, line.type \notin DOMAIN Insts,
           line.base \notin DOMAIN Insts
    PROVE  SeesVar(k, line.var, line.type) /\ SeesPlace(k, line.base, line.diff)
<1> DEFINE ts == LineTokens(line)
<1>1. Len(ts) = 13
  BY PlacedLine, Zenon
<1>2. /\ ts[1] = Mark("var") /\ ts[2] = Mark("%") /\ ts[3] = Ident(line.var) /\ ts[4] = Mark(":")
      /\ ts[5] = Ident(line.type) /\ ts[6] = Mark(",") /\ ts[7] = Mark("[") /\ ts[8] = Mark("%")
      /\ ts[9] = Ident(line.base) /\ ts[10] = Sign(line.diff) /\ ts[11] = Amount(line.diff)
  BY PlacedLine, Zenon
<1>3. Stands(k, ts) /\ line.diff \in Int
  BY LineFields
<1> HIDE DEF ts
<1>4. \A j \in 0 .. 13 - 1 : Tok(k + j) = MarkedToken(ts[j + 1])
  BY <1>1, <1>3, StandsAt
<1>5. /\ Tok(k) = MarkedToken(ts[1]) /\ Tok(k + 1) = MarkedToken(ts[2])
      /\ Tok(k + 2) = MarkedToken(ts[3]) /\ Tok(k + 3) = MarkedToken(ts[4])
      /\ Tok(k + 4) = MarkedToken(ts[5]) /\ Tok(k + 5) = MarkedToken(ts[6])
      /\ Tok(k + 6) = MarkedToken(ts[7]) /\ Tok(k + 7) = MarkedToken(ts[8])
      /\ Tok(k + 8) = MarkedToken(ts[9]) /\ Tok(k + 9) = MarkedToken(ts[10])
      /\ Tok(k + 10) = MarkedToken(ts[11])
  <2>1. k + 0 = k
    OBVIOUS
  <2> QED BY <1>4, <2>1
<1>6. "var" \in Signs /\ "%" \in Signs /\ ":" \in Signs /\ "," \in Signs /\ "[" \in Signs
  BY DEF Signs
<1>7. /\ Is(k, "var") /\ ~IsInst(k) /\ Is(k + 1, "%") /\ Is(k + 3, ":") /\ Is(k + 5, ",")
      /\ Is(k + 6, "[") /\ Is(k + 7, "%")
  <2>1. /\ Tok(k) = MarkedToken(Mark("var")) /\ Tok(k + 1) = MarkedToken(Mark("%"))
        /\ Tok(k + 3) = MarkedToken(Mark(":")) /\ Tok(k + 5) = MarkedToken(Mark(","))
        /\ Tok(k + 6) = MarkedToken(Mark("[")) /\ Tok(k + 7) = MarkedToken(Mark("%"))
    BY <1>2, <1>5, Zenon
  <2> QED BY <1>6, <2>1, MarkSeen, Zenon
<1>8. /\ Tok(k + 2).lit = line.var /\ Is(k + 2, "Id")
      /\ Tok(k + 4).lit = line.type /\ Is(k + 4, "Id")
      /\ Tok(k + 8).lit = line.base /\ Is(k + 8, "Id")
  <2>1. /\ Tok(k + 2) = MarkedToken(Ident(line.var)) /\ Tok(k + 4) = MarkedToken(Ident(line.type))
        /\ Tok(k + 8) = MarkedToken(Ident(line.base))
    BY <1>2, <1>5, Zenon
  <2> QED BY <2>1, IdentSeen, Zenon
<1>9. /\ Tok(k + 9) = Sign(line.diff) /\ Tok(k + 10) = Amount(line.diff)
  BY <1>2, <1>3, <1>5, SignAndAmount, Zenon
<1>10. Match(VarDefine, k)
  BY <1>7, <1>8, Rules, Zenon
<1>11. Match(IndirectRule, k + 6)
  <2>1. k + 6 \in Nat /\ (k + 6) + 1 = k + 7 /\ (k + 6) + 2 = k + 8
    OBVIOUS
  <2> QED BY <1>7, <1>8, <2>1, Rules, Zenon
<1>12. SeesVar(k, line.var, line.type)
  BY <1>7, <1>8, <1>10, Zenon DEF SeesVar, Is
<1>13. /\ Is(k + 10, "Number")
       /\ line.diff = IF Is(k + 9, "-") THEN -Tok(k + 10).num ELSE Tok(k + 10).num
  BY <1>3, <1>9, SignAndAmount, Zenon DEF Is
<1> QED
  BY <1>7, <1>8, <1>11, <1>12, <1>13, Zenon DEF SeesPlace

LEMMA SeenBare ==
    ASSUME NEW line \in [var : STRING, type : STRING],
           NEW k \in Nat, Stands(k, LineTokens(line)),
           line.var \notin DOMAIN Insts, line.type \notin DOMAIN Insts
    PROVE  SeesVar(k, line.var, line.type) /\ Is(k + 5, ";")
<1> DEFINE ts == LineTokens(line)
<1>1. Len(ts) = 6
  BY BareLine, Zenon
<1>2. /\ ts[1] = Mark("var") /\ ts[2] = Mark("%") /\ ts[3] = Ident(line.var) /\ ts[4] = Mark(":")
      /\ ts[5] = Ident(line.type) /\ ts[6] = Mark(";")
  BY BareLine, Zenon
<1>3. Stands(k, ts)
  OBVIOUS
<1> HIDE DEF ts
<1>4. \A j \in 0 .. 6 - 1 : Tok(k + j) = MarkedToken(ts[j + 1])
  BY <1>1, <1>3, StandsAt
<1>5. /\ Tok(k) = MarkedToken(ts[1]) /\ Tok(k + 1) = MarkedToken(ts[2])
      /\ Tok(k + 2) = MarkedToken(ts[3]) /\ Tok(k + 3) = MarkedToken(ts[4])
      /\ Tok(k + 4) = MarkedToken(ts[5]) /\ Tok(k + 5) = MarkedToken(ts[6])
  <2>1. k + 0 = k
    OBVIOUS
  <2> QED BY <1>4, <2>1
<1>6. "var" \in Signs /\ "%" \in Signs /\ ":" \in Signs /\ ";" \in Signs
  BY DEF Signs
<1>7. /\ Is(k, "var") /\ ~IsInst(k) /\ Is(k + 1, "%") /\ Is(k + 3, ":") /\ Is(k + 5, ";")
  <2>1. /\ Tok(k) = MarkedToken(Mark("var")) /\ Tok(k + 1) = MarkedToken(Mark("%"))
        /\ Tok(k + 3) = MarkedToken(Mark(":")) /\ Tok(k + 5) = MarkedToken(Mark(";"))
    BY <1>2, <1>5, Zenon
  <2> QED BY <1>6, <2>1, MarkSeen, Zenon
<1>8. /\ Tok(k + 2).lit = line.var /\ Is(k + 2, "Id")
      /\ Tok(k + 4).lit = line.type /\ Is(k + 4, "Id")
  <2>1. /\ Tok(k + 2) = MarkedToken(Ident(line.var)) /\ Tok(k + 4) = MarkedToken(Ident(line.type))
    BY <1>2, <1>5, Zenon
  <2> QED BY <2>1, IdentSeen, Zenon
<1>10. Match(VarDefine, k)
  BY <1>7, <1>8, Rules, Zenon
<1> QED
  BY <1>7, <1>8, <1>10, Zenon DEF SeesVar, Is

-----------------------------------------------------------------------------
(* Declarations. *)

\* A type the context knows, of a size.
KnowsType(name, size) ==
    name \in DOMAIN layers[1] /\ layers[1][name].kind = "type" /\ layers[1][name].size = size

LEMMA TypeKnown ==
    ASSUME NEW k, NEW size, KnowsType(Tok(k).lit, size)
    PROVE  /\ TypeAt(k) = layers[1][Tok(k).lit] /\ TypeAt(k).size = size /\ TypeAt(k).kind = "type"
           /\ TypeFault(k) = ""
<1>1. TypeAt(k) = layers[1][Tok(k).lit]
  <2>1. 0 + 1 = 1
    OBVIOUS
  <2> QED BY <2>1, Zenon DEF TypeAt, Lookup, KnowsType
<1>2. TypeAt(k).size = size /\ TypeAt(k).kind = "type"
  BY <1>1 DEF KnowsType
<1> QED
  BY <1>1, <1>2, Zenon DEF TypeFault, Fault

LEMMA PairIn ==
    ASSUME NEW E, NEW a \in E, NEW b \in E
    PROVE  <<a, b>> \in Seq(E)
OBVIOUS

\* Four faults in two pairs.
LEMMA FourFaults ==
    ASSUME NEW p, NEW q, NEW a, NEW b, NEW c, NEW d, p = <<a, b>>, q = <<c, d>>,
           a = "", b = "", c = "", d = ""
    PROVE  FirstOf(p \o q) = ""
<1> DEFINE e == ""
<1>1. a = e /\ b = e /\ c = e /\ d = e
  BY Zenon
<1> HIDE DEF e
<1>2. p \in Seq({e}) /\ q \in Seq({e})
  <2>1. a \in {e} /\ b \in {e} /\ c \in {e} /\ d \in {e}
    BY <1>1, Zenon
  <2>2. <<a, b>> \in Seq({e}) /\ <<c, d>> \in Seq({e})
    BY <2>1, PairIn, Zenon
  <2> QED BY <2>2, Zenon
<1>3. p \in Seq({""}) /\ q \in Seq({""})
  BY <1>2, Zenon DEF e
<1> QED
  BY <1>3, FaultsJoin, Zenon

WithVar(var, type, base, diff) ==
    Add(layers, open.scope, var, Var(layers[1][type], Address(base, 0, diff, "RelativeWithDiff")))

LEMMA PlacedStep ==
    ASSUME DeclareVariable, NEW var, NEW type, NEW base, NEW diff, NEW size,
           SeesVar(pos, var, type), SeesPlace(pos, base, diff), KnowsType(type, size)
    PROVE  /\ layers' = WithVar(var, type, base, diff)
           /\ pos' = pos + 13
           /\ UNCHANGED <<program, tokens, functions, open, status, parsed, parses>>
<1>1. /\ Match(VarDefine, pos) /\ Tok(pos + 2).lit = var /\ Tok(pos + 4).lit = type
      /\ Is(pos + 5, ",") /\ Match(IndirectRule, pos + 6) /\ Tok(pos + 8).lit = base
      /\ Is(pos + 10, "Number")
      /\ diff = IF Is(pos + 9, "-") THEN -Tok(pos + 10).num ELSE Tok(pos + 10).num
  BY Zenon DEF SeesVar, SeesPlace
<1>2. TypeAt(pos + 4) = layers[1][type] /\ TypeFault(pos + 4) = ""
  BY <1>1, TypeKnown, Zenon
<1>3. /\ Throws(~Match(VarDefine, pos)) = "" /\ Throws(~Match(IndirectRule, pos + 6)) = ""
      /\ Throws(~Is(pos + 10, "Number")) = ""
  BY <1>1, Zenon DEF Throws
<1>4. FirstOf(<<Throws(~Match(VarDefine, pos)), TypeFault(pos + 4)>>
                \o <<Throws(~Match(IndirectRule, pos + 6)), Throws(~Is(pos + 10, "Number"))>>) = ""
  <2> DEFINE a == Throws(~Match(VarDefine, pos))
             b == TypeFault(pos + 4)
             c == Throws(~Match(IndirectRule, pos + 6))
             d == Throws(~Is(pos + 10, "Number"))
  <2>1. a = "" /\ b = "" /\ c = "" /\ d = ""
    BY <1>2, <1>3, Zenon
  <2> HIDE DEF a, b, c, d
  <2> DEFINE p == <<a, b>>
             q == <<c, d>>
  <2>2. p = <<a, b>> /\ q = <<c, d>>
    OBVIOUS
  <2> HIDE DEF p, q
  <2>3. FirstOf(p \o q) = ""
    BY <2>1, <2>2, FourFaults, Zenon
  <2> QED BY <2>3, Zenon DEF a, b, c, d, p, q
<1>5. FirstOf(<<Throws(~Match(VarDefine, pos)), TypeFault(pos + 4)>>
                \o IF Is(pos + 5, ",")
                   THEN <<Throws(~Match(IndirectRule, pos + 6)), Throws(~Is(pos + 10, "Number"))>>
                   ELSE <<Throws(TypeAt(pos + 4).kind = "type" /\ PushOf(TypeAt(pos + 4).size) = {}),
                          IF pos + 8 > Len(tokens) THEN "undefined" ELSE "">>) = ""
  BY <1>1, <1>4, Zenon
<1>6. /\ layers' = Add(layers, open.scope, Tok(pos + 2).lit,
                       Var(TypeAt(pos + 4),
                           Address(Tok(pos + 8).lit, 0,
                                   IF Is(pos + 9, "-") THEN -Tok(pos + 10).num ELSE Tok(pos + 10).num,
                                   "RelativeWithDiff")))
      /\ UNCHANGED open /\ Outcome("", 13)
      /\ UNCHANGED <<program, tokens, functions, parsed, parses>>
  BY <1>1, <1>5, Zenon DEF DeclareVariable
<1>7. pos' = pos + 13 /\ UNCHANGED status
  BY <1>6, Zenon DEF Outcome
<1>8. layers' = WithVar(var, type, base, diff)
  BY <1>1, <1>2, <1>6, Zenon DEF WithVar
<1> QED
  BY <1>6, <1>7, <1>8, Zenon

LEMMA BareStep ==
    ASSUME DeclareVariable, NEW var, NEW type, NEW size,
           SeesVar(pos, var, type), Is(pos + 5, ";"), KnowsType(type, size),
           PushOf(size) # {}, ~(pos + 8 > Len(tokens))
    PROVE  /\ \E base, diff : layers' = WithVar(var, type, base, diff)
           /\ AddLine([inst |-> CHOOSE i \in PushOf(size) : TRUE, args |-> <<>>])
           /\ pos' = pos + 6
           /\ UNCHANGED <<program, tokens, functions, status, parsed, parses>>
<1>1. /\ Match(VarDefine, pos) /\ Tok(pos + 2).lit = var /\ Tok(pos + 4).lit = type
      /\ ~Is(pos + 5, ",")
  BY Zenon DEF SeesVar, Is
<1>2. TypeAt(pos + 4) = layers[1][type] /\ TypeFault(pos + 4) = "" /\ TypeAt(pos + 4).size = size
  BY <1>1, TypeKnown, Zenon
<1>3. /\ Throws(~Match(VarDefine, pos)) = ""
      /\ Throws(TypeAt(pos + 4).kind = "type" /\ PushOf(TypeAt(pos + 4).size) = {}) = ""
      /\ (IF pos + 8 > Len(tokens) THEN "undefined" ELSE "") = ""
  BY <1>1, <1>2, Zenon DEF Throws
<1>4. FirstOf(<<Throws(~Match(VarDefine, pos)), TypeFault(pos + 4)>>
                \o <<Throws(TypeAt(pos + 4).kind = "type" /\ PushOf(TypeAt(pos + 4).size) = {}),
                     IF pos + 8 > Len(tokens) THEN "undefined" ELSE "">>) = ""
  <2> DEFINE a == Throws(~Match(VarDefine, pos))
             b == TypeFault(pos + 4)
             c == Throws(TypeAt(pos + 4).kind = "type" /\ PushOf(TypeAt(pos + 4).size) = {})
             d == IF pos + 8 > Len(tokens) THEN "undefined" ELSE ""
  <2>1. a = "" /\ b = "" /\ c = "" /\ d = ""
    BY <1>2, <1>3, Zenon
  <2> HIDE DEF a, b, c, d
  <2> DEFINE p == <<a, b>>
             q == <<c, d>>
  <2>2. p = <<a, b>> /\ q = <<c, d>>
    BY Zenon
  <2> HIDE DEF p, q
  <2>3. FirstOf(p \o q) = ""
    BY <2>1, <2>2, FourFaults, Zenon
  <2> QED BY <2>3, Zenon DEF a, b, c, d, p, q
<1>5. FirstOf(<<Throws(~Match(VarDefine, pos)), TypeFault(pos + 4)>>
                \o IF Is(pos + 5, ",")
                   THEN <<Throws(~Match(IndirectRule, pos + 6)), Throws(~Is(pos + 10, "Number"))>>
                   ELSE <<Throws(TypeAt(pos + 4).kind = "type" /\ PushOf(TypeAt(pos + 4).size) = {}),
                          IF pos + 8 > Len(tokens) THEN "undefined" ELSE "">>) = ""
  BY <1>1, <1>4, Zenon
<1>6. /\ layers' = Add(layers, open.scope, Tok(pos + 2).lit,
                       Var(TypeAt(pos + 4),
                           Address(Tok(pos + 8).lit, 0, -TypeAt(pos + 4).size, "RelativeWithDiff")))
      /\ AddLine([inst |-> CHOOSE i \in PushOf(TypeAt(pos + 4).size) : TRUE, args |-> <<>>])
      /\ Outcome("", 6)
      /\ UNCHANGED <<program, tokens, functions, parsed, parses>>
  BY <1>1, <1>5, Zenon DEF DeclareVariable
<1>7. pos' = pos + 6 /\ UNCHANGED status
  BY <1>6, Zenon DEF Outcome
<1>8. layers' = WithVar(var, type, Tok(pos + 8).lit, -TypeAt(pos + 4).size)
  BY <1>1, <1>2, <1>6, Zenon DEF WithVar
<1>9. AddLine([inst |-> CHOOSE i \in PushOf(size) : TRUE, args |-> <<>>])
  BY <1>2, <1>6, Zenon
<1> QED
  BY <1>6, <1>7, <1>8, <1>9, Zenon

LEMMA CloseStep ==
    ASSUME CloseFunction
    PROVE  /\ functions' = Append(functions, open)
           /\ layers' = Add(layers, 0, open.name, [kind |-> "func"])
           /\ open' = NoFunction /\ pos' = pos + 1
           /\ UNCHANGED <<program, tokens, status, parsed, parses>>
BY Zenon DEF CloseFunction, Outcome

-----------------------------------------------------------------------------
(* Operands.  What an address stands for by itself, when the name in it is *)
(* a register's.                                                           *)

PlainArg(a) ==
    CASE a.kind = "Fixed"    -> [lit |-> a.abs]
      [] a.kind = "Relative" -> [at |-> Registers[a.name]]
      [] OTHER               -> [via |-> Registers[a.name], diff |-> a.sign]

Settled(a) == a.kind = "Fixed" \/ a.name \in DOMAIN Registers

LEMMA PlainArgs ==
    /\ \A n : PlainArg(Address("", n, 0, "Fixed")) = [lit |-> n]
              /\ Settled(Address("", n, 0, "Fixed"))
    /\ \A r \in DOMAIN Registers : \A x, y :
          PlainArg(Address(r, x, y, "Relative")) = [at |-> Registers[r]]
          /\ Settled(Address(r, x, y, "Relative"))
    /\ \A r \in DOMAIN Registers : \A x, y :
          PlainArg(Address(r, x, y, "RelativeWithDiff")) = [via |-> Registers[r], diff |-> y]
          /\ Settled(Address(r, x, y, "RelativeWithDiff"))
<1>2. /\ "Fixed" # "Relative" /\ "RelativeWithDiff" # "Relative" /\ "RelativeWithDiff" # "Fixed"
  OBVIOUS
<1>3. ASSUME NEW n
      PROVE  PlainArg(Address("", n, 0, "Fixed")) = [lit |-> n]
             /\ Settled(Address("", n, 0, "Fixed"))
  <2> DEFINE a == Address("", n, 0, "Fixed")
  <2>1. a.kind = "Fixed" /\ a.abs = n
    BY DEF Address
  <2> HIDE DEF a
  <2>2. a.kind = "Fixed" /\ a.abs = n /\ a.kind # "Relative"
    BY <1>2, <2>1, Zenon
  <2> QED BY <2>2, Zenon DEF PlainArg, Settled, a
<1>4. ASSUME NEW r \in DOMAIN Registers, NEW x, NEW y
      PROVE  PlainArg(Address(r, x, y, "Relative")) = [at |-> Registers[r]]
             /\ Settled(Address(r, x, y, "Relative"))
  <2> DEFINE a == Address(r, x, y, "Relative")
  <2>1. a.kind = "Relative" /\ a.name = r
    BY DEF Address
  <2> HIDE DEF a
  <2>2. a.kind # "Fixed"
    BY <1>2, <2>1, Zenon
  <2> QED BY <2>1, <2>2, Zenon DEF PlainArg, Settled, a
<1>5. ASSUME NEW r \in DOMAIN Registers, NEW x, NEW y
      PROVE  PlainArg(Address(r, x, y, "RelativeWithDiff")) = [via |-> Registers[r], diff |-> y]
             /\ Settled(Address(r, x, y, "RelativeWithDiff"))
  <2> DEFINE a == Address(r, x, y, "RelativeWithDiff")
  <2>1. a.kind = "RelativeWithDiff" /\ a.name = r /\ a.sign = y
    BY DEF Address
  <2> HIDE DEF a
  <2>2. a.kind # "Fixed" /\ a.kind # "Relative"
    BY <1>2, <2>1, Zenon
  <2> QED BY <2>1, <2>2, Zenon DEF PlainArg, Settled, a
<1> QED
  BY <1>3, <1>4, <1>5, Zenon

\* What a name stands for in the open function.
IsRegister(name) ==
    LET v == Lookup(layers, name, open.scope)
    IN name \in DOMAIN Registers /\ v.kind = "var" /\ v.address = Address("", Registers[name], 0, "Fixed")

IsPlaced(name, base, diff) ==
    LET v == Lookup(layers, name, open.scope)
    IN base \in DOMAIN Registers /\ v.kind = "var" /\ v.address = Address(base, 0, diff, "RelativeWithDiff")

LEMMA NoFields ==
    ASSUME NEW k \in Nat, Len(tokens) \in Nat, ~Is(k, "."), NEW type
    PROVE  Fields(type, k) = [type |-> type, diff |-> 0, taken |-> 0, fault |-> ""]
<1> DEFINE Dot(n) == Is(n, ".")
           r == [type |-> type, diff |-> 0, taken |-> 0, fault |-> ""]
<1>1. Dots(k) = 0
  <2> DEFINE ends == { n \in 0 .. Len(tokens) : ~Dot(k + 2 * n) }
  <2>0. ~Dot(k)
    OBVIOUS
  <2> HIDE DEF Dot
  <2>1. 0 \in ends /\ \A n \in ends : 0 <= n /\ n \in Nat
    BY <2>0
  <2> HIDE DEF ends
  <2>2. \A n \in ends : (\A m \in ends : n <= m) => n = 0
    BY <2>1
  <2>3. (CHOOSE n \in ends : \A m \in ends : n <= m) = 0
    BY <2>1, <2>2
  <2> QED BY <2>3, Zenon DEF Dots, ends, Dot
<1> DEFINE step(acc, n) ==
            LET field == Tok(k + 2 * n).lit
            IN IF acc.fault # "" THEN acc
               ELSE IF field \notin DOMAIN acc.type.poles THEN [acc EXCEPT !.fault = "thrown"]
               ELSE [type  |-> acc.type.poles[field].type,
                     diff  |-> acc.diff + acc.type.poles[field].offset,
                     taken |-> 2 * n,
                     fault |-> ""]
           Eq(f) == f = [n \in 0 .. Dots(k) |-> IF n = 0 THEN r ELSE step(f[n - 1], n)]
           g == [n \in 0 .. 0 |-> r]
           F == CHOOSE f : Eq(f)
<1>2. Fields(type, k) = F[Dots(k)]
  BY Zenon DEF Fields
<1> HIDE DEF step, r
<1>3. Eq(g)
  <2>1. \A n \in 0 .. 0 : n = 0
    OBVIOUS
  <2>2. [n \in 0 .. 0 |-> r] = [n \in 0 .. 0 |-> IF n = 0 THEN r ELSE step(g[n - 1], n)]
    BY <2>1, Zenon
  <2> QED BY <1>1, <2>2, Zenon
<1>4. Eq(F)
  BY <1>3, Zenon
<1> HIDE DEF F
<1>5. F[0] = r
  <2>1. 0 \in 0 .. 0
    OBVIOUS
  <2> QED BY <1>1, <1>4, <2>1, Zenon
<1> QED
  BY <1>1, <1>2, <1>5, Zenon DEF r

-----------------------------------------------------------------------------
\* An operand read at k: n tokens, and the place it stands for.
Reads(k, place, n) ==
    /\ IsArg(k) /\ ArgAt(k).fault = "" /\ ArgAt(k).taken = n
    /\ Settled(ArgAt(k).address) /\ PlainArg(ArgAt(k).address) = place

LEMMA ArgParts ==
    ASSUME NEW arg, NEW fault, NEW address, NEW taken, arg = Arg(fault, address, taken)
    PROVE  arg.fault = fault /\ arg.address = address /\ arg.taken = taken
BY DEF Arg

LEMMA ReadsArg ==
    ASSUME NEW k, IsArg(k), NEW address, NEW n, ArgAt(k) = Arg("", address, n),
           NEW place, Settled(address), PlainArg(address) = place
    PROVE  Reads(k, place, n)
<1>1. ArgAt(k).fault = "" /\ ArgAt(k).address = address /\ ArgAt(k).taken = n
  BY ArgParts, Zenon
<1> QED
  BY <1>1, Zenon DEF Reads

LEMMA ReadNumber ==
    ASSUME NEW k \in Nat, NEW n, Tok(k) = Number(n)
    PROVE  Reads(k, [lit |-> n], 1)
<1>1. Is(k, "Number") /\ Tok(k).num = n /\ ~Is(k, "%")
  BY TokenParts, Zenon DEF Is
<1>2. ~Match(Direct, k)
  BY <1>1, Rules, Zenon
<1>3. IsArg(k) /\ ArgAt(k) = NumberArg(k)
  BY <1>1, <1>2, Zenon DEF IsArg, ArgAt
<1>4. NumberArg(k) = Arg("", Address("", n, 0, "Fixed"), 1)
  BY <1>1, Zenon DEF NumberArg
<1> QED
  BY <1>3, <1>4, PlainArgs, ReadsArg, Zenon

\* What the parser sees of %name, and of [%name ...
SeesDirect(k, name) ==
    Is(k, "%") /\ Is(k + 1, "Id") /\ Tok(k + 1).lit = name /\ ~Is(k + 2, ".")

SeesIndirect(k, name) ==
    Is(k, "[") /\ Is(k + 1, "%") /\ Is(k + 2, "Id") /\ Tok(k + 2).lit = name /\ ~Is(k + 3, ".")

LEMMA DirectRead ==
    ASSUME NEW k \in Nat, NEW name, SeesDirect(k, name), Len(tokens) \in Nat,
           Lookup(layers, name, open.scope).kind = "var"
    PROVE  LET var == Lookup(layers, name, open.scope)
               diff == 0 + Beyond(var)
           IN /\ IsArg(k)
              /\ ArgAt(k) = Arg("", Address(Based(var, name), diff, diff,
                                            IF diff # 0 THEN "RelativeWithDiff" ELSE "Relative"), 0 + 2)
<1> DEFINE var == Lookup(layers, name, open.scope)
<1>1. Match(Direct, k)
  BY Rules, Zenon DEF SeesDirect
<1>0. ~Is(k, "Number")
  BY DEF SeesDirect, Is
<1>2. IsArg(k) /\ ArgAt(k) = DirectArg(k)
  BY <1>0, <1>1, Zenon DEF IsArg, ArgAt
<1>3. k + 2 \in Nat /\ ~Is(k + 2, ".")
  BY DEF SeesDirect
<1> DEFINE fields == Fields(var.type, k + 2)
           none == [type |-> var.type, diff |-> 0, taken |-> 0, fault |-> ""]
<1>4. fields = none
  <2> DEFINE type == var.type
  <2> HIDE DEF type
  <2>1. Fields(type, k + 2) = [type |-> type, diff |-> 0, taken |-> 0, fault |-> ""]
    BY <1>3, NoFields, Zenon
  <2> QED BY <2>1, Zenon DEF type
<1>5. none.diff = 0 /\ none.taken = 0 /\ none.fault = ""
  OBVIOUS
<1>6. fields.diff = 0 /\ fields.taken = 0 /\ fields.fault = ""
  BY <1>4, <1>5, Zenon
<1>7. Fault(var, "var") = "" /\ Tok(k + 1).lit = name
  BY DEF Fault, SeesDirect
<1> HIDE DEF fields, none
<1>8. DirectArg(k) =
         Arg(fields.fault,
             Address(Based(var, name), fields.diff + Beyond(var), fields.diff + Beyond(var),
                     IF fields.diff + Beyond(var) # 0 THEN "RelativeWithDiff" ELSE "Relative"),
             fields.taken + 2)
  BY <1>7, Zenon DEF DirectArg, fields
<1> QED
  BY <1>2, <1>6, <1>8, Zenon

LEMMA ReadRegister ==
    ASSUME NEW k \in Nat, NEW name, SeesDirect(k, name), Len(tokens) \in Nat, IsRegister(name)
    PROVE  Reads(k, [at |-> Registers[name]], 2)
<1> DEFINE var == Lookup(layers, name, open.scope)
<1>1. /\ var.kind = "var" /\ var.address = Address("", Registers[name], 0, "Fixed")
      /\ name \in DOMAIN Registers
  BY Zenon DEF IsRegister
<1>2. var.address.kind # "RelativeWithDiff"
  <2> DEFINE address == Address("", Registers[name], 0, "Fixed")
  <2>1. address.kind = "Fixed"
    BY DEF Address
  <2>2. var.address = address
    BY <1>1, Zenon
  <2> HIDE DEF address
  <2> QED BY <2>1, <2>2, Zenon
<1>3. Based(var, name) = name /\ Beyond(var) = 0
  BY <1>2, Zenon DEF Based, Beyond
<1> DEFINE diff == 0 + Beyond(var)
<1>4. IsArg(k) /\ ArgAt(k) = Arg("", Address(Based(var, name), diff, diff,
                                             IF diff # 0 THEN "RelativeWithDiff" ELSE "Relative"), 0 + 2)
  BY <1>1, DirectRead, Zenon
<1>5. diff = 0 /\ 0 + 2 = 2
  BY <1>3
<1>6. ArgAt(k) = Arg("", Address(name, 0, 0, "Relative"), 2)
  BY <1>3, <1>4, <1>5, Zenon
<1> QED
  BY <1>1, <1>4, <1>6, PlainArgs, ReadsArg, Zenon

LEMMA ReadPlaced ==
    ASSUME NEW k \in Nat, NEW name, SeesDirect(k, name), Len(tokens) \in Nat,
           NEW base, NEW d \in Int, d # 0, IsPlaced(name, base, d)
    PROVE  Reads(k, [via |-> Registers[base], diff |-> d], 2)
<1> DEFINE var == Lookup(layers, name, open.scope)
<1>1. /\ var.kind = "var" /\ var.address = Address(base, 0, d, "RelativeWithDiff")
      /\ base \in DOMAIN Registers
  BY DEF IsPlaced
<1>2. var.address.kind = "RelativeWithDiff" /\ var.address.name = base /\ var.address.sign = d
  BY <1>1 DEF Address
<1>3. Based(var, name) = base /\ Beyond(var) = d
  BY <1>2, Zenon DEF Based, Beyond
<1> DEFINE diff == 0 + Beyond(var)
<1>4. IsArg(k) /\ ArgAt(k) = Arg("", Address(Based(var, name), diff, diff,
                                             IF diff # 0 THEN "RelativeWithDiff" ELSE "Relative"), 0 + 2)
  BY <1>1, DirectRead, Zenon
<1>5. diff = d /\ 0 + 2 = 2
  BY <1>3
<1>6. ArgAt(k) = Arg("", Address(base, d, d, "RelativeWithDiff"), 2)
  BY <1>3, <1>4, <1>5, Zenon
<1> QED
  BY <1>1, <1>4, <1>6, PlainArgs, ReadsArg, Zenon

LEMMA TwoFaults ==
    ASSUME NEW p, NEW a, NEW b, p = <<a, b>>, a = "", b = ""
    PROVE  FirstOf(p) = ""
<1> DEFINE e == ""
<1>1. a = e /\ b = e
  BY Zenon
<1> HIDE DEF e
<1>2. p \in Seq({e})
  <2>1. a \in {e} /\ b \in {e}
    BY <1>1, Zenon
  <2>2. <<a, b>> \in Seq({e})
    BY <2>1, PairIn, Zenon
  <2> QED BY <2>2, Zenon
<1>3. p \in Seq({""})
  BY <1>2, Zenon DEF e
<1> QED
  BY <1>3, FaultsJoin, Zenon

\* What is behind the name in brackets: a difference, and how far the parser goes.
SeesShift(k, more, n) ==
    \/ ~Is(k, "+") /\ ~Is(k, "-") /\ more = 0 /\ n = 4
    \/ Is(k, "+") /\ Is(k + 1, "Number") /\ more = Tok(k + 1).num /\ n = 5
    \/ ~Is(k, "+") /\ Is(k, "-") /\ Is(k + 1, "Number") /\ more = -Tok(k + 1).num /\ n = 5

ArgBeyond(k, name, more, n) ==
    LET var == Lookup(layers, name, open.scope)
    IN /\ IsArg(k)
       /\ ArgAt(k) = Arg("", Address(Based(var, name), 0, 0 + Beyond(var) + more,
                                     "RelativeWithDiff"), n)

LEMMA IndirectRead ==
    ASSUME NEW k \in Nat, NEW name, SeesIndirect(k, name), Len(tokens) \in Nat,
           Lookup(layers, name, open.scope).kind = "var",
           NEW more, NEW n \in Nat, SeesShift(k + 3, more, n)
    PROVE  ArgBeyond(k, name, more, n)
<1> DEFINE var == Lookup(layers, name, open.scope)
<1>1. Match(IndirectRule, k)
  BY Rules, Zenon DEF SeesIndirect
<1>2. ~Match(Direct, k) /\ ~Is(k, "Number")
  <2>1. ~Is(k, "%") /\ ~Is(k, "Number")
    BY DEF SeesIndirect, Is
  <2> QED BY <2>1, Rules, Zenon
<1>3. IsArg(k) /\ ArgAt(k) = IndirectArg(k)
  BY <1>1, <1>2, Zenon DEF IsArg, ArgAt
<1>4. k + 3 \in Nat /\ ~Is(k + 3, ".")
  BY DEF SeesIndirect
<1> DEFINE fields == Fields(var.type, k + 3)
           none == [type |-> var.type, diff |-> 0, taken |-> 0, fault |-> ""]
<1>5. fields = none
  <2> DEFINE type == var.type
  <2> HIDE DEF type
  <2>1. Fields(type, k + 3) = [type |-> type, diff |-> 0, taken |-> 0, fault |-> ""]
    BY <1>4, NoFields, Zenon
  <2> QED BY <2>1, Zenon DEF type
<1>6. none.diff = 0 /\ none.taken = 0 /\ none.fault = ""
  OBVIOUS
<1>7. fields.diff = 0 /\ fields.taken = 0 /\ fields.fault = ""
  BY <1>5, <1>6, Zenon
<1>8. Fault(var, "var") = "" /\ Tok(k + 2).lit = name
  BY DEF Fault, SeesIndirect
<1> HIDE DEF fields, none
<1> DEFINE at == k + 3 + fields.taken
           shifted == Is(at, "+") \/ Is(at, "-")
           amount == IF Is(at, "+") THEN Tok(at + 1).num
                     ELSE IF Is(at, "-") THEN -Tok(at + 1).num ELSE 0
           faults == <<fields.fault, Throws(shifted /\ ~Is(at + 1, "Number"))>>
<1>9. IndirectArg(k) =
         Arg(FirstOf(faults),
             Address(Based(var, name), 0, fields.diff + Beyond(var) + amount, "RelativeWithDiff"),
             fields.taken + (IF shifted THEN 5 ELSE 4))
  BY <1>8, Zenon DEF IndirectArg, fields
<1>10. at = k + 3
  <2>1. at = k + 3 + 0
    BY <1>7, Zenon
  <2>2. k + 3 + 0 = k + 3
    OBVIOUS
  <2> QED BY <2>1, <2>2, Zenon
<1> HIDE DEF at
<1>11. /\ amount = more /\ (IF shifted THEN 5 ELSE 4) = n
       /\ Throws(shifted /\ ~Is(at + 1, "Number")) = ""
  <2>1. CASE ~Is(k + 3, "+") /\ ~Is(k + 3, "-") /\ more = 0 /\ n = 4
    BY <1>10, <2>1, Zenon DEF Throws
  <2>2. CASE Is(k + 3, "+") /\ Is(k + 3 + 1, "Number") /\ more = Tok(k + 3 + 1).num /\ n = 5
    BY <1>10, <2>2, Zenon DEF Throws
  <2>3. CASE /\ ~Is(k + 3, "+") /\ Is(k + 3, "-") /\ Is(k + 3 + 1, "Number")
             /\ more = -Tok(k + 3 + 1).num /\ n = 5
    BY <1>10, <2>3, Zenon DEF Throws
  <2> QED BY <2>1, <2>2, <2>3, Zenon DEF SeesShift
<1>12. FirstOf(faults) = ""
  <2> DEFINE a == fields.fault
             b == Throws(shifted /\ ~Is(at + 1, "Number"))
  <2>1. a = "" /\ b = "" /\ faults = <<a, b>>
    BY <1>7, <1>11, Zenon
  <2> HIDE DEF a, b, faults
  <2> QED BY <2>1, TwoFaults, Zenon
<1>13. 0 + n = n
  OBVIOUS
<1> HIDE DEF faults, shifted, amount
<1>14. IndirectArg(k) =
         Arg("", Address(Based(var, name), 0, 0 + Beyond(var) + more, "RelativeWithDiff"), 0 + n)
  BY <1>7, <1>9, <1>11, <1>12, Zenon
<1> QED
  BY <1>3, <1>13, <1>14, Zenon DEF ArgBeyond

LEMMA ReadIndirect ==
    ASSUME NEW k \in Nat, NEW name, SeesIndirect(k, name), Len(tokens) \in Nat,
           NEW more \in Int, NEW n \in Nat, SeesShift(k + 3, more, n), IsRegister(name)
    PROVE  Reads(k, [via |-> Registers[name], diff |-> more], n)
<1> DEFINE var == Lookup(layers, name, open.scope)
<1>1. /\ var.kind = "var" /\ var.address = Address("", Registers[name], 0, "Fixed")
      /\ name \in DOMAIN Registers
  BY Zenon DEF IsRegister
<1>2. var.address.kind # "RelativeWithDiff"
  <2> DEFINE address == Address("", Registers[name], 0, "Fixed")
  <2>1. address.kind = "Fixed"
    BY DEF Address
  <2>2. var.address = address
    BY <1>1, Zenon
  <2> HIDE DEF address
  <2> QED BY <2>1, <2>2, Zenon
<1>3. Based(var, name) = name /\ Beyond(var) = 0
  BY <1>2, Zenon DEF Based, Beyond
<1>4. IsArg(k) /\ ArgAt(k) = Arg("", Address(Based(var, name), 0, 0 + Beyond(var) + more,
                                             "RelativeWithDiff"), n)
  <2>1. ArgBeyond(k, name, more, n)
    BY <1>1, IndirectRead, Zenon
  <2> QED BY <2>1, Zenon DEF ArgBeyond
<1>5. 0 + 0 + more = more
  OBVIOUS
<1>6. ArgAt(k) = Arg("", Address(name, 0, more, "RelativeWithDiff"), n)
  BY <1>3, <1>4, <1>5, Zenon
<1> QED
  BY <1>1, <1>4, <1>6, PlainArgs, ReadsArg, Zenon

LEMMA ReadIndirectPlaced ==
    ASSUME NEW k \in Nat, NEW name, SeesIndirect(k, name), Len(tokens) \in Nat,
           NEW more \in Int, NEW n \in Nat, SeesShift(k + 3, more, n),
           NEW base, NEW d \in Int, IsPlaced(name, base, d)
    PROVE  Reads(k, [via |-> Registers[base], diff |-> d + more], n)
<1> DEFINE var == Lookup(layers, name, open.scope)
<1>1. /\ var.kind = "var" /\ var.address = Address(base, 0, d, "RelativeWithDiff")
      /\ base \in DOMAIN Registers
  BY DEF IsPlaced
<1>2. var.address.kind = "RelativeWithDiff" /\ var.address.name = base /\ var.address.sign = d
  BY <1>1 DEF Address
<1>3. Based(var, name) = base /\ Beyond(var) = d
  BY <1>2, Zenon DEF Based, Beyond
<1>4. IsArg(k) /\ ArgAt(k) = Arg("", Address(Based(var, name), 0, 0 + Beyond(var) + more,
                                             "RelativeWithDiff"), n)
  <2>1. ArgBeyond(k, name, more, n)
    BY <1>1, IndirectRead, Zenon
  <2> QED BY <2>1, Zenon DEF ArgBeyond
<1>5. 0 + d + more = d + more
  OBVIOUS
<1>6. ArgAt(k) = Arg("", Address(base, 0, d + more, "RelativeWithDiff"), n)
  BY <1>3, <1>4, <1>5, Zenon
<1> QED
  BY <1>1, <1>4, <1>6, PlainArgs, ReadsArg, Zenon

\* A name of the open function at its line l: a register, or a variable at a
\* distance from one.
Known(lines, l, name) ==
    /\ name \notin DOMAIN Insts
    /\ LET n == DeclaredAt(lines, l, name)
       IN \/ n = 0 /\ IsRegister(name)
          \/ /\ n # 0 /\ Has(lines[n], "base")
             /\ lines[n].diff \in Int /\ lines[n].diff # 0
             /\ IsPlaced(name, lines[n].base, lines[n].diff)

\* The tokens the parser takes an operand for: it stays on the closing bracket
\* behind a difference.
Width(a) == IF Has(a, "diff") /\ a.diff # 0 THEN 5 ELSE Len(OperandTokens(a))

\* The place an operand stands for.
LEMMA NumberPlace ==
    ASSUME NEW p, NEW lines, NEW l, NEW a \in [num : Nat]
    PROVE  Place(p, lines, l, a) = [lit |-> a.num]
<1>1. Has(a, "num")
  BY OperandFields
<1> QED BY <1>1, Zenon DEF Place

LEMMA NamePlace ==
    ASSUME NEW p, NEW lines, NEW l, NEW a \in [name : STRING]
    PROVE  LET n == DeclaredAt(lines, l, a.name)
           IN /\ n = 0 => Place(p, lines, l, a) = [at |-> Registers[a.name]]
              /\ n # 0 /\ Has(lines[n], "base") =>
                    Place(p, lines, l, a)
                       = [via |-> Registers[lines[n].base], diff |-> lines[n].diff + 0]
<1>1. ~Has(a, "num") /\ ~Has(a, "field") /\ ~Has(a, "diff")
  BY OperandFields
<1> QED BY <1>1, Zenon DEF Place

LEMMA ShiftedPlace ==
    ASSUME NEW p, NEW lines, NEW l, NEW a \in [name : STRING, diff : Int]
    PROVE  LET n == DeclaredAt(lines, l, a.name)
           IN /\ n = 0 => Place(p, lines, l, a) = [via |-> Registers[a.name], diff |-> a.diff]
              /\ n # 0 /\ Has(lines[n], "base") =>
                    Place(p, lines, l, a)
                       = [via |-> Registers[lines[n].base], diff |-> lines[n].diff + a.diff]
<1>1. ~Has(a, "num") /\ Has(a, "diff")
  BY OperandFields
<1> QED BY <1>1, Zenon DEF Place

LEMMA One ==
    ASSUME NEW ts, NEW a, ts = <<a>>
    PROVE  Len(ts) = 1 /\ ts[1] = a
OBVIOUS

LEMMA Two ==
    ASSUME NEW ts, NEW a, NEW b, ts = <<a, b>>
    PROVE  Len(ts) = 2 /\ ts[1] = a /\ ts[2] = b
OBVIOUS

\* The tokens of an operand, seen at k.
LEMMA OperandSeen ==
    ASSUME NEW a \in Operands, NEW k \in Nat, Stands(k, OperandTokens(a)),
           ~Is(k + Len(OperandTokens(a)), "."), Has(a, "name") => a.name \notin DOMAIN Insts
    PROVE  /\ a \in [num : Nat] => Tok(k) = Number(a.num) /\ Width(a) = 1
           /\ a \in [name : STRING] => SeesDirect(k, a.name) /\ Width(a) = 2
           /\ a \in [name : STRING, diff : Int] =>
                 SeesIndirect(k, a.name) /\ SeesShift(k + 3, a.diff, Width(a))
<1> DEFINE ts == OperandTokens(a)
<1>0. Stands(k, ts)
  OBVIOUS
<1>s. "%" \in Signs /\ "[" \in Signs /\ "]" \in Signs
  BY DEF Signs
<1>1. ASSUME a \in [num : Nat] PROVE Tok(k) = Number(a.num) /\ Width(a) = 1
  <2>1. ts = <<Number(a.num)>> /\ ~Has(a, "diff")
    BY <1>1, OperandTokensAre, OperandFields
  <2>2. Len(ts) = 1 /\ ts[1] = Number(a.num)
    BY <2>1, One, Zenon
  <2>3. Width(a) = 1
    BY <2>1, <2>2, Zenon DEF Width
  <2> HIDE DEF ts
  <2>4. Tok(k + 0) = MarkedToken(ts[0 + 1])
    <3>1. \A j \in 0 .. 1 - 1 : Tok(k + j) = MarkedToken(ts[j + 1])
      BY <1>0, <2>2, StandsAt
    <3> QED BY <3>1
  <2>5. k + 0 = k /\ 0 + 1 = 1
    OBVIOUS
  <2> QED BY <2>2, <2>3, <2>4, <2>5, MarkedTypes, Zenon
<1>2. ASSUME a \in [name : STRING] PROVE SeesDirect(k, a.name) /\ Width(a) = 2
  <2>1. ts = <<Mark("%"), Ident(a.name)>> /\ ~Has(a, "diff")
    BY <1>2, OperandTokensAre, OperandFields
  <2>2. Len(ts) = 2 /\ ts[1] = Mark("%") /\ ts[2] = Ident(a.name)
    BY <2>1, Two, Zenon
  <2>3. Width(a) = 2
    BY <2>1, <2>2, Zenon DEF Width
  <2>6. ~Is(k + 2, ".")
    BY <2>2, Zenon
  <2> HIDE DEF ts
  <2>4. Tok(k + 0) = MarkedToken(ts[0 + 1]) /\ Tok(k + 1) = MarkedToken(ts[1 + 1])
    <3>1. \A j \in 0 .. 2 - 1 : Tok(k + j) = MarkedToken(ts[j + 1])
      BY <1>0, <2>2, StandsAt
    <3> QED BY <3>1
  <2>5. k + 0 = k /\ 0 + 1 = 1 /\ 1 + 1 = 2
    OBVIOUS
  <2>7. Is(k, "%") /\ Is(k + 1, "Id") /\ Tok(k + 1).lit = a.name
    <3>1. Tok(k) = MarkedToken(Mark("%")) /\ Tok(k + 1) = MarkedToken(Ident(a.name))
      BY <2>2, <2>4, <2>5, Zenon
    <3>2. a.name \notin DOMAIN Insts
      BY <1>2, OperandFields
    <3> QED BY <1>s, <3>1, <3>2, MarkSeen, IdentSeen, Zenon
  <2> QED BY <2>3, <2>6, <2>7, Zenon DEF SeesDirect
<1>3. ASSUME a \in [name : STRING, diff : Int]
      PROVE  SeesIndirect(k, a.name) /\ SeesShift(k + 3, a.diff, Width(a))
  <2>0. a.name \notin DOMAIN Insts
    BY <1>3, OperandFields
  <2>1. Has(a, "diff") /\ a.diff \in Int
    BY <1>3, OperandFields
  <2>2. CASE a.diff = 0
    <3>1. ts = <<Mark("["), Mark("%"), Ident(a.name), Mark("]")>>
      BY <1>3, <2>2, OperandTokensAre
    <3>2. Len(ts) = 4 /\ ts[1] = Mark("[") /\ ts[2] = Mark("%") /\ ts[3] = Ident(a.name) /\ ts[4] = Mark("]")
      <4> DEFINE x == Mark("[")
                 y == Mark("%")
                 z == Ident(a.name)
                 w == Mark("]")
      <4>1. ts = <<x, y, z, w>>
        BY <3>1
      <4> HIDE DEF x, y, z, w, ts
      <4>2. Len(ts) = 4 /\ ts[1] = x /\ ts[2] = y /\ ts[3] = z /\ ts[4] = w
        BY <4>1
      <4> QED BY <4>2, Zenon DEF x, y, z, w
    <3>3. Width(a) = 4
      BY <2>2, <3>2, Zenon DEF Width
    <3> HIDE DEF ts
    <3>4. /\ Tok(k + 0) = MarkedToken(ts[0 + 1]) /\ Tok(k + 1) = MarkedToken(ts[1 + 1])
          /\ Tok(k + 2) = MarkedToken(ts[2 + 1]) /\ Tok(k + 3) = MarkedToken(ts[3 + 1])
      <4>1. \A j \in 0 .. 4 - 1 : Tok(k + j) = MarkedToken(ts[j + 1])
        BY <1>0, <3>2, StandsAt
      <4> QED BY <4>1
    <3>5. k + 0 = k /\ 0 + 1 = 1 /\ 1 + 1 = 2 /\ 2 + 1 = 3 /\ 3 + 1 = 4
      OBVIOUS
    <3>6. Is(k, "[") /\ Is(k + 1, "%") /\ Is(k + 2, "Id") /\ Tok(k + 2).lit = a.name /\ Is(k + 3, "]")
      <4>1. /\ Tok(k) = MarkedToken(Mark("[")) /\ Tok(k + 1) = MarkedToken(Mark("%"))
            /\ Tok(k + 2) = MarkedToken(Ident(a.name)) /\ Tok(k + 3) = MarkedToken(Mark("]"))
        BY <3>2, <3>4, <3>5, Zenon
      <4> QED BY <1>s, <2>0, <4>1, MarkSeen, IdentSeen, Zenon
    <3>7. ~Is(k + 3, ".") /\ ~Is(k + 3, "+") /\ ~Is(k + 3, "-")
      BY <3>6 DEF Is
    <3> QED BY <2>2, <3>3, <3>6, <3>7, Zenon DEF SeesIndirect, SeesShift
  <2>3. CASE a.diff # 0
    <3> DEFINE s == Sign(a.diff)
               n == Amount(a.diff)
    <3>1. ts = <<Mark("["), Mark("%"), Ident(a.name), s, n, Mark("]")>>
      BY <1>3, <2>3, OperandTokensAre
    <3>2. Len(ts) = 6 /\ ts[1] = Mark("[") /\ ts[2] = Mark("%") /\ ts[3] = Ident(a.name)
          /\ ts[4] = s /\ ts[5] = n /\ ts[6] = Mark("]")
      <4> DEFINE x == Mark("[")
                 y == Mark("%")
                 z == Ident(a.name)
                 w == Mark("]")
      <4>1. ts = <<x, y, z, s, n, w>>
        BY <3>1
      <4> HIDE DEF x, y, z, w, s, n, ts
      <4>2. /\ Len(ts) = 6 /\ ts[1] = x /\ ts[2] = y /\ ts[3] = z /\ ts[4] = s /\ ts[5] = n
            /\ ts[6] = w
        BY <4>1
      <4> QED BY <4>2, Zenon DEF x, y, z, w
    <3>3. Width(a) = 5
      BY <2>1, <2>3, Zenon DEF Width
    <3>0. /\ MarkedToken(s) = s /\ MarkedToken(n) = n
          /\ n.type = "Number" /\ s.type \in {"+", "-"}
          /\ s.type = "+" => a.diff = n.num
          /\ s.type = "-" => a.diff = -n.num
      BY <2>1, SignAndAmount
    <3> HIDE DEF ts, s, n
    <3>4. /\ Tok(k + 0) = MarkedToken(ts[0 + 1]) /\ Tok(k + 1) = MarkedToken(ts[1 + 1])
          /\ Tok(k + 2) = MarkedToken(ts[2 + 1]) /\ Tok(k + 3) = MarkedToken(ts[3 + 1])
          /\ Tok(k + 4) = MarkedToken(ts[4 + 1])
      <4>1. \A j \in 0 .. 6 - 1 : Tok(k + j) = MarkedToken(ts[j + 1])
        BY <1>0, <3>2, StandsAt
      <4> QED BY <4>1
    <3>5. k + 0 = k /\ 0 + 1 = 1 /\ 1 + 1 = 2 /\ 2 + 1 = 3 /\ 3 + 1 = 4 /\ 4 + 1 = 5 /\ k + 3 + 1 = k + 4
      OBVIOUS
    <3>6. Is(k, "[") /\ Is(k + 1, "%") /\ Is(k + 2, "Id") /\ Tok(k + 2).lit = a.name
      <4>1. /\ Tok(k) = MarkedToken(Mark("[")) /\ Tok(k + 1) = MarkedToken(Mark("%"))
            /\ Tok(k + 2) = MarkedToken(Ident(a.name))
        BY <3>2, <3>4, <3>5, Zenon
      <4> QED BY <1>s, <2>0, <4>1, MarkSeen, IdentSeen, Zenon
    <3>7. Tok(k + 3) = s /\ Tok(k + 3 + 1) = n
      BY <3>0, <3>2, <3>4, <3>5, Zenon
    <3>8. Is(k + 3 + 1, "Number")
      BY <3>0, <3>7, Zenon DEF Is
    <3>9. CASE s.type = "+"
      <4>1. Is(k + 3, "+") /\ ~Is(k + 3, ".") /\ a.diff = Tok(k + 3 + 1).num
        BY <3>0, <3>7, <3>9 DEF Is
      <4> QED BY <3>3, <3>6, <3>8, <4>1, Zenon DEF SeesIndirect, SeesShift
    <3>10. CASE s.type = "-"
      <4>1. Is(k + 3, "-") /\ ~Is(k + 3, ".") /\ ~Is(k + 3, "+") /\ a.diff = -Tok(k + 3 + 1).num
        BY <3>0, <3>7, <3>10 DEF Is
      <4> QED BY <3>3, <3>6, <3>8, <4>1, Zenon DEF SeesIndirect, SeesShift
    <3> QED BY <3>0, <3>9, <3>10, Zenon
  <2> QED BY <2>2, <2>3
<1> QED
  BY <1>1, <1>2, <1>3

(***************************************************************************)
(* Every operand the parser can take is read as the place it stands for.   *)
(***************************************************************************)
LEMMA OperandRead ==
    ASSUME NEW a \in Operands, NEW k \in Nat, Len(tokens) \in Nat,
           Stands(k, OperandTokens(a)), ~Is(k + Len(OperandTokens(a)), "."),
           ~Has(a, "field"), NEW p, NEW lines, NEW l, Has(a, "name") => Known(lines, l, a.name)
    PROVE  Reads(k, Place(p, lines, l, a), Width(a))
<1>0. Has(a, "name") => a.name \notin DOMAIN Insts
  BY DEF Known
<1>1. CASE a \in [num : Nat]
  <2>1. Tok(k) = Number(a.num) /\ Width(a) = 1
    BY <1>0, <1>1, OperandSeen
  <2>2. Reads(k, [lit |-> a.num], 1)
    BY <2>1, ReadNumber, Zenon
  <2>3. Place(p, lines, l, a) = [lit |-> a.num]
    BY <1>1, NumberPlace, Zenon
  <2> QED BY <2>1, <2>2, <2>3, Zenon
<1>2. CASE a \in [name : STRING]
  <2>1. SeesDirect(k, a.name) /\ Width(a) = 2 /\ Has(a, "name")
    BY <1>0, <1>2, OperandSeen, OperandFields, Zenon
  <2> DEFINE n == DeclaredAt(lines, l, a.name)
             d == lines[n].diff
             base == lines[n].base
  <2>p. /\ n = 0 => Place(p, lines, l, a) = [at |-> Registers[a.name]]
        /\ n # 0 /\ Has(lines[n], "base") =>
              Place(p, lines, l, a) = [via |-> Registers[base], diff |-> d + 0]
    BY <1>2, NamePlace
  <2>2. CASE n = 0 /\ IsRegister(a.name)
    <3>1. Reads(k, [at |-> Registers[a.name]], 2)
      BY <2>1, <2>2, ReadRegister, Zenon
    <3>2. Place(p, lines, l, a) = [at |-> Registers[a.name]]
      BY <2>2, <2>p, Zenon
    <3> QED BY <2>1, <3>1, <3>2, Zenon
  <2>3. CASE /\ n # 0 /\ Has(lines[n], "base") /\ d \in Int /\ d # 0
             /\ IsPlaced(a.name, base, d)
    <3>1. Reads(k, [via |-> Registers[base], diff |-> d], 2)
      BY <2>1, <2>3, ReadPlaced, Zenon
    <3>2. Place(p, lines, l, a) = [via |-> Registers[base], diff |-> d + 0]
      BY <2>3, <2>p, Zenon
    <3>3. d + 0 = d
      <4>1. d \in Int
        BY <2>3
      <4> HIDE DEF d
      <4> QED BY <4>1
    <3> QED BY <2>1, <3>1, <3>2, <3>3, Zenon
  <2> QED BY <2>1, <2>2, <2>3, Zenon DEF Known
<1>3. CASE a \in [name : STRING, diff : Int]
  <2>1. SeesIndirect(k, a.name) /\ SeesShift(k + 3, a.diff, Width(a)) /\ Has(a, "name")
        /\ a.diff \in Int
    BY <1>0, <1>3, OperandSeen, OperandFields, Zenon
  <2>0. Width(a) \in Nat
    BY OperandTokensType DEF Width
  <2> DEFINE n == DeclaredAt(lines, l, a.name)
             d == lines[n].diff
             base == lines[n].base
             w == Width(a)
  <2>p. /\ n = 0 => Place(p, lines, l, a) = [via |-> Registers[a.name], diff |-> a.diff]
        /\ n # 0 /\ Has(lines[n], "base") =>
              Place(p, lines, l, a) = [via |-> Registers[base], diff |-> d + a.diff]
    BY <1>3, ShiftedPlace
  <2>2. CASE n = 0 /\ IsRegister(a.name)
    <3>1. Reads(k, [via |-> Registers[a.name], diff |-> a.diff], w)
      BY <2>0, <2>1, <2>2, ReadIndirect, Zenon
    <3>2. Place(p, lines, l, a) = [via |-> Registers[a.name], diff |-> a.diff]
      BY <2>2, <2>p, Zenon
    <3> QED BY <3>1, <3>2, Zenon
  <2>3. CASE /\ n # 0 /\ Has(lines[n], "base") /\ d \in Int /\ d # 0
             /\ IsPlaced(a.name, base, d)
    <3>1. Reads(k, [via |-> Registers[base], diff |-> d + a.diff], w)
      BY <2>0, <2>1, <2>3, ReadIndirectPlaced, Zenon
    <3>2. Place(p, lines, l, a) = [via |-> Registers[base], diff |-> d + a.diff]
      BY <2>3, <2>p, Zenon
    <3> QED BY <3>1, <3>2, Zenon
  <2> QED BY <2>1, <2>2, <2>3, Zenon DEF Known
<1>4. ~(a \in [name : STRING, field : STRING])
  BY OperandFields
<1> QED
  BY <1>1, <1>2, <1>3, <1>4 DEF Operands

-----------------------------------------------------------------------------
(* Sequences whose elements are not known to be of a type. *)

Indexed(s, n) == n \in Nat /\ s = [k \in 1 .. n |-> s[k]]

LEMMA IndexedSeq ==
    ASSUME NEW n, NEW s, Indexed(s, n)
    PROVE  n \in Nat /\ Len(s) = n /\ DOMAIN s = 1 .. n /\ s \in Seq({s[k] : k \in 1 .. n})
<1> DEFINE E == {s[k] : k \in 1 .. n}
<1>1. n \in Nat /\ s = [k \in 1 .. n |-> s[k]]
  BY DEF Indexed
<1>2. \A k \in 1 .. n : s[k] \in E
  OBVIOUS
<1> HIDE DEF E
<1>3. [k \in 1 .. n |-> s[k]] \in Seq(E) /\ Len([k \in 1 .. n |-> s[k]]) = n
  BY <1>1, <1>2
<1>4. DOMAIN [k \in 1 .. n |-> s[k]] = 1 .. n
  OBVIOUS
<1>5. s \in Seq(E) /\ Len(s) = n /\ DOMAIN s = 1 .. n
  BY <1>1, <1>3, <1>4, Zenon
<1> QED
  BY <1>1, <1>5, Zenon DEF E

LEMMA SeqIndexed ==
    ASSUME NEW E, NEW s \in Seq(E)
    PROVE  Indexed(s, Len(s))
<1>1. Len(s) \in Nat /\ s = [k \in 1 .. Len(s) |-> s[k]]
  OBVIOUS
<1> QED
  BY <1>1, Zenon DEF Indexed

Extends(t, s, n, x) ==
    Indexed(t, n + 1) /\ t[n + 1] = x /\ \A k \in 1 .. n : t[k] = s[k]

LEMMA IndexedAppend ==
    ASSUME NEW n, NEW s, Indexed(s, n), NEW x
    PROVE  Extends(Append(s, x), s, n, x)
<1> DEFINE E == {s[k] : k \in 1 .. n} \cup {x}
<1>1. n \in Nat /\ Len(s) = n /\ s \in Seq({s[k] : k \in 1 .. n})
  BY IndexedSeq
<1>2. s \in Seq(E)
  <2>1. {s[k] : k \in 1 .. n} \subseteq E
    OBVIOUS
  <2> HIDE DEF E
  <2> QED BY <1>1, <2>1
<1>3. x \in E
  OBVIOUS
<1> HIDE DEF E
<1> DEFINE t == Append(s, x)
<1>4. t \in Seq(E) /\ Len(t) = n + 1 /\ t[n + 1] = x /\ \A k \in 1 .. n : t[k] = s[k]
  BY <1>1, <1>2, <1>3
<1> HIDE DEF t
<1>5. Indexed(t, n + 1)
  BY <1>4, SeqIndexed, Zenon
<1>6. Extends(t, s, n, x)
  BY <1>4, <1>5, Zenon DEF Extends
<1> QED
  BY <1>6 DEF t

-----------------------------------------------------------------------------
(* Instructions. *)

LEMMA TurnsAre ==
    ASSUME NEW info, info.max \in Nat
    PROVE  /\ Turns(info)[0] = [at |-> pos + 1, args |-> <<>>, fault |-> "", done |-> Is(pos + 1, ";")]
           /\ \A n \in 1 .. info.max : Turns(info)[n] = TakeArg(Turns(info)[n - 1], info.min)
<1> DEFINE max == info.max
           base == [at |-> pos + 1, args |-> <<>>, fault |-> "", done |-> Is(pos + 1, ";")]
           take(acc) == TakeArg(acc, info.min)
           Eq(f, m) == f = [n \in 0 .. m |-> IF n = 0 THEN base ELSE take(f[n - 1])]
           F == CHOOSE f : Eq(f, max)
<1>1. Turns(info) = F
  BY Zenon DEF Turns
<1>2. max \in Nat
  OBVIOUS
<1> HIDE DEF base, take, max
<1>3. \A m \in Nat : \E f : Eq(f, m)
  <2> DEFINE S == {m \in Nat : \E f : Eq(f, m)}
  <2>1. 0 \in S
    <3> DEFINE g == [n \in 0 .. 0 |-> base]
    <3>1. \A n \in 0 .. 0 : n = 0
      OBVIOUS
    <3>2. [n \in 0 .. 0 |-> base] = [n \in 0 .. 0 |-> IF n = 0 THEN base ELSE take(g[n - 1])]
      BY <3>1, Zenon
    <3> QED BY <3>2
  <2>2. ASSUME NEW m \in Nat, m \in S PROVE m + 1 \in S
    <3>1. PICK f : Eq(f, m)
      BY <2>2
    <3> DEFINE g == [n \in 0 .. m + 1 |-> IF n = m + 1 THEN take(f[m]) ELSE f[n]]
    <3>2. ASSUME NEW n \in 0 .. m + 1
          PROVE  g[n] = IF n = 0 THEN base ELSE take(g[n - 1])
      <4>1. CASE n = 0
        <5>1. 0 \in 0 .. m + 1 /\ 0 # m + 1 /\ 0 \in 0 .. m
          OBVIOUS
        <5>2. g[0] = f[0] /\ f[0] = base
          BY <3>1, <5>1, Zenon
        <5> QED BY <4>1, <5>2, Zenon
      <4>2. CASE n # 0 /\ n # m + 1
        <5>1. n \in 0 .. m + 1 /\ n - 1 \in 0 .. m + 1 /\ n - 1 # m + 1 /\ n \in 0 .. m
          BY <4>2
        <5>2. g[n] = f[n] /\ g[n - 1] = f[n - 1] /\ f[n] = take(f[n - 1])
          BY <3>1, <4>2, <5>1, Zenon
        <5> QED BY <4>2, <5>2, Zenon
      <4>3. CASE n = m + 1
        <5>1. m \in 0 .. m + 1 /\ m # m + 1 /\ n - 1 = m /\ n # 0
          BY <4>3
        <5>2. g[n] = take(f[m]) /\ g[m] = f[m]
          BY <4>3, <5>1, Zenon
        <5> QED BY <5>1, <5>2, Zenon
      <4> QED BY <4>1, <4>2, <4>3
    <3>3. g = [n \in 0 .. m + 1 |-> g[n]]
      OBVIOUS
    <3> HIDE DEF g
    <3>4. [n \in 0 .. m + 1 |-> g[n]]
             = [n \in 0 .. m + 1 |-> IF n = 0 THEN base ELSE take(g[n - 1])]
      BY <3>2, Zenon
    <3>5. Eq(g, m + 1)
      BY <3>3, <3>4, Zenon
    <3> QED BY <3>5
  <2> HIDE DEF S
  <2>3. Nat \subseteq S
    BY <2>1, <2>2, SetInduction
  <2> QED BY <2>3 DEF S
<1>4. Eq(F, max)
  <2>1. \E f : Eq(f, max)
    BY <1>2, <1>3
  <2> QED BY <2>1, Zenon
<1> HIDE DEF F
<1>5. F[0] = base
  <2>1. 0 \in 0 .. max
    BY <1>2
  <2> QED BY <1>4, <2>1, Zenon
<1>6. ASSUME NEW n \in 1 .. max PROVE F[n] = take(F[n - 1])
  <2>1. n \in 0 .. max /\ n # 0
    BY <1>2
  <2> QED BY <1>4, <2>1, Zenon
<1> QED
  BY <1>1, <1>5, <1>6, Zenon DEF base, take, max

\* The first n operands of the instruction at line l, read: places(k) is what
\* operand k stands for.
Turned(acc, n, places, at, done) ==
    /\ acc = [at |-> at, args |-> acc.args, fault |-> "", done |-> done]
    /\ Indexed(acc.args, n)
    /\ \A k \in 1 .. n : Settled(acc.args[k]) /\ PlainArg(acc.args[k]) = places[k]

LEMMA TurnParts ==
    ASSUME NEW acc, NEW at, NEW args, NEW fault, NEW done,
           acc = [at |-> at, args |-> args, fault |-> fault, done |-> done]
    PROVE  acc.at = at /\ acc.args = args /\ acc.fault = fault /\ acc.done = done
OBVIOUS

LEMMA TurnedParts ==
    ASSUME NEW acc, NEW n, NEW places, NEW at, NEW done, Turned(acc, n, places, at, done)
    PROVE  acc.at = at /\ acc.fault = "" /\ acc.done = done
<1>1. acc = [at |-> at, args |-> acc.args, fault |-> "", done |-> done]
  BY Zenon DEF Turned
<1> DEFINE args == acc.args
           fault == ""
<1> HIDE DEF args, fault
<1>2. acc = [at |-> at, args |-> args, fault |-> fault, done |-> done]
  BY <1>1, Zenon DEF args, fault
<1>3. acc.at = at /\ acc.fault = fault /\ acc.done = done
  BY <1>2, TurnParts, Zenon
<1> QED
  BY <1>3, Zenon DEF fault

LEMMA TakeStep ==
    ASSUME NEW acc, NEW n, NEW places, NEW at, Turned(acc, n, places, at, FALSE),
           NEW w, Reads(at, places[n + 1], w), NEW min
    PROVE  Turned(TakeArg(acc, min), n + 1, places,
                  IF Is(at + w, ";") THEN at + w ELSE at + w + 1, Is(at + w, ";"))
<1> DEFINE s == acc.args
           x == ArgAt(at).address
           t == Append(s, x)
           next == at + w
           to == IF Is(next, ";") THEN next ELSE next + 1
           new == TakeArg(acc, min)
<1>1. acc = [at |-> at, args |-> s, fault |-> "", done |-> FALSE] /\ Indexed(s, n)
      /\ \A k \in 1 .. n : Settled(s[k]) /\ PlainArg(s[k]) = places[k]
  BY Zenon DEF Turned
<1>2. acc.at = at /\ acc.fault = "" /\ acc.done = FALSE
  BY TurnedParts, Zenon
<1>3. IsArg(at) /\ ArgAt(at).fault = "" /\ ArgAt(at).taken = w /\ Settled(x)
      /\ PlainArg(x) = places[n + 1]
  BY Zenon DEF Reads
<1>6. new = [at |-> to, args |-> t, fault |-> "", done |-> Is(next, ";")]
  BY <1>2, <1>3, Zenon DEF TakeArg
<1>7. /\ Indexed(t, n + 1) /\ t[n + 1] = x /\ \A k \in 1 .. n : t[k] = s[k]
  <2>1. Indexed(s, n)
    BY <1>1, Zenon
  <2> HIDE DEF s, x
  <2>2. Extends(t, s, n, x)
    BY <2>1, IndexedAppend, Zenon
  <2> HIDE DEF t
  <2> QED BY <2>2, Zenon DEF Extends
<1>8. n \in Nat
  <2>1. Indexed(s, n)
    BY <1>1, Zenon
  <2> QED BY <2>1 DEF Indexed
<1> HIDE DEF t, x, s, to, next, new
<1>9. new.args = t
  BY <1>6, TurnParts, Zenon
<1>10. \A k \in 1 .. n + 1 : Settled(t[k]) /\ PlainArg(t[k]) = places[k]
  <2>1. ASSUME NEW k \in 1 .. n + 1 PROVE Settled(t[k]) /\ PlainArg(t[k]) = places[k]
    <3>1. CASE k = n + 1
      BY <1>3, <1>7, <3>1, Zenon
    <3>2. CASE k # n + 1
      <4>1. k \in 1 .. n
        BY <1>8, <3>2
      <4> QED BY <1>1, <1>7, <4>1, Zenon
    <3> QED BY <3>1, <3>2
  <2> QED BY <2>1
<1>11. Turned(new, n + 1, places, to, Is(next, ";"))
  BY <1>6, <1>7, <1>9, <1>10, Zenon DEF Turned
<1> QED
  BY <1>11, Zenon DEF new, to, next

-----------------------------------------------------------------------------
(* The line of an instruction. *)

Ops(line) == [k \in DOMAIN line.args |-> OperandTokens(line.args[k])]

\* Where the operands of a line begin and end, counted from its first token.
EndOf(line, n) == 1 + Len(Joins(Separated(Ops(line)))[n])
StartOfArg(line, n) == EndOf(line, n - 1) + (IF n = 1 THEN 0 ELSE 1)

LEMMA InstLine ==
    ASSUME NEW line \in [inst : STRING, args : Seq(Operands)]
    PROVE  /\ LineTokens(line) \in Seq(Toks)
           /\ Len(LineTokens(line)) = Len(Listed(Ops(line))) + 2
           /\ LineTokens(line)[1] = Ident(line.inst)
           /\ \A k \in 1 .. Len(Listed(Ops(line))) : LineTokens(line)[k + 1] = Listed(Ops(line))[k]
           /\ LineTokens(line)[Len(Listed(Ops(line))) + 2] = Mark(";")
<1>1. ~Has(line, "label") /\ ~Has(line, "call") /\ Has(line, "inst") /\ ~Has(line, "base")
      /\ line.inst \in STRING /\ line.args \in Seq(Operands)
  BY LineFields
<1> DEFINE end == Mark(";")
           head == Ident(line.inst)
           mid == Listed(Ops(line))
<1>2. LineTokens(line) = <<head>> \o mid \o <<end>>
  <2> DEFINE inst == <<Ident(line.inst)>> \o Listed(Ops(line)) \o End
  <2>1. LineTokens(line) = inst
    BY <1>1, Zenon DEF LineTokens, Ops
  <2> QED BY <2>1, Zenon DEF End
<1>3. head \in Toks /\ end \in Toks
  <2>1. line.inst \in Texts /\ ";" \in Texts
    BY <1>1, Zenon DEF Texts, Signs
  <2> QED BY <2>1, TokenTypes, Zenon
<1>4. mid \in Seq(Toks)
  <2>1. Ops(line) \in Seq(Seq(Toks))
    BY <1>1, OperandsListed, Zenon DEF Ops
  <2> QED BY <2>1, ListedType, Zenon
<1> HIDE DEF head, end, mid
<1>6. /\ <<head>> \o mid \o <<end>> \in Seq(Toks)
      /\ Len(<<head>> \o mid \o <<end>>) = Len(mid) + 2
      /\ (<<head>> \o mid \o <<end>>)[1] = head
      /\ \A k \in 1 .. Len(mid) : (<<head>> \o mid \o <<end>>)[k + 1] = mid[k]
      /\ (<<head>> \o mid \o <<end>>)[Len(mid) + 2] = end
  BY <1>3, <1>4, LineOfThree
<1> DEFINE all == <<head>> \o mid \o <<end>>
<1> HIDE DEF all
<1>7. /\ all \in Seq(Toks) /\ Len(all) = Len(mid) + 2 /\ all[1] = head
      /\ \A k \in 1 .. Len(mid) : all[k + 1] = mid[k]
      /\ all[Len(mid) + 2] = end
  BY <1>6, Zenon DEF all
<1>8. LineTokens(line) = all
  BY <1>2 DEF all, mid
<1> QED
  BY <1>7, <1>8, Zenon DEF head, end, mid

\* Where a part of a part stands.
LEMMA StandsIn ==
    ASSUME NEW k \in Nat, NEW part, Len(part) \in Nat, Stands(k, part), Len(tokens) \in Nat,
           NEW a \in Nat, NEW sub, Len(sub) \in Nat, Lies(part, a, sub)
    PROVE  Stands(k + a, sub)
<1>1. k + Len(part) <= Len(tokens) + 1 /\ \A j \in 1 .. Len(part) : Tok(k + (j - 1)) = MarkedToken(part[j])
  BY DEF Stands
<1>2. a + Len(sub) <= Len(part) /\ \A j \in 1 .. Len(sub) : part[a + j] = sub[j]
  BY DEF Lies
<1>3. ASSUME NEW j \in 1 .. Len(sub) PROVE Tok((k + a) + (j - 1)) = MarkedToken(sub[j])
  <2>1. a + j \in 1 .. Len(part) /\ k + ((a + j) - 1) = (k + a) + (j - 1)
    BY <1>2
  <2>2. Tok(k + ((a + j) - 1)) = MarkedToken(part[a + j])
    BY <1>1, <2>1
  <2> QED BY <1>2, <2>1, <2>2, Zenon
<1>4. (k + a) + Len(sub) <= Len(tokens) + 1
  BY <1>1, <1>2
<1> QED
  BY <1>3, <1>4, Zenon DEF Stands

\* The token behind a part.
LEMMA TokenIn ==
    ASSUME NEW k \in Nat, NEW part, Len(part) \in Nat, Stands(k, part),
           NEW j \in 1 .. Len(part)
    PROVE  Tok(k + (j - 1)) = MarkedToken(part[j])
BY DEF Stands

-----------------------------------------------------------------------------
(* Where the elements of a list lie. *)

Upto(seqs, n) == Len(Joins(Separated(seqs))[n])

LEMMA BehindComma ==
    ASSUME NEW c \in Toks, NEW s \in Seq(Toks), NEW t, t = <<c>> \o s
    PROVE  Len(t) = 1 + Len(s) /\ Len(t) \in Nat /\ Lies(t, 1, s) /\ t[1] = c
<1> DEFINE x == <<c>>
<1>1. x \in Seq(Toks) /\ Len(x) = 1 /\ x[1] = c
  OBVIOUS
<1> HIDE DEF x
<1>2. Lies(x \o s, Len(x), s) /\ Len(x \o s) = Len(x) + Len(s)
      /\ \A i \in 1 .. Len(x) : (x \o s)[i] = x[i]
  BY <1>1, ConcatLies, ConcatElements
<1>3. t = x \o s
  BY DEF x
<1> DEFINE u == x \o s
<1> HIDE DEF u
<1>4. Lies(u, Len(x), s) /\ Len(u) = Len(x) + Len(s) /\ t = u /\ \A i \in 1 .. Len(x) : u[i] = x[i]
  BY <1>2, <1>3, Zenon DEF u
<1>5. 1 \in 1 .. Len(x) /\ Len(s) \in Nat
  BY <1>1
<1>7. u[1] = c
  BY <1>1, <1>4, <1>5
<1>8. Lies(u, 1, s) /\ Len(u) = 1 + Len(s)
  BY <1>1, <1>4, Zenon
<1>6. Lies(t, 1, s) /\ Len(t) = 1 + Len(s) /\ t[1] = c
  BY <1>4, <1>7, <1>8, Zenon
<1> QED
  BY <1>5, <1>6

LEMMA ListEnds ==
    ASSUME NEW seqs \in Seq(Seq(Toks))
    PROVE  /\ Upto(seqs, 0) = 0 /\ Upto(seqs, Len(seqs)) = Len(Listed(seqs))
           /\ Len(Listed(seqs)) \in Nat
           /\ \A n \in 0 .. Len(seqs) : Upto(seqs, n) \in 0 .. Len(Listed(seqs))
<1>1. Pieces(Separated(seqs), Toks) /\ Len(Separated(seqs)) = Len(seqs)
      /\ Listed(seqs) \in Seq(Toks)
  BY ListedType, Zenon
<1>2. /\ Len(Joins(Separated(seqs))[0]) = 0
      /\ Joins(Separated(seqs))[Len(Separated(seqs))] = Joined(Separated(seqs))
      /\ \A k \in 0 .. Len(Separated(seqs)) :
            Len(Joins(Separated(seqs))[k]) \in 0 .. Len(Joined(Separated(seqs)))
  BY <1>1, Zenon DEF Pieces
<1>3. Len(Listed(seqs)) \in Nat
  BY <1>1
<1> QED
  BY <1>1, <1>2, <1>3, Zenon DEF Upto, Listed

LEMMA ListFirst ==
    ASSUME NEW seqs \in Seq(Seq(Toks)), 1 \in 1 .. Len(seqs)
    PROVE  Upto(seqs, 1) = Len(seqs[1]) /\ Lies(Listed(seqs), 0, seqs[1])
<1>1. Pieces(Separated(seqs), Toks) /\ Len(Separated(seqs)) = Len(seqs)
      /\ Separated(seqs)[1] = seqs[1]
  <2>1. \A k \in 1 .. Len(seqs) :
           Separated(seqs)[k] = IF k = 1 THEN seqs[k] ELSE <<Mark(",")>> \o seqs[k]
    BY ListedType, Zenon
  <2>2. Separated(seqs)[1] = seqs[1]
    BY <2>1, Zenon
  <2> QED BY <2>2, ListedType, Zenon
<1>2. seqs[1] \in Seq(Toks)
  OBVIOUS
<1> DEFINE S == Separated(seqs)
           J == Joins(S)
<1>3. /\ Len(J[0]) = 0
      /\ Len(J[1]) = Len(J[1 - 1]) + Len(S[1]) /\ Lies(Joined(S), Len(J[1 - 1]), S[1])
  BY <1>1, Zenon DEF Pieces
<1> HIDE DEF S, J
<1>4. 1 - 1 = 0 /\ S[1] = seqs[1] /\ Len(seqs[1]) \in Nat
  BY <1>1, <1>2 DEF S
<1>5. Lies(Joined(S), 0, seqs[1])
  BY <1>3, <1>4, Zenon
<1>6. Len(J[1]) = Len(seqs[1])
  <2>1. Len(J[1]) = 0 + Len(seqs[1])
    BY <1>3, <1>4, Zenon
  <2> QED BY <1>4, <2>1
<1> QED
  BY <1>5, <1>6, Zenon DEF S, J, Upto, Listed

LEMMA ListNext ==
    ASSUME NEW seqs \in Seq(Seq(Toks)), NEW n \in 2 .. Len(seqs)
    PROVE  /\ Upto(seqs, n) = Upto(seqs, n - 1) + 1 + Len(seqs[n])
           /\ Lies(Listed(seqs), Upto(seqs, n - 1) + 1, seqs[n])
           /\ Upto(seqs, n - 1) + 1 \in 1 .. Len(Listed(seqs))
           /\ Listed(seqs)[Upto(seqs, n - 1) + 1] = Mark(",")
<1> DEFINE S == Separated(seqs)
           J == Joins(S)
           L == Joined(S)
           t == S[n]
           c == Mark(",")
           o == seqs[n]
           b == Upto(seqs, n - 1)
<1>0. n \in 1 .. Len(seqs) /\ n # 1 /\ n - 1 \in 0 .. Len(seqs)
  OBVIOUS
<1>1. t = <<c>> \o o /\ Pieces(S, Toks) /\ Len(S) = Len(seqs)
  <2>1. \A k \in 1 .. Len(seqs) :
           Separated(seqs)[k] = IF k = 1 THEN seqs[k] ELSE <<Mark(",")>> \o seqs[k]
    BY ListedType, Zenon
  <2>2. t = <<c>> \o o
    BY <1>0, <2>1, Zenon
  <2> QED BY <2>2, ListedType, Zenon
<1>2. c \in Toks /\ o \in Seq(Toks) /\ Len(o) \in Nat
  <2>1. c \in Toks
    BY TokenTypes, Zenon DEF Texts, Signs
  <2>2. o \in Seq(Toks)
    BY <1>0
  <2> HIDE DEF c, o
  <2>3. Len(o) \in Nat
    BY <2>2
  <2> QED BY <2>1, <2>2, <2>3
<1>3. Len(J[n]) = b + Len(t) /\ Lies(L, b, t)
  BY <1>0, <1>1, Zenon DEF Pieces, Upto
<1>4. L = Listed(seqs) /\ Len(J[n]) = Upto(seqs, n) /\ Len(L) \in Nat /\ b \in Nat
  <2>1. \A k \in 0 .. Len(seqs) : Upto(seqs, k) \in 0 .. Len(Listed(seqs))
    BY ListEnds, Zenon
  <2>2. b \in 0 .. Len(Listed(seqs)) /\ Len(Listed(seqs)) \in Nat
    BY <1>0, <2>1, ListEnds, Zenon
  <2>3. b \in Nat
    BY <2>2
  <2> QED BY <2>2, <2>3 DEF Listed, Upto
<1> HIDE DEF S, J, L, t, c, o, b
<1>5. Len(t) = 1 + Len(o) /\ Len(t) \in Nat /\ Lies(t, 1, o) /\ t[1] = c
  BY <1>1, <1>2, BehindComma
<1>6. Lies(L, b + 1, o)
  BY <1>2, <1>3, <1>4, <1>5, LiesThrough
<1>7. b + 1 \in 1 .. Len(L) /\ L[b + 1] = c
  <2>1. b + Len(t) <= Len(L) /\ \A j \in 1 .. Len(t) : L[b + j] = t[j]
    BY <1>3 DEF Lies
  <2>2. 1 \in 1 .. Len(t)
    BY <1>2, <1>5
  <2>3. L[b + 1] = c
    BY <1>5, <2>1, <2>2, Zenon
  <2> QED BY <1>2, <1>4, <1>5, <2>1, <2>3
<1>8. Upto(seqs, n) = b + 1 + Len(o)
  BY <1>2, <1>3, <1>4, <1>5
<1> QED
  BY <1>4, <1>6, <1>7, <1>8, Zenon DEF b, c, o

\* The operands of a line and the marks behind them, in front of the parser.
ArgStands(line, n) ==
    /\ StartOfArg(line, n) \in Nat /\ EndOf(line, n) \in Nat
    /\ EndOf(line, n) = StartOfArg(line, n) + Len(OperandTokens(line.args[n]))
    /\ Stands(pos + StartOfArg(line, n), OperandTokens(line.args[n]))
    /\ n < Len(line.args) => Is(pos + EndOf(line, n), ",")
    /\ n = Len(line.args) => Is(pos + EndOf(line, n), ";")

ListStands(line) ==
    /\ Stands(pos + 1, Listed(Ops(line)))
    /\ EndsAt(pos + (1 + Len(Listed(Ops(line)))))
    /\ Tok(pos) = MarkedToken(Ident(line.inst))
    /\ Len(LineTokens(line)) = Len(Listed(Ops(line))) + 2
    /\ Ops(line) \in Seq(Seq(Toks)) /\ Len(Ops(line)) = Len(line.args) /\ Len(line.args) \in Nat
    /\ \A k \in 1 .. Len(line.args) : Ops(line)[k] = OperandTokens(line.args[k])

LEMMA LineStands ==
    ASSUME NEW line \in [inst : STRING, args : Seq(Operands)],
           pos \in Nat, Len(tokens) \in Nat, Stands(pos, LineTokens(line))
    PROVE  ListStands(line)
<1> DEFINE ts == LineTokens(line)
           L == Listed(Ops(line))
           args == line.args
<1>1. /\ Len(ts) = Len(L) + 2 /\ ts[1] = Ident(line.inst)
      /\ \A k \in 1 .. Len(L) : ts[k + 1] = L[k]
      /\ ts[Len(L) + 2] = Mark(";")
  BY InstLine, Zenon
<1>2. args \in Seq(Operands)
  BY LineFields
<1>3. Ops(line) \in Seq(Seq(Toks)) /\ Len(Ops(line)) = Len(args)
  BY <1>2, OperandsListed, Zenon DEF Ops
<1>4. Len(L) \in Nat
  BY <1>3, ListEnds
<1>5. Len(args) \in Nat /\ \A k \in 1 .. Len(args) : Ops(line)[k] = OperandTokens(args[k])
  <2>1. DOMAIN args = 1 .. Len(args) /\ Len(args) \in Nat
    BY <1>2
  <2> HIDE DEF args
  <2>2. Ops(line) = [k \in DOMAIN args |-> OperandTokens(args[k])]
    BY DEF args, Ops
  <2> QED BY <2>1, <2>2
<1>6. Stands(pos, ts)
  OBVIOUS
<1> HIDE DEF ts, L, args
<1>l. Len(ts) = Len(L) + 2
  BY <1>1, Zenon
<1>7. Len(ts) \in Nat /\ Lies(ts, 1, L) /\ 1 \in Nat
  <2>1. \A j \in 1 .. Len(L) : ts[1 + j] = L[j]
    <3>1. \A j \in 1 .. Len(L) : 1 + j = j + 1
      BY <1>4
    <3> QED BY <1>1, <3>1, Zenon
  <2>2. 1 + Len(L) <= Len(ts) /\ Len(ts) \in Nat
    BY <1>l, <1>4
  <2> QED BY <2>1, <2>2, Zenon DEF Lies
<1>8. Stands(pos + 1, L)
  BY <1>4, <1>6, <1>7, StandsIn, Zenon
<1>9. Tok(pos) = MarkedToken(Ident(line.inst))
  <2>1. 1 \in 1 .. Len(ts) /\ pos + (1 - 1) = pos
    BY <1>l, <1>4
  <2>2. Tok(pos + (1 - 1)) = MarkedToken(ts[1])
    BY <1>6, <1>7, <2>1, TokenIn, Zenon
  <2> QED BY <1>1, <2>1, <2>2, Zenon
<1>10. EndsAt(pos + (1 + Len(L)))
  <2>1. Len(L) + 2 \in 1 .. Len(ts) /\ pos + ((Len(L) + 2) - 1) = pos + (1 + Len(L))
    BY <1>l, <1>4
  <2>2. Tok(pos + ((Len(L) + 2) - 1)) = MarkedToken(ts[Len(L) + 2])
    BY <1>6, <1>7, <2>1, TokenIn, Zenon
  <2>3. ";" \in Signs
    BY DEF Signs
  <2>4. Tok(pos + (1 + Len(L))) = MarkedToken(Mark(";"))
    BY <1>1, <2>1, <2>2, Zenon
  <2> QED BY <2>3, <2>4, MarkSeen, Zenon DEF EndsAt
<1> QED
  BY <1>1, <1>3, <1>5, <1>8, <1>9, <1>10, Zenon DEF ListStands, ts, L, args

LEMMA FirstStands ==
    ASSUME NEW line, ListStands(line), pos \in Nat, Len(tokens) \in Nat, 1 \in 1 .. Len(line.args)
    PROVE  ArgStands(line, 1)
<1> DEFINE seqs == Ops(line)
           L == Listed(seqs)
           o == seqs[1]
           m == Len(line.args)
<1>1. seqs \in Seq(Seq(Toks)) /\ Len(seqs) = m /\ m \in Nat /\ o = OperandTokens(line.args[1])
  BY Zenon DEF ListStands
<1>2. Stands(pos + 1, L) /\ EndsAt(pos + (1 + Len(L)))
  BY Zenon DEF ListStands
<1>3. 1 \in 1 .. Len(seqs) /\ 1 \in 0 .. Len(seqs)
  BY <1>1
<1>4. Upto(seqs, 1) = Len(o) /\ Lies(L, 0, o) /\ Upto(seqs, 0) = 0 /\ Upto(seqs, m) = Len(L)
      /\ Len(L) \in Nat /\ Upto(seqs, 1) \in 0 .. Len(L)
  BY <1>1, <1>3, ListFirst, ListEnds, Zenon
<1>5. EndOf(line, 1) = 1 + Upto(seqs, 1) /\ EndOf(line, 1 - 1) = 1 + Upto(seqs, 1 - 1)
  BY Zenon DEF EndOf, Upto
<1>6. StartOfArg(line, 1) = EndOf(line, 1 - 1) + 0
  BY Zenon DEF StartOfArg
<1> DEFINE e == EndOf(line, 1)
           st == StartOfArg(line, 1)
           oo == OperandTokens(line.args[1])
<1>6a. 2 \in 2 .. m => Upto(seqs, 1) + 1 \in 1 .. Len(L) /\ L[Upto(seqs, 1) + 1] = Mark(",")
  <2> SUFFICES ASSUME 2 \in 2 .. m PROVE Upto(seqs, 1) + 1 \in 1 .. Len(L) /\ L[Upto(seqs, 1) + 1] = Mark(",")
    BY Zenon
  <2>1. 2 \in 2 .. Len(seqs) /\ 2 - 1 = 1
    BY <1>1
  <2>2. Upto(seqs, 2 - 1) + 1 \in 1 .. Len(L) /\ L[Upto(seqs, 2 - 1) + 1] = Mark(",")
    BY <1>1, <2>1, ListNext, Zenon
  <2> QED BY <2>1, <2>2, Zenon
<1> HIDE DEF seqs, L, o, e, st, oo, m
<1>7. Len(o) \in Nat /\ o = oo
  BY <1>1, <1>4 DEF oo
<1>8. st = 1 /\ e = 1 + Len(o)
  <2>1. 1 - 1 = 0
    OBVIOUS
  <2>2. EndOf(line, 1 - 1) = 1 + 0
    BY <1>4, <1>5, <2>1, Zenon
  <2> QED BY <1>4, <1>5, <1>6, <2>2 DEF e, st
<1>9. Stands(pos + st, o)
  <2>1. Stands((pos + 1) + 0, o)
    <3>1. pos + 1 \in Nat /\ 0 \in Nat
      OBVIOUS
    <3> QED BY <1>2, <1>4, <1>7, <3>1, StandsIn
  <2>2. (pos + 1) + 0 = pos + st
    BY <1>8
  <2> QED BY <2>1, <2>2, Zenon
<1>10. 1 < m => Is(pos + e, ",")
  <2> SUFFICES ASSUME 1 < m PROVE Is(pos + e, ",")
    BY Zenon
  <2>1. 2 \in 2 .. m
    BY <1>1
  <2>2. Upto(seqs, 1) + 1 \in 1 .. Len(L) /\ L[Upto(seqs, 1) + 1] = Mark(",")
    BY <1>6a, <2>1, Zenon
  <2>3. pos + 1 \in Nat
    OBVIOUS
  <2>4. Tok((pos + 1) + ((Upto(seqs, 1) + 1) - 1)) = MarkedToken(L[Upto(seqs, 1) + 1])
    BY <1>2, <1>4, <2>2, <2>3, TokenIn, Zenon
  <2>5. (pos + 1) + ((Upto(seqs, 1) + 1) - 1) = pos + e
    BY <1>4, <1>7, <1>8
  <2>6. "," \in Signs
    BY DEF Signs
  <2>7. Tok(pos + e) = MarkedToken(Mark(","))
    BY <2>2, <2>4, <2>5, Zenon
  <2> QED BY <2>6, <2>7, MarkSeen, Zenon
<1>11. 1 = m => EndsAt(pos + e)
  <2> SUFFICES ASSUME 1 = m PROVE EndsAt(pos + e)
    OBVIOUS
  <2>1. Len(L) = Len(o)
    BY <1>4, Zenon
  <2>2. 1 + Len(L) = e
    BY <1>8, <2>1
  <2> QED BY <1>2, <2>2, Zenon
<1>12. st \in Nat /\ e \in Nat /\ e = st + Len(oo)
  BY <1>7, <1>8
<1> QED
  BY <1>7, <1>9, <1>10, <1>11, <1>12, Zenon DEF ArgStands, e, st, oo, m, EndsAt

\* The comma in front of the element behind the first n.
LEMMA CommaAfter ==
    ASSUME NEW seqs \in Seq(Seq(Toks)), NEW n \in 1 .. Len(seqs), n < Len(seqs),
           NEW k \in Nat, Stands(k, Listed(seqs)), Len(tokens) \in Nat
    PROVE  Is(k + Upto(seqs, n), ",")
<1> DEFINE L == Listed(seqs)
           u == Upto(seqs, n)
<1>1. n + 1 \in 2 .. Len(seqs) /\ (n + 1) - 1 = n /\ n \in 0 .. Len(seqs)
  OBVIOUS
<1>2. Upto(seqs, (n + 1) - 1) + 1 \in 1 .. Len(L) /\ L[Upto(seqs, (n + 1) - 1) + 1] = Mark(",")
  BY <1>1, ListNext, Zenon
<1>3. u + 1 \in 1 .. Len(L) /\ L[u + 1] = Mark(",")
  BY <1>1, <1>2, Zenon
<1>4. Len(L) \in Nat /\ u \in 0 .. Len(L) /\ Stands(k, L)
  BY <1>1, ListEnds, Zenon
<1> HIDE DEF L, u
<1>5. Tok(k + ((u + 1) - 1)) = MarkedToken(L[u + 1])
  BY <1>3, <1>4, TokenIn, Zenon
<1>6. k + ((u + 1) - 1) = k + u
  BY <1>4
<1>7. "," \in Signs
  BY DEF Signs
<1>8. Tok(k + u) = MarkedToken(Mark(","))
  BY <1>3, <1>5, <1>6, Zenon
<1> QED
  BY <1>7, <1>8, MarkSeen, Zenon DEF u

LEMMA NextStands ==
    ASSUME NEW line, ListStands(line), pos \in Nat, Len(tokens) \in Nat,
           NEW n \in 2 .. Len(line.args)
    PROVE  ArgStands(line, n) /\ StartOfArg(line, n) = EndOf(line, n - 1) + 1
<1> DEFINE seqs == Ops(line)
           L == Listed(seqs)
           o == seqs[n]
           m == Len(line.args)
           u == Upto(seqs, n)
           b == Upto(seqs, n - 1)
           e == EndOf(line, n)
           st == StartOfArg(line, n)
           oo == OperandTokens(line.args[n])
<1>1. seqs \in Seq(Seq(Toks)) /\ Len(seqs) = m /\ m \in Nat
      /\ \A k \in 1 .. m : seqs[k] = OperandTokens(line.args[k])
  BY Zenon DEF ListStands
<1>2. Stands(pos + 1, L) /\ EndsAt(pos + (1 + Len(L)))
  BY Zenon DEF ListStands
<1>3. n \in 2 .. Len(seqs) /\ n \in 0 .. Len(seqs) /\ n - 1 \in 0 .. Len(seqs) /\ n \in 1 .. m
      /\ n \in Nat /\ n # 1
  BY <1>1
<1>4. u = b + 1 + Len(o) /\ Lies(L, b + 1, o) /\ Upto(seqs, m) = Len(L)
      /\ Len(L) \in Nat /\ u \in 0 .. Len(L) /\ b \in 0 .. Len(L)
  BY <1>1, <1>3, ListNext, ListEnds, Zenon
<1>5. e = 1 + u /\ EndOf(line, n - 1) = 1 + b
  BY Zenon DEF EndOf, Upto
<1>6. st = EndOf(line, n - 1) + 1
  BY <1>3, Zenon DEF StartOfArg
<1>7. o = oo
  BY <1>1, <1>3, Zenon
<1>7a. Len(o) \in Nat
  <2>1. o \in Seq(Toks)
    BY <1>1, <1>3
  <2> HIDE DEF o
  <2> QED BY <2>1
<1>8. n < m => Is((pos + 1) + u, ",")
  <2>1. pos + 1 \in Nat /\ n \in 1 .. Len(seqs)
    BY <1>1, <1>3
  <2> QED BY <1>1, <1>2, <2>1, CommaAfter, Zenon
<1> HIDE DEF seqs, L, o, e, st, oo, m, b, u
<1>9. st = b + 2 /\ e = u + 1 /\ st \in Nat /\ e \in Nat /\ e = st + Len(o)
      /\ (pos + 1) + (b + 1) = pos + st /\ (pos + 1) + u = pos + e
      /\ pos + 1 \in Nat /\ b + 1 \in Nat
  <2> DEFINE k == Len(o)
             f == EndOf(line, n - 1)
  <2>1. /\ u = b + 1 + k /\ u \in Nat /\ b \in Nat /\ k \in Nat
        /\ e = 1 + u /\ f = 1 + b /\ st = f + 1
    BY <1>4, <1>5, <1>6, <1>7a
  <2> HIDE DEF k, f
  <2>2. st = b + 2 /\ e = u + 1 /\ e = st + k /\ st \in Nat /\ e \in Nat /\ b + 1 \in Nat
    BY <2>1
  <2>3. (pos + 1) + (b + 1) = pos + st /\ (pos + 1) + u = pos + e /\ pos + 1 \in Nat
    BY <2>1, <2>2
  <2> QED BY <2>2, <2>3 DEF k
<1>10. Stands((pos + 1) + (b + 1), o)
  BY <1>2, <1>4, <1>7a, <1>9, StandsIn, Zenon
<1>11. Stands(pos + st, oo)
  BY <1>7, <1>9, <1>10, Zenon
<1>12. n < m => Is(pos + e, ",")
  BY <1>8, <1>9, Zenon
<1>13. n = m => EndsAt(pos + e)
  <2> SUFFICES ASSUME n = m PROVE EndsAt(pos + e)
    OBVIOUS
  <2>1. Len(L) = u
    BY <1>4, Zenon DEF u
  <2>2. 1 + Len(L) = e
    BY <1>4, <1>9, <2>1
  <2> QED BY <1>2, <2>2, Zenon
<1>14. st \in Nat /\ e \in Nat /\ e = st + Len(oo)
  BY <1>7, <1>9, Zenon
<1>15. ArgStands(line, n)
  BY <1>11, <1>12, <1>13, <1>14, Zenon DEF ArgStands, e, st, oo, m, EndsAt
<1> QED
  BY <1>6, <1>15 DEF st

\* How far the parser goes for an operand: over its tokens, or up to the bracket
\* that closes the last one an instruction may have.
Spans(line, n, max) ==
    \/ Width(line.args[n]) = Len(OperandTokens(line.args[n]))
    \/ /\ n = max
       /\ Width(line.args[n]) + 1 = Len(OperandTokens(line.args[n]))
       /\ ~Is(pos + StartOfArg(line, n) + Width(line.args[n]), ";")

ArgReads(line, n, max, places) ==
    /\ Reads(pos + StartOfArg(line, n), places[n], Width(line.args[n]))
    /\ Spans(line, n, max) /\ Width(line.args[n]) \in Nat

LineReads(line, max, places) ==
    \A n \in 1 .. Len(line.args) : ArgReads(line, n, max, places) /\ ArgStands(line, n)

FirstTurn(acc) == acc = [at |-> pos + 1, args |-> <<>>, fault |-> "", done |-> Is(pos + 1, ";")]

\* Behind the first n operands of a line.
TurnAt(line, acc, n, max, places) ==
    /\ n < Len(line.args) => Turned(acc, n, places, pos + StartOfArg(line, n + 1), FALSE)
    /\ n = Len(line.args) =>
          \/ Turned(acc, n, places, pos + EndOf(line, n), TRUE)
          \/ n = max /\ Turned(acc, n, places, pos + EndOf(line, n), FALSE)

LEMMA ArgNotEnd ==
    ASSUME NEW k \in Nat, IsArg(k)
    PROVE  ~Is(k, ";")
<1>1. Is(k, "%") \/ Is(k, "Number") \/ Is(k, "[")
  BY Rules, Zenon DEF IsArg
<1> QED
  BY <1>1, Zenon DEF Is

LEMMA NoArgs ==
    Indexed(<<>>, 0)
<1>1. 0 \in Nat /\ <<>> = [k \in 1 .. 0 |-> <<>>[k]]
  OBVIOUS
<1> QED BY <1>1, Zenon DEF Indexed

LEMMA TurnBase ==
    ASSUME NEW line, ListStands(line), pos \in Nat, Len(tokens) \in Nat, NEW max \in Nat, NEW places,
           LineReads(line, max, places), NEW acc, FirstTurn(acc)
    PROVE  TurnAt(line, acc, 0, max, places)
<1> DEFINE m == Len(line.args)
<1>1. m \in Nat /\ Len(Ops(line)) = m /\ Ops(line) \in Seq(Seq(Toks))
      /\ EndsAt(pos + (1 + Len(Listed(Ops(line)))))
  BY Zenon DEF ListStands
<1>2. EndOf(line, 0) = 1
  <2>1. Upto(Ops(line), 0) = 0
    BY <1>1, ListEnds, Zenon
  <2>2. EndOf(line, 0) = 1 + 0
    BY <2>1, Zenon DEF EndOf, Upto
  <2> QED BY <2>2
<1>0. \A k \in 1 .. 0 : FALSE
  OBVIOUS
<1>3. \A done, at : done = Is(pos + 1, ";") /\ at = pos + 1 => Turned(acc, 0, places, at, done)
  <2> SUFFICES ASSUME NEW done, NEW at, done = Is(pos + 1, ";"), at = pos + 1
               PROVE  Turned(acc, 0, places, at, done)
    BY Zenon
  <2> DEFINE none == <<>>
             fault == ""
  <2>1. acc = [at |-> at, args |-> none, fault |-> fault, done |-> done]
    BY Zenon DEF FirstTurn
  <2>2. Indexed(none, 0)
    BY NoArgs, Zenon
  <2> HIDE DEF none, fault
  <2>3. acc.args = none
    BY <2>1, TurnParts, Zenon
  <2>4. \A k \in 1 .. 0 : Settled(acc.args[k]) /\ PlainArg(acc.args[k]) = places[k]
    BY <1>0, Zenon
  <2>5. acc = [at |-> at, args |-> acc.args, fault |-> fault, done |-> done] /\ Indexed(acc.args, 0)
    BY <2>1, <2>2, <2>3, Zenon
  <2> QED BY <2>4, <2>5, Zenon DEF Turned, fault
<1>4. ASSUME 0 < m PROVE Turned(acc, 0, places, pos + StartOfArg(line, 0 + 1), FALSE)
  <2>1. 1 \in 1 .. m /\ 0 + 1 = 1 /\ 1 - 1 = 0
    BY <1>1, <1>4
  <2>2. StartOfArg(line, 1) = EndOf(line, 0) + 0
    BY <2>1, Zenon DEF StartOfArg
  <2>3. pos + StartOfArg(line, 1) = pos + 1 /\ pos + 1 \in Nat
    BY <1>2, <2>2
  <2>4. IsArg(pos + 1)
    BY <2>1, <2>3, Zenon DEF LineReads, ArgReads, Reads
  <2>5. ~Is(pos + 1, ";")
    BY <2>3, <2>4, ArgNotEnd, Zenon
  <2>6. FALSE = Is(pos + 1, ";")
    BY <2>5, Zenon DEF Is
  <2> QED BY <1>3, <2>1, <2>3, <2>6, Zenon
<1>5. ASSUME 0 = m PROVE Turned(acc, 0, places, pos + EndOf(line, 0), TRUE)
  <2>1. Upto(Ops(line), 0) = 0 /\ Upto(Ops(line), m) = Len(Listed(Ops(line)))
    BY <1>1, ListEnds, Zenon
  <2>2. Len(Listed(Ops(line))) = 0
    BY <1>5, <2>1, Zenon
  <2>3. 1 + 0 = 1
    OBVIOUS
  <2>4. EndsAt(pos + 1)
    BY <1>1, <2>2, <2>3, Zenon
  <2>5. TRUE = Is(pos + 1, ";")
    BY <2>4, Zenon DEF EndsAt, Is
  <2> QED BY <1>2, <1>3, <2>5, Zenon
<1> QED
  BY <1>4, <1>5, Zenon DEF TurnAt

LEMMA TurnNext ==
    ASSUME NEW line, ListStands(line), pos \in Nat, Len(tokens) \in Nat, NEW max \in Nat, NEW places,
           LineReads(line, max, places), Len(line.args) <= max, NEW n \in Nat, n + 1 <= Len(line.args),
           NEW acc, TurnAt(line, acc, n, max, places), NEW min
    PROVE  TurnAt(line, TakeArg(acc, min), n + 1, max, places)
<1> DEFINE m == Len(line.args)
           at == pos + StartOfArg(line, n + 1)
           w == Width(line.args[n + 1])
           new == TakeArg(acc, min)
           e == EndOf(line, n + 1)
           o == OperandTokens(line.args[n + 1])
           st == StartOfArg(line, n + 1)
<1>1. m \in Nat
  BY Zenon DEF ListStands
<1>2. n < m /\ n + 1 \in 1 .. m /\ n + 1 \in Nat
  BY <1>1
<1>3. Turned(acc, n, places, at, FALSE)
  BY <1>2, Zenon DEF TurnAt
<1>4. ArgReads(line, n + 1, max, places) /\ ArgStands(line, n + 1)
  BY <1>2, Zenon DEF LineReads
<1>5. Reads(at, places[n + 1], w) /\ Spans(line, n + 1, max) /\ w \in Nat
  BY <1>4, Zenon DEF ArgReads
<1>6. /\ st \in Nat /\ e \in Nat /\ e = st + Len(o)
      /\ n + 1 < m => Is(pos + e, ",")
      /\ n + 1 = m => Is(pos + e, ";")
  BY <1>4, Zenon DEF ArgStands
<1>7. Turned(new, n + 1, places, IF EndsAt(at + w) THEN at + w ELSE at + w + 1, EndsAt(at + w))
  BY <1>3, <1>5, TakeStep, Zenon DEF EndsAt
<1>8. n + 1 < m => StartOfArg(line, (n + 1) + 1) = e + 1
  <2> SUFFICES ASSUME n + 1 < m PROVE StartOfArg(line, (n + 1) + 1) = e + 1
    OBVIOUS
  <2>1. (n + 1) + 1 \in 2 .. m /\ ((n + 1) + 1) - 1 = n + 1
    BY <1>1
  <2> QED BY <2>1, NextStands, Zenon
<1>9. \/ w = Len(o)
      \/ n + 1 = max /\ w + 1 = Len(o) /\ ~EndsAt(pos + st + w)
  BY <1>5, Zenon DEF Spans, EndsAt
<1>10. (EndsAt(at + w) <=> TRUE) \/ (EndsAt(at + w) <=> FALSE)
  OBVIOUS
<1>11. EndsAt(at + w) \in BOOLEAN
  BY DEF EndsAt, Is
<1> HIDE DEF m, w, new, e, o, st
<1>6a. st \in Nat /\ e \in Nat /\ e = st + Len(o)
  BY <1>6, Zenon
<1>12. at = pos + st
  BY DEF st
<1> HIDE DEF at
<1>13. CASE w = Len(o)
  <2>1. at + w = pos + e /\ at + w + 1 = pos + (e + 1)
    BY <1>5, <1>6a, <1>12, <1>13
  <2>2. CASE n + 1 < m
    <3>1. Is(pos + e, ",")
      BY <1>6, <2>2, Zenon
    <3>2. EndsAt(pos + e) = FALSE
      BY <3>1, Zenon DEF EndsAt, Is
    <3>3. Turned(new, n + 1, places, pos + (e + 1), FALSE)
      BY <1>7, <2>1, <3>2, Zenon
    <3>4. n + 1 # m
      BY <1>1, <2>2
    <3> QED BY <1>8, <2>2, <3>3, <3>4, Zenon DEF TurnAt, new, e, m
  <2>3. CASE n + 1 = m
    <3>1. EndsAt(pos + e)
      BY <1>6, <2>3, Zenon DEF EndsAt
    <3>2. EndsAt(pos + e) = TRUE
      BY <3>1, Zenon DEF EndsAt, Is
    <3>3. Turned(new, n + 1, places, pos + e, TRUE)
      BY <1>7, <2>1, <3>2, Zenon
    <3>4. ~(n + 1 < m)
      BY <1>1, <2>3
    <3> QED BY <3>3, <3>4, Zenon DEF TurnAt, new, e, m
  <2> QED BY <1>1, <1>2, <2>2, <2>3
<1>14. CASE n + 1 = max /\ w + 1 = Len(o) /\ ~EndsAt(pos + st + w)
  <2>1. at + w = pos + st + w /\ at + w + 1 = pos + e
    BY <1>5, <1>6a, <1>12, <1>14
  <2>2. EndsAt(at + w) = FALSE
    BY <1>11, <1>14, <2>1, Zenon
  <2>3. Turned(new, n + 1, places, pos + e, FALSE)
    BY <1>7, <2>1, <2>2, Zenon
  <2>4. m <= max
    BY DEF m
  <2>5. ~(n + 1 < m)
    BY <1>1, <1>14, <2>4
  <2> QED BY <1>14, <2>3, <2>5, Zenon DEF TurnAt, new, e, m
<1> QED
  BY <1>9, <1>13, <1>14

LEMMA TurnsAt ==
    ASSUME NEW line, ListStands(line), pos \in Nat, Len(tokens) \in Nat, NEW info, info.max \in Nat,
           NEW places, LineReads(line, info.max, places), Len(line.args) <= info.max
    PROVE  TurnAt(line, Turns(info)[Len(line.args)], Len(line.args), info.max, places)
<1> DEFINE m == Len(line.args)
           max == info.max
           T == Turns(info)
           S == {n \in Nat : n <= m => TurnAt(line, T[n], n, max, places)}
<1>0. m \in Nat /\ max \in Nat /\ m <= max
  BY Zenon DEF ListStands
<1>1. T[0] = [at |-> pos + 1, args |-> <<>>, fault |-> "", done |-> Is(pos + 1, ";")]
      /\ \A n \in 1 .. max : T[n] = TakeArg(T[n - 1], info.min)
  BY TurnsAre, Zenon
<1>2. TurnAt(line, T[0], 0, max, places)
  <2>1. FirstTurn(T[0])
    BY <1>1, Zenon DEF FirstTurn
  <2> QED BY <1>0, <2>1, TurnBase, Zenon
<1>3. ASSUME NEW n \in Nat, n + 1 <= m, TurnAt(line, T[n], n, max, places)
      PROVE  TurnAt(line, T[n + 1], n + 1, max, places)
  <2>1. n + 1 \in 1 .. max /\ (n + 1) - 1 = n
    BY <1>0, <1>3
  <2>2. T[n + 1] = TakeArg(T[n], info.min)
    BY <1>1, <2>1, Zenon
  <2>3. TurnAt(line, TakeArg(T[n], info.min), n + 1, max, places)
    BY <1>0, <1>3, TurnNext, Zenon
  <2> QED BY <2>2, <2>3, Zenon
<1> HIDE DEF T, m, max
<1>4. 0 \in S
  BY <1>2
<1>5. ASSUME NEW n \in Nat, n \in S PROVE n + 1 \in S
  <2>1. ASSUME n + 1 <= m PROVE TurnAt(line, T[n + 1], n + 1, max, places)
    <3>1. n <= m
      BY <1>0, <2>1
    <3>2. TurnAt(line, T[n], n, max, places)
      BY <1>5, <3>1
    <3> QED BY <1>3, <2>1, <3>2, Zenon
  <2> QED BY <2>1
<1> HIDE DEF S
<1>6. Nat \subseteq S
  BY <1>4, <1>5, SetInduction
<1>7. m \in S /\ m <= m
  BY <1>0, <1>6
<1>8. TurnAt(line, T[m], m, max, places)
  BY <1>7, Zenon DEF S
<1> QED
  BY <1>8, Zenon DEF T, m, max

LEMMA TurnsRest ==
    ASSUME NEW info, info.max \in Nat, NEW m \in Nat, m <= info.max, NEW places, NEW at,
           Turned(Turns(info)[m], m, places, at, TRUE)
    PROVE  Turned(Turns(info)[info.max], m, places, at, TRUE)
<1> DEFINE max == info.max
           T == Turns(info)
           S == {j \in Nat : m + j <= max => T[m + j] = T[m]}
<1>0. max \in Nat /\ m <= max
  OBVIOUS
<1>1. \A n \in 1 .. max : T[n] = TakeArg(T[n - 1], info.min)
  BY TurnsAre, Zenon
<1>2. T[m].done = TRUE
  <2> DEFINE acc == T[m]
  <2>1. Turned(acc, m, places, at, TRUE)
    OBVIOUS
  <2> HIDE DEF acc
  <2>2. \A done : Turned(acc, m, places, at, done) => acc.done = done
    BY TurnedParts, Zenon
  <2>3. acc.done = TRUE
    BY <2>1, <2>2
  <2> QED BY <2>3 DEF acc
<1>3. TakeArg(T[m], info.min) = T[m]
  BY <1>2, Zenon DEF TakeArg
<1> HIDE DEF T, max
<1>4. 0 \in S
  <2>1. m + 0 = m
    OBVIOUS
  <2> QED BY <2>1
<1>5. ASSUME NEW j \in Nat, j \in S PROVE j + 1 \in S
  <2>1. ASSUME m + (j + 1) <= max PROVE T[m + (j + 1)] = T[m]
    <3>1. m + (j + 1) \in 1 .. max /\ (m + (j + 1)) - 1 = m + j /\ m + j <= max
      BY <1>0, <2>1
    <3>2. T[m + j] = T[m]
      BY <1>5, <3>1
    <3>3. T[m + (j + 1)] = TakeArg(T[m + j], info.min)
      BY <1>1, <3>1, Zenon
    <3> QED BY <1>3, <3>2, <3>3, Zenon
  <2> QED BY <2>1
<1>6. Nat \subseteq S
  <2> HIDE DEF S
  <2> QED BY <1>4, <1>5, SetInduction
<1>7. max - m \in Nat /\ m + (max - m) = max /\ max <= max
  BY <1>0
<1>8. T[max] = T[m]
  BY <1>6, <1>7
<1> QED
  BY <1>8, Zenon DEF T, max

\* What the turns made of the operands of a line.
Taken(args, n, places) ==
    /\ Indexed(args, n)
    /\ \A k \in 1 .. n : Settled(args[k]) /\ PlainArg(args[k]) = places[k]

LEMMA InstructionStep ==
    ASSUME Instruction, NEW line \in [inst : STRING, args : Seq(Operands)],
           pos \in Nat, Len(tokens) \in Nat, Stands(pos, LineTokens(line)),
           line.inst \in DOMAIN Insts, Len(line.args) <= Insts[line.inst].max,
           NEW places, LineReads(line, Insts[line.inst].max, places)
    PROVE  /\ \E args : /\ AddLine([inst |-> line.inst, args |-> args])
                        /\ Taken(args, Len(line.args), places)
           /\ pos' = pos + Len(LineTokens(line))
           /\ UNCHANGED <<program, tokens, layers, functions, status, parsed, parses>>
<1> DEFINE info == Insts[line.inst]
           m == Len(line.args)
           acc == Turns(info)[info.max]
           e == EndOf(line, m)
           at == pos + e
           n == Len(LineTokens(line))
<1>0. info.max \in Nat
  BY AmasmConstants
<1>1. ListStands(line)
  BY LineStands
<1>2. m \in Nat /\ Tok(pos) = MarkedToken(Ident(line.inst)) /\ n = Len(Listed(Ops(line))) + 2
      /\ Ops(line) \in Seq(Seq(Toks)) /\ Len(Ops(line)) = m
  BY <1>1, Zenon DEF ListStands
<1>3. Tok(pos).lit = line.inst
  BY <1>2, MarkedTypes, Zenon
<1>4. TurnAt(line, Turns(info)[m], m, info.max, places)
  BY <1>0, <1>1, TurnsAt, Zenon
<1>5. \E done : Turned(acc, m, places, at, done)
  <2>1. \/ Turned(Turns(info)[m], m, places, at, TRUE)
        \/ m = info.max /\ Turned(Turns(info)[m], m, places, at, FALSE)
    BY <1>4, Zenon DEF TurnAt
  <2>2. CASE Turned(Turns(info)[m], m, places, at, TRUE)
    <3>1. Turned(acc, m, places, at, TRUE)
      BY <1>0, <1>2, <2>2, TurnsRest, Zenon
    <3> QED BY <3>1
  <2>3. CASE m = info.max /\ Turned(Turns(info)[m], m, places, at, FALSE)
    <3>1. Turned(acc, m, places, at, FALSE)
      BY <2>3, Zenon
    <3> QED BY <3>1
  <2> QED BY <2>1, <2>2, <2>3
<1>6. acc.at = at /\ acc.fault = "" /\ Taken(acc.args, m, places)
  <2>1. PICK done : Turned(acc, m, places, at, done)
    BY <1>5
  <2> HIDE DEF acc, at
  <2>2. acc.at = at /\ acc.fault = ""
    BY <2>1, TurnedParts, Zenon
  <2>3. Taken(acc.args, m, places)
    BY <2>1, Zenon DEF Turned, Taken
  <2> QED BY <2>2, <2>3, Zenon
<1>7. e + 1 = n /\ e \in Nat
  <2>1. Upto(Ops(line), m) = Len(Listed(Ops(line))) /\ Len(Listed(Ops(line))) \in Nat
    BY <1>2, ListEnds, Zenon
  <2>2. e = 1 + Len(Listed(Ops(line)))
    BY <2>1, Zenon DEF EndOf, Upto
  <2> DEFINE l == Len(Listed(Ops(line)))
  <2> HIDE DEF e, n, l
  <2>3. e = 1 + l /\ n = l + 2 /\ l \in Nat
    BY <1>2, <2>1, <2>2, Zenon DEF n, l
  <2> QED BY <2>3
<1> HIDE DEF acc, e, n, m
<1>8. /\ AddLine([inst |-> line.inst, args |-> acc.args])
      /\ Outcome(acc.fault, acc.at - pos + 1)
      /\ UNCHANGED <<program, tokens, layers, functions, parsed, parses>>
  BY <1>3, <1>6, Zenon DEF Instruction, acc
<1>9. pos' = pos + (acc.at - pos + 1) /\ UNCHANGED status
  BY <1>6, <1>8, Zenon DEF Outcome
<1>10. pos + (acc.at - pos + 1) = pos + n
  <2>1. acc.at = pos + e
    BY <1>6, Zenon
  <2>2. pos \in Nat
    OBVIOUS
  <2> QED BY <1>7, <2>1, <2>2
<1>11. pos' = pos + n
  BY <1>9, <1>10, Zenon
<1>12. \E args : AddLine([inst |-> line.inst, args |-> args]) /\ Taken(args, m, places)
  BY <1>6, <1>8, Zenon
<1> QED
  BY <1>8, <1>9, <1>11, <1>12, Zenon DEF n, m

LEMMA WideArg ==
    ASSUME NEW a \in Operands, Has(a, "diff"), a.diff # 0
    PROVE  Len(OperandTokens(a)) = 6 /\ OperandTokens(a)[6] = Mark("]") /\ Width(a) = 5
<1>1. a \in [name : STRING, diff : Int]
  BY OperandFields DEF Operands
<1>2. OperandTokens(a) =
         <<Mark("["), Mark("%"), Ident(a.name), Sign(a.diff), Amount(a.diff), Mark("]")>>
  BY <1>1, OperandTokensAre
<1> DEFINE x == Mark("[")
           y == Mark("%")
           z == Ident(a.name)
           s == Sign(a.diff)
           n == Amount(a.diff)
           c == Mark("]")
           ts == OperandTokens(a)
<1> HIDE DEF x, y, z, s, n, c, ts
<1>3. ts = <<x, y, z, s, n, c>>
  BY <1>2, Zenon DEF x, y, z, s, n, c, ts
<1>4. Len(ts) = 6 /\ ts[6] = c
  BY <1>3
<1>5. Width(a) = 5
  BY Zenon DEF Width
<1> QED
  BY <1>4, <1>5, Zenon DEF c, ts

LEMMA NarrowArg ==
    ASSUME NEW a, Has(a, "diff") => a.diff = 0
    PROVE  Width(a) = Len(OperandTokens(a))
<1>1. ~(Has(a, "diff") /\ a.diff # 0)
  OBVIOUS
<1> QED
  BY <1>1, Zenon DEF Width

\* What the operands of the instruction at line l need to be read.
ArgsReadable(lines, l, line, max) ==
    \A n \in 1 .. Len(line.args) :
        /\ ~Has(line.args[n], "field")
        /\ Has(line.args[n], "name") => Known(lines, l, line.args[n].name)
        /\ Has(line.args[n], "diff") => line.args[n].diff = 0 \/ n = max

LEMMA ArgStandsAny ==
    ASSUME NEW line, ListStands(line), pos \in Nat, Len(tokens) \in Nat, NEW n \in 1 .. Len(line.args)
    PROVE  ArgStands(line, n)
<1>1. CASE n = 1
  <2>1. 1 \in 1 .. Len(line.args)
    BY <1>1
  <2>2. ArgStands(line, 1)
    BY <2>1, FirstStands
  <2> QED BY <1>1, <2>2, Zenon
<1>2. CASE n # 1
  <2>1. Len(line.args) \in Nat
    BY Zenon DEF ListStands
  <2>2. n \in 2 .. Len(line.args)
    BY <1>2, <2>1
  <2> QED BY <2>2, NextStands, Zenon
<1> QED BY <1>1, <1>2

PlacesAre(places, p, lines, l, line) ==
    \A n \in 1 .. Len(line.args) : places[n] = Place(p, lines, l, line.args[n])

LEMMA ArgsRead ==
    ASSUME NEW line \in [inst : STRING, args : Seq(Operands)],
           pos \in Nat, Len(tokens) \in Nat, Stands(pos, LineTokens(line)),
           NEW p, NEW lines, NEW l, NEW max, ArgsReadable(lines, l, line, max),
           NEW places, PlacesAre(places, p, lines, l, line)
    PROVE  LineReads(line, max, places)
<1> SUFFICES ASSUME NEW n \in 1 .. Len(line.args)
             PROVE  ArgReads(line, n, max, places) /\ ArgStands(line, n)
  BY Zenon DEF LineReads
<1> DEFINE a == line.args[n]
           st == StartOfArg(line, n)
           e == EndOf(line, n)
           o == OperandTokens(a)
           m == Len(line.args)
<1>1. ListStands(line)
  BY LineStands
<1>2. ArgStands(line, n)
  BY <1>1, ArgStandsAny
<1>3. /\ st \in Nat /\ e = st + Len(o) /\ Stands(pos + st, o)
      /\ n < m => Is(pos + e, ",")
      /\ n = m => Is(pos + e, ";")
  BY <1>2, Zenon DEF ArgStands
<1>4. m \in Nat
  BY <1>1, Zenon DEF ListStands
<1>5. ~Is(pos + e, ".")
  <2>1. n < m \/ n = m
    BY <1>4
  <2>2. Is(pos + e, ",") \/ Is(pos + e, ";")
    BY <1>3, <2>1, Zenon
  <2> QED BY <2>2, Zenon DEF Is
<1>6. a \in Operands
  <2>1. line.args \in Seq(Operands)
    BY LineFields
  <2> QED BY <2>1
<1>7. /\ ~Has(a, "field")
      /\ Has(a, "name") => Known(lines, l, a.name)
      /\ Has(a, "diff") => a.diff = 0 \/ n = max
  BY Zenon DEF ArgsReadable
<1>8. Len(o) \in 1 .. 6
  BY <1>6, OperandTokensType, Zenon
<1>9. places[n] = Place(p, lines, l, a)
  BY Zenon DEF PlacesAre
<1> HIDE DEF st, a, e, o, m
<1>10. pos + st \in Nat /\ (pos + st) + Len(o) = pos + e
  <2>1. st \in Nat /\ e = st + Len(o)
    BY <1>3, Zenon
  <2> QED BY <1>8, <2>1
<1>11. Reads(pos + st, Place(p, lines, l, a), Width(a))
  <2>1. ~Is((pos + st) + Len(OperandTokens(a)), ".")
    BY <1>5, <1>10, Zenon DEF o
  <2>2. Stands(pos + st, OperandTokens(a))
    BY <1>3, Zenon DEF o
  <2>3. Has(a, "name") => Known(lines, l, a.name)
    BY <1>7
  <2> QED BY <1>6, <1>7, <1>10, <2>1, <2>2, <2>3, OperandRead, Zenon
<1>12. Spans(line, n, max) /\ Width(a) \in Nat
  <2>1. CASE Has(a, "diff") => a.diff = 0
    <3>1. Width(a) = Len(o)
      BY <2>1, NarrowArg, Zenon DEF o
    <3>2. Width(a) \in Nat
      BY <1>8, <3>1
    <3> QED BY <3>1, <3>2, Zenon DEF Spans, a, o
  <2>2. CASE ~(Has(a, "diff") => a.diff = 0)
    <3>1. Len(o) = 6 /\ o[6] = Mark("]") /\ Width(a) = 5
      BY <1>6, <2>2, WideArg, Zenon DEF o
    <3>2. n = max
      BY <1>7, <2>2
    <3>3. ~Is(pos + st + 5, ";")
      <4>1. 6 \in 1 .. Len(o) /\ Len(o) \in Nat
        BY <3>1
      <4>2. Tok((pos + st) + (6 - 1)) = MarkedToken(o[6])
        BY <1>3, <1>10, <4>1, TokenIn, Zenon
      <4>3. (pos + st) + (6 - 1) = pos + st + 5
        BY <1>10
      <4>4. "]" \in Signs
        BY DEF Signs
      <4>5. Is(pos + st + 5, "]")
        BY <3>1, <4>2, <4>3, <4>4, MarkSeen, Zenon
      <4> QED BY <4>5, Zenon DEF Is
    <3>4. Width(a) + 1 = Len(o) /\ Width(a) \in Nat
      BY <3>1
    <3>5. ~Is(pos + st + Width(a), ";")
      BY <3>1, <3>3, Zenon
    <3> QED BY <3>2, <3>4, <3>5, Zenon DEF Spans, a, o, st
  <2> QED BY <2>1, <2>2
<1> QED
  BY <1>2, <1>9, <1>11, <1>12, Zenon DEF ArgReads, st, a

-----------------------------------------------------------------------------
(* The tokens of lines, items and programs. *)

LEMMA LineTyped ==
    ASSUME NEW line \in Lines
    PROVE  LineTokens(line) \in Seq(Toks) /\ Len(LineTokens(line)) \in Nat /\ Len(LineTokens(line)) >= 2
<1>1. CASE line \in [label : STRING]
  <2>1. LineTokens(line) \in Seq(Toks) /\ Len(LineTokens(line)) = 3
    BY <1>1, LabelLine, Zenon
  <2> QED BY <2>1
<1>2. CASE line \in [call : {"fcall", "ncall"}, callee : Seq(STRING)]
  <2>1. LineTokens(line) \in Seq(Toks) /\ Len(LineTokens(line)) = Len(line.callee) + 2
    BY <1>2, CallLine, Zenon
  <2>2. line.callee \in Seq(STRING)
    BY <1>2, LineFields
  <2>3. Len(line.callee) \in Nat
    BY <2>2
  <2> QED BY <2>1, <2>3
<1>3. CASE line \in [inst : STRING, args : Seq(Operands)]
  <2>1. LineTokens(line) \in Seq(Toks) /\ Len(LineTokens(line)) = Len(Listed(Ops(line))) + 2
    BY <1>3, InstLine, Zenon
  <2>2. line.args \in Seq(Operands)
    BY <1>3, LineFields
  <2>3. Ops(line) \in Seq(Seq(Toks))
    BY <2>2, OperandsListed, Zenon DEF Ops
  <2>4. Len(Listed(Ops(line))) \in Nat
    BY <2>3, ListEnds, Zenon
  <2> QED BY <2>1, <2>4
<1>4. CASE line \in [var : STRING, type : STRING]
  <2>1. LineTokens(line) \in Seq(Toks) /\ Len(LineTokens(line)) = 6
    BY <1>4, BareLine, Zenon
  <2> QED BY <2>1
<1>5. CASE line \in [var : STRING, type : STRING, base : STRING, diff : Int]
  <2>1. LineTokens(line) \in Seq(Toks) /\ Len(LineTokens(line)) = 13
    BY <1>5, PlacedLine, Zenon
  <2> QED BY <2>1
<1> QED
  BY <1>1, <1>2, <1>3, <1>4, <1>5 DEF Lines

LEMMA ThreeParts ==
    ASSUME NEW E, NEW x \in Seq(E), NEW y \in Seq(E), NEW z \in Seq(E)
    PROVE  /\ x \o y \o z \in Seq(E) /\ Len(x \o y \o z) = Len(x) + Len(y) + Len(z)
           /\ Lies(x \o y \o z, 0, x) /\ Lies(x \o y \o z, Len(x), y)
           /\ Lies(x \o y \o z, Len(x) + Len(y), z)
<1> DEFINE u == x \o y
           w == u \o z
<1>1. u \in Seq(E) /\ Len(u) = Len(x) + Len(y) /\ Lies(u, 0, x) /\ Lies(u, Len(x), y)
  BY ConcatElements, ConcatLies
<1> HIDE DEF u
<1>2. w \in Seq(E) /\ Len(w) = Len(u) + Len(z) /\ Lies(w, 0, u) /\ Lies(w, Len(u), z)
  <2>1. u \in Seq(E)
    BY <1>1
  <2> QED BY <2>1, ConcatElements, ConcatLies
<1> HIDE DEF w
<1>3. Len(x) \in Nat /\ Len(y) \in Nat /\ Len(z) \in Nat
  OBVIOUS
<1>4. Len(u) \in Nat /\ Len(w) \in Nat /\ 0 \in Nat
  BY <1>1, <1>2, <1>3
<1>5. Lies(w, 0 + 0, x) /\ Lies(w, 0 + Len(x), y)
  BY <1>1, <1>2, <1>3, <1>4, LiesThrough, Zenon
<1>6. Lies(w, 0, x) /\ Lies(w, Len(x), y)
  <2>1. 0 + 0 = 0 /\ 0 + Len(x) = Len(x)
    BY <1>3
  <2> QED BY <1>5, <2>1, Zenon
<1>7. Lies(w, Len(x) + Len(y), z)
  BY <1>1, <1>2, Zenon
<1>8. w \in Seq(E) /\ Len(w) = Len(x) + Len(y) + Len(z)
  BY <1>1, <1>2, Zenon
<1> QED
  BY <1>6, <1>7, <1>8, Zenon DEF w, u

\* What stands behind the parts before it.
LEMMA PartStands ==
    ASSUME NEW seqs \in Seq(Seq(Toks)), NEW k \in Nat, Len(tokens) \in Nat, Stands(k, Joined(seqs)),
           NEW n \in 1 .. Len(seqs)
    PROVE  Stands(k + Len(Joins(seqs)[n - 1]), seqs[n])
<1> DEFINE all == Joined(seqs)
           a == Len(Joins(seqs)[n - 1])
           s == seqs[n]
<1>1. Pieces(seqs, Toks)
  BY JoinedPieces
<1>2. all \in Seq(Toks) /\ Lies(all, a, s) /\ a \in 0 .. Len(all)
  <2>1. n - 1 \in 0 .. Len(seqs)
    OBVIOUS
  <2> QED BY <1>1, <2>1, Zenon DEF Pieces
<1>3. s \in Seq(Toks) /\ Stands(k, all)
  OBVIOUS
<1> HIDE DEF all, a, s
<1>4. Len(all) \in Nat /\ Len(s) \in Nat
  BY <1>2, <1>3
<1>5. a \in Nat
  BY <1>2, <1>4
<1>6. Stands(k + a, s)
  BY <1>2, <1>3, <1>4, <1>5, StandsIn, Zenon
<1> QED
  BY <1>6 DEF a, s

LEMMA PartLengths ==
    ASSUME NEW seqs \in Seq(Seq(Toks))
    PROVE  /\ Len(Joins(seqs)[0]) = 0 /\ Len(Joined(seqs)) \in Nat
           /\ Joins(seqs)[Len(seqs)] = Joined(seqs)
           /\ \A n \in 0 .. Len(seqs) : Len(Joins(seqs)[n]) \in 0 .. Len(Joined(seqs))
           /\ \A n \in 1 .. Len(seqs) : Len(Joins(seqs)[n]) = Len(Joins(seqs)[n - 1]) + Len(seqs[n])
<1>1. Pieces(seqs, Toks)
  BY JoinedPieces
<1>2. Joined(seqs) \in Seq(Toks)
  BY <1>1, Zenon DEF Pieces
<1>3. Len(Joined(seqs)) \in Nat
  BY <1>2
<1> QED
  BY <1>1, <1>3, Zenon DEF Pieces

StructItems == [struct : STRING, fields : Seq([name : STRING, type : STRING])]
FuncItems == [func : STRING, args : Seq(STRING), ret : STRING, lines : Seq(Lines)]

LEMMA ItemFields ==
    /\ \A it \in StructItems :
          /\ Has(it, "struct") /\ ~Has(it, "func") /\ ~Has(it, "const")
          /\ it.struct \in STRING /\ it.fields \in Seq([name : STRING, type : STRING])
    /\ \A it \in FuncItems :
          /\ ~Has(it, "struct") /\ Has(it, "func") /\ ~Has(it, "const")
          /\ it.func \in STRING /\ it.args \in Seq(STRING) /\ it.ret \in STRING
          /\ it.lines \in Seq(Lines)
    /\ \A it \in [const : STRING, type : STRING, num : Nat] :
          ~Has(it, "struct") /\ ~Has(it, "func") /\ Has(it, "const")
BY DEF Has, StructItems, FuncItems

LEMMA ItemKinds ==
    ASSUME NEW it \in Items, ~Has(it, "const")
    PROVE  it \in StructItems \/ it \in FuncItems
BY ItemFields DEF Items, StructItems, FuncItems

LEMMA FieldLines ==
    ASSUME NEW it \in StructItems
    PROVE  /\ LinesOf(it) \in Seq(Lines) /\ Len(LinesOf(it)) = Len(it.fields)
           /\ Len(it.fields) \in Nat /\ DOMAIN it.fields = 1 .. Len(it.fields)
           /\ \A k \in 1 .. Len(it.fields) :
                 /\ it.fields[k].name \in STRING /\ it.fields[k].type \in STRING
                 /\ LinesOf(it)[k] = [var |-> it.fields[k].name, type |-> it.fields[k].type]
                 /\ LinesOf(it)[k] \in [var : STRING, type : STRING]
<1> DEFINE F == [name : STRING, type : STRING]
           fields == it.fields
           n == Len(fields)
           line(k) == [var |-> fields[k].name, type |-> fields[k].type]
           s == [k \in 1 .. n |-> line(k)]
<1>1. Has(it, "struct") /\ fields \in Seq(F)
  BY ItemFields
<1> HIDE DEF F, fields
<1>2. n \in Nat /\ DOMAIN fields = 1 .. n /\ \A k \in 1 .. n : fields[k] \in F
  BY <1>1
<1>3. \A k \in 1 .. n : fields[k].name \in STRING /\ fields[k].type \in STRING
  BY <1>2 DEF F
<1>4. \A k \in 1 .. n : line(k) \in [var : STRING, type : STRING] /\ line(k) \in Lines
  <2>1. \A k \in 1 .. n : line(k) \in [var : STRING, type : STRING]
    BY <1>3
  <2> HIDE DEF line
  <2> QED BY <2>1 DEF Lines
<1>5. LinesOf(it) = s
  <2>1. LinesOf(it) = [k \in DOMAIN fields |-> line(k)]
    BY <1>1, Zenon DEF LinesOf, fields
  <2> QED BY <1>2, <2>1, Zenon
<1> HIDE DEF n
<1>6. \A k \in 1 .. n : s[k] = line(k)
  OBVIOUS
<1> HIDE DEF line
<1>7. s \in Seq(Lines) /\ Len(s) = n
  BY <1>2, <1>4
<1> HIDE DEF s
<1> QED
  BY <1>2, <1>3, <1>4, <1>5, <1>6, <1>7, Zenon DEF n, fields, line

LEMMA StructHead ==
    ASSUME NEW it \in StructItems
    PROVE  /\ HeadTokens(it) \in Seq(Toks) /\ Len(HeadTokens(it)) = 3
           /\ HeadTokens(it)[1] = Mark("struct") /\ HeadTokens(it)[2] = Ident(it.struct)
           /\ HeadTokens(it)[3] = Mark("{")
<1> DEFINE a == Mark("struct")
           v == Ident(it.struct)
           c == Mark("{")
           all == <<a, v, c>>
<1>1. Has(it, "struct") /\ it.struct \in Texts
  BY ItemFields DEF Texts
<1>2. HeadTokens(it) = all
  BY <1>1, Zenon DEF HeadTokens
<1>3. a \in Toks /\ c \in Toks
  BY TokenTypes, Zenon DEF Texts, Signs
<1>4. v \in Toks
  BY <1>1, TokenTypes
<1> HIDE DEF a, v, c
<1>5. all \in Seq(Toks) /\ Len(all) = 3 /\ all[1] = a /\ all[2] = v /\ all[3] = c
  BY <1>3, <1>4
<1> QED
  BY <1>2, <1>5, Zenon DEF a, v, c

\* The names of the types of the arguments, each a list's element.
Args(it) == [k \in DOMAIN it.args |-> <<Ident(it.args[k])>>]

RetTokens(it) ==
    IF it.ret = "void" THEN <<Mark(")"), Mark("{")>>
    ELSE <<Mark(")"), Mark(":"), Ident(it.ret), Mark("{")>>

NameTokens(it) == <<Mark("func"), Mark("@"), Ident(it.func), Mark("(")>>

LEMMA ArgsTyped ==
    ASSUME NEW it \in FuncItems
    PROVE  /\ Args(it) \in Seq(Seq(Toks)) /\ Len(Args(it)) = Len(it.args) /\ Len(it.args) \in Nat
           /\ DOMAIN it.args = 1 .. Len(it.args)
           /\ \A k \in 1 .. Len(it.args) : Args(it)[k] = <<Ident(it.args[k])>>
<1> DEFINE args == it.args
           n == Len(args)
           name(k) == <<Ident(args[k])>>
           s == [k \in 1 .. n |-> name(k)]
<1>1. args \in Seq(STRING)
  BY ItemFields
<1> HIDE DEF args
<1>2. n \in Nat /\ DOMAIN args = 1 .. n /\ \A k \in 1 .. n : args[k] \in STRING
  BY <1>1
<1>3. ASSUME NEW k \in 1 .. n PROVE name(k) \in Seq(Toks)
  <2> DEFINE t == Ident(args[k])
  <2>1. args[k] \in Texts
    BY <1>2 DEF Texts
  <2>2. t \in Toks
    BY <2>1, TokenTypes
  <2> HIDE DEF t
  <2>3. <<t>> \in Seq(Toks)
    BY <2>2
  <2> QED BY <2>3 DEF t
<1>4. Args(it) = s
  BY <1>2, Zenon DEF Args, args
<1> HIDE DEF n
<1>5. \A k \in 1 .. n : s[k] = name(k)
  OBVIOUS
<1> HIDE DEF name
<1>6. s \in Seq(Seq(Toks)) /\ Len(s) = n
  BY <1>2, <1>3
<1> HIDE DEF s
<1> QED
  BY <1>2, <1>4, <1>5, <1>6, Zenon DEF n, args, name

LEMMA NameTyped ==
    ASSUME NEW it \in FuncItems
    PROVE  /\ NameTokens(it) \in Seq(Toks) /\ Len(NameTokens(it)) = 4
           /\ NameTokens(it)[1] = Mark("func") /\ NameTokens(it)[2] = Mark("@")
           /\ NameTokens(it)[3] = Ident(it.func) /\ NameTokens(it)[4] = Mark("(")
<1> DEFINE a == Mark("func")
           b == Mark("@")
           v == Ident(it.func)
           c == Mark("(")
           all == <<a, b, v, c>>
<1>1. it.func \in Texts
  BY ItemFields DEF Texts
<1>2. NameTokens(it) = all
  BY Zenon DEF NameTokens
<1>3. a \in Toks /\ b \in Toks /\ c \in Toks
  BY TokenTypes, Zenon DEF Texts, Signs
<1>4. v \in Toks
  BY <1>1, TokenTypes
<1> HIDE DEF a, b, v, c
<1>5. all \in Seq(Toks) /\ Len(all) = 4 /\ all[1] = a /\ all[2] = b /\ all[3] = v /\ all[4] = c
  BY <1>3, <1>4
<1> QED
  BY <1>2, <1>5, Zenon DEF a, b, v, c

LEMMA RetTyped ==
    ASSUME NEW it \in FuncItems
    PROVE  /\ RetTokens(it) \in Seq(Toks) /\ Len(RetTokens(it)) \in {2, 4}
           /\ RetTokens(it)[1] = Mark(")")
           /\ it.ret = "void" => Len(RetTokens(it)) = 2 /\ RetTokens(it)[2] = Mark("{")
           /\ it.ret # "void" => /\ Len(RetTokens(it)) = 4 /\ RetTokens(it)[2] = Mark(":")
                                 /\ RetTokens(it)[3] = Ident(it.ret)
<1> DEFINE a == Mark(")")
           b == Mark(":")
           v == Ident(it.ret)
           c == Mark("{")
           all == <<a, b, v, c>>
           two == <<a, c>>
<1>1. it.ret \in Texts
  BY ItemFields DEF Texts
<1>2. RetTokens(it) = IF it.ret = "void" THEN two ELSE all
  BY Zenon DEF RetTokens
<1>3. a \in Toks /\ b \in Toks /\ c \in Toks
  BY TokenTypes, Zenon DEF Texts, Signs
<1>4. v \in Toks
  BY <1>1, TokenTypes
<1> HIDE DEF a, b, v, c
<1>5. all \in Seq(Toks) /\ Len(all) = 4 /\ all[1] = a /\ all[2] = b /\ all[3] = v /\ all[4] = c
  BY <1>3, <1>4
<1>6. two \in Seq(Toks) /\ Len(two) = 2 /\ two[1] = a /\ two[2] = c
  BY <1>3, <1>4
<1> HIDE DEF all, two
<1>7. 2 \in {2, 4} /\ 4 \in {2, 4}
  OBVIOUS
<1> QED
  BY <1>2, <1>5, <1>6, <1>7, Zenon DEF a, b, v, c

LEMMA FuncHead ==
    ASSUME NEW it \in FuncItems
    PROVE  /\ HeadTokens(it) \in Seq(Toks)
           /\ Len(HeadTokens(it)) = 4 + Len(Listed(Args(it))) + Len(RetTokens(it))
           /\ Len(Listed(Args(it))) \in Nat
           /\ Lies(HeadTokens(it), 0, NameTokens(it))
           /\ Lies(HeadTokens(it), 4, Listed(Args(it)))
           /\ Lies(HeadTokens(it), 4 + Len(Listed(Args(it))), RetTokens(it))
<1> DEFINE x == NameTokens(it)
           y == Listed(Args(it))
           z == RetTokens(it)
<1>1. ~Has(it, "struct")
  BY ItemFields
<1>2. HeadTokens(it) = x \o y \o z
  BY <1>1, Zenon DEF HeadTokens, NameTokens, Args, RetTokens
<1>3. x \in Seq(Toks) /\ y \in Seq(Toks) /\ z \in Seq(Toks) /\ Len(x) = 4
  <2>1. Args(it) \in Seq(Seq(Toks))
    BY ArgsTyped, Zenon
  <2> QED BY <2>1, NameTyped, RetTyped, ListedType, Zenon
<1> HIDE DEF x, y, z
<1>4. /\ x \o y \o z \in Seq(Toks) /\ Len(x \o y \o z) = Len(x) + Len(y) + Len(z)
      /\ Lies(x \o y \o z, 0, x) /\ Lies(x \o y \o z, Len(x), y)
      /\ Lies(x \o y \o z, Len(x) + Len(y), z)
  BY <1>3, ThreeParts
<1>5. Len(y) \in Nat
  BY <1>3
<1> DEFINE w == x \o y \o z
<1> HIDE DEF w
<1>6. /\ w \in Seq(Toks) /\ Len(w) = 4 + Len(y) + Len(z)
      /\ Lies(w, 0, x) /\ Lies(w, 4, y) /\ Lies(w, 4 + Len(y), z)
  BY <1>3, <1>4, Zenon DEF w
<1>7. HeadTokens(it) = w
  BY <1>2 DEF w
<1> QED
  BY <1>5, <1>6, <1>7, Zenon DEF x, y, z

LinesTokens(it) == [k \in DOMAIN LinesOf(it) |-> LineTokens(LinesOf(it)[k])]

LEMMA ItemLines ==
    ASSUME NEW it, it \in StructItems \/ it \in FuncItems
    PROVE  LinesOf(it) \in Seq(Lines) /\ ~Has(it, "const") /\ (it \in FuncItems => LinesOf(it) = it.lines)
<1>1. ASSUME it \in FuncItems PROVE LinesOf(it) = it.lines
  <2>1. ~Has(it, "struct")
    BY <1>1, ItemFields
  <2> QED BY <2>1, Zenon DEF LinesOf
<1>2. it.lines \in Seq(Lines) \/ it \in StructItems
  BY ItemFields
<1> QED
  BY <1>1, <1>2, ItemFields, FieldLines

LEMMA PartsAre ==
    ASSUME NEW it, it \in StructItems \/ it \in FuncItems
    PROVE  /\ Parts(it) \in Seq(Seq(Toks)) /\ Len(Parts(it)) = Len(LinesOf(it)) + 2
           /\ Len(LinesOf(it)) \in Nat
           /\ Parts(it)[1] = HeadTokens(it)
           /\ \A k \in 1 .. Len(LinesOf(it)) : Parts(it)[k + 1] = LineTokens(LinesOf(it)[k])
           /\ Parts(it)[Len(LinesOf(it)) + 2] = Close
<1> DEFINE V == Seq(Toks)
           h == HeadTokens(it)
           lines == LinesOf(it)
           n == Len(lines)
           f(k) == LineTokens(lines[k])
           s == [k \in 1 .. n |-> f(k)]
           all == <<h>> \o s \o <<Close>>
<1>1. lines \in Seq(Lines) /\ ~Has(it, "const")
  BY ItemLines, Zenon
<1> HIDE DEF lines
<1>2. n \in Nat /\ DOMAIN lines = 1 .. n /\ \A k \in 1 .. n : lines[k] \in Lines
  BY <1>1
<1>3. \A k \in 1 .. n : f(k) \in V
  BY <1>2, LineTyped, Zenon
<1>4. h \in V
  BY StructHead, FuncHead, Zenon
<1>5. Close \in V
  <2> DEFINE c == Mark("}")
  <2>1. c \in Toks
    BY TokenTypes, Zenon DEF Texts, Signs
  <2> HIDE DEF c
  <2>2. <<c>> \in Seq(Toks)
    BY <2>1
  <2> QED BY <2>2, Zenon DEF c, Close
<1>6. Parts(it) = all
  <2>1. Parts(it) = <<h>> \o [k \in DOMAIN lines |-> f(k)] \o <<Close>>
    BY <1>1, Zenon DEF Parts, lines
  <2> QED BY <1>2, <2>1, Zenon
<1> HIDE DEF n, V
<1>7. \A k \in 1 .. n : s[k] = f(k)
  OBVIOUS
<1> HIDE DEF f, h
<1>8. s \in Seq(V) /\ Len(s) = n
  BY <1>2, <1>3
<1> HIDE DEF s
<1>9a. all \in Seq(V) /\ Frames(all, h, s, Close)
  BY <1>4, <1>5, <1>8, Framed, Zenon
<1> HIDE DEF all
<1>9. /\ all \in Seq(V) /\ Len(all) = Len(s) + 2 /\ all[1] = h
      /\ \A k \in 1 .. Len(s) : all[k + 1] = s[k]
      /\ all[Len(s) + 2] = Close
  BY <1>9a, Zenon DEF Frames
<1>10. \A k \in 1 .. n : all[k + 1] = f(k)
  BY <1>7, <1>8, <1>9, Zenon
<1>11. all \in Seq(V) /\ Len(all) = n + 2 /\ all[1] = h /\ all[n + 2] = Close
  BY <1>8, <1>9, Zenon
<1> QED
  BY <1>2, <1>6, <1>10, <1>11, Zenon DEF n, f, h, lines, V

-----------------------------------------------------------------------------
(* Where the parts of a program stand. *)

Before(p, i) == Len(Joins(ItemTokens(p))[i])
Inside(it, n) == Len(Joins(Parts(it))[n])

\* A program without constants, and one before the parser.
Written(p) == p \in Seq(Items) /\ \A i \in 1 .. Len(p) : ~Has(p[i], "const")
Given(p) == Written(p) /\ tokens = Marked(Tokens(p))

LEMMA WrittenItems ==
    ASSUME NEW p, Written(p)
    PROVE  /\ Len(p) \in Nat /\ DOMAIN p = 1 .. Len(p)
           /\ \A i \in 1 .. Len(p) : p[i] \in StructItems \/ p[i] \in FuncItems
<1>1. p \in Seq(Items) /\ \A i \in 1 .. Len(p) : ~Has(p[i], "const")
  BY Zenon DEF Written
<1>2. Len(p) \in Nat /\ DOMAIN p = 1 .. Len(p) /\ \A i \in 1 .. Len(p) : p[i] \in Items
  BY <1>1
<1>3. \A i \in 1 .. Len(p) : p[i] \in StructItems \/ p[i] \in FuncItems
  BY <1>1, <1>2, ItemKinds
<1> QED
  BY <1>2, <1>3

LEMMA WrittenTokens ==
    ASSUME NEW p, Written(p)
    PROVE  /\ ItemTokens(p) \in Seq(Seq(Toks)) /\ Len(ItemTokens(p)) = Len(p)
           /\ \A i \in 1 .. Len(p) : ItemTokens(p)[i] = Joined(Parts(p[i]))
<1> DEFINE n == Len(p)
           f(i) == Joined(Parts(p[i]))
           s == [i \in 1 .. n |-> f(i)]
           V == Seq(Toks)
<1>1. n \in Nat /\ DOMAIN p = 1 .. n /\ \A i \in 1 .. n : p[i] \in StructItems \/ p[i] \in FuncItems
  BY WrittenItems, Zenon
<1>2. ASSUME NEW i \in 1 .. n PROVE f(i) \in V
  <2>1. Parts(p[i]) \in Seq(Seq(Toks))
    BY <1>1, PartsAre, Zenon
  <2>2. Pieces(Parts(p[i]), Toks)
    BY <2>1, JoinedPieces, Zenon
  <2> QED BY <2>2, Zenon DEF Pieces
<1>3. ItemTokens(p) = s
  BY <1>1, Zenon DEF ItemTokens
<1> HIDE DEF n, V
<1>4. \A i \in 1 .. n : s[i] = f(i)
  OBVIOUS
<1> HIDE DEF f
<1>5. s \in Seq(V) /\ Len(s) = n
  BY <1>1, <1>2
<1> HIDE DEF s
<1> QED
  BY <1>3, <1>4, <1>5, Zenon DEF n, f, V

LEMMA GivenItems ==
    ASSUME NEW p, Given(p)
    PROVE  /\ Len(p) \in Nat /\ DOMAIN p = 1 .. Len(p)
           /\ \A i \in 1 .. Len(p) : p[i] \in StructItems \/ p[i] \in FuncItems
BY WrittenItems, Zenon DEF Given

LEMMA GivenTokens ==
    ASSUME NEW p, Given(p)
    PROVE  /\ ItemTokens(p) \in Seq(Seq(Toks)) /\ Len(ItemTokens(p)) = Len(p)
           /\ \A i \in 1 .. Len(p) : ItemTokens(p)[i] = Joined(Parts(p[i]))
BY WrittenTokens, Zenon DEF Given

LEMMA GivenStands ==
    ASSUME NEW p, Given(p)
    PROVE  Len(tokens) \in Nat /\ Len(tokens) = Len(Tokens(p)) /\ Stands(1, Tokens(p))
<1> DEFINE ts == Tokens(p)
           n == Len(ts)
<1>1. ts \in Seq(Toks)
  <2>1. Pieces(ItemTokens(p), Toks)
    BY GivenTokens, JoinedPieces, Zenon
  <2> QED BY <2>1, Zenon DEF Pieces, Tokens
<1>2. tokens = Marked(ts)
  BY Zenon DEF Given
<1> HIDE DEF ts
<1>3. n \in Nat /\ DOMAIN ts = 1 .. n
  BY <1>1
<1>4. tokens = [k \in 1 .. n |-> MarkedToken(ts[k])]
  BY <1>2, <1>3, Zenon DEF Marked
<1> HIDE DEF n
<1>5. Indexed(tokens, n)
  <2> DEFINE f(k) == MarkedToken(ts[k])
  <2> HIDE DEF f
  <2>1. tokens = [k \in 1 .. n |-> f(k)]
    BY <1>4, Zenon DEF f
  <2>2. [k \in 1 .. n |-> f(k)] = [k \in 1 .. n |-> [j \in 1 .. n |-> f(j)][k]]
    OBVIOUS
  <2> QED BY <1>3, <2>1, <2>2, Zenon DEF Indexed
<1>6. Len(tokens) = n /\ DOMAIN tokens = 1 .. n
  BY <1>5, IndexedSeq, Zenon
<1>7. ASSUME NEW j \in 1 .. n PROVE Tok(1 + (j - 1)) = MarkedToken(ts[j])
  <2>1. 1 + (j - 1) = j
    BY <1>3
  <2>2. Tok(j) = tokens[j]
    BY <1>6, Zenon DEF Tok
  <2>3. tokens[j] = MarkedToken(ts[j])
    BY <1>4, Zenon
  <2> QED BY <2>1, <2>2, <2>3, Zenon
<1>8. 1 + n <= n + 1
  BY <1>3
<1> QED
  BY <1>3, <1>6, <1>7, <1>8, Zenon DEF Stands, n, ts

LEMMA BeforeIs ==
    ASSUME NEW p, Given(p)
    PROVE  /\ Before(p, 0) = 0 /\ Before(p, Len(p)) = Len(tokens)
           /\ \A i \in 0 .. Len(p) : Before(p, i) \in 0 .. Len(tokens)
           /\ \A i \in 1 .. Len(p) : Before(p, i) = Before(p, i - 1) + Len(Joined(Parts(p[i])))
<1> DEFINE seqs == ItemTokens(p)
<1>1. seqs \in Seq(Seq(Toks)) /\ Len(seqs) = Len(p)
      /\ \A i \in 1 .. Len(p) : seqs[i] = Joined(Parts(p[i]))
  BY GivenTokens, Zenon
<1>2. Len(tokens) = Len(Joined(seqs))
  BY GivenStands, Zenon DEF Tokens
<1>3. /\ Len(Joins(seqs)[0]) = 0 /\ Joins(seqs)[Len(seqs)] = Joined(seqs)
      /\ \A n \in 0 .. Len(seqs) : Len(Joins(seqs)[n]) \in 0 .. Len(Joined(seqs))
      /\ \A n \in 1 .. Len(seqs) : Len(Joins(seqs)[n]) = Len(Joins(seqs)[n - 1]) + Len(seqs[n])
  BY <1>1, PartLengths, Zenon
<1> HIDE DEF seqs
<1> QED
  BY <1>1, <1>2, <1>3, Zenon DEF Before, seqs

LEMMA ItemAt ==
    ASSUME NEW p, Given(p), NEW i \in 1 .. Len(p)
    PROVE  Stands(1 + Before(p, i - 1), Joined(Parts(p[i])))
<1> DEFINE seqs == ItemTokens(p)
<1>1. seqs \in Seq(Seq(Toks)) /\ Len(seqs) = Len(p) /\ seqs[i] = Joined(Parts(p[i]))
  BY GivenTokens, Zenon
<1>2. Len(tokens) \in Nat /\ Stands(1, Joined(seqs))
  BY GivenStands, Zenon DEF Tokens
<1> HIDE DEF seqs
<1>3. 1 \in Nat
  OBVIOUS
<1>4. Stands(1 + Len(Joins(seqs)[i - 1]), seqs[i])
  BY <1>1, <1>2, <1>3, PartStands, Zenon
<1> QED
  BY <1>1, <1>4, Zenon DEF Before, seqs

LEMMA PartAt ==
    ASSUME NEW p, Given(p), NEW i \in 1 .. Len(p), NEW n \in 1 .. Len(Parts(p[i]))
    PROVE  Stands((1 + Before(p, i - 1)) + Inside(p[i], n - 1), Parts(p[i])[n])
<1> DEFINE seqs == Parts(p[i])
           k == 1 + Before(p, i - 1)
<1>1. seqs \in Seq(Seq(Toks))
  BY GivenItems, PartsAre, Zenon
<1>2. Stands(k, Joined(seqs)) /\ Len(tokens) \in Nat
  BY ItemAt, GivenStands, Zenon
<1>3. k \in Nat
  <2>1. Before(p, i - 1) \in 0 .. Len(tokens)
    <3>1. i - 1 \in 0 .. Len(p)
      <4>1. Len(p) \in Nat
        BY GivenItems, Zenon
      <4> QED BY <4>1
    <3> QED BY <3>1, BeforeIs, Zenon
  <2> QED BY <1>2, <2>1
<1> HIDE DEF seqs, k
<1>4. n \in 1 .. Len(seqs)
  BY DEF seqs
<1>5. Stands(k + Len(Joins(seqs)[n - 1]), seqs[n])
  BY <1>1, <1>2, <1>3, <1>4, PartStands, Zenon
<1> QED
  BY <1>5, Zenon DEF Inside, k, seqs

LEMMA InsideIs ==
    ASSUME NEW it, it \in StructItems \/ it \in FuncItems
    PROVE  /\ Inside(it, 0) = 0 /\ Inside(it, Len(Parts(it))) = Len(Joined(Parts(it)))
           /\ Len(Joined(Parts(it))) \in Nat
           /\ \A n \in 0 .. Len(Parts(it)) : Inside(it, n) \in 0 .. Len(Joined(Parts(it)))
           /\ \A n \in 1 .. Len(Parts(it)) :
                 Inside(it, n) = Inside(it, n - 1) + Len(Parts(it)[n])
<1>1. Parts(it) \in Seq(Seq(Toks))
  BY PartsAre, Zenon
<1> QED
  BY <1>1, PartLengths, Zenon DEF Inside

-----------------------------------------------------------------------------
(* Structs. *)

IsBrace(k) == Is(k, "}")

StructStands(it) ==
    /\ Is(pos, "struct") /\ Match(StructDefine, pos) /\ Tok(pos + 1).lit = it.struct
    /\ IsBrace(PoleAt(Len(it.fields) + 1))
    /\ \A k \in 1 .. Len(it.fields) :
          /\ Match(VarDefine, PoleAt(k)) /\ PoleName(k) = it.fields[k].name
          /\ Tok(PoleAt(k) + 4).lit = it.fields[k].type /\ ~IsBrace(PoleAt(k))

LEMMA StructParts ==
    ASSUME NEW it \in StructItems, NEW n, n = Len(it.fields)
    PROVE  /\ n \in Nat /\ Len(Parts(it)) = n + 2 /\ Parts(it)[1] = HeadTokens(it)
           /\ Parts(it)[n + 2] = Close
           /\ \A k \in 1 .. n : Parts(it)[k + 1] = LineTokens(LinesOf(it)[k])
<1>1. n \in Nat /\ Len(LinesOf(it)) = n
  BY FieldLines, Zenon
<1>2. it \in StructItems \/ it \in FuncItems
  OBVIOUS
<1>3. /\ Len(Parts(it)) = Len(LinesOf(it)) + 2 /\ Parts(it)[1] = HeadTokens(it)
      /\ \A k \in 1 .. Len(LinesOf(it)) : Parts(it)[k + 1] = LineTokens(LinesOf(it)[k])
      /\ Parts(it)[Len(LinesOf(it)) + 2] = Close
  BY <1>2, PartsAre, Zenon
<1> QED BY <1>1, <1>3, Zenon

LEMMA StructInside ==
    ASSUME NEW it \in StructItems
    PROVE  /\ \A k \in 1 .. Len(it.fields) + 1 : Inside(it, k) = 3 + 6 * (k - 1)
           /\ Len(Joined(Parts(it))) = 3 + 6 * Len(it.fields) + 1
<1> DEFINE n == Len(it.fields)
           S == {k \in Nat : k + 1 <= n + 1 => Inside(it, k + 1) = 3 + 6 * k}
<1>1. n \in Nat /\ Len(LinesOf(it)) = n
      /\ \A k \in 1 .. n : LinesOf(it)[k] \in [var : STRING, type : STRING]
  BY FieldLines, Zenon
<1>2. /\ Len(Parts(it)) = n + 2 /\ Parts(it)[1] = HeadTokens(it) /\ Parts(it)[n + 2] = Close
      /\ \A k \in 1 .. n : Parts(it)[k + 1] = LineTokens(LinesOf(it)[k])
  BY StructParts, Zenon
<1>3. Len(HeadTokens(it)) = 3
  BY StructHead, Zenon
<1>4. Len(Close) = 1
  BY DEF Close
<1>5. \A k \in 1 .. n : Len(Parts(it)[k + 1]) = 6
  <2> SUFFICES ASSUME NEW k \in 1 .. n PROVE Len(Parts(it)[k + 1]) = 6
    OBVIOUS
  <2>1. LinesOf(it)[k] \in [var : STRING, type : STRING]
    BY <1>1, Zenon
  <2>2. Len(LineTokens(LinesOf(it)[k])) = 6
    BY <2>1, BareLine, Zenon
  <2> QED BY <1>2, <2>2, Zenon
<1>6. Inside(it, 0) = 0 /\ Inside(it, Len(Parts(it))) = Len(Joined(Parts(it)))
      /\ \A k \in 1 .. Len(Parts(it)) : Inside(it, k) = Inside(it, k - 1) + Len(Parts(it)[k])
  BY InsideIs, Zenon
<1> HIDE DEF n
<1>7. Inside(it, 1) = 3
  <2>1. 1 \in 1 .. Len(Parts(it)) /\ 1 - 1 = 0
    <3>1. Len(Parts(it)) = n + 2
      BY <1>2, Zenon
    <3> QED BY <1>1, <3>1
  <2>2. Inside(it, 1) = 0 + 3
    BY <1>2, <1>3, <1>6, <2>1, Zenon
  <2> QED BY <2>2
<1>8. ASSUME NEW k \in Nat, k + 1 \in 1 .. n PROVE Inside(it, (k + 1) + 1) = Inside(it, k + 1) + 6
  <2>1. Len(Parts(it)) = n + 2
    BY <1>2, Zenon
  <2>2. (k + 1) + 1 \in 1 .. Len(Parts(it)) /\ ((k + 1) + 1) - 1 = k + 1
    BY <1>1, <1>8, <2>1
  <2> QED BY <1>5, <1>6, <1>8, <2>2, Zenon
<1>9. 0 \in S
  BY <1>7
<1>10. ASSUME NEW k \in Nat, k \in S PROVE k + 1 \in S
  <2>1. ASSUME (k + 1) + 1 <= n + 1 PROVE Inside(it, (k + 1) + 1) = 3 + 6 * (k + 1)
    <3>1. k + 1 \in 1 .. n /\ k + 1 <= n + 1
      BY <1>1, <2>1
    <3>2. Inside(it, k + 1) = 3 + 6 * k
      BY <1>10, <3>1
    <3>3. Inside(it, (k + 1) + 1) = Inside(it, k + 1) + 6
      BY <1>8, <3>1
    <3> QED BY <3>2, <3>3
  <2> QED BY <2>1
<1>11. Nat \subseteq S
  <2> HIDE DEF S
  <2> QED BY <1>9, <1>10, SetInduction
<1>12. ASSUME NEW k \in 1 .. n + 1 PROVE Inside(it, k) = 3 + 6 * (k - 1)
  <2>1. k - 1 \in Nat /\ (k - 1) + 1 <= n + 1 /\ (k - 1) + 1 = k
    BY <1>1
  <2>2. k - 1 \in S
    BY <1>11, <2>1
  <2>3. Inside(it, (k - 1) + 1) = 3 + 6 * (k - 1)
    BY <2>1, <2>2
  <2> QED BY <2>1, <2>3
<1>13. Len(Joined(Parts(it))) = 3 + 6 * n + 1
  <2>1. Len(Parts(it)) = n + 2
    BY <1>2, Zenon
  <2>2. n + 2 \in 1 .. Len(Parts(it)) /\ (n + 2) - 1 = n + 1 /\ n + 1 \in 1 .. n + 1
    BY <1>1, <2>1
  <2>3. Inside(it, n + 2) = Inside(it, n + 1) + 1
    BY <1>2, <1>4, <1>6, <2>2, Zenon
  <2>4. Inside(it, n + 1) = 3 + 6 * ((n + 1) - 1)
    BY <1>12, <2>2
  <2>5. Inside(it, n + 2) = Len(Joined(Parts(it)))
    BY <1>6, <2>1, Zenon
  <2>6. 6 * ((n + 1) - 1) = 6 * n /\ 6 * n \in Nat
    BY <1>1
  <2> QED BY <2>3, <2>4, <2>5, <2>6
<1> QED
  BY <1>12, <1>13, Zenon DEF n

LEMMA StructSeen ==
    ASSUME NEW p, Given(p), NEW i \in 1 .. Len(p), NEW it, it = p[i], it \in StructItems,
           pos = 1 + Before(p, i - 1), pos \in Nat, it.struct \notin DOMAIN Insts,
           \A k \in 1 .. Len(it.fields) : it.fields[k].name \notin DOMAIN Insts
                                          /\ it.fields[k].type \notin DOMAIN Insts
    PROVE  StructStands(it)
<1> DEFINE n == Len(it.fields)
           name(k) == it.fields[k].name
           type(k) == it.fields[k].type
<1>1. n \in Nat /\ Len(LinesOf(it)) = n
      /\ \A k \in 1 .. n : /\ LinesOf(it)[k] \in [var : STRING, type : STRING]
                           /\ LinesOf(it)[k] = [var |-> name(k), type |-> type(k)]
  BY FieldLines, Zenon
<1>2. /\ Len(Parts(it)) = n + 2 /\ Parts(it)[1] = HeadTokens(it) /\ Parts(it)[n + 2] = Close
      /\ \A k \in 1 .. n : Parts(it)[k + 1] = LineTokens(LinesOf(it)[k])
  BY StructParts, Zenon
<1>3. \A k \in 1 .. Len(Parts(it)) : Stands(pos + Inside(it, k - 1), Parts(it)[k])
  BY PartAt, Zenon
<1>4. Inside(it, 0) = 0 /\ \A k \in 1 .. n + 1 : Inside(it, k) = 3 + 6 * (k - 1)
  BY InsideIs, StructInside, Zenon
<1>l. Len(Parts(it)) = n + 2
  BY <1>2, Zenon
<1> HIDE DEF n, name, type
<1>5. \A k \in 1 .. n + 1 : PoleAt(k) = pos + Inside(it, k)
  <2>1. ASSUME NEW k \in 1 .. n + 1 PROVE PoleAt(k) = pos + Inside(it, k)
    <3>1. pos + 3 + 6 * (k - 1) = pos + (3 + 6 * (k - 1))
      BY <1>1
    <3> QED BY <1>4, <3>1 DEF PoleAt, PoleSize
  <2> QED BY <2>1
<1>6. Is(pos, "struct") /\ Match(StructDefine, pos) /\ Tok(pos + 1).lit = it.struct
  <2> DEFINE h == HeadTokens(it)
  <2>1. Len(h) = 3 /\ h[1] = Mark("struct") /\ h[2] = Ident(it.struct) /\ h[3] = Mark("{")
    BY StructHead, Zenon
  <2>2. Stands(pos, h)
    <3>1. 1 \in 1 .. Len(Parts(it)) /\ 1 - 1 = 0 /\ pos + 0 = pos
      BY <1>1, <1>l
    <3> QED BY <1>2, <1>3, <1>4, <3>1, Zenon
  <2> HIDE DEF h
  <2>3. /\ Len(h) \in Nat /\ 1 \in 1 .. Len(h) /\ 2 \in 1 .. Len(h) /\ 3 \in 1 .. Len(h)
        /\ pos + (1 - 1) = pos /\ pos + (2 - 1) = pos + 1 /\ pos + (3 - 1) = pos + 2
    <3>1. Len(h) = 3
      BY <2>1, Zenon
    <3> QED BY <3>1
  <2>4. /\ Tok(pos) = MarkedToken(Mark("struct")) /\ Tok(pos + 1) = MarkedToken(Ident(it.struct))
        /\ Tok(pos + 2) = MarkedToken(Mark("{"))
    <3>1. /\ Tok(pos + (1 - 1)) = MarkedToken(h[1]) /\ Tok(pos + (2 - 1)) = MarkedToken(h[2])
          /\ Tok(pos + (3 - 1)) = MarkedToken(h[3])
      BY <2>2, <2>3, TokenIn, Zenon
    <3> QED BY <2>1, <2>3, <3>1, Zenon
  <2>5. "struct" \in Signs /\ "{" \in Signs
    BY DEF Signs
  <2>6. Is(pos, "struct") /\ Is(pos + 2, "{") /\ Is(pos + 1, "Id") /\ Tok(pos + 1).lit = it.struct
    BY <2>4, <2>5, MarkSeen, IdentSeen, Zenon
  <2>7. Match(StructDefine, pos)
    BY <2>6, Rules, Zenon
  <2> QED BY <2>6, <2>7, Zenon
<1>7. IsBrace(PoleAt(n + 1))
  <2>1. n + 2 \in 1 .. Len(Parts(it)) /\ (n + 2) - 1 = n + 1 /\ n + 1 \in 1 .. n + 1
    BY <1>1, <1>l
  <2>2. Stands(PoleAt(n + 1), Close)
    BY <1>2, <1>3, <1>5, <2>1, Zenon
  <2>3. Close[1] = Mark("}") /\ Len(Close) \in Nat /\ 1 \in 1 .. Len(Close)
    BY DEF Close
  <2>4. PoleAt(n + 1) \in Nat
    BY <1>1 DEF PoleAt, PoleSize
  <2>5. Tok(PoleAt(n + 1) + (1 - 1)) = MarkedToken(Close[1])
    BY <2>2, <2>3, <2>4, TokenIn, Zenon
  <2>6. PoleAt(n + 1) + (1 - 1) = PoleAt(n + 1)
    BY <2>4
  <2>7. "}" \in Signs
    BY DEF Signs
  <2> QED BY <2>3, <2>5, <2>6, <2>7, MarkSeen, Zenon DEF IsBrace
<1>8. ASSUME NEW k \in 1 .. n
      PROVE  /\ Match(VarDefine, PoleAt(k)) /\ PoleName(k) = name(k)
             /\ Tok(PoleAt(k) + 4).lit = type(k) /\ ~IsBrace(PoleAt(k))
  <2> DEFINE line == LinesOf(it)[k]
  <2>1. k + 1 \in 1 .. Len(Parts(it)) /\ (k + 1) - 1 = k /\ k \in 1 .. n + 1
    BY <1>1, <1>l
  <2>2. Stands(PoleAt(k), LineTokens(line))
    BY <1>2, <1>3, <1>5, <2>1, Zenon
  <2>3. line \in [var : STRING, type : STRING] /\ line.var = name(k) /\ line.type = type(k)
    <3>1. line \in [var : STRING, type : STRING] /\ line = [var |-> name(k), type |-> type(k)]
      BY <1>1, Zenon
    <3> HIDE DEF line
    <3> QED BY <3>1
  <2>4. PoleAt(k) \in Nat
    BY <1>1 DEF PoleAt, PoleSize
  <2>5. name(k) \notin DOMAIN Insts /\ type(k) \notin DOMAIN Insts
    BY DEF name, type, n
  <2> HIDE DEF line
  <2>6. SeesVar(PoleAt(k), name(k), type(k))
    BY <2>2, <2>3, <2>4, <2>5, SeenBare, Zenon
  <2>7. /\ Tok(PoleAt(k)).type = "var" /\ Match(VarDefine, PoleAt(k))
        /\ Tok(PoleAt(k) + 2).lit = name(k) /\ Tok(PoleAt(k) + 4).lit = type(k)
    BY <2>6, Zenon DEF SeesVar
  <2>8. ~IsBrace(PoleAt(k))
    BY <2>7 DEF IsBrace, Is
  <2> QED BY <2>7, <2>8, Zenon DEF PoleName
<1> QED
  BY <1>6, <1>7, <1>8, Zenon DEF StructStands, n, name, type

LEMMA PolesAre ==
    ASSUME NEW it \in StructItems, StructStands(it), Len(tokens) \in Nat,
           Len(it.fields) <= Len(tokens)
    PROVE  Poles = Len(it.fields)
<1> DEFINE n == Len(it.fields)
           ends == { m \in 0 .. Len(tokens) : IsBrace(PoleAt(m + 1)) }
<1>1. n \in Nat /\ n <= Len(tokens)
  BY FieldLines
<1>2. IsBrace(PoleAt(n + 1)) /\ \A k \in 1 .. n : ~IsBrace(PoleAt(k))
  BY Zenon DEF StructStands
<1> HIDE DEF n
<1>3. n \in ends
  BY <1>1, <1>2
<1>4. \A m \in ends : n <= m /\ m \in Nat
  <2> SUFFICES ASSUME NEW m \in ends PROVE n <= m /\ m \in Nat
    OBVIOUS
  <2>1. m \in Nat /\ IsBrace(PoleAt(m + 1))
    OBVIOUS
  <2>2. ~(m + 1 \in 1 .. n)
    BY <1>2, <2>1
  <2> QED BY <1>1, <2>1, <2>2
<1> HIDE DEF ends
<1>5. \A m \in ends : (\A j \in ends : m <= j) => m = n
  BY <1>1, <1>3, <1>4
<1>6. (CHOOSE m \in ends : \A j \in ends : m <= j) = n
  BY <1>3, <1>4, <1>5
<1>7. ends # {}
  BY <1>3
<1> QED
  BY <1>6, <1>7, Zenon DEF Poles, ends, n, IsBrace

FieldsKnown(it) ==
    \A k \in 1 .. Len(it.fields) :
        /\ KnowsType(it.fields[k].type, Builtin[it.fields[k].type])
        /\ \A j \in 1 .. k - 1 : it.fields[j].name # it.fields[k].name

FieldBytes(it) == Total([f \in DOMAIN it.fields |-> Builtin[it.fields[f].type]])

LEMMA BuiltIs ==
    ASSUME NEW it \in StructItems, StructStands(it), FieldsKnown(it)
    PROVE  OffsetOf(Len(it.fields) + 1) = FieldBytes(it)
<1> DEFINE n == Len(it.fields)
           f(j) == IF PoleKept(j) THEN PoleType(j).size ELSE 0
           g(j) == Builtin[it.fields[j].type]
<1>1. n \in Nat /\ DOMAIN it.fields = 1 .. n
  BY FieldLines, Zenon
<1>2. ASSUME NEW j \in 1 .. n PROVE f(j) = g(j)
  <2>1. \A k \in 1 .. j - 1 : k \in 1 .. n
    BY <1>1
  <2>2. ASSUME NEW k \in 1 .. j - 1 PROVE PoleName(k) # PoleName(j)
    <3>1. k \in 1 .. n
      BY <2>1, <2>2, Zenon
    <3>2. PoleName(k) = it.fields[k].name /\ PoleName(j) = it.fields[j].name
      BY <1>2, <3>1, Zenon DEF StructStands
    <3>3. it.fields[k].name # it.fields[j].name
      BY <1>2, <2>2, Zenon DEF FieldsKnown
    <3> QED BY <3>2, <3>3, Zenon
  <2>4. PoleKept(j)
    BY <2>2, Zenon DEF PoleKept
  <2>3. PoleType(j).size = Builtin[it.fields[j].type]
    <3>1. KnowsType(Tok(PoleAt(j) + 4).lit, Builtin[it.fields[j].type])
      BY Zenon DEF FieldsKnown, StructStands
    <3> QED BY <3>1, TypeKnown, Zenon DEF PoleType
  <2> QED BY <2>3, <2>4, Zenon
<1>3. OffsetOf(n + 1) = Total([j \in 1 .. (n + 1) - 1 |-> f(j)])
  BY Zenon DEF OffsetOf
<1> HIDE DEF f, g, n
<1>4. (n + 1) - 1 = n
  BY <1>1
<1>5. [j \in 1 .. n |-> f(j)] = [j \in 1 .. n |-> g(j)]
  BY <1>2, Zenon
<1>6. OffsetOf(n + 1) = Total([j \in 1 .. n |-> g(j)])
  BY <1>3, <1>4, <1>5, Zenon
<1> QED
  BY <1>1, <1>6, Zenon DEF FieldBytes, n, g

LEMMA AllSame ==
    ASSUME NEW e, NEW n \in Nat, NEW f, f = [k \in 1 .. n |-> f[k]], \A k \in 1 .. n : f[k] = e
    PROVE  f \in Seq({e})
<1>2. \A k \in 1 .. n : f[k] \in {e}
  OBVIOUS
<1> DEFINE E == {e}
<1> HIDE DEF E
<1>3. \A k \in 1 .. n : f[k] \in E
  BY <1>2 DEF E
<1>4. [k \in 1 .. n |-> f[k]] \in Seq(E)
  BY <1>3
<1>5. f \in Seq(E)
  BY <1>4, Zenon
<1> QED
  BY <1>5, Zenon DEF E

LEMMA FaultSeq ==
    ASSUME NEW n \in Nat, NEW f, f = [k \in 1 .. n |-> f[k]], \A k \in 1 .. n : f[k] = ""
    PROVE  f \in Seq({""})
BY AllSame, Zenon

LEMMA OneSame ==
    ASSUME NEW e, NEW s, NEW a, s = <<a>>, a = e
    PROVE  s \in Seq({e})
<1> DEFINE E == {e}
<1>1. a \in E
  OBVIOUS
<1> HIDE DEF E
<1>2. <<a>> \in Seq(E)
  BY <1>1
<1> QED
  BY <1>2, Zenon DEF E

LEMMA FaultOne ==
    ASSUME NEW s, NEW a, s = <<a>>, a = ""
    PROVE  s \in Seq({""})
BY OneSame, Zenon

LEMMA DatatypeStep ==
    ASSUME Datatype, NEW it \in StructItems, StructStands(it), FieldsKnown(it), Len(tokens) \in Nat,
           Len(it.fields) <= Len(tokens), pos \in Nat
    PROVE  /\ \E poles : layers' = Add(layers, 0, it.struct, Type(FieldBytes(it), poles))
           /\ pos' = pos + (3 + 6 * Len(it.fields) + 1)
           /\ UNCHANGED <<program, tokens, functions, open, status, parsed, parses>>
<1> DEFINE n == Len(it.fields)
           pair(k) == <<Throws(~Match(VarDefine, PoleAt(k))), TypeFault(PoleAt(k) + 4)>>
           faults == [k \in 1 .. n |-> FirstOf(pair(k))]
           one == <<Throws(~Match(StructDefine, pos))>>
<1>0. n \in Nat
  BY FieldLines, Zenon
<1>1. Poles = n
  BY PolesAre, Zenon
<1>2. ASSUME NEW k \in 1 .. n PROVE FirstOf(pair(k)) = ""
  <2>1. Throws(~Match(VarDefine, PoleAt(k))) = ""
    BY Zenon DEF Throws, StructStands
  <2>2. TypeFault(PoleAt(k) + 4) = ""
    <3>1. KnowsType(Tok(PoleAt(k) + 4).lit, Builtin[it.fields[k].type])
      BY Zenon DEF FieldsKnown, StructStands
    <3> QED BY <3>1, TypeKnown, Zenon
  <2> DEFINE p == pair(k)
             a == Throws(~Match(VarDefine, PoleAt(k)))
             b == TypeFault(PoleAt(k) + 4)
  <2>3. p = <<a, b>>
    OBVIOUS
  <2>4. a = "" /\ b = ""
    BY <2>1, <2>2, Zenon
  <2> HIDE DEF p, a, b
  <2>5. FirstOf(p) = ""
    BY <2>3, <2>4, TwoFaults, Zenon
  <2> QED BY <2>5, Zenon DEF p
<1>3. FirstOf(one \o faults) = ""
  <2>1. Throws(~Match(StructDefine, pos)) = ""
    BY Zenon DEF Throws, StructStands
  <2>2. one \in Seq({""})
    BY <2>1, FaultOne, Zenon
  <2>3. faults \in Seq({""})
    <3> HIDE DEF pair
    <3>1. \A k \in 1 .. n : faults[k] = ""
      BY <1>2, Zenon
    <3>2. faults = [k \in 1 .. n |-> faults[k]]
      OBVIOUS
    <3> HIDE DEF faults
    <3> QED BY <1>0, <3>1, <3>2, FaultSeq, Zenon
  <2> HIDE DEF one, faults
  <2> QED BY <2>2, <2>3, FaultsJoin, Zenon
<1>4. /\ layers' = Add(layers, 0, Tok(pos + 1).lit, Built(n))
      /\ Outcome("", 3 + PoleSize * n + 1)
      /\ UNCHANGED <<program, tokens, functions, open, parsed, parses>>
  BY <1>1, <1>3, Zenon DEF Datatype
<1>5. pos' = pos + (3 + 6 * n + 1) /\ UNCHANGED status
  BY <1>4, Zenon DEF Outcome, PoleSize
<1>6. Tok(pos + 1).lit = it.struct
  BY Zenon DEF StructStands
<1>7. \E poles : Built(n) = Type(FieldBytes(it), poles)
  <2>1. OffsetOf(n + 1) = FieldBytes(it)
    BY BuiltIs, Zenon
  <2> QED BY <2>1, Zenon DEF Built
<1> QED
  BY <1>4, <1>5, <1>6, <1>7, Zenon

-----------------------------------------------------------------------------
(* Heads of functions. *)

HasRet(it) == it.ret # "void"

IsName(k) == Is(k, "Id")
IsComma(k) == Is(k, ",")
IsParen(k) == Is(k, ")")
IsColon(k) == Is(k, ":")

NameAt(k) == pos + 4 + 2 * (k - 1)

NamesStand(args, n) ==
    \A k \in 1 .. n :
        /\ IsName(NameAt(k)) /\ Tok(NameAt(k)).lit = args[k]
        /\ k # 1 => IsComma(NameAt(k) - 1)

FuncStands(it, close) ==
    /\ Is(pos, "func") /\ Match(FuncDefine, pos) /\ Tok(pos + 2).lit = it.func
    /\ NamesStand(it.args, Len(it.args))
    /\ IsParen(close)
    /\ IsColon(close + 1) <=> HasRet(it)
    /\ HasRet(it) => Tok(close + 2).lit = it.ret

Count(n) == IF n = 0 THEN 0 ELSE 2 * n - 1

LEMMA NamesListed ==
    ASSUME NEW it \in FuncItems
    PROVE  /\ Len(Listed(Args(it))) = Count(Len(it.args))
           /\ \A k \in 1 .. Len(it.args) : Upto(Args(it), k) = 2 * k - 1
<1> DEFINE seqs == Args(it)
           n == Len(it.args)
           S == {k \in Nat : k + 1 <= n => Upto(seqs, k + 1) = 2 * (k + 1) - 1}
<1>1. seqs \in Seq(Seq(Toks)) /\ Len(seqs) = n /\ n \in Nat
  BY ArgsTyped, Zenon
<1>2. \A k \in 1 .. n : Len(seqs[k]) = 1
  <2> SUFFICES ASSUME NEW k \in 1 .. n PROVE Len(seqs[k]) = 1
    OBVIOUS
  <2>1. seqs[k] = <<Ident(it.args[k])>>
    BY ArgsTyped, Zenon
  <2> QED BY <2>1, One, Zenon
<1>3. Upto(seqs, 0) = 0 /\ Upto(seqs, n) = Len(Listed(seqs)) /\ Len(Listed(seqs)) \in Nat
      /\ \A k \in 0 .. n : Upto(seqs, k) \in 0 .. Len(Listed(seqs))
  BY <1>1, ListEnds, Zenon
<1> HIDE DEF seqs, n
<1>4. 0 \in S
  <2>1. ASSUME 0 + 1 <= n PROVE Upto(seqs, 0 + 1) = 2 * (0 + 1) - 1
    <3>1. 1 \in 1 .. n
      BY <1>1, <2>1
    <3>2. Upto(seqs, 1) = Len(seqs[1])
      BY <1>1, <3>1, ListFirst, Zenon
    <3>3. Upto(seqs, 1) = 1
      BY <1>2, <3>1, <3>2, Zenon
    <3> QED BY <3>3
  <2> QED BY <2>1
<1>5. ASSUME NEW k \in Nat, k \in S PROVE k + 1 \in S
  <2>1. ASSUME (k + 1) + 1 <= n PROVE Upto(seqs, (k + 1) + 1) = 2 * ((k + 1) + 1) - 1
    <3>1. (k + 1) + 1 \in 2 .. n /\ ((k + 1) + 1) - 1 = k + 1 /\ k + 1 <= n /\ (k + 1) + 1 \in 1 .. n
      BY <1>1, <2>1
    <3>2. Upto(seqs, (k + 1) + 1) = Upto(seqs, k + 1) + 1 + Len(seqs[(k + 1) + 1])
      BY <1>1, <3>1, ListNext, Zenon
    <3>3. Len(seqs[(k + 1) + 1]) = 1
      BY <1>2, <3>1, Zenon
    <3>4. Upto(seqs, k + 1) = 2 * (k + 1) - 1
      BY <1>5, <3>1
    <3> QED BY <3>2, <3>3, <3>4
  <2> QED BY <2>1
<1>6. Nat \subseteq S
  <2> HIDE DEF S
  <2> QED BY <1>4, <1>5, SetInduction
<1>7. ASSUME NEW k \in 1 .. n PROVE Upto(seqs, k) = 2 * k - 1
  <2>1. k - 1 \in Nat /\ (k - 1) + 1 <= n /\ (k - 1) + 1 = k
    BY <1>1
  <2>2. k - 1 \in S
    BY <1>6, <2>1
  <2>3. Upto(seqs, (k - 1) + 1) = 2 * ((k - 1) + 1) - 1
    BY <2>1, <2>2
  <2> QED BY <2>1, <2>3
<1>8. Len(Listed(seqs)) = Count(n)
  <2>1. CASE n = 0
    BY <1>3, <2>1 DEF Count
  <2>2. CASE n # 0
    <3>1. n \in 1 .. n
      BY <1>1, <2>2
    <3>2. Upto(seqs, n) = 2 * n - 1
      BY <1>7, <3>1
    <3> QED BY <1>3, <2>2, <3>2 DEF Count
  <2> QED BY <2>1, <2>2
<1> QED BY <1>7, <1>8, Zenon DEF seqs, n

LEMMA NameStands ==
    ASSUME NEW it \in FuncItems, pos \in Nat, Len(tokens) \in Nat, Stands(pos + 4, Listed(Args(it))),
           \A k \in 1 .. Len(it.args) : it.args[k] \notin DOMAIN Insts
    PROVE  NamesStand(it.args, Len(it.args))
<1> DEFINE seqs == Args(it)
           n == Len(it.args)
           list == Listed(seqs)
<1>1. /\ seqs \in Seq(Seq(Toks)) /\ Len(seqs) = n /\ n \in Nat
      /\ \A k \in 1 .. n : seqs[k] = <<Ident(it.args[k])>>
  BY ArgsTyped, Zenon
<1>2. \A k \in 1 .. n : Upto(seqs, k) = 2 * k - 1
  BY NamesListed, Zenon
<1>3. Len(list) \in Nat
  BY <1>1, ListEnds, Zenon
<1>4. Stands(pos + 4, list)
  OBVIOUS
<1>t. 1 \in 1 .. n => Lies(list, 0, seqs[1])
  BY <1>1, ListFirst, Zenon
<1>u. \A k \in 2 .. n : /\ Lies(list, Upto(seqs, k - 1) + 1, seqs[k])
                        /\ Upto(seqs, k - 1) + 1 \in 1 .. Len(list)
                        /\ list[Upto(seqs, k - 1) + 1] = Mark(",")
  BY <1>1, ListNext, Zenon
<1> HIDE DEF seqs, list
<1> SUFFICES ASSUME NEW k \in 1 .. n
             PROVE  /\ IsName(NameAt(k)) /\ Tok(NameAt(k)).lit = it.args[k]
                    /\ k # 1 => IsComma(NameAt(k) - 1)
  BY Zenon DEF NamesStand
<1>n. it.args[k] \notin DOMAIN Insts
  OBVIOUS
<1> HIDE DEF n
<1>5. Lies(list, 2 * (k - 1), seqs[k])
  <2>1. CASE k = 1
    <3>1. 2 * (k - 1) = 0
      BY <2>1
    <3> QED BY <1>t, <2>1, <3>1, Zenon
  <2>2. CASE k # 1
    <3>1. k \in 2 .. n /\ k - 1 \in 1 .. n
      BY <1>1, <2>2
    <3>2. Upto(seqs, k - 1) + 1 = 2 * (k - 1)
      BY <1>2, <3>1
    <3>3. Lies(list, Upto(seqs, k - 1) + 1, seqs[k])
      BY <1>u, <3>1, Zenon
    <3> QED BY <3>2, <3>3, Zenon
  <2> QED BY <2>1, <2>2
<1>6. seqs[k] = <<Ident(it.args[k])>> /\ Len(seqs[k]) = 1 /\ seqs[k][1] = Ident(it.args[k])
  <2>1. seqs[k] = <<Ident(it.args[k])>>
    BY <1>1, Zenon
  <2> QED BY <2>1, One, Zenon
<1>7. NameAt(k) = (pos + 4) + 2 * (k - 1) /\ 2 * (k - 1) \in Nat /\ NameAt(k) \in Nat /\ pos + 4 \in Nat
      /\ NameAt(k) + (1 - 1) = NameAt(k)
  BY <1>1 DEF NameAt
<1>8. Tok(NameAt(k)) = MarkedToken(Ident(it.args[k]))
  <2>1. Len(seqs[k]) \in Nat /\ 1 \in 1 .. Len(seqs[k])
    <3>1. Len(seqs[k]) = 1
      BY <1>6, Zenon
    <3> QED BY <3>1
  <2>2. Stands((pos + 4) + 2 * (k - 1), seqs[k])
    BY <1>3, <1>4, <1>5, <1>7, <2>1, StandsIn, Zenon
  <2>3. Tok(NameAt(k) + (1 - 1)) = MarkedToken(seqs[k][1])
    BY <1>7, <2>1, <2>2, TokenIn, Zenon
  <2> QED BY <1>6, <1>7, <2>3, Zenon
<1>9. IsName(NameAt(k)) /\ Tok(NameAt(k)).lit = it.args[k]
  BY <1>8, <1>n, IdentSeen, Zenon DEF IsName
<1>10. ASSUME k # 1 PROVE IsComma(NameAt(k) - 1)
  <2>1. k \in 2 .. n /\ k - 1 \in 1 .. n
    BY <1>1, <1>10
  <2>2. Upto(seqs, k - 1) + 1 = 2 * (k - 1)
    BY <1>2, <2>1
  <2>3. 2 * (k - 1) \in 1 .. Len(list) /\ list[2 * (k - 1)] = Mark(",")
    BY <1>u, <2>1, <2>2, Zenon
  <2> DEFINE j == 2 * (k - 1)
             b == pos + 4
  <2>j. j \in 1 .. Len(list) /\ list[j] = Mark(",") /\ Stands(b, list) /\ b \in Nat
    BY <1>4, <1>7, <2>3, Zenon
  <2>4. Tok(b + (j - 1)) = MarkedToken(Mark(","))
    <3> HIDE DEF j, b
    <3>1. Tok(b + (j - 1)) = MarkedToken(list[j])
      BY <1>3, <2>j, TokenIn, Zenon
    <3> QED BY <2>j, <3>1, Zenon
  <2>5. (pos + 4) + (2 * (k - 1) - 1) = NameAt(k) - 1
    BY <1>7
  <2>6. "," \in Signs
    BY DEF Signs
  <2> QED BY <2>4, <2>5, <2>6, MarkSeen, Zenon DEF IsComma
<1> QED BY <1>9, <1>10, Zenon

LEMMA FuncSeen ==
    ASSUME NEW it \in FuncItems, pos \in Nat, Len(tokens) \in Nat, Stands(pos, HeadTokens(it)),
           it.func \notin DOMAIN Insts, it.ret \notin DOMAIN Insts,
           \A k \in 1 .. Len(it.args) : it.args[k] \notin DOMAIN Insts
    PROVE  FuncStands(it, pos + 4 + Count(Len(it.args)))
<1> DEFINE h == HeadTokens(it)
           name == NameTokens(it)
           list == Listed(Args(it))
           r == RetTokens(it)
           L == Len(list)
           close == pos + (4 + L)
<1>1. /\ Len(h) = 4 + L + Len(r) /\ L \in Nat
      /\ Lies(h, 0, name) /\ Lies(h, 4, list) /\ Lies(h, 4 + L, r)
  BY FuncHead, Zenon
<1>2. /\ Len(name) = 4
      /\ name[1] = Mark("func") /\ name[2] = Mark("@") /\ name[3] = Ident(it.func)
      /\ name[4] = Mark("(")
  BY NameTyped, Zenon
<1>3. /\ Len(r) \in {2, 4} /\ r[1] = Mark(")")
      /\ ~HasRet(it) => r[2] = Mark("{")
      /\ HasRet(it) => Len(r) = 4 /\ r[2] = Mark(":") /\ r[3] = Ident(it.ret)
  BY RetTyped, Zenon DEF HasRet
<1>4. Stands(pos, h)
  OBVIOUS
<1>5. L = Count(Len(it.args))
  BY NamesListed, Zenon
<1> HIDE DEF h, name, list, r
<1>6. Len(h) \in Nat /\ Len(r) \in Nat /\ 4 + L \in Nat /\ Len(name) \in Nat
  <2>1. Len(r) \in {2, 4} /\ L \in Nat
    BY <1>1, <1>3, Zenon
  <2>2. Len(r) \in Nat /\ 4 + L \in Nat
    BY <2>1
  <2>3. Len(h) = 4 + L + Len(r) /\ Len(name) = 4
    BY <1>1, <1>2, Zenon
  <2> QED BY <2>1, <2>2, <2>3
<1>l. Len(list) \in Nat
  BY <1>1, Zenon
<1> HIDE DEF L
<1>7. Stands(pos, name) /\ Stands(pos + 4, list) /\ Stands(close, r)
  <2>1. Stands(pos + 0, name)
    BY <1>1, <1>4, <1>6, StandsIn
  <2>2. Stands(pos + 4, list)
    BY <1>1, <1>4, <1>6, <1>l, StandsIn
  <2>3. Stands(pos + (4 + L), r)
    BY <1>1, <1>4, <1>6, StandsIn
  <2> QED BY <2>1, <2>2, <2>3
<1>s. "func" \in Signs /\ "@" \in Signs /\ "(" \in Signs /\ ")" \in Signs /\ ":" \in Signs /\ "{" \in Signs
  BY DEF Signs
<1>8. Is(pos, "func") /\ Match(FuncDefine, pos) /\ Tok(pos + 2).lit = it.func
  <2>1. /\ 1 \in 1 .. Len(name) /\ 2 \in 1 .. Len(name) /\ 3 \in 1 .. Len(name) /\ 4 \in 1 .. Len(name)
        /\ pos + (1 - 1) = pos /\ pos + (2 - 1) = pos + 1 /\ pos + (3 - 1) = pos + 2
        /\ pos + (4 - 1) = pos + 3
    <3>1. Len(name) = 4
      BY <1>2, Zenon
    <3> QED BY <3>1
  <2>2. /\ Tok(pos + (1 - 1)) = MarkedToken(name[1]) /\ Tok(pos + (2 - 1)) = MarkedToken(name[2])
        /\ Tok(pos + (3 - 1)) = MarkedToken(name[3]) /\ Tok(pos + (4 - 1)) = MarkedToken(name[4])
    BY <1>6, <1>7, <2>1, TokenIn, Zenon
  <2>3. /\ Tok(pos) = MarkedToken(Mark("func")) /\ Tok(pos + 1) = MarkedToken(Mark("@"))
        /\ Tok(pos + 2) = MarkedToken(Ident(it.func)) /\ Tok(pos + 3) = MarkedToken(Mark("("))
    BY <1>2, <2>1, <2>2, Zenon
  <2>4. Is(pos, "func") /\ Is(pos + 1, "@") /\ Is(pos + 2, "Id") /\ Tok(pos + 2).lit = it.func
        /\ Is(pos + 3, "(")
    BY <1>s, <2>3, MarkSeen, IdentSeen, Zenon
  <2>5. Match(FuncDefine, pos)
    BY <2>4, Rules, Zenon
  <2> QED BY <2>4, <2>5, Zenon
<1>9. NamesStand(it.args, Len(it.args))
  BY <1>7, NameStands, Zenon DEF list
<1>10. close \in Nat /\ close = pos + 4 + Count(Len(it.args))
       /\ close + (1 - 1) = close /\ close + (2 - 1) = close + 1 /\ close + (3 - 1) = close + 2
  <2>1. close = pos + 4 + L /\ close \in Nat
    BY <1>1 DEF L
  <2> QED BY <1>5, <2>1
<1> HIDE DEF close
<1>11. 1 \in 1 .. Len(r) /\ 2 \in 1 .. Len(r)
  <2>1. Len(r) \in {2, 4}
    BY <1>3, Zenon
  <2> DEFINE k == Len(r)
  <2>2. k \in {2, 4}
    BY <2>1
  <2> HIDE DEF k
  <2>3. 1 \in 1 .. k /\ 2 \in 1 .. k
    BY <2>2
  <2> QED BY <2>3 DEF k
<1>12. IsParen(close)
  <2>1. Tok(close + (1 - 1)) = MarkedToken(r[1])
    BY <1>6, <1>7, <1>10, <1>11, TokenIn, Zenon
  <2>2. Tok(close) = MarkedToken(Mark(")"))
    BY <1>3, <1>10, <2>1, Zenon
  <2> QED BY <1>s, <2>2, MarkSeen, Zenon DEF IsParen
<1>13. Tok(close + 1) = MarkedToken(r[2])
  <2>1. Tok(close + (2 - 1)) = MarkedToken(r[2])
    BY <1>6, <1>7, <1>10, <1>11, TokenIn, Zenon
  <2> QED BY <1>10, <2>1, Zenon
<1>14. IsColon(close + 1) <=> HasRet(it)
  <2>1. ASSUME HasRet(it) PROVE IsColon(close + 1)
    BY <1>3, <1>s, <1>13, <2>1, MarkSeen, Zenon DEF IsColon
  <2>2. ASSUME ~HasRet(it) PROVE ~IsColon(close + 1)
    <3>1. Is(close + 1, "{")
      BY <1>3, <1>s, <1>13, <2>2, MarkSeen, Zenon
    <3> QED BY <3>1, Zenon DEF IsColon, Is
  <2> QED BY <2>1, <2>2, Zenon
<1>15. ASSUME HasRet(it) PROVE Tok(close + 2).lit = it.ret
  <2>1. 3 \in 1 .. Len(r)
    <3>1. Len(r) = 4
      BY <1>3, <1>15, Zenon
    <3> QED BY <3>1
  <2>2. Tok(close + (3 - 1)) = MarkedToken(r[3])
    BY <1>6, <1>7, <1>10, <2>1, TokenIn, Zenon
  <2>3. Tok(close + 2) = MarkedToken(Ident(it.ret))
    BY <1>3, <1>10, <1>15, <2>2, Zenon
  <2> QED BY <2>3, IdentSeen, Zenon
<1>16. FuncStands(it, close)
  BY <1>8, <1>9, <1>12, <1>14, <1>15, Zenon DEF FuncStands
<1> QED BY <1>10, <1>16, Zenon

LEMMA Parity ==
    ASSUME NEW d \in Nat
    PROVE  \E j \in Nat : d = 2 * j \/ d = 2 * j + 1
<1>1. d \div 2 \in Nat /\ (d = 2 * (d \div 2) \/ d = 2 * (d \div 2) + 1)
  OBVIOUS
<1> QED BY <1>1

LEMMA ParenAt ==
    ASSUME NEW args, NEW n \in Nat, NamesStand(args, n), pos \in Nat, Len(tokens) \in Nat,
           NEW close, close = pos + 4 + Count(n), IsParen(close), close <= Len(tokens)
    PROVE  Next1(")", pos + 4) = close
<1>1. close \in pos + 4 .. Len(tokens) /\ pos + 4 \in Nat
  BY DEF Count
<1>2. ASSUME NEW m \in pos + 4 .. close - 1 PROVE ~Is(m, ")")
  <2>1. m - (pos + 4) \in Nat
    BY <1>1, <1>2
  <2>2. PICK j \in Nat : m - (pos + 4) = 2 * j \/ m - (pos + 4) = 2 * j + 1
    BY <2>1, Parity
  <2>3. CASE m - (pos + 4) = 2 * j
    <3>1. j + 1 \in 1 .. n /\ m = NameAt(j + 1)
      BY <1>1, <1>2, <2>2, <2>3 DEF Count, NameAt
    <3>2. IsName(m)
      BY <3>1, Zenon DEF NamesStand
    <3> QED BY <3>2 DEF IsName, Is
  <2>4. CASE m - (pos + 4) = 2 * j + 1
    <3>1. j + 2 \in 1 .. n /\ m = NameAt(j + 2) - 1 /\ j + 2 # 1
      BY <1>1, <1>2, <2>2, <2>4 DEF Count, NameAt
    <3>2. IsComma(m)
      BY <3>1, Zenon DEF NamesStand
    <3> QED BY <3>2, Zenon DEF IsComma, Is
  <2> QED BY <2>2, <2>3, <2>4
<1>3. Is(close, ")")
  BY Zenon DEF IsParen
<1> QED
  BY <1>1, <1>2, <1>3, NextToken

ArgsKnown(args, sizes) ==
    \A k \in 1 .. Len(args) : KnowsType(args[k], sizes[k])

Tokened(n) == [k \in 1 .. Count(n) |-> pos + 3 + k]

TokenFault(at, k) ==
    IF k % 2 = 0 THEN Throws(~Is(at, ","))
    ELSE FirstOf(<<Throws(~Is(at, "Id")), TypeFault(at)>>)

LEMMA NameFault ==
    ASSUME NEW args, NEW n, n = Len(args), n \in Nat, NamesStand(args, n), NEW sizes, ArgsKnown(args, sizes),
           pos \in Nat, NEW k \in 1 .. Count(n)
    PROVE  TokenFault(pos + 3 + k, k) = ""
<1>1. k \in Nat /\ n \in Nat
  BY DEF Count
<1>2. PICK j \in Nat : k = 2 * j \/ k = 2 * j + 1
  BY <1>1, Parity
<1>3. CASE k = 2 * j
  <2>1. k % 2 = 0 /\ j + 1 \in 1 .. n /\ pos + 3 + k = NameAt(j + 1) - 1 /\ j + 1 # 1
    BY <1>1, <1>2, <1>3 DEF Count, NameAt
  <2>2. Is(pos + 3 + k, ",")
    BY <2>1, Zenon DEF NamesStand, IsComma
  <2> QED BY <2>1, <2>2, Zenon DEF TokenFault, Throws
<1>4. CASE k = 2 * j + 1
  <2>1. k % 2 # 0 /\ j + 1 \in 1 .. n /\ pos + 3 + k = NameAt(j + 1)
    BY <1>1, <1>2, <1>4 DEF Count, NameAt
  <2>2. Is(pos + 3 + k, "Id") /\ Tok(pos + 3 + k).lit = args[j + 1]
    BY <2>1, Zenon DEF NamesStand, IsName
  <2>3. KnowsType(Tok(pos + 3 + k).lit, sizes[j + 1])
    BY <2>1, <2>2, Zenon DEF ArgsKnown
  <2>4. TypeFault(pos + 3 + k) = ""
    BY <2>3, TypeKnown, Zenon
  <2> DEFINE at == pos + 3 + k
             a == Throws(~Is(at, "Id"))
             b == TypeFault(at)
             q == <<a, b>>
  <2>5. a = "" /\ b = "" /\ q = <<a, b>>
    BY <2>2, <2>4, Zenon DEF Throws
  <2>6. TokenFault(at, k) = FirstOf(q)
    BY <2>1, Zenon DEF TokenFault
  <2> HIDE DEF a, b, q
  <2>7. FirstOf(q) = ""
    BY <2>5, TwoFaults, Zenon
  <2> QED BY <2>6, <2>7, Zenon
<1> QED BY <1>2, <1>3, <1>4, Zenon

LEMMA HalfCount ==
    ASSUME NEW n \in Nat
    PROVE  (Count(n) + 1) \div 2 = n
<1>1. CASE n = 0
  BY <1>1 DEF Count
<1>2. CASE n # 0
  <2>1. Count(n) + 1 = 2 * n
    BY <1>2 DEF Count
  <2>2. (2 * n) \div 2 = n
    OBVIOUS
  <2> QED BY <2>1, <2>2, Zenon
<1> QED BY <1>1, <1>2

TakenArgs(args, sizes) == [k \in 1 .. Len(args) |-> [name |-> args[k], size |-> sizes[k]]]

ReadArgs(names) == [k \in DOMAIN names |-> [name |-> Tok(names[k]).lit, size |-> TypeAt(names[k]).size]]

OddOf(list) == [k \in 1 .. (Len(list) + 1) \div 2 |-> list[2 * k - 1]]

LEMMA ArgsTaken ==
    ASSUME NEW args, NEW n, n = Len(args), n \in Nat, NamesStand(args, n), NEW sizes, ArgsKnown(args, sizes),
           pos \in Nat, NEW list, list = Tokened(n), NEW names, names = OddOf(list)
    PROVE  ReadArgs(names) = TakenArgs(args, sizes)
<1>1. Len(list) = Count(n) /\ \A k \in 1 .. Count(n) : list[k] = pos + 3 + k
  BY DEF Tokened, Count
<1>2. (Len(list) + 1) \div 2 = n
  <2>1. Len(list) = Count(n)
    BY <1>1, Zenon
  <2> QED BY <2>1, HalfCount, Zenon
<1>3. DOMAIN names = 1 .. n
  BY <1>2, Zenon DEF OddOf
<1>4. ASSUME NEW k \in 1 .. n
      PROVE  Tok(names[k]).lit = args[k] /\ TypeAt(names[k]).size = sizes[k]
  <2>1. 2 * k - 1 \in 1 .. Count(n) /\ pos + 3 + (2 * k - 1) = NameAt(k)
    BY DEF Count, NameAt
  <2>2. names[k] = list[2 * k - 1]
    BY <1>2, Zenon DEF OddOf
  <2>3. names[k] = NameAt(k)
    BY <1>1, <2>1, <2>2, Zenon
  <2>4. Tok(names[k]).lit = args[k]
    BY <2>3, Zenon DEF NamesStand
  <2>5. KnowsType(Tok(names[k]).lit, sizes[k])
    BY <2>4, Zenon DEF ArgsKnown
  <2>6. TypeAt(names[k]).size = sizes[k]
    BY <2>5, TypeKnown, Zenon
  <2> QED BY <2>4, <2>6, Zenon
<1>5. \A k \in 1 .. n : [name |-> Tok(names[k]).lit, size |-> TypeAt(names[k]).size]
                           = [name |-> args[k], size |-> sizes[k]]
  BY <1>4, Zenon
<1> QED
  BY <1>3, <1>5, Zenon DEF TakenArgs, ReadArgs

NewFunction(it, sizes, ret) ==
    [scope |-> Len(layers), name |-> it.func, args |-> TakenArgs(it.args, sizes),
     ret |-> ret, lines |-> <<>>]

RetKnown(it, ret) == IF HasRet(it) THEN KnowsType(it.ret, ret) ELSE ret = Builtin["void"]

HeadUpTo(close) ==
    LET list == [k \in 1 .. close - (pos + 4) |-> pos + 3 + k]
        faults == [k \in DOMAIN list |-> TokenFault(list[k], k)]
        hasRet == Is(close + 1, ":")
        fault == FirstOf(<<Throws(~Match(FuncDefine, pos))>> \o faults
                            \o <<IF hasRet THEN TypeFault(close + 2) ELSE "">>)
        names == [k \in 1 .. (Len(list) + 1) \div 2 |-> list[2 * k - 1]]
    IN /\ layers' = IF Match(FuncDefine, pos) THEN Append(layers, <<>>) ELSE layers
       /\ open' = IF fault # "" THEN open
                  ELSE [scope |-> Len(layers),
                        name  |-> Tok(pos + 2).lit,
                        args  |-> [k \in DOMAIN names |->
                                     [name |-> Tok(names[k]).lit, size |-> TypeAt(names[k]).size]],
                        ret   |-> IF hasRet THEN TypeAt(close + 2).size ELSE Builtin["void"],
                        lines |-> <<>>]
       /\ Outcome(fault, close - pos + (IF hasRet THEN 4 ELSE 2))

LEMMA FunctionStep ==
    ASSUME Function, NEW it \in FuncItems, NEW close, close = pos + 4 + Count(Len(it.args)),
           FuncStands(it, close), pos \in Nat, Len(tokens) \in Nat, close <= Len(tokens),
           NEW sizes, ArgsKnown(it.args, sizes), NEW ret, RetKnown(it, ret)
    PROVE  /\ layers' = Append(layers, <<>>)
           /\ open' = NewFunction(it, sizes, ret)
           /\ pos' = pos + (4 + Count(Len(it.args)) + (IF HasRet(it) THEN 4 ELSE 2))
           /\ UNCHANGED <<program, tokens, functions, status, parsed, parses>>
<1> DEFINE n == Len(it.args)
           list == [k \in 1 .. close - (pos + 4) |-> pos + 3 + k]
           faults == [k \in DOMAIN list |-> TokenFault(list[k], k)]
           hasRet == Is(close + 1, ":")
           first == <<Throws(~Match(FuncDefine, pos))>>
           last == <<IF hasRet THEN TypeFault(close + 2) ELSE "">>
           fault == FirstOf(first \o faults \o last)
           names == [k \in 1 .. (Len(list) + 1) \div 2 |-> list[2 * k - 1]]
<1>1. n \in Nat
  BY ArgsTyped, Zenon
<1>2. /\ NamesStand(it.args, n) /\ IsParen(close) /\ Match(FuncDefine, pos)
      /\ hasRet <=> HasRet(it)
      /\ HasRet(it) => Tok(close + 2).lit = it.ret
      /\ Tok(pos + 2).lit = it.func
  BY Zenon DEF FuncStands, IsColon
<1>3. Next1(")", pos + 4) = close
  BY <1>1, <1>2, ParenAt, Zenon
<1>4. /\ layers' = IF Match(FuncDefine, pos) THEN Append(layers, <<>>) ELSE layers
      /\ open' = IF fault # "" THEN open
                 ELSE [scope |-> Len(layers),
                       name  |-> Tok(pos + 2).lit,
                       args  |-> [k \in DOMAIN names |->
                                    [name |-> Tok(names[k]).lit, size |-> TypeAt(names[k]).size]],
                       ret   |-> IF hasRet THEN TypeAt(close + 2).size ELSE Builtin["void"],
                       lines |-> <<>>]
      /\ Outcome(fault, close - pos + (IF hasRet THEN 4 ELSE 2))
      /\ UNCHANGED <<program, tokens, functions, parsed, parses>>
  <2>1. HeadUpTo(Next1(")", pos + 4)) /\ UNCHANGED <<program, tokens, functions, parsed, parses>>
    BY Zenon DEF Function, TokenFault, HeadUpTo
  <2>2. HeadUpTo(close)
    BY <1>3, <2>1, Zenon
  <2> QED BY <2>1, <2>2, Zenon DEF HeadUpTo
<1> HIDE DEF n
<1>5. list = Tokened(n)
  <2>1. close - (pos + 4) = Count(n)
    BY <1>1 DEF Count, n
  <2> QED BY <2>1, Zenon DEF Tokened
<1>6. Len(list) = Count(n) /\ DOMAIN list = 1 .. Count(n) /\ Count(n) \in Nat
      /\ \A k \in 1 .. Count(n) : list[k] = pos + 3 + k
  BY <1>1, <1>5 DEF Tokened, Count
<1> HIDE DEF list
<1>7. \A k \in 1 .. Count(n) : faults[k] = ""
  <2> SUFFICES ASSUME NEW k \in 1 .. Count(n) PROVE TokenFault(list[k], k) = ""
    BY <1>6, Zenon
  <2>1. TokenFault(pos + 3 + k, k) = ""
    BY <1>1, <1>2, NameFault, Zenon DEF n
  <2>2. list[k] = pos + 3 + k
    BY <1>6, Zenon
  <2> QED BY <2>1, <2>2, Zenon
<1>8. faults \in Seq({""})
  <2>1. faults = [k \in 1 .. Count(n) |-> faults[k]]
    BY <1>6, Zenon
  <2> HIDE DEF faults
  <2> QED BY <1>6, <1>7, <2>1, FaultSeq, Zenon
<1>9. first \in Seq({""})
  <2>1. Throws(~Match(FuncDefine, pos)) = ""
    BY <1>2, Zenon DEF Throws
  <2> QED BY <2>1, FaultOne, Zenon
<1>10. hasRet => KnowsType(Tok(close + 2).lit, ret)
  BY <1>2, Zenon DEF RetKnown
<1>11. last \in Seq({""})
  <2>1. (IF hasRet THEN TypeFault(close + 2) ELSE "") = ""
    <3>1. hasRet => TypeFault(close + 2) = ""
      BY <1>10, TypeKnown, Zenon
    <3> QED BY <3>1, Zenon
  <2> QED BY <2>1, FaultOne, Zenon
<1>12. fault = ""
  <2> HIDE DEF first, faults, last
  <2>1. first \o faults \in Seq({""})
    BY <1>8, <1>9, FaultsJoin, Zenon
  <2> QED BY <1>11, <2>1, FaultsJoin, Zenon
<1> HIDE DEF fault
<1>13. (IF hasRet THEN TypeAt(close + 2).size ELSE Builtin["void"]) = ret
  <2>1. hasRet => TypeAt(close + 2).size = ret
    BY <1>10, TypeKnown, Zenon
  <2>2. ~hasRet => ret = Builtin["void"]
    BY <1>2, Zenon DEF RetKnown
  <2> QED BY <2>1, <2>2, Zenon
<1>14. ReadArgs(names) = TakenArgs(it.args, sizes)
  <2>1. names = OddOf(list)
    BY Zenon DEF OddOf
  <2>2. n = Len(it.args)
    BY DEF n
  <2> HIDE DEF names
  <2> QED BY <1>1, <1>2, <1>5, <2>1, <2>2, ArgsTaken, Zenon
<1> HIDE DEF names
<1>15. open' = NewFunction(it, sizes, ret)
  BY <1>2, <1>4, <1>12, <1>13, <1>14, Zenon DEF NewFunction, ReadArgs
<1>16. layers' = Append(layers, <<>>)
  BY <1>2, <1>4, Zenon
<1>17. pos' = pos + (close - pos + (IF hasRet THEN 4 ELSE 2)) /\ UNCHANGED status
  BY <1>4, <1>12, Zenon DEF Outcome
<1>18. pos' = pos + (4 + Count(n) + (IF HasRet(it) THEN 4 ELSE 2))
  <2> DEFINE d == IF HasRet(it) THEN 4 ELSE 2
  <2>1. pos' = pos + (close - pos + d)
    BY <1>2, <1>17, Zenon
  <2>2. d \in Nat /\ close = pos + 4 + Count(n)
    BY DEF n
  <2> HIDE DEF d
  <2>3. pos + (close - pos + d) = pos + (4 + Count(n) + d)
    BY <1>6, <2>2
  <2> QED BY <2>1, <2>3, Zenon DEF d
<1> QED
  BY <1>4, <1>15, <1>16, <1>17, <1>18, Zenon DEF n

-----------------------------------------------------------------------------
(* The inductive invariant. *)

\* What the global layer holds behind i items.
GlobalsKept(ls, p, i) ==
    /\ \A n \in DOMAIN Globals : n \in DOMAIN ls[1] /\ ls[1][n] = Globals[n]
    /\ \A j \in 1 .. i :
          Has(p[j], "struct") =>
             /\ p[j].struct \in DOMAIN ls[1] /\ ls[1][p[j].struct].kind = "type"
             /\ ls[1][p[j].struct].size = SizeOf(p, p[j].struct)
    /\ \A n \in DOMAIN ls[1] :
          n \in DOMAIN Globals \/ \E j \in 1 .. i : \/ Has(p[j], "struct") /\ n = p[j].struct
                                                    \/ Has(p[j], "func") /\ n = p[j].func

\* The layers of functions hide no register.
ScopesClean(ls, m) == \A k \in 2 .. m : DOMAIN ls[k] \cap DOMAIN Registers = {}

\* The layer of a function holds what its first l lines declare, and of two
\* declarations the first.
ScopeHolds(layer, lines, l) ==
    /\ \A k \in 1 .. l : Has(lines[k], "var") => lines[k].var \in DOMAIN layer
    /\ \A name \in DOMAIN layer :
          LET n == DeclaredAt(lines, l + 1, name)
          IN /\ n # 0
             /\ Has(lines[n], "base") =>
                   /\ layer[name].kind = "var"
                   /\ layer[name].address = Address(lines[n].base, 0, lines[n].diff, "RelativeWithDiff")

SettledLine(line) == Has(line, "inst") => \A n \in DOMAIN line.args : Settled(line.args[n])

PlainLine(line) ==
    IF ~Has(line, "inst") THEN line
    ELSE [line EXCEPT !.args = [n \in DOMAIN @ |-> PlainArg(@[n])]]

LineMatches(line, meaning) == SettledLine(line) /\ PlainLine(line) = meaning

Matches(lines, meaning) ==
    /\ Indexed(lines, Len(meaning)) /\ Indexed(meaning, Len(meaning))
    /\ \A n \in 1 .. Len(meaning) : LineMatches(lines[n], meaning[n])

LineMeanings(p, lines) == [k \in DOMAIN lines |-> LineMeaning(p, lines, k)]

Meanings(p) == [k \in DOMAIN p |-> IF Has(p[k], "func") THEN <<FunctionMeaning(p, p[k])>> ELSE <<>>]

FunctionMatches(f, meaning) ==
    /\ meaning = [name  |-> FullName(f.name, [n \in DOMAIN f.args |-> f.args[n].name]),
                  args  |-> Total([n \in DOMAIN f.args |-> f.args[n].size]),
                  ret   |-> f.ret,
                  lines |-> meaning.lines]
    /\ Matches(f.lines, meaning.lines)

\* The container holds the functions of the first i items.
Handed(p, i, fs) ==
    LET meaning == Joins(Meanings(p))[i]
    IN /\ Indexed(fs, Len(meaning))
       /\ \A k \in 1 .. Len(meaning) :
             fs[k].scope = k /\ FunctionMatches(fs[k], meaning[k])

Sizes(p, names) == [k \in 1 .. Len(names) |-> SizeOf(p, names[k])]

\* The function being parsed is the i-th item, up to its l-th line.
Opened(p, i, l, f, scope) ==
    /\ f = [scope |-> scope, name |-> p[i].func, args |-> TakenArgs(p[i].args, Sizes(p, p[i].args)),
            ret |-> SizeOf(p, p[i].ret), lines |-> f.lines]
    /\ Matches(f.lines, Joins(LineMeanings(p, p[i].lines))[l])

Between(p, i, at, ls, fs, f) ==
    /\ f = NoFunction /\ at = 1 + Before(p, i)
    /\ Indexed(ls, Len(fs) + 1)
    /\ GlobalsKept(ls, p, i) /\ ScopesClean(ls, Len(fs) + 1)
    /\ Handed(p, i, fs)

Within(p, i, l, at, ls, fs, f) ==
    /\ Has(p[i], "func") /\ at = 1 + Before(p, i - 1) + Inside(p[i], l + 1)
    /\ Indexed(ls, Len(fs) + 2)
    /\ GlobalsKept(ls, p, i - 1) /\ ScopesClean(ls, Len(fs) + 2)
    /\ Handed(p, i - 1, fs)
    /\ Opened(p, i, l, f, Len(fs) + 1)
    /\ ScopeHolds(ls[Len(fs) + 2], p[i].lines, l)

Parsing(p, at, ls, fs, f) ==
    \/ \E i \in 0 .. Len(p) : Between(p, i, at, ls, fs, f)
    \/ \E i \in 1 .. Len(p) : Has(p[i], "func") /\
          \E l \in 0 .. Len(p[i].lines) : Within(p, i, l, at, ls, fs, f)

Fresh == layers = <<Globals>> /\ functions = <<>> /\ open = NoFunction

ParserInv ==
    /\ program \in Seq(Items)
    /\ status \in {"idle", "parsing", "parsed", "thrown", "undefined"}
    /\ status \in {"idle", "parsed"} => Fresh
    /\ status = "parsing" => tokens = Marked(Tokens(program))
    /\ Accepted
    /\ status = "parsing" /\ Proper(program) => Parsing(program, pos, layers, functions, open)
    /\ Faithful

\* Joined sequences of at most one element each.
LEMMA JoinsOne ==
    ASSUME NEW E, NEW seqs \in Seq(Seq(E)), NEW k \in 1 .. Len(seqs)
    PROVE  /\ seqs[k] = <<>> => Joins(seqs)[k] = Joins(seqs)[k - 1]
           /\ \A x \in E : seqs[k] = <<x>> =>
                 Extends(Joins(seqs)[k], Joins(seqs)[k - 1], Len(Joins(seqs)[k - 1]), x)
<1> DEFINE t == Joins(seqs)[k]
           s == Joins(seqs)[k - 1]
           u == seqs[k]
<1>1. t = s \o u /\ t \in Seq(E) /\ s \in Seq(E)
  <2>1. Pieces(seqs, E)
    BY JoinedPieces, Zenon
  <2>2. k \in 0 .. Len(seqs) /\ k - 1 \in 0 .. Len(seqs)
    OBVIOUS
  <2> QED BY <2>1, <2>2, Zenon DEF Pieces
<1>2. u \in Seq(E)
  OBVIOUS
<1> HIDE DEF t, s, u
<1>3. ASSUME u = <<>> PROVE t = s
  <2>1. s \o <<>> = s
    BY <1>1
  <2> QED BY <1>1, <1>3, <2>1, Zenon
<1>4. ASSUME NEW x \in E, u = <<x>> PROVE Extends(t, s, Len(s), x)
  <2>1. Len(u) = 1 /\ u[1] = x
    BY <1>4
  <2>2. /\ Len(s \o u) = Len(s) + Len(u)
        /\ \A i \in 1 .. Len(s) : (s \o u)[i] = s[i]
        /\ \A i \in 1 .. Len(u) : (s \o u)[Len(s) + i] = u[i]
    BY <1>1, <1>2, ConcatElements
  <2>3. 1 \in 1 .. Len(u)
    BY <2>1
  <2>4. t[Len(s) + 1] = x /\ \A i \in 1 .. Len(s) : t[i] = s[i]
    BY <1>1, <2>1, <2>2, <2>3, Zenon
  <2>5. Len(t) = Len(s) + 1
    BY <1>1, <2>1, <2>2, Zenon
  <2>6. Indexed(t, Len(s) + 1)
    BY <1>1, <2>5, SeqIndexed, Zenon
  <2> QED BY <2>4, <2>6, Zenon DEF Extends
<1> QED
  BY <1>3, <1>4, Zenon DEF t, s, u

LEMMA JoinsBase ==
    ASSUME NEW E, NEW seqs \in Seq(Seq(E))
    PROVE  /\ Joins(seqs)[0] = <<>> /\ Joins(seqs)[Len(seqs)] = Joined(seqs)
           /\ \A k \in 0 .. Len(seqs) : Joins(seqs)[k] \in Seq(E)
BY JoinedPieces, Zenon DEF Pieces

LEMMA MeaningsTyped ==
    ASSUME NEW p, NEW n \in Nat, DOMAIN p = 1 .. n
    PROVE  \E E : /\ Meanings(p) \in Seq(Seq(E)) /\ Len(Meanings(p)) = n
                  /\ \A k \in 1 .. n : FunctionMeaning(p, p[k]) \in E
<1> DEFINE x(k) == FunctionMeaning(p, p[k])
           E == {x(k) : k \in 1 .. n}
           piece(k) == IF Has(p[k], "func") THEN <<x(k)>> ELSE <<>>
<1>1. Meanings(p) = [k \in 1 .. n |-> piece(k)]
  BY Zenon DEF Meanings
<1>2. \A k \in 1 .. n : x(k) \in E
  OBVIOUS
<1> HIDE DEF x, E
<1>3. \A k \in 1 .. n : piece(k) \in Seq(E)
  <2> SUFFICES ASSUME NEW k \in 1 .. n PROVE piece(k) \in Seq(E)
    OBVIOUS
  <2>1. <<x(k)>> \in Seq(E) /\ <<>> \in Seq(E)
    <3>1. x(k) \in E
      BY <1>2, Zenon
    <3> QED BY <3>1
  <2> QED BY <2>1, Zenon
<1> HIDE DEF piece
<1>4. [k \in 1 .. n |-> piece(k)] \in Seq(Seq(E)) /\ Len([k \in 1 .. n |-> piece(k)]) = n
  BY <1>3
<1>5. Meanings(p) \in Seq(Seq(E)) /\ Len(Meanings(p)) = n
  BY <1>1, <1>4, Zenon
<1> QED
  BY <1>2, <1>5, Zenon DEF x

LEMMA FuncMeaningAt ==
    ASSUME NEW p, NEW n \in Nat, DOMAIN p = 1 .. n, NEW i \in 1 .. n
    PROVE  /\ ~Has(p[i], "func") => Joins(Meanings(p))[i] = Joins(Meanings(p))[i - 1]
           /\ Has(p[i], "func") =>
                 Extends(Joins(Meanings(p))[i], Joins(Meanings(p))[i - 1],
                         Len(Joins(Meanings(p))[i - 1]), FunctionMeaning(p, p[i]))
<1>1. PICK E : /\ Meanings(p) \in Seq(Seq(E)) /\ Len(Meanings(p)) = n
               /\ \A k \in 1 .. n : FunctionMeaning(p, p[k]) \in E
  BY MeaningsTyped, Zenon
<1>2. /\ ~Has(p[i], "func") => Meanings(p)[i] = <<>>
      /\ Has(p[i], "func") => Meanings(p)[i] = <<FunctionMeaning(p, p[i])>>
  BY Zenon DEF Meanings
<1> QED
  BY <1>1, <1>2, JoinsOne, Zenon

LEMMA MeaningIs ==
    ASSUME NEW p, NEW n \in Nat, DOMAIN p = 1 .. n
    PROVE  /\ Joins(Meanings(p))[0] = <<>> /\ Len(Joins(Meanings(p))[0]) = 0
           /\ Joins(Meanings(p))[n] = Meaning(p)
           /\ \A k \in 0 .. n : Indexed(Joins(Meanings(p))[k], Len(Joins(Meanings(p))[k]))
<1>1. PICK E : /\ Meanings(p) \in Seq(Seq(E)) /\ Len(Meanings(p)) = n
               /\ \A k \in 1 .. n : FunctionMeaning(p, p[k]) \in E
  BY MeaningsTyped, Zenon
<1>2. Meaning(p) = Joined(Meanings(p))
  BY Zenon DEF Meaning, Meanings
<1>3. Len(<<>>) = 0
  OBVIOUS
<1> QED
  BY <1>1, <1>2, <1>3, JoinsBase, SeqIndexed, Zenon

-----------------------------------------------------------------------------
(* The same for the lines of a function. *)

LEMMA OneLine ==
    ASSUME NEW p, NEW lines, NEW l
    PROVE  LineMeaning(p, lines, l) = <<>> \/ \E x : LineMeaning(p, lines, l) = <<x>>
<1> DEFINE a == [label |-> lines[l].label]
           b == [call |-> lines[l].call, callee |-> lines[l].callee]
           c == [inst |-> lines[l].inst,
                 args |-> [n \in DOMAIN lines[l].args |-> Place(p, lines, l, lines[l].args[n])]]
           d == [inst |-> CHOOSE i \in PushOf(SizeOf(p, lines[l].type)) : TRUE, args |-> <<>>]
<1>1. LineMeaning(p, lines, l) = CASE Has(lines[l], "label") -> <<a>>
                                   [] Has(lines[l], "call")  -> <<b>>
                                   [] Has(lines[l], "inst")  -> <<c>>
                                   [] Has(lines[l], "base")  -> <<>>
                                   [] OTHER                  -> <<d>>
  BY Zenon DEF LineMeaning
<1> DEFINE m == LineMeaning(p, lines, l)
           A == Has(lines[l], "label")
           E == Has(lines[l], "call")
           C == Has(lines[l], "inst")
           D == Has(lines[l], "base")
<1> HIDE DEF a, b, c, d, m
<1>2. m = <<a>> \/ m = <<b>> \/ m = <<c>> \/ m = <<>> \/ m = <<d>>
  <2>1. CASE A
    BY <1>1, <2>1 DEF m
  <2>2. CASE ~A /\ E
    BY <1>1, <2>2 DEF m
  <2>3. CASE ~A /\ ~E /\ C
    BY <1>1, <2>3 DEF m
  <2>4. CASE ~A /\ ~E /\ ~C /\ D
    BY <1>1, <2>4 DEF m
  <2>5. CASE ~A /\ ~E /\ ~C /\ ~D
    BY <1>1, <2>5 DEF m
  <2> QED BY <2>1, <2>2, <2>3, <2>4, <2>5, Zenon
<1> QED BY <1>2, Zenon DEF m

LEMMA Single ==
    ASSUME NEW m, NEW x, m = <<x>>
    PROVE  m[1] = x
OBVIOUS

LEMMA LineMeaningsTyped ==
    ASSUME NEW p, NEW lines, NEW n \in Nat, DOMAIN lines = 1 .. n
    PROVE  \E E : /\ LineMeanings(p, lines) \in Seq(Seq(E)) /\ Len(LineMeanings(p, lines)) = n
                  /\ \A k \in 1 .. n : LineMeaning(p, lines, k)[1] \in E
<1> DEFINE x(k) == LineMeaning(p, lines, k)[1]
           E == {x(k) : k \in 1 .. n}
           piece(k) == LineMeaning(p, lines, k)
<1>1. LineMeanings(p, lines) = [k \in 1 .. n |-> piece(k)]
  BY Zenon DEF LineMeanings
<1>2. \A k \in 1 .. n : x(k) \in E
  OBVIOUS
<1>3. \A k : piece(k) = <<>> \/ piece(k) = <<x(k)>>
  <2> SUFFICES ASSUME NEW k PROVE LineMeaning(p, lines, k) = <<>>
                                  \/ LineMeaning(p, lines, k) = <<LineMeaning(p, lines, k)[1]>>
    OBVIOUS
  <2> DEFINE m == LineMeaning(p, lines, k)
  <2>1. m = <<>> \/ \E y : m = <<y>>
    BY OneLine, Zenon
  <2> HIDE DEF m
  <2>2. \A y : m = <<y>> => m[1] = y
    BY Single, Zenon
  <2>3. m = <<>> \/ m = <<m[1]>>
    BY <2>1, <2>2, Zenon
  <2> QED BY <2>3, Zenon DEF m
<1> HIDE DEF x, E, piece
<1>4. \A k \in 1 .. n : piece(k) \in Seq(E)
  <2> SUFFICES ASSUME NEW k \in 1 .. n PROVE piece(k) \in Seq(E)
    OBVIOUS
  <2>1. <<x(k)>> \in Seq(E) /\ <<>> \in Seq(E)
    <3>1. x(k) \in E
      BY <1>2, Zenon
    <3> QED BY <3>1
  <2> QED BY <1>3, <2>1, Zenon
<1>5. [k \in 1 .. n |-> piece(k)] \in Seq(Seq(E)) /\ Len([k \in 1 .. n |-> piece(k)]) = n
  BY <1>4
<1>6. LineMeanings(p, lines) \in Seq(Seq(E)) /\ Len(LineMeanings(p, lines)) = n
  BY <1>1, <1>5, Zenon
<1> QED
  BY <1>2, <1>6, Zenon DEF x

LEMMA LineMeaningAt ==
    ASSUME NEW p, NEW lines, NEW n \in Nat, DOMAIN lines = 1 .. n, NEW l \in 1 .. n
    PROVE  /\ LineMeaning(p, lines, l) = <<>> =>
                 Joins(LineMeanings(p, lines))[l] = Joins(LineMeanings(p, lines))[l - 1]
           /\ \A x : LineMeaning(p, lines, l) = <<x>> =>
                 Extends(Joins(LineMeanings(p, lines))[l], Joins(LineMeanings(p, lines))[l - 1],
                         Len(Joins(LineMeanings(p, lines))[l - 1]), x)
<1>1. PICK E : /\ LineMeanings(p, lines) \in Seq(Seq(E)) /\ Len(LineMeanings(p, lines)) = n
               /\ \A k \in 1 .. n : LineMeaning(p, lines, k)[1] \in E
  BY LineMeaningsTyped, Zenon
<1>2. LineMeanings(p, lines)[l] = LineMeaning(p, lines, l)
  BY Zenon DEF LineMeanings
<1>3. \A x : LineMeaning(p, lines, l) = <<x>> => x = LineMeaning(p, lines, l)[1]
  BY Single, Zenon
<1> DEFINE m == LineMeaning(p, lines, l)
           seqs == LineMeanings(p, lines)
<1>4. m[1] \in E /\ seqs[l] = m /\ seqs \in Seq(Seq(E)) /\ Len(seqs) = n
  BY <1>1, <1>2, Zenon
<1>5. \A x : m = <<x>> => x = m[1]
  BY <1>3, Zenon
<1> HIDE DEF m, seqs
<1>6. /\ m = <<>> => Joins(seqs)[l] = Joins(seqs)[l - 1]
      /\ \A x \in E : m = <<x>> =>
            Extends(Joins(seqs)[l], Joins(seqs)[l - 1], Len(Joins(seqs)[l - 1]), x)
  BY <1>4, JoinsOne, Zenon
<1>7. \A x : m = <<x>> => x \in E
  BY <1>4, <1>5, Zenon
<1> QED
  BY <1>6, <1>7, Zenon DEF m, seqs

LEMMA LineMeaningsAre ==
    ASSUME NEW p, NEW lines, NEW n \in Nat, DOMAIN lines = 1 .. n
    PROVE  /\ Joins(LineMeanings(p, lines))[0] = <<>> /\ Len(Joins(LineMeanings(p, lines))[0]) = 0
           /\ Joins(LineMeanings(p, lines))[n] = Joined(LineMeanings(p, lines))
           /\ \A k \in 0 .. n : Indexed(Joins(LineMeanings(p, lines))[k],
                                        Len(Joins(LineMeanings(p, lines))[k]))
<1>1. PICK E : /\ LineMeanings(p, lines) \in Seq(Seq(E)) /\ Len(LineMeanings(p, lines)) = n
               /\ \A k \in 1 .. n : LineMeaning(p, lines, k)[1] \in E
  BY LineMeaningsTyped, Zenon
<1>3. Len(<<>>) = 0
  OBVIOUS
<1> QED
  BY <1>1, <1>3, JoinsBase, SeqIndexed, Zenon

Grown(t, s, n, x) ==
    Len(t) = n + 1 /\ Indexed(t, Len(t)) /\ t[n + 1] = x /\ \A k \in 1 .. n : t[k] = s[k]

LEMMA ExtendsLen ==
    ASSUME NEW t, NEW s, NEW n, NEW x, Extends(t, s, n, x), n \in Nat
    PROVE  Grown(t, s, n, x)
<1>1. Indexed(t, n + 1) /\ t[n + 1] = x /\ \A k \in 1 .. n : t[k] = s[k]
  BY Zenon DEF Extends
<1>2. Len(t) = n + 1
  BY <1>1, IndexedSeq, Zenon
<1> QED BY <1>1, <1>2, Zenon DEF Grown

LEMMA MatchNext ==
    ASSUME NEW lines, NEW m, Matches(lines, m), NEW x, NEW y, LineMatches(x, y),
           NEW m2, Extends(m2, m, Len(m), y)
    PROVE  Matches(Append(lines, x), m2)
<1> DEFINE n == Len(m)
           t == Append(lines, x)
<1>1. /\ Indexed(lines, n) /\ Indexed(m, n)
      /\ \A k \in 1 .. n : LineMatches(lines[k], m[k])
  BY Zenon DEF Matches
<1>2. n \in Nat
  BY <1>1, Zenon DEF Indexed
<1>3. Extends(t, lines, n, x)
  BY <1>1, IndexedAppend, Zenon
<1>e. Extends(m2, m, n, y)
  OBVIOUS
<1> HIDE DEF n, t
<1>4. Len(t) = n + 1 /\ Indexed(t, Len(t)) /\ t[n + 1] = x /\ \A k \in 1 .. n : t[k] = lines[k]
  <2>1. Grown(t, lines, n, x)
    BY <1>2, <1>3, ExtendsLen, Zenon
  <2> QED BY <2>1, Zenon DEF Grown
<1>5. Len(m2) = n + 1 /\ Indexed(m2, Len(m2)) /\ m2[n + 1] = y /\ \A k \in 1 .. n : m2[k] = m[k]
  <2>1. Grown(m2, m, n, y)
    BY <1>2, <1>e, ExtendsLen, Zenon
  <2> QED BY <2>1, Zenon DEF Grown
<1>6. ASSUME NEW k \in 1 .. Len(m2) PROVE LineMatches(t[k], m2[k])
  <2>1. k \in 1 .. n \/ k = n + 1
    BY <1>2, <1>5
  <2>2. ASSUME k \in 1 .. n PROVE LineMatches(t[k], m2[k])
    BY <1>1, <1>4, <1>5, <2>2, Zenon
  <2>3. ASSUME k = n + 1 PROVE LineMatches(t[k], m2[k])
    BY <1>4, <1>5, <2>3, Zenon
  <2> QED BY <2>1, <2>2, <2>3, Zenon
<1>7. Indexed(t, Len(m2))
  BY <1>4, <1>5, Zenon
<1>8. Matches(t, m2)
  BY <1>5, <1>6, <1>7, Zenon DEF Matches
<1> QED BY <1>8 DEF t

HandedAt(m, fs) ==
    /\ Indexed(fs, Len(m))
    /\ \A k \in 1 .. Len(m) : fs[k].scope = k /\ FunctionMatches(fs[k], m[k])

LEMMA HandedIs ==
    ASSUME NEW p, NEW i, NEW fs
    PROVE  Handed(p, i, fs) <=> HandedAt(Joins(Meanings(p))[i], fs)
BY Zenon DEF Handed, HandedAt

LEMMA HandedNext ==
    ASSUME NEW fs, NEW m, HandedAt(m, fs), Indexed(m, Len(m)), NEW f, NEW y, FunctionMatches(f, y),
           f.scope = Len(fs) + 1, NEW m2, Extends(m2, m, Len(m), y)
    PROVE  HandedAt(m2, Append(fs, f)) /\ Len(Append(fs, f)) = Len(fs) + 1
<1> DEFINE n == Len(m)
           t == Append(fs, f)
<1>1. /\ Indexed(fs, n)
      /\ \A k \in 1 .. n : fs[k].scope = k /\ FunctionMatches(fs[k], m[k])
  BY Zenon DEF HandedAt
<1>2. n \in Nat
  BY <1>1, Zenon DEF Indexed
<1>3. Extends(t, fs, n, f) /\ Len(fs) = n
  BY <1>1, IndexedAppend, IndexedSeq, Zenon
<1>e. Extends(m2, m, n, y)
  OBVIOUS
<1> HIDE DEF n, t
<1>4. Len(t) = n + 1 /\ Indexed(t, Len(t)) /\ t[n + 1] = f /\ \A k \in 1 .. n : t[k] = fs[k]
  <2>1. Grown(t, fs, n, f)
    BY <1>2, <1>3, ExtendsLen, Zenon
  <2> QED BY <2>1, Zenon DEF Grown
<1>5. Len(m2) = n + 1 /\ Indexed(m2, Len(m2)) /\ m2[n + 1] = y /\ \A k \in 1 .. n : m2[k] = m[k]
  <2>1. Grown(m2, m, n, y)
    BY <1>2, <1>e, ExtendsLen, Zenon
  <2> QED BY <2>1, Zenon DEF Grown
<1>6. ASSUME NEW k \in 1 .. Len(m2) PROVE t[k].scope = k /\ FunctionMatches(t[k], m2[k])
  <2>1. k \in 1 .. n \/ k = n + 1
    BY <1>2, <1>5
  <2>2. ASSUME k \in 1 .. n PROVE t[k].scope = k /\ FunctionMatches(t[k], m2[k])
    BY <1>1, <1>4, <1>5, <2>2, Zenon
  <2>3. ASSUME k = n + 1 PROVE t[k].scope = k /\ FunctionMatches(t[k], m2[k])
    BY <1>3, <1>4, <1>5, <2>3, Zenon
  <2> QED BY <2>1, <2>2, <2>3, Zenon
<1>7. Indexed(t, Len(m2))
  BY <1>4, <1>5, Zenon
<1>8. HandedAt(m2, t)
  BY <1>6, <1>7, Zenon DEF HandedAt
<1>9. Len(t) = Len(fs) + 1
  BY <1>3, <1>4, Zenon
<1> QED BY <1>8, <1>9 DEF t

-----------------------------------------------------------------------------
(* What the translator takes operands for. *)

LEMMA GlobalRegister ==
    ASSUME NEW r \in DOMAIN Registers
    PROVE  /\ r \in DOMAIN Globals /\ Globals[r].kind = "var"
           /\ Globals[r].address = Address("", Registers[r], 0, "Fixed")
           /\ Globals[r].address.abs = Registers[r]
<1>1. r \notin DOMAIN Builtin /\ r \in DOMAIN Builtin \cup DOMAIN Registers
  BY AmasmConstants
<1>2. r \in DOMAIN Globals /\ Globals[r] = Var(Type(0, <<>>), Address("", Registers[r], 0, "Fixed"))
  BY <1>1, Zenon DEF Globals
<1> DEFINE a == Address("", Registers[r], 0, "Fixed")
           t == Type(0, <<>>)
<1>3. a.abs = Registers[r]
  BY DEF Address
<1> HIDE DEF a, t
<1>4. Var(t, a).kind = "var" /\ Var(t, a).address = a
  BY DEF Var
<1>5. r \in DOMAIN Globals /\ Globals[r] = Var(t, a)
  BY <1>2, Zenon DEF t, a
<1>6. Globals[r].kind = "var" /\ Globals[r].address = a /\ Globals[r].address.abs = Registers[r]
  BY <1>3, <1>4, <1>5, Zenon
<1> QED BY <1>5, <1>6, Zenon DEF a

LEMMA RegisterLooked ==
    ASSUME NEW ls, NEW p, NEW i, GlobalsKept(ls, p, i), NEW m, ScopesClean(ls, m),
           NEW scope, scope + 1 \in 2 .. m, NEW r \in DOMAIN Registers
    PROVE  Lookup(ls, r, scope) = Globals[r]
<1>1. r \notin DOMAIN ls[scope + 1]
  <2>1. DOMAIN ls[scope + 1] \cap DOMAIN Registers = {}
    BY Zenon DEF ScopesClean
  <2> QED BY <2>1, Zenon
<1>2. r \in DOMAIN Globals
  BY GlobalRegister, Zenon
<1>3. r \in DOMAIN ls[1] /\ ls[1][r] = Globals[r]
  BY <1>2, Zenon DEF GlobalsKept
<1> QED BY <1>1, <1>3, Zenon DEF Lookup

LEMMA ArgDenoted ==
    ASSUME NEW ls, NEW p, NEW i, GlobalsKept(ls, p, i), NEW m, ScopesClean(ls, m),
           NEW scope, scope + 1 \in 2 .. m, NEW a, Settled(a)
    PROVE  DenotedArg(ls, scope, a) = PlainArg(a)
<1>1. CASE a.kind = "Fixed"
  BY <1>1, Zenon DEF DenotedArg, PlainArg
<1>2. CASE a.kind # "Fixed"
  <2>1. a.name \in DOMAIN Registers
    BY <1>2, Zenon DEF Settled
  <2>2. Lookup(ls, a.name, scope).address.abs = Registers[a.name]
    <3>1. Lookup(ls, a.name, scope) = Globals[a.name]
      BY <2>1, RegisterLooked, Zenon
    <3>2. Globals[a.name].address.abs = Registers[a.name]
      BY <2>1, GlobalRegister, Zenon
    <3> QED BY <3>1, <3>2, Zenon
  <2>3. CASE a.kind = "Relative"
    BY <1>2, <2>2, <2>3, Zenon DEF DenotedArg, PlainArg
  <2>4. CASE a.kind # "Relative"
    BY <1>2, <2>2, <2>4, Zenon DEF DenotedArg, PlainArg
  <2> QED BY <2>3, <2>4, Zenon
<1> QED BY <1>1, <1>2, Zenon

LEMMA DenotedPlain ==
    ASSUME NEW ls, NEW p, NEW i, GlobalsKept(ls, p, i), NEW m, ScopesClean(ls, m),
           NEW scope, scope + 1 \in 2 .. m, NEW line, SettledLine(line)
    PROVE  DenotedLine(ls, scope, line) = PlainLine(line)
<1>1. CASE ~Has(line, "inst")
  BY <1>1, Zenon DEF DenotedLine, PlainLine
<1>2. CASE Has(line, "inst")
  <2>1. \A n \in DOMAIN line.args : Settled(line.args[n])
    BY <1>2, Zenon DEF SettledLine
  <2>2. \A n \in DOMAIN line.args : DenotedArg(ls, scope, line.args[n]) = PlainArg(line.args[n])
    BY <2>1, ArgDenoted, Zenon
  <2>3. [n \in DOMAIN line.args |-> DenotedArg(ls, scope, line.args[n])]
           = [n \in DOMAIN line.args |-> PlainArg(line.args[n])]
    BY <2>2, Zenon
  <2> DEFINE u == [n \in DOMAIN line.args |-> DenotedArg(ls, scope, line.args[n])]
             v == [n \in DOMAIN line.args |-> PlainArg(line.args[n])]
  <2>4. DenotedLine(ls, scope, line) = [line EXCEPT !.args = u]
    BY <1>2 DEF DenotedLine
  <2>5. PlainLine(line) = [line EXCEPT !.args = v]
    BY <1>2 DEF PlainLine
  <2> HIDE DEF u, v
  <2>6. u = v
    BY <2>3 DEF u, v
  <2> QED BY <2>4, <2>5, <2>6
<1> QED BY <1>1, <1>2, Zenon

DenotedFunction(ls, f) ==
    [name  |-> FullName(f.name, [n \in DOMAIN f.args |-> f.args[n].name]),
     args  |-> Total([n \in DOMAIN f.args |-> f.args[n].size]),
     ret   |-> f.ret,
     lines |-> [n \in DOMAIN f.lines |-> DenotedLine(ls, f.scope, f.lines[n])]]

DenotedLines(ls, scope, lines) == [n \in DOMAIN lines |-> DenotedLine(ls, scope, lines[n])]

LEMMA LinesDenoted ==
    ASSUME NEW ls, NEW p, NEW i, GlobalsKept(ls, p, i), NEW m, ScopesClean(ls, m),
           NEW scope, scope + 1 \in 2 .. m, NEW lines, NEW meaning, Matches(lines, meaning)
    PROVE  DenotedLines(ls, scope, lines) = meaning
<1> DEFINE k == Len(meaning)
<1>1. /\ Indexed(lines, k) /\ Indexed(meaning, k)
      /\ \A n \in 1 .. k : LineMatches(lines[n], meaning[n])
  BY Zenon DEF Matches
<1>2. DOMAIN lines = 1 .. k
  BY <1>1, IndexedSeq, Zenon
<1>3. ASSUME NEW n \in 1 .. k PROVE DenotedLine(ls, scope, lines[n]) = meaning[n]
  <2>1. SettledLine(lines[n]) /\ PlainLine(lines[n]) = meaning[n]
    BY <1>1, Zenon DEF LineMatches
  <2>2. DenotedLine(ls, scope, lines[n]) = PlainLine(lines[n])
    BY <2>1, DenotedPlain, Zenon
  <2> QED BY <2>1, <2>2, Zenon
<1>4. [n \in 1 .. k |-> DenotedLine(ls, scope, lines[n])] = [n \in 1 .. k |-> meaning[n]]
  BY <1>3, Zenon
<1>5. meaning = [n \in 1 .. k |-> meaning[n]]
  BY <1>1, Zenon DEF Indexed
<1> QED BY <1>2, <1>4, <1>5, Zenon DEF DenotedLines

LEMMA FunctionDenoted ==
    ASSUME NEW ls, NEW p, NEW i, GlobalsKept(ls, p, i), NEW m, ScopesClean(ls, m),
           NEW f, f.scope + 1 \in 2 .. m, NEW meaning, FunctionMatches(f, meaning)
    PROVE  DenotedFunction(ls, f) = meaning
<1>1. Matches(f.lines, meaning.lines)
  BY Zenon DEF FunctionMatches
<1>2. DenotedLines(ls, f.scope, f.lines) = meaning.lines
  BY <1>1, LinesDenoted, Zenon
<1>3. meaning = [name  |-> FullName(f.name, [n \in DOMAIN f.args |-> f.args[n].name]),
                 args  |-> Total([n \in DOMAIN f.args |-> f.args[n].size]),
                 ret   |-> f.ret,
                 lines |-> meaning.lines]
  BY Zenon DEF FunctionMatches
<1> QED
  BY <1>2, <1>3, Zenon DEF DenotedFunction, DenotedLines

LEMMA ResultParts ==
    ASSUME NEW fs, NEW ls, NEW r, r = [functions |-> fs, layers |-> ls]
    PROVE  r.functions = fs /\ r.layers = ls
OBVIOUS

LEMMA ReleasedMeans ==
    ASSUME NEW p, NEW n \in Nat, DOMAIN p = 1 .. n, NEW at, NEW ls, NEW fs, NEW f,
           Between(p, n, at, ls, fs, f)
    PROVE  Denoted([functions |-> fs, layers |-> ls]) = Meaning(p)
<1> DEFINE F == Joins(Meanings(p))[n]
           k == Len(F)
           m == Len(fs) + 1
           r == [functions |-> fs, layers |-> ls]
<1>1. Meaning(p) = F /\ Indexed(F, k)
  <2>1. n \in 0 .. n
    OBVIOUS
  <2> QED BY <2>1, MeaningIs, Zenon
<1>2. GlobalsKept(ls, p, n) /\ ScopesClean(ls, m) /\ HandedAt(F, fs)
  BY HandedIs, Zenon DEF Between
<1> HIDE DEF F
<1>3. Indexed(fs, k) /\ \A j \in 1 .. k : fs[j].scope = j /\ FunctionMatches(fs[j], F[j])
  BY <1>2, Zenon DEF HandedAt
<1>4. k \in Nat /\ Len(fs) = k /\ DOMAIN fs = 1 .. k
  BY <1>3, IndexedSeq, Zenon
<1>5. ASSUME NEW j \in 1 .. k PROVE DenotedFunction(ls, fs[j]) = F[j]
  <2>1. fs[j].scope = j /\ FunctionMatches(fs[j], F[j])
    BY <1>3, Zenon
  <2> DEFINE s == fs[j].scope
  <2>2. s = j
    BY <2>1
  <2> HIDE DEF s, k
  <2>3. s + 1 \in 2 .. m
    BY <1>4, <2>2
  <2>4. fs[j].scope + 1 \in 2 .. m
    BY <2>3 DEF s
  <2> HIDE DEF m
  <2> QED BY <1>2, <2>1, <2>4, FunctionDenoted, Zenon
<1>6. r.functions = fs /\ r.layers = ls
  BY ResultParts, Zenon
<1> HIDE DEF r, k, m
<1>7. Denoted(r) = [j \in DOMAIN fs |-> DenotedFunction(ls, fs[j])]
  BY <1>6, Zenon DEF Denoted, DenotedFunction
<1>8. [j \in 1 .. k |-> DenotedFunction(ls, fs[j])] = [j \in 1 .. k |-> F[j]]
  BY <1>5, Zenon
<1>9. F = [j \in 1 .. k |-> F[j]]
  BY <1>1, Zenon DEF Indexed
<1>10. Denoted(r) = Meaning(p)
  BY <1>1, <1>4, <1>7, <1>8, <1>9, Zenon
<1> QED BY <1>10 DEF r

-----------------------------------------------------------------------------
(* What a proper program consists of. *)

ProperProgram(p, n) ==
    /\ p \in Seq(Items) /\ Proper(p) /\ n = Len(p) /\ n \in Nat /\ DOMAIN p = 1 .. n

LEMMA ProperItems ==
    ASSUME NEW p, NEW n, ProperProgram(p, n), NEW i \in 1 .. n
    PROVE  /\ p[i] \in StructItems \/ p[i] \in FuncItems
           /\ ItemFormed(p, i)
           /\ Has(p[i], "func") => \A k \in DOMAIN p[i].lines : SupportedLine(p, i, k)
<1>1. p \in Seq(Items) /\ DOMAIN p = 1 .. n /\ WellFormed(p) /\ Supported(p)
  BY Zenon DEF ProperProgram, Proper
<1>2. p[i] \in Items
  BY <1>1, SeqElement, Zenon
<1>3. ~Has(p[i], "const")
  BY <1>1, Zenon DEF Supported
<1>4. p[i] \in StructItems \/ p[i] \in FuncItems
  BY <1>2, <1>3, ItemKinds, Zenon
<1>5. ItemFormed(p, i)
  BY <1>1, Zenon DEF WellFormed
<1>6. Has(p[i], "func") => \A k \in DOMAIN p[i].lines : SupportedLine(p, i, k)
  BY <1>1, Zenon DEF Supported
<1> QED BY <1>4, <1>5, <1>6, Zenon

LEMMA Prefix ==
    ASSUME NEW E, NEW p \in Seq(E), NEW i \in 1 .. Len(p)
    PROVE  /\ DOMAIN SubSeq(p, 1, i - 1) = 1 .. i - 1
           /\ \A j \in 1 .. i - 1 : SubSeq(p, 1, i - 1)[j] = p[j]
<1>1. i - 1 \in Nat /\ i - 1 <= Len(p)
  OBVIOUS
<1>2. Len(SubSeq(p, 1, i - 1)) = i - 1 /\ SubSeq(p, 1, i - 1) \in Seq(E)
      /\ \A j \in 1 .. i - 1 : SubSeq(p, 1, i - 1)[j] = p[j]
  BY <1>1
<1> QED BY <1>2

LEMMA StructBefore ==
    ASSUME NEW E, NEW p \in Seq(E), NEW i \in 1 .. Len(p), NEW name
    PROVE  name \in NamesOf(SubSeq(p, 1, i - 1), "struct")
              <=> \E j \in 1 .. i - 1 : Has(p[j], "struct") /\ p[j].struct = name
<1> DEFINE q == SubSeq(p, 1, i - 1)
           m == i - 1
<1>1. DOMAIN q = 1 .. m /\ \A j \in 1 .. m : q[j] = p[j]
  BY Prefix, Zenon
<1> HIDE DEF q, m
<1>2. ASSUME name \in NamesOf(q, "struct")
      PROVE  \E j \in 1 .. m : Has(p[j], "struct") /\ p[j].struct = name
  <2>1. PICK j \in {k \in DOMAIN q : Has(q[k], "struct")} : name = q[j]["struct"]
    BY <1>2, Zenon DEF NamesOf
  <2>2. j \in 1 .. m /\ Has(p[j], "struct") /\ name = p[j]["struct"]
    BY <1>1, <2>1, Zenon
  <2>3. p[j]["struct"] = p[j].struct
    OBVIOUS
  <2> QED BY <2>2, <2>3, Zenon
<1>3. ASSUME NEW j \in 1 .. m, Has(p[j], "struct"), p[j].struct = name
      PROVE  name \in NamesOf(q, "struct")
  <2>1. j \in {k \in DOMAIN q : Has(q[k], "struct")}
    BY <1>1, <1>3, Zenon
  <2>2. q[j]["struct"] = name
    <3>1. q[j] = p[j]
      BY <1>1, Zenon
    <3>2. p[j]["struct"] = p[j].struct
      OBVIOUS
    <3> QED BY <1>3, <3>1, <3>2, Zenon
  <2> QED BY <2>1, <2>2, Zenon DEF NamesOf
<1> QED BY <1>2, <1>3, Zenon DEF q, m

LEMMA FuncNamed ==
    ASSUME NEW p, NEW j \in DOMAIN p, Has(p[j], "func")
    PROVE  p[j].func \in NamesOf(p, "func")
<1>1. p[j]["func"] = p[j].func
  OBVIOUS
<1>2. j \in {k \in DOMAIN p : Has(p[k], "func")}
  OBVIOUS
<1> QED BY <1>1, <1>2, Zenon DEF NamesOf

LEMMA StructFormed ==
    ASSUME NEW p, NEW n, ProperProgram(p, n), NEW i \in 1 .. n, Has(p[i], "struct")
    PROVE  /\ p[i] \in StructItems /\ ~Has(p[i], "func") /\ p[i].struct \notin Reserved
           /\ \A j \in 1 .. n : Has(p[j], "func") => p[j].func # p[i].struct
           /\ \A j \in 1 .. i - 1 : Has(p[j], "struct") => p[j].struct # p[i].struct
           /\ \A f, g \in DOMAIN p[i].fields :
                 f # g => p[i].fields[f].name # p[i].fields[g].name
           /\ \A f \in DOMAIN p[i].fields :
                 p[i].fields[f].name \notin Reserved /\ p[i].fields[f].type \in DOMAIN Builtin
<1>1. p[i] \in StructItems /\ ~Has(p[i], "func")
  BY ProperItems, ItemFields, Zenon
<1> DEFINE it == p[i]
           names == [f \in DOMAIN it.fields |-> it.fields[f].name]
<1>2. /\ it.struct \notin Reserved \cup NamesOf(p, "func") \cup NamesOf(SubSeq(p, 1, i - 1), "struct")
      /\ IsInjective(names)
      /\ \A f \in DOMAIN it.fields :
            it.fields[f].name \notin Reserved /\ it.fields[f].type \in DOMAIN Builtin
  <2>1. ItemFormed(p, i)
    BY ProperItems, Zenon
  <2> QED BY <1>1, <2>1, Zenon DEF ItemFormed
<1>3. p \in Seq(Items) /\ DOMAIN p = 1 .. n /\ n = Len(p)
  BY Zenon DEF ProperProgram
<1>4. \A j \in 1 .. n : Has(p[j], "func") => p[j].func # it.struct
  BY <1>2, <1>3, FuncNamed, Zenon
<1>5. \A j \in 1 .. i - 1 : Has(p[j], "struct") => p[j].struct # it.struct
  BY <1>2, <1>3, StructBefore, Zenon
<1>6. \A f, g \in DOMAIN it.fields : f # g => it.fields[f].name # it.fields[g].name
  <2>1. \A a, b \in DOMAIN names : names[a] = names[b] => a = b
    <3> HIDE DEF names
    <3> QED BY <1>2, Zenon DEF IsInjective
  <2> QED BY <2>1, Zenon
<1>7. it.struct \notin Reserved
  BY <1>2, Zenon
<1> QED BY <1>1, <1>2, <1>4, <1>5, <1>6, <1>7, Zenon

LEMMA StructSize ==
    ASSUME NEW p, NEW n, ProperProgram(p, n), NEW i \in 1 .. n, Has(p[i], "struct")
    PROVE  SizeOf(p, p[i].struct) = FieldBytes(p[i])
<1> DEFINE name == p[i].struct
<1>1. name \notin DOMAIN Builtin
  BY StructFormed, Zenon DEF Reserved
<1>2. DOMAIN p = 1 .. n
  BY Zenon DEF ProperProgram
<1>3. i \in Structs(p)
  BY <1>2, Zenon DEF Structs
<1>4. \A j \in Structs(p) : p[j].struct = name => j = i
  <2> SUFFICES ASSUME NEW j \in Structs(p), p[j].struct = name, j # i PROVE FALSE
    OBVIOUS
  <2>1. j \in 1 .. n /\ Has(p[j], "struct")
    BY <1>2, Zenon DEF Structs
  <2>2. j \in 1 .. i - 1 \/ i \in 1 .. j - 1
    BY <2>1
  <2>3. CASE j \in 1 .. i - 1
    BY <2>1, <2>3, StructFormed, Zenon
  <2>4. CASE i \in 1 .. j - 1
    BY <2>1, <2>4, StructFormed, Zenon
  <2> QED BY <2>2, <2>3, <2>4
<1>5. (CHOOSE k \in Structs(p) : p[k].struct = name) = i
  BY <1>3, <1>4, Zenon
<1> HIDE DEF name
<1>6. SizeOf(p, name) = FieldBytes(p[i])
  <2>1. SizeOf(p, name) = FieldBytes(p[CHOOSE k \in Structs(p) : p[k].struct = name])
    BY <1>1, Zenon DEF SizeOf, FieldBytes
  <2> QED BY <1>5, <2>1, Zenon
<1> QED BY <1>6 DEF name

LEMMA TypeSees ==
    ASSUME NEW p, NEW n, ProperProgram(p, n), NEW i \in 1 .. n, NEW ls, GlobalsKept(ls, p, i - 1),
           NEW name \in KnownTypes(p, i)
    PROVE  /\ name \in DOMAIN ls[1] /\ ls[1][name].kind = "type"
           /\ ls[1][name].size = SizeOf(p, name) /\ name \notin DOMAIN Insts
<1>1. p \in Seq(Items) /\ n = Len(p)
  BY Zenon DEF ProperProgram
<1>2. CASE name \in DOMAIN Builtin
  <2>1. name \in DOMAIN Globals /\ Globals[name] = Type(Builtin[name], <<>>)
    BY <1>2, Zenon DEF Globals
  <2>2. \A size : Type(size, <<>>).kind = "type" /\ Type(size, <<>>).size = size
    BY DEF Type
  <2>3. SizeOf(p, name) = Builtin[name]
    BY <1>2, Zenon DEF SizeOf
  <2>4. name \in DOMAIN ls[1] /\ ls[1][name] = Globals[name]
    BY <2>1, Zenon DEF GlobalsKept
  <2>5. name \notin DOMAIN Insts
    BY <1>2, AmasmConstants
  <2> QED BY <2>1, <2>2, <2>3, <2>4, <2>5, Zenon
<1>3. CASE name \notin DOMAIN Builtin
  <2>1. PICK j \in 1 .. i - 1 : Has(p[j], "struct") /\ p[j].struct = name
    BY <1>1, <1>3, StructBefore, Zenon DEF KnownTypes
  <2>2. j \in 1 .. n
    BY <1>1
  <2>3. name \notin DOMAIN Insts
    BY <2>1, <2>2, StructFormed, Zenon DEF Reserved
  <2> QED BY <2>1, <2>3, Zenon DEF GlobalsKept
<1> QED BY <1>2, <1>3

LEMMA FuncFormed ==
    ASSUME NEW p, NEW n, ProperProgram(p, n), NEW i \in 1 .. n, Has(p[i], "func")
    PROVE  /\ p[i] \in FuncItems /\ ~Has(p[i], "struct") /\ p[i].func \notin Reserved
           /\ \A k \in DOMAIN p[i].args : p[i].args[k] \in KnownTypes(p, i)
           /\ p[i].ret \in KnownTypes(p, i)
           /\ \A k \in DOMAIN p[i].lines : LineFormed(p, i, k) /\ SupportedLine(p, i, k)
<1>1. p[i] \in FuncItems /\ ~Has(p[i], "struct")
  BY ProperItems, ItemFields, Zenon
<1>2. ItemFormed(p, i) /\ \A k \in DOMAIN p[i].lines : SupportedLine(p, i, k)
  BY ProperItems, Zenon
<1>3. /\ p[i].func \notin Reserved
      /\ \A k \in DOMAIN p[i].args : p[i].args[k] \in KnownTypes(p, i)
      /\ p[i].ret \in KnownTypes(p, i)
      /\ \A k \in DOMAIN p[i].lines : LineFormed(p, i, k)
  BY <1>1, <1>2, Zenon DEF ItemFormed
<1> QED BY <1>1, <1>2, <1>3, Zenon

LEMMA FuncLines ==
    ASSUME NEW it \in FuncItems
    PROVE  /\ Len(it.lines) \in Nat /\ DOMAIN it.lines = 1 .. Len(it.lines)
           /\ \A k \in 1 .. Len(it.lines) : it.lines[k] \in Lines
<1>1. it.lines \in Seq(Lines)
  BY ItemFields, Zenon
<1> DEFINE s == it.lines
<1>2. s \in Seq(Lines)
  BY <1>1
<1> HIDE DEF s
<1>3. Len(s) \in Nat /\ DOMAIN s = 1 .. Len(s)
  BY <1>2
<1>4. \A k \in DOMAIN s : s[k] \in Lines
  BY <1>2, SeqElement, Zenon
<1> QED BY <1>3, <1>4, Zenon DEF s

LabelLines == [label : STRING]
CallLines == [call : {"fcall", "ncall"}, callee : Seq(STRING)]
InstLines == [inst : STRING, args : Seq(Operands)]
BareLines == [var : STRING, type : STRING]
PlacedLines == [var : STRING, type : STRING, base : STRING, diff : Int]

LEMMA LineKinds ==
    ASSUME NEW line \in Lines
    PROVE  \/ line \in LabelLines \/ line \in CallLines \/ line \in InstLines
           \/ line \in BareLines \/ line \in PlacedLines
BY Zenon DEF Lines, LabelLines, CallLines, InstLines, BareLines, PlacedLines

LEMMA LineFormedIs ==
    ASSUME NEW p, NEW i, NEW k, LineFormed(p, i, k), NEW line, line = p[i].lines[k]
    PROVE  /\ line \in LabelLines => line.label \notin Reserved
           /\ line \in InstLines =>
                 /\ line.inst \in DOMAIN Insts /\ Insts[line.inst].op \notin {"fcall", "ncall"}
                 /\ Len(line.args) \in Insts[line.inst].min .. Insts[line.inst].max
                 /\ \A n \in DOMAIN line.args : OperandFormed(p, p[i].lines, k, line.args[n])
           /\ line \in PlacedLines =>
                 /\ line.var \notin Reserved /\ line.type \in KnownTypes(p, i)
                 /\ line.base \in DOMAIN Registers
           /\ line \in BareLines =>
                 /\ line.var \notin Reserved /\ line.type \in KnownTypes(p, i)
                 /\ PushOf(SizeOf(p, line.type)) # {}
<1>1. ASSUME line \in LabelLines PROVE line.label \notin Reserved
  <2>1. Has(line, "label") /\ ~Has(line, "call") /\ ~Has(line, "inst")
    BY <1>1, LineFields, Zenon DEF LabelLines
  <2> QED BY <2>1, Zenon DEF LineFormed
<1>2. ASSUME line \in InstLines
      PROVE  /\ line.inst \in DOMAIN Insts /\ Insts[line.inst].op \notin {"fcall", "ncall"}
             /\ Len(line.args) \in Insts[line.inst].min .. Insts[line.inst].max
             /\ \A n \in DOMAIN line.args : OperandFormed(p, p[i].lines, k, line.args[n])
  <2>1. ~Has(line, "label") /\ ~Has(line, "call") /\ Has(line, "inst")
    BY <1>2, LineFields, Zenon DEF InstLines
  <2> QED BY <2>1, Zenon DEF LineFormed
<1>3. ASSUME line \in PlacedLines
      PROVE  /\ line.var \notin Reserved /\ line.type \in KnownTypes(p, i)
             /\ line.base \in DOMAIN Registers
  <2>1. ~Has(line, "label") /\ ~Has(line, "call") /\ ~Has(line, "inst") /\ Has(line, "base")
    BY <1>3, LineFields, Zenon DEF PlacedLines
  <2> QED BY <2>1, Zenon DEF LineFormed
<1>4. ASSUME line \in BareLines
      PROVE  /\ line.var \notin Reserved /\ line.type \in KnownTypes(p, i)
             /\ PushOf(SizeOf(p, line.type)) # {}
  <2>1. ~Has(line, "label") /\ ~Has(line, "call") /\ ~Has(line, "inst") /\ ~Has(line, "base")
    BY <1>4, LineFields, Zenon DEF BareLines
  <2> QED BY <2>1, Zenon DEF LineFormed
<1> QED BY <1>1, <1>2, <1>3, <1>4, Zenon

LEMMA VarFormed ==
    ASSUME NEW p, NEW n, ProperProgram(p, n), NEW i \in 1 .. n, Has(p[i], "func"),
           NEW k \in DOMAIN p[i].lines, Has(p[i].lines[k], "var")
    PROVE  /\ p[i].lines[k].var \notin Reserved /\ p[i].lines[k].type \in KnownTypes(p, i)
           /\ Has(p[i].lines[k], "base") =>
                 p[i].lines[k].base \in DOMAIN Registers /\ p[i].lines[k].diff \in Int
<1> DEFINE line == p[i].lines[k]
<1>1. LineFormed(p, i, k)
  BY FuncFormed, Zenon
<1>2. line \in Lines
  BY FuncFormed, FuncLines, Zenon
<1>3. line \in BareLines \/ line \in PlacedLines
  BY <1>2, LineKinds, LineFields, Zenon DEF LabelLines, CallLines, InstLines, BareLines, PlacedLines
<1>4. line \in BareLines => ~Has(line, "base")
  BY LineFields, Zenon DEF BareLines
<1>5. line \in PlacedLines => line.diff \in Int
  BY LineFields, Zenon DEF PlacedLines
<1>6. line = p[i].lines[k]
  OBVIOUS
<1> HIDE DEF line
<1>7. /\ line.var \notin Reserved /\ line.type \in KnownTypes(p, i)
      /\ Has(line, "base") => line.base \in DOMAIN Registers /\ line.diff \in Int
  BY <1>1, <1>3, <1>4, <1>5, <1>6, LineFormedIs, Zenon
<1> QED BY <1>7, Zenon DEF line

\* The line n declares a name first, of those before l; 0 if none does.
DeclaresFirst(lines, l, name, n) ==
    /\ n # 0 => /\ n \in 1 .. l - 1 /\ Has(lines[n], "var") /\ lines[n].var = name
                /\ \A k \in 1 .. n - 1 : ~(Has(lines[k], "var") /\ lines[k].var = name)
    /\ n = 0 => \A k \in 1 .. l - 1 : ~(Has(lines[k], "var") /\ lines[k].var = name)

LEMMA DeclaredIs ==
    ASSUME NEW lines, NEW l \in Nat, NEW name, NEW n, n = DeclaredAt(lines, l, name)
    PROVE  DeclaresFirst(lines, l, name, n)
<1> DEFINE D(k) == Has(lines[k], "var") /\ lines[k].var = name
           T == {k \in 1 .. l - 1 : D(k)}
<1>1. n = IF T = {} THEN 0 ELSE CHOOSE k \in T : \A m \in T : k <= m
  BY Zenon DEF DeclaredAt
<1> HIDE DEF D
<1>2. CASE T = {}
  <2>1. n = 0
    BY <1>1, <1>2, Zenon
  <2>2. \A k \in 1 .. l - 1 : ~D(k)
    BY <1>2, Zenon
  <2> QED BY <2>1, <2>2, Zenon DEF D, DeclaresFirst
<1>3. CASE T # {}
  <2>1. T \in SUBSET Nat
    OBVIOUS
  <2> HIDE DEF T
  <2>2. \E k \in T : \A m \in T : k <= m
    BY <1>3, <2>1, LeastElement
  <2>3. n \in T /\ \A m \in T : n <= m
    BY <1>1, <1>3, <2>2, Zenon
  <2> USE DEF T
  <2>4. n \in 1 .. l - 1 /\ D(n) /\ n # 0
    BY <2>3
  <2>5. ASSUME NEW k \in 1 .. n - 1 PROVE ~D(k)
    <3>1. k \in 1 .. l - 1 /\ ~(n <= k)
      BY <2>4
    <3> QED BY <2>3, <3>1, Zenon
  <2> QED BY <2>4, <2>5, Zenon DEF D, DeclaresFirst
<1> QED BY <1>2, <1>3

LEMMA KnownName ==
    ASSUME NEW p, NEW n, ProperProgram(p, n), NEW i \in 1 .. n, Has(p[i], "func"),
           NEW l \in Nat, l + 1 \in DOMAIN p[i].lines, NEW m,
           GlobalsKept(layers, p, i - 1), ScopesClean(layers, m), open.scope + 1 \in 2 .. m,
           ScopeHolds(layers[open.scope + 1], p[i].lines, l),
           NEW name, NEW d, d = DeclaredAt(p[i].lines, l + 1, name),
           d # 0 \/ name \in DOMAIN Registers,
           d # 0 => Has(p[i].lines[d], "base") /\ p[i].lines[d].diff # 0
    PROVE  Known(p[i].lines, l + 1, name)
<1> DEFINE lines == p[i].lines
<1>1. CASE d = 0
  <2>1. name \in DOMAIN Registers
    BY <1>1
  <2>2. Lookup(layers, name, open.scope) = Globals[name]
    BY <2>1, RegisterLooked, Zenon
  <2>3. IsRegister(name)
    BY <2>1, <2>2, GlobalRegister, Zenon DEF IsRegister
  <2>4. name \notin DOMAIN Insts
    BY <2>1, AmasmConstants
  <2> QED BY <1>1, <2>3, <2>4, Zenon DEF Known
<1>2. CASE d # 0
  <2>1. l + 1 \in Nat
    OBVIOUS
  <2>2. d \in 1 .. (l + 1) - 1 /\ Has(lines[d], "var") /\ lines[d].var = name
    <3>1. DeclaresFirst(lines, l + 1, name, d)
      BY <2>1, DeclaredIs, Zenon
    <3> QED BY <1>2, <3>1, Zenon DEF DeclaresFirst
  <2>3. DOMAIN lines = 1 .. Len(lines) /\ Len(lines) \in Nat
    BY FuncFormed, FuncLines, Zenon
  <2>4. d \in DOMAIN lines /\ d \in 1 .. l
    <3> DEFINE k == Len(lines)
    <3>1. k \in Nat /\ l + 1 \in 1 .. k /\ DOMAIN lines = 1 .. k
      BY <2>3, Zenon
    <3> HIDE DEF k, lines
    <3>2. d \in 1 .. k /\ d \in 1 .. l
      BY <2>2, <3>1
    <3> QED BY <3>1, <3>2, Zenon
  <2>5. lines[d].var \notin Reserved /\ lines[d].base \in DOMAIN Registers /\ lines[d].diff \in Int
    BY <1>2, <2>2, <2>4, VarFormed, Zenon
  <2>6. name \in DOMAIN layers[open.scope + 1]
    BY <2>2, <2>4, Zenon DEF ScopeHolds
  <2> DEFINE v == layers[open.scope + 1][name]
  <2>7. v.kind = "var" /\ v.address = Address(lines[d].base, 0, lines[d].diff, "RelativeWithDiff")
    BY <1>2, <2>6, Zenon DEF ScopeHolds
  <2>8. Lookup(layers, name, open.scope) = v
    BY <2>6, Zenon DEF Lookup
  <2>9. IsPlaced(name, lines[d].base, lines[d].diff)
    BY <2>5, <2>7, <2>8, Zenon DEF IsPlaced
  <2>10. name \notin DOMAIN Insts
    BY <2>2, <2>5, Zenon DEF Reserved
  <2> QED BY <1>2, <2>5, <2>9, <2>10, Zenon DEF Known
<1> QED BY <1>1, <1>2

-----------------------------------------------------------------------------
(* Where the parser stands decides which action it takes. *)

LEMMA LineAction ==
    ASSUME Construct, open # NoFunction, ~(pos > Len(tokens))
    PROVE  /\ Tok(pos).type = "label" /\ ~IsInst(pos) => Label
           /\ Tok(pos).type = "var" /\ ~IsInst(pos) => DeclareVariable
           /\ Tok(pos).type = "}" /\ ~IsInst(pos) => CloseFunction
           /\ Tok(pos).type = "Inst" /\ IsInst(pos) =>
                 IF Op \in {"fcall", "ncall"} THEN Call ELSE Instruction
<1> DEFINE t == Tok(pos).type
           c == Op \in {"fcall", "ncall"}
<1>1. ~Datatype /\ ~Function /\ ~RunOut /\ ~Release
  BY Zenon DEF Datatype, Function, RunOut, Release, AtItem
<1>2. Reject => ~IsInst(pos) /\ t \notin {"var", "label", "}"}
  BY Zenon DEF Reject, AtItem
<1>3. CloseFunction => t = "}"
  BY Zenon DEF CloseFunction, Is
<1>4. Label => ~IsInst(pos) /\ t = "label"
  BY Zenon DEF Label, Is
<1>5. DeclareVariable => ~IsInst(pos) /\ t = "var"
  BY Zenon DEF DeclareVariable, Is
<1>6. Call => IsInst(pos) /\ c
  BY Zenon DEF Call
<1>7. Instruction => IsInst(pos) /\ ~c
  BY Zenon DEF Instruction
<1>8. CloseFunction \/ Label \/ Call \/ DeclareVariable \/ Instruction \/ Reject
  BY <1>1, Zenon DEF Construct
<1> HIDE DEF t, c
<1>9. /\ t = "label" /\ ~IsInst(pos) => Label
      /\ t = "var" /\ ~IsInst(pos) => DeclareVariable
      /\ t = "}" /\ ~IsInst(pos) => CloseFunction
      /\ t = "Inst" /\ IsInst(pos) => IF c THEN Call ELSE Instruction
  <2> DEFINE a == "label"
             b == "var"
             d == "}"
             e == "Inst"
  <2>1. a # b /\ a # d /\ a # e /\ b # d /\ b # e /\ d # e
    OBVIOUS
  <2>2. Reject => ~IsInst(pos) /\ t # b /\ t # a /\ t # d
    BY <1>2, Zenon
  <2> HIDE DEF a, b, d, e
  <2>3. t = a /\ ~IsInst(pos) => Label
    BY <1>3, <1>5, <1>6, <1>7, <1>8, <2>1, <2>2, Zenon DEF b, d
  <2>4. t = b /\ ~IsInst(pos) => DeclareVariable
    BY <1>3, <1>4, <1>6, <1>7, <1>8, <2>1, <2>2, Zenon DEF a, d
  <2>5. t = d /\ ~IsInst(pos) => CloseFunction
    BY <1>4, <1>5, <1>6, <1>7, <1>8, <2>1, <2>2, Zenon DEF a, b
  <2>6. t = e /\ IsInst(pos) => IF c THEN Call ELSE Instruction
    BY <1>3, <1>4, <1>5, <1>6, <1>7, <1>8, <2>1, <2>2, Zenon DEF d
  <2> QED BY <2>3, <2>4, <2>5, <2>6, Zenon DEF a, b, d, e
<1> QED BY <1>9, Zenon DEF t, c

LEMMA ItemAction ==
    ASSUME Construct, open = NoFunction
    PROVE  /\ Tok(pos).type = "struct" /\ ~(pos > Len(tokens)) => Datatype
           /\ Tok(pos).type = "func" /\ ~(pos > Len(tokens)) => Function
           /\ ~(pos <= Len(tokens)) => Release
<1> DEFINE t == Tok(pos).type
<1>1. ~CloseFunction /\ ~Label /\ ~Call /\ ~DeclareVariable /\ ~Instruction /\ ~RunOut
  BY Zenon DEF CloseFunction, Label, Call, DeclareVariable, Instruction, RunOut, AtLine
<1>2. Reject => pos <= Len(tokens) /\ t \notin {"struct", "func"}
  BY Zenon DEF Reject, AtItem, AtLine
<1>3. Datatype => pos <= Len(tokens) /\ t = "struct"
  BY Zenon DEF Datatype, AtItem, Is
<1>4. Function => pos <= Len(tokens) /\ t = "func"
  BY Zenon DEF Function, AtItem, Is
<1>5. Release => pos > Len(tokens)
  BY Zenon DEF Release
<1>6. Datatype \/ Function \/ Reject \/ Release
  BY <1>1, Zenon DEF Construct
<1> HIDE DEF t
<1>7. "struct" # "func"
  OBVIOUS
<1>8. t = "struct" /\ ~(pos > Len(tokens)) => Datatype
  BY <1>2, <1>4, <1>5, <1>6, <1>7, Zenon
<1>9. t = "func" /\ ~(pos > Len(tokens)) => Function
  BY <1>2, <1>3, <1>5, <1>6, <1>7, Zenon
<1>10. ~(pos <= Len(tokens)) => Release
  BY <1>2, <1>3, <1>4, <1>6, Zenon
<1> QED BY <1>8, <1>9, <1>10, Zenon DEF t

LEMMA ConstructParses ==
    ASSUME Construct
    PROVE  status = "parsing"
BY Zenon DEF Construct, Datatype, Function, CloseFunction, Label, Call, DeclareVariable, Instruction,
             Reject, RunOut, Release, AtItem, AtLine

LEMMA ConstructFrame ==
    ASSUME Construct
    PROVE  UNCHANGED <<program, tokens, parses>>
BY Zenon DEF Construct, Datatype, Function, CloseFunction, Label, Call, DeclareVariable, Instruction,
             Reject, RunOut, Release

\* The first token of a line.
LEMMA LineBegins ==
    ASSUME NEW line \in Lines, NEW k \in Nat, Stands(k, LineTokens(line))
    PROVE  /\ line \in LabelLines => Tok(k).type = "label" /\ ~IsInst(k)
           /\ line \in CallLines => Tok(k).type = "Inst" /\ IsInst(k) /\ Tok(k).lit = line.call
           /\ line \in InstLines /\ line.inst \in DOMAIN Insts =>
                 Tok(k).type = "Inst" /\ IsInst(k) /\ Tok(k).lit = line.inst
           /\ line \in BareLines \/ line \in PlacedLines => Tok(k).type = "var" /\ ~IsInst(k)
<1> DEFINE ts == LineTokens(line)
<1>1. Len(ts) \in Nat /\ Len(ts) >= 2 /\ Stands(k, ts)
  BY LineTyped, Zenon
<1> HIDE DEF ts
<1>2. Tok(k) = MarkedToken(ts[1])
  <2>1. 1 \in 1 .. Len(ts) /\ k + (1 - 1) = k
    BY <1>1
  <2>2. Tok(k + (1 - 1)) = MarkedToken(ts[1])
    BY <1>1, <2>1, TokenIn, Zenon
  <2> QED BY <2>1, <2>2, Zenon
<1>3. "label" \in Signs /\ "var" \in Signs
  BY DEF Signs
<1>4. ASSUME line \in LabelLines PROVE Tok(k).type = "label" /\ ~IsInst(k)
  <2>1. ts[1] = Mark("label")
    BY <1>4, LabelLine, Zenon DEF ts, LabelLines
  <2> QED BY <1>2, <1>3, <2>1, MarkSeen, Zenon DEF Is
<1>5. ASSUME line \in BareLines \/ line \in PlacedLines PROVE Tok(k).type = "var" /\ ~IsInst(k)
  <2>1. ts[1] = Mark("var")
    BY <1>5, BareLine, PlacedLine, Zenon DEF ts, BareLines, PlacedLines
  <2> QED BY <1>2, <1>3, <2>1, MarkSeen, Zenon DEF Is
<1>6. \A w \in DOMAIN Insts : ts[1] = Ident(w) => Tok(k).type = "Inst" /\ IsInst(k) /\ Tok(k).lit = w
  BY <1>2, MarkedTypes, Zenon DEF IsInst
<1>7. ASSUME line \in CallLines
      PROVE  Tok(k).type = "Inst" /\ IsInst(k) /\ Tok(k).lit = line.call
  <2>1. ts[1] = Ident(line.call)
    BY <1>7, CallLine, Zenon DEF ts, CallLines
  <2>2. line.call \in {"fcall", "ncall"}
    BY <1>7, LineFields, Zenon DEF CallLines
  <2>3. line.call \in DOMAIN Insts
    BY <2>2, AmasmConstants, Zenon
  <2> QED BY <1>6, <2>1, <2>3, Zenon
<1>8. ASSUME line \in InstLines, line.inst \in DOMAIN Insts
      PROVE  Tok(k).type = "Inst" /\ IsInst(k) /\ Tok(k).lit = line.inst
  <2>1. ts[1] = Ident(line.inst)
    BY <1>8, InstLine, Zenon DEF ts, InstLines
  <2> QED BY <1>6, <1>8, <2>1, Zenon
<1> QED BY <1>4, <1>5, <1>7, <1>8, Zenon

-----------------------------------------------------------------------------
(* Adding a name to a layer. *)

Added(layer, name, element) ==
    IF name \in DOMAIN layer THEN layer
    ELSE [n \in DOMAIN layer \cup {name} |-> IF n = name THEN element ELSE layer[n]]

Widened(new, layer, name, element) ==
    /\ name \in DOMAIN new
    /\ \A x \in DOMAIN layer : x \in DOMAIN new /\ new[x] = layer[x]
    /\ \A x \in DOMAIN new :
          \/ x \in DOMAIN layer
          \/ x = name /\ new[x] = element /\ name \notin DOMAIN layer

LEMMA AddedIs ==
    ASSUME NEW layer, NEW name, NEW element, NEW new, new = Added(layer, name, element)
    PROVE  Widened(new, layer, name, element)
<1>1. CASE name \in DOMAIN layer
  BY <1>1, Zenon DEF Added, Widened
<1>2. CASE name \notin DOMAIN layer
  <2>1. new = [n \in DOMAIN layer \cup {name} |-> IF n = name THEN element ELSE layer[n]]
    BY <1>2, Zenon DEF Added
  <2>2. DOMAIN new = DOMAIN layer \cup {name}
    BY <2>1, Zenon
  <2>3. ASSUME NEW x \in DOMAIN layer PROVE x \in DOMAIN new /\ new[x] = layer[x]
    <3>1. x # name /\ x \in DOMAIN layer \cup {name}
      BY <1>2
    <3> QED BY <2>1, <2>2, <3>1, Zenon
  <2>4. new[name] = element /\ name \in DOMAIN new
    <3>1. name \in DOMAIN layer \cup {name}
      OBVIOUS
    <3> QED BY <2>1, <2>2, <3>1, Zenon
  <2>5. \A x \in DOMAIN new : x \in DOMAIN layer \/ x = name
    BY <2>2
  <2> QED BY <1>2, <2>3, <2>4, <2>5, Zenon DEF Widened
<1> QED BY <1>1, <1>2

Replaced(new, ls, m, id, layer) ==
    Indexed(new, m) /\ new[id] = layer /\ \A k \in 1 .. m : k # id => new[k] = ls[k]

LEMMA ReplacedIs ==
    ASSUME NEW ls, NEW m, Indexed(ls, m), NEW id \in 1 .. m, NEW layer
    PROVE  Replaced([ls EXCEPT ![id] = layer], ls, m, id, layer)
<1> DEFINE new == [ls EXCEPT ![id] = layer]
<1>1. DOMAIN ls = 1 .. m /\ m \in Nat
  BY IndexedSeq, Zenon
<1>2. DOMAIN new = 1 .. m /\ new[id] = layer /\ \A k \in 1 .. m : k # id => new[k] = ls[k]
  BY <1>1
<1>3. new = [k \in 1 .. m |-> new[k]]
  <2>1. new = [k \in DOMAIN new |-> new[k]]
    OBVIOUS
  <2> HIDE DEF new
  <2> QED BY <1>2, <2>1, Zenon
<1> HIDE DEF new
<1>4. Replaced(new, ls, m, id, layer)
  BY <1>1, <1>2, <1>3, Zenon DEF Replaced, Indexed
<1> QED BY <1>4 DEF new

LEMMA AddIs ==
    ASSUME NEW ls, NEW m, Indexed(ls, m), NEW id, id + 1 \in 1 .. m, NEW name, NEW element
    PROVE  Replaced(Add(ls, id, name, element), ls, m, id + 1, Added(ls[id + 1], name, element))
<1> DEFINE layer == Added(ls[id + 1], name, element)
<1>1. Add(ls, id, name, element) = [ls EXCEPT ![id + 1] = layer]
  BY Zenon DEF Add, Added
<1> HIDE DEF layer
<1>2. Replaced([ls EXCEPT ![id + 1] = layer], ls, m, id + 1, layer)
  BY ReplacedIs, Zenon
<1> QED BY <1>1, <1>2, Zenon DEF layer

\* A variable of a function leaves the global layer and those of others alone.
LEMMA VarAdded ==
    ASSUME NEW ls, NEW m \in Nat, Indexed(ls, m), NEW id, id + 1 \in 2 .. m, NEW name, NEW element,
           name \notin DOMAIN Registers, NEW p, NEW i, GlobalsKept(ls, p, i), ScopesClean(ls, m),
           NEW new, new = Add(ls, id, name, element)
    PROVE  /\ Indexed(new, m) /\ GlobalsKept(new, p, i) /\ ScopesClean(new, m)
           /\ new[id + 1] = Added(ls[id + 1], name, element)
<1> DEFINE layer == Added(ls[id + 1], name, element)
<1>1. id + 1 \in 1 .. m /\ 1 \in 1 .. m /\ 1 # id + 1
  OBVIOUS
<1>2. Indexed(new, m) /\ new[id + 1] = layer /\ \A k \in 1 .. m : k # id + 1 => new[k] = ls[k]
  <2>1. Replaced(new, ls, m, id + 1, layer)
    BY <1>1, AddIs, Zenon
  <2> QED BY <2>1, Zenon DEF Replaced
<1>3. new[1] = ls[1]
  BY <1>1, <1>2, Zenon
<1>4. GlobalsKept(new, p, i)
  BY <1>3, Zenon DEF GlobalsKept
<1>5. ASSUME NEW k \in 2 .. m PROVE DOMAIN new[k] \cap DOMAIN Registers = {}
  <2>1. DOMAIN ls[k] \cap DOMAIN Registers = {} /\ k \in 1 .. m
    BY DEF ScopesClean
  <2>2. CASE k # id + 1
    BY <1>2, <2>1, <2>2, Zenon
  <2>3. CASE k = id + 1
    <3>1. \A x \in DOMAIN layer : x \in DOMAIN ls[id + 1] \/ x = name
      <4>1. Widened(layer, ls[id + 1], name, element)
        BY AddedIs, Zenon
      <4> HIDE DEF layer
      <4> QED BY <4>1, Zenon DEF Widened
    <3>2. new[k] = layer
      BY <1>2, <2>3, Zenon
    <3> HIDE DEF layer
    <3> QED BY <2>1, <2>3, <3>1, <3>2, Zenon
  <2> QED BY <2>2, <2>3
<1> QED BY <1>2, <1>4, <1>5, Zenon DEF ScopesClean

\* The global layer: a struct or a function takes a name that is new there, or none.
LEMMA GlobalAdded ==
    ASSUME NEW ls, NEW m \in Nat, 1 <= m, Indexed(ls, m), NEW name, NEW element,
           NEW p, NEW i \in Nat, GlobalsKept(ls, p, i), ScopesClean(ls, m),
           \/ /\ Has(p[i + 1], "func") /\ ~Has(p[i + 1], "struct") /\ name = p[i + 1].func
           \/ /\ Has(p[i + 1], "struct") /\ name = p[i + 1].struct /\ name \notin DOMAIN ls[1]
              /\ element.kind = "type" /\ element.size = SizeOf(p, name),
           NEW new, new = Add(ls, 0, name, element)
    PROVE  Indexed(new, m) /\ GlobalsKept(new, p, i + 1) /\ ScopesClean(new, m)
<1> DEFINE layer == Added(ls[1], name, element)
<1>1. 1 \in 1 .. m /\ 0 + 1 = 1 /\ 0 + 1 \in 1 .. m
  OBVIOUS
<1>2. Indexed(new, m) /\ new[1] = layer /\ \A k \in 1 .. m : k # 1 => new[k] = ls[k]
  <2>1. Replaced(new, ls, m, 0 + 1, Added(ls[0 + 1], name, element))
    BY <1>1, AddIs, Zenon
  <2> QED BY <1>1, <2>1, Zenon DEF Replaced
<1>3. /\ name \in DOMAIN layer
      /\ \A x \in DOMAIN ls[1] : x \in DOMAIN layer /\ layer[x] = ls[1][x]
      /\ \A x \in DOMAIN layer :
            \/ x \in DOMAIN ls[1]
            \/ x = name /\ layer[x] = element /\ name \notin DOMAIN ls[1]
  <2>1. Widened(layer, ls[1], name, element)
    BY AddedIs, Zenon
  <2> HIDE DEF layer
  <2> QED BY <2>1, Zenon DEF Widened
<1> HIDE DEF layer
<1>4. \A x \in DOMAIN Globals : x \in DOMAIN new[1] /\ new[1][x] = Globals[x]
  BY <1>2, <1>3, Zenon DEF GlobalsKept
<1>5. ASSUME NEW j \in 1 .. i + 1, Has(p[j], "struct")
      PROVE  /\ p[j].struct \in DOMAIN new[1] /\ new[1][p[j].struct].kind = "type"
             /\ new[1][p[j].struct].size = SizeOf(p, p[j].struct)
  <2>1. CASE j \in 1 .. i
    BY <1>2, <1>3, <1>5, <2>1, Zenon DEF GlobalsKept
  <2>2. CASE j = i + 1
    <3>1. /\ name = p[j].struct /\ name \notin DOMAIN ls[1]
          /\ element.kind = "type" /\ element.size = SizeOf(p, name)
      BY <1>5, <2>2, Zenon
    <3>2. layer[name] = element
      BY <1>3, <3>1, Zenon
    <3> QED BY <1>2, <1>3, <3>1, <3>2, Zenon
  <2> QED BY <2>1, <2>2
<1>6. ASSUME NEW x \in DOMAIN new[1]
      PROVE  x \in DOMAIN Globals \/ \E j \in 1 .. i + 1 : \/ Has(p[j], "struct") /\ x = p[j].struct
                                                           \/ Has(p[j], "func") /\ x = p[j].func
  <2>1. x \in DOMAIN ls[1] \/ x = name
    BY <1>2, <1>3, Zenon
  <2>2. CASE x \in DOMAIN ls[1]
    <3>1. \A j \in 1 .. i : j \in 1 .. i + 1
      OBVIOUS
    <3> QED BY <2>2, <3>1, Zenon DEF GlobalsKept
  <2>3. CASE x = name
    <3>1. i + 1 \in 1 .. i + 1
      OBVIOUS
    <3> QED BY <2>3, <3>1, Zenon
  <2> QED BY <2>1, <2>2, <2>3
<1>7. GlobalsKept(new, p, i + 1)
  BY <1>4, <1>5, <1>6, Zenon DEF GlobalsKept
<1>8. ASSUME NEW k \in 2 .. m PROVE DOMAIN new[k] \cap DOMAIN Registers = {}
  <2>1. DOMAIN ls[k] \cap DOMAIN Registers = {}
    BY Zenon DEF ScopesClean
  <2>2. k \in 1 .. m /\ k # 1
    OBVIOUS
  <2> QED BY <1>2, <2>1, <2>2, Zenon
<1> QED BY <1>2, <1>7, <1>8, Zenon DEF ScopesClean

-----------------------------------------------------------------------------
(* One line more of the function being parsed. *)

LEMMA RecordLines ==
    ASSUME NEW r, NEW a, NEW b, NEW c, NEW d, NEW e, NEW x,
           r = [scope |-> a, name |-> b, args |-> c, ret |-> d, lines |-> e],
           NEW s, s = [r EXCEPT !.lines = x]
    PROVE  /\ s = [scope |-> a, name |-> b, args |-> c, ret |-> d, lines |-> s.lines]
           /\ s.lines = x /\ r.lines = e /\ r.scope = a /\ s.scope = a /\ r.name = b
           /\ r.args = c /\ r.ret = d
OBVIOUS

LEMMA AddLineIs ==
    ASSUME NEW x, AddLine(x)
    PROVE  open' = [open EXCEPT !.lines = Append(open.lines, x)]
BY DEF AddLine

LEMMA OpenedNext ==
    ASSUME NEW p, NEW i, NEW n \in Nat, DOMAIN p[i].lines = 1 .. n, NEW l \in Nat, l + 1 \in 1 .. n,
           NEW scope, Opened(p, i, l, open, scope),
           NEW x, AddLine(x), NEW y, LineMatches(x, y), LineMeaning(p, p[i].lines, l + 1) = <<y>>
    PROVE  Opened(p, i, l + 1, open', scope) /\ open.scope = scope /\ open'.scope = scope
<1> DEFINE m == Joins(LineMeanings(p, p[i].lines))[l]
           m2 == Joins(LineMeanings(p, p[i].lines))[l + 1]
           b == p[i].func
           c == TakenArgs(p[i].args, Sizes(p, p[i].args))
           d == SizeOf(p, p[i].ret)
           e == open.lines
           f == Append(open.lines, x)
           s == open'
<1>1. open = [scope |-> scope, name |-> b, args |-> c, ret |-> d, lines |-> e] /\ Matches(e, m)
  BY Zenon DEF Opened
<1>2. s = [open EXCEPT !.lines = f]
  BY AddLineIs, Zenon
<1>3. Extends(m2, m, Len(m), y)
  <2>1. (l + 1) - 1 = l
    OBVIOUS
  <2>2. Extends(Joins(LineMeanings(p, p[i].lines))[l + 1], Joins(LineMeanings(p, p[i].lines))[(l + 1) - 1],
                Len(Joins(LineMeanings(p, p[i].lines))[(l + 1) - 1]), y)
    BY LineMeaningAt, Zenon
  <2> QED BY <2>1, <2>2, Zenon
<1>4. Matches(f, m2)
  <2> HIDE DEF m, m2
  <2> QED BY <1>1, <1>3, MatchNext, Zenon
<1> HIDE DEF b, c, d, e, f, s
<1>5. /\ s = [scope |-> scope, name |-> b, args |-> c, ret |-> d, lines |-> s.lines]
      /\ s.lines = f /\ open.scope = scope /\ s.scope = scope
  BY <1>1, <1>2, RecordLines
<1>6. Matches(s.lines, m2)
  BY <1>4, <1>5, Zenon
<1>7. Opened(p, i, l + 1, s, scope)
  BY <1>5, <1>6, Zenon DEF Opened, b, c, d
<1> QED BY <1>5, <1>7, Zenon DEF s

LEMMA OpenedSame ==
    ASSUME NEW p, NEW i, NEW n \in Nat, DOMAIN p[i].lines = 1 .. n, NEW l \in Nat, l + 1 \in 1 .. n,
           NEW scope, NEW f, Opened(p, i, l, f, scope), LineMeaning(p, p[i].lines, l + 1) = <<>>
    PROVE  Opened(p, i, l + 1, f, scope)
<1>1. (l + 1) - 1 = l
  OBVIOUS
<1>2. Joins(LineMeanings(p, p[i].lines))[l + 1] = Joins(LineMeanings(p, p[i].lines))[(l + 1) - 1]
  <2> DEFINE lines == p[i].lines
             k == l + 1
             none == LineMeaning(p, lines, k) = <<>>
             same == Joins(LineMeanings(p, lines))[k] = Joins(LineMeanings(p, lines))[k - 1]
  <2>1. DOMAIN lines = 1 .. n /\ k \in 1 .. n /\ LineMeaning(p, lines, k) = <<>>
    OBVIOUS
  <2> HIDE DEF lines, k
  <2>2. LineMeaning(p, lines, k) = <<>> => Joins(LineMeanings(p, lines))[k] = Joins(LineMeanings(p, lines))[k - 1]
    BY <2>1, LineMeaningAt, Zenon
  <2>3. same
    BY <2>1, <2>2, Zenon
  <2> QED BY <2>3, Zenon DEF lines, k
<1> QED BY <1>1, <1>2, Zenon DEF Opened

\* The declaration of a name that a line more sees.
LEMMA DeclaredNext ==
    ASSUME NEW lines, NEW l \in Nat, NEW name
    PROVE  LET n == DeclaredAt(lines, l + 1, name)
           IN DeclaredAt(lines, (l + 1) + 1, name)
                 = IF n # 0 THEN n
                   ELSE IF Has(lines[l + 1], "var") /\ lines[l + 1].var = name THEN l + 1 ELSE 0
<1> DEFINE D(k) == Has(lines[k], "var") /\ lines[k].var = name
           n == DeclaredAt(lines, l + 1, name)
           m == DeclaredAt(lines, (l + 1) + 1, name)
<1>1. DeclaresFirst(lines, l + 1, name, n) /\ DeclaresFirst(lines, (l + 1) + 1, name, m)
  <2>1. l + 1 \in Nat /\ (l + 1) + 1 \in Nat
    OBVIOUS
  <2> QED BY <2>1, DeclaredIs, Zenon
<1> HIDE DEF n, m
<1>2. /\ n # 0 => n \in 1 .. (l + 1) - 1 /\ D(n) /\ \A k \in 1 .. n - 1 : ~D(k)
      /\ n = 0 => \A k \in 1 .. (l + 1) - 1 : ~D(k)
      /\ m # 0 => m \in 1 .. ((l + 1) + 1) - 1 /\ D(m) /\ \A k \in 1 .. m - 1 : ~D(k)
      /\ m = 0 => \A k \in 1 .. ((l + 1) + 1) - 1 : ~D(k)
  BY <1>1, Zenon DEF DeclaresFirst
<1> HIDE DEF D
<1>3. CASE n # 0
  <2>1. n \in 1 .. l /\ n \in 1 .. ((l + 1) + 1) - 1 /\ D(n) /\ \A k \in 1 .. n - 1 : ~D(k)
    BY <1>2, <1>3
  <2>2. m # 0
    BY <1>2, <2>1, Zenon
  <2>3. m \in 1 .. ((l + 1) + 1) - 1 /\ D(m) /\ \A k \in 1 .. m - 1 : ~D(k)
    BY <1>2, <2>2, Zenon
  <2>4. ~(n \in 1 .. m - 1) /\ ~(m \in 1 .. n - 1)
    BY <2>1, <2>3, Zenon
  <2>5. m = n
    BY <2>1, <2>3, <2>4
  <2> QED BY <1>3, <2>5, Zenon DEF n, m
<1>4. CASE n = 0
  <2>1. \A k \in 1 .. l : ~D(k)
    BY <1>2, <1>4
  <2>2. CASE D(l + 1)
    <3>1. l + 1 \in 1 .. ((l + 1) + 1) - 1
      OBVIOUS
    <3>2. m # 0
      BY <1>2, <2>2, <3>1, Zenon
    <3>3. m \in 1 .. ((l + 1) + 1) - 1 /\ D(m)
      BY <1>2, <3>2, Zenon
    <3>4. ~(m \in 1 .. l)
      BY <2>1, <3>3, Zenon
    <3>5. m = l + 1
      BY <3>3, <3>4
    <3> QED BY <1>4, <2>2, <3>5, Zenon DEF n, m, D
  <2>3. CASE ~D(l + 1)
    <3>1. ASSUME m # 0 PROVE FALSE
      <4>1. m \in 1 .. ((l + 1) + 1) - 1 /\ D(m)
        BY <1>2, <3>1, Zenon
      <4>2. m \in 1 .. l \/ m = l + 1
        BY <4>1
      <4> QED BY <2>1, <2>3, <4>1, <4>2, Zenon
    <3> QED BY <1>4, <2>3, <3>1, Zenon DEF n, m, D
  <2> QED BY <2>2, <2>3
<1> QED BY <1>3, <1>4

LEMMA ScopeSame ==
    ASSUME NEW layer, NEW lines, NEW l \in Nat, ScopeHolds(layer, lines, l), ~Has(lines[l + 1], "var")
    PROVE  ScopeHolds(layer, lines, l + 1)
<1>1. ASSUME NEW k \in 1 .. l + 1, Has(lines[k], "var") PROVE lines[k].var \in DOMAIN layer
  <2>1. k \in 1 .. l \/ k = l + 1
    OBVIOUS
  <2> QED BY <1>1, <2>1, Zenon DEF ScopeHolds
<1>2. \A name : DeclaredAt(lines, l + 1, name) # 0 =>
                   DeclaredAt(lines, (l + 1) + 1, name) = DeclaredAt(lines, l + 1, name)
  BY DeclaredNext, Zenon
<1>3. ASSUME NEW name \in DOMAIN layer
      PROVE  LET n == DeclaredAt(lines, (l + 1) + 1, name)
             IN /\ n # 0
                /\ Has(lines[n], "base") =>
                      /\ layer[name].kind = "var"
                      /\ layer[name].address = Address(lines[n].base, 0, lines[n].diff, "RelativeWithDiff")
  <2>1. DeclaredAt(lines, l + 1, name) # 0
    BY Zenon DEF ScopeHolds
  <2>2. DeclaredAt(lines, (l + 1) + 1, name) = DeclaredAt(lines, l + 1, name)
    BY <1>2, <2>1, Zenon
  <2> QED BY <2>1, <2>2, Zenon DEF ScopeHolds
<1> QED BY <1>1, <1>3, Zenon DEF ScopeHolds

LEMMA ScopeNext ==
    ASSUME NEW layer, NEW lines, NEW l \in Nat, ScopeHolds(layer, lines, l), Has(lines[l + 1], "var"),
           NEW element,
           Has(lines[l + 1], "base") =>
              /\ element.kind = "var"
              /\ element.address = Address(lines[l + 1].base, 0, lines[l + 1].diff, "RelativeWithDiff"),
           NEW new, new = Added(layer, lines[l + 1].var, element)
    PROVE  ScopeHolds(new, lines, l + 1)
<1> DEFINE var == lines[l + 1].var
           Holds(e, n) ==
              Has(lines[n], "base") =>
                 /\ e.kind = "var"
                 /\ e.address = Address(lines[n].base, 0, lines[n].diff, "RelativeWithDiff")
<1>1. /\ var \in DOMAIN new
      /\ \A x \in DOMAIN layer : x \in DOMAIN new /\ new[x] = layer[x]
      /\ \A x \in DOMAIN new :
            \/ x \in DOMAIN layer
            \/ x = var /\ new[x] = element /\ var \notin DOMAIN layer
  <2>1. Widened(new, layer, var, element)
    BY AddedIs, Zenon
  <2> QED BY <2>1, Zenon DEF Widened
<1>2. ASSUME NEW k \in 1 .. l + 1, Has(lines[k], "var") PROVE lines[k].var \in DOMAIN new
  <2>1. k \in 1 .. l \/ k = l + 1
    OBVIOUS
  <2> QED BY <1>1, <1>2, <2>1, Zenon DEF ScopeHolds
<1>3. \A x \in DOMAIN layer :
         DeclaredAt(lines, l + 1, x) # 0 /\ Holds(layer[x], DeclaredAt(lines, l + 1, x))
  BY Zenon DEF ScopeHolds
<1>4. Holds(element, l + 1)
  OBVIOUS
<1>5. \A k \in 1 .. l : Has(lines[k], "var") => lines[k].var \in DOMAIN layer
  BY Zenon DEF ScopeHolds
<1> HIDE DEF Holds
<1>6. ASSUME NEW x \in DOMAIN new
      PROVE  DeclaredAt(lines, (l + 1) + 1, x) # 0 /\ Holds(new[x], DeclaredAt(lines, (l + 1) + 1, x))
  <2>1. CASE x \in DOMAIN layer
    <3>1. DeclaredAt(lines, l + 1, x) # 0 /\ Holds(layer[x], DeclaredAt(lines, l + 1, x))
      BY <1>3, <2>1, Zenon
    <3>2. DeclaredAt(lines, (l + 1) + 1, x) = DeclaredAt(lines, l + 1, x)
      BY <3>1, DeclaredNext, Zenon
    <3>3. new[x] = layer[x]
      BY <1>1, <2>1, Zenon
    <3> QED BY <3>1, <3>2, <3>3, Zenon
  <2>2. CASE x \notin DOMAIN layer
    <3>1. x = var /\ new[x] = element
      BY <1>1, <2>2, Zenon
    <3>2. DeclaredAt(lines, l + 1, x) = 0
      <4> DEFINE n == DeclaredAt(lines, l + 1, x)
      <4>1. DeclaresFirst(lines, l + 1, x, n)
        <5>1. l + 1 \in Nat
          OBVIOUS
        <5> QED BY <5>1, DeclaredIs, Zenon
      <4> HIDE DEF n
      <4>2. SUFFICES ASSUME n # 0 PROVE FALSE
        BY Zenon DEF n
      <4>3. n \in 1 .. (l + 1) - 1 /\ Has(lines[n], "var") /\ lines[n].var = x
        BY <4>1, <4>2, Zenon DEF DeclaresFirst
      <4>4. (l + 1) - 1 = l
        OBVIOUS
      <4> QED BY <1>5, <2>2, <4>3, <4>4, Zenon
    <3>3. DeclaredAt(lines, (l + 1) + 1, x) = l + 1
      BY <3>1, <3>2, DeclaredNext, Zenon
    <3>4. l + 1 # 0
      OBVIOUS
    <3> QED BY <1>4, <3>1, <3>3, <3>4, Zenon
  <2> QED BY <2>1, <2>2
<1>7. \A x \in DOMAIN new :
         DeclaredAt(lines, (l + 1) + 1, x) # 0 /\ Holds(new[x], DeclaredAt(lines, (l + 1) + 1, x))
  BY <1>6
<1> QED BY <1>2, <1>7, Zenon DEF ScopeHolds, Holds

-----------------------------------------------------------------------------
(* Where the parser stands. *)

LEMMA StandsFits ==
    ASSUME NEW k \in Nat, NEW part, Len(part) \in Nat, 1 <= Len(part), Stands(k, part), Len(tokens) \in Nat
    PROVE  ~(k > Len(tokens)) /\ k + Len(part) <= Len(tokens) + 1
<1>1. k + Len(part) <= Len(tokens) + 1
  BY Zenon DEF Stands
<1> QED BY <1>1

LEMMA FuncAt ==
    ASSUME NEW p, Given(p), NEW i \in 1 .. Len(p), Has(p[i], "func")
    PROVE  p[i] \in FuncItems /\ Len(p[i].lines) \in Nat /\ LinesOf(p[i]) = p[i].lines
<1>1. p[i] \in StructItems \/ p[i] \in FuncItems
  BY GivenItems, Zenon
<1>2. p[i] \in FuncItems
  BY <1>1, ItemFields, Zenon
<1> QED BY <1>2, ItemLines, FuncLines, Zenon

\* The n-th part of an item.
PartStart(p, i, n) == (1 + Before(p, i - 1)) + Inside(p[i], n - 1)

LEMMA PartPlace ==
    ASSUME NEW p, Given(p), NEW i \in 1 .. Len(p), NEW n \in 1 .. Len(Parts(p[i]))
    PROVE  /\ PartStart(p, i, n) \in Nat /\ Stands(PartStart(p, i, n), Parts(p[i])[n])
           /\ PartStart(p, i, n) + Len(Parts(p[i])[n]) = PartStart(p, i, n + 1)
           /\ Len(Parts(p[i])[n]) \in Nat
<1> DEFINE b == Before(p, i - 1)
           a == Inside(p[i], n - 1)
           c == Inside(p[i], n)
           w == Len(Parts(p[i])[n])
           m == Len(Parts(p[i]))
<1>0. Len(p) \in Nat /\ Len(tokens) \in Nat /\ i - 1 \in 0 .. Len(p)
  <2>1. Len(p) \in Nat /\ Len(tokens) \in Nat
    BY GivenItems, GivenStands, Zenon
  <2> QED BY <2>1
<1>1. b \in 0 .. Len(tokens)
  BY <1>0, BeforeIs, Zenon
<1>2. p[i] \in StructItems \/ p[i] \in FuncItems
  BY GivenItems, Zenon
<1>3. Parts(p[i]) \in Seq(Seq(Toks))
  BY <1>2, PartsAre, Zenon
<1>4. m \in Nat /\ w \in Nat
  <2> DEFINE s == Parts(p[i])
  <2>1. s \in Seq(Seq(Toks))
    BY <1>3
  <2> HIDE DEF s
  <2>2. Len(s) \in Nat /\ (n \in 1 .. Len(s) => Len(s[n]) \in Nat)
    BY <2>1
  <2> QED BY <2>2 DEF s
<1>5. n - 1 \in 0 .. m /\ n \in 1 .. m
  BY <1>4
<1>6. a \in 0 .. Len(Joined(Parts(p[i]))) /\ c = a + w /\ Len(Joined(Parts(p[i]))) \in Nat
  BY <1>2, <1>5, InsideIs, Zenon
<1>7. Stands((1 + b) + a, Parts(p[i])[n])
  BY PartAt, Zenon
<1>8. PartStart(p, i, n) = (1 + b) + a
  BY Zenon DEF PartStart
<1>9. PartStart(p, i, n + 1) = (1 + b) + c
  <2>1. (n + 1) - 1 = n
    BY <1>4
  <2> QED BY <2>1, Zenon DEF PartStart
<1> DEFINE A == PartStart(p, i, n)
           E == PartStart(p, i, n + 1)
<1>10. A = (1 + b) + a /\ E = (1 + b) + c
  BY <1>8, <1>9
<1> HIDE DEF A, E, a, b, c, w, m
<1>11. A \in Nat /\ A + w = E
  BY <1>0, <1>1, <1>4, <1>6, <1>10
<1>12. Stands(A, Parts(p[i])[n])
  BY <1>7, <1>10, Zenon
<1> QED BY <1>4, <1>11, <1>12, Zenon DEF A, E, w

\* The place behind the last part is that of the next item.
LEMMA PlaceEnds ==
    ASSUME NEW p, Given(p), NEW i \in 1 .. Len(p)
    PROVE  /\ PartStart(p, i, Len(Parts(p[i])) + 1) = 1 + Before(p, i)
           /\ PartStart(p, i, 1) = 1 + Before(p, i - 1)
           /\ 1 + Before(p, i) \in Nat
<1> DEFINE b == Before(p, i - 1)
           m == Len(Parts(p[i]))
           w == Len(Joined(Parts(p[i])))
<1>0. Len(p) \in Nat /\ Len(tokens) \in Nat /\ i - 1 \in 0 .. Len(p) /\ i \in 0 .. Len(p)
  <2>1. Len(p) \in Nat /\ Len(tokens) \in Nat
    BY GivenItems, GivenStands, Zenon
  <2> QED BY <2>1
<1>1. b \in 0 .. Len(tokens) /\ Before(p, i) = b + w /\ Before(p, i) \in 0 .. Len(tokens)
  BY <1>0, BeforeIs, Zenon
<1>2. p[i] \in StructItems \/ p[i] \in FuncItems
  BY GivenItems, Zenon
<1>3. Parts(p[i]) \in Seq(Seq(Toks)) /\ Len(Parts(p[i])) = Len(LinesOf(p[i])) + 2 /\ Len(LinesOf(p[i])) \in Nat
  BY <1>2, PartsAre, Zenon
<1>4. (m + 1) - 1 = m /\ 1 - 1 = 0
  BY <1>3
<1>5. Inside(p[i], 0) = 0 /\ Inside(p[i], m) = w /\ w \in Nat
  BY <1>2, InsideIs, Zenon
<1>6. PartStart(p, i, m + 1) = (1 + b) + w /\ PartStart(p, i, 1) = (1 + b) + 0
  BY <1>4, <1>5, Zenon DEF PartStart
<1> DEFINE c == Before(p, i)
<1>7. c = b + w /\ c \in Nat /\ b \in Nat /\ w \in Nat
  BY <1>0, <1>1, <1>5
<1> HIDE DEF b, m, w, c
<1>8. (1 + b) + w = 1 + c /\ (1 + b) + 0 = 1 + b /\ 1 + c \in Nat
  BY <1>7
<1> QED BY <1>6, <1>8, Zenon DEF b, m, c

\* A line of a function.
LEMMA LinePlace ==
    ASSUME NEW p, Given(p), NEW i \in 1 .. Len(p), p[i] \in FuncItems, NEW l \in Nat,
           l + 1 \in 1 .. Len(p[i].lines), NEW at, at = PartStart(p, i, l + 2)
    PROVE  /\ at \in Nat /\ ~(at > Len(tokens)) /\ p[i].lines[l + 1] \in Lines
           /\ Stands(at, LineTokens(p[i].lines[l + 1]))
           /\ at + Len(LineTokens(p[i].lines[l + 1])) = PartStart(p, i, l + 3)
           /\ PartStart(p, i, l + 3) \in Nat
<1> DEFINE it == p[i]
           line == it.lines[l + 1]
           ts == LineTokens(line)
           n == Len(it.lines)
<1>1. /\ Len(Parts(it)) = Len(LinesOf(it)) + 2
      /\ \A k \in 1 .. Len(LinesOf(it)) : Parts(it)[k + 1] = LineTokens(LinesOf(it)[k])
  BY PartsAre, Zenon
<1>2. LinesOf(it) = it.lines /\ n \in Nat /\ \A k \in 1 .. n : it.lines[k] \in Lines
  BY ItemLines, FuncLines, Zenon
<1>3. Len(Parts(it)) = n + 2 /\ Parts(it)[(l + 1) + 1] = ts /\ line \in Lines
  BY <1>1, <1>2, Zenon
<1>4. ts \in Seq(Toks) /\ Len(ts) \in Nat /\ Len(ts) >= 2
  BY <1>3, LineTyped, Zenon
<1>5. l + 2 \in 1 .. Len(Parts(it)) /\ (l + 1) + 1 = l + 2 /\ (l + 2) + 1 = l + 3
  <2> HIDE DEF n
  <2>1. Len(Parts(it)) = n + 2 /\ n \in Nat /\ l + 1 \in 1 .. n
    BY <1>2, <1>3 DEF n
  <2> QED BY <2>1
<1>6. /\ PartStart(p, i, l + 2) \in Nat /\ Stands(PartStart(p, i, l + 2), Parts(it)[l + 2])
      /\ PartStart(p, i, l + 2) + Len(Parts(it)[l + 2]) = PartStart(p, i, (l + 2) + 1)
  BY <1>5, PartPlace, Zenon
<1> HIDE DEF ts
<1>7. at \in Nat /\ Stands(at, ts) /\ at + Len(ts) = PartStart(p, i, l + 3)
  <2>1. Parts(it)[l + 2] = ts
    BY <1>3, <1>5, Zenon
  <2> QED BY <1>5, <1>6, <2>1, Zenon
<1>8. ~(at > Len(tokens))
  <2>1. Len(tokens) \in Nat /\ 1 <= Len(ts)
    <3>1. Len(tokens) \in Nat
      BY GivenStands, Zenon
    <3> QED BY <3>1, <1>4
  <2> QED BY <1>4, <1>7, <2>1, StandsFits, Zenon
<1>9. at + Len(ts) \in Nat
  BY <1>4, <1>7
<1> QED BY <1>3, <1>7, <1>8, <1>9, Zenon DEF ts

\* The closing brace of a function.
LEMMA ClosePlace ==
    ASSUME NEW p, Given(p), NEW i \in 1 .. Len(p), p[i] \in FuncItems,
           NEW at, at = PartStart(p, i, Len(p[i].lines) + 2)
    PROVE  /\ at \in Nat /\ ~(at > Len(tokens)) /\ Stands(at, Close)
           /\ at + 1 = 1 + Before(p, i)
<1> DEFINE it == p[i]
           n == Len(it.lines)
<1>1. Len(Parts(it)) = Len(LinesOf(it)) + 2 /\ Parts(it)[Len(LinesOf(it)) + 2] = Close
  BY PartsAre, Zenon
<1>2. LinesOf(it) = it.lines /\ n \in Nat
  BY ItemLines, FuncLines, Zenon
<1>3. Len(Parts(it)) = n + 2 /\ Parts(it)[n + 2] = Close
  BY <1>1, <1>2, Zenon
<1>4. n + 2 \in 1 .. Len(Parts(it))
  <2> HIDE DEF n
  <2>1. Len(Parts(it)) = n + 2 /\ n \in Nat
    BY <1>2, <1>3 DEF n
  <2> QED BY <2>1
<1>5. /\ PartStart(p, i, n + 2) \in Nat /\ Stands(PartStart(p, i, n + 2), Parts(it)[n + 2])
      /\ PartStart(p, i, n + 2) + Len(Parts(it)[n + 2]) = PartStart(p, i, (n + 2) + 1)
  BY <1>4, PartPlace, Zenon
<1>6. PartStart(p, i, (n + 2) + 1) = 1 + Before(p, i)
  BY <1>3, PlaceEnds, Zenon
<1>7. Len(Close) = 1 /\ Len(Close) \in Nat /\ 1 <= Len(Close)
  BY DEF Close
<1>8. at \in Nat /\ Stands(at, Close) /\ at + 1 = 1 + Before(p, i)
  BY <1>3, <1>5, <1>6, <1>7, Zenon
<1>9. Len(tokens) \in Nat
  BY GivenStands, Zenon
<1> QED BY <1>7, <1>8, <1>9, StandsFits, Zenon

\* The head of an item.
LEMMA ItemPlace ==
    ASSUME NEW p, Given(p), NEW i \in 1 .. Len(p), NEW at, at = 1 + Before(p, i - 1)
    PROVE  /\ at \in Nat /\ ~(at > Len(tokens)) /\ Stands(at, HeadTokens(p[i]))
           /\ at + Len(HeadTokens(p[i])) = PartStart(p, i, 2)
           /\ at + 3 <= Len(tokens) + 1
           /\ Len(HeadTokens(p[i])) \in Nat
<1> DEFINE it == p[i]
           h == HeadTokens(it)
<1>0. it \in StructItems \/ it \in FuncItems
  BY GivenItems, Zenon
<1>1. Len(Parts(it)) = Len(LinesOf(it)) + 2 /\ Len(LinesOf(it)) \in Nat /\ Parts(it)[1] = h
  BY <1>0, PartsAre, Zenon
<1>2. 1 \in 1 .. Len(Parts(it)) /\ 1 + 1 = 2
  BY <1>1
<1>3. PartStart(p, i, 1) = at
  BY PlaceEnds, Zenon
<1>4. /\ PartStart(p, i, 1) \in Nat /\ Stands(PartStart(p, i, 1), Parts(it)[1])
      /\ PartStart(p, i, 1) + Len(Parts(it)[1]) = PartStart(p, i, 1 + 1)
  BY <1>2, PartPlace, Zenon
<1>5. at \in Nat /\ Stands(at, h) /\ at + Len(h) = PartStart(p, i, 2)
  BY <1>1, <1>2, <1>3, <1>4, Zenon
<1>6. Len(h) \in Nat /\ 3 <= Len(h)
  <2>1. CASE it \in StructItems
    <3>1. Len(h) = 3
      BY <2>1, StructHead, Zenon
    <3> QED BY <3>1
  <2>2. CASE it \in FuncItems
    <3> DEFINE a == Len(Listed(Args(it)))
               b == Len(RetTokens(it))
               c == Len(h)
    <3>1. c = 4 + a + b /\ a \in Nat
      BY <2>2, FuncHead, Zenon
    <3>2. b \in {2, 4}
      BY <2>2, RetTyped, Zenon
    <3> HIDE DEF a, b, c
    <3>3. c \in Nat /\ 3 <= c
      BY <3>1, <3>2
    <3> QED BY <3>3 DEF c
  <2> QED BY <1>0, <2>1, <2>2
<1>7. Len(tokens) \in Nat /\ 1 <= Len(h)
  <2>1. Len(tokens) \in Nat
    BY GivenStands, Zenon
  <2> QED BY <2>1, <1>6
<1>8. ~(at > Len(tokens)) /\ at + Len(h) <= Len(tokens) + 1
  BY <1>5, <1>6, <1>7, StandsFits, Zenon
<1> DEFINE w == Len(h)
<1> HIDE DEF h, w
<1>9. at + 3 <= Len(tokens) + 1
  <2>1. w \in Nat /\ 3 <= w /\ at + w <= Len(tokens) + 1
    BY <1>6, <1>8, Zenon DEF w
  <2> QED BY <1>5, <1>7, <2>1
<1> QED BY <1>5, <1>6, <1>8, <1>9, Zenon DEF h

\* Behind the last item nothing is left.
LEMMA EndPlace ==
    ASSUME NEW p, Given(p), NEW at, at = 1 + Before(p, Len(p))
    PROVE  ~(at <= Len(tokens))
<1>1. Before(p, Len(p)) = Len(tokens) /\ Len(tokens) \in Nat
  BY BeforeIs, GivenStands, Zenon
<1> QED BY <1>1

\* Behind a line of a function stands another line, or the end of the function.
LEMMA LineBehind ==
    ASSUME NEW p, Given(p), NEW i \in 1 .. Len(p), p[i] \in FuncItems, NEW k \in Nat,
           k + 1 \in 1 .. Len(p[i].lines), NEW b, b = PartStart(p, i, k + 2)
    PROVE  ~(b + 2 > Len(tokens))
<1> DEFINE n == Len(p[i].lines)
           ts == LineTokens(p[i].lines[k + 1])
           c == PartStart(p, i, k + 3)
<1>0. n \in Nat /\ Len(tokens) \in Nat /\ b \in Nat
  BY FuncLines, GivenStands, LinePlace, Zenon
<1>1. k + 1 \in 1 .. n
  OBVIOUS
<1>2. p[i].lines[k + 1] \in Lines /\ b + Len(ts) = c /\ c \in Nat
  BY LinePlace, Zenon
<1>3. Len(ts) \in Nat /\ Len(ts) >= 2
  BY <1>2, LineTyped, Zenon
<1>4. c <= Len(tokens)
  <2> DEFINE m == Len(Parts(p[i]))
             q == k + 3
  <2>1. m = n + 2
    <3>1. Len(Parts(p[i])) = Len(LinesOf(p[i])) + 2 /\ LinesOf(p[i]) = p[i].lines
      BY PartsAre, ItemLines, Zenon
    <3> QED BY <3>1, Zenon
  <2> HIDE DEF m, n
  <2>2. q \in 1 .. m
    BY <1>0, <1>1, <2>1 DEF n
  <2> DEFINE part == Parts(p[i])[q]
  <2>3. Stands(PartStart(p, i, q), part) /\ Len(part) \in Nat /\ PartStart(p, i, q) \in Nat
    BY <2>2, PartPlace, Zenon DEF m
  <2>4. 1 <= Len(part)
    <3>1. CASE q = m
      <4>1. part = Close
        <5>1. Parts(p[i])[Len(LinesOf(p[i])) + 2] = Close /\ LinesOf(p[i]) = p[i].lines
          BY PartsAre, ItemLines, Zenon
        <5>2. q = Len(p[i].lines) + 2
          BY <2>1, <3>1 DEF n
        <5> QED BY <5>1, <5>2, Zenon
      <4> HIDE DEF part
      <4>2. Len(Close) = 1
        BY DEF Close
      <4>3. Len(part) = 1
        BY <4>1, <4>2, Zenon
      <4> QED BY <4>3
    <3>2. CASE q # m
      <4> DEFINE j == k + 2
                 us == LineTokens(p[i].lines[j])
      <4>1. j \in 1 .. n /\ j + 1 = q
        BY <1>0, <2>1, <2>2, <3>2
      <4> HIDE DEF j, q
      <4>2. part = us /\ p[i].lines[j] \in Lines
        <5>1. \A x \in 1 .. Len(LinesOf(p[i])) : Parts(p[i])[x + 1] = LineTokens(LinesOf(p[i])[x])
          BY PartsAre, Zenon
        <5>2. LinesOf(p[i]) = p[i].lines /\ \A x \in 1 .. Len(p[i].lines) : p[i].lines[x] \in Lines
          BY ItemLines, FuncLines, Zenon
        <5> QED BY <4>1, <5>1, <5>2, Zenon DEF n
      <4>3. Len(us) \in Nat /\ Len(us) >= 2
        BY <4>2, LineTyped, Zenon
      <4>4. Len(part) = Len(us)
        BY <4>2, Zenon
      <4> DEFINE d == Len(part)
                 e == Len(us)
      <4> HIDE DEF d, e, part, us
      <4>5. d = e /\ e \in Nat /\ e >= 2
        BY <4>3, <4>4 DEF d, e
      <4>6. 1 <= d
        BY <4>5
      <4> QED BY <4>6 DEF d
    <3> QED BY <3>1, <3>2
  <2> HIDE DEF part, q
  <2>5. ~(PartStart(p, i, q) > Len(tokens))
    BY <1>0, <2>3, <2>4, StandsFits, Zenon
  <2>6. PartStart(p, i, q) = c
    BY DEF q
  <2> HIDE DEF c
  <2> QED BY <1>0, <1>2, <2>5, <2>6
<1> DEFINE v == Len(ts)
<1>5. b + v = c /\ v \in Nat /\ v >= 2
  BY <1>2, <1>3, Zenon
<1> HIDE DEF c, ts, v
<1> QED BY <1>0, <1>2, <1>4, <1>5

\* What the declaration of a variable without an address has behind it.
LEMMA Behind ==
    ASSUME NEW p, Given(p), NEW i \in 1 .. Len(p), p[i] \in FuncItems, NEW l \in Nat,
           l + 1 \in 1 .. Len(p[i].lines), l + 1 < Len(p[i].lines) \/ i < Len(p),
           NEW at, at = PartStart(p, i, l + 2), NEW w \in Nat, Len(LineTokens(p[i].lines[l + 1])) = w
    PROVE  ~((at + w) + 2 > Len(tokens))
<1> DEFINE n == Len(p[i].lines)
           b == PartStart(p, i, l + 3)
<1>0. n \in Nat /\ Len(tokens) \in Nat
  BY FuncLines, GivenStands, Zenon
<1>1. at + w = b /\ b \in Nat
  BY LinePlace, Zenon
<1>2. CASE l + 1 < n
  <2> DEFINE k == l + 1
  <2>1. k \in Nat /\ k + 1 \in 1 .. Len(p[i].lines) /\ k + 2 = l + 3
    BY <1>0, <1>2
  <2>2. b = PartStart(p, i, k + 2)
    BY <2>1, Zenon
  <2> HIDE DEF k, b
  <2>3. ~(b + 2 > Len(tokens))
    BY <2>1, <2>2, LineBehind, Zenon
  <2> QED BY <1>1, <2>3, Zenon
<1>3. CASE ~(l + 1 < n)
  <2>1. l + 1 = n /\ i < Len(p) /\ Len(p) \in Nat
    <3>1. Len(p) \in Nat
      BY GivenItems, Zenon
    <3> QED BY <1>0, <1>3, <3>1
  <2>2. i + 1 \in 1 .. Len(p) /\ (i + 1) - 1 = i /\ l + 3 = n + 2
    BY <1>0, <2>1
  <2> DEFINE c == 1 + Before(p, i)
  <2>3. b = PartStart(p, i, Len(p[i].lines) + 2)
    BY <2>2, Zenon
  <2> HIDE DEF b
  <2>4. b + 1 = c /\ b \in Nat
    BY <2>3, ClosePlace, Zenon
  <2>5. c \in Nat /\ c + 3 <= Len(tokens) + 1
    <3>1. c = 1 + Before(p, (i + 1) - 1)
      BY <2>2, Zenon
    <3> HIDE DEF c
    <3> QED BY <2>2, <3>1, ItemPlace, Zenon
  <2> HIDE DEF c
  <2> QED BY <1>0, <1>1, <2>4, <2>5
<1> QED BY <1>2, <1>3

-----------------------------------------------------------------------------
(* A line of a function. *)

Scope(fs) == Len(fs) + 1
Layers(fs) == Len(fs) + 2

\* What is known of the parser in a function.
WithinFacts(p, i, l) ==
    /\ Len(functions) \in Nat /\ Layers(functions) \in Nat
    /\ open.scope = Scope(functions) /\ open # NoFunction
    /\ open.scope + 1 = Layers(functions) /\ open.scope + 1 \in 2 .. Layers(functions)
    /\ Indexed(layers, Layers(functions))
    /\ pos = PartStart(p, i, l + 2)
    /\ GlobalsKept(layers, p, i - 1) /\ ScopesClean(layers, Layers(functions))
    /\ ScopeHolds(layers[open.scope + 1], p[i].lines, l)
    /\ Opened(p, i, l, open, Scope(functions))
    /\ Handed(p, i - 1, functions)
    /\ Has(p[i], "func")

LEMMA ScopeOf ==
    ASSUME NEW p, NEW i, NEW l, NEW f, NEW scope, Opened(p, i, l, f, scope)
    PROVE  f.scope = scope
<1> DEFINE b == p[i].func
           c == TakenArgs(p[i].args, Sizes(p, p[i].args))
           d == SizeOf(p, p[i].ret)
           e == f.lines
<1>1. f = [scope |-> scope, name |-> b, args |-> c, ret |-> d, lines |-> e]
  BY Zenon DEF Opened
<1> HIDE DEF b, c, d, e
<1> QED BY <1>1

LEMMA WithinIs ==
    ASSUME NEW p, NEW i, NEW l \in Nat, Within(p, i, l, pos, layers, functions, open)
    PROVE  WithinFacts(p, i, l)
<1> DEFINE k == Len(functions)
<1>1. /\ Has(p[i], "func") /\ pos = 1 + Before(p, i - 1) + Inside(p[i], l + 1)
      /\ Indexed(layers, k + 2)
      /\ GlobalsKept(layers, p, i - 1) /\ ScopesClean(layers, k + 2)
      /\ Handed(p, i - 1, functions)
      /\ Opened(p, i, l, open, k + 1)
      /\ ScopeHolds(layers[k + 2], p[i].lines, l)
  BY Zenon DEF Within
<1>2. k \in Nat
  <2>1. HandedAt(Joins(Meanings(p))[i - 1], functions)
    BY <1>1, HandedIs, Zenon
  <2>2. Indexed(functions, Len(Joins(Meanings(p))[i - 1]))
    BY <2>1, Zenon DEF HandedAt
  <2> QED BY <2>2, IndexedSeq, Zenon
<1>3. open.scope = k + 1
  BY <1>1, ScopeOf, Zenon
<1> DEFINE s == open.scope
<1>4. s = k + 1
  BY <1>3
<1>5. pos = PartStart(p, i, l + 2)
  <2>1. (l + 2) - 1 = l + 1
    OBVIOUS
  <2> QED BY <1>1, <2>1, Zenon DEF PartStart
<1>6. open # NoFunction
  <2>1. NoFunction.scope = 0
    BY DEF NoFunction
  <2>2. s # 0
    <3> HIDE DEF s, k
    <3> QED BY <1>2, <1>4
  <2> QED BY <2>1, <2>2, Zenon
<1> HIDE DEF k, s
<1>7. s + 1 = k + 2 /\ s + 1 \in 2 .. k + 2 /\ k + 2 \in Nat
  BY <1>2, <1>4
<1> QED BY <1>1, <1>2, <1>4, <1>5, <1>6, <1>7, Zenon DEF WithinFacts, Scope, Layers, k, s

\* The parser has passed a line.
LineDone(p, i, l) ==
    /\ pos' = pos + Len(LineTokens(p[i].lines[l + 1]))
    /\ functions' = functions /\ status' = status
    /\ Opened(p, i, l + 1, open', Scope(functions))
    /\ Indexed(layers', Layers(functions))
    /\ GlobalsKept(layers', p, i - 1) /\ ScopesClean(layers', Layers(functions))
    /\ ScopeHolds(layers'[Layers(functions)], p[i].lines, l + 1)

LEMMA WithinNext ==
    ASSUME NEW p, Given(p), NEW i \in 1 .. Len(p), NEW l \in Nat, l + 1 \in 1 .. Len(p[i].lines),
           WithinFacts(p, i, l), LineDone(p, i, l)
    PROVE  Within(p, i, l + 1, pos', layers', functions', open')
<1>1. Has(p[i], "func") /\ Handed(p, i - 1, functions) /\ pos = PartStart(p, i, l + 2)
  BY Zenon DEF WithinFacts
<1>2. p[i] \in FuncItems
  BY <1>1, FuncAt, Zenon
<1>3. pos + Len(LineTokens(p[i].lines[l + 1])) = PartStart(p, i, l + 3)
  BY <1>1, <1>2, LinePlace, Zenon
<1>4. (l + 3) - 1 = (l + 1) + 1
  OBVIOUS
<1>5. pos' = 1 + Before(p, i - 1) + Inside(p[i], (l + 1) + 1)
  BY <1>3, <1>4, Zenon DEF LineDone, PartStart
<1> QED BY <1>1, <1>5, Zenon DEF LineDone, Within, Scope, Layers

\* A line that declares nothing becomes a line of code.
LEMMA CodeDone ==
    ASSUME NEW p, Given(p), NEW i \in 1 .. Len(p), p[i] \in FuncItems,
           NEW l \in Nat, l + 1 \in 1 .. Len(p[i].lines),
           WithinFacts(p, i, l), NEW x, AddLine(x), NEW y, LineMatches(x, y),
           LineMeaning(p, p[i].lines, l + 1) = <<y>>,
           ~Has(p[i].lines[l + 1], "var"),
           pos' = pos + Len(LineTokens(p[i].lines[l + 1])),
           UNCHANGED <<layers, functions, status>>
    PROVE  LineDone(p, i, l)
<1>1. Opened(p, i, l, open, Scope(functions))
  BY Zenon DEF WithinFacts
<1>2. Opened(p, i, l + 1, open', Scope(functions))
  <2>1. Len(p[i].lines) \in Nat /\ DOMAIN p[i].lines = 1 .. Len(p[i].lines)
    BY FuncLines, Zenon
  <2> QED BY <1>1, <2>1, OpenedNext, Zenon
<1>3. ScopeHolds(layers[open.scope + 1], p[i].lines, l) /\ open.scope + 1 = Layers(functions)
  BY Zenon DEF WithinFacts
<1>4. ScopeHolds(layers[Layers(functions)], p[i].lines, l)
  BY <1>3, Zenon
<1>5. ScopeHolds(layers[Layers(functions)], p[i].lines, l + 1)
  BY <1>4, ScopeSame, Zenon
<1>6. layers' = layers /\ functions' = functions /\ status' = status
  OBVIOUS
<1> QED BY <1>2, <1>5, <1>6, Zenon DEF WithinFacts, LineDone

LEMMA NoArgsLine ==
    ASSUME NEW line, ~Has(line, "inst")
    PROVE  LineMatches(line, line)
BY Zenon DEF LineMatches, SettledLine, PlainLine

LEMMA LabelMeans ==
    ASSUME NEW p, NEW lines, NEW l, lines[l] \in LabelLines
    PROVE  LineMeaning(p, lines, l) = <<[label |-> lines[l].label]>> /\ ~Has([label |-> lines[l].label], "inst")
<1>1. Has(lines[l], "label") /\ ~Has(lines[l], "call") /\ ~Has(lines[l], "inst") /\ ~Has(lines[l], "base")
  BY LineFields DEF LabelLines
<1>2. \A w : ~Has([label |-> w], "inst")
  BY DEF Has
<1> QED BY <1>1, <1>2, Zenon DEF LineMeaning

LEMMA CallMeans ==
    ASSUME NEW p, NEW lines, NEW l, lines[l] \in CallLines
    PROVE  /\ LineMeaning(p, lines, l) = <<[call |-> lines[l].call, callee |-> lines[l].callee]>>
           /\ ~Has([call |-> lines[l].call, callee |-> lines[l].callee], "inst")
<1>1. ~Has(lines[l], "label") /\ Has(lines[l], "call") /\ ~Has(lines[l], "inst") /\ ~Has(lines[l], "base")
  BY LineFields DEF CallLines
<1>2. \A w, c : ~Has([call |-> w, callee |-> c], "inst")
  BY DEF Has
<1>3. LineMeaning(p, lines, l) = <<[call |-> lines[l].call, callee |-> lines[l].callee]>>
  BY <1>1, Zenon DEF LineMeaning
<1> QED BY <1>2, <1>3, Zenon

LEMMA LabelDone ==
    ASSUME NEW p, Given(p), NEW i \in 1 .. Len(p), p[i] \in FuncItems,
           NEW l \in Nat, l + 1 \in 1 .. Len(p[i].lines), WithinFacts(p, i, l), Construct,
           NEW line, line = p[i].lines[l + 1], line \in LabelLines, line.label \notin DOMAIN Insts
    PROVE  LineDone(p, i, l) /\ Label
<1>1. pos = PartStart(p, i, l + 2) /\ open # NoFunction
  BY Zenon DEF WithinFacts
<1>2. pos \in Nat /\ ~(pos > Len(tokens)) /\ line \in Lines /\ Stands(pos, LineTokens(line))
  BY <1>1, LinePlace, Zenon
<1>3. Tok(pos).type = "label" /\ ~IsInst(pos)
  BY <1>2, LineBegins, Zenon
<1>4. Label
  BY <1>1, <1>2, <1>3, LineAction, Zenon
<1>5. /\ Len(LineTokens(line)) = 3 /\ LineTokens(line)[2] = Ident(line.label)
      /\ LineTokens(line)[3] = Mark(":")
  BY LabelLine, Zenon DEF LabelLines
<1> DEFINE ts == LineTokens(line)
<1>6. /\ Len(ts) = 3 /\ ts[2] = Ident(line.label) /\ ts[3] = Mark(":") /\ Stands(pos, ts)
  BY <1>2, <1>5
<1> HIDE DEF ts
<1>7. 3 \in Nat /\ 1 \in 0 .. 3 - 1 /\ 2 \in 0 .. 3 - 1 /\ 1 + 1 = 2 /\ 2 + 1 = 3
  OBVIOUS
<1>8. Tok(pos + 1) = MarkedToken(ts[1 + 1]) /\ Tok(pos + 2) = MarkedToken(ts[2 + 1])
  BY <1>2, <1>6, <1>7, StandsAt, Zenon
<1>9. Tok(pos + 1) = MarkedToken(Ident(line.label)) /\ Tok(pos + 2) = MarkedToken(Mark(":"))
  BY <1>6, <1>7, <1>8, Zenon
<1>10. ":" \in Signs
  BY DEF Signs
<1>11. Tok(pos + 1).lit = line.label /\ Is(pos + 1, "Id") /\ Is(pos + 2, ":")
  BY <1>9, <1>10, IdentSeen, MarkSeen, Zenon
<1>12. Tok(pos + 1).type = "Id" /\ Tok(pos + 2).type = ":"
  BY <1>11, Zenon DEF Is
<1>13. /\ AddLine([label |-> line.label]) /\ pos' = pos + 3
       /\ UNCHANGED <<program, tokens, layers, functions, status, parsed, parses>>
  BY <1>2, <1>3, <1>4, <1>11, <1>12, LabelStep, Zenon
<1>14. UNCHANGED <<layers, functions, status>>
  BY <1>13
<1>15. pos' = pos + Len(LineTokens(line))
  BY <1>5, <1>13, Zenon
<1> DEFINE x == [label |-> line.label]
<1>16. LineMeaning(p, p[i].lines, l + 1) = <<x>> /\ ~Has(x, "inst")
  BY LabelMeans, Zenon
<1>17. LineMatches(x, x) /\ AddLine(x)
  BY <1>13, <1>16, NoArgsLine, Zenon
<1>18. ~Has(p[i].lines[l + 1], "var")
  BY LineFields, Zenon DEF LabelLines
<1> HIDE DEF x
<1> QED BY <1>4, <1>14, <1>15, <1>16, <1>17, <1>18, CodeDone, Zenon

LEMMA CallDone ==
    ASSUME NEW p, Given(p), NEW i \in 1 .. Len(p), p[i] \in FuncItems,
           NEW l \in Nat, l + 1 \in 1 .. Len(p[i].lines), WithinFacts(p, i, l), Construct,
           NEW line, line = p[i].lines[l + 1], line \in CallLines
    PROVE  LineDone(p, i, l) /\ Call
<1>1. pos = PartStart(p, i, l + 2) /\ open # NoFunction
  BY Zenon DEF WithinFacts
<1>2. pos \in Nat /\ ~(pos > Len(tokens)) /\ line \in Lines /\ Stands(pos, LineTokens(line))
  BY <1>1, LinePlace, Zenon
<1>3. Tok(pos).type = "Inst" /\ IsInst(pos) /\ Tok(pos).lit = line.call
  BY <1>2, LineBegins, Zenon
<1>4. Op \in {"fcall", "ncall"}
  <2>1. line.call \in {"fcall", "ncall"}
    BY LineFields, Zenon DEF CallLines
  <2>2. Insts[line.call].op = line.call
    BY <2>1, AmasmConstants, Zenon
  <2> QED BY <1>3, <2>1, <2>2, Zenon DEF Op
<1>5. Call
  BY <1>1, <1>2, <1>3, <1>4, LineAction, Zenon
<1>6. Len(tokens) \in Nat
  BY GivenStands, Zenon
<1>7. /\ AddLine([call |-> line.call, callee |-> line.callee])
      /\ pos' = pos + Len(LineTokens(line))
      /\ UNCHANGED <<program, tokens, layers, functions, status, parsed, parses>>
  BY <1>2, <1>5, <1>6, CallStep, Zenon DEF CallLines
<1>14. UNCHANGED <<layers, functions, status>>
  BY <1>7
<1> DEFINE x == [call |-> line.call, callee |-> line.callee]
<1>16. LineMeaning(p, p[i].lines, l + 1) = <<x>> /\ ~Has(x, "inst")
  BY CallMeans, Zenon
<1>17. LineMatches(x, x) /\ AddLine(x)
  BY <1>7, <1>16, NoArgsLine, Zenon
<1>18. ~Has(p[i].lines[l + 1], "var")
  BY LineFields, Zenon DEF CallLines
<1> HIDE DEF x
<1> QED BY <1>5, <1>7, <1>14, <1>16, <1>17, <1>18, CodeDone, Zenon

-----------------------------------------------------------------------------
(* Declarations. *)

LEMMA PlacedMeans ==
    ASSUME NEW p, NEW lines, NEW l, lines[l] \in PlacedLines
    PROVE  LineMeaning(p, lines, l) = <<>> /\ Has(lines[l], "var") /\ Has(lines[l], "base")
<1>1. /\ ~Has(lines[l], "label") /\ ~Has(lines[l], "call") /\ ~Has(lines[l], "inst")
      /\ Has(lines[l], "base") /\ Has(lines[l], "var")
  BY LineFields, Zenon DEF PlacedLines
<1> QED BY <1>1, Zenon DEF LineMeaning

BareCode(p, type) == [inst |-> CHOOSE i \in PushOf(SizeOf(p, type)) : TRUE, args |-> <<>>]

LEMMA BareMeans ==
    ASSUME NEW p, NEW lines, NEW l, lines[l] \in BareLines
    PROVE  /\ LineMeaning(p, lines, l) = <<BareCode(p, lines[l].type)>>
           /\ Has(lines[l], "var") /\ ~Has(lines[l], "base")
<1>1. /\ ~Has(lines[l], "label") /\ ~Has(lines[l], "call") /\ ~Has(lines[l], "inst")
      /\ ~Has(lines[l], "base") /\ Has(lines[l], "var")
  BY LineFields, Zenon DEF BareLines
<1> QED BY <1>1, Zenon DEF LineMeaning, BareCode

LEMMA BareMatches ==
    ASSUME NEW p, NEW type
    PROVE  LineMatches(BareCode(p, type), BareCode(p, type))
<1> DEFINE i == CHOOSE i \in PushOf(SizeOf(p, type)) : TRUE
<1>1. BareCode(p, type) = [inst |-> i, args |-> <<>>]
  BY DEF BareCode
<1> HIDE DEF i
<1> DEFINE x == [inst |-> i, args |-> <<>>]
<1>2. x.args = <<>>
  OBVIOUS
<1>3. DOMAIN <<>> = {}
  OBVIOUS
<1>4. SettledLine(x)
  BY <1>2, <1>3, Zenon DEF SettledLine
<1>5. [n \in DOMAIN x.args |-> PlainArg(x.args[n])] = <<>>
  <2> DEFINE f == [n \in DOMAIN x.args |-> PlainArg(x.args[n])]
  <2>1. DOMAIN f = {}
    BY <1>2, <1>3, Zenon
  <2>2. f = [n \in {} |-> PlainArg(x.args[n])]
    BY <1>2, <1>3, Zenon
  <2>3. [n \in {} |-> PlainArg(x.args[n])] = <<>>
    OBVIOUS
  <2> QED BY <2>2, <2>3, Zenon
<1>6. Has(x, "inst")
  BY DEF Has
<1> DEFINE v == [n \in DOMAIN x.args |-> PlainArg(x.args[n])]
<1>7. PlainLine(x) = [x EXCEPT !.args = v]
  BY <1>6 DEF PlainLine
<1>8. v = <<>>
  BY <1>5
<1> HIDE DEF v
<1>9. [x EXCEPT !.args = v] = x
  BY <1>8
<1> QED BY <1>1, <1>4, <1>7, <1>9, Zenon DEF LineMatches

LEMMA VarParts ==
    ASSUME NEW type, NEW address
    PROVE  Var(type, address).kind = "var" /\ Var(type, address).address = address
BY DEF Var

\* The layers of the parser when it has passed a declaration.
LEMMA Declared ==
    ASSUME NEW p, NEW i, NEW l \in Nat, WithinFacts(p, i, l),
           NEW line, line = p[i].lines[l + 1], Has(line, "var"), line.var \notin DOMAIN Registers,
           NEW base, NEW diff, layers' = WithVar(line.var, line.type, base, diff),
           Has(line, "base") => base = line.base /\ diff = line.diff
    PROVE  /\ Indexed(layers', Layers(functions))
           /\ GlobalsKept(layers', p, i - 1) /\ ScopesClean(layers', Layers(functions))
           /\ ScopeHolds(layers'[Layers(functions)], p[i].lines, l + 1)
<1> DEFINE element == Var(layers[1][line.type], Address(base, 0, diff, "RelativeWithDiff"))
           id == open.scope
           m == Layers(functions)
<1>1. layers' = Add(layers, id, line.var, element)
  BY Zenon DEF WithVar
<1>2. /\ m \in Nat /\ id + 1 = m /\ id + 1 \in 2 .. m /\ Indexed(layers, m)
      /\ GlobalsKept(layers, p, i - 1) /\ ScopesClean(layers, m)
      /\ ScopeHolds(layers[id + 1], p[i].lines, l)
  BY Zenon DEF WithinFacts
<1>3. element.kind = "var" /\ element.address = Address(base, 0, diff, "RelativeWithDiff")
  BY VarParts, Zenon
<1> DEFINE new == layers'
           var == line.var
<1>4. new = Add(layers, id, var, element) /\ var \notin DOMAIN Registers
  BY <1>1
<1> HIDE DEF element, id, m, new, var
<1>5. /\ Indexed(new, m) /\ GlobalsKept(new, p, i - 1) /\ ScopesClean(new, m)
      /\ new[id + 1] = Added(layers[id + 1], var, element)
  <2> DEFINE j == i - 1
  <2>1. GlobalsKept(layers, p, j) /\ m \in Nat /\ Indexed(layers, m) /\ ScopesClean(layers, m)
        /\ id + 1 \in 2 .. m /\ new = Add(layers, id, var, element) /\ var \notin DOMAIN Registers
    BY <1>2, <1>4, Zenon
  <2> HIDE DEF j
  <2>2. /\ Indexed(new, m) /\ GlobalsKept(new, p, j) /\ ScopesClean(new, m)
        /\ new[id + 1] = Added(layers[id + 1], var, element)
    BY <2>1, VarAdded
  <2> QED BY <2>2, Zenon DEF j
<1> DEFINE lines == p[i].lines
           layer == layers[id + 1]
           top == new[id + 1]
<1>6. /\ ScopeHolds(layer, lines, l) /\ Has(lines[l + 1], "var") /\ lines[l + 1].var = var
      /\ top = Added(layer, lines[l + 1].var, element)
  BY <1>2, <1>5 DEF var
<1>7. Has(lines[l + 1], "base") =>
         /\ element.kind = "var"
         /\ element.address = Address(lines[l + 1].base, 0, lines[l + 1].diff, "RelativeWithDiff")
  BY <1>3, Zenon
<1> HIDE DEF lines, layer, top
<1>8. ScopeHolds(top, lines, l + 1)
  BY <1>6, <1>7, ScopeNext, Zenon
<1> QED BY <1>2, <1>5, <1>8, Zenon DEF new, lines, top, m

\* What is known of the type and the name of a variable.
LEMMA VarKnown ==
    ASSUME NEW p, NEW n, ProperProgram(p, n), NEW i \in 1 .. n, NEW l, WithinFacts(p, i, l),
           NEW k \in DOMAIN p[i].lines, NEW line, line = p[i].lines[k], Has(line, "var")
    PROVE  /\ line.var \notin DOMAIN Insts /\ line.var \notin DOMAIN Registers
           /\ line.type \notin DOMAIN Insts /\ KnowsType(line.type, SizeOf(p, line.type))
           /\ Has(line, "base") => line.base \in DOMAIN Registers /\ line.base \notin DOMAIN Insts
<1>1. Has(p[i], "func") /\ GlobalsKept(layers, p, i - 1)
  BY Zenon DEF WithinFacts
<1>2. /\ line.var \notin Reserved /\ line.type \in KnownTypes(p, i)
      /\ Has(line, "base") => line.base \in DOMAIN Registers
  BY <1>1, VarFormed, Zenon
<1>3. /\ line.type \in DOMAIN layers[1] /\ layers[1][line.type].kind = "type"
      /\ layers[1][line.type].size = SizeOf(p, line.type) /\ line.type \notin DOMAIN Insts
  BY <1>1, <1>2, TypeSees, Zenon
<1>4. line.var \notin DOMAIN Insts /\ line.var \notin DOMAIN Registers
  BY <1>2, Zenon DEF Reserved
<1>5. DOMAIN Insts \cap (DOMAIN Builtin \cup DOMAIN Registers \cup Signs) = {}
  BY AmasmConstants, Zenon
<1>6. \A r \in DOMAIN Registers : r \notin DOMAIN Insts
  BY <1>5, Zenon
<1> QED BY <1>2, <1>3, <1>4, <1>6, Zenon DEF KnowsType

LEMMA PlacedDone ==
    ASSUME NEW p, NEW n, ProperProgram(p, n), Given(p), NEW i \in 1 .. n, p[i] \in FuncItems,
           NEW l \in Nat, l + 1 \in 1 .. Len(p[i].lines), WithinFacts(p, i, l), Construct,
           NEW line, line = p[i].lines[l + 1], line \in PlacedLines
    PROVE  LineDone(p, i, l)
<1>0. n = Len(p) /\ Len(p[i].lines) \in Nat /\ DOMAIN p[i].lines = 1 .. Len(p[i].lines)
  BY FuncLines, Zenon DEF ProperProgram
<1>1. pos = PartStart(p, i, l + 2) /\ open # NoFunction
  BY Zenon DEF WithinFacts
<1>2. pos \in Nat /\ ~(pos > Len(tokens)) /\ line \in Lines /\ Stands(pos, LineTokens(line))
  BY <1>0, <1>1, LinePlace, Zenon
<1>3. Tok(pos).type = "var" /\ ~IsInst(pos)
  BY <1>2, LineBegins, Zenon
<1>4. DeclareVariable
  BY <1>1, <1>2, <1>3, LineAction, Zenon
<1>5. LineMeaning(p, p[i].lines, l + 1) = <<>> /\ Has(line, "var") /\ Has(line, "base")
  BY PlacedMeans, Zenon
<1>6. /\ line.var \notin DOMAIN Insts /\ line.var \notin DOMAIN Registers
      /\ line.type \notin DOMAIN Insts /\ KnowsType(line.type, SizeOf(p, line.type))
      /\ line.base \notin DOMAIN Insts
  BY <1>0, <1>5, VarKnown, Zenon
<1>7. SeesVar(pos, line.var, line.type) /\ SeesPlace(pos, line.base, line.diff)
  BY <1>2, <1>6, SeenPlaced, Zenon DEF PlacedLines
<1>8. /\ layers' = WithVar(line.var, line.type, line.base, line.diff)
      /\ pos' = pos + 13
      /\ UNCHANGED <<program, tokens, functions, open, status, parsed, parses>>
  BY <1>4, <1>6, <1>7, PlacedStep, Zenon
<1>9. pos' = pos + Len(LineTokens(line))
  BY <1>8, PlacedLine, Zenon DEF PlacedLines
<1>10. /\ Indexed(layers', Layers(functions))
       /\ GlobalsKept(layers', p, i - 1) /\ ScopesClean(layers', Layers(functions))
       /\ ScopeHolds(layers'[Layers(functions)], p[i].lines, l + 1)
  BY <1>5, <1>6, <1>8, Declared, Zenon
<1>11. functions' = functions /\ status' = status /\ open' = open
  BY <1>8
<1>12. Opened(p, i, l, open, Scope(functions))
  BY Zenon DEF WithinFacts
<1>13. Opened(p, i, l + 1, open, Scope(functions))
  BY <1>0, <1>5, <1>12, OpenedSame, Zenon
<1> QED BY <1>9, <1>10, <1>11, <1>13, Zenon DEF LineDone

LEMMA BareDone ==
    ASSUME NEW p, NEW n, ProperProgram(p, n), Given(p), NEW i \in 1 .. n, p[i] \in FuncItems,
           NEW l \in Nat, l + 1 \in 1 .. Len(p[i].lines), WithinFacts(p, i, l), Construct,
           NEW line, line = p[i].lines[l + 1], line \in BareLines,
           l + 1 < Len(p[i].lines) \/ i < n, PushOf(SizeOf(p, line.type)) # {}
    PROVE  LineDone(p, i, l)
<1>0. n = Len(p) /\ Len(p[i].lines) \in Nat /\ DOMAIN p[i].lines = 1 .. Len(p[i].lines)
  BY FuncLines, Zenon DEF ProperProgram
<1>1. pos = PartStart(p, i, l + 2) /\ open # NoFunction
  BY Zenon DEF WithinFacts
<1>2. pos \in Nat /\ ~(pos > Len(tokens)) /\ line \in Lines /\ Stands(pos, LineTokens(line))
  BY <1>0, <1>1, LinePlace, Zenon
<1>3. Tok(pos).type = "var" /\ ~IsInst(pos)
  BY <1>2, LineBegins, Zenon
<1>4. DeclareVariable
  BY <1>1, <1>2, <1>3, LineAction, Zenon
<1>5. /\ LineMeaning(p, p[i].lines, l + 1) = <<BareCode(p, line.type)>>
      /\ Has(line, "var") /\ ~Has(line, "base")
  BY BareMeans, Zenon
<1>6. /\ line.var \notin DOMAIN Insts /\ line.var \notin DOMAIN Registers
      /\ line.type \notin DOMAIN Insts /\ KnowsType(line.type, SizeOf(p, line.type))
  BY <1>0, <1>5, VarKnown, Zenon
<1>7. SeesVar(pos, line.var, line.type) /\ Is(pos + 5, ";")
  BY <1>2, <1>6, SeenBare, Zenon DEF BareLines
<1>w. Len(LineTokens(line)) = 6
  BY BareLine, Zenon DEF BareLines
<1>r. ~(pos + 8 > Len(tokens))
  <2>1. 6 \in Nat
    OBVIOUS
  <2>2. ~((pos + 6) + 2 > Len(tokens))
    BY <1>0, <1>1, <1>w, <2>1, Behind, Zenon
  <2>3. Len(tokens) \in Nat
    BY GivenStands, Zenon
  <2> QED BY <1>2, <2>2, <2>3
<1> DEFINE size == SizeOf(p, line.type)
<1>8. /\ \E base, diff : layers' = WithVar(line.var, line.type, base, diff)
      /\ AddLine([inst |-> CHOOSE j \in PushOf(size) : TRUE, args |-> <<>>])
      /\ pos' = pos + 6
      /\ UNCHANGED <<program, tokens, functions, status, parsed, parses>>
  BY <1>4, <1>6, <1>7, <1>r, BareStep, Zenon
<1>9. pos' = pos + Len(LineTokens(line))
  BY <1>8, <1>w, Zenon
<1>10. /\ Indexed(layers', Layers(functions))
       /\ GlobalsKept(layers', p, i - 1) /\ ScopesClean(layers', Layers(functions))
       /\ ScopeHolds(layers'[Layers(functions)], p[i].lines, l + 1)
  <2>1. PICK base, diff : layers' = WithVar(line.var, line.type, base, diff)
    BY <1>8, Zenon
  <2> QED BY <1>5, <1>6, <2>1, Declared, Zenon
<1>11. functions' = functions /\ status' = status
  BY <1>8
<1>12. Opened(p, i, l, open, Scope(functions))
  BY Zenon DEF WithinFacts
<1>13. AddLine(BareCode(p, line.type)) /\ LineMatches(BareCode(p, line.type), BareCode(p, line.type))
  BY <1>8, BareMatches, Zenon DEF BareCode
<1>14. Opened(p, i, l + 1, open', Scope(functions))
  BY <1>0, <1>5, <1>12, <1>13, OpenedNext, Zenon
<1> QED BY <1>9, <1>10, <1>11, <1>14, Zenon DEF LineDone

-----------------------------------------------------------------------------
(* Instructions. *)

Places(p, lines, l, args) == [n \in DOMAIN args |-> Place(p, lines, l, args[n])]
Code(inst, args) == [inst |-> inst, args |-> args]

LEMMA InstMeans ==
    ASSUME NEW p, NEW lines, NEW l, lines[l] \in InstLines
    PROVE  /\ LineMeaning(p, lines, l) = <<Code(lines[l].inst, Places(p, lines, l, lines[l].args))>>
           /\ ~Has(lines[l], "var") /\ Has(lines[l], "inst") /\ lines[l].args \in Seq(Operands)
<1>1. /\ ~Has(lines[l], "label") /\ ~Has(lines[l], "call") /\ Has(lines[l], "inst")
      /\ ~Has(lines[l], "base") /\ ~Has(lines[l], "var") /\ lines[l].args \in Seq(Operands)
  BY LineFields, Zenon DEF InstLines
<1> QED BY <1>1, Zenon DEF LineMeaning, Code, Places

LEMMA CodeParts ==
    ASSUME NEW w, NEW args
    PROVE  /\ Code(w, args).args = args /\ Has(Code(w, args), "inst")
           /\ \A other : [Code(w, args) EXCEPT !.args = other] = Code(w, other)
BY DEF Code, Has

LEMMA InstMatches ==
    ASSUME NEW w, NEW args, NEW m, NEW places, Taken(args, m, places),
           places = [k \in 1 .. m |-> places[k]]
    PROVE  LineMatches(Code(w, args), Code(w, places))
<1> DEFINE x == Code(w, args)
           v == [n \in DOMAIN x.args |-> PlainArg(x.args[n])]
<1>1. x.args = args /\ Has(x, "inst") /\ \A other : [x EXCEPT !.args = other] = Code(w, other)
  BY CodeParts, Zenon
<1>2. Indexed(args, m) /\ \A k \in 1 .. m : Settled(args[k]) /\ PlainArg(args[k]) = places[k]
  BY Zenon DEF Taken
<1>3. DOMAIN args = 1 .. m
  BY <1>2, IndexedSeq, Zenon
<1>4. SettledLine(x)
  BY <1>1, <1>2, <1>3, Zenon DEF SettledLine
<1>5. v = [k \in 1 .. m |-> PlainArg(args[k])]
  BY <1>1, <1>3, Zenon
<1>6. [k \in 1 .. m |-> PlainArg(args[k])] = [k \in 1 .. m |-> places[k]]
  BY <1>2, Zenon
<1>7. v = places
  BY <1>5, <1>6, Zenon
<1>8. PlainLine(x) = [x EXCEPT !.args = v]
  BY <1>1 DEF PlainLine
<1> HIDE DEF v, x
<1>9. PlainLine(x) = Code(w, places)
  BY <1>1, <1>7, <1>8, Zenon
<1> QED BY <1>4, <1>9, Zenon DEF LineMatches, x

LEMMA NumberFields ==
    \A a \in [num : Nat] : ~Has(a, "name")
BY DEF Has

LEMMA NamedOperand ==
    ASSUME NEW a \in Operands, Has(a, "name")
    PROVE  ~Has(a, "num")
<1>1. a \notin [num : Nat]
  BY NumberFields, Zenon
<1>2. a \in [name : STRING] \/ a \in [name : STRING, field : STRING] \/ a \in [name : STRING, diff : Int]
  BY <1>1, Zenon DEF Operands
<1> QED BY <1>2, OperandFields, Zenon

LEMMA ArgsAreReadable ==
    ASSUME NEW p, NEW n, ProperProgram(p, n), NEW i \in 1 .. n, p[i] \in FuncItems,
           NEW l \in Nat, l + 1 \in 1 .. Len(p[i].lines), WithinFacts(p, i, l),
           NEW line, line = p[i].lines[l + 1], line \in InstLines
    PROVE  ArgsReadable(p[i].lines, l + 1, line, Insts[line.inst].max)
<1> DEFINE lines == p[i].lines
<1>0. Has(p[i], "func") /\ DOMAIN p[i].lines = 1 .. Len(p[i].lines)
  BY FuncLines, Zenon DEF WithinFacts
<1>1. LineFormed(p, i, l + 1) /\ SupportedLine(p, i, l + 1)
  BY <1>0, FuncFormed, Zenon
<1>2. Has(line, "inst") /\ line.args \in Seq(Operands)
  BY InstMeans, Zenon
<1>3. DOMAIN line.args = 1 .. Len(line.args) /\ \A k \in 1 .. Len(line.args) : line.args[k] \in Operands
  <2> DEFINE s == line.args
  <2>1. s \in Seq(Operands)
    BY <1>2
  <2> HIDE DEF s
  <2>2. DOMAIN s = 1 .. Len(s) /\ \A k \in 1 .. Len(s) : s[k] \in Operands
    BY <2>1
  <2> QED BY <2>2 DEF s
<1>4. \A k \in DOMAIN line.args : OperandFormed(p, lines, l + 1, line.args[k])
  BY <1>1, LineFormedIs, Zenon
<1>5. \A k \in DOMAIN line.args : SupportedOperand(lines, l + 1, k)
  BY <1>1, <1>2, Zenon DEF SupportedLine
<1> SUFFICES ASSUME NEW k \in 1 .. Len(line.args)
             PROVE  /\ ~Has(line.args[k], "field")
                    /\ Has(line.args[k], "name") => Known(lines, l + 1, line.args[k].name)
                    /\ Has(line.args[k], "diff") => line.args[k].diff = 0 \/ k = Insts[line.inst].max
  BY Zenon DEF ArgsReadable
<1> DEFINE a == line.args[k]
<1>6. OperandFormed(p, lines, l + 1, a) /\ SupportedOperand(lines, l + 1, k) /\ a \in Operands
  BY <1>3, <1>4, <1>5, Zenon
<1>7. /\ ~Has(a, "field")
      /\ Has(a, "diff") => a.diff = 0 \/ k = Insts[line.inst].max
      /\ LET d == IF Has(a, "name") THEN DeclaredAt(lines, l + 1, a.name) ELSE 0
         IN d # 0 => Has(lines[d], "base") /\ lines[d].diff # 0
  BY <1>6, Zenon DEF SupportedOperand
<1>8. ASSUME Has(a, "name") PROVE Known(lines, l + 1, a.name)
  <2> DEFINE d == DeclaredAt(lines, l + 1, a.name)
             name == a.name
  <2>1. ~Has(a, "num")
    BY <1>6, <1>8, NamedOperand, Zenon
  <2>2. d # 0 \/ name \in DOMAIN Registers
    BY <1>6, <1>7, <2>1, Zenon DEF OperandFormed
  <2>3. d # 0 => Has(lines[d], "base") /\ lines[d].diff # 0
    BY <1>7, <1>8, Zenon
  <2>4. d = DeclaredAt(lines, l + 1, name)
    OBVIOUS
  <2>5. l + 1 \in DOMAIN lines
    BY <1>0
  <2> DEFINE m == Layers(functions)
  <2>6. /\ GlobalsKept(layers, p, i - 1) /\ ScopesClean(layers, m) /\ open.scope + 1 \in 2 .. m
        /\ ScopeHolds(layers[open.scope + 1], lines, l)
    BY Zenon DEF WithinFacts
  <2> HIDE DEF d, name, m
  <2>7. Known(lines, l + 1, name)
    BY <1>0, <2>2, <2>3, <2>4, <2>5, <2>6, KnownName, Zenon
  <2> QED BY <2>7 DEF name
<1> QED BY <1>7, <1>8, Zenon

LEMMA InstDone ==
    ASSUME NEW p, NEW n, ProperProgram(p, n), Given(p), NEW i \in 1 .. n, p[i] \in FuncItems,
           NEW l \in Nat, l + 1 \in 1 .. Len(p[i].lines), WithinFacts(p, i, l), Construct,
           NEW line, line = p[i].lines[l + 1], line \in InstLines
    PROVE  LineDone(p, i, l)
<1>0. n = Len(p) /\ Has(p[i], "func") /\ DOMAIN p[i].lines = 1 .. Len(p[i].lines)
  BY FuncLines, Zenon DEF WithinFacts, ProperProgram
<1>1. pos = PartStart(p, i, l + 2) /\ open # NoFunction
  BY Zenon DEF WithinFacts
<1>2. pos \in Nat /\ ~(pos > Len(tokens)) /\ line \in Lines /\ Stands(pos, LineTokens(line))
  BY <1>0, <1>1, LinePlace, Zenon
<1>3. LineFormed(p, i, l + 1)
  BY <1>0, FuncFormed, Zenon
<1>4. /\ line.inst \in DOMAIN Insts /\ Insts[line.inst].op \notin {"fcall", "ncall"}
      /\ Len(line.args) \in Insts[line.inst].min .. Insts[line.inst].max
  BY <1>3, LineFormedIs, Zenon
<1>5. Tok(pos).type = "Inst" /\ IsInst(pos) /\ Tok(pos).lit = line.inst
  BY <1>2, <1>4, LineBegins, Zenon
<1>6. Op \notin {"fcall", "ncall"}
  BY <1>4, <1>5, Zenon DEF Op
<1>7. Instruction
  BY <1>1, <1>2, <1>5, <1>6, LineAction, Zenon
<1> DEFINE places == Places(p, p[i].lines, l + 1, line.args)
           max == Insts[line.inst].max
<1>8. Len(tokens) \in Nat
  BY GivenStands, Zenon
<1>9. /\ LineMeaning(p, p[i].lines, l + 1) = <<Code(line.inst, places)>>
      /\ ~Has(line, "var") /\ line.args \in Seq(Operands)
  BY InstMeans, Zenon
<1>10. DOMAIN line.args = 1 .. Len(line.args)
  <2> DEFINE s == line.args
  <2>1. s \in Seq(Operands)
    BY <1>9
  <2> HIDE DEF s
  <2>2. DOMAIN s = 1 .. Len(s)
    BY <2>1
  <2> QED BY <2>2 DEF s
<1>11. /\ \A k \in 1 .. Len(line.args) : places[k] = Place(p, p[i].lines, l + 1, line.args[k])
       /\ places = [k \in 1 .. Len(line.args) |-> places[k]]
  <2>1. places = [k \in 1 .. Len(line.args) |-> Place(p, p[i].lines, l + 1, line.args[k])]
    BY <1>10, Zenon DEF Places
  <2>2. \A k \in 1 .. Len(line.args) : places[k] = Place(p, p[i].lines, l + 1, line.args[k])
    BY <1>10, Zenon DEF Places
  <2> QED BY <2>1, <2>2, Zenon
<1>12. Len(line.args) <= max
  <2>1. max \in Nat /\ Insts[line.inst].min \in 0 .. max
    BY <1>4, AmasmConstants, Zenon
  <2> DEFINE a == Len(line.args)
             b == Insts[line.inst].min
  <2>2. a \in b .. max
    BY <1>4
  <2> HIDE DEF a, b, max
  <2>3. a <= max
    BY <2>1, <2>2 DEF b
  <2> QED BY <2>3 DEF a
<1> HIDE DEF places
<1>13. ArgsReadable(p[i].lines, l + 1, line, max)
  BY ArgsAreReadable, Zenon
<1>14. LineReads(line, max, places)
  <2> DEFINE lines == p[i].lines
             k == l + 1
  <2>1. /\ ArgsReadable(lines, k, line, max)
        /\ PlacesAre(places, p, lines, k, line)
    BY <1>11, <1>13, Zenon DEF PlacesAre
  <2>2. line \in [inst : STRING, args : Seq(Operands)]
    BY Zenon DEF InstLines
  <2> HIDE DEF lines, k, max
  <2> QED BY <1>2, <1>8, <2>1, <2>2, ArgsRead, Zenon
<1>15. /\ \E args : /\ AddLine([inst |-> line.inst, args |-> args])
                    /\ Taken(args, Len(line.args), places)
       /\ pos' = pos + Len(LineTokens(line))
       /\ UNCHANGED <<program, tokens, layers, functions, status, parsed, parses>>
  BY <1>2, <1>4, <1>7, <1>8, <1>12, <1>14, InstructionStep, Zenon DEF InstLines
<1>16. PICK args : AddLine(Code(line.inst, args)) /\ Taken(args, Len(line.args), places)
  BY <1>15, Zenon DEF Code
<1>17. LineMatches(Code(line.inst, args), Code(line.inst, places))
  BY <1>11, <1>16, InstMatches, Zenon
<1>18. UNCHANGED <<layers, functions, status>>
  BY <1>15
<1> DEFINE x == Code(line.inst, args)
           y == Code(line.inst, places)
<1>19. /\ AddLine(x) /\ LineMatches(x, y) /\ LineMeaning(p, p[i].lines, l + 1) = <<y>>
       /\ ~Has(p[i].lines[l + 1], "var") /\ pos' = pos + Len(LineTokens(p[i].lines[l + 1]))
  BY <1>9, <1>15, <1>16, <1>17, Zenon
<1> HIDE DEF x, y
<1> QED BY <1>0, <1>18, <1>19, CodeDone, Zenon

-----------------------------------------------------------------------------
(* Any line. *)

LEMMA LineStep ==
    ASSUME NEW p, NEW n, ProperProgram(p, n), Given(p), NEW i \in 1 .. n,
           NEW l \in Nat, l + 1 \in 1 .. Len(p[i].lines), Construct,
           Within(p, i, l, pos, layers, functions, open)
    PROVE  LineDone(p, i, l) /\ WithinFacts(p, i, l)
<1> DEFINE line == p[i].lines[l + 1]
<1>1. WithinFacts(p, i, l)
  BY WithinIs, Zenon
<1>2. n = Len(p) /\ Has(p[i], "func") /\ p[i] \in FuncItems
  <2>1. n = Len(p) /\ Has(p[i], "func")
    BY <1>1, Zenon DEF WithinFacts, ProperProgram
  <2> QED BY <2>1, FuncAt, Zenon
<1>3. DOMAIN p[i].lines = 1 .. Len(p[i].lines) /\ line \in Lines /\ Len(p[i].lines) \in Nat
  BY <1>2, FuncLines, Zenon
<1>4. LineFormed(p, i, l + 1) /\ SupportedLine(p, i, l + 1)
  BY <1>2, <1>3, FuncFormed, Zenon
<1>5. CASE line \in LabelLines
  <2>1. line.label \notin DOMAIN Insts
    <3>1. line.label \notin Reserved
      BY <1>4, <1>5, LineFormedIs, Zenon
    <3> QED BY <3>1, Zenon DEF Reserved
  <2> QED BY <1>1, <1>2, <1>5, <2>1, LabelDone, Zenon
<1>6. CASE line \in CallLines
  BY <1>1, <1>2, <1>6, CallDone, Zenon
<1>7. CASE line \in InstLines
  BY <1>1, <1>2, <1>7, InstDone, Zenon
<1>8. CASE line \in PlacedLines
  BY <1>1, <1>2, <1>8, PlacedDone, Zenon
<1>9. CASE line \in BareLines
  <2>1. PushOf(SizeOf(p, line.type)) # {}
    BY <1>4, <1>9, LineFormedIs, Zenon
  <2>2. Has(line, "var") /\ ~Has(line, "base")
    BY <1>9, BareMeans, Zenon
  <2>3. l + 1 < Len(p[i].lines) \/ i < n
    BY <1>2, <1>4, <2>2, Zenon DEF SupportedLine
  <2> QED BY <1>1, <1>2, <1>9, <2>1, <2>3, BareDone, Zenon
<1> QED BY <1>1, <1>3, <1>5, <1>6, <1>7, <1>8, <1>9, LineKinds, Zenon

-----------------------------------------------------------------------------
(* Items. *)

\* What is known of the parser between two items.
BetweenFacts(p, i) ==
    /\ Len(functions) \in Nat /\ Scope(functions) \in Nat /\ 1 <= Scope(functions)
    /\ open = NoFunction /\ pos = 1 + Before(p, i)
    /\ Indexed(layers, Scope(functions))
    /\ GlobalsKept(layers, p, i) /\ ScopesClean(layers, Scope(functions))
    /\ Handed(p, i, functions)

LEMMA BetweenIs ==
    ASSUME NEW p, NEW i, Between(p, i, pos, layers, functions, open)
    PROVE  BetweenFacts(p, i)
<1> DEFINE k == Len(functions)
<1>1. /\ open = NoFunction /\ pos = 1 + Before(p, i) /\ Indexed(layers, k + 1)
      /\ GlobalsKept(layers, p, i) /\ ScopesClean(layers, k + 1) /\ Handed(p, i, functions)
  BY Zenon DEF Between
<1>2. k \in Nat
  <2>1. HandedAt(Joins(Meanings(p))[i], functions)
    BY <1>1, HandedIs, Zenon
  <2>2. Indexed(functions, Len(Joins(Meanings(p))[i]))
    BY <2>1, Zenon DEF HandedAt
  <2> QED BY <2>2, IndexedSeq, Zenon
<1> HIDE DEF k
<1>3. k + 1 \in Nat /\ 1 <= k + 1
  BY <1>2
<1> QED BY <1>1, <1>2, <1>3, Zenon DEF BetweenFacts, Scope, k

LEMMA StructFresh ==
    ASSUME NEW p, NEW n, ProperProgram(p, n), NEW i \in Nat, i + 1 \in 1 .. n, Has(p[i + 1], "struct"),
           NEW ls, GlobalsKept(ls, p, i)
    PROVE  p[i + 1].struct \notin DOMAIN ls[1]
<1> DEFINE j == i + 1
           name == p[j].struct
<1>1. j \in 1 .. n /\ j - 1 = i /\ Has(p[j], "struct")
  OBVIOUS
<1> HIDE DEF j
<1>2. /\ name \notin Reserved
      /\ \A k \in 1 .. n : Has(p[k], "func") => p[k].func # name
      /\ \A k \in 1 .. j - 1 : Has(p[k], "struct") => p[k].struct # name
  BY <1>1, StructFormed, Zenon
<1> HIDE DEF name
<1>3. name \notin DOMAIN Globals
  <2>1. name \notin DOMAIN Builtin /\ name \notin DOMAIN Registers
    BY <1>2, Zenon DEF Reserved
  <2> QED BY <2>1, Zenon DEF Globals
<1>4. SUFFICES ASSUME name \in DOMAIN ls[1] PROVE FALSE
  BY Zenon DEF name, j
<1>5. \E k \in 1 .. i : \/ Has(p[k], "struct") /\ name = p[k].struct
                        \/ Has(p[k], "func") /\ name = p[k].func
  BY <1>3, <1>4, Zenon DEF GlobalsKept
<1>6. \A k \in 1 .. i : k \in 1 .. n
  <2>1. n \in Nat
    BY Zenon DEF ProperProgram
  <2> QED BY <1>1, <2>1
<1> QED BY <1>1, <1>2, <1>5, <1>6, Zenon

LEMMA FieldsSeen ==
    ASSUME NEW p, NEW n, ProperProgram(p, n), NEW i \in 1 .. n, Has(p[i], "struct"),
           GlobalsKept(layers, p, i - 1)
    PROVE  /\ FieldsKnown(p[i]) /\ p[i].struct \notin DOMAIN Insts
           /\ \A k \in 1 .. Len(p[i].fields) : p[i].fields[k].name \notin DOMAIN Insts
                                               /\ p[i].fields[k].type \notin DOMAIN Insts
<1> DEFINE it == p[i]
<1>1. /\ it \in StructItems /\ it.struct \notin Reserved
      /\ \A f, g \in DOMAIN it.fields : f # g => it.fields[f].name # it.fields[g].name
      /\ \A f \in DOMAIN it.fields :
            it.fields[f].name \notin Reserved /\ it.fields[f].type \in DOMAIN Builtin
  BY StructFormed, Zenon
<1>2. Len(it.fields) \in Nat /\ DOMAIN it.fields = 1 .. Len(it.fields)
  BY <1>1, FieldLines, Zenon
<1>3. ASSUME NEW k \in 1 .. Len(it.fields)
      PROVE  /\ it.fields[k].name \notin DOMAIN Insts /\ it.fields[k].type \notin DOMAIN Insts
             /\ KnowsType(it.fields[k].type, Builtin[it.fields[k].type])
  <2> DEFINE t == it.fields[k].type
  <2>1. t \in DOMAIN Builtin /\ it.fields[k].name \notin Reserved
    BY <1>1, <1>2, Zenon
  <2>2. t \in KnownTypes(p, i)
    BY <2>1, Zenon DEF KnownTypes
  <2> HIDE DEF t
  <2>3. /\ t \in DOMAIN layers[1] /\ layers[1][t].kind = "type"
        /\ layers[1][t].size = SizeOf(p, t) /\ t \notin DOMAIN Insts
    BY <2>2, TypeSees, Zenon
  <2>4. SizeOf(p, t) = Builtin[t]
    BY <2>1, Zenon DEF SizeOf
  <2>5. it.fields[k].name \notin DOMAIN Insts
    BY <2>1, Zenon DEF Reserved
  <2>6. KnowsType(t, Builtin[t])
    BY <2>3, <2>4, Zenon DEF KnowsType
  <2> QED BY <2>3, <2>5, <2>6, Zenon DEF t
<1>4. ASSUME NEW k \in 1 .. Len(it.fields), NEW j \in 1 .. k - 1
      PROVE  it.fields[j].name # it.fields[k].name
  <2>1. j \in DOMAIN it.fields /\ k \in DOMAIN it.fields /\ j # k
    BY <1>2
  <2> QED BY <1>1, <2>1, Zenon
<1>5. FieldsKnown(it)
  BY <1>3, <1>4, Zenon DEF FieldsKnown
<1>6. it.struct \notin DOMAIN Insts
  BY <1>1, Zenon DEF Reserved
<1> QED BY <1>3, <1>5, <1>6, Zenon

LEMMA TypeParts ==
    ASSUME NEW size, NEW poles
    PROVE  Type(size, poles).kind = "type" /\ Type(size, poles).size = size
BY DEF Type

LEMMA StructDone ==
    ASSUME NEW p, NEW n, ProperProgram(p, n), Given(p), NEW i \in Nat, i + 1 \in 1 .. n,
           Has(p[i + 1], "struct"), Construct, Between(p, i, pos, layers, functions, open)
    PROVE  /\ Between(p, i + 1, pos', layers', functions', open')
           /\ status' = status
<1> DEFINE j == i + 1
           it == p[j]
           m == Scope(functions)
<1>1. BetweenFacts(p, i)
  BY BetweenIs, Zenon
<1>2. /\ open = NoFunction /\ pos = 1 + Before(p, i) /\ Indexed(layers, m) /\ m \in Nat /\ 1 <= m
      /\ GlobalsKept(layers, p, i) /\ ScopesClean(layers, m) /\ Handed(p, i, functions)
  BY <1>1, Zenon DEF BetweenFacts
<1>3. n = Len(p) /\ n \in Nat /\ DOMAIN p = 1 .. n
  BY Zenon DEF ProperProgram
<1>4. j \in 1 .. n /\ j \in 1 .. Len(p) /\ j - 1 = i /\ Has(it, "struct")
  BY <1>3
<1> HIDE DEF j
<1>5. pos = 1 + Before(p, j - 1) /\ GlobalsKept(layers, p, j - 1)
  BY <1>2, <1>4, Zenon
<1>6. it \in StructItems /\ ~Has(it, "func")
  BY <1>4, StructFormed, Zenon
<1>7. /\ FieldsKnown(it) /\ it.struct \notin DOMAIN Insts
      /\ \A k \in 1 .. Len(it.fields) : it.fields[k].name \notin DOMAIN Insts
                                        /\ it.fields[k].type \notin DOMAIN Insts
  BY <1>4, <1>5, FieldsSeen, Zenon
<1>8. pos \in Nat /\ ~(pos > Len(tokens))
  BY <1>4, <1>5, ItemPlace, Zenon
<1>9. StructStands(it)
  BY <1>4, <1>5, <1>6, <1>7, <1>8, StructSeen, Zenon
<1>10. Tok(pos).type = "struct"
  BY <1>9, Zenon DEF StructStands, Is
<1>11. Datatype
  BY <1>2, <1>8, <1>10, ItemAction, Zenon
<1> DEFINE w == Len(Joined(Parts(it)))
           k == Len(it.fields)
           a == Before(p, i)
           b == Before(p, j)
<1>12. /\ a \in 0 .. Len(tokens) /\ b \in 0 .. Len(tokens) /\ b = a + w /\ Len(tokens) \in Nat
  <2>1. i \in 0 .. Len(p) /\ j \in 0 .. Len(p)
    BY <1>3, <1>4
  <2>2. Before(p, j) = Before(p, j - 1) + w
    BY <1>4, BeforeIs, Zenon
  <2> QED BY <1>4, <2>1, <2>2, BeforeIs, GivenStands, Zenon
<1>13. w = 3 + 6 * k + 1 /\ k \in Nat
  BY <1>6, StructInside, FieldLines, Zenon
<1> HIDE DEF w, k, a, b
<1>14. k <= Len(tokens) /\ pos + (3 + 6 * k + 1) = 1 + b
  <2>1. pos = 1 + a
    BY <1>2 DEF a
  <2> QED BY <1>12, <1>13, <2>1
<1>15. /\ \E poles : layers' = Add(layers, 0, it.struct, Type(FieldBytes(it), poles))
       /\ pos' = pos + (3 + 6 * k + 1)
       /\ UNCHANGED <<program, tokens, functions, open, status, parsed, parses>>
  BY <1>6, <1>7, <1>8, <1>9, <1>11, <1>12, <1>14, DatatypeStep, Zenon DEF k
<1>16. pos' = 1 + Before(p, j)
  BY <1>14, <1>15, Zenon DEF b
<1>17. functions' = functions /\ open' = NoFunction /\ status' = status
  BY <1>2, <1>15
<1>18. PICK poles : layers' = Add(layers, 0, it.struct, Type(FieldBytes(it), poles))
  BY <1>15, Zenon
<1> DEFINE name == it.struct
           element == Type(FieldBytes(it), poles)
           new == layers'
<1>19. name \notin DOMAIN layers[1]
  BY <1>2, <1>4, StructFresh, Zenon DEF j
<1>20. element.kind = "type" /\ element.size = SizeOf(p, name)
  <2>1. SizeOf(p, name) = FieldBytes(it)
    BY <1>4, StructSize, Zenon
  <2> QED BY <2>1, TypeParts, Zenon
<1>21. new = Add(layers, 0, name, element) /\ Has(p[i + 1], "struct") /\ name = p[i + 1].struct
  BY <1>18 DEF j
<1> HIDE DEF name, element, new, m
<1>22. Indexed(new, m) /\ GlobalsKept(new, p, i + 1) /\ ScopesClean(new, m)
  BY <1>2, <1>19, <1>20, <1>21, GlobalAdded
<1>23. Handed(p, j, functions)
  <2>1. Joins(Meanings(p))[j] = Joins(Meanings(p))[j - 1]
    BY <1>3, <1>4, <1>6, FuncMeaningAt, Zenon
  <2> QED BY <1>2, <1>4, <2>1, Zenon DEF Handed
<1>24. Between(p, j, pos', new, functions', open')
  BY <1>16, <1>17, <1>22, <1>23, Zenon DEF Between, j, m, Scope
<1> QED BY <1>17, <1>24, Zenon DEF j, new

-----------------------------------------------------------------------------
(* The head of a function. *)

LEMMA ArgsSeen ==
    ASSUME NEW p, NEW n, ProperProgram(p, n), NEW i \in 1 .. n, Has(p[i], "func"),
           GlobalsKept(layers, p, i - 1)
    PROVE  /\ ArgsKnown(p[i].args, Sizes(p, p[i].args)) /\ RetKnown(p[i], SizeOf(p, p[i].ret))
           /\ p[i].func \notin DOMAIN Insts /\ p[i].ret \notin DOMAIN Insts
           /\ \A k \in 1 .. Len(p[i].args) : p[i].args[k] \notin DOMAIN Insts
<1> DEFINE it == p[i]
           args == it.args
<1>1. /\ it \in FuncItems /\ it.func \notin Reserved
      /\ \A k \in DOMAIN args : args[k] \in KnownTypes(p, i)
      /\ it.ret \in KnownTypes(p, i)
  BY FuncFormed, Zenon
<1>2. DOMAIN args = 1 .. Len(args)
  BY <1>1, ArgsTyped, Zenon
<1>3. ASSUME NEW k \in 1 .. Len(args)
      PROVE  KnowsType(args[k], Sizes(p, args)[k]) /\ args[k] \notin DOMAIN Insts
  <2>1. args[k] \in KnownTypes(p, i)
    BY <1>1, <1>2, Zenon
  <2>2. /\ args[k] \in DOMAIN layers[1] /\ layers[1][args[k]].kind = "type"
        /\ layers[1][args[k]].size = SizeOf(p, args[k]) /\ args[k] \notin DOMAIN Insts
    BY <2>1, TypeSees, Zenon
  <2>3. Sizes(p, args)[k] = SizeOf(p, args[k])
    BY Zenon DEF Sizes
  <2> QED BY <2>2, <2>3, Zenon DEF KnowsType
<1>4. /\ it.ret \in DOMAIN layers[1] /\ layers[1][it.ret].kind = "type"
      /\ layers[1][it.ret].size = SizeOf(p, it.ret) /\ it.ret \notin DOMAIN Insts
  BY <1>1, TypeSees, Zenon
<1>5. it.ret = "void" => SizeOf(p, it.ret) = Builtin["void"]
  <2>1. "void" \in DOMAIN Builtin
    BY AmasmConstants, Zenon
  <2> QED BY <2>1, Zenon DEF SizeOf
<1>6. RetKnown(it, SizeOf(p, it.ret))
  BY <1>4, <1>5, Zenon DEF RetKnown, HasRet, KnowsType
<1>7. it.func \notin DOMAIN Insts
  BY <1>1, Zenon DEF Reserved
<1>8. ArgsKnown(args, Sizes(p, args))
  BY <1>3, Zenon DEF ArgsKnown
<1> QED BY <1>3, <1>4, <1>6, <1>7, <1>8, Zenon

LEMMA EmptyScope ==
    ASSUME NEW lines
    PROVE  ScopeHolds(<<>>, lines, 0)
<1>1. 1 .. 0 = {} /\ DOMAIN <<>> = {}
  OBVIOUS
<1> QED BY <1>1, Zenon DEF ScopeHolds

LEMMA NoLines ==
    ASSUME NEW m, m = <<>>
    PROVE  Matches(<<>>, m)
<1>1. Indexed(<<>>, 0) /\ Len(<<>>) = 0 /\ 1 .. 0 = {}
  <2>1. Len(<<>>) = 0 /\ 1 .. 0 = {}
    OBVIOUS
  <2> QED BY <2>1, NoArgs, Zenon
<1> QED BY <1>1, Zenon DEF Matches

\* A new layer leaves the others alone.
LEMMA LayerAdded ==
    ASSUME NEW ls, NEW m \in Nat, 1 <= m, Indexed(ls, m), NEW p, NEW i,
           GlobalsKept(ls, p, i), ScopesClean(ls, m), NEW new, new = Append(ls, <<>>)
    PROVE  /\ Indexed(new, m + 1) /\ GlobalsKept(new, p, i) /\ ScopesClean(new, m + 1)
           /\ new[m + 1] = <<>>
<1>1. Extends(new, ls, m, <<>>)
  BY IndexedAppend, Zenon
<1>2. Indexed(new, m + 1) /\ new[m + 1] = <<>> /\ \A k \in 1 .. m : new[k] = ls[k]
  BY <1>1, Zenon DEF Extends
<1>3. 1 \in 1 .. m
  OBVIOUS
<1>4. new[1] = ls[1]
  BY <1>2, <1>3, Zenon
<1>5. GlobalsKept(new, p, i)
  BY <1>4, Zenon DEF GlobalsKept
<1>6. ASSUME NEW k \in 2 .. m + 1 PROVE DOMAIN new[k] \cap DOMAIN Registers = {}
  <2>1. (k \in 2 .. m /\ k \in 1 .. m) \/ k = m + 1
    OBVIOUS
  <2>2. CASE k = m + 1
    <3>1. DOMAIN <<>> = {}
      OBVIOUS
    <3> QED BY <1>2, <2>2, <3>1, Zenon
  <2>3. CASE k \in 2 .. m /\ k \in 1 .. m
    BY <1>2, <2>3, Zenon DEF ScopesClean
  <2> QED BY <2>1, <2>2, <2>3
<1> QED BY <1>2, <1>5, <1>6, Zenon DEF ScopesClean

\* The head of a function fits in front of the last token.
LEMMA HeadFits ==
    ASSUME NEW it \in FuncItems, pos \in Nat, Len(tokens) \in Nat, Stands(pos, HeadTokens(it))
    PROVE  /\ pos + 4 + Count(Len(it.args)) <= Len(tokens)
           /\ pos + (4 + Count(Len(it.args)) + (IF HasRet(it) THEN 4 ELSE 2)) = pos + Len(HeadTokens(it))
<1> DEFINE a == Len(Listed(Args(it)))
           b == Len(RetTokens(it))
           c == Len(HeadTokens(it))
           d == Count(Len(it.args))
<1>1. c = 4 + a + b /\ a \in Nat
  BY FuncHead, Zenon
<1>2. a = d
  BY NamesListed, Zenon
<1>3. b = IF HasRet(it) THEN 4 ELSE 2
  BY RetTyped, Zenon DEF HasRet
<1>4. pos + c <= Len(tokens) + 1
  BY Zenon DEF Stands
<1> HIDE DEF a, b, c, d
<1>5. b \in {2, 4}
  BY <1>3, Zenon
<1>6. pos + 4 + d <= Len(tokens)
  BY <1>1, <1>2, <1>4, <1>5
<1>7. pos + (4 + d + b) = pos + c
  BY <1>1, <1>2
<1> QED BY <1>3, <1>6, <1>7, Zenon DEF c, d

LEMMA FuncDone ==
    ASSUME NEW p, NEW n, ProperProgram(p, n), Given(p), NEW i \in Nat, i + 1 \in 1 .. n,
           Has(p[i + 1], "func"), Construct, Between(p, i, pos, layers, functions, open)
    PROVE  /\ Within(p, i + 1, 0, pos', layers', functions', open')
           /\ status' = status
<1> DEFINE j == i + 1
           it == p[j]
           m == Scope(functions)
<1>1. BetweenFacts(p, i)
  BY BetweenIs, Zenon
<1>2. /\ open = NoFunction /\ pos = 1 + Before(p, i) /\ Indexed(layers, m) /\ m \in Nat /\ 1 <= m
      /\ GlobalsKept(layers, p, i) /\ ScopesClean(layers, m) /\ Handed(p, i, functions)
  BY <1>1, Zenon DEF BetweenFacts
<1>3. n = Len(p) /\ n \in Nat /\ DOMAIN p = 1 .. n
  BY Zenon DEF ProperProgram
<1>4. j \in 1 .. n /\ j \in 1 .. Len(p) /\ j - 1 = i /\ Has(it, "func")
  BY <1>3
<1> HIDE DEF j
<1>5. pos = 1 + Before(p, j - 1) /\ GlobalsKept(layers, p, j - 1) /\ Handed(p, j - 1, functions)
  BY <1>2, <1>4, Zenon
<1>6. it \in FuncItems /\ Len(tokens) \in Nat
  BY <1>4, FuncFormed, GivenStands, Zenon
<1> DEFINE sizes == Sizes(p, it.args)
           ret == SizeOf(p, it.ret)
<1>7. /\ ArgsKnown(it.args, sizes) /\ RetKnown(it, ret)
      /\ it.func \notin DOMAIN Insts /\ it.ret \notin DOMAIN Insts
      /\ \A k \in 1 .. Len(it.args) : it.args[k] \notin DOMAIN Insts
  BY <1>4, <1>5, ArgsSeen, Zenon
<1>8. /\ pos \in Nat /\ ~(pos > Len(tokens)) /\ Stands(pos, HeadTokens(it))
      /\ pos + Len(HeadTokens(it)) = PartStart(p, j, 2)
  BY <1>4, <1>5, ItemPlace, Zenon
<1> DEFINE close == pos + 4 + Count(Len(it.args))
<1>9. FuncStands(it, close)
  BY <1>6, <1>7, <1>8, FuncSeen, Zenon
<1>10. Tok(pos).type = "func"
  BY <1>9, Zenon DEF FuncStands, Is
<1>11. Function
  BY <1>2, <1>8, <1>10, ItemAction, Zenon
<1>12. /\ close <= Len(tokens)
       /\ pos + (4 + Count(Len(it.args)) + (IF HasRet(it) THEN 4 ELSE 2)) = pos + Len(HeadTokens(it))
  BY <1>6, <1>8, HeadFits, Zenon
<1>13. /\ layers' = Append(layers, <<>>)
       /\ open' = NewFunction(it, sizes, ret)
       /\ pos' = pos + (4 + Count(Len(it.args)) + (IF HasRet(it) THEN 4 ELSE 2))
       /\ UNCHANGED <<program, tokens, functions, status, parsed, parses>>
  <2> HIDE DEF sizes, ret, it
  <2> QED BY <1>6, <1>7, <1>8, <1>9, <1>11, <1>12, FunctionStep, Zenon
<1>14. pos' = PartStart(p, j, 2)
  BY <1>8, <1>12, <1>13, Zenon
<1>15. functions' = functions /\ status' = status
  BY <1>13
<1> DEFINE new == layers'
<1>16. /\ Indexed(new, m + 1) /\ GlobalsKept(new, p, j - 1) /\ ScopesClean(new, m + 1)
       /\ new[m + 1] = <<>>
  <2>1. new = Append(layers, <<>>)
    BY <1>13
  <2> HIDE DEF new, m
  <2> DEFINE k == j - 1
  <2>2. GlobalsKept(layers, p, k)
    BY <1>5
  <2> HIDE DEF k
  <2>3. /\ Indexed(new, m + 1) /\ GlobalsKept(new, p, k) /\ ScopesClean(new, m + 1)
        /\ new[m + 1] = <<>>
    BY <1>2, <2>1, <2>2, LayerAdded
  <2> QED BY <2>3 DEF k
<1>17. ScopeHolds(new[m + 1], it.lines, 0)
  BY <1>16, EmptyScope, Zenon
<1>18. Opened(p, j, 0, open', m)
  <2> DEFINE f == open'
             M == Joins(LineMeanings(p, it.lines))[0]
             args == TakenArgs(it.args, sizes)
             name == it.func
  <2>1. f = [scope |-> Len(layers), name |-> name, args |-> args, ret |-> ret, lines |-> <<>>]
    BY <1>13, Zenon DEF NewFunction
  <2>2. Len(layers) = m
    BY <1>2, IndexedSeq, Zenon
  <2>3. M = <<>>
    BY <1>6, FuncLines, LineMeaningsAre, Zenon
  <2> HIDE DEF args, f, M, ret, m, name
  <2>4. f = [scope |-> m, name |-> name, args |-> args, ret |-> ret, lines |-> f.lines] /\ f.lines = <<>>
    BY <2>1, <2>2
  <2>5. Matches(f.lines, M)
    BY <2>3, <2>4, NoLines, Zenon
  <2> QED BY <2>4, <2>5, Zenon DEF Opened, f, M, args, ret, name
<1>19. m + 1 = Len(functions) + 2 /\ m = Len(functions) + 1 /\ (0 + 1) = (2 - 1)
  <2>1. m = Len(functions) + 1 /\ Len(functions) \in Nat
    BY <1>1, Zenon DEF BetweenFacts, Scope
  <2> QED BY <2>1
<1>20. pos' = 1 + Before(p, j - 1) + Inside(p[j], 0 + 1)
  BY <1>14, <1>19, Zenon DEF PartStart
<1>21. Within(p, j, 0, pos', new, functions', open')
  BY <1>4, <1>5, <1>15, <1>16, <1>17, <1>18, <1>19, <1>20, Zenon DEF Within
<1> QED BY <1>15, <1>21, Zenon DEF j, new

-----------------------------------------------------------------------------
(* The end of a function. *)

ArgNames(args) == [k \in DOMAIN args |-> args[k].name]
ArgSizes(args) == [k \in DOMAIN args |-> args[k].size]
TypeSizes(p, names) == [k \in DOMAIN names |-> SizeOf(p, names[k])]

LEMMA TakenNames ==
    ASSUME NEW names, NEW n \in Nat, names = [k \in 1 .. n |-> names[k]], NEW p,
           NEW args, args = TakenArgs(names, Sizes(p, names)), Len(names) = n
    PROVE  ArgNames(args) = names /\ ArgSizes(args) = TypeSizes(p, names)
<1>1. \A k \in 1 .. n : Sizes(p, names)[k] = SizeOf(p, names[k])
  BY Zenon DEF Sizes
<1>2. args = [k \in 1 .. n |-> [name |-> names[k], size |-> Sizes(p, names)[k]]]
  BY Zenon DEF TakenArgs
<1>3. DOMAIN args = 1 .. n /\ DOMAIN names = 1 .. n
  BY <1>2, Zenon
<1>4. ASSUME NEW k \in 1 .. n PROVE args[k].name = names[k] /\ args[k].size = SizeOf(p, names[k])
  <2> DEFINE a == names[k]
             b == SizeOf(p, names[k])
             c == args[k]
  <2>1. c = [name |-> a, size |-> b]
    BY <1>1, <1>2, Zenon
  <2> HIDE DEF a, b, c
  <2>2. c.name = a /\ c.size = b
    BY <2>1
  <2> QED BY <2>2 DEF a, b, c
<1>5. [k \in 1 .. n |-> args[k].name] = [k \in 1 .. n |-> names[k]]
  BY <1>4, Zenon
<1>6. [k \in 1 .. n |-> args[k].size] = [k \in 1 .. n |-> SizeOf(p, names[k])]
  BY <1>4, Zenon
<1> QED BY <1>3, <1>5, <1>6, Zenon DEF ArgNames, ArgSizes, TypeSizes

LEMMA FunctionParts ==
    ASSUME NEW f, NEW a, NEW b, NEW c, NEW d, NEW e,
           f = [scope |-> a, name |-> b, args |-> c, ret |-> d, lines |-> e]
    PROVE  f.scope = a /\ f.name = b /\ f.args = c /\ f.ret = d /\ f.lines = e
OBVIOUS

LEMMA MeaningParts ==
    ASSUME NEW y, NEW a, NEW b, NEW c, NEW d, y = [name |-> a, args |-> b, ret |-> c, lines |-> d]
    PROVE  y = [name |-> a, args |-> b, ret |-> c, lines |-> y.lines] /\ y.lines = d
OBVIOUS

\* What the function in progress is at the end of item i of a program.
MeantBy(p, i, f, scope) ==
    FunctionMatches(f, FunctionMeaning(p, p[i])) /\ f.name = p[i].func /\ f.scope = scope

\* A function with all its lines is the one of the program.
LEMMA OpenedIs ==
    ASSUME NEW p, NEW i, p[i] \in FuncItems, NEW f, NEW scope,
           Opened(p, i, Len(p[i].lines), f, scope)
    PROVE  MeantBy(p, i, f, scope)
<1> DEFINE it == p[i]
           names == it.args
           args == TakenArgs(names, Sizes(p, names))
           ret == SizeOf(p, it.ret)
           M == Joins(LineMeanings(p, it.lines))[Len(it.lines)]
           y == FunctionMeaning(p, it)
<1>1. /\ f = [scope |-> scope, name |-> it.func, args |-> args, ret |-> ret, lines |-> f.lines]
      /\ Matches(f.lines, M)
  BY Zenon DEF Opened
<1>2. f.scope = scope /\ f.name = it.func /\ f.args = args /\ f.ret = ret
  <2> DEFINE b == it.func
             e == f.lines
  <2>1. f = [scope |-> scope, name |-> b, args |-> args, ret |-> ret, lines |-> e]
    BY <1>1
  <2> HIDE DEF b, e, args, ret
  <2> QED BY <2>1, FunctionParts, Zenon DEF b
<1>3. M = Joined(LineMeanings(p, it.lines))
  BY FuncLines, LineMeaningsAre, Zenon
<1>4. names \in Seq(STRING)
  BY ItemFields, Zenon
<1>5. Indexed(names, Len(names))
  BY <1>4, SeqIndexed, Zenon
<1>6. /\ [k \in DOMAIN args |-> args[k].name] = names
      /\ [k \in DOMAIN args |-> args[k].size] = [k \in DOMAIN names |-> SizeOf(p, names[k])]
  <2>1. Len(names) \in Nat /\ names = [k \in 1 .. Len(names) |-> names[k]]
    BY <1>5, Zenon DEF Indexed
  <2> DEFINE n == Len(names)
             us == args
  <2>2. /\ n \in Nat /\ names = [k \in 1 .. n |-> names[k]] /\ us = TakenArgs(names, Sizes(p, names))
        /\ Len(names) = n
    BY <2>1
  <2> HIDE DEF names, us, n
  <2>3. ArgNames(us) = names /\ ArgSizes(us) = TypeSizes(p, names)
    BY <2>2, TakenNames, Zenon
  <2> QED BY <2>3, Zenon DEF us, names, ArgNames, ArgSizes, TypeSizes
<1>7. [k \in DOMAIN it.lines |-> LineMeaning(p, it.lines, k)] = LineMeanings(p, it.lines)
  BY Zenon DEF LineMeanings
<1> DEFINE N == FullName(it.func, names)
           T == Total([k \in DOMAIN names |-> SizeOf(p, names[k])])
<1>8. y = [name |-> N, args |-> T, ret |-> ret, lines |-> M]
  BY <1>3, <1>7, Zenon DEF FunctionMeaning
<1>9. /\ FullName(f.name, [k \in DOMAIN f.args |-> f.args[k].name]) = N
      /\ Total([k \in DOMAIN f.args |-> f.args[k].size]) = T
  <2> HIDE DEF args
  <2>1. [k \in DOMAIN f.args |-> f.args[k].name] = names
    BY <1>2, <1>6, Zenon
  <2>2. [k \in DOMAIN f.args |-> f.args[k].size] = [k \in DOMAIN names |-> SizeOf(p, names[k])]
    BY <1>2, <1>6, Zenon
  <2> QED BY <1>2, <2>1, <2>2, Zenon
<1> DEFINE N2 == FullName(f.name, [k \in DOMAIN f.args |-> f.args[k].name])
           T2 == Total([k \in DOMAIN f.args |-> f.args[k].size])
<1>10. N2 = N /\ T2 = T
  BY <1>9
<1> HIDE DEF N, T, M, ret, y, N2, T2
<1>11. y = [name |-> N, args |-> T, ret |-> ret, lines |-> y.lines] /\ y.lines = M
  BY <1>8, MeaningParts, Zenon
<1>12. y = [name |-> N2, args |-> T2, ret |-> f.ret, lines |-> y.lines] /\ Matches(f.lines, y.lines)
  BY <1>1, <1>2, <1>10, <1>11, Zenon
<1>13. FunctionMatches(f, y)
  BY <1>12, Zenon DEF FunctionMatches, N2, T2
<1> QED BY <1>2, <1>13, Zenon DEF y, MeantBy

LEMMA CloseDone ==
    ASSUME NEW p, NEW n, ProperProgram(p, n), Given(p), NEW i \in 1 .. n, Construct,
           Within(p, i, Len(p[i].lines), pos, layers, functions, open)
    PROVE  /\ Between(p, i, pos', layers', functions', open')
           /\ status' = status /\ WithinFacts(p, i, Len(p[i].lines))
           /\ Len(functions') = Len(functions) + 1
<1> DEFINE it == p[i]
           l == Len(it.lines)
           m == Layers(functions)
           q == i - 1
<1>1. n = Len(p) /\ n \in Nat /\ DOMAIN p = 1 .. n /\ Has(it, "func")
  BY Zenon DEF ProperProgram, Within
<1>2. it \in FuncItems /\ l \in Nat /\ ~Has(it, "struct")
  BY <1>1, FuncAt, ItemFields, Zenon
<1>3. WithinFacts(p, i, l)
  BY <1>2, WithinIs, Zenon
<1>4. /\ Len(functions) \in Nat /\ m \in Nat /\ open # NoFunction /\ Indexed(layers, m)
      /\ pos = PartStart(p, i, l + 2) /\ GlobalsKept(layers, p, q) /\ ScopesClean(layers, m)
      /\ Opened(p, i, l, open, Scope(functions)) /\ Handed(p, q, functions)
  BY <1>3, Zenon DEF WithinFacts
<1>5. pos \in Nat /\ ~(pos > Len(tokens)) /\ Stands(pos, Close) /\ pos + 1 = 1 + Before(p, i)
  BY <1>1, <1>2, <1>4, ClosePlace, Zenon
<1>6. Is(pos, "}") /\ ~IsInst(pos)
  <2>1. Close[1] = Mark("}") /\ Len(Close) \in Nat /\ 1 \in 1 .. Len(Close)
    BY DEF Close
  <2>2. Tok(pos + (1 - 1)) = MarkedToken(Close[1])
    BY <1>5, <2>1, TokenIn, Zenon
  <2>3. pos + (1 - 1) = pos
    BY <1>5
  <2>4. "}" \in Signs
    BY DEF Signs
  <2> QED BY <2>1, <2>2, <2>3, <2>4, MarkSeen, Zenon
<1>7. CloseFunction
  <2>1. Tok(pos).type = "}"
    BY <1>6, Zenon DEF Is
  <2> QED BY <1>4, <1>5, <1>6, <2>1, LineAction, Zenon
<1>8. /\ functions' = Append(functions, open)
      /\ layers' = Add(layers, 0, open.name, [kind |-> "func"])
      /\ open' = NoFunction /\ pos' = pos + 1
      /\ UNCHANGED <<program, tokens, status, parsed, parses>>
  BY <1>7, CloseStep, Zenon
<1>9. status' = status
  BY <1>8
<1>10. /\ FunctionMatches(open, FunctionMeaning(p, it)) /\ open.name = it.func
       /\ open.scope = Scope(functions)
  <2> DEFINE s == Scope(functions)
  <2>1. Opened(p, i, Len(p[i].lines), open, s) /\ p[i] \in FuncItems
    BY <1>2, <1>4
  <2> HIDE DEF s
  <2>2. FunctionMatches(open, FunctionMeaning(p, p[i])) /\ open.name = p[i].func /\ open.scope = s
    <3>1. MeantBy(p, i, open, s)
      BY <2>1, OpenedIs, Zenon
    <3> QED BY <3>1, Zenon DEF MeantBy
  <2> QED BY <2>2 DEF s
<1> DEFINE new == layers'
           fs == functions'
           element == [kind |-> "func"]
           name == it.func
<1>11. new = Add(layers, 0, name, element)
  BY <1>8, <1>10, Zenon
<1>12. q \in Nat /\ q + 1 = i
  BY <1>1
<1>13. Has(p[q + 1], "func") /\ ~Has(p[q + 1], "struct") /\ name = p[q + 1].func
  BY <1>1, <1>2, <1>12
<1>14. 1 <= m
  BY <1>4 DEF Layers
<1>15. Indexed(new, m) /\ GlobalsKept(new, p, q + 1) /\ ScopesClean(new, m)
  <2> HIDE DEF new, name, element, m, q
  <2> QED BY <1>4, <1>11, <1>12, <1>13, <1>14, GlobalAdded
<1>16. Handed(p, i, fs) /\ Len(fs) = Len(functions) + 1
  <2> DEFINE M == Joins(Meanings(p))[q]
             M2 == Joins(Meanings(p))[i]
             y == FunctionMeaning(p, it)
  <2>1. HandedAt(M, functions)
    BY <1>4, HandedIs, Zenon
  <2>2. Indexed(M, Len(M))
    <3>1. q \in 0 .. n
      BY <1>1
    <3> QED BY <1>1, <3>1, MeaningIs, Zenon
  <2>3. Extends(M2, M, Len(M), y)
    BY <1>1, FuncMeaningAt, Zenon
  <2>4. open.scope = Len(functions) + 1
    BY <1>10, Zenon DEF Scope
  <2>5. fs = Append(functions, open)
    BY <1>8
  <2> HIDE DEF M, M2, y, fs
  <2>6. FunctionMatches(open, y)
    BY <1>10 DEF y
  <2>7. HandedAt(M2, fs) /\ Len(fs) = Len(functions) + 1
    <3>1. HandedAt(M2, Append(functions, open)) /\ Len(Append(functions, open)) = Len(functions) + 1
      BY <2>1, <2>2, <2>3, <2>4, <2>6, HandedNext, Zenon
    <3> QED BY <2>5, <3>1, Zenon
  <2> QED BY <2>7, HandedIs, Zenon DEF M2
<1>17. pos' = 1 + Before(p, i) /\ open' = NoFunction
  BY <1>5, <1>8, Zenon
<1>18. m = Len(fs) + 1
  <2> DEFINE a == Len(functions)
             b == Len(fs)
  <2>1. a \in Nat /\ b = a + 1 /\ m = a + 2
    BY <1>4, <1>16, Zenon DEF Layers
  <2> HIDE DEF a, b, m
  <2>2. m = b + 1
    BY <2>1
  <2> QED BY <2>2 DEF b
<1>19. Between(p, i, pos', new, fs, open')
  BY <1>12, <1>15, <1>16, <1>17, <1>18, Zenon DEF Between
<1> QED BY <1>3, <1>9, <1>16, <1>19, Zenon DEF new, fs

-----------------------------------------------------------------------------
(* The end of a program, and its beginning. *)

LEMMA ReleaseDone ==
    ASSUME NEW p, Given(p), Construct, Between(p, Len(p), pos, layers, functions, open)
    PROVE  Release
<1>1. open = NoFunction /\ pos = 1 + Before(p, Len(p))
  BY Zenon DEF Between
<1>2. ~(pos <= Len(tokens))
  BY <1>1, EndPlace, Zenon
<1> QED BY <1>1, <1>2, ItemAction, Zenon

LEMMA ParseDone ==
    ASSUME NEW p, Written(p), NEW at, at = 1
    PROVE  Between(p, 0, at, <<Globals>>, <<>>, NoFunction)
<1> DEFINE ls == <<Globals>>
<1>1. Indexed(ls, 0 + 1) /\ ls[1] = Globals /\ Len(<<>>) = 0
  <2>1. ls = [k \in 1 .. 0 + 1 |-> ls[k]] /\ 0 + 1 \in Nat
    OBVIOUS
  <2> QED BY <2>1 DEF Indexed
<1> HIDE DEF ls
<1>2. GlobalsKept(ls, p, 0)
  <2>1. 1 .. 0 = {}
    OBVIOUS
  <2> QED BY <1>1, <2>1, Zenon DEF GlobalsKept
<1>3. ScopesClean(ls, 0 + 1)
  <2>1. 2 .. 0 + 1 = {}
    OBVIOUS
  <2> QED BY <2>1, Zenon DEF ScopesClean
<1>4. Handed(p, 0, <<>>)
  <2> DEFINE M == Joins(Meanings(p))[0]
  <2>1. Len(M) = 0
    BY WrittenItems, MeaningIs, Zenon
  <2> HIDE DEF M
  <2>2. Indexed(<<>>, 0) /\ 1 .. 0 = {}
    <3>1. 1 .. 0 = {}
      OBVIOUS
    <3> QED BY <3>1, NoArgs, Zenon
  <2>3. HandedAt(M, <<>>)
    BY <2>1, <2>2, Zenon DEF HandedAt
  <2> QED BY <2>3, HandedIs, Zenon DEF M
<1>5. at = 1 + Before(p, 0)
  <2>1. Before(p, 0) = 0
    <3>1. Joins(ItemTokens(p))[0] = <<>>
      BY WrittenTokens, JoinsBase, Zenon
    <3> QED BY <1>1, <3>1, Zenon DEF Before
  <2> QED BY <2>1
<1>6. Between(p, 0, at, ls, <<>>, NoFunction)
  BY <1>1, <1>2, <1>3, <1>4, <1>5, Zenon DEF Between
<1> QED BY <1>6 DEF ls

-----------------------------------------------------------------------------
(* A step in a program the parser can take. *)

LEMMA ProperTaken ==
    ASSUME NEW p, p \in Seq(Items), Proper(p)
    PROVE  ProperProgram(p, Len(p)) /\ Written(p)
<1>1. Len(p) \in Nat /\ DOMAIN p = 1 .. Len(p)
  OBVIOUS
<1>2. \A i \in 1 .. Len(p) : ~Has(p[i], "const")
  BY <1>1, Zenon DEF Proper, Supported
<1> QED BY <1>1, <1>2, Zenon DEF ProperProgram, Written

\* What a construct makes of the state of a parser that follows a program.
Follows(p) ==
    \/ Parsing(p, pos', layers', functions', open') /\ status' = status
    \/ Release /\ Between(p, Len(p), pos, layers, functions, open)

LEMMA BetweenStep ==
    ASSUME NEW p, NEW n, ProperProgram(p, n), Given(p), NEW i \in 0 .. n, Construct,
           Between(p, i, pos, layers, functions, open)
    PROVE  Follows(p)
<1>1. n = Len(p) /\ n \in Nat
  BY Zenon DEF ProperProgram
<1>2. CASE i = n
  BY <1>1, <1>2, ReleaseDone, Zenon DEF Follows
<1>3. CASE i # n
  <2> DEFINE j == i + 1
  <2>1. i \in Nat /\ i + 1 \in 1 .. n /\ i + 1 \in 0 .. n
    BY <1>1, <1>3
  <2>2. Has(p[j], "struct") \/ Has(p[j], "func")
    <3>1. p[j] \in StructItems \/ p[j] \in FuncItems
      BY <1>1, <2>1, ProperItems, Zenon
    <3> QED BY <3>1, ItemFields, Zenon
  <2>3. CASE Has(p[j], "struct")
    <3>1. Between(p, j, pos', layers', functions', open') /\ status' = status
      BY <2>1, <2>3, StructDone, Zenon
    <3> QED BY <1>1, <2>1, <3>1, Zenon DEF Follows, Parsing
  <2>4. CASE Has(p[j], "func")
    <3>1. Within(p, j, 0, pos', layers', functions', open') /\ status' = status
      BY <2>1, <2>4, FuncDone, Zenon
    <3>2. Len(p[j].lines) \in Nat
      BY <1>1, <2>1, <2>4, FuncAt, Zenon
    <3>3. 0 \in 0 .. Len(p[j].lines)
      BY <3>2
    <3> QED BY <1>1, <2>1, <2>4, <3>1, <3>3, Zenon DEF Follows, Parsing
  <2> QED BY <2>2, <2>3, <2>4, Zenon
<1> QED BY <1>2, <1>3, Zenon

LEMMA WithinStep ==
    ASSUME NEW p, NEW n, ProperProgram(p, n), Given(p), NEW i \in 1 .. n, Construct,
           NEW l \in 0 .. Len(p[i].lines), Within(p, i, l, pos, layers, functions, open)
    PROVE  Follows(p)
<1>1. n = Len(p) /\ n \in Nat
  BY Zenon DEF ProperProgram
<1>2. Has(p[i], "func")
  BY Zenon DEF Within
<1>3. Len(p[i].lines) \in Nat
  BY <1>1, <1>2, FuncAt, Zenon
<1>4. CASE l = Len(p[i].lines)
  <2>1. Between(p, i, pos', layers', functions', open') /\ status' = status
    BY <1>1, <1>4, CloseDone, Zenon
  <2>2. i \in 0 .. n
    BY <1>1
  <2> QED BY <1>1, <2>1, <2>2, Zenon DEF Follows, Parsing
<1>5. CASE l # Len(p[i].lines)
  <2> DEFINE k == l + 1
  <2>1. l \in Nat /\ l + 1 \in 1 .. Len(p[i].lines) /\ l + 1 \in 0 .. Len(p[i].lines)
    BY <1>3, <1>5
  <2>2. LineDone(p, i, l) /\ WithinFacts(p, i, l)
    BY <2>1, LineStep, Zenon
  <2>3. Within(p, i, k, pos', layers', functions', open')
    BY <1>1, <2>1, <2>2, WithinNext, Zenon
  <2>4. status' = status
    BY <2>2, Zenon DEF LineDone
  <2> QED BY <1>1, <1>2, <2>1, <2>3, <2>4, Zenon DEF Follows, Parsing
<1> QED BY <1>4, <1>5, Zenon

LEMMA ParsingStep ==
    ASSUME NEW p, NEW n, ProperProgram(p, n), Given(p), Construct,
           Parsing(p, pos, layers, functions, open)
    PROVE  Follows(p)
<1>1. n = Len(p)
  BY Zenon DEF ProperProgram
<1>2. ASSUME NEW i \in 0 .. n, Between(p, i, pos, layers, functions, open) PROVE Follows(p)
  BY <1>2, BetweenStep, Zenon
<1>3. ASSUME NEW i \in 1 .. n, NEW l \in 0 .. Len(p[i].lines), Within(p, i, l, pos, layers, functions, open)
      PROVE  Follows(p)
  BY <1>3, WithinStep, Zenon
<1> QED BY <1>1, <1>2, <1>3, Zenon DEF Parsing

-----------------------------------------------------------------------------
(* What the invariant says of a parser in a program. *)

LEMMA ParsingPlace ==
    ASSUME NEW p, NEW n, ProperProgram(p, n), Given(p), NEW at, NEW ls, NEW fs, NEW f, Parsing(p, at, ls, fs, f)
    PROVE  at \in PartStarts(p)
<1> DEFINE before == Joins(ItemTokens(p))
           inside(k) == Joins(Parts(p[k]))
           funcs == { k \in DOMAIN p : Has(p[k], "func") }
           A == { 1 + Len(before[k]) : k \in 0 .. Len(p) }
           E(k) == { 1 + Len(before[k - 1]) + Len(inside(k)[m]) : m \in 0 .. Len(Parts(p[k])) }
<1>1. n = Len(p) /\ n \in Nat /\ DOMAIN p = 1 .. n
  BY Zenon DEF ProperProgram
<1>2. PartStarts(p) = A \cup UNION { E(k) : k \in funcs }
  BY Zenon DEF PartStarts
<1>3. ASSUME NEW i \in 0 .. Len(p), Between(p, i, at, ls, fs, f) PROVE at \in PartStarts(p)
  <2>1. at = 1 + Len(before[i])
    BY <1>3, Zenon DEF Between, Before
  <2>2. at \in A
    BY <2>1, Zenon
  <2> HIDE DEF A, E, funcs
  <2> QED BY <1>2, <2>2, Zenon
<1>4. ASSUME NEW i \in 1 .. Len(p), Has(p[i], "func"), NEW l \in 0 .. Len(p[i].lines),
             Within(p, i, l, at, ls, fs, f)
      PROVE  at \in PartStarts(p)
  <2> DEFINE k == l + 1
  <2>1. at = 1 + Len(before[i - 1]) + Len(inside(i)[k])
    BY <1>4, Zenon DEF Within, Before, Inside
  <2>2. p[i] \in FuncItems /\ Len(p[i].lines) \in Nat /\ LinesOf(p[i]) = p[i].lines
    BY <1>4, FuncAt, Zenon
  <2>3. Len(Parts(p[i])) = Len(p[i].lines) + 2
    BY <2>2, PartsAre, Zenon
  <2>4. k \in 0 .. Len(Parts(p[i]))
    <3> DEFINE a == Len(p[i].lines)
               b == Len(Parts(p[i]))
    <3>1. a \in Nat /\ b = a + 2 /\ l \in 0 .. a
      BY <2>2, <2>3
    <3> HIDE DEF a, b
    <3> QED BY <3>1 DEF b
  <2> HIDE DEF k
  <2>5. at \in E(i)
    BY <2>1, <2>4, Zenon
  <2>6. i \in funcs
    BY <1>1, <1>4, Zenon
  <2> HIDE DEF A, E, funcs
  <2> QED BY <1>2, <2>5, <2>6, Zenon
<1> QED BY <1>3, <1>4, Zenon DEF Parsing

-----------------------------------------------------------------------------
(* A step in any program. *)

LEMMA OutcomeStatus ==
    ASSUME NEW fault, NEW delta, Outcome(fault, delta)
    PROVE  status' = status \/ status' \in {"thrown", "undefined"}
BY Zenon DEF Outcome

LEMMA ConstructEnds ==
    ASSUME Construct
    PROVE  status' = status \/ status' \in {"thrown", "undefined"} \/ Release
<1> DEFINE Ends == status' = status \/ status' \in {"thrown", "undefined"}
<1>1. ASSUME NEW fault, NEW delta, Outcome(fault, delta) PROVE Ends
  BY <1>1, OutcomeStatus, Zenon
<1> HIDE DEF Ends
<1>2. Datatype => Ends
  BY <1>1, Zenon DEF Datatype
<1>3. Function => Ends
  BY <1>1, Zenon DEF Function
<1>4. CloseFunction => Ends
  BY <1>1, Zenon DEF CloseFunction
<1>5. Label => Ends
  BY <1>1, Zenon DEF Label
<1>6. Call => Ends
  BY <1>1, Zenon DEF Call
<1>7. DeclareVariable => Ends
  BY <1>1, Zenon DEF DeclareVariable
<1>8. Instruction => Ends
  BY <1>1, Zenon DEF Instruction
<1>9. Reject => Ends
  BY <1>1, Zenon DEF Reject
<1>10. RunOut => Ends
  BY <1>1, Zenon DEF RunOut
<1> QED BY <1>2, <1>3, <1>4, <1>5, <1>6, <1>7, <1>8, <1>9, <1>10, Zenon DEF Construct, Ends

LEMMA ReleaseFresh ==
    ASSUME Release
    PROVE  /\ Fresh' /\ status' = "parsed"
           /\ parsed' = [functions |-> functions, layers |-> layers]
BY Zenon DEF Release, Fresh

-----------------------------------------------------------------------------
(* The invariant. *)

LEMMA InvInit == Init => ParserInv
<1> SUFFICES ASSUME Init PROVE ParserInv
  OBVIOUS
<1>1. program = <<>> /\ layers = <<Globals>> /\ functions = <<>> /\ open = NoFunction /\ status = "idle"
  BY Zenon DEF Init
<1>2. program \in Seq(Items)
  BY <1>1
<1>3. /\ status \in {"idle", "parsing", "parsed", "thrown", "undefined"}
      /\ status # "parsing" /\ status # "parsed" /\ ~Failed
  BY <1>1 DEF Failed
<1> QED BY <1>1, <1>2, <1>3, Zenon DEF ParserInv, Fresh, Accepted, Faithful

LEMMA InvParse ==
    ASSUME ParserInv, Parse
    PROVE  ParserInv'
<1> DEFINE p == program'
<1>1. /\ parses + 1 \in DOMAIN Sources /\ p \in Sources[parses + 1] /\ tokens' = Marked(Tokens(p))
      /\ pos' = 1 /\ status' = "parsing" /\ status \in {"idle", "parsed"}
      /\ layers' = layers /\ functions' = functions /\ open' = open
  BY Zenon DEF Parse
<1>2. p \in Seq(Items)
  <2> DEFINE n == parses + 1
  <2>1. n \in DOMAIN Sources /\ p \in Sources[n]
    BY <1>1
  <2> HIDE DEF n, p
  <2> QED BY <2>1, ParserConstants
<1>3. layers' = <<Globals>> /\ functions' = <<>> /\ open' = NoFunction
  BY <1>1, Zenon DEF ParserInv, Fresh
<1>4. ASSUME Proper(p) PROVE Parsing(p, pos', layers', functions', open')
  <2> DEFINE at == pos'
  <2>1. Written(p) /\ at = 1
    BY <1>1, <1>2, <1>4, ProperTaken, Zenon
  <2> HIDE DEF p, at
  <2>2. Between(p, 0, at, <<Globals>>, <<>>, NoFunction)
    BY <2>1, ParseDone, Zenon
  <2>3. Len(p) \in Nat
    BY <2>1, WrittenItems, Zenon
  <2>4. 0 \in 0 .. Len(p)
    BY <2>3
  <2>5. Parsing(p, at, <<Globals>>, <<>>, NoFunction)
    BY <2>2, <2>4, Zenon DEF Parsing
  <2> QED BY <1>3, <2>5, Zenon DEF at
<1>5. /\ status' \in {"idle", "parsing", "parsed", "thrown", "undefined"}
      /\ ~(status' \in {"idle", "parsed"}) /\ status' # "parsed" /\ ~Failed'
  BY <1>1 DEF Failed
<1> QED BY <1>1, <1>2, <1>4, <1>5, Zenon DEF ParserInv, Accepted, Faithful

LEMMA InvConstruct ==
    ASSUME ParserInv, Construct
    PROVE  ParserInv'
<1> DEFINE p == program
           n == Len(p)
<1>1. program' = p /\ tokens' = tokens /\ status = "parsing"
  BY ConstructFrame, ConstructParses, Zenon
<1>2. p \in Seq(Items) /\ tokens = Marked(Tokens(p))
  BY <1>1, Zenon DEF ParserInv
<1>3. Proper(p) => Parsing(p, pos, layers, functions, open)
  BY <1>1, Zenon DEF ParserInv
<1>4. ASSUME Proper(p) PROVE Follows(p)
  <2>1. ProperProgram(p, n) /\ Written(p)
    BY <1>2, <1>4, ProperTaken, Zenon
  <2>2. Given(p)
    BY <1>2, <2>1, Zenon DEF Given
  <2> QED BY <1>3, <1>4, <2>1, <2>2, ParsingStep, Zenon
<1>5. CASE status' = status
  <2>1. /\ status' \in {"idle", "parsing", "parsed", "thrown", "undefined"}
        /\ ~(status' \in {"idle", "parsed"}) /\ status' # "parsed" /\ ~Failed'
    BY <1>1, <1>5 DEF Failed
  <2>2. ~Release
    BY <2>1, ReleaseFresh, Zenon
  <2>3. Proper(p) => Parsing(p, pos', layers', functions', open')
    BY <1>4, <2>2, Zenon DEF Follows
  <2> QED BY <1>1, <1>2, <2>1, <2>3, Zenon DEF ParserInv, Accepted, Faithful
<1>6. CASE Release
  <2>1. Fresh' /\ status' = "parsed" /\ parsed' = [functions |-> functions, layers |-> layers]
    BY <1>6, ReleaseFresh, Zenon
  <2>2. /\ status' \in {"idle", "parsing", "parsed", "thrown", "undefined"}
        /\ status' # "parsing" /\ status' # status /\ ~Failed'
    BY <1>1, <2>1 DEF Failed
  <2>3. Proper(p) => Denoted(parsed') = Meaning(p)
    <3> SUFFICES ASSUME Proper(p) PROVE Denoted(parsed') = Meaning(p)
      OBVIOUS
    <3>1. Between(p, n, pos, layers, functions, open)
      BY <1>4, <2>2, Zenon DEF Follows
    <3>2. n \in Nat /\ DOMAIN p = 1 .. n
      BY <1>2, ProperTaken, Zenon DEF ProperProgram
    <3> HIDE DEF p, n
    <3>3. Denoted([functions |-> functions, layers |-> layers]) = Meaning(p)
      BY <3>1, <3>2, ReleasedMeans
    <3> QED BY <2>1, <3>3, Zenon
  <2>4. Faithful'
    BY <1>1, <2>3, Zenon DEF Faithful
  <2> QED BY <1>1, <1>2, <2>1, <2>2, <2>4, Zenon DEF ParserInv, Accepted
<1>7. CASE status' \in {"thrown", "undefined"}
  <2>1. /\ status' \in {"idle", "parsing", "parsed", "thrown", "undefined"}
        /\ status' # "parsing" /\ status' # status /\ status' # "parsed"
        /\ ~(status' \in {"idle", "parsed"})
    BY <1>1, <1>7
  <2>2. ~Proper(p)
    <3>1. ~Release
      BY <2>1, ReleaseFresh, Zenon
    <3> QED BY <1>4, <2>1, <3>1, Zenon DEF Follows
  <2> QED BY <1>1, <1>2, <2>1, <2>2, Zenon DEF ParserInv, Accepted, Faithful
<1> QED BY <1>5, <1>6, <1>7, ConstructEnds, Zenon

LEMMA InvNext == ParserInv /\ [Next]_vars => ParserInv'
<1> SUFFICES ASSUME ParserInv, [Next]_vars PROVE ParserInv'
  OBVIOUS
<1>1. CASE Parse
  BY <1>1, InvParse, Zenon
<1>2. CASE Construct
  BY <1>2, InvConstruct, Zenon
<1>3. CASE UNCHANGED vars
  <2>1. /\ program' = program /\ tokens' = tokens /\ pos' = pos /\ layers' = layers
        /\ functions' = functions /\ open' = open /\ status' = status /\ parsed' = parsed
    BY <1>3 DEF vars
  <2>2. Fresh' <=> Fresh
    BY <2>1, Zenon DEF Fresh
  <2>3. Accepted' <=> Accepted
    BY <2>1, Zenon DEF Accepted, Failed
  <2>4. Faithful' <=> Faithful
    BY <2>1, Zenon DEF Faithful
  <2> QED BY <2>1, <2>2, <2>3, <2>4, Zenon DEF ParserInv
<1> QED BY <1>1, <1>2, <1>3, Zenon DEF Next

(***************************************************************************)
(* Whatever programs are parsed one after the other, the parser of a       *)
(* proper one is where Parsing says, and what it hands over is the program.*)
(***************************************************************************)
THEOREM Inv == Spec => []ParserInv
<1> QED BY InvInit, InvNext, PTL DEF Spec

LEMMA InvSynchronised == ParserInv => Synchronised
<1> SUFFICES ASSUME ParserInv, status = "parsing", Proper(program) PROVE pos \in PartStarts(program)
  BY Zenon DEF Synchronised
<1> DEFINE p == program
<1>1. p \in Seq(Items) /\ tokens = Marked(Tokens(p)) /\ Parsing(p, pos, layers, functions, open)
  BY Zenon DEF ParserInv
<1>2. ProperProgram(p, Len(p)) /\ Given(p)
  BY <1>1, ProperTaken, Zenon DEF Given
<1> QED BY <1>1, <1>2, ParsingPlace, Zenon

(***************************************************************************)
(* In a proper program every construct takes the tokens it consists of:    *)
(* do_logic and parse_function are always at the first token of an item, a *)
(* line or a closing brace.                                                *)
(***************************************************************************)
THEOREM StaysSynchronised == Spec => []Synchronised
<1> QED BY Inv, InvSynchronised, PTL

(***************************************************************************)
(* No proper program makes the parser throw, follow a null pointer or read *)
(* behind the last token.                                                  *)
(***************************************************************************)
THEOREM ProperAccepted == Spec => []Accepted
<1>1. ParserInv => Accepted
  BY Zenon DEF ParserInv
<1> QED BY <1>1, Inv, PTL

(***************************************************************************)
(* The functions that release_container hands over mean what the proper    *)
(* program says, with every name looked up by the translator afterwards.   *)
(***************************************************************************)
THEOREM ParsedFaithful == Spec => []Faithful
<1>1. ParserInv => Faithful
  BY Zenon DEF ParserInv
<1> QED BY <1>1, Inv, PTL

-----------------------------------------------------------------------------
(* Operands are resolved once. *)

LEMMA OpenSettled ==
    ASSUME NEW p, NEW i, NEW l, NEW f, NEW scope, Opened(p, i, l, f, scope), NEW k \in DOMAIN f.lines
    PROVE  SettledLine(f.lines[k])
<1> DEFINE m == Joins(LineMeanings(p, p[i].lines))[l]
<1>1. Matches(f.lines, m)
  BY Zenon DEF Opened
<1> HIDE DEF m
<1>2. DOMAIN f.lines = 1 .. Len(m)
  BY <1>1, Zenon DEF Matches, Indexed
<1> QED BY <1>1, <1>2, Zenon DEF Matches, LineMatches

\* The global names, and those of a function with m layers of names below it,
\* stand for the same whatever is declared.
LEMMA StillDenoted ==
    ASSUME NEW p, NEW i, NEW j, NEW m, GlobalsKept(layers, p, i), ScopesClean(layers, m),
           GlobalsKept(layers', p, j), ScopesClean(layers', m),
           NEW scope, scope + 1 \in 2 .. m, NEW line, SettledLine(line)
    PROVE  DenotedLine(layers', scope, line) = DenotedLine(layers, scope, line)
<1> DEFINE a == layers
           b == layers'
<1>1. GlobalsKept(a, p, i) /\ ScopesClean(a, m) /\ GlobalsKept(b, p, j) /\ ScopesClean(b, m)
  OBVIOUS
<1> HIDE DEF a, b
<1>2. DenotedLine(a, scope, line) = PlainLine(line)
  BY <1>1, DenotedPlain, Zenon
<1>3. DenotedLine(b, scope, line) = PlainLine(line)
  BY <1>1, DenotedPlain, Zenon
<1> QED BY <1>2, <1>3, Zenon DEF a, b

LEMMA ConstructResolves ==
    ASSUME ParserInv, Construct, Proper(program), open # NoFunction, NEW k \in DOMAIN open.lines
    PROVE  DenotedLine(layers', open.scope, open.lines[k]) = DenotedLine(layers, open.scope, open.lines[k])
<1> DEFINE p == program
           n == Len(p)
           Same == DenotedLine(layers', open.scope, open.lines[k])
                      = DenotedLine(layers, open.scope, open.lines[k])
<1>1. status = "parsing"
  BY ConstructParses, Zenon
<1>2. p \in Seq(Items) /\ tokens = Marked(Tokens(p)) /\ Parsing(p, pos, layers, functions, open)
  BY <1>1, Zenon DEF ParserInv
<1>3. ProperProgram(p, n) /\ Given(p) /\ n \in Nat
  BY <1>2, ProperTaken, Zenon DEF Given, ProperProgram
<1>4. PICK i \in 1 .. n : Has(p[i], "func") /\
          \E l \in 0 .. Len(p[i].lines) : Within(p, i, l, pos, layers, functions, open)
  BY <1>2, Zenon DEF Parsing, Between
<1>5. PICK l \in 0 .. Len(p[i].lines) : Within(p, i, l, pos, layers, functions, open)
  BY <1>4, Zenon
<1> HIDE DEF p
<1>6. Len(p[i].lines) \in Nat
  BY <1>3, <1>4, FuncAt, Zenon
<1>7. l \in Nat
  BY <1>6
<1>8. WithinFacts(p, i, l)
  BY <1>5, <1>7, WithinIs, Zenon
<1> DEFINE m == Layers(functions)
           line == open.lines[k]
<1>9. /\ GlobalsKept(layers, p, i - 1) /\ ScopesClean(layers, m) /\ open.scope + 1 \in 2 .. m
      /\ Opened(p, i, l, open, Scope(functions))
  BY <1>8, Zenon DEF WithinFacts
<1>10. SettledLine(line)
  BY <1>9, OpenSettled, Zenon
<1>11. \E j : GlobalsKept(layers', p, j) /\ ScopesClean(layers', m)
  <2>1. CASE l = Len(p[i].lines)
    <3>1. Between(p, i, pos', layers', functions', open') /\ Len(functions') = Len(functions) + 1
      BY <1>3, <1>5, <2>1, CloseDone, Zenon
    <3>2. GlobalsKept(layers', p, i) /\ ScopesClean(layers', Len(functions') + 1)
      BY <3>1, Zenon DEF Between
    <3>3. Len(functions) \in Nat /\ m = Len(functions) + 2
      BY <1>8, Zenon DEF WithinFacts, Layers
    <3> DEFINE a == Len(functions)
               b == Len(functions')
    <3>4. a \in Nat /\ m = a + 2 /\ b = a + 1
      BY <3>1, <3>3
    <3> HIDE DEF a, b, m
    <3>5. b + 1 = m
      BY <3>4
    <3> QED BY <3>2, <3>5, Zenon DEF b
  <2>2. CASE l # Len(p[i].lines)
    <3>1. l + 1 \in 1 .. Len(p[i].lines)
      BY <1>6, <2>2
    <3>2. LineDone(p, i, l)
      BY <1>3, <1>5, <1>7, <3>1, LineStep, Zenon
    <3> QED BY <3>2, Zenon DEF LineDone
  <2> QED BY <2>1, <2>2, Zenon
<1>12. PICK j : GlobalsKept(layers', p, j) /\ ScopesClean(layers', m)
  BY <1>11, Zenon
<1> DEFINE scope == open.scope
           h == i - 1
<1>13. GlobalsKept(layers, p, h) /\ scope + 1 \in 2 .. m
  BY <1>9
<1> HIDE DEF line, m, scope, h
<1>14. DenotedLine(layers', scope, line) = DenotedLine(layers, scope, line)
  BY <1>9, <1>10, <1>12, <1>13, StillDenoted
<1> QED BY <1>14, Zenon DEF line, scope

LEMMA StepResolves ==
    ParserInv /\ [Next]_vars =>
        [ open # NoFunction /\ status' # "parsed" /\ Proper(program) =>
              \A n \in DOMAIN open.lines :
                  DenotedLine(layers', open.scope, open.lines[n])
                      = DenotedLine(layers, open.scope, open.lines[n]) ]_vars
<1> SUFFICES ASSUME ParserInv, Next, open # NoFunction, Proper(program), NEW k \in DOMAIN open.lines
             PROVE  DenotedLine(layers', open.scope, open.lines[k])
                        = DenotedLine(layers, open.scope, open.lines[k])
  BY Zenon DEF vars
<1>1. CASE Parse
  <2>1. status \in {"idle", "parsed"}
    BY <1>1, Zenon DEF Parse
  <2>2. open = NoFunction
    BY <2>1, Zenon DEF ParserInv, Fresh
  <2> QED BY <2>2
<1>2. CASE Construct
  BY <1>2, ConstructResolves, Zenon
<1> QED BY <1>1, <1>2, Zenon DEF Next

(***************************************************************************)
(* No line of a proper program, nor the end of its function, changes what  *)
(* an operand that was parsed before stands for.                           *)
(***************************************************************************)
THEOREM ResolvesOnce == Spec => ResolvedOnce
<1> QED BY Inv, StepResolves, PTL DEF Spec, ResolvedOnce
=============================================================================
