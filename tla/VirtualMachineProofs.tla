------------------------ MODULE VirtualMachineProofs ------------------------
(***************************************************************************)
(* Theorems about the machine on bytes, for all sizes, frames and programs *)
(* that fit into the frame: memory holds bytes and nothing else whatever   *)
(* the program does, and cmp leaves the flags its operands ask for.        *)
(*                                                                         *)
(* Of programs that are framed and stay tame: the code in memory is the    *)
(* code loaded, what is fetched is an instruction of it from its first     *)
(* byte on, and the calls are those of Calls.                              *)
(***************************************************************************)
EXTENDS VirtualMachine, WellFoundedInduction, SequenceTheorems, TLAPS

-----------------------------------------------------------------------------
(* Induction and recursion, as in TranslatorProofs.                        *)

(***************************************************************************)
(* A set of numbers that holds 0 and the successor of each of its elements *)
(* holds all natural numbers.                                              *)
(***************************************************************************)
LEMMA SetInduction ==
    ASSUME NEW S, 0 \in S, \A n \in Nat : n \in S => n + 1 \in S
    PROVE  Nat \subseteq S
<1> DEFINE T == Nat \ S
           R == {p \in Nat \X Nat : p[1] < p[2]}
<1>1. IsWellFoundedOn(R, Nat)
  BY NatLessThanWellFounded DEF OpToRel
<1>2. SUFFICES ASSUME T # {} PROVE FALSE
  OBVIOUS
<1>3. PICK x \in T : \A y \in T : ~(<<y, x>> \in R)
  <2>1. T \subseteq Nat
    OBVIOUS
  <2> HIDE DEF T, R
  <2> QED BY <1>1, <1>2, <2>1, WFMin
<1>4. x # 0 /\ x \in Nat /\ x - 1 \in Nat
  BY <1>3
<1>5. x - 1 \in T
  BY <1>4, <1>3
<1>6. <<x - 1, x>> \in R
  BY <1>4
<1> QED
  BY <1>3, <1>5, <1>6

-----------------------------------------------------------------------------
\* g is what step makes of base along s, within V.
Runs(g, V, base, step, s) ==
    /\ g \in [0 .. Len(s) -> V]
    /\ g[0] = base
    /\ \A k \in 1 .. Len(s) : g[k] = step[<<g[k - 1], s[k]>>]

(***************************************************************************)
(* Every step that stays in a set can be taken along any sequence.         *)
(***************************************************************************)
LEMMA Recursion ==
    ASSUME NEW E, NEW s \in Seq(E), NEW V, NEW base \in V, NEW step \in [V \X E -> V]
    PROVE  \E g : Runs(g, V, base, step, s)
<1> DEFINE Upto(g, m) == /\ g \in [0 .. m -> V]
                         /\ g[0] = base
                         /\ \A k \in 1 .. m : g[k] = step[<<g[k - 1], s[k]>>]
           S == {m \in Nat : m <= Len(s) => \E g : Upto(g, m)}
<1>1. \E g : Upto(g, 0)
  <2> DEFINE h == [k \in 0 .. 0 |-> base]
  <2>1. h \in [0 .. 0 -> V] /\ h[0] = base
    OBVIOUS
  <2> HIDE DEF h
  <2>2. Upto(h, 0)
    BY <2>1
  <2> QED BY <2>2
<1>2. ASSUME NEW m \in Nat, m + 1 <= Len(s), NEW g, Upto(g, m)
      PROVE  \E h : Upto(h, m + 1)
  <2> DEFINE h == [k \in 0 .. m + 1 |-> IF k = m + 1 THEN step[<<g[m], s[m + 1]>>] ELSE g[k]]
  <2>1. s[m + 1] \in E /\ m \in 0 .. m /\ step[<<g[m], s[m + 1]>>] \in V
    BY <1>2
  <2>2. h \in [0 .. m + 1 -> V]
    BY <2>1, <1>2
  <2>3. h[m + 1] = step[<<g[m], s[m + 1]>>] /\ \A k \in 0 .. m : h[k] = g[k]
    BY <2>1
  <2> HIDE DEF h
  <2>4. Upto(h, m + 1)
    <3>1. h[0] = base
      BY <2>3, <1>2
    <3>2. ASSUME NEW k \in 1 .. m + 1 PROVE h[k] = step[<<h[k - 1], s[k]>>]
      <4>1. CASE k = m + 1
        BY <4>1, <2>3
      <4>2. CASE k \in 1 .. m
        BY <4>2, <2>3, <1>2
      <4> QED BY <4>1, <4>2
    <3> QED BY <2>2, <3>1, <3>2
  <2> QED BY <2>4
<1>3. Len(s) \in S
  <2> HIDE DEF Upto
  <2>1. 0 \in S /\ \A m \in Nat : m \in S => m + 1 \in S
    BY <1>1, <1>2
  <2> HIDE DEF S
  <2> QED BY <2>1, SetInduction
<1> QED
  BY <1>3 DEF Runs

-----------------------------------------------------------------------------
Bytes == 0 .. Byte - 1

-----------------------------------------------------------------------------
(* Quotients. *)

LEMMA DivMod ==
    ASSUME NEW x \in Int, NEW b \in Nat \ {0}
    PROVE  /\ x \div b \in Int
           /\ x % b \in 0 .. b - 1
           /\ x = b * (x \div b) + (x % b)
OBVIOUS

LEMMA DivUnique ==
    ASSUME NEW b \in Nat \ {0}, NEW q \in Int, NEW r \in 0 .. b - 1
    PROVE  (b * q + r) \div b = q /\ (b * q + r) % b = r
OBVIOUS

LEMMA DivDiv ==
    ASSUME NEW x \in Int, NEW s \in Nat \ {0}, NEW b \in Nat \ {0}
    PROVE  (x \div s) \div b = x \div (b * s)
<1> DEFINE r == x % s
           q == x \div s
           t == q % b
           p == q \div b
<1>1. x = s * q + r /\ r \in 0 .. s - 1 /\ q \in Int
  BY DivMod
<1>2. q = b * p + t /\ t \in 0 .. b - 1 /\ p \in Int
  BY <1>1, DivMod
<1> HIDE DEF r, q, t, p
<1>3. x = (b * s) * p + (s * t + r)
  BY <1>1, <1>2
<1>4. s * t + r \in 0 .. b * s - 1 /\ b * s \in Nat \ {0}
  <2>1. s * t <= s * (b - 1)
    BY <1>2
  <2>2. s * (b - 1) = b * s - s
    OBVIOUS
  <2> QED BY <2>1, <2>2, <1>1, <1>2
<1>5. x \div (b * s) = p
  <2> DEFINE c == b * s
             u == s * t + r
  <2>1. c \in Nat \ {0} /\ u \in 0 .. c - 1 /\ x = c * p + u /\ p \in Int
    BY <1>2, <1>3, <1>4
  <2> HIDE DEF c, u
  <2>2. x \div c = p
    BY <2>1, DivUnique
  <2> QED BY <2>2 DEF c, u
<1> QED
  BY <1>5 DEF q, p

LEMMA ModMul ==
    ASSUME NEW x \in Int, NEW b \in Nat \ {0}, NEW s \in Nat \ {0}
    PROVE  (x % b) + b * ((x \div b) % s) = x % (b * s)
<1> DEFINE r == x % b
           q == x \div b
           t == q % s
           p == q \div s
<1>1. x = b * q + r /\ r \in 0 .. b - 1 /\ q \in Int
  BY DivMod
<1>2. q = s * p + t /\ t \in 0 .. s - 1 /\ p \in Int
  BY <1>1, DivMod
<1> HIDE DEF r, q, t, p
<1>3. x = (b * s) * p + (b * t + r)
  BY <1>1, <1>2
<1>4. b * t + r \in 0 .. b * s - 1 /\ b * s \in Nat \ {0}
  <2>1. b * t <= b * (s - 1)
    BY <1>2
  <2>2. b * (s - 1) = b * s - b
    OBVIOUS
  <2> QED BY <2>1, <2>2, <1>1, <1>2
<1>5. x % (b * s) = b * t + r
  <2> DEFINE c == b * s
             u == b * t + r
  <2>1. c \in Nat \ {0} /\ u \in 0 .. c - 1 /\ x = c * p + u /\ p \in Int
    BY <1>2, <1>3, <1>4
  <2> HIDE DEF c, u
  <2>2. x % c = u
    BY <2>1, DivUnique
  <2> QED BY <2>2 DEF c, u
<1> QED
  BY <1>5 DEF r, q, t

-----------------------------------------------------------------------------
(* Powers. *)

LEMMA PowersEquation ==
    ASSUME NEW b \in Nat \ {0}, NEW n \in Nat
    PROVE  /\ Powers(b, n)[0] = 1
           /\ \A k \in 1 .. n : Powers(b, n)[k] = b * Powers(b, n)[k - 1]
           /\ \A k \in 0 .. n : Powers(b, n)[k] \in Nat \ {0}
<1> DEFINE s == [k \in 1 .. n |-> k]
           step == [p \in Nat \X Nat |-> b * p[1]]
           Eq(f) == f = [k \in 0 .. n |-> IF k = 0 THEN 1 ELSE b * f[k - 1]]
           S == {k \in Nat : k <= n => Powers(b, n)[k] \in Nat \ {0}}
<1>1. s \in Seq(Nat) /\ Len(s) = n /\ b \in Nat \ {0}
  OBVIOUS
<1>2. step \in [Nat \X Nat -> Nat] /\ \A p, k \in Nat : step[<<p, k>>] = b * p
  BY <1>1
<1>3. \A k \in 1 .. n : s[k] \in Nat
  OBVIOUS
<1> HIDE DEF s, step
<1>4. \E g : Eq(g)
  <2>1. PICK g : Runs(g, Nat, 1, step, s)
    <3>1. 1 \in Nat
      OBVIOUS
    <3> QED BY <1>1, <1>2, <3>1, Recursion
  <2>2. g \in [0 .. n -> Nat] /\ g[0] = 1
    BY <1>1, <2>1 DEF Runs
  <2>3. ASSUME NEW k \in 1 .. n PROVE g[k] = b * g[k - 1]
    <3>1. g[k] = step[<<g[k - 1], s[k]>>] /\ g[k - 1] \in Nat
      BY <1>1, <2>1, <2>2 DEF Runs
    <3> QED BY <1>2, <1>3, <3>1
  <2>4. Eq(g)
    BY <2>2, <2>3
  <2> QED BY <2>4
<1>5. Eq(Powers(b, n))
  BY <1>4 DEF Powers
<1>6. /\ Powers(b, n)[0] = 1
      /\ \A k \in 1 .. n : Powers(b, n)[k] = b * Powers(b, n)[k - 1]
  <2>1. \A k \in 0 .. n : Powers(b, n)[k] = IF k = 0 THEN 1 ELSE b * Powers(b, n)[k - 1]
    BY <1>5, Zenon
  <2> QED BY <2>1
<1>7. 0 \in S /\ \A k \in Nat : k \in S => k + 1 \in S
  BY <1>1, <1>6
<1>8. \A k \in 0 .. n : Powers(b, n)[k] \in Nat \ {0}
  <2>1. Nat \subseteq S
    <3> HIDE DEF S
    <3> QED BY <1>7, SetInduction
  <2> QED BY <2>1
<1> QED
  BY <1>6, <1>8

LEMMA PowerFacts ==
    ASSUME NEW b \in Nat \ {0}
    PROVE  /\ Powers(b, 0)[0] = 1
           /\ \A n \in Nat : /\ Powers(b, n)[n] \in Nat \ {0}
                            /\ Powers(b, n + 1)[n + 1] = b * Powers(b, n)[n]
<1>1. Powers(b, 0)[0] = 1
  BY PowersEquation
<1>2. ASSUME NEW n \in Nat PROVE Powers(b, n)[n] \in Nat \ {0}
  BY PowersEquation
<1>3. ASSUME NEW n \in Nat PROVE Powers(b, n + 1)[n + 1] = b * Powers(b, n)[n]
  <2> DEFINE S == {k \in Nat : k <= n => Powers(b, n + 1)[k] = Powers(b, n)[k]}
  <2>1. 0 \in S /\ \A k \in Nat : k \in S => k + 1 \in S
    <3>1. n + 1 \in Nat
      OBVIOUS
    <3> QED BY <3>1, PowersEquation
  <2>2. n \in S
    <3> HIDE DEF S
    <3> QED BY <2>1, SetInduction
  <2>3. Powers(b, n + 1)[n + 1] = b * Powers(b, n + 1)[n]
    <3>1. n + 1 \in Nat /\ n + 1 \in 1 .. n + 1 /\ (n + 1) - 1 = n
      OBVIOUS
    <3> QED BY <3>1, PowersEquation
  <2> QED BY <2>2, <2>3
<1> QED
  BY <1>1, <1>2, <1>3

LEMMA SpanFacts ==
    /\ Span(0) = 1
    /\ \A n \in Nat : Span(n) \in Nat \ {0} /\ Span(n + 1) = Byte * Span(n)
<1>1. Byte \in Nat \ {0}
  BY IsaConstants
<1> QED
  BY <1>1, PowerFacts DEF Span

LEMMA TwoToFacts ==
    /\ TwoTo(0) = 1
    /\ \A n \in Nat : TwoTo(n) \in Nat \ {0} /\ TwoTo(n + 1) = 2 * TwoTo(n)
<1>1. 2 \in Nat \ {0}
  OBVIOUS
<1> QED
  BY <1>1, PowerFacts DEF TwoTo

-----------------------------------------------------------------------------
(* Numbers in memory. *)

LEMMA PartByte ==
    ASSUME NEW v \in Int, NEW k \in Nat
    PROVE  Part(v, k) \in Bytes
<1>1. Byte \in Nat \ {0}
  BY IsaConstants
<1> Span(k) \in Nat \ {0}
  BY SpanFacts
<1>2. v \div Span(k) \in Int
  BY <1>1, DivMod
<1> QED
  BY <1>1, <1>2, DivMod DEF Part, Bytes

LEMMA LittleBytes ==
    ASSUME NEW v \in Int, NEW n \in Nat
    PROVE  /\ Little(v, n) \in Seq(Bytes)
           /\ Len(Little(v, n)) = n
           /\ \A k \in 1 .. n : Little(v, n)[k] = Part(v, k - 1)
<1>1. \A k \in 1 .. n : Part(v, k - 1) \in Bytes
  <2> SUFFICES ASSUME NEW k \in 1 .. n PROVE Part(v, k - 1) \in Bytes
    OBVIOUS
  <2>1. k - 1 \in Nat
    OBVIOUS
  <2> QED BY <2>1, PartByte
<1> QED
  BY <1>1 DEF Little

\* The bytes s lie at address a of m.
Lies(m, a, s) == \A k \in 1 .. Len(s) : m[a + k] = s[k]

(***************************************************************************)
(* The lower bytes of a number, read as a number.                          *)
(***************************************************************************)
LEMMA ValueOfLittle ==
    ASSUME NEW m, NEW a \in Nat, NEW v \in Int, NEW l \in Nat, NEW n \in 0 .. l,
           Lies(m, a, Little(v, l))
    PROVE  Value(m, a, n) = v % Span(n)
<1> DEFINE s == [k \in 1 .. n |-> Part(v, n - k)]
           step == [p \in Nat \X Nat |-> p[2] + (Byte * p[1])]
           U == Uppers(m, a, n)
           Eq(f) == f = [k \in 0 .. n |-> IF k = 0 THEN 0 ELSE m[a + n - k + 1] + Byte * f[k - 1]]
           S == {k \in Nat : k <= n => U[k] = (v \div Span(n - k)) % Span(k)}
<1>1. Byte \in Nat \ {0}
  BY IsaConstants
<1>2. ASSUME NEW k \in 1 .. n
      PROVE  Part(v, n - k) \in Nat /\ m[a + n - k + 1] = Part(v, n - k)
  <2>1. n - k \in Nat /\ n - k + 1 \in 1 .. n /\ a + n - k + 1 = a + (n - k + 1)
        /\ (n - k + 1) - 1 = n - k
    OBVIOUS
  <2>2. Part(v, n - k) \in Nat
    <3>1. \A i \in Nat : Part(v, i) \in Bytes
      BY PartByte
    <3>2. Bytes \subseteq Nat
      BY <1>1 DEF Bytes
    <3> QED BY <2>1, <3>1, <3>2
  <2>3. /\ Len(Little(v, l)) = l
        /\ \A i \in 1 .. l : Little(v, l)[i] = Part(v, i - 1)
    BY LittleBytes
  <2>4. m[a + (n - k + 1)] = Little(v, l)[n - k + 1]
    BY <2>1, <2>3 DEF Lies
  <2> QED BY <2>1, <2>2, <2>3, <2>4
<1>3. s \in Seq(Nat) /\ Len(s) = n /\ \A k \in 1 .. n : s[k] = Part(v, n - k)
  BY <1>2
<1>4. step \in [Nat \X Nat -> Nat] /\ \A p, q \in Nat : step[<<p, q>>] = q + (Byte * p)
  <2>1. \A p \in Nat \X Nat : p[2] + (Byte * p[1]) \in Nat
    BY <1>1
  <2> QED BY <2>1
<1> HIDE DEF s, step
<1>5. \E g : Eq(g)
  <2>1. PICK g : Runs(g, Nat, 0, step, s)
    <3>1. 0 \in Nat
      OBVIOUS
    <3> QED BY <1>3, <1>4, <3>1, Recursion
  <2>2. /\ g \in [0 .. n -> Nat] /\ g[0] = 0
        /\ \A k \in 1 .. n : g[k] = step[<<g[k - 1], s[k]>>]
    BY <1>3, <2>1 DEF Runs
  <2>3. ASSUME NEW k \in 1 .. n PROVE g[k] = m[a + n - k + 1] + Byte * g[k - 1]
    <3>1. g[k] = step[<<g[k - 1], s[k]>>] /\ g[k - 1] \in Nat
      <4>1. k - 1 \in 0 .. n
        OBVIOUS
      <4> QED BY <2>2, <4>1
    <3>2. s[k] \in Nat /\ m[a + n - k + 1] = s[k]
      BY <1>2, <1>3
    <3>3. step[<<g[k - 1], s[k]>>] = s[k] + (Byte * g[k - 1])
      BY <1>4, <3>1, <3>2
    <3> QED BY <3>1, <3>2, <3>3
  <2>4. Eq(g)
    BY <2>2, <2>3
  <2> QED BY <2>4
<1>6. Eq(U)
  BY <1>5 DEF Uppers
<1>7. \A k \in 0 .. n : U[k] = IF k = 0 THEN 0 ELSE m[a + n - k + 1] + Byte * U[k - 1]
  <2> HIDE DEF U
  <2> QED BY <1>6, Zenon
<1> HIDE DEF U
<1>8. 0 \in S
  <2>1. v \div Span(n) \in Int
    <3>1. Span(n) \in Nat \ {0}
      BY SpanFacts
    <3> QED BY <3>1
  <2>2. (v \div Span(n)) % 1 = 0
    BY <2>1
  <2> QED BY <1>7, <2>2, SpanFacts
<1>9. ASSUME NEW k \in Nat, k \in S PROVE k + 1 \in S
  <2> SUFFICES ASSUME k + 1 <= n
               PROVE  U[k + 1] = (v \div Span(n - (k + 1))) % Span(k + 1)
    OBVIOUS
  <2> DEFINE i == n - (k + 1)
             x == v \div Span(i)
  <2>1. i \in Nat /\ i + 1 = n - k /\ k + 1 \in 1 .. n /\ k + 1 \in 0 .. n /\ (k + 1) - 1 = k
    OBVIOUS
  <2>2. Span(i) \in Nat \ {0} /\ Span(n - k) = Byte * Span(i)
        /\ Span(k) \in Nat \ {0} /\ Span(k + 1) = Byte * Span(k)
    BY <2>1, SpanFacts
  <2>3. x \in Int
    <3> HIDE DEF i
    <3> QED BY <2>2, DivMod
  <2>4. v \div Span(n - k) = x \div Byte
    BY <2>2, <1>1, DivDiv
  <2>5. U[k] = (x \div Byte) % Span(k)
    <3>1. U[k] = (v \div Span(n - k)) % Span(k)
      BY <1>9, <2>1
    <3> QED BY <3>1, <2>4
  <2>6. U[k + 1] = (x % Byte) + Byte * ((x \div Byte) % Span(k))
    <3>1. U[k + 1] = Part(v, i) + Byte * U[k]
      BY <1>2, <1>7, <2>1
    <3> QED BY <3>1, <2>5 DEF Part
  <2> HIDE DEF x
  <2>7. U[k + 1] = x % (Byte * Span(k))
    BY <2>6, <2>2, <2>3, <1>1, ModMul
  <2> QED BY <2>7, <2>2 DEF x
<1>10. n \in S
  <2> HIDE DEF S
  <2> QED BY <1>8, <1>9, SetInduction
<1>11. v \div Span(0) = v
  BY SpanFacts
<1>12. U[n] = v % Span(n)
  BY <1>10, <1>11
<1> QED
  BY <1>12, Zenon DEF U, Value

(***************************************************************************)
(* A write inside a memory changes the bytes it writes and no other.       *)
(***************************************************************************)
LEMMA WriteFrame ==
    ASSUME NEW E, NEW m \in Seq(E), NEW bytes \in Seq(E), NEW a \in Nat,
           a + Len(bytes) <= Len(m)
    PROVE  /\ Write(m, a, bytes) \in Seq(E)
           /\ Len(Write(m, a, bytes)) = Len(m)
           /\ \A i \in 1 .. Len(m) :
                 Write(m, a, bytes)[i] = IF i \in a + 1 .. a + Len(bytes) THEN bytes[i - a]
                                         ELSE m[i]
<1> DEFINE p == SubSeq(m, 1, a)
           q == SubSeq(m, a + Len(bytes) + 1, Len(m))
<1>1. p \in Seq(E) /\ Len(p) = a /\ \A i \in 1 .. a : p[i] = m[i]
  OBVIOUS
<1>2. /\ q \in Seq(E) /\ Len(q) = Len(m) - a - Len(bytes)
      /\ \A i \in 1 .. Len(m) - a - Len(bytes) : q[i] = m[a + Len(bytes) + i]
  OBVIOUS
<1>3. Write(m, a, bytes) = (p \o bytes) \o q
  BY DEF Write
<1> HIDE DEF p, q
<1> DEFINE r == p \o bytes
<1>4. /\ r \in Seq(E) /\ Len(r) = a + Len(bytes)
      /\ \A i \in 1 .. a : r[i] = m[i]
      /\ \A i \in a + 1 .. a + Len(bytes) : r[i] = bytes[i - a]
  BY <1>1
<1> HIDE DEF r
<1> DEFINE w == r \o q
<1>5. w \in Seq(E) /\ Len(w) = Len(m)
  <2> r \in Seq(E) /\ q \in Seq(E)
    BY <1>2, <1>4
  <2>1. Len(w) = Len(r) + Len(q)
    OBVIOUS
  <2>2. Len(m) \in Nat /\ Len(bytes) \in Nat
    OBVIOUS
  <2> QED BY <1>2, <1>4, <2>1, <2>2
<1>6. \A i \in 1 .. Len(r) : w[i] = r[i]
  BY <1>2, <1>4
<1>7. \A i \in Len(r) + 1 .. Len(m) : w[i] = q[i - Len(r)]
  BY <1>2, <1>4
<1>8. w = Write(m, a, bytes)
  BY <1>3 DEF r
<1> HIDE DEF w
<1>9. \A i \in 1 .. Len(m) : w[i] = IF i \in a + 1 .. a + Len(bytes) THEN bytes[i - a] ELSE m[i]
  <2> SUFFICES ASSUME NEW i \in 1 .. Len(m)
               PROVE  w[i] = IF i \in a + 1 .. a + Len(bytes) THEN bytes[i - a] ELSE m[i]
    OBVIOUS
  <2>1. CASE i \in 1 .. Len(r)
    BY <2>1, <1>4, <1>6
  <2>2. CASE i \in Len(r) + 1 .. Len(m)
    <3>1. i - Len(r) \in 1 .. Len(m) - a - Len(bytes) /\ a + Len(bytes) + (i - Len(r)) = i
      BY <2>2, <1>4
    <3> QED BY <3>1, <2>2, <1>2, <1>4, <1>7
  <2> QED BY <2>1, <2>2, <1>4
<1> QED
  BY <1>5, <1>8, <1>9

-----------------------------------------------------------------------------
Memories == [1 .. FrameSize -> Bytes]

Registers == {AX, IP, BP, SP, GP}

-----------------------------------------------------------------------------
(* The frame as a sequence of bytes. *)

LEMMA SizesKnown ==
    /\ FrameSize \in Nat /\ RegistersSize \in Nat /\ RegistersSize <= FrameSize
    /\ Word \in Nat \ {0} /\ InstSize \in Nat /\ 2 <= InstSize /\ InstSize <= Word
    /\ 11 * Word <= RegistersSize
    /\ Span(Word) \in Nat \ {0} /\ FrameSize <= Span(Word) \div 4
    /\ Byte \in Nat /\ Byte >= 64 /\ Byte % 64 = 0
<1>1. /\ RegistersSize \in Nat /\ Word \in Nat \ {0} /\ InstSize \in 2 .. Word
      /\ RegistersSize >= 11 * Word
      /\ Byte \in Nat /\ Byte >= 64 /\ Byte % 64 = 0
  BY IsaConstants
<1>2. Span(Word) \in Nat \ {0}
  BY <1>1, SpanFacts
<1>3. FrameSize \in RegistersSize .. Span(Word) \div 4
  BY MachineConstants
<1>4. Span(Word) \div 4 \in Int
  BY <1>2
<1> QED
  BY <1>1, <1>2, <1>3, <1>4

LEMMA MemoryIsSeq ==
    ASSUME NEW m
    PROVE  m \in Memories <=> m \in Seq(Bytes) /\ Len(m) = FrameSize
<1>1. FrameSize \in Nat
  BY SizesKnown
<1>2. m \in Memories => m \in Seq(Bytes) /\ Len(m) = FrameSize
  BY <1>1 DEF Memories
<1>3. m \in Seq(Bytes) /\ Len(m) = FrameSize => m \in Memories
  BY <1>1 DEF Memories
<1> QED
  BY <1>2, <1>3

LEMMA WriteKeeps ==
    ASSUME NEW m \in Memories, NEW bytes \in Seq(Bytes), NEW a \in Nat,
           a + Len(bytes) <= FrameSize
    PROVE  /\ Write(m, a, bytes) \in Memories
           /\ \A i \in 1 .. FrameSize :
                 i \notin a + 1 .. a + Len(bytes) => Write(m, a, bytes)[i] = m[i]
<1>1. m \in Seq(Bytes) /\ Len(m) = FrameSize
  BY MemoryIsSeq
<1> DEFINE w == Write(m, a, bytes)
<1>2. /\ w \in Seq(Bytes) /\ Len(w) = Len(m)
      /\ \A i \in 1 .. Len(m) :
            w[i] = IF i \in a + 1 .. a + Len(bytes) THEN bytes[i - a] ELSE m[i]
  BY <1>1, WriteFrame
<1> HIDE DEF w
<1>3. w \in Memories
  BY <1>1, <1>2, MemoryIsSeq
<1> QED
  BY <1>1, <1>2, <1>3 DEF w

LEMMA PutKeeps ==
    ASSUME NEW m \in Memories, NEW a \in Nat, NEW n \in Nat, NEW v \in Int,
           a + n <= FrameSize
    PROVE  /\ Put(m, a, n, v) \in Memories
           /\ \A i \in 1 .. FrameSize : i \notin a + 1 .. a + n => Put(m, a, n, v)[i] = m[i]
<1>1. Little(v, n) \in Seq(Bytes) /\ Len(Little(v, n)) = n
  BY LittleBytes
<1> QED
  BY <1>1, WriteKeeps DEF Put

LEMMA CopyKeeps ==
    ASSUME NEW m \in Memories, NEW from \in Nat, NEW to \in Nat, NEW n \in Nat,
           from + n <= FrameSize, to + n <= FrameSize
    PROVE  Copy(m, from, to, n) \in Memories
<1>1. m \in Seq(Bytes) /\ Len(m) = FrameSize /\ FrameSize \in Nat
  BY MemoryIsSeq, SizesKnown
<1> DEFINE s == SubSeq(m, from + 1, from + n)
<1>2. s \in Seq(Bytes) /\ Len(s) = n
  BY <1>1
<1> HIDE DEF s
<1>3. Write(m, to, s) \in Memories
  BY <1>2, WriteKeeps
<1> QED
  BY <1>3 DEF Copy, s

(***************************************************************************)
(* n bytes of memory are a number of n bytes.                              *)
(***************************************************************************)
LEMMA ValueType ==
    ASSUME NEW m \in Seq(Bytes), NEW a \in Nat, NEW n \in Nat, a + n <= Len(m)
    PROVE  Value(m, a, n) \in 0 .. Span(n) - 1
<1> DEFINE s == [k \in 1 .. n |-> m[a + n - k + 1]]
           step == [p \in Nat \X Nat |-> p[2] + (Byte * p[1])]
           U == Uppers(m, a, n)
           Eq(f) == f = [k \in 0 .. n |-> IF k = 0 THEN 0 ELSE m[a + n - k + 1] + Byte * f[k - 1]]
           S == {k \in Nat : k <= n => U[k] \in 0 .. Span(k) - 1}
<1>1. Byte \in Nat \ {0}
  BY IsaConstants
<1>2. ASSUME NEW k \in 1 .. n PROVE m[a + n - k + 1] \in 0 .. Byte - 1
  <2>1. \A i \in 1 .. Len(m) : m[i] \in Bytes
    OBVIOUS
  <2>2. a + n - k + 1 \in 1 .. Len(m)
    OBVIOUS
  <2> QED BY <2>1, <2>2 DEF Bytes
<1>3. s \in Seq(Nat) /\ Len(s) = n /\ \A k \in 1 .. n : s[k] = m[a + n - k + 1]
  BY <1>1, <1>2
<1>4. step \in [Nat \X Nat -> Nat] /\ \A p, q \in Nat : step[<<p, q>>] = q + (Byte * p)
  <2>1. \A p \in Nat \X Nat : p[2] + (Byte * p[1]) \in Nat
    BY <1>1
  <2> QED BY <2>1
<1> HIDE DEF s, step
<1>5. \E g : Eq(g)
  <2>1. PICK g : Runs(g, Nat, 0, step, s)
    <3>1. 0 \in Nat
      OBVIOUS
    <3> QED BY <1>3, <1>4, <3>1, Recursion
  <2>2. g \in [0 .. n -> Nat] /\ g[0] = 0
    BY <1>3, <2>1 DEF Runs
  <2>3. ASSUME NEW k \in 1 .. n PROVE g[k] = m[a + n - k + 1] + Byte * g[k - 1]
    <3>1. g[k] = step[<<g[k - 1], s[k]>>] /\ g[k - 1] \in Nat
      BY <1>3, <2>1, <2>2 DEF Runs
    <3>2. s[k] \in Nat
      BY <1>3
    <3> QED BY <1>3, <1>4, <3>1, <3>2
  <2>4. Eq(g)
    BY <2>2, <2>3
  <2> QED BY <2>4
<1>6. Eq(U)
  BY <1>5 DEF Uppers
<1>7. \A k \in 0 .. n : U[k] = IF k = 0 THEN 0 ELSE m[a + n - k + 1] + Byte * U[k - 1]
  <2> HIDE DEF U
  <2> QED BY <1>6, Zenon
<1> HIDE DEF U
<1>8. 0 \in S
  <2>1. U[0] = 0
    <3>1. 0 \in 0 .. n
      OBVIOUS
    <3> QED BY <3>1, <1>7
  <2>2. 0 \in 0 .. Span(0) - 1
    BY SpanFacts
  <2> QED BY <2>1, <2>2
<1>9. ASSUME NEW k \in Nat, k \in S PROVE k + 1 \in S
  <2> SUFFICES ASSUME k + 1 <= n PROVE U[k + 1] \in 0 .. Span(k + 1) - 1
    OBVIOUS
  <2>1. U[k] \in 0 .. Span(k) - 1 /\ k + 1 \in 1 .. n /\ k + 1 \in 0 .. n /\ (k + 1) - 1 = k
    BY <1>9
  <2>2. U[k + 1] = m[a + n - (k + 1) + 1] + Byte * U[k]
    BY <1>7, <2>1
  <2>3. PICK b \in 0 .. Byte - 1 : U[k + 1] = b + Byte * U[k]
    BY <1>2, <2>1, <2>2
  <2>4. Span(k) \in Nat \ {0} /\ Span(k + 1) = Byte * Span(k)
    BY SpanFacts
  <2>5. Byte * U[k] <= Byte * (Span(k) - 1) /\ Byte * (Span(k) - 1) = Byte * Span(k) - Byte
        /\ Byte * U[k] \in Nat
    <3> DEFINE u == U[k]
               c == Span(k)
    <3>1. u \in Nat /\ c \in Nat /\ u <= c - 1 /\ Byte \in Nat
      BY <1>1, <2>1, <2>4
    <3> HIDE DEF u, c
    <3>2. Byte * u <= Byte * (c - 1) /\ Byte * (c - 1) = Byte * c - Byte /\ Byte * u \in Nat
      BY <3>1
    <3> QED BY <3>2 DEF u, c
  <2> QED BY <1>1, <2>3, <2>4, <2>5
<1>10. n \in S
  <2> HIDE DEF S
  <2> QED BY <1>8, <1>9, SetInduction
<1>11. U[n] \in 0 .. Span(n) - 1
  BY <1>10
<1> QED
  BY <1>11, Zenon DEF U, Value

-----------------------------------------------------------------------------
(* Registers and accesses. *)

LEMMA RegisterPlaces ==
    \A r \in Registers : r \in Nat /\ r + Word <= FrameSize
<1>1. AX = 0 /\ IP = 6 * Word /\ BP = 7 * Word /\ SP = 8 * Word /\ GP = 10 * Word
  BY DEF AX, IP, BP, SP, GP
<1> QED
  BY <1>1, SizesKnown DEF Registers

LEMMA RegType ==
    ASSUME NEW m \in Memories, NEW r \in Registers
    PROVE  Reg(m, r) \in Words
<1>1. m \in Seq(Bytes) /\ Len(m) = FrameSize
  BY MemoryIsSeq
<1>2. r \in Nat /\ r + Word <= FrameSize /\ Word \in Nat
  BY RegisterPlaces, SizesKnown
<1>3. Value(m, r, Word) \in 0 .. Span(Word) - 1
  BY <1>1, <1>2, ValueType
<1> QED
  BY <1>3 DEF Reg, Words

LEMMA SetKeeps ==
    ASSUME NEW m \in Memories, NEW r \in Registers, NEW v \in Int
    PROVE  Set(m, r, v) \in Memories
<1>1. r \in Nat /\ r + Word <= FrameSize /\ Word \in Nat
  BY RegisterPlaces, SizesKnown
<1>2. Put(m, r, Word, v) \in Memories
  BY <1>1, PutKeeps
<1> QED
  BY <1>2 DEF Set

LEMMA BumpKeeps ==
    ASSUME NEW m \in Memories, NEW r \in Registers, NEW d \in Int
    PROVE  Bump(m, r, d) \in Memories
<1>1. Reg(m, r) \in Words
  BY RegType
<1>2. Reg(m, r) + d \in Int
  BY <1>1, SizesKnown DEF Words
<1>3. Set(m, r, Reg(m, r) + d) \in Memories
  BY <1>2, SetKeeps
<1> QED
  BY <1>3 DEF Bump

LEMMA LocateFacts ==
    ASSUME NEW a \in Int, NEW n \in Nat
    PROVE  /\ Locate(a, n) \in Int
           /\ Locate(a, n) >= 0 => Locate(a, n) = a /\ a >= 0 /\ a + n <= FrameSize
BY SizesKnown DEF Locate, Thrown, Undefined

LEMMA DerefType ==
    ASSUME NEW m \in Memories, NEW a \in Int
    PROVE  /\ Deref(m, a) \in Int
           /\ Deref(m, a) >= 0 => Deref(m, a) \in Words
<1> DEFINE l == Locate(a, Word)
<1>1. Word \in Nat
  BY SizesKnown
<1>2. l \in Int /\ (l >= 0 => l = a /\ a >= 0 /\ a + Word <= FrameSize)
  BY <1>1, LocateFacts
<1>3. Deref(m, a) = IF l < 0 THEN l ELSE Value(m, l, Word)
  BY DEF Deref
<1> HIDE DEF l
<1>4. CASE l < 0
  BY <1>2, <1>3, <1>4
<1>5. CASE l >= 0
  <2>1. m \in Seq(Bytes) /\ Len(m) = FrameSize
    BY MemoryIsSeq
  <2>2. l \in Nat /\ l + Word <= Len(m)
    BY <1>2, <1>5, <2>1
  <2>3. Value(m, l, Word) \in 0 .. Span(Word) - 1
    BY <1>1, <2>1, <2>2, ValueType
  <2>4. Span(Word) \in Nat
    BY SizesKnown
  <2> QED BY <1>2, <1>3, <1>5, <2>3, <2>4 DEF Words
<1> QED
  BY <1>2, <1>4, <1>5

LEMMA DisplacedType ==
    ASSUME NEW a \in Int, NEW d \in Int
    PROVE  /\ Displaced(a, d) \in Int
           /\ d >= 0 => Below(a, d) \in Int
<1>1. Span(Word) \in Nat \ {0}
  BY SizesKnown
<1>2. (a + d) % Span(Word) \in Int /\ (a - d) % Span(Word) \in Int
  BY <1>1
<1> QED
  BY <1>2 DEF Displaced, Below

-----------------------------------------------------------------------------
(* Flags. *)

LEMMA FlagWeights ==
    /\ TwoTo(RF) = 1 /\ TwoTo(ZF) = 8 /\ TwoTo(SF) = 16
    /\ TwoTo(0) = 1 /\ TwoTo(2) = 4 /\ TwoTo(4) = 16
<1>1. TwoTo(0) = 1 /\ TwoTo(0 + 1) = 2 * TwoTo(0) /\ TwoTo(1 + 1) = 2 * TwoTo(1)
      /\ TwoTo(2 + 1) = 2 * TwoTo(2) /\ TwoTo(3 + 1) = 2 * TwoTo(3)
  BY TwoToFacts
<1>2. 0 + 1 = 1 /\ 1 + 1 = 2 /\ 2 + 1 = 3 /\ 3 + 1 = 4
  OBVIOUS
<1>3. TwoTo(0) = 1 /\ TwoTo(1) = 2 /\ TwoTo(2) = 4 /\ TwoTo(3) = 8 /\ TwoTo(4) = 16
  BY <1>1, <1>2
<1> QED
  BY <1>3 DEF RF, ZF, SF

\* The byte v with flag f set to b.
Flagged(v, f, b) == v + TwoTo(f) * ((IF b THEN 1 ELSE 0) - Bit(v, f))

LEMMA FlaggedFacts ==
    ASSUME NEW v \in Bytes, NEW f \in {RF, ZF, SF}, NEW b \in BOOLEAN
    PROVE  /\ Flagged(v, f, b) \in Bytes
           /\ Bit(Flagged(v, f, b), f) = IF b THEN 1 ELSE 0
           /\ f # ZF => Bit(Flagged(v, f, b), ZF) = Bit(v, ZF)
<1>1. Byte \in Nat /\ Byte >= 64 /\ Byte % 64 = 0
  BY SizesKnown
<1>2. v \in 0 .. Byte - 1
  BY DEF Bytes
<1>3. PICK q \in Nat : Byte = 64 * q
  <2>1. Byte = 64 * (Byte \div 64) /\ Byte \div 64 \in Nat
    BY <1>1
  <2> QED BY <2>1
<1>4. PICK h \in Nat, l \in 0 .. 31 : v = 32 * h + l /\ h < 2 * q
  <2>1. v = 32 * (v \div 32) + (v % 32) /\ v \div 32 \in Nat /\ v % 32 \in 0 .. 31
    BY <1>2
  <2>2. 32 * (v \div 32) < 32 * (2 * q)
    BY <1>2, <1>3, <2>1
  <2> QED BY <2>1, <2>2
<1>5. CASE f = RF
  BY <1>1, <1>2, <1>3, <1>4, <1>5, FlagWeights DEF Flagged, Bit, Bytes
<1>6. CASE f = ZF
  BY <1>1, <1>2, <1>3, <1>4, <1>6, FlagWeights DEF Flagged, Bit, Bytes
<1>7. CASE f = SF
  BY <1>1, <1>2, <1>3, <1>4, <1>7, FlagWeights DEF Flagged, Bit, Bytes
<1> QED
  BY <1>5, <1>6, <1>7

LEMMA SetFlagFacts ==
    ASSUME NEW m \in Memories, NEW f \in {RF, ZF, SF}, NEW b \in BOOLEAN
    PROVE  /\ SetFlag(m, f, b) \in Memories
           /\ Bit(SetFlag(m, f, b)[FLAGS + 1], f) = IF b THEN 1 ELSE 0
           /\ f # ZF => Bit(SetFlag(m, f, b)[FLAGS + 1], ZF) = Bit(m[FLAGS + 1], ZF)
<1>1. FLAGS + 1 \in 1 .. FrameSize
  BY SizesKnown DEF FLAGS
<1>2. m[FLAGS + 1] \in Bytes
  BY <1>1 DEF Memories
<1> DEFINE v == Flagged(m[FLAGS + 1], f, b)
<1>3. /\ v \in Bytes /\ Bit(v, f) = IF b THEN 1 ELSE 0
      /\ f # ZF => Bit(v, ZF) = Bit(m[FLAGS + 1], ZF)
  BY <1>2, FlaggedFacts
<1>4. SetFlag(m, f, b) = [m EXCEPT ![FLAGS + 1] = v]
  BY DEF SetFlag, Flagged
<1> HIDE DEF v
<1>5. SetFlag(m, f, b)[FLAGS + 1] = v
  BY <1>1, <1>4 DEF Memories
<1>6. SetFlag(m, f, b) \in Memories
  BY <1>1, <1>3, <1>4 DEF Memories
<1> QED
  BY <1>3, <1>5, <1>6

-----------------------------------------------------------------------------
(* The instruction at IP. *)

SizedNames == {"mov", "push", "pop", "not", "and", "or", "xor", "shl", "shr"}
TypedNames == {"add", "sub", "mul", "div", "mod", "cmp", "neg"}

LEMMA OfRange ==
    ASSUME NEW first, NEW names, NEW sign, NEW i \in CodesFrom(first, names, sign)
    PROVE  /\ \E k \in DOMAIN names : i.name = names[k]
           /\ \E k \in DOMAIN OperandSizes : i.size = OperandSizes[k]
           /\ i.sign = sign
<1>1. PICK j \in DOMAIN names, k \in DOMAIN OperandSizes :
         i = [name |-> names[j], size |-> OperandSizes[k], sign |-> sign,
              code |-> first + (k - 1) * CodeStride + j - 1]
  BY DEF CodesFrom
<1>2. i.name = names[j] /\ i.size = OperandSizes[k] /\ i.sign = sign
  BY <1>1
<1> QED
  BY <1>2

LEMMA InstructionKinds ==
    ASSUME NEW i \in Instructions
    PROVE  \/ i.name \in {"halt", "ncall", "fcall", "ret"} /\ i.size = 0 /\ i.sign = ""
           \/ i.name \in SizedNames /\ i.size \in 1 .. Word /\ i.sign = ""
           \/ i.name \in TypedNames /\ i.size \in 1 .. Word /\ i.sign \in {"u", "i"}
<1>1. \A k \in DOMAIN OperandSizes : OperandSizes[k] \in 1 .. Word
  BY IsaConstants
<1>2. \A k \in DOMAIN SystemNames : SystemNames[k] \in {"halt", "ncall", "fcall", "ret"}
  BY DEF SystemNames
<1>3. \A k \in DOMAIN SizeNames : SizeNames[k] \in SizedNames
  BY DEF SizeNames, SizedNames
<1>4. \A k \in DOMAIN TypeNames : TypeNames[k] \in TypedNames
  BY DEF TypeNames, TypedNames
<1>5. \A k \in DOMAIN SignedNames : SignedNames[k] \in TypedNames
  BY DEF SignedNames, TypeNames, TypedNames
<1>6. CASE i \in { [name |-> SystemNames[k], size |-> 0, sign |-> "", code |-> k - 1] :
                     k \in DOMAIN SystemNames }
  <2>1. PICK k \in DOMAIN SystemNames :
           i = [name |-> SystemNames[k], size |-> 0, sign |-> "", code |-> k - 1]
    BY <1>6
  <2>2. i.name = SystemNames[k] /\ i.size = 0 /\ i.sign = ""
    BY <2>1
  <2>3. i.name \in {"halt", "ncall", "fcall", "ret"}
    BY <2>2, <1>2
  <2> QED BY <2>2, <2>3
<1>7. CASE i \in CodesFrom(SizeCodes, SizeNames, "")
  <2>1. /\ \E k \in DOMAIN SizeNames : i.name = SizeNames[k]
        /\ \E k \in DOMAIN OperandSizes : i.size = OperandSizes[k]
        /\ i.sign = ""
    <3> DEFINE sign == ""
    <3>1. i \in CodesFrom(SizeCodes, SizeNames, sign)
      BY <1>7
    <3> HIDE DEF sign
    <3>2. /\ \E k \in DOMAIN SizeNames : i.name = SizeNames[k]
          /\ \E k \in DOMAIN OperandSizes : i.size = OperandSizes[k]
          /\ i.sign = sign
      BY <3>1, OfRange
    <3> QED BY <3>2 DEF sign
  <2>2. i.name \in SizedNames
    BY <2>1, <1>3
  <2>3. i.size \in 1 .. Word
    BY <2>1, <1>1
  <2> QED BY <2>1, <2>2, <2>3
<1>8. CASE i \in CodesFrom(UnsignedCodes, TypeNames, "u")
  <2>1. /\ \E k \in DOMAIN TypeNames : i.name = TypeNames[k]
        /\ \E k \in DOMAIN OperandSizes : i.size = OperandSizes[k]
        /\ i.sign = "u"
    BY <1>8, OfRange
  <2>2. i.name \in TypedNames
    BY <2>1, <1>4
  <2>3. i.size \in 1 .. Word
    BY <2>1, <1>1
  <2> QED BY <2>1, <2>2, <2>3
<1>9. CASE i \in CodesFrom(SignedCodes, SignedNames, "i")
  <2>1. /\ \E k \in DOMAIN SignedNames : i.name = SignedNames[k]
        /\ \E k \in DOMAIN OperandSizes : i.size = OperandSizes[k]
        /\ i.sign = "i"
    BY <1>9, OfRange
  <2>2. i.name \in TypedNames
    BY <2>1, <1>5
  <2>3. i.size \in 1 .. Word
    BY <2>1, <1>1
  <2> QED BY <2>1, <2>2, <2>3
<1> QED
  BY <1>6, <1>7, <1>8, <1>9 DEF Instructions

LEMMA InstKnown ==
    ASSUME Known
    PROVE  Inst \in Instructions
BY DEF Known, Inst, InstructionOf

LEMMA SizeType ==
    ASSUME Known
    PROVE  Size \in Nat /\ Size <= Word
<1>1. Word \in Nat
  BY SizesKnown
<1> DEFINE i == Inst
<1>2. i \in Instructions
  BY InstKnown
<1> HIDE DEF i
<1>3. i.size = 0 \/ i.size \in 1 .. Word
  BY <1>2, InstructionKinds
<1>4. i.size \in Nat /\ i.size <= Word
  BY <1>1, <1>3
<1> QED
  BY <1>4 DEF Size, i

\* The machine is at an instruction in its frame.
AtInst == mem \in Memories /\ Ip + InstSize < FrameSize

LEMMA IpType ==
    ASSUME AtInst
    PROVE  Ip \in Nat /\ \A k \in 1 .. 3 : Kind(k) \in 0 .. 3
<1>1. Ip \in Words
  BY RegType DEF AtInst, Ip, Registers
<1>2. Ip \in Nat /\ Ip + InstSize \in 1 .. FrameSize
  BY <1>1, SizesKnown DEF AtInst, Words
<1>3. mem[Ip + InstSize] \in Nat
  <2>1. mem[Ip + InstSize] \in Bytes
    BY <1>2 DEF AtInst, Memories
  <2> QED BY <2>1, SizesKnown DEF Bytes
<1>4. ASSUME NEW k \in 1 .. 3 PROVE Kind(k) \in 0 .. 3
  <2>1. TwoTo(2 * (k - 1)) \in Nat \ {0}
    BY TwoToFacts
  <2>2. mem[Ip + InstSize] \div TwoTo(2 * (k - 1)) \in Int
    BY <2>1, <1>3
  <2> QED BY <2>2 DEF Kind
<1> QED
  BY <1>2, <1>4

LEMMA ThroughType ==
    ASSUME AtInst, Known
    PROVE  /\ Through[0] = InstSize
           /\ \A k \in 1 .. 3 : Through[k] = Through[k - 1] + Taken(k)
           /\ \A k \in 0 .. 3 : Through[k] \in Nat
<1> DEFINE Eq(f) == f = [k \in 0 .. 3 |-> IF k = 0 THEN InstSize ELSE f[k - 1] + Taken(k)]
<1>1. \A k \in 1 .. 3 : Taken(k) \in Nat
  BY IpType, SizeType, SizesKnown
     DEF Taken, Width, Empty, Relative, RelativeWithDiff, Fixed
<1>2. Eq(Through)
  BY DEF Through
<1>3. \A k \in 0 .. 3 : Through[k] = IF k = 0 THEN InstSize ELSE Through[k - 1] + Taken(k)
  BY <1>2, Zenon
<1>4. /\ Through[0] = InstSize
      /\ \A k \in 1 .. 3 : Through[k] = Through[k - 1] + Taken(k)
  BY <1>3
<1>5. InstSize \in Nat
  BY SizesKnown
<1>6. /\ Through[1] = Through[0] + Taken(1) /\ Through[2] = Through[1] + Taken(2)
      /\ Through[3] = Through[2] + Taken(3)
  BY <1>4
<1>7. Through[0] \in Nat /\ Through[1] \in Nat /\ Through[2] \in Nat /\ Through[3] \in Nat
  BY <1>1, <1>4, <1>5, <1>6
<1> QED
  BY <1>4, <1>7

LEMMA OperandType ==
    ASSUME AtInst, Known, NEW k \in 1 .. 3
    PROVE  /\ Operand(k) \in Int
           /\ Operand(k) >= 0 => Operand(k) + Size <= FrameSize
<1> DEFINE p == Ip + Through[k - 1]
           n == Size
           displaced == Displaced(Deref(mem, Deref(mem, p)), Deref(mem, p + Word))
<1>1. n \in Nat /\ n <= Word
  BY SizeType
<1>2. p \in Nat /\ mem \in Memories
  <2>1. Ip \in Nat
    BY IpType
  <2>2. Through[k - 1] \in Nat
    <3>1. k - 1 \in 0 .. 3
      OBVIOUS
    <3> QED BY <3>1, ThroughType
  <2> QED BY <2>1, <2>2 DEF AtInst
<1>3. AX = 0 /\ AX + n <= FrameSize
  BY <1>1, SizesKnown DEF AX
<1>4. Thrown = -1
  BY DEF Thrown
<1>5. Kind(k) \in {Empty, Fixed, Relative, RelativeWithDiff}
  BY IpType DEF Empty, Fixed, Relative, RelativeWithDiff
<1>6. Deref(mem, p) \in Int /\ displaced \in Int
  <2>1. p \in Int /\ p + Word \in Int
    BY <1>2, SizesKnown
  <2>2. Deref(mem, p) \in Int /\ Deref(mem, p + Word) \in Int
    BY <1>2, <2>1, DerefType
  <2>3. Deref(mem, Deref(mem, p)) \in Int
    BY <1>2, <2>2, DerefType
  <2>4. displaced \in Int
    BY <2>2, <2>3, DisplacedType
  <2> QED BY <2>2, <2>4
<1>7. Operand(k) \in {Thrown, AX, Locate(p, n), Locate(Deref(mem, p), n), Locate(displaced, n)}
  BY <1>5 DEF Operand, Empty, Fixed, Relative, RelativeWithDiff
<1>8. p \in Int
  BY <1>2
<1> HIDE DEF p, n, displaced
<1>9. ASSUME NEW a \in Int
      PROVE  Locate(a, n) \in Int /\ (Locate(a, n) >= 0 => Locate(a, n) + n <= FrameSize)
  BY <1>1, LocateFacts
<1>10. /\ Operand(k) \in Int
       /\ Operand(k) >= 0 => Operand(k) + n <= FrameSize
  <2>1. CASE Operand(k) = Thrown
    BY <2>1, <1>4
  <2>2. CASE Operand(k) = AX
    BY <2>2, <1>3
  <2>3. CASE Operand(k) = Locate(p, n)
    BY <2>3, <1>8, <1>9
  <2>4. CASE Operand(k) = Locate(Deref(mem, p), n)
    BY <2>4, <1>6, <1>9
  <2>5. CASE Operand(k) = Locate(displaced, n)
    BY <2>5, <1>6, <1>9
  <2> QED BY <1>7, <2>1, <2>2, <2>3, <2>4, <2>5
<1> QED
  BY <1>10 DEF n

(***************************************************************************)
(* An operand that is in the frame is a number of the size of the          *)
(* instruction, signed where the instruction is.                           *)
(***************************************************************************)
LEMMA ArgType ==
    ASSUME AtInst, Known, NEW k \in 1 .. 3, Operand(k) >= 0
    PROVE  /\ Arg(k) \in Int
           /\ Inst.sign = "u" => Arg(k) \in 0 .. Span(Size) - 1
<1>1. Size \in Nat
  BY SizeType
<1>2. Operand(k) \in Nat /\ Operand(k) + Size <= FrameSize
  BY OperandType
<1>3. mem \in Seq(Bytes) /\ Len(mem) = FrameSize
  BY MemoryIsSeq DEF AtInst
<1>4. Value(mem, Operand(k), Size) \in 0 .. Span(Size) - 1
  BY <1>1, <1>2, <1>3, ValueType
<1>5. Span(Size) \in Nat
  BY <1>1, SpanFacts
<1>6. Signed(Value(mem, Operand(k), Size), Size) \in Int
  BY <1>4, <1>5 DEF Signed
<1> QED
  BY <1>4, <1>5, <1>6 DEF Arg

LEMMA ShapeKnown ==
    /\ Inst.name = "mov" => DOMAIN Shape = 1 .. 2
    /\ Inst.name \in {"push", "pop"} => DOMAIN Shape = 1 .. 1 /\ Len(Shape) = 1
    /\ Inst.name \in Binary => DOMAIN Shape = 1 .. 3 /\ Len(Shape) = 3
    /\ Inst.name \in Unary => DOMAIN Shape = 1 .. 2 /\ Len(Shape) = 2
    /\ Inst.name = "cmp" => DOMAIN Shape = 1 .. 2
<1>1. Inst.name = "mov" => Shape = <<Destination, Source>>
  BY DEF Shape, Binary, Unary
<1>2. Inst.name \in {"push", "pop"} => Shape = <<Optional>>
  BY DEF Shape, Binary, Unary
<1>3. Inst.name \in Binary => Shape = <<Destination, Source, Optional>>
  BY DEF Shape, Binary, Unary
<1>4. Inst.name \in Unary => Shape = <<Destination, Optional>>
  BY DEF Shape, Binary, Unary
<1>5. Inst.name = "cmp" => Shape = <<Source, Source>>
  BY DEF Shape, Binary, Unary
<1> QED
  BY <1>1, <1>2, <1>3, <1>4, <1>5

LEMMA PutArg ==
    ASSUME AtInst, Known, NEW k \in 1 .. 3, Operand(k) >= 0, NEW v \in Int, NEW d \in Int
    PROVE  Bump(Put(mem, Operand(k), Size, v), IP, d) \in Memories
<1>1. Size \in Nat
  BY SizeType
<1>2. Operand(k) \in Nat /\ Operand(k) + Size <= FrameSize
  BY OperandType
<1>3. mem \in Memories
  BY DEF AtInst
<1>4. Put(mem, Operand(k), Size, v) \in Memories
  BY <1>1, <1>2, <1>3, PutKeeps
<1>5. IP \in Registers
  BY DEF Registers
<1> QED
  BY <1>4, <1>5, BumpKeeps

-----------------------------------------------------------------------------
(* Results are numbers, of whatever bits. *)

LEMMA BitsOfType ==
    ASSUME NEW n \in Nat
    PROVE  BitsOf(n) \in Nat
<1> DEFINE b == CHOOSE b \in 1 .. Byte : TwoTo(b) = Byte
<1>1. b \in 1 .. Byte
  BY MachineConstants
<1>2. b \in Nat
  BY <1>1, SizesKnown
<1>3. BitsOf(n) = n * b
  BY DEF BitsOf
<1> HIDE DEF b
<1> QED
  BY <1>2, <1>3

LEMMA BitType ==
    ASSUME NEW x \in Int, NEW k \in Nat
    PROVE  Bit(x, k) \in 0 .. 1
<1>1. TwoTo(k) \in Nat \ {0}
  BY TwoToFacts
<1>2. x \div TwoTo(k) \in Int
  BY <1>1
<1> QED
  BY <1>2 DEF Bit

LEMMA BitwiseType ==
    ASSUME NEW name \in {"and", "or", "xor"}, NEW x \in Int, NEW y \in Int
    PROVE  Bitwise(name, x, y) \in Int
<1> DEFINE n == BitsOf(Word)
           term(k) == TwoTo(k - 1) * BitOf(name, Bit(x, k - 1), Bit(y, k - 1))
           s == [k \in 1 .. n |-> term(k)]
           step == [p \in Int \X Int |-> p[1] + p[2]]
           L == BitsUpTo(name, x, y)
           Eq(f) == f = [k \in 0 .. n |-> IF k = 0 THEN 0 ELSE f[k - 1] + term(k)]
           S == {k \in Nat : k <= n => L[k] \in Int}
<1>1. n \in Nat
  BY SizesKnown, BitsOfType
<1>2. ASSUME NEW k \in 1 .. n PROVE term(k) \in Int
  <2>1. k - 1 \in Nat
    BY <1>1
  <2>2. TwoTo(k - 1) \in Int /\ Bit(x, k - 1) \in 0 .. 1 /\ Bit(y, k - 1) \in 0 .. 1
    <3>1. TwoTo(k - 1) \in Nat \ {0}
      BY <2>1, TwoToFacts
    <3>2. Bit(x, k - 1) \in 0 .. 1 /\ Bit(y, k - 1) \in 0 .. 1
      BY <2>1, BitType
    <3> QED BY <3>1, <3>2
  <2>3. ASSUME NEW a \in 0 .. 1, NEW b \in 0 .. 1 PROVE BitOf(name, a, b) \in Int
    BY DEF BitOf
  <2>4. BitOf(name, Bit(x, k - 1), Bit(y, k - 1)) \in Int
    BY <2>2, <2>3
  <2> QED BY <2>2, <2>4
<1>3. Eq(L) <=> L = [k \in 0 .. n |-> IF k = 0 THEN 0 ELSE L[k - 1] + term(k)]
  OBVIOUS
<1>4. L = CHOOSE f : Eq(f)
  BY DEF BitsUpTo
<1>5. Bitwise(name, x, y) = L[n]
  BY DEF Bitwise
<1> HIDE DEF term, n, L
<1>6. s \in Seq(Int) /\ Len(s) = n /\ \A k \in 1 .. n : s[k] = term(k)
  BY <1>1, <1>2
<1>7. step \in [Int \X Int -> Int] /\ \A p, q \in Int : step[<<p, q>>] = p + q
  OBVIOUS
<1> HIDE DEF s, step
<1>8. \E g : Eq(g)
  <2>1. PICK g : Runs(g, Int, 0, step, s)
    <3>1. 0 \in Int
      OBVIOUS
    <3> QED BY <1>6, <1>7, <3>1, Recursion
  <2>2. g \in [0 .. n -> Int] /\ g[0] = 0
    BY <1>6, <2>1 DEF Runs
  <2>3. ASSUME NEW k \in 1 .. n PROVE g[k] = g[k - 1] + term(k)
    <3>1. g[k] = step[<<g[k - 1], s[k]>>] /\ g[k - 1] \in Int
      BY <1>1, <1>6, <2>1, <2>2 DEF Runs
    <3>2. s[k] = term(k) /\ s[k] \in Int
      BY <1>2, <1>6
    <3> QED BY <1>7, <3>1, <3>2
  <2>4. Eq(g)
    BY <1>1, <2>2, <2>3
  <2> QED BY <2>4
<1>9. Eq(L)
  BY <1>4, <1>8
<1>10. \A k \in 0 .. n : L[k] = IF k = 0 THEN 0 ELSE L[k - 1] + term(k)
  BY <1>9, Zenon
<1>11. 0 \in S
  BY <1>1, <1>10
<1>12. ASSUME NEW k \in Nat, k \in S PROVE k + 1 \in S
  BY <1>1, <1>2, <1>10, <1>12
<1>13. n \in S
  <2> HIDE DEF S
  <2> QED BY <1>1, <1>11, <1>12, SetInduction
<1> QED
  BY <1>1, <1>5, <1>13

LEMMA QuotientType ==
    ASSUME NEW x \in Int, NEW y \in Int, y # 0
    PROVE  Quotient(x, y) \in Int
<1> DEFINE a == IF x < 0 THEN -x ELSE x
           b == IF y < 0 THEN -y ELSE y
<1>1. a \in Nat /\ b \in Nat \ {0}
  OBVIOUS
<1>2. Quotient(x, y) = IF (x < 0) = (y < 0) THEN a \div b ELSE -(a \div b)
  BY DEF Quotient
<1> HIDE DEF a, b
<1>3. a \div b \in Int
  BY <1>1
<1> QED
  BY <1>2, <1>3

LEMMA ComputeType ==
    ASSUME NEW name \in Binary \cup Unary, NEW sign, NEW n \in Nat, NEW x \in Int, NEW y \in Int,
           IsDefined(name, sign, n, x, y)
    PROVE  Compute(name, x, y) \in Int
<1>1. CASE name \in {"add", "sub", "mul", "not", "neg"}
  BY <1>1 DEF Compute
<1>2. CASE name \in {"div", "mod"}
  <2>1. y # 0
    BY <1>2 DEF IsDefined
  <2>2. Quotient(x, y) \in Int
    BY <2>1, QuotientType
  <2> QED BY <1>2, <2>2 DEF Compute
<1>3. CASE name \in {"shl", "shr"}
  <2>1. y \in Nat
    <3>1. y \in 0 .. BitsOf(Wide(n)) - 1
      BY <1>3 DEF IsDefined
    <3>2. Wide(n) \in Nat
      BY MachineConstants DEF Wide
    <3>3. BitsOf(Wide(n)) \in Nat
      BY <3>2, BitsOfType
    <3> QED BY <3>1, <3>3
  <2>2. TwoTo(y) \in Nat \ {0}
    BY <2>1, TwoToFacts
  <2>3. x * TwoTo(y) \in Int /\ x \div TwoTo(y) \in Int
    BY <2>2
  <2> QED BY <1>3, <2>3 DEF Compute
<1>4. CASE name \in {"and", "or", "xor"}
  <2>1. Compute(name, x, y) = Bitwise(name, x, y)
    BY <1>4 DEF Compute
  <2> QED BY <1>4, <2>1, BitwiseType
<1> QED
  BY <1>1, <1>2, <1>3, <1>4 DEF Binary, Unary

-----------------------------------------------------------------------------
(* Every step keeps the memory a memory. *)

Statuses == {"idle", "running", "thrown", "undefined"}
Frames == Seq([ret : Nat, low : Int, base : Nat])

\* TypeOK is inductive with where the program comes from: what is run is a
\* program of exec, which ends in the frame, so that IP is in the frame, too.
Inv ==
    /\ TypeOK
    /\ program \in Programs \cup {NoProgram}
    /\ status = "running" => program \in Programs

Keeps == mem' \in Memories /\ status' \in Statuses /\ frames' \in Frames

LEMMA InvFields ==
    ASSUME Inv
    PROVE  mem \in Memories /\ status \in Statuses /\ frames \in Frames
BY DEF Inv, TypeOK, Memories, Bytes, Statuses, Frames

LEMMA OutcomeType ==
    ASSUME NEW fault
    PROVE  Outcome(fault) \in Statuses
BY DEF Outcome, Statuses

LEMMA Executing ==
    ASSUME Inv, NEW names, Executes(names)
    PROVE  /\ AtInst /\ Known /\ Inst.name \in names
           /\ program \in Programs
           /\ UNCHANGED <<program, runs>>
<1>1. status = "running" /\ Looping /\ Known /\ Inst.name \in names /\ UNCHANGED <<program, runs>>
  BY DEF Executes
<1>2. program \in Programs /\ mem \in Memories
  BY <1>1, InvFields DEF Inv
<1>3. Ip < EndOf(program) /\ EndOf(program) + Word <= FrameSize
  BY <1>1, <1>2, MachineConstants DEF Looping, End
<1>4. Ip \in Words /\ Words \subseteq Int
  BY <1>2, RegType, SizesKnown DEF Ip, Registers, Words
<1>5. EndOf(program) \in Int
  <2>1. Len(program.bytes) \in Nat
    BY <1>2, MachineConstants
  <2> QED BY <2>1, SizesKnown DEF EndOf
<1>6. Ip + InstSize < FrameSize
  BY <1>3, <1>4, <1>5, SizesKnown
<1> QED
  BY <1>1, <1>2, <1>6 DEF AtInst

LEMMA LeavesKeeps ==
    ASSUME Inv, NEW accesses, NEW m, Leaves(accesses, m),
           (\A k \in DOMAIN accesses : ~(accesses[k] < 0)) => m \in Memories
    PROVE  mem' \in Memories /\ status' \in Statuses
<1>1. mem \in Memories /\ status \in Statuses
  BY InvFields
<1> DEFINE faults == {k \in DOMAIN accesses : accesses[k] < 0}
           first == CHOOSE k \in faults : \A j \in faults : k <= j
<1>2. IF faults = {} THEN mem' = m /\ UNCHANGED status
      ELSE status' = Outcome(accesses[first]) /\ UNCHANGED mem
  BY DEF Leaves
<1>3. CASE faults = {}
  <2>1. \A k \in DOMAIN accesses : ~(accesses[k] < 0)
    BY <1>3
  <2> HIDE DEF faults, first
  <2> QED BY <1>1, <1>2, <1>3, <2>1
<1>4. CASE faults # {}
  <2> HIDE DEF faults, first
  <2> QED BY <1>1, <1>2, <1>4, OutcomeType
<1> QED
  BY <1>3, <1>4

LEMMA RegistersIn ==
    AX \in Registers /\ IP \in Registers /\ BP \in Registers /\ SP \in Registers
BY DEF Registers

LEMMA HaltKeeps ==
    ASSUME Inv, Halt
    PROVE  Keeps
<1> DEFINE m == Bump(SetFlag(mem, RF, FALSE), IP, InstSize)
<1>1. mem \in Memories /\ frames \in Frames
  BY InvFields
<1>2. SetFlag(mem, RF, FALSE) \in Memories
  BY <1>1, SetFlagFacts
<1>3. m \in Memories
  <2> DEFINE halted == SetFlag(mem, RF, FALSE)
  <2>1. halted \in Memories
    BY <1>2
  <2> HIDE DEF halted
  <2>3. InstSize \in Int
    BY SizesKnown
  <2>2. Bump(halted, IP, InstSize) \in Memories
    BY <2>1, <2>3, RegistersIn, BumpKeeps
  <2> QED BY <2>2 DEF halted
<1>4. Leaves(<<>>, m) /\ UNCHANGED frames
  BY DEF Halt
<1> HIDE DEF m
<1>5. mem' \in Memories /\ status' \in Statuses
  BY <1>3, <1>4, LeavesKeeps
<1> QED
  BY <1>1, <1>4, <1>5 DEF Keeps

LEMMA NcallKeeps ==
    ASSUME Inv, Ncall
    PROVE  Keeps
<1> DEFINE key == Deref(mem, Ip + InstSize)
<1>1. mem \in Memories /\ frames \in Frames /\ status \in Statuses
  BY InvFields
<1>2. CASE key < 0
  <2>1. Leaves(<<key>>, mem) /\ UNCHANGED frames
    BY <1>2 DEF Ncall
  <2> HIDE DEF key
  <2>2. mem' \in Memories /\ status' \in Statuses
    BY <1>1, <2>1, LeavesKeeps
  <2> QED BY <1>1, <2>1, <2>2 DEF Keeps
<1>3. CASE ~(key < 0) /\ key \in Natives
  <2>1. PICK v \in Results : mem' = Bump(Set(Set(mem, AX, v), IP, 0), IP, InstSize + Word)
    BY <1>3 DEF Ncall
  <2>2. UNCHANGED <<status, frames>>
    BY <1>3 DEF Ncall
  <2>3. v \in Int /\ 0 \in Int /\ InstSize + Word \in Int
    BY SizesKnown, MachineConstants DEF Words
  <2>4. Set(mem, AX, v) \in Memories
    BY <1>1, <2>3, RegistersIn, SetKeeps
  <2>5. Set(Set(mem, AX, v), IP, 0) \in Memories
    BY <2>3, <2>4, RegistersIn, SetKeeps
  <2>6. mem' \in Memories
    BY <2>1, <2>3, <2>5, RegistersIn, BumpKeeps
  <2> QED BY <1>1, <2>2, <2>6 DEF Keeps
<1>4. CASE ~(key < 0) /\ key \notin Natives
  <2>1. status' = "thrown" /\ mem' = Set(mem, IP, 1) /\ UNCHANGED frames
    BY <1>4 DEF Ncall
  <2>2. Set(mem, IP, 1) \in Memories
    BY <1>1, RegistersIn, SetKeeps
  <2> QED BY <1>1, <2>1, <2>2 DEF Keeps, Statuses
<1> QED
  BY <1>2, <1>3, <1>4

LEMMA CallingFacts ==
    ASSUME NEW m \in Memories, Reg(m, SP) + Word <= FrameSize
    PROVE  Calling(m) \in Memories
<1> DEFINE pushed == Set(m, Reg(m, SP), Reg(m, BP))
           linked == WithLink(m)
           back == Reg(linked, IP) + InstSize + Word
<1>1. Reg(m, SP) \in Nat /\ Reg(m, BP) \in Int /\ Word \in Nat /\ Word \in Int
  BY RegType, RegistersIn, SizesKnown DEF Words
<1>2. pushed \in Memories
  BY <1>1, PutKeeps DEF Set
<1>3. linked = Bump(pushed, SP, Word)
  BY DEF WithLink
<1> HIDE DEF pushed, linked
<1>4. linked \in Memories
  BY <1>1, <1>2, <1>3, RegistersIn, BumpKeeps
<1>5. Reg(linked, IP) \in Words
  BY <1>4, RegistersIn, RegType
<1>6. back \in Int
  BY <1>5, SizesKnown DEF Words
<1>7. Calling(m) = Set(linked, BP, back)
  BY DEF Calling, linked
<1> HIDE DEF back
<1> QED
  BY <1>4, <1>6, <1>7, RegistersIn, SetKeeps

LEMMA FcallKeeps ==
    ASSUME Inv, Fcall
    PROVE  Keeps
<1> DEFINE calling == Calling(mem)
           entry == Deref(calling, Displaced(Reg(calling, IP), InstSize))
           frame == [ret  |-> Ip + InstSize + Word, low |-> Sp - ArgsOf(entry), base |-> Sp + Word]
<1>1. mem \in Memories /\ frames \in Frames /\ status \in Statuses /\ AtInst /\ program \in Programs
  BY InvFields, Executing DEF Fcall
<1>2. Ip \in Nat /\ Sp \in Nat /\ Word \in Nat /\ InstSize \in Nat
  BY <1>1, IpType, RegType, RegistersIn, SizesKnown DEF Sp, Words
<1>3. /\ Locate(Sp, Word) < 0 => Leaves(<<Locate(Sp, Word)>>, mem) /\ UNCHANGED frames
      /\ ~(Locate(Sp, Word) < 0) /\ entry < 0 =>
            status' = Outcome(entry) /\ mem' = calling /\ UNCHANGED frames
      /\ ~(Locate(Sp, Word) < 0) /\ ~(entry < 0) =>
            mem' = Set(calling, IP, entry) /\ frames' = Append(frames, frame) /\ UNCHANGED status
  BY DEF Fcall
<1>4. CASE Locate(Sp, Word) < 0
  <2>1. Leaves(<<Locate(Sp, Word)>>, mem) /\ UNCHANGED frames
    BY <1>3, <1>4
  <2>2. mem' \in Memories /\ status' \in Statuses
    BY <1>1, <2>1, LeavesKeeps
  <2> QED BY <1>1, <2>1, <2>2 DEF Keeps
<1>5. CASE ~(Locate(Sp, Word) < 0)
  <2>1. Sp + Word <= FrameSize
    <3>1. Locate(Sp, Word) \in Int /\ (Locate(Sp, Word) >= 0 => Sp + Word <= FrameSize)
      BY <1>2, LocateFacts
    <3> QED BY <1>5, <3>1
  <2>2. calling \in Memories
    BY <1>1, <2>1, CallingFacts DEF Sp
  <2>3. entry \in Int /\ (entry >= 0 => entry \in Words)
    <3> HIDE DEF calling
    <3>1. Reg(calling, IP) \in Int
      BY <2>2, RegistersIn, RegType, SizesKnown DEF Words
    <3>2. Displaced(Reg(calling, IP), InstSize) \in Int
      BY <1>2, <3>1, DisplacedType
    <3> QED BY <2>2, <3>2, DerefType
  <2>4. ArgsOf(entry) \in Nat
    BY <1>1, MachineConstants DEF ArgsOf
  <2>5. frame \in [ret : Nat, low : Int, base : Nat]
    <3> HIDE DEF entry
    <3> QED BY <1>2, <2>4
  <2> HIDE DEF calling, entry, frame
  <2>6. CASE entry < 0
    BY <1>1, <1>3, <1>5, <2>2, <2>6, OutcomeType DEF Keeps
  <2>7. CASE ~(entry < 0)
    <3>1. Set(calling, IP, entry) \in Memories
      BY <2>2, <2>3, RegistersIn, SetKeeps
    <3>2. Append(frames, frame) \in Frames
      BY <1>1, <2>5 DEF Frames
    <3> QED BY <1>1, <1>3, <1>5, <2>7, <3>1, <3>2 DEF Keeps
  <2> QED BY <2>6, <2>7
<1> QED
  BY <1>4, <1>5

LEMMA ResultKeeps ==
    ASSUME AtInst, NEW size \in Int, ~(ResultFault(size) < 0)
    PROVE  WithResult(size) \in Memories
<1>1. mem \in Memories
  BY DEF AtInst
<1>2. CASE Kind(1) = Empty
  BY <1>1, <1>2 DEF WithResult
<1>3. CASE Kind(1) # Empty
  <2>1. size >= 0 /\ Ip + InstSize + size <= FrameSize /\ ResultAt(size) + size <= FrameSize
    <3>1. ResultFault(size) = IF size < 0 THEN size
                              ELSE IF Ip + InstSize + size > FrameSize
                                         \/ ResultAt(size) + size > FrameSize
                              THEN -2 ELSE 0
      BY <1>3 DEF ResultFault, Undefined
    <3>2. ResultAt(size) \in Nat /\ Ip \in Nat
      BY IpType, SizesKnown DEF ResultAt, AX, GP
    <3> QED BY <3>1, <3>2, SizesKnown
  <2>2. size \in Nat /\ Ip + InstSize \in Nat /\ ResultAt(size) \in Nat
    BY <2>1, IpType, SizesKnown DEF ResultAt, AX, GP
  <2>3. Copy(mem, Ip + InstSize, ResultAt(size), size) \in Memories
    BY <1>1, <2>1, <2>2, CopyKeeps
  <2> QED BY <1>3, <2>3 DEF WithResult
<1> QED
  BY <1>2, <1>3

LEMMA ReturnedKeeps ==
    ASSUME NEW m \in Memories, NEW args \in Int
    PROVE  Returned(m, args) \in Memories
<1> DEFINE dropped == Bump(m, SP, -(args + Word))
<1>1. -(args + Word) \in Int
  BY SizesKnown
<1>2. dropped \in Memories
  BY <1>1, RegistersIn, BumpKeeps
<1>3. Returned(m, args) = Set(dropped, IP, Reg(dropped, BP))
  BY DEF Returned
<1> HIDE DEF dropped
<1>4. Reg(dropped, BP) \in Int
  BY <1>2, RegistersIn, RegType, SizesKnown DEF Words
<1> QED
  BY <1>2, <1>3, <1>4, RegistersIn, SetKeeps

LEMMA WithoutLast ==
    ASSUME NEW E, NEW s \in Seq(E)
    PROVE  SubSeq(s, 1, Len(s) - 1) \in Seq(E)
<1>1. CASE s = <<>>
  BY <1>1
<1>2. CASE s # <<>>
  BY <1>2
<1> QED
  BY <1>1, <1>2

LEMMA RetKeeps ==
    ASSUME Inv, Ret
    PROVE  Keeps
<1> DEFINE start == FuncStart
           args == HeaderWord(start, 2 * Word)
           size == HeaderWord(start, Word)
           result == WithResult(size)
           returned == Returned(result, args)
           link == Deref(returned, Displaced(Reg(returned, SP), args))
<1>1. mem \in Memories /\ frames \in Frames /\ status \in Statuses /\ AtInst
  BY InvFields, Executing DEF Ret
<1>2. start \in Int
  <2>1. Bp \in Int /\ Word \in Int /\ Word >= 0
    BY <1>1, RegType, RegistersIn, SizesKnown DEF Bp, Words
  <2>2. Below(Bp, Word) \in Int
    BY <2>1, DisplacedType
  <2> QED BY <1>1, <2>2, DerefType DEF FuncStart
<1>3. ASSUME NEW back \in Nat PROVE HeaderWord(start, back) \in Int
  <2> HIDE DEF start
  <2>1. Below(start, back) \in Int
    BY <1>2, DisplacedType
  <2> QED BY <1>1, <2>1, DerefType DEF HeaderWord
<1>4. args \in Int /\ size \in Int
  <2>1. Word \in Nat /\ 2 * Word \in Nat
    BY SizesKnown
  <2> QED BY <1>3, <2>1
<1>5. frames' \in Frames
  <2>1. frames' = IF status' = "running" /\ frames # <<>>
                  THEN SubSeq(frames, 1, Len(frames) - 1) ELSE frames
    BY DEF Ret
  <2>2. SubSeq(frames, 1, Len(frames) - 1) \in Frames
    BY <1>1, WithoutLast DEF Frames
  <2> QED BY <1>1, <2>1, <2>2
<1>6. IF start < 0 \/ args < 0 \/ ResultFault(size) < 0
      THEN Leaves(<<start, args, ResultFault(size)>>, mem)
      ELSE IF link < 0 THEN status' = Outcome(link) /\ mem' = returned
      ELSE UNCHANGED status /\ mem' = Set(returned, BP, link)
  BY DEF Ret
<1>7. CASE start < 0 \/ args < 0 \/ ResultFault(size) < 0
  <2>1. Leaves(<<start, args, ResultFault(size)>>, mem)
    BY <1>6, <1>7
  <2> HIDE DEF start, args, size
  <2>2. mem' \in Memories /\ status' \in Statuses
    BY <1>1, <2>1, LeavesKeeps
  <2> QED BY <1>5, <2>2 DEF Keeps
<1>8. CASE ~(start < 0 \/ args < 0 \/ ResultFault(size) < 0)
  <2>1. IF link < 0 THEN status' = Outcome(link) /\ mem' = returned
        ELSE UNCHANGED status /\ mem' = Set(returned, BP, link)
    BY <1>6, <1>8
  <2>2. result \in Memories
    <3> HIDE DEF start, args, size
    <3> QED BY <1>1, <1>4, <1>8, ResultKeeps
  <2>3. returned \in Memories
    <3> HIDE DEF args, result
    <3> QED BY <1>4, <2>2, ReturnedKeeps
  <2>4. link \in Int
    <3> HIDE DEF args, returned
    <3>1. Reg(returned, SP) \in Int
      BY <2>3, RegistersIn, RegType, SizesKnown DEF Words
    <3>2. Displaced(Reg(returned, SP), args) \in Int
      BY <1>4, <3>1, DisplacedType
    <3> QED BY <2>3, <3>2, DerefType
  <2> HIDE DEF returned, link
  <2>5. Set(returned, BP, link) \in Memories
    BY <2>3, <2>4, RegistersIn, SetKeeps
  <2> QED BY <1>1, <1>5, <2>1, <2>3, <2>5, OutcomeType DEF Keeps
<1> QED
  BY <1>7, <1>8

LEMMA OperandsType ==
    ASSUME AtInst, Known, NEW n \in 1 .. 3, DOMAIN Shape = 1 .. n
    PROVE  /\ Operands \in [1 .. n -> Int]
           /\ \A k \in 1 .. n : Operands[k] = Operand(k)
<1>1. \A k \in 1 .. n : Operand(k) \in Int
  BY OperandType
<1> QED
  BY <1>1 DEF Operands

LEMMA BumpTwice ==
    ASSUME NEW m \in Memories, NEW d \in Int, NEW e \in Int
    PROVE  Bump(Bump(m, SP, d), IP, e) \in Memories
<1> DEFINE t == Bump(m, SP, d)
<1>1. t \in Memories
  BY RegistersIn, BumpKeeps
<1> HIDE DEF t
<1>2. Bump(t, IP, e) \in Memories
  BY <1>1, RegistersIn, BumpKeeps
<1> QED
  BY <1>2 DEF t

LEMMA ThroughInt ==
    ASSUME AtInst, Known
    PROVE  Through[1] \in Int /\ Through[2] \in Int /\ Through[3] \in Int
<1>1. \A k \in 0 .. 3 : Through[k] \in Nat
  BY ThroughType
<1> QED
  BY <1>1

LEMMA MovKeeps ==
    ASSUME Inv, Mov
    PROVE  Keeps
<1> DEFINE m == Bump(Put(mem, Operand(1), Size, Arg(2)), IP, Through[2])
<1>1. frames \in Frames /\ AtInst /\ Known /\ Inst.name = "mov"
  BY InvFields, Executing DEF Mov
<1>2. Leaves(Operands, m) /\ UNCHANGED frames
  BY DEF Mov
<1>3. Operands \in [1 .. 2 -> Int] /\ Operands[1] = Operand(1) /\ Operands[2] = Operand(2)
  BY <1>1, ShapeKnown, OperandsType
<1>4. ASSUME \A k \in DOMAIN Operands : ~(Operands[k] < 0)
      PROVE  m \in Memories
  <2>1. Operand(1) >= 0 /\ Operand(2) >= 0
    BY <1>3, <1>4
  <2>2. Arg(2) \in Int /\ Through[2] \in Int
    BY <1>1, <2>1, ArgType, ThroughInt
  <2> QED BY <1>1, <2>1, <2>2, PutArg
<1> HIDE DEF m
<1>5. mem' \in Memories /\ status' \in Statuses
  BY <1>2, <1>4, LeavesKeeps
<1> QED
  BY <1>1, <1>2, <1>5 DEF Keeps

LEMMA ListIsSeq ==
    ASSUME NEW E, NEW n \in Nat, NEW f \in [1 .. n -> E]
    PROVE  f \in Seq(E) /\ Len(f) = n
OBVIOUS

\* t is s and e behind it.
Longer(s, e, t) ==
    DOMAIN t = 1 .. Len(s) + 1 /\ t[Len(s) + 1] = e /\ \A k \in 1 .. Len(s) : t[k] = s[k]

LEMMA Appended ==
    ASSUME NEW E, NEW s \in Seq(E), NEW e \in E
    PROVE  Longer(s, e, Append(s, e))
BY DEF Longer

LEMMA AppendFaults ==
    ASSUME NEW f \in [1 .. 1 -> Int], NEW e \in Int,
           \A k \in DOMAIN Append(f, e) : ~(Append(f, e)[k] < 0)
    PROVE  f[1] >= 0 /\ e >= 0
<1>1. f \in Seq(Int) /\ Len(f) = 1
  <2> DEFINE n == 1
  <2>1. n \in Nat /\ f \in [1 .. n -> Int]
    OBVIOUS
  <2> HIDE DEF n
  <2>2. f \in Seq(Int) /\ Len(f) = n
    BY <2>1, ListIsSeq
  <2> QED BY <2>2 DEF n
<1> DEFINE s == Append(f, e)
<1>2. DOMAIN s = 1 .. 2 /\ s[1] = f[1] /\ s[2] = e
  <2>1. Longer(f, e, s)
    BY <1>1, Appended
  <2> HIDE DEF s
  <2> QED BY <1>1, <2>1 DEF Longer
<1> HIDE DEF s
<1>3. ~(s[1] < 0) /\ ~(s[2] < 0)
  <2>1. \A k \in DOMAIN s : ~(s[k] < 0)
    BY DEF s
  <2> QED BY <1>2, <2>1
<1> QED
  BY <1>2, <1>3

LEMMA PushKeeps ==
    ASSUME Inv, Push
    PROVE  Keeps
<1>1. mem \in Memories /\ frames \in Frames /\ AtInst /\ Known /\ Inst.name = "push"
  BY InvFields, Executing DEF Push
<1>2. Sp \in Nat /\ Size \in Nat /\ InstSize \in Int
  BY <1>1, RegType, RegistersIn, SizeType, SizesKnown DEF Sp, Words
<1>3. UNCHANGED frames
  BY DEF Push
<1>4. CASE Kind(1) = Empty
  <2> DEFINE m == Bump(Bump(mem, SP, Size), IP, InstSize)
  <2>1. Leaves(<<>>, m)
    BY <1>4 DEF Push
  <2>2. m \in Memories
    BY <1>1, <1>2, BumpTwice
  <2> HIDE DEF m
  <2>3. mem' \in Memories /\ status' \in Statuses
    BY <2>1, <2>2, LeavesKeeps
  <2> QED BY <1>1, <1>3, <2>3 DEF Keeps
<1>5. CASE Kind(1) # Empty
  <2> DEFINE l == Locate(Sp, Size)
             accesses == Append(Operands, l)
             pushed == Put(mem, Sp, Size, Arg(1))
             m == Bump(Bump(pushed, SP, Size), IP, Through[1])
  <2>1. Leaves(accesses, m)
    BY <1>5 DEF Push
  <2>2. Operands \in [1 .. 1 -> Int] /\ Operands[1] = Operand(1)
    BY <1>1, ShapeKnown, OperandsType
  <2>3. l \in Int /\ (l >= 0 => Sp + Size <= FrameSize)
    BY <1>2, LocateFacts
  <2>4. ASSUME \A k \in DOMAIN accesses : ~(accesses[k] < 0)
        PROVE  m \in Memories
    <3>1. Operand(1) >= 0 /\ l >= 0
      <4> HIDE DEF l
      <4> QED BY <2>2, <2>3, <2>4, AppendFaults
    <3>2. Arg(1) \in Int /\ Through[1] \in Int /\ Size \in Int
      BY <1>1, <1>2, <3>1, ArgType, ThroughInt
    <3>3. pushed \in Memories
      BY <1>1, <1>2, <2>3, <3>1, <3>2, PutKeeps
    <3> HIDE DEF pushed
    <3> QED BY <3>2, <3>3, BumpTwice
  <2> HIDE DEF accesses, m
  <2>5. mem' \in Memories /\ status' \in Statuses
    BY <2>1, <2>4, LeavesKeeps
  <2> QED BY <1>1, <1>3, <2>5 DEF Keeps
<1> QED
  BY <1>4, <1>5

LEMMA PopKeeps ==
    ASSUME Inv, Pop
    PROVE  Keeps
<1> DEFINE accesses == Append(Operands, Popped)
           copied == Copy(mem, Popped, Operand(1), Size)
           m == Bump(Bump(copied, SP, -Size), IP, Through[1])
<1>1. mem \in Memories /\ frames \in Frames /\ AtInst /\ Known /\ Inst.name = "pop"
  BY InvFields, Executing DEF Pop
<1>2. Leaves(accesses, m) /\ UNCHANGED frames
  BY DEF Pop
<1>3. Sp \in Int /\ Size \in Nat
  BY <1>1, RegType, RegistersIn, SizeType, SizesKnown DEF Sp, Words
<1>4. Operands \in [1 .. 1 -> Int] /\ Operands[1] = Operand(1)
  BY <1>1, ShapeKnown, OperandsType
<1>5. Popped \in Int /\ (Popped >= 0 => Popped + Size <= FrameSize)
  <2>1. Below(Sp, Size) \in Int
    BY <1>3, DisplacedType
  <2>2. Deref(mem, Below(Sp, Size)) \in Int
    BY <1>1, <2>1, DerefType
  <2> DEFINE a == Deref(mem, Below(Sp, Size))
  <2>3. a \in Int /\ Popped = Locate(a, Size)
    BY <2>2 DEF Popped
  <2> HIDE DEF a
  <2> QED BY <1>3, <2>3, LocateFacts
<1>6. ASSUME \A k \in DOMAIN accesses : ~(accesses[k] < 0)
      PROVE  m \in Memories
  <2>1. Operand(1) >= 0 /\ Popped >= 0
    BY <1>4, <1>5, <1>6, AppendFaults
  <2>2. Operand(1) \in Nat /\ Operand(1) + Size <= FrameSize
    <3>1. 1 \in 1 .. 3
      OBVIOUS
    <3> QED BY <1>1, <2>1, <3>1, OperandType
  <2>3. copied \in Memories
    BY <1>1, <1>3, <1>5, <2>1, <2>2, CopyKeeps
  <2>4. Through[1] \in Int /\ -Size \in Int
    BY <1>1, <1>3, ThroughInt
  <2> HIDE DEF copied
  <2> QED BY <2>3, <2>4, BumpTwice
<1> HIDE DEF accesses, m
<1>7. mem' \in Memories /\ status' \in Statuses
  BY <1>2, <1>6, LeavesKeeps
<1> QED
  BY <1>1, <1>2, <1>7 DEF Keeps

LEMMA ArithmeticKeeps ==
    ASSUME Inv, Arithmetic
    PROVE  Keeps
<1> DEFINE x == IF Extended THEN Arg(2) ELSE Arg(1)
           y == IF Inst.name \in Unary THEN 0 ELSE IF Extended THEN Arg(3) ELSE Arg(2)
           v == Compute(Inst.name, x, y)
           m == Bump(Put(mem, Operand(1), Size, v), IP, Through[Len(Shape)])
           defined == IsDefined(Inst.name, Inst.sign, Size, x, y)
<1>1. mem \in Memories /\ frames \in Frames /\ AtInst /\ Known /\ Inst.name \in Binary \cup Unary
  BY InvFields, Executing DEF Arithmetic
<1>2. /\ UNCHANGED frames
      /\ IF Located /\ ~defined THEN status' = "undefined" /\ UNCHANGED mem
         ELSE Leaves(Operands, m)
  BY DEF Arithmetic
<1>3. Size \in Nat
  BY <1>1, SizeType
<1>4. CASE Located /\ ~defined
  BY <1>1, <1>2, <1>4 DEF Keeps, Statuses
<1>5. CASE ~(Located /\ ~defined)
  <2>1. PICK n \in 2 .. 3 : DOMAIN Shape = 1 .. n /\ Len(Shape) = n
                             /\ (Inst.name \notin Unary => n = 3)
    <3>1. 2 \in 2 .. 3 /\ 3 \in 2 .. 3
      OBVIOUS
    <3>2. CASE Inst.name \in Binary
      BY <3>1, <3>2, ShapeKnown
    <3>3. CASE Inst.name \in Unary
      BY <3>1, <3>3, ShapeKnown
    <3> QED BY <1>1, <3>2, <3>3
  <2>2. Operands \in [1 .. n -> Int] /\ \A k \in 1 .. n : Operands[k] = Operand(k)
    <3>1. n \in 1 .. 3
      OBVIOUS
    <3> QED BY <1>1, <2>1, <3>1, OperandsType
  <2>3. ASSUME \A k \in DOMAIN Operands : ~(Operands[k] < 0)
        PROVE  m \in Memories
    <3>1. \A k \in 1 .. n : Operand(k) >= 0
      BY <2>2, <2>3
    <3>2. Located
      BY <2>1, <3>1 DEF Located
    <3>3. defined
      BY <1>5, <3>2
    <3>4. \A k \in 1 .. n : Arg(k) \in Int
      BY <1>1, <3>1, ArgType
    <3>5. x \in Int /\ y \in Int
      <4>1. Arg(1) \in Int /\ Arg(2) \in Int
        BY <3>4
      <4>2. Inst.name \notin Unary => Arg(3) \in Int
        BY <2>1, <3>4
      <4> QED BY <4>1, <4>2
    <3> HIDE DEF x, y
    <3>6. v \in Int
      BY <1>1, <1>3, <3>3, <3>5, ComputeType
    <3>7. Operand(1) >= 0 /\ 1 \in 1 .. 3
      BY <3>1
    <3>8. Through[Len(Shape)] \in Int
      <4>1. Len(Shape) \in {2, 3}
        BY <2>1
      <4> QED BY <1>1, <4>1, ThroughInt
    <3> HIDE DEF v
    <3> QED BY <1>1, <3>6, <3>7, <3>8, PutArg
  <2>4. Leaves(Operands, m)
    BY <1>2, <1>5
  <2> HIDE DEF m
  <2>5. mem' \in Memories /\ status' \in Statuses
    BY <2>3, <2>4, LeavesKeeps
  <2> QED BY <1>1, <1>2, <2>5 DEF Keeps
<1> QED
  BY <1>4, <1>5

\* The memory after a comparison with the difference d.
Compared(d) ==
    Bump(SetFlag(SetFlag(mem, ZF, d = 0), SF, SignBits(Size, d) # 0), IP, Through[2])

LEMMA ComparedKeeps ==
    ASSUME AtInst, Known, NEW d
    PROVE  Compared(d) \in Memories
<1> DEFINE zero == (d = 0)
           negative == (SignBits(Size, d) # 0)
           first == SetFlag(mem, ZF, zero)
           second == SetFlag(first, SF, negative)
<1>1. zero \in BOOLEAN /\ negative \in BOOLEAN /\ mem \in Memories
  BY DEF AtInst
<1>2. Compared(d) = Bump(second, IP, Through[2])
  BY DEF Compared
<1> HIDE DEF zero, negative
<1>3. first \in Memories
  BY <1>1, SetFlagFacts
<1> HIDE DEF first
<1>4. second \in Memories
  BY <1>1, <1>3, SetFlagFacts
<1> HIDE DEF second
<1> QED
  BY <1>2, <1>4, ThroughInt, RegistersIn, BumpKeeps

LEMMA CmpLeaves ==
    ASSUME Inv, Cmp
    PROVE  LET d == Difference(Inst.sign, Size, Arg(1), Arg(2))
           IN /\ UNCHANGED frames
              /\ IF Located /\ ~IsDefined("sub", Inst.sign, Size, Arg(1), Arg(2))
                 THEN status' = "undefined" /\ UNCHANGED mem
                 ELSE Leaves(Operands, Compared(d))
BY DEF Cmp, Compared

LEMMA CmpKeeps ==
    ASSUME Inv, Cmp
    PROVE  Keeps
<1> DEFINE m == Compared(Difference(Inst.sign, Size, Arg(1), Arg(2)))
<1>1. mem \in Memories /\ frames \in Frames /\ AtInst /\ Known
  BY InvFields, Executing DEF Cmp
<1>2. m \in Memories
  BY <1>1, ComparedKeeps
<1>3. UNCHANGED frames /\ ((status' = "undefined" /\ UNCHANGED mem) \/ Leaves(Operands, m))
  BY CmpLeaves
<1> HIDE DEF m
<1>4. CASE status' = "undefined" /\ UNCHANGED mem
  BY <1>1, <1>3, <1>4 DEF Keeps, Statuses
<1>5. CASE Leaves(Operands, m)
  <2>1. mem' \in Memories /\ status' \in Statuses
    BY <1>2, <1>5, LeavesKeeps
  <2> QED BY <1>1, <1>3, <2>1 DEF Keeps
<1> QED
  BY <1>3, <1>4, <1>5

(***************************************************************************)
(* What exec loads is a memory: the program ends in the frame, and its     *)
(* entry point is a word of it.                                            *)
(***************************************************************************)
LEMMA ExecKeeps ==
    ASSUME Inv, NEW p \in Programs, ExecOn(p)
    PROVE  mem' \in Memories
<1> DEFINE code == SubSeq(p.bytes, Word + 1, Len(p.bytes))
           loaded == Loaded(mem, p.bytes)
           flagged == SetFlag(loaded, RF, TRUE)
           stacked == Set(flagged, SP, EndOf(p))
           entry == Value(p.bytes, 0, Word) + RegistersSize
<1>1. mem \in Memories
  BY InvFields
<1>2. p.bytes \in Seq(Bytes) /\ Len(p.bytes) >= Word /\ EndOf(p) + Word <= FrameSize
  BY MachineConstants DEF Bytes
<1>3. Word \in Nat /\ RegistersSize \in Nat /\ Len(p.bytes) \in Nat
  BY <1>2, SizesKnown
<1>4. code \in Seq(Bytes) /\ Len(code) = Len(p.bytes) - Word
  BY <1>2, <1>3
<1>5. RegistersSize + Word + Len(code) <= FrameSize /\ EndOf(p) \in Int
  <2>1. EndOf(p) = RegistersSize + Len(p.bytes)
    BY DEF EndOf
  <2> DEFINE l == Len(p.bytes)
             c == Len(code)
  <2>2. l \in Nat /\ c = l - Word /\ RegistersSize + l + Word <= FrameSize /\ FrameSize \in Nat
    BY <1>2, <1>3, <1>4, <2>1, SizesKnown
  <2> HIDE DEF l, c
  <2>3. RegistersSize + Word + c <= FrameSize /\ RegistersSize + l \in Int
    BY <1>3, <2>2
  <2> QED BY <2>1, <2>3 DEF l, c
<1>6. loaded = Write(mem, RegistersSize + Word, code)
  BY DEF Loaded
<1> HIDE DEF code, loaded
<1>7. loaded \in Memories
  <2> DEFINE a == RegistersSize + Word
  <2>1. a \in Nat /\ a + Len(code) <= FrameSize /\ loaded = Write(mem, a, code)
    BY <1>3, <1>5, <1>6
  <2> HIDE DEF a
  <2> QED BY <1>1, <1>4, <2>1, WriteKeeps
<1>8. flagged \in Memories
  BY <1>7, SetFlagFacts
<1> HIDE DEF flagged
<1>9. stacked \in Memories
  BY <1>5, <1>8, RegistersIn, SetKeeps
<1>10. entry \in Int
  <2>1. Value(p.bytes, 0, Word) \in 0 .. Span(Word) - 1
    BY <1>2, <1>3, ValueType
  <2> QED BY <1>3, <2>1, SizesKnown
<1>11. mem' = Set(stacked, IP, entry)
  BY DEF ExecOn, loaded, flagged
<1> HIDE DEF stacked, entry
<1> QED
  BY <1>9, <1>10, <1>11, RegistersIn, SetKeeps

LEMMA StepKeeps ==
    ASSUME Inv, Step
    PROVE  Keeps /\ UNCHANGED <<program, runs>> /\ status = "running"
<1>1. CASE Halt
  BY <1>1, HaltKeeps, Executing DEF Halt, Executes
<1>2. CASE Ncall
  BY <1>2, NcallKeeps DEF Ncall, Executes
<1>3. CASE Fcall
  BY <1>3, FcallKeeps DEF Fcall, Executes
<1>4. CASE Ret
  BY <1>4, RetKeeps DEF Ret, Executes
<1>5. CASE Mov
  BY <1>5, MovKeeps DEF Mov, Executes
<1>6. CASE Push
  BY <1>6, PushKeeps DEF Push, Executes
<1>7. CASE Pop
  BY <1>7, PopKeeps DEF Pop, Executes
<1>8. CASE Arithmetic
  BY <1>8, ArithmeticKeeps DEF Arithmetic, Executes
<1>9. CASE Cmp
  BY <1>9, CmpKeeps DEF Cmp, Executes
<1>10. CASE Raise
  BY <1>10, InvFields DEF Raise, Keeps, Statuses
<1> QED
  BY <1>1, <1>2, <1>3, <1>4, <1>5, <1>6, <1>7, <1>8, <1>9, <1>10 DEF Step

LEMMA InitInv ==
    ASSUME Init
    PROVE  Inv
<1>1. mem \in [1 .. FrameSize -> 0 .. Byte - 1]
  <2>1. 0 \in 0 .. Byte - 1
    BY SizesKnown
  <2> QED BY <2>1 DEF Init
<1>2. program = NoProgram /\ program.bytes \in Seq(0 .. Byte - 1)
  BY DEF Init, NoProgram
<1>3. runs \in 0 .. MaxRuns /\ status = "idle" /\ frames \in Seq([ret : Nat, low : Int, base : Nat])
  BY MachineConstants DEF Init
<1> QED
  BY <1>1, <1>2, <1>3 DEF Inv, TypeOK

LEMMA NextInv ==
    ASSUME Inv, [Next]_vars
    PROVE  Inv'
<1>1. mem \in Memories /\ frames \in Frames /\ status \in Statuses
  BY InvFields
<1>2. Memories = [1 .. FrameSize -> 0 .. Byte - 1] /\ Frames = Seq([ret : Nat, low : Int, base : Nat])
      /\ Statuses = {"idle", "running", "thrown", "undefined"}
  BY DEF Memories, Bytes, Frames, Statuses
<1>3. CASE Exec
  <2>1. PICK p \in Programs : ExecOn(p)
    BY <1>3 DEF Exec
  <2>2. mem' \in Memories
    BY <2>1, ExecKeeps
  <2>3. program' = p /\ status' = "running" /\ frames' = <<>> /\ runs' = runs + 1 /\ runs < MaxRuns
    BY <2>1 DEF ExecOn
  <2>4. runs' \in 0 .. MaxRuns
    BY <2>3, MachineConstants DEF Inv, TypeOK
  <2>5. p.bytes \in Seq(0 .. Byte - 1)
    BY MachineConstants
  <2>6. frames' \in Frames
    BY <2>3 DEF Frames
  <2> QED BY <1>2, <2>2, <2>3, <2>4, <2>5, <2>6 DEF Inv, TypeOK
<1>4. CASE Step
  <2>1. Keeps /\ UNCHANGED <<program, runs>> /\ status = "running"
    BY <1>4, StepKeeps
  <2> QED BY <1>2, <2>1 DEF Keeps, Inv, TypeOK
<1>5. CASE Finish
  BY <1>1, <1>2, <1>5 DEF Finish, Inv, TypeOK
<1>6. CASE UNCHANGED vars
  BY <1>6 DEF vars, Inv, TypeOK
<1> QED
  BY <1>3, <1>4, <1>5, <1>6 DEF Next

LEMMA Invariance == Spec => []Inv
<1>1. Init => Inv
  BY InitInv
<1>2. Inv /\ [Next]_vars => Inv'
  BY NextInv
<1> QED
  BY <1>1, <1>2, PTL DEF Spec

(***************************************************************************)
(* Whatever a program does, its faults included, memory is a frame of      *)
(* bytes of the size it had: no instruction writes past the frame, and no  *)
(* result is anything but bytes.                                           *)
(***************************************************************************)
THEOREM TypeCorrect == Spec => []TypeOK
<1>1. Inv => TypeOK
  BY DEF Inv
<1> QED
  BY <1>1, Invariance, PTL

-----------------------------------------------------------------------------
(* Comparisons. *)

LEMMA FlagsKept ==
    ASSUME NEW m \in Memories, NEW d \in Int
    PROVE  Bump(m, IP, d)[FLAGS + 1] = m[FLAGS + 1]
<1> DEFINE v == Reg(m, IP) + d
<1>1. v \in Int
  BY RegType, RegistersIn, SizesKnown DEF Words
<1>2. IP \in Nat /\ Word \in Nat /\ IP + Word <= FrameSize
  BY RegisterPlaces, RegistersIn, SizesKnown
<1>3. FLAGS + 1 \in 1 .. FrameSize /\ FLAGS + 1 \notin IP + 1 .. IP + Word
  BY SizesKnown DEF FLAGS, IP
<1>4. Bump(m, IP, d) = Put(m, IP, Word, v)
  BY DEF Bump, Set
<1> HIDE DEF v
<1>5. \A i \in 1 .. FrameSize : i \notin IP + 1 .. IP + Word => Put(m, IP, Word, v)[i] = m[i]
  BY <1>1, <1>2, PutKeeps
<1> QED
  BY <1>3, <1>4, <1>5

LEMMA ComparedFlags ==
    ASSUME AtInst, Known, NEW d
    PROVE  /\ Bit(Compared(d)[FLAGS + 1], ZF) = IF d = 0 THEN 1 ELSE 0
           /\ Bit(Compared(d)[FLAGS + 1], SF) = IF SignBits(Size, d) # 0 THEN 1 ELSE 0
<1> DEFINE zero == (d = 0)
           negative == (SignBits(Size, d) # 0)
           first == SetFlag(mem, ZF, zero)
           second == SetFlag(first, SF, negative)
<1>1. zero \in BOOLEAN /\ negative \in BOOLEAN /\ mem \in Memories
  BY DEF AtInst
<1>2. Compared(d) = Bump(second, IP, Through[2])
  BY DEF Compared
<1>3. (zero <=> d = 0) /\ (negative <=> SignBits(Size, d) # 0)
  OBVIOUS
<1> HIDE DEF zero, negative
<1>4. first \in Memories /\ Bit(first[FLAGS + 1], ZF) = IF zero THEN 1 ELSE 0
  BY <1>1, SetFlagFacts
<1> HIDE DEF first
<1>5. SF # ZF
  BY DEF SF, ZF
<1>6. /\ second \in Memories
      /\ Bit(second[FLAGS + 1], SF) = IF negative THEN 1 ELSE 0
      /\ Bit(second[FLAGS + 1], ZF) = Bit(first[FLAGS + 1], ZF)
  BY <1>1, <1>4, <1>5, SetFlagFacts
<1> HIDE DEF second
<1>7. Compared(d)[FLAGS + 1] = second[FLAGS + 1]
  BY <1>2, <1>6, ThroughInt, FlagsKept
<1> QED
  BY <1>3, <1>4, <1>6, <1>7

LEMMA CmpRan ==
    ASSUME Inv, Next, Ran("cmp")
    PROVE  /\ AtInst /\ Known /\ Inst.name = "cmp" /\ Operand(1) >= 0 /\ Operand(2) >= 0
           /\ mem' = Compared(Difference(Inst.sign, Size, Arg(1), Arg(2)))
<1>1. status = "running" /\ Looping /\ Known /\ Inst.name = "cmp" /\ status' = "running"
  BY DEF Ran
<1>2. Cmp
  <2>1. ~Exec /\ ~Finish /\ ~Raise
    BY <1>1 DEF Exec, ExecOn, Finish, Raise
  <2>2. ~Halt /\ ~Ncall /\ ~Fcall /\ ~Ret /\ ~Mov /\ ~Push /\ ~Pop
    BY <1>1 DEF Halt, Ncall, Fcall, Ret, Mov, Push, Pop, Executes
  <2>3. ~Arithmetic
    BY <1>1 DEF Arithmetic, Executes, Binary, Unary
  <2> QED BY <2>1, <2>2, <2>3 DEF Next, Step
<1>3. AtInst
  BY <1>2, Executing DEF Cmp
<1> DEFINE m == Compared(Difference(Inst.sign, Size, Arg(1), Arg(2)))
           faults == {k \in DOMAIN Operands : Operands[k] < 0}
<1>4. Leaves(Operands, m)
  <2>1. status' # "undefined"
    BY <1>1
  <2> QED BY <1>2, <2>1, CmpLeaves
<1> HIDE DEF m
<1>5. faults = {} /\ mem' = m
  <2>1. IF faults = {} THEN mem' = m /\ UNCHANGED status
        ELSE status' = Outcome(Operands[CHOOSE k \in faults : \A j \in faults : k <= j])
    BY <1>4 DEF Leaves
  <2>2. \A fault : Outcome(fault) # "running"
    BY DEF Outcome
  <2> HIDE DEF faults
  <2> QED BY <1>1, <2>1, <2>2
<1>6. Operands \in [1 .. 2 -> Int] /\ Operands[1] = Operand(1) /\ Operands[2] = Operand(2)
  BY <1>1, <1>3, ShapeKnown, OperandsType
<1>7. Operand(1) >= 0 /\ Operand(2) >= 0
  BY <1>5, <1>6
<1> QED
  BY <1>1, <1>3, <1>5, <1>7 DEF m

LEMMA DifferenceZero ==
    ASSUME NEW sign, NEW n \in Nat, NEW x \in Int, NEW y \in Int,
           sign = "u" => x \in 0 .. Span(n) - 1 /\ y \in 0 .. Span(n) - 1
    PROVE  Difference(sign, n, x, y) = 0 <=> x = y
<1>1. Span(n) \in Nat \ {0}
  BY SpanFacts
<1>2. CASE sign = "u" /\ n >= IntSize
  <2> DEFINE s == Span(n)
  <2>1. Difference(sign, n, x, y) = (x - y) % s
    BY <1>2 DEF Difference
  <2>2. x \in 0 .. s - 1 /\ y \in 0 .. s - 1 /\ s \in Nat \ {0}
    BY <1>1, <1>2
  <2> HIDE DEF s
  <2>3. CASE x >= y
    <3>1. x - y \in 0 .. s - 1 /\ x - y = s * 0 + (x - y)
      BY <2>2, <2>3
    <3>2. (x - y) % s = x - y
      BY <2>2, <3>1
    <3> QED BY <2>1, <3>2
  <2>4. CASE x < y
    <3> DEFINE r == x - y + s
    <3>1. r \in 1 .. s - 1 /\ x - y = s * (-1) + r
      BY <2>2, <2>4
    <3>2. (s * (-1) + r) % s = r
      <4>1. r \in 0 .. s - 1 /\ -1 \in Int
        BY <3>1
      <4> HIDE DEF r
      <4> QED BY <2>2, <4>1, DivUnique
    <3> HIDE DEF r
    <3> QED BY <2>1, <2>4, <3>1, <3>2
  <2> QED BY <2>3, <2>4
<1>3. CASE ~(sign = "u" /\ n >= IntSize)
  BY <1>3 DEF Difference
<1> QED
  BY <1>2, <1>3

LEMMA SignOfDifference ==
    ASSUME NEW n \in Nat \ {0}, NEW d \in Int, 2 * d \in -Span(n) .. Span(n) - 1
    PROVE  SignBits(n, d) # 0 <=> d < 0
<1>1. PICK h \in Nat \ {0} : Span(n) = 2 * h
  <2>1. n - 1 \in Nat /\ (n - 1) + 1 = n
    OBVIOUS
  <2>2. Span(n - 1) \in Nat \ {0} /\ Span(n) = Byte * Span(n - 1)
    BY <2>1, SpanFacts
  <2>3. Byte = 2 * (Byte \div 2) /\ Byte \div 2 \in Nat \ {0}
    BY SizesKnown
  <2> DEFINE b == Byte \div 2
             s == Span(n - 1)
  <2>4. b \in Nat \ {0} /\ s \in Nat \ {0} /\ Span(n) = (2 * b) * s
    BY <2>2, <2>3
  <2> HIDE DEF b, s
  <2>5. (2 * b) * s = 2 * (b * s) /\ b * s \in Nat \ {0}
    BY <2>4
  <2> QED BY <2>4, <2>5
<1>2. (2 * h) \div 2 = h
  OBVIOUS
<1>3. SignBits(n, d) = d \div h
  BY <1>1, <1>2 DEF SignBits
<1>4. d \in -h .. h - 1
  BY <1>1
<1>5. CASE d >= 0
  <2>1. d \in 0 .. h - 1 /\ d = h * 0 + d
    BY <1>4, <1>5
  <2>2. d \div h = 0
    BY <2>1
  <2> QED BY <1>3, <1>5, <2>2
<1>6. CASE d < 0
  <2> DEFINE r == d + h
  <2>1. r \in 0 .. h - 1 /\ d = h * (-1) + r
    BY <1>4, <1>6
  <2>2. (h * (-1) + r) \div h = -1
    <3>1. -1 \in Int /\ h \in Nat \ {0}
      OBVIOUS
    <3> HIDE DEF r
    <3> QED BY <2>1, <3>1, DivUnique
  <2> HIDE DEF r
  <2> QED BY <1>3, <1>6, <2>1, <2>2
<1> QED
  BY <1>5, <1>6

(***************************************************************************)
(* cmp sets ZF on equal operands and on no others, whatever their size and *)
(* sign, and SF on signed operands of which the first is less, unless they *)
(* lie further apart than their type reaches.                              *)
(***************************************************************************)
THEOREM ComparesRight == Spec => Compares
<1> DEFINE step ==
             Ran("cmp") =>
               /\ (Bit(mem'[FLAGS + 1], ZF) = 1) <=> Arg(1) = Arg(2)
               /\ Inst.sign = "i" /\ 2 * (Arg(1) - Arg(2)) \in -Span(Size) .. Span(Size) - 1
                    => (Bit(mem'[FLAGS + 1], SF) = 1 <=> Arg(1) < Arg(2))
<1>1. ASSUME Inv, Next PROVE step
  <2> SUFFICES ASSUME Ran("cmp")
               PROVE  /\ (Bit(mem'[FLAGS + 1], ZF) = 1) <=> Arg(1) = Arg(2)
                      /\ Inst.sign = "i" /\ 2 * (Arg(1) - Arg(2)) \in -Span(Size) .. Span(Size) - 1
                           => (Bit(mem'[FLAGS + 1], SF) = 1 <=> Arg(1) < Arg(2))
    OBVIOUS
  <2> DEFINE x == Arg(1)
             y == Arg(2)
             d == Difference(Inst.sign, Size, x, y)
  <2>1. AtInst /\ Known /\ Inst.name = "cmp" /\ Operand(1) >= 0 /\ Operand(2) >= 0
        /\ mem' = Compared(d)
    BY <1>1, CmpRan
  <2>2. Size \in Nat \ {0}
    <3> DEFINE i == Inst
    <3>1. i \in Instructions /\ i.name = "cmp" /\ Word \in Nat
      BY <2>1, InstKnown, SizesKnown
    <3> HIDE DEF i
    <3>2. i.size \in 1 .. Word
      BY <3>1, InstructionKinds DEF SizedNames
    <3>3. i.size \in Nat \ {0}
      BY <3>1, <3>2
    <3> QED BY <3>3 DEF Size, i
  <2>3. /\ x \in Int /\ y \in Int
        /\ Inst.sign = "u" => x \in 0 .. Span(Size) - 1 /\ y \in 0 .. Span(Size) - 1
    BY <2>1, ArgType
  <2>4. /\ Bit(mem'[FLAGS + 1], ZF) = IF d = 0 THEN 1 ELSE 0
        /\ Bit(mem'[FLAGS + 1], SF) = IF SignBits(Size, d) # 0 THEN 1 ELSE 0
    BY <2>1, ComparedFlags
  <2>5. Inst.sign = "i" => d = x - y
    BY DEF Difference
  <2> HIDE DEF x, y
  <2>6. d = 0 <=> x = y
    BY <2>2, <2>3, DifferenceZero
  <2>7. Inst.sign = "i" /\ 2 * (x - y) \in -Span(Size) .. Span(Size) - 1
           => (SignBits(Size, d) # 0 <=> x - y < 0)
    <3> HIDE DEF d
    <3> QED BY <2>2, <2>3, <2>5, SignOfDifference
  <2> HIDE DEF d
  <2>8. x - y < 0 <=> x < y
    BY <2>3
  <2> QED BY <2>4, <2>6, <2>7, <2>8 DEF x, y
<1>2. Inv /\ [Next]_vars => [step]_vars
  BY <1>1
<1> QED
  BY <1>2, Invariance, PTL DEF Spec, Compares

-----------------------------------------------------------------------------
(* What a write leaves to be read, in other places and in its own. *)

LEMMA UppersSteps ==
    ASSUME NEW m \in Seq(Bytes), NEW a \in Nat, NEW n \in Nat, a + n <= Len(m)
    PROVE  /\ Uppers(m, a, n)[0] = 0
           /\ \A k \in 1 .. n : Uppers(m, a, n)[k] = m[a + n - k + 1] + Byte * Uppers(m, a, n)[k - 1]
<1> DEFINE s == [k \in 1 .. n |-> m[a + n - k + 1]]
           step == [p \in Nat \X Nat |-> p[2] + (Byte * p[1])]
           U == Uppers(m, a, n)
           Eq(f) == f = [k \in 0 .. n |-> IF k = 0 THEN 0 ELSE m[a + n - k + 1] + Byte * f[k - 1]]
<1>1. Byte \in Nat \ {0}
  BY IsaConstants
<1>2. ASSUME NEW k \in 1 .. n PROVE m[a + n - k + 1] \in 0 .. Byte - 1
  <2>1. \A i \in 1 .. Len(m) : m[i] \in Bytes
    OBVIOUS
  <2>2. a + n - k + 1 \in 1 .. Len(m)
    OBVIOUS
  <2> QED BY <2>1, <2>2 DEF Bytes
<1>3. s \in Seq(Nat) /\ Len(s) = n /\ \A k \in 1 .. n : s[k] = m[a + n - k + 1]
  BY <1>1, <1>2
<1>4. step \in [Nat \X Nat -> Nat] /\ \A p, q \in Nat : step[<<p, q>>] = q + (Byte * p)
  <2>1. \A p \in Nat \X Nat : p[2] + (Byte * p[1]) \in Nat
    BY <1>1
  <2> QED BY <2>1
<1> HIDE DEF s, step
<1>5. \E g : Eq(g)
  <2>1. PICK g : Runs(g, Nat, 0, step, s)
    <3>1. 0 \in Nat
      OBVIOUS
    <3> QED BY <1>3, <1>4, <3>1, Recursion
  <2>2. g \in [0 .. n -> Nat] /\ g[0] = 0
    BY <1>3, <2>1 DEF Runs
  <2>3. ASSUME NEW k \in 1 .. n PROVE g[k] = m[a + n - k + 1] + Byte * g[k - 1]
    <3>1. g[k] = step[<<g[k - 1], s[k]>>] /\ g[k - 1] \in Nat
      BY <1>3, <2>1, <2>2 DEF Runs
    <3>2. s[k] \in Nat
      BY <1>3
    <3> QED BY <1>3, <1>4, <3>1, <3>2
  <2>4. Eq(g)
    BY <2>2, <2>3
  <2> QED BY <2>4
<1>6. Eq(U)
  BY <1>5 DEF Uppers
<1>7. \A k \in 0 .. n : U[k] = IF k = 0 THEN 0 ELSE m[a + n - k + 1] + Byte * U[k - 1]
  <2> HIDE DEF U
  <2> QED BY <1>6, Zenon
<1> HIDE DEF U
<1>8. /\ U[0] = 0
      /\ \A k \in 1 .. n : U[k] = m[a + n - k + 1] + Byte * U[k - 1]
  BY <1>7
<1> QED
  BY <1>8 DEF U

\* The n bytes of m at a are those of w at b.
Alike(m, a, w, b, n) ==
    /\ m \in Seq(Bytes) /\ a \in Nat /\ a + n <= Len(m)
    /\ w \in Seq(Bytes) /\ b \in Nat /\ b + n <= Len(w)
    /\ \A i \in 1 .. n : m[a + i] = w[b + i]

(***************************************************************************)
(* Equal bytes make equal numbers, wherever they are.                      *)
(***************************************************************************)
LEMMA SameValue ==
    ASSUME NEW m, NEW a, NEW w, NEW b, NEW n \in Nat, Alike(m, a, w, b, n)
    PROVE  Value(m, a, n) = Value(w, b, n)
<1>0. /\ m \in Seq(Bytes) /\ a \in Nat /\ a + n <= Len(m)
      /\ w \in Seq(Bytes) /\ b \in Nat /\ b + n <= Len(w)
      /\ \A i \in 1 .. n : m[a + i] = w[b + i]
  BY DEF Alike
<1> DEFINE U == Uppers(m, a, n)
           V == Uppers(w, b, n)
           S == {k \in Nat : k <= n => U[k] = V[k]}
<1>1. /\ U[0] = 0 /\ V[0] = 0
      /\ \A k \in 1 .. n : /\ U[k] = m[a + n - k + 1] + Byte * U[k - 1]
                           /\ V[k] = w[b + n - k + 1] + Byte * V[k - 1]
  BY <1>0, UppersSteps
<1>2. ASSUME NEW k \in 1 .. n PROVE m[a + n - k + 1] = w[b + n - k + 1]
  <2> DEFINE j == n - k + 1
  <2>1. j \in 1 .. n /\ a + n - k + 1 = a + j /\ b + n - k + 1 = b + j
    BY <1>0
  <2> HIDE DEF j
  <2>2. m[a + j] = w[b + j]
    BY <1>0, <2>1
  <2> QED BY <2>1, <2>2
<1> HIDE DEF U, V
<1>3. 0 \in S
  BY <1>1
<1>4. ASSUME NEW k \in Nat, k \in S PROVE k + 1 \in S
  <2> SUFFICES ASSUME k + 1 <= n PROVE U[k + 1] = V[k + 1]
    OBVIOUS
  <2>1. k + 1 \in 1 .. n /\ (k + 1) - 1 = k /\ U[k] = V[k]
    BY <1>4
  <2>2. /\ U[k + 1] = m[a + n - (k + 1) + 1] + Byte * U[k]
        /\ V[k + 1] = w[b + n - (k + 1) + 1] + Byte * V[k]
    BY <1>1, <2>1
  <2>3. m[a + n - (k + 1) + 1] = w[b + n - (k + 1) + 1]
    BY <1>2, <2>1
  <2> QED BY <2>1, <2>2, <2>3
<1>5. n \in S
  <2> HIDE DEF S
  <2> QED BY <1>3, <1>4, SetInduction
<1>6. U[n] = V[n]
  BY <1>5
<1> QED
  BY <1>6, Zenon DEF U, V, Value

\* m and w have the same n bytes at a.
Same(m, w, a, n) == \A i \in a + 1 .. a + n : m[i] = w[i]

LEMMA SameReads ==
    ASSUME NEW m \in Memories, NEW w \in Memories, NEW a \in Nat, NEW n \in Nat,
           a + n <= FrameSize, Same(m, w, a, n)
    PROVE  Value(m, a, n) = Value(w, a, n)
<1>1. m \in Seq(Bytes) /\ Len(m) = FrameSize /\ w \in Seq(Bytes) /\ Len(w) = FrameSize
  BY MemoryIsSeq
<1>2. \A i \in 1 .. n : m[a + i] = w[a + i]
  <2> SUFFICES ASSUME NEW i \in 1 .. n PROVE m[a + i] = w[a + i]
    OBVIOUS
  <2>1. a + i \in a + 1 .. a + n
    OBVIOUS
  <2> QED BY <2>1 DEF Same
<1>3. Alike(m, a, w, a, n)
  BY <1>1, <1>2 DEF Alike
<1> QED
  BY <1>3, SameValue

(***************************************************************************)
(* What is put is read there, and what lies elsewhere is as it was.        *)
(***************************************************************************)
LEMMA PutReads ==
    ASSUME NEW m \in Memories, NEW a \in Nat, NEW n \in Nat, NEW v \in Int, a + n <= FrameSize
    PROVE  Value(Put(m, a, n, v), a, n) = v % Span(n)
<1> DEFINE s == Little(v, n)
           w == Write(m, a, s)
<1>1. m \in Seq(Bytes) /\ Len(m) = FrameSize
  BY MemoryIsSeq
<1>2. s \in Seq(Bytes) /\ Len(s) = n
  BY LittleBytes
<1>3. w = Put(m, a, n, v)
  BY DEF Put
<1> HIDE DEF s
<1>4. \A i \in 1 .. Len(m) : w[i] = IF i \in a + 1 .. a + Len(s) THEN s[i - a] ELSE m[i]
  BY <1>1, <1>2, WriteFrame
<1> HIDE DEF w
<1>5. ASSUME NEW k \in 1 .. n PROVE w[a + k] = s[k]
  <2>1. a + k \in 1 .. Len(m) /\ a + k \in a + 1 .. a + Len(s) /\ (a + k) - a = k
    BY <1>1, <1>2
  <2> QED BY <1>4, <2>1
<1>6. Lies(w, a, s)
  BY <1>2, <1>5 DEF Lies
<1>7. n \in 0 .. n
  OBVIOUS
<1> QED
  BY <1>3, <1>6, <1>7, ValueOfLittle DEF s

LEMMA PutElsewhere ==
    ASSUME NEW m \in Memories, NEW a \in Nat, NEW n \in Nat, NEW v \in Int, a + n <= FrameSize,
           NEW b \in Nat, NEW k \in Nat, b + k <= FrameSize, b + k <= a \/ a + n <= b
    PROVE  Same(Put(m, a, n, v), m, b, k) /\ Value(Put(m, a, n, v), b, k) = Value(m, b, k)
<1> DEFINE w == Put(m, a, n, v)
<1>1. w \in Memories /\ \A i \in 1 .. FrameSize : i \notin a + 1 .. a + n => w[i] = m[i]
  BY PutKeeps
<1> HIDE DEF w
<1>2. Same(w, m, b, k)
  <2> SUFFICES ASSUME NEW i \in b + 1 .. b + k PROVE w[i] = m[i]
    BY DEF Same
  <2>1. i \in 1 .. FrameSize /\ i \notin a + 1 .. a + n
    BY SizesKnown
  <2> QED BY <1>1, <2>1
<1>3. Value(w, b, k) = Value(m, b, k)
  BY <1>1, <1>2, SameReads
<1> QED
  BY <1>2, <1>3 DEF w

\* Registers lie apart.
LEMMA RegistersApart ==
    /\ \A r \in Registers : r \in Nat /\ r + Word <= RegistersSize /\ r + Word <= FrameSize
    /\ \A r, q \in Registers : r # q => r + Word <= q \/ q + Word <= r
<1>1. AX = 0 /\ IP = 6 * Word /\ BP = 7 * Word /\ SP = 8 * Word /\ GP = 10 * Word
  BY DEF AX, IP, BP, SP, GP
<1>2. Word \in Nat \ {0} /\ 11 * Word <= RegistersSize /\ RegistersSize <= FrameSize
      /\ RegistersSize \in Nat /\ FrameSize \in Nat
  BY SizesKnown
<1>3. \A r \in Registers : r \in {0, 6 * Word, 7 * Word, 8 * Word, 10 * Word}
  BY <1>1 DEF Registers
<1>4. ASSUME NEW r \in Registers PROVE r \in Nat /\ r + Word <= RegistersSize /\ r + Word <= FrameSize
  BY <1>2, <1>3
<1>5. ASSUME NEW r \in Registers, NEW q \in Registers, r # q
      PROVE  r + Word <= q \/ q + Word <= r
  BY <1>2, <1>3, <1>5
<1> QED
  BY <1>4, <1>5

LEMMA InWords ==
    ASSUME NEW v \in Words
    PROVE  v % Span(Word) = v
BY SizesKnown DEF Words

LEMMA SetReads ==
    ASSUME NEW m \in Memories, NEW r \in Registers, NEW v \in Int
    PROVE  /\ Set(m, r, v) \in Memories
           /\ Reg(Set(m, r, v), r) = v % Span(Word)
           /\ v \in Words => Reg(Set(m, r, v), r) = v
           /\ \A q \in Registers : q # r => Reg(Set(m, r, v), q) = Reg(m, q)
           /\ \A i \in 1 .. FrameSize : i \notin r + 1 .. r + Word => Set(m, r, v)[i] = m[i]
<1>1. r \in Nat /\ r + Word <= FrameSize /\ Word \in Nat
  BY RegistersApart, SizesKnown
<1>2. Set(m, r, v) = Put(m, r, Word, v)
  BY DEF Set
<1>3. Set(m, r, v) \in Memories
      /\ \A i \in 1 .. FrameSize : i \notin r + 1 .. r + Word => Set(m, r, v)[i] = m[i]
  BY <1>1, <1>2, PutKeeps
<1>4. Reg(Set(m, r, v), r) = v % Span(Word)
  BY <1>1, <1>2, PutReads DEF Reg
<1>5. ASSUME NEW q \in Registers, q # r PROVE Reg(Set(m, r, v), q) = Reg(m, q)
  <2>1. q \in Nat /\ q + Word <= FrameSize /\ (q + Word <= r \/ r + Word <= q)
    BY <1>5, RegistersApart
  <2> QED BY <1>1, <1>2, <2>1, PutElsewhere DEF Reg
<1>6. v \in Words => Reg(Set(m, r, v), r) = v
  BY <1>4, InWords
<1> QED
  BY <1>3, <1>4, <1>5, <1>6

LEMMA BumpReads ==
    ASSUME NEW m \in Memories, NEW r \in Registers, NEW d \in Int
    PROVE  /\ Bump(m, r, d) \in Memories
           /\ Reg(m, r) + d \in Words => Reg(Bump(m, r, d), r) = Reg(m, r) + d
           /\ \A q \in Registers : q # r => Reg(Bump(m, r, d), q) = Reg(m, q)
           /\ \A i \in 1 .. FrameSize : i \notin r + 1 .. r + Word => Bump(m, r, d)[i] = m[i]
<1> DEFINE v == Reg(m, r) + d
<1>1. v \in Int
  BY RegType, SizesKnown DEF Words
<1>2. Bump(m, r, d) = Set(m, r, v)
  BY DEF Bump
<1>3. Reg(m, r) + d \in Words <=> v \in Words
  OBVIOUS
<1>4. Reg(Set(m, r, v), r) = v => Reg(Bump(m, r, d), r) = Reg(m, r) + d
  BY <1>2
<1> HIDE DEF v
<1> QED
  BY <1>1, <1>2, <1>3, <1>4, SetReads

-----------------------------------------------------------------------------
(* The code in memory. *)

\* m has the code of p, but for the word that is not copied.
Code(m, p) == \A i \in RegistersSize + Word + 1 .. EndOf(p) : m[i] = p.bytes[i - RegistersSize]

FramedPrograms == \A p \in Programs : Framed(p)

LEMMA ProgramFits ==
    ASSUME NEW p \in Programs
    PROVE  /\ p.bytes \in Seq(Bytes) /\ Len(p.bytes) \in Nat
           /\ EndOf(p) = RegistersSize + Len(p.bytes) /\ EndOf(p) \in Nat
           /\ RegistersSize + Word <= EndOf(p) /\ EndOf(p) + Word <= FrameSize
           /\ EndOf(p) \in Words /\ EndOf(p) + Word \in Words
<1>1. p.bytes \in Seq(Bytes) /\ Len(p.bytes) >= Word /\ EndOf(p) + Word <= FrameSize
  BY MachineConstants DEF Bytes
<1>2. Len(p.bytes) \in Nat
  BY <1>1
<1>3. EndOf(p) = RegistersSize + Len(p.bytes)
  BY DEF EndOf
<1> DEFINE l == Len(p.bytes)
<1>4. l \in Nat /\ l >= Word /\ EndOf(p) = RegistersSize + l
  BY <1>1, <1>2, <1>3
<1> HIDE DEF l
<1>5. EndOf(p) \in Nat /\ RegistersSize + Word <= EndOf(p)
  BY <1>4, SizesKnown
<1>6. FrameSize <= Span(Word) - 1
  <2>1. Span(Word) \div 4 < Span(Word)
    BY SizesKnown
  <2> QED BY <2>1, SizesKnown
<1> QED
  BY <1>1, <1>2, <1>3, <1>5, <1>6, SizesKnown DEF Words

LEMMA CodeReads ==
    ASSUME NEW m \in Memories, NEW p \in Programs, Code(m, p), NEW a \in Nat, NEW n \in Nat,
           RegistersSize + Word <= a, a + n <= EndOf(p)
    PROVE  Value(m, a, n) = Value(p.bytes, a - RegistersSize, n)
<1> DEFINE b == a - RegistersSize
           w == p.bytes
<1>1. m \in Seq(Bytes) /\ Len(m) = FrameSize
  BY MemoryIsSeq
<1>2. /\ w \in Seq(Bytes) /\ b \in Nat
      /\ a + n <= Len(m) /\ b + n <= Len(w)
  BY <1>1, ProgramFits, SizesKnown
<1>3. ASSUME NEW i \in 1 .. n PROVE m[a + i] = w[b + i]
  <2>1. a + i \in RegistersSize + Word + 1 .. EndOf(p) /\ (a + i) - RegistersSize = b + i
    BY ProgramFits, SizesKnown
  <2> QED BY <2>1 DEF Code
<1> HIDE DEF b, w
<1>4. Alike(m, a, w, b, n)
  BY <1>1, <1>2, <1>3 DEF Alike
<1>5. Value(m, a, n) = Value(w, b, n)
  BY <1>4, SameValue
<1> QED
  BY <1>5 DEF b, w

\* The instructions of a framed program.
LEMMA StartFacts ==
    ASSUME FramedPrograms, NEW p \in Programs, NEW s \in p.starts
    PROVE  /\ s \in Nat /\ s \in RegistersSize + Word .. EndOf(p) - InstSize
           /\ s \in Words /\ s \in RegistersSize .. EndOf(p)
           /\ CodeAt(p, s) \in Instructions
           /\ CodeAt(p, s).code = Value(p.bytes, s - RegistersSize, InstSize - 1)
           /\ CodeAt(p, s).name \notin {"halt", "ret"} => s + BytesAt(p, s) \in p.starts
<1>1. /\ s \in RegistersSize + Word .. EndOf(p) - InstSize
      /\ \E i \in Instructions : i.code = Value(p.bytes, s - RegistersSize, InstSize - 1)
      /\ CodeAt(p, s).name \notin {"halt", "ret"} => s + BytesAt(p, s) \in p.starts
  <2>1. Framed(p)
    BY DEF FramedPrograms
  <2> QED BY <2>1 DEF Framed
<1>2. s \in Nat /\ s \in Words /\ s \in RegistersSize .. EndOf(p)
  <2>1. s \in RegistersSize + Word .. EndOf(p) - InstSize
    BY <1>1
  <2>2. /\ EndOf(p) \in Nat /\ EndOf(p) + Word <= FrameSize /\ EndOf(p) \in Words
        /\ RegistersSize + Word <= EndOf(p)
    BY ProgramFits
  <2> QED BY <2>1, <2>2, SizesKnown DEF Words
<1>3. /\ CodeAt(p, s) \in Instructions
      /\ CodeAt(p, s).code = Value(p.bytes, s - RegistersSize, InstSize - 1)
  BY <1>1 DEF CodeAt, InstructionOf
<1> QED
  BY <1>1, <1>2, <1>3

\* A call of a framed program.
LEMMA CallSite ==
    ASSUME FramedPrograms, NEW p \in Programs, NEW s \in p.starts, CodeAt(p, s).name = "fcall",
           NEW entry, entry = Callee(p, s + InstSize + Word)
    PROVE  /\ s + InstSize + Word \in p.starts
           /\ entry \in p.starts /\ entry \in DOMAIN p.args
           /\ p.args[entry] \in Nat
           /\ entry - 2 * Word >= RegistersSize + Word
           /\ HeaderAt(p, entry, 2 * Word) = p.args[entry]
           /\ GP + HeaderAt(p, entry, Word) <= RegistersSize
<1>1. Framed(p)
  BY DEF FramedPrograms
<1>2. /\ entry \in p.starts \cap DOMAIN p.args
      /\ entry - 2 * Word >= RegistersSize + Word
      /\ HeaderAt(p, entry, 2 * Word) = p.args[entry]
      /\ GP + HeaderAt(p, entry, Word) <= RegistersSize
  BY <1>1 DEF Framed
<1>3. BytesAt(p, s) = InstSize + Word
  BY DEF BytesAt, Binary, Unary
<1>4. s + BytesAt(p, s) \in p.starts /\ s \in Nat
  BY StartFacts
<1>5. s + (InstSize + Word) = s + InstSize + Word
  BY <1>4, SizesKnown
<1>6. p.args[entry] \in Nat
  BY <1>2, MachineConstants
<1> QED
  BY <1>2, <1>3, <1>4, <1>5, <1>6

\* Code of a memory that has the bytes of another.
LEMMA CodeKept ==
    ASSUME NEW p \in Programs, NEW m, NEW w, Code(m, p),
           Same(w, m, RegistersSize + Word, EndOf(p) - RegistersSize - Word)
    PROVE  Code(w, p)
<1> SUFFICES ASSUME NEW i \in RegistersSize + Word + 1 .. EndOf(p)
             PROVE  w[i] = p.bytes[i - RegistersSize]
  BY DEF Code
<1>1. i \in RegistersSize + Word + 1 .. RegistersSize + Word + (EndOf(p) - RegistersSize - Word)
  BY ProgramFits, SizesKnown
<1>2. w[i] = m[i]
  BY <1>1 DEF Same
<1> QED
  BY <1>2 DEF Code

-----------------------------------------------------------------------------
(* Where the calls in progress are, in memory. *)

FloorOf(fs, p) == IF fs = <<>> THEN EndOf(p) ELSE fs[Len(fs)].base

\* Each call comes back behind an fcall, its arguments and its link lie on the
\* stack of its caller, and the link is where its caller comes back to.
CallFrames(m, p, fs) ==
    /\ \A i \in DOMAIN fs :
         /\ \E s \in p.starts : CodeAt(p, s).name = "fcall" /\ fs[i].ret = s + InstSize + Word
         /\ fs[i].base = fs[i].low + p.args[Callee(p, fs[i].ret)] + Word
         /\ EndOf(p) <= fs[i].low /\ fs[i].base <= FrameSize
    /\ \A i, j \in DOMAIN fs : i < j => fs[i].base <= fs[j].low
    /\ \A i \in DOMAIN fs : i + 1 \in DOMAIN fs =>
         Value(m, fs[i + 1].base - Word, Word) = fs[i].ret

LoopingIn(m, p) == Bit(m[FLAGS + 1], RF) = 1 /\ Reg(m, IP) < EndOf(p)

RunsAt(m, p, fs) ==
    /\ CallFrames(m, p, fs)
    /\ FloorOf(fs, p) <= Reg(m, SP)
    /\ fs # <<>> => Reg(m, BP) = fs[Len(fs)].ret
    /\ Reg(m, IP) \in RegistersSize .. EndOf(p)
    /\ LoopingIn(m, p) => Reg(m, IP) \in p.starts

CallsInv ==
    /\ Inv
    /\ Code(mem, program)
    /\ status = "running" => RunsAt(mem, program, frames)

\* The machine runs a framed program, with its calls in order.
InCalls == FramedPrograms /\ CallsInv /\ status = "running"

LEMMA Elements ==
    ASSUME NEW R, NEW s \in Seq(R)
    PROVE  /\ DOMAIN s = 1 .. Len(s) /\ Len(s) \in Nat
           /\ \A i \in DOMAIN s : s[i] \in R
OBVIOUS

LEMMA InCallsFacts ==
    ASSUME InCalls
    PROVE  /\ mem \in Memories /\ program \in Programs /\ frames \in Frames
           /\ Code(mem, program) /\ RunsAt(mem, program, frames)
           /\ Ip \in Words /\ Bp \in Words /\ Sp \in Words
           /\ Ip \in Nat /\ Bp \in Nat /\ Sp \in Nat
<1>1. mem \in Memories /\ program \in Programs /\ frames \in Frames
  BY InvFields DEF InCalls, CallsInv, Inv
<1>2. Code(mem, program) /\ RunsAt(mem, program, frames)
  BY DEF InCalls, CallsInv
<1>3. Ip \in Words /\ Bp \in Words /\ Sp \in Words
  BY <1>1, RegType, RegistersIn DEF Ip, Bp, Sp
<1>4. Words \subseteq Nat
  BY SizesKnown DEF Words
<1> QED
  BY <1>1, <1>2, <1>3, <1>4

\* Where the frames of the calls are.
LEMMA FramePlaces ==
    ASSUME InCalls
    PROVE  /\ Floor = FloorOf(frames, program) /\ Floor \in Int /\ EndOf(program) <= Floor
           /\ Floor <= Sp
           /\ \A i \in DOMAIN frames :
                /\ frames[i].low \in Int /\ frames[i].base \in Nat /\ frames[i].ret \in Nat
                /\ EndOf(program) <= frames[i].low /\ frames[i].low <= frames[i].base - Word
                /\ frames[i].base <= FrameSize
                /\ frames[i].base <= Floor
           /\ frames # <<>> => /\ Len(frames) \in DOMAIN frames
                              /\ Floor = frames[Len(frames)].base
           /\ \A i, j \in DOMAIN frames : i < j => frames[i].base <= frames[j].low
<1>1. /\ program \in Programs /\ frames \in Frames
      /\ CallFrames(mem, program, frames) /\ FloorOf(frames, program) <= Sp
  BY InCallsFacts DEF RunsAt, Sp
<1>2. Floor = FloorOf(frames, program)
  BY DEF Floor, FloorOf, End
<1>3. \A i \in DOMAIN frames : frames[i].low \in Int /\ frames[i].base \in Nat /\ frames[i].ret \in Nat
  <2>1. \A i \in DOMAIN frames : frames[i] \in [ret : Nat, low : Int, base : Nat]
    BY <1>1, Elements, Zenon DEF Frames
  <2> QED BY <2>1
<1>4. /\ DOMAIN frames = 1 .. Len(frames) /\ Len(frames) \in Nat
      /\ (frames # <<>> => Len(frames) \in DOMAIN frames)
  BY <1>1 DEF Frames
<1>5. \A i, j \in DOMAIN frames : i < j => frames[i].base <= frames[j].low
  BY <1>1 DEF CallFrames
<1>6. ASSUME NEW i \in DOMAIN frames
      PROVE  /\ EndOf(program) <= frames[i].low /\ frames[i].low <= frames[i].base - Word
             /\ frames[i].base <= FrameSize
  <2>1. PICK s \in program.starts :
           CodeAt(program, s).name = "fcall" /\ frames[i].ret = s + InstSize + Word
    BY <1>1 DEF CallFrames
  <2>2. program.args[Callee(program, frames[i].ret)] \in Nat
    <3>1. FramedPrograms
      BY DEF InCalls
    <3> QED BY <1>1, <2>1, <3>1, CallSite
  <2>3. /\ frames[i].base = frames[i].low + program.args[Callee(program, frames[i].ret)] + Word
        /\ EndOf(program) <= frames[i].low /\ frames[i].base <= FrameSize
    BY <1>1 DEF CallFrames
  <2> QED BY <1>3, <2>2, <2>3, SizesKnown
<1>7. ASSUME frames # <<>>
      PROVE  /\ Floor = frames[Len(frames)].base
             /\ \A i \in DOMAIN frames : frames[i].base <= Floor
  <2>1. Floor = frames[Len(frames)].base
    BY <1>2, <1>7 DEF FloorOf
  <2>2. ASSUME NEW i \in DOMAIN frames PROVE frames[i].base <= Floor
    <3>1. CASE i = Len(frames)
      BY <1>3, <1>4, <2>1, <3>1
    <3>2. CASE i < Len(frames)
      <4> DEFINE n == Len(frames)
      <4>1. n \in DOMAIN frames /\ i < n
        BY <1>4, <1>7, <3>2
      <4> HIDE DEF n
      <4>2. frames[i].base <= frames[n].low /\ frames[n].low <= frames[n].base - Word
        BY <1>5, <1>6, <4>1
      <4> QED BY <1>3, <2>1, <4>1, <4>2, SizesKnown DEF n
    <3> QED BY <1>4, <3>1, <3>2
  <2> QED BY <2>1, <2>2
<1>8. Floor \in Int /\ EndOf(program) <= Floor
  <2>1. CASE frames = <<>>
    BY <1>1, <1>2, <2>1, ProgramFits DEF FloorOf
  <2>2. CASE frames # <<>>
    <3> DEFINE n == Len(frames)
    <3>1. n \in DOMAIN frames /\ Floor = frames[n].base
      BY <1>4, <1>7, <2>2
    <3> HIDE DEF n
    <3> QED BY <1>1, <1>3, <1>6, <3>1, ProgramFits, SizesKnown
  <2> QED BY <2>1, <2>2
<1>9. \A i \in DOMAIN frames : frames[i].base <= Floor
  <2>1. CASE frames = <<>>
    BY <2>1
  <2> QED BY <1>7, <2>1
<1> QED
  BY <1>1, <1>2, <1>3, <1>4, <1>5, <1>6, <1>7, <1>8, <1>9

\* What m has left of the machine's own: code, links, IP and BP.
Kept(m) ==
    /\ m \in Memories
    /\ Reg(m, IP) = Ip /\ Reg(m, BP) = Bp
    /\ Same(m, mem, RegistersSize + Word, EndOf(program) - RegistersSize - Word)
    /\ \A i \in DOMAIN frames : Same(m, mem, frames[i].base - Word, Word)

LEMMA KeptAtFirst ==
    ASSUME InCalls
    PROVE  Kept(mem)
BY InCallsFacts DEF Kept, Same, Ip, Bp

\* Where an instruction may write.
Free(a, n) == Own(a, n) \/ (a = SP /\ n = Word) \/ (a = FLAGS /\ n = 1)

\* w is m but for n bytes at a.
Differs(w, m, a, n) ==
    /\ w \in Memories
    /\ \A i \in 1 .. FrameSize : i \notin a + 1 .. a + n => w[i] = m[i]

\* A region that lies apart from what is written.
LEMMA Apart ==
    ASSUME NEW w, NEW m, NEW a \in Nat, NEW n \in Nat, Differs(w, m, a, n),
           NEW b \in Nat, NEW k \in Nat, b + k <= FrameSize, b + k <= a \/ a + n <= b
    PROVE  Same(w, m, b, k)
<1> SUFFICES ASSUME NEW i \in b + 1 .. b + k PROVE w[i] = m[i]
  BY DEF Same
<1>1. i \in 1 .. FrameSize /\ i \notin a + 1 .. a + n
  BY SizesKnown
<1> QED
  BY <1>1 DEF Differs

LEMMA SameThrough ==
    ASSUME NEW w, NEW m, NEW u, NEW a, NEW n, Same(w, m, a, n), Same(m, u, a, n)
    PROVE  Same(w, u, a, n)
BY DEF Same

\* Registers, by their places.
LEMMA RegistersAt ==
    /\ IP = 6 * Word /\ BP = 7 * Word /\ SP = 8 * Word /\ FLAGS = 9 * Word /\ GP = 10 * Word
    /\ IP \in Nat /\ BP \in Nat /\ SP \in Nat /\ FLAGS \in Nat
    /\ IP + Word <= BP /\ BP + Word <= SP /\ SP + Word <= FLAGS /\ FLAGS + 1 <= GP
    /\ GP + Word <= RegistersSize
BY SizesKnown DEF IP, BP, SP, FLAGS, GP

(***************************************************************************)
(* A write to free bytes leaves the code, the links, IP and BP.            *)
(***************************************************************************)
LEMMA WriteKept ==
    ASSUME InCalls, NEW m, Kept(m), NEW a \in Nat, NEW n \in Nat, Free(a, n),
           NEW w, Differs(w, m, a, n)
    PROVE  /\ Kept(w)
           /\ a + n <= SP \/ SP + Word <= a => Reg(w, SP) = Reg(m, SP)
<1> DEFINE p == program
           d == EndOf(program) - RegistersSize - Word
<1>1. m \in Memories /\ w \in Memories /\ p \in Programs
  BY InCallsFacts DEF Kept, Differs
<1>2. /\ d \in Nat /\ RegistersSize + Word + d = EndOf(p) /\ EndOf(p) <= FrameSize
      /\ RegistersSize \in Nat /\ Word \in Nat \ {0} /\ FrameSize \in Nat /\ EndOf(p) \in Nat
      /\ RegistersSize <= EndOf(p)
  BY <1>1, ProgramFits, SizesKnown
<1> HIDE DEF d, p
<1>3. ASSUME NEW b \in Nat, NEW k \in Nat, b + k <= FrameSize, b + k <= a \/ a + n <= b
      PROVE  Same(w, m, b, k) /\ Value(w, b, k) = Value(m, b, k)
  <2>1. Same(w, m, b, k)
    BY <1>3, Apart
  <2> QED BY <1>1, <1>3, <2>1, SameReads
<1>4. /\ Floor \in Int /\ EndOf(p) <= Floor
      /\ \A i \in DOMAIN frames :
           /\ frames[i].low \in Int /\ frames[i].base \in Nat
           /\ EndOf(p) <= frames[i].low /\ frames[i].low <= frames[i].base - Word
           /\ frames[i].base <= FrameSize /\ frames[i].base <= Floor
      /\ frames # <<>> => Len(frames) \in DOMAIN frames
      /\ \A i, j \in DOMAIN frames : i < j => frames[i].base <= frames[j].low
  BY FramePlaces DEF p
<1>5. \/ a + n <= IP
      \/ SP <= a /\ a + n <= RegistersSize
      \/ a >= EndOf(p)
  <2>1. CASE a + n <= IP
    BY <2>1
  <2>2. CASE a >= GP /\ a + n <= RegistersSize
    BY <2>2, <1>2, RegistersAt
  <2>3. CASE a >= Floor
    BY <2>3, <1>2, <1>4
  <2>4. CASE frames # <<>> /\ a >= frames[Len(frames)].low
    BY <2>4, <1>2, <1>4
  <2>5. CASE (a = SP /\ n = Word) \/ (a = FLAGS /\ n = 1)
    BY <2>5, <1>2, RegistersAt
  <2> QED BY <2>1, <2>2, <2>3, <2>4, <2>5 DEF Free, Own
<1>6. IP + Word <= a \/ a + n <= IP
  BY <1>2, <1>5, RegistersAt
<1>7. BP + Word <= a \/ a + n <= BP
  BY <1>2, <1>5, RegistersAt
<1>8. RegistersSize + Word + d <= a \/ a + n <= RegistersSize + Word
  BY <1>2, <1>5, RegistersAt
<1>9. Reg(w, IP) = Reg(m, IP) /\ Reg(w, BP) = Reg(m, BP)
  BY <1>2, <1>3, <1>6, <1>7, RegistersAt DEF Reg
<1>10. Same(w, m, RegistersSize + Word, d)
  <2> DEFINE b == RegistersSize + Word
  <2>1. b \in Nat /\ b + d <= FrameSize /\ (b + d <= a \/ a + n <= b)
    BY <1>2, <1>8
  <2> HIDE DEF b
  <2>2. Same(w, m, b, d)
    <3>1. d \in Nat
      BY <1>2
    <3> QED BY <1>3, <2>1, <3>1
  <2> QED BY <2>2 DEF b
<1>11. ASSUME NEW i \in DOMAIN frames PROVE Same(w, m, frames[i].base - Word, Word)
  <2> DEFINE b == frames[i].base - Word
  <2>1. b \in Nat /\ b + Word <= FrameSize /\ EndOf(p) <= b /\ b + Word = frames[i].base
    <3> DEFINE t == frames[i].base
               l == frames[i].low
    <3>1. l \in Int /\ t \in Nat /\ EndOf(p) <= l /\ l <= t - Word /\ t <= FrameSize
      BY <1>4
    <3> HIDE DEF t, l
    <3>2. t - Word \in Nat /\ (t - Word) + Word = t /\ EndOf(p) <= t - Word
      BY <1>2, <3>1
    <3> QED BY <3>1, <3>2 DEF t
  <2>2. b + Word <= a \/ a + n <= b
    <3>1. CASE a + n <= RegistersSize
      BY <1>2, <2>1, <3>1
    <3>2. CASE a >= Floor
      BY <1>4, <2>1, <3>2
    <3>3. CASE /\ frames # <<>> /\ a >= frames[Len(frames)].low
               /\ a + n <= frames[Len(frames)].base - Word
      <4> DEFINE l == Len(frames)
      <4>1. l \in DOMAIN frames /\ a >= frames[l].low /\ a + n <= frames[l].base - Word
        BY <1>4, <3>3
      <4>2. DOMAIN frames = 1 .. l
        BY InCallsFacts DEF Frames
      <4> HIDE DEF l
      <4>3. CASE i = l
        BY <4>1, <4>3
      <4>4. CASE i # l
        <5>1. i < l
          BY <4>1, <4>2, <4>4
        <5>2. frames[i].base <= frames[l].low
          BY <1>4, <4>1, <5>1
        <5> QED BY <1>4, <2>1, <4>1, <5>2
      <4> QED BY <4>3, <4>4
    <3>4. CASE a + n <= IP
      BY <1>2, <2>1, <3>4, RegistersAt
    <3>5. CASE (a = SP /\ n = Word) \/ (a = FLAGS /\ n = 1)
      BY <1>2, <2>1, <3>5, RegistersAt
    <3> QED BY <3>1, <3>2, <3>3, <3>4, <3>5 DEF Free, Own
  <2> HIDE DEF b
  <2>3. Same(w, m, b, Word)
    BY <1>2, <1>3, <2>1, <2>2
  <2> QED BY <2>3 DEF b
<1>12. Kept(w)
  <2>1. /\ Reg(m, IP) = Ip /\ Reg(m, BP) = Bp /\ Same(m, mem, RegistersSize + Word, d)
        /\ \A i \in DOMAIN frames : Same(m, mem, frames[i].base - Word, Word)
    BY DEF Kept, d
  <2>2. Same(w, mem, RegistersSize + Word, d)
    BY <1>10, <2>1, SameThrough
  <2>3. \A i \in DOMAIN frames : Same(w, mem, frames[i].base - Word, Word)
    BY <1>11, <2>1, SameThrough
  <2> QED BY <1>1, <1>9, <2>1, <2>2, <2>3 DEF Kept, d
<1>13. a + n <= SP \/ SP + Word <= a => Reg(w, SP) = Reg(m, SP)
  BY <1>2, <1>3, RegistersAt DEF Reg
<1> QED
  BY <1>12, <1>13

-----------------------------------------------------------------------------
(* The instruction at IP, as the program has it. *)

LEMMA Fetched ==
    ASSUME InCalls, Looping
    PROVE  /\ Ip \in program.starts /\ AtInst /\ Known
           /\ Inst = CodeAt(program, Ip)
           /\ \A k \in 1 .. 3 : Taken(k) = WidthAt(program, Ip, k)
<1>1. /\ mem \in Memories /\ program \in Programs /\ Code(mem, program)
      /\ RunsAt(mem, program, frames) /\ Ip \in Nat
  BY InCallsFacts
<1>2. FramedPrograms
  BY DEF InCalls
<1>3. Ip \in program.starts
  <2>1. LoopingIn(mem, program)
    BY DEF Looping, LoopingIn, Flag, Ip, End
  <2> QED BY <1>1, <2>1 DEF RunsAt, Ip
<1> DEFINE s == Ip
           p == program
<1>4. /\ s \in RegistersSize + Word .. EndOf(p) - InstSize
      /\ CodeAt(p, s) \in Instructions
      /\ CodeAt(p, s).code = Value(p.bytes, s - RegistersSize, InstSize - 1)
  BY <1>1, <1>2, <1>3, StartFacts
<1>5. /\ EndOf(p) \in Nat /\ EndOf(p) + Word <= FrameSize
  BY <1>1, ProgramFits
<1>6. Opcode = Value(p.bytes, s - RegistersSize, InstSize - 1)
  <2> DEFINE n == InstSize - 1
  <2>1. n \in Nat /\ RegistersSize + Word <= s /\ s + n <= EndOf(p)
    BY <1>1, <1>4, <1>5, SizesKnown
  <2> HIDE DEF n
  <2>2. Value(mem, s, n) = Value(p.bytes, s - RegistersSize, n)
    BY <1>1, <2>1, CodeReads
  <2> QED BY <2>2 DEF Opcode, n
<1>7. Known
  BY <1>4, <1>6 DEF Known
<1>8. Inst = CodeAt(p, s)
  BY <1>6 DEF Inst, CodeAt
<1>9. AtInst
  BY <1>1, <1>4, <1>5, SizesKnown DEF AtInst
<1>10. mem[s + InstSize] = p.bytes[s - RegistersSize + InstSize]
  <2>1. s + InstSize \in RegistersSize + Word + 1 .. EndOf(p)
    BY <1>1, <1>4, <1>5, SizesKnown
  <2>2. (s + InstSize) - RegistersSize = s - RegistersSize + InstSize
    BY <1>1, SizesKnown
  <2> QED BY <1>1, <2>1, <2>2 DEF Code
<1>11. ASSUME NEW k \in 1 .. 3 PROVE Taken(k) = WidthAt(p, s, k)
  <2>1. Kind(k) = KindAt(p, s, k)
    BY <1>10 DEF Kind, KindAt
  <2> QED BY <1>8, <2>1 DEF Taken, WidthAt, Size
<1> QED
  BY <1>3, <1>7, <1>8, <1>9, <1>11

\* What the instruction takes is where its last operand ends.
LEMMA BytesTaken ==
    ASSUME InCalls, Looping
    PROVE  /\ Inst.name \in {"push", "pop"} => BytesAt(program, Ip) = Through[1]
           /\ Inst.name \in {"mov", "cmp"} \cup Unary => BytesAt(program, Ip) = Through[2]
           /\ Inst.name \in Binary => BytesAt(program, Ip) = Through[3]
           /\ Inst.name = "fcall" => BytesAt(program, Ip) = InstSize + Word
<1>1. Through[0] = InstSize /\ \A k \in 1 .. 3 : Through[k] = Through[k - 1] + Taken(k)
  BY Fetched, ThroughType
<1> DEFINE t(k) == WidthAt(program, Ip, k)
           name == CodeAt(program, Ip).name
<1>2. Inst.name = name
  BY Fetched
<1>3. /\ Through[1] = InstSize + t(1)
      /\ Through[2] = InstSize + t(1) + t(2)
      /\ Through[3] = InstSize + t(1) + t(2) + t(3)
  BY <1>1, Fetched
<1>4. name \in {"push", "pop"} => BytesAt(program, Ip) = InstSize + t(1)
  BY DEF BytesAt, Unary, Binary
<1>5. name \in {"mov", "cmp"} \cup Unary => BytesAt(program, Ip) = InstSize + t(1) + t(2)
  BY DEF BytesAt, Unary, Binary
<1>6. name \in Binary => BytesAt(program, Ip) = InstSize + t(1) + t(2) + t(3)
  BY DEF BytesAt, Unary, Binary
<1>7. name = "fcall" => BytesAt(program, Ip) = InstSize + Word
  BY DEF BytesAt, Unary, Binary
<1> HIDE DEF t, name
<1> QED
  BY <1>2, <1>3, <1>4, <1>5, <1>6, <1>7

-----------------------------------------------------------------------------
(* Registers move, and code and links stay. *)

\* m has the code and the links of the machine.
Intact(m) ==
    /\ m \in Memories
    /\ Same(m, mem, RegistersSize + Word, EndOf(program) - RegistersSize - Word)
    /\ \A i \in DOMAIN frames : Same(m, mem, frames[i].base - Word, Word)

LEMMA KeptIntact ==
    ASSUME NEW m
    PROVE  Kept(m) <=> Intact(m) /\ Reg(m, IP) = Ip /\ Reg(m, BP) = Bp
BY DEF Kept, Intact

LEMMA LinkPlaces ==
    ASSUME InCalls, NEW i \in DOMAIN frames
    PROVE  /\ frames[i].base - Word \in Nat /\ EndOf(program) <= frames[i].base - Word
           /\ (frames[i].base - Word) + Word = frames[i].base /\ frames[i].base <= FrameSize
<1> DEFINE t == frames[i].base
           l == frames[i].low
<1>1. l \in Int /\ t \in Nat /\ EndOf(program) <= l /\ l <= t - Word /\ t <= FrameSize
  BY FramePlaces
<1>2. EndOf(program) \in Nat
  BY InCallsFacts, ProgramFits
<1> HIDE DEF t, l
<1>3. t - Word \in Nat /\ EndOf(program) <= t - Word /\ (t - Word) + Word = t /\ t <= FrameSize
  BY <1>1, <1>2, SizesKnown
<1> QED
  BY <1>3 DEF t

LEMMA SetIntact ==
    ASSUME InCalls, NEW m, Intact(m), NEW r \in Registers, NEW v \in Int
    PROVE  Intact(Set(m, r, v))
<1> DEFINE w == Set(m, r, v)
           d == EndOf(program) - RegistersSize - Word
<1>1. m \in Memories
  BY DEF Intact
<1>2. w \in Memories /\ \A i \in 1 .. FrameSize : i \notin r + 1 .. r + Word => w[i] = m[i]
  BY <1>1, SetReads
<1> HIDE DEF w
<1>3. Differs(w, m, r, Word)
  BY <1>2 DEF Differs
<1>4. r \in Nat /\ r + Word <= RegistersSize /\ Word \in Nat /\ RegistersSize \in Nat
  BY RegistersApart, SizesKnown
<1>5. ASSUME NEW b \in Nat, NEW k \in Nat, RegistersSize <= b, b + k <= FrameSize,
             Same(m, mem, b, k)
      PROVE  Same(w, mem, b, k)
  <2>1. Same(w, m, b, k)
    BY <1>3, <1>4, <1>5, Apart
  <2> QED BY <1>5, <2>1, SameThrough
<1>6. Same(w, mem, RegistersSize + Word, d)
  <2> DEFINE b == RegistersSize + Word
  <2>1. b \in Nat /\ d \in Nat /\ RegistersSize <= b /\ b + d <= FrameSize
    BY <1>4, InCallsFacts, ProgramFits, SizesKnown
  <2>2. Same(m, mem, b, d)
    BY DEF Intact
  <2> HIDE DEF b, d
  <2>3. Same(w, mem, b, d)
    BY <1>5, <2>1, <2>2
  <2> QED BY <2>3 DEF b
<1>7. ASSUME NEW i \in DOMAIN frames PROVE Same(w, mem, frames[i].base - Word, Word)
  <2> DEFINE b == frames[i].base - Word
  <2>1. b \in Nat /\ RegistersSize <= b /\ b + Word <= FrameSize
    <3>1. b \in Nat /\ EndOf(program) <= b /\ b + Word = frames[i].base /\ frames[i].base <= FrameSize
      BY LinkPlaces
    <3>2. RegistersSize <= EndOf(program) /\ EndOf(program) \in Nat
      BY InCallsFacts, ProgramFits, SizesKnown
    <3> HIDE DEF b
    <3>3. RegistersSize <= b
      BY <1>4, <3>1, <3>2
    <3>4. b + Word <= FrameSize
      BY <3>1
    <3> QED BY <3>1, <3>3, <3>4
  <2>2. Same(m, mem, b, Word)
    BY DEF Intact
  <2> HIDE DEF b
  <2>3. Same(w, mem, b, Word)
    BY <1>4, <1>5, <2>1, <2>2
  <2> QED BY <2>3 DEF b
<1>8. Intact(w)
  BY <1>2, <1>6, <1>7 DEF Intact, d
<1> QED
  BY <1>8 DEF w

LEMMA BumpIntact ==
    ASSUME InCalls, NEW m, Intact(m), NEW r \in Registers, NEW d \in Int
    PROVE  Intact(Bump(m, r, d))
<1> DEFINE v == Reg(m, r) + d
<1>1. v \in Int
  BY RegType, SizesKnown DEF Words, Intact
<1>2. Bump(m, r, d) = Set(m, r, v)
  BY DEF Bump
<1> HIDE DEF v
<1> QED
  BY <1>1, <1>2, SetIntact

\* What an instruction of t bytes leaves, with SP at s.
Ahead(w, t, s) ==
    /\ Intact(w)
    /\ Reg(w, IP) = Ip + t /\ Reg(w, BP) = Bp /\ Reg(w, SP) = s

LEMMA Moves ==
    ASSUME InCalls, NEW m, Kept(m), NEW t \in Int, Ip + t \in Words
    PROVE  Ahead(Bump(m, IP, t), t, Reg(m, SP))
<1>1. Intact(m) /\ Reg(m, IP) = Ip /\ Reg(m, BP) = Bp /\ m \in Memories
  BY KeptIntact DEF Kept
<1> DEFINE w == Bump(m, IP, t)
<1>2. Intact(w)
  BY <1>1, BumpIntact, RegistersIn
<1>3. IP # BP /\ IP # SP
  BY RegistersAt, SizesKnown
<1>4. Reg(w, IP) = Ip + t /\ Reg(w, BP) = Reg(m, BP) /\ Reg(w, SP) = Reg(m, SP)
  BY <1>1, <1>3, BumpReads, RegistersIn
<1> HIDE DEF w
<1>5. Ahead(w, t, Reg(m, SP))
  BY <1>1, <1>2, <1>4 DEF Ahead
<1> QED
  BY <1>5 DEF w

\* A fault leaves the memory, and what runs on does so with every access in it.
LEMMA LeavesCases ==
    ASSUME NEW accesses, NEW m, Leaves(accesses, m)
    PROVE  \/ status' \in {"thrown", "undefined"} /\ mem' = mem
           \/ status' = status /\ mem' = m /\ \A k \in DOMAIN accesses : ~(accesses[k] < 0)
<1> DEFINE faults == {k \in DOMAIN accesses : accesses[k] < 0}
           first == CHOOSE k \in faults : \A j \in faults : k <= j
<1>1. IF faults = {} THEN mem' = m /\ UNCHANGED status
      ELSE status' = Outcome(accesses[first]) /\ UNCHANGED mem
  BY DEF Leaves
<1>2. faults = {} => \A k \in DOMAIN accesses : ~(accesses[k] < 0)
  OBVIOUS
<1>3. \A f : Outcome(f) \in {"thrown", "undefined"}
  BY DEF Outcome
<1> HIDE DEF faults, first
<1> QED
  BY <1>1, <1>2, <1>3

-----------------------------------------------------------------------------
(* What the instructions of a tame program do. *)

Faults == status' \in {"thrown", "undefined"} /\ mem' = mem /\ frames' = frames

Works ==
    /\ status' = "running" /\ frames' = frames
    /\ Intact(mem') /\ Reg(mem', BP) = Bp
    /\ Floor <= Reg(mem', SP)
    /\ Reg(mem', IP) \in RegistersSize .. EndOf(program)
    /\ LoopingIn(mem', program) => Reg(mem', IP) \in program.starts

\* A run is at an instruction with one of the names.
RunsOne(names) == InCalls /\ Looping /\ Tame /\ Inst.name \in names

LEMMA Running ==
    ASSUME InCalls, Tame, NEW names, Executes(names)
    PROVE  /\ RunsOne(names) /\ InCalls /\ Looping /\ AtInst /\ Known /\ Inst.name \in names
           /\ mem \in Memories /\ status = "running"
           /\ Sp \in Nat /\ Size \in Nat /\ Size <= Word
<1>1. status = "running" /\ Looping /\ Known /\ Inst.name \in names
  BY DEF Executes
<1>2. AtInst /\ mem \in Memories /\ Sp \in Nat /\ Size \in Nat /\ Size <= Word
  BY <1>1, Fetched, InCallsFacts, SizeType
<1> QED
  BY <1>1, <1>2 DEF RunsOne

\* The instruction behind one that neither halts nor returns.
LEMMA Behind ==
    ASSUME InCalls, Looping, Inst.name \notin {"halt", "ret"}
    PROVE  /\ Ip + BytesAt(program, Ip) \in program.starts
           /\ Ip + BytesAt(program, Ip) \in Words
           /\ Ip + BytesAt(program, Ip) \in RegistersSize .. EndOf(program)
<1>1. /\ program \in Programs /\ FramedPrograms /\ Ip \in program.starts
      /\ Inst = CodeAt(program, Ip)
  BY InCallsFacts, Fetched DEF InCalls
<1>2. Ip + BytesAt(program, Ip) \in program.starts
  BY <1>1, StartFacts
<1> DEFINE t == Ip + BytesAt(program, Ip)
<1>3. t \in program.starts
  BY <1>2
<1> HIDE DEF t
<1>4. t \in Words /\ t \in RegistersSize .. EndOf(program)
  BY <1>1, <1>3, StartFacts
<1> QED
  BY <1>3, <1>4 DEF t

LEMMA GoesOn ==
    ASSUME InCalls, Looping, Inst.name \notin {"halt", "ret"}, NEW t \in Int,
           t = BytesAt(program, Ip), NEW m, Kept(m),
           mem' = Bump(m, IP, t), status' = "running", frames' = frames,
           Floor <= Reg(mem', SP)
    PROVE  Works
<1>1. Ip + t \in program.starts /\ Ip + t \in Words /\ Ip + t \in RegistersSize .. EndOf(program)
  BY Behind
<1>2. Ahead(mem', t, Reg(m, SP))
  BY <1>1, Moves
<1>3. Intact(mem') /\ Reg(mem', BP) = Bp /\ Reg(mem', IP) = Ip + t
  BY <1>2 DEF Ahead
<1> QED
  BY <1>1, <1>3 DEF Works

LEMMA TakenInt ==
    ASSUME InCalls, Looping, Inst.name \in Writers \cup {"push", "cmp"}
    PROVE  BytesAt(program, Ip) \in Int
<1>1. Through[1] \in Int /\ Through[2] \in Int /\ Through[3] \in Int
  BY Fetched, ThroughInt
<1>2. \/ Inst.name \in {"push", "pop"}
      \/ Inst.name \in {"mov", "cmp"} \cup Unary
      \/ Inst.name \in Binary
  BY DEF Writers
<1> QED
  BY <1>1, <1>2, BytesTaken

\* A write to the first operand.
LEMMA WritesOwn ==
    ASSUME RunsOne(Writers), Operand(1) >= 0, NEW w,
           Differs(w, mem, Operand(1), Size)
    PROVE  Kept(w)
<1>1. InCalls /\ Looping /\ Inst.name \in Writers /\ Tame
  BY DEF RunsOne
<1>2. status = "running" /\ AtInst /\ Known
  BY <1>1, Fetched DEF InCalls
<1>3. Operand(1) \in Nat /\ Size \in Nat
  <2>1. 1 \in 1 .. 3
    OBVIOUS
  <2>2. Operand(1) \in Int
    BY <1>2, <2>1, OperandType
  <2> QED BY <1>2, <2>2, SizeType
<1>4. Free(Operand(1), Size)
  BY <1>1, <1>2 DEF Tame, Free
<1> QED
  BY <1>1, <1>3, <1>4, KeptAtFirst, WriteKept

LEMMA PutDiffers ==
    ASSUME NEW m \in Memories, NEW a \in Nat, NEW n \in Nat, NEW v \in Int, a + n <= FrameSize
    PROVE  Differs(Put(m, a, n, v), m, a, n)
BY PutKeeps DEF Differs

LEMMA MovWorks ==
    ASSUME InCalls, Tame, Mov
    PROVE  Faults \/ Works
<1> DEFINE w == Put(mem, Operand(1), Size, Arg(2))
           t == Through[2]
<1>1. Executes({"mov"}) /\ Leaves(Operands, Bump(w, IP, t)) /\ frames' = frames
  BY DEF Mov
<1>2. /\ InCalls /\ Looping /\ AtInst /\ Known /\ Inst.name = "mov"
      /\ mem \in Memories /\ status = "running" /\ Size \in Nat
  BY <1>1, Running
<1>3. Operands \in [1 .. 2 -> Int] /\ Operands[1] = Operand(1) /\ Operands[2] = Operand(2)
  BY <1>2, ShapeKnown, OperandsType
<1>4. t \in Int /\ t = BytesAt(program, Ip)
  BY <1>2, ThroughInt, BytesTaken
<1>5. ASSUME status' = "running" /\ mem' = Bump(w, IP, t), \A k \in DOMAIN Operands : ~(Operands[k] < 0)
      PROVE  Works
  <2>1. Operand(1) >= 0 /\ Operand(2) >= 0
    BY <1>3, <1>5
  <2>2. Arg(2) \in Int
    BY <1>2, <2>1, ArgType
  <2>3. Operand(1) \in Nat /\ Operand(1) + Size <= FrameSize
    <3>1. 1 \in 1 .. 3
      OBVIOUS
    <3> QED BY <1>2, <2>1, <3>1, OperandType
  <2>4. Differs(w, mem, Operand(1), Size)
    BY <1>2, <2>2, <2>3, PutDiffers
  <2> HIDE DEF w, t
  <2>5. Inst.name \in Writers /\ RunsOne(Writers)
    BY <1>2 DEF Writers, RunsOne
  <2>6. Kept(w)
    BY <2>1, <2>4, <2>5, WritesOwn
  <2>7. Floor <= Reg(mem', SP)
    <3>1. Reg(mem', SP) >= Floor
      BY <1>2, <1>5, <2>5 DEF Tame
    <3> QED BY <3>1
  <2>8. Inst.name \notin {"halt", "ret"}
    BY <1>2
  <2> QED BY <1>1, <1>2, <1>4, <1>5, <2>6, <2>7, <2>8, GoesOn
<1> HIDE DEF w, t
<1>6. \/ status' \in {"thrown", "undefined"} /\ mem' = mem
      \/ status' = status /\ mem' = Bump(w, IP, t) /\ \A k \in DOMAIN Operands : ~(Operands[k] < 0)
  BY <1>1, LeavesCases
<1> QED
  BY <1>1, <1>2, <1>5, <1>6 DEF Faults

LEMMA ArithmeticWorks ==
    ASSUME InCalls, Tame, Arithmetic
    PROVE  Faults \/ Works
<1> DEFINE x == IF Extended THEN Arg(2) ELSE Arg(1)
           y == IF Inst.name \in Unary THEN 0 ELSE IF Extended THEN Arg(3) ELSE Arg(2)
           v == Compute(Inst.name, x, y)
           w == Put(mem, Operand(1), Size, v)
           t == Through[Len(Shape)]
           defined == IsDefined(Inst.name, Inst.sign, Size, x, y)
<1>1. /\ Executes(Binary \cup Unary) /\ frames' = frames
      /\ IF Located /\ ~defined THEN status' = "undefined" /\ UNCHANGED mem
         ELSE Leaves(Operands, Bump(w, IP, t))
  BY DEF Arithmetic
<1>2. /\ InCalls /\ Looping /\ AtInst /\ Known /\ Inst.name \in Binary \cup Unary
      /\ mem \in Memories /\ status = "running" /\ Size \in Nat
  BY <1>1, Running
<1>3. CASE Located /\ ~defined
  BY <1>1, <1>3 DEF Faults
<1>4. CASE ~(Located /\ ~defined)
  <2>1. PICK n \in 2 .. 3 : DOMAIN Shape = 1 .. n /\ Len(Shape) = n
                             /\ (Inst.name \notin Unary => n = 3)
                             /\ (Inst.name \in Unary => n = 2)
    <3>1. 2 \in 2 .. 3 /\ 3 \in 2 .. 3
      OBVIOUS
    <3>2. CASE Inst.name \in Binary
      <4>1. Inst.name \notin Unary
        BY <3>2 DEF Binary, Unary
      <4> QED BY <3>1, <3>2, <4>1, ShapeKnown
    <3>3. CASE Inst.name \in Unary
      BY <3>1, <3>3, ShapeKnown
    <3> QED BY <1>2, <3>2, <3>3
  <2>2. Operands \in [1 .. n -> Int] /\ \A k \in 1 .. n : Operands[k] = Operand(k)
    <3>1. n \in 1 .. 3
      OBVIOUS
    <3> QED BY <1>2, <2>1, <3>1, OperandsType
  <2>3. t \in Int /\ t = BytesAt(program, Ip)
    <3>1. CASE Inst.name \in Unary
      <4>1. Len(Shape) = 2
        BY <2>1, <3>1
      <4> QED BY <1>2, <3>1, <4>1, ThroughInt, BytesTaken
    <3>2. CASE Inst.name \notin Unary
      <4>1. Len(Shape) = 3
        BY <2>1, <3>2
      <4> QED BY <1>2, <3>2, <4>1, ThroughInt, BytesTaken
    <3> QED BY <3>1, <3>2
  <2>4. ASSUME status' = "running", mem' = Bump(w, IP, t), \A k \in DOMAIN Operands : ~(Operands[k] < 0)
        PROVE  Works
    <3>1. \A k \in 1 .. n : Operand(k) >= 0
      BY <2>2, <2>4
    <3>2. Located
      BY <2>1, <3>1 DEF Located
    <3>3. defined
      BY <1>4, <3>2
    <3>4. \A k \in 1 .. n : Arg(k) \in Int
      BY <1>2, <3>1, ArgType
    <3>5. x \in Int /\ y \in Int
      <4>1. Arg(1) \in Int /\ Arg(2) \in Int
        BY <3>4
      <4>2. Inst.name \notin Unary => Arg(3) \in Int
        BY <2>1, <3>4
      <4> QED BY <4>1, <4>2
    <3> HIDE DEF x, y
    <3>6. v \in Int
      BY <1>2, <3>3, <3>5, ComputeType
    <3>7. Operand(1) \in Nat /\ Operand(1) >= 0 /\ Operand(1) + Size <= FrameSize
      <4>1. 1 \in 1 .. 3 /\ Operand(1) >= 0
        BY <3>1
      <4> QED BY <1>2, <4>1, OperandType
    <3> HIDE DEF v
    <3>8. Differs(w, mem, Operand(1), Size)
      BY <1>2, <3>6, <3>7, PutDiffers
    <3> HIDE DEF w, t
    <3>9. Inst.name \in Writers /\ RunsOne(Writers)
      BY <1>2 DEF Writers, RunsOne
    <3>10. Kept(w)
      BY <3>7, <3>8, <3>9, WritesOwn
    <3>11. Floor <= Reg(mem', SP)
      <4>1. Reg(mem', SP) >= Floor
        BY <1>2, <2>4, <3>9 DEF Tame
      <4> QED BY <4>1
    <3>12. Inst.name \notin {"halt", "ret"}
      BY <1>2 DEF Binary, Unary
    <3> QED BY <1>1, <1>2, <2>3, <2>4, <3>10, <3>11, <3>12, GoesOn
  <2> HIDE DEF w, t
  <2>5. Leaves(Operands, Bump(w, IP, t))
    BY <1>1, <1>4
  <2>6. \/ status' \in {"thrown", "undefined"} /\ mem' = mem
        \/ status' = status /\ mem' = Bump(w, IP, t) /\ \A k \in DOMAIN Operands : ~(Operands[k] < 0)
    BY <2>5, LeavesCases
  <2> QED BY <1>1, <1>2, <2>4, <2>6 DEF Faults
<1> QED
  BY <1>3, <1>4

\* SP moves within the function's part of the stack.
LEMMA StackMoves ==
    ASSUME InCalls, NEW m, Kept(m), NEW d \in Int
    PROVE  Kept(Bump(m, SP, d))
<1> DEFINE w == Bump(m, SP, d)
<1>1. m \in Memories
  BY DEF Kept
<1>2. w \in Memories /\ \A i \in 1 .. FrameSize : i \notin SP + 1 .. SP + Word => w[i] = m[i]
  BY <1>1, BumpReads, RegistersIn
<1> HIDE DEF w
<1>3. Differs(w, m, SP, Word)
  BY <1>2 DEF Differs
<1>4. Free(SP, Word) /\ SP \in Nat /\ Word \in Nat
  BY RegistersAt, SizesKnown DEF Free
<1>5. Kept(w)
  BY <1>3, <1>4, WriteKept
<1> QED
  BY <1>5 DEF w

LEMMA PushWorks ==
    ASSUME InCalls, Tame, Push
    PROVE  Faults \/ Works
<1>1. Executes({"push"}) /\ frames' = frames
  BY DEF Push
<1>2. /\ InCalls /\ Looping /\ AtInst /\ Known /\ Inst.name = "push"
      /\ mem \in Memories /\ status = "running" /\ Size \in Nat /\ Sp \in Nat
  BY <1>1, Running
<1>3. Through[1] \in Int /\ Through[1] = BytesAt(program, Ip)
  BY <1>2, ThroughInt, BytesTaken
<1>4. ASSUME status' = "running" PROVE Floor <= Reg(mem', SP)
  <2>1. Reg(mem', SP) >= Floor
    BY <1>2, <1>4 DEF Tame
  <2> QED BY <2>1
<1>5. Inst.name \notin {"halt", "ret"}
  BY <1>2
<1>6. ASSUME NEW w, Kept(w), NEW t \in Int, t = BytesAt(program, Ip),
             mem' = Bump(Bump(w, SP, Size), IP, t), status' = "running"
      PROVE  Works
  <2> DEFINE m == Bump(w, SP, Size)
  <2>1. Size \in Int
    BY <1>2
  <2>2. Kept(m)
    BY <1>2, <1>6, <2>1, StackMoves
  <2>3. mem' = Bump(m, IP, t) /\ t \in Int /\ t = BytesAt(program, Ip)
    BY <1>6
  <2>4. Floor <= Reg(mem', SP)
    BY <1>4, <1>6
  <2> HIDE DEF m
  <2> QED BY <1>1, <1>2, <1>5, <1>6, <2>2, <2>3, <2>4, GoesOn
<1>7. CASE Kind(1) = Empty
  <2> DEFINE m == Bump(Bump(mem, SP, Size), IP, InstSize)
  <2>1. Leaves(<<>>, m)
    BY <1>7 DEF Push
  <2>2. InstSize = BytesAt(program, Ip) /\ InstSize \in Int
    <3>1. Through[0] = InstSize /\ Through[1] = Through[0] + Taken(1)
      BY <1>2, ThroughType
    <3>2. Taken(1) = 0
      BY <1>7 DEF Taken, Width, Empty, Relative, RelativeWithDiff, Fixed
    <3> QED BY <1>3, <3>1, <3>2, SizesKnown
  <2>3. ASSUME status' = "running", mem' = m PROVE Works
    <3>1. Kept(mem)
      BY <1>2, KeptAtFirst
    <3> QED BY <1>6, <2>2, <2>3, <3>1
  <2> HIDE DEF m
  <2>4. (status' \in {"thrown", "undefined"} /\ mem' = mem) \/ (status' = status /\ mem' = m)
    BY <2>1, LeavesCases
  <2> QED BY <1>1, <1>2, <2>3, <2>4 DEF Faults
<1>8. CASE Kind(1) # Empty
  <2> DEFINE l == Locate(Sp, Size)
             accesses == Append(Operands, l)
             w == Put(mem, Sp, Size, Arg(1))
             m == Bump(Bump(w, SP, Size), IP, Through[1])
  <2>1. Leaves(accesses, m)
    BY <1>8 DEF Push
  <2>2. Operands \in [1 .. 1 -> Int] /\ Operands[1] = Operand(1)
    BY <1>2, ShapeKnown, OperandsType
  <2>3. l \in Int /\ (l >= 0 => Sp + Size <= FrameSize)
    BY <1>2, LocateFacts
  <2>4. ASSUME status' = "running", mem' = m, \A k \in DOMAIN accesses : ~(accesses[k] < 0)
        PROVE  Works
    <3>1. Operand(1) >= 0 /\ l >= 0
      <4> HIDE DEF l
      <4> QED BY <2>2, <2>3, <2>4, AppendFaults
    <3>2. Arg(1) \in Int
      BY <1>2, <3>1, ArgType
    <3>3. Differs(w, mem, Sp, Size)
      BY <1>2, <2>3, <3>1, <3>2, PutDiffers
    <3>4. Free(Sp, Size)
      <4>1. Floor <= Sp /\ Floor \in Int
        BY <1>2, FramePlaces
      <4> QED BY <1>2, <4>1 DEF Free, Own
    <3> HIDE DEF w
    <3>5. Kept(w)
      BY <1>2, <3>3, <3>4, KeptAtFirst, WriteKept
    <3> QED BY <1>3, <1>6, <2>4, <3>5
  <2> HIDE DEF accesses, m
  <2>5. \/ status' \in {"thrown", "undefined"} /\ mem' = mem
        \/ status' = status /\ mem' = m /\ \A k \in DOMAIN accesses : ~(accesses[k] < 0)
    BY <2>1, LeavesCases
  <2> QED BY <1>1, <1>2, <2>4, <2>5 DEF Faults
<1> QED
  BY <1>7, <1>8

LEMMA CopyDiffers ==
    ASSUME NEW m \in Memories, NEW from \in Nat, NEW to \in Nat, NEW n \in Nat,
           from + n <= FrameSize, to + n <= FrameSize
    PROVE  Differs(Copy(m, from, to, n), m, to, n)
<1>1. m \in Seq(Bytes) /\ Len(m) = FrameSize /\ FrameSize \in Nat
  BY MemoryIsSeq, SizesKnown
<1> DEFINE s == SubSeq(m, from + 1, from + n)
<1>2. s \in Seq(Bytes) /\ Len(s) = n
  BY <1>1
<1> HIDE DEF s
<1>3. Differs(Write(m, to, s), m, to, n)
  BY <1>2, WriteKeeps DEF Differs
<1> QED
  BY <1>3 DEF Copy, s

LEMMA PopWorks ==
    ASSUME InCalls, Tame, Pop
    PROVE  Faults \/ Works
<1> DEFINE accesses == Append(Operands, Popped)
           w == Copy(mem, Popped, Operand(1), Size)
           u == Bump(w, SP, -Size)
           t == Through[1]
           m == Bump(u, IP, t)
<1>1. Executes({"pop"}) /\ Leaves(accesses, m) /\ frames' = frames
  BY DEF Pop
<1>2. /\ InCalls /\ Looping /\ AtInst /\ Known /\ Inst.name = "pop"
      /\ mem \in Memories /\ status = "running" /\ Size \in Nat /\ Sp \in Nat
  BY <1>1, Running
<1>3. Operands \in [1 .. 1 -> Int] /\ Operands[1] = Operand(1)
  BY <1>2, ShapeKnown, OperandsType
<1>4. Popped \in Int /\ (Popped >= 0 => Popped + Size <= FrameSize)
  <2>1. Below(Sp, Size) \in Int
    BY <1>2, DisplacedType
  <2>2. Deref(mem, Below(Sp, Size)) \in Int
    BY <1>2, <2>1, DerefType
  <2> DEFINE a == Deref(mem, Below(Sp, Size))
  <2>3. a \in Int /\ Popped = Locate(a, Size)
    BY <2>2 DEF Popped
  <2> HIDE DEF a
  <2> QED BY <1>2, <2>3, LocateFacts
<1>5. t \in Int /\ t = BytesAt(program, Ip)
  BY <1>2, ThroughInt, BytesTaken
<1>6. ASSUME status' = "running", mem' = m, \A k \in DOMAIN accesses : ~(accesses[k] < 0)
      PROVE  Works
  <2>1. Operand(1) >= 0 /\ Popped >= 0
    BY <1>3, <1>4, <1>6, AppendFaults
  <2>2. Operand(1) \in Nat /\ Operand(1) + Size <= FrameSize
    <3>1. 1 \in 1 .. 3
      OBVIOUS
    <3> QED BY <1>2, <2>1, <3>1, OperandType
  <2>3. Differs(w, mem, Operand(1), Size)
    BY <1>2, <1>4, <2>1, <2>2, CopyDiffers
  <2>4. Inst.name \in Writers /\ RunsOne(Writers)
    BY <1>2 DEF Writers, RunsOne
  <2> HIDE DEF w, t
  <2>5. Kept(w)
    BY <2>1, <2>3, <2>4, WritesOwn
  <2>6. -Size \in Int
    BY <1>2
  <2>7. Kept(u)
    BY <1>2, <2>5, <2>6, StackMoves
  <2>8. mem' = Bump(u, IP, t)
    BY <1>6
  <2> HIDE DEF u
  <2>9. Floor <= Reg(mem', SP)
    <3>1. Reg(mem', SP) >= Floor
      BY <1>2, <1>6, <2>4 DEF Tame
    <3> QED BY <3>1
  <2>10. Inst.name \notin {"halt", "ret"}
    BY <1>2
  <2> QED BY <1>1, <1>2, <1>5, <1>6, <2>7, <2>8, <2>9, <2>10, GoesOn
<1> HIDE DEF accesses, m
<1>7. \/ status' \in {"thrown", "undefined"} /\ mem' = mem
      \/ status' = status /\ mem' = m /\ \A k \in DOMAIN accesses : ~(accesses[k] < 0)
  BY <1>1, LeavesCases
<1> QED
  BY <1>1, <1>2, <1>6, <1>7 DEF Faults

\* A flag changes one byte.
LEMMA FlagWrites ==
    ASSUME InCalls, NEW m, Kept(m), NEW f \in {RF, ZF, SF}, NEW b \in BOOLEAN
    PROVE  Kept(SetFlag(m, f, b)) /\ Reg(SetFlag(m, f, b), SP) = Reg(m, SP)
<1> DEFINE w == SetFlag(m, f, b)
<1>1. m \in Memories
  BY DEF Kept
<1>2. w \in Memories
  BY <1>1, SetFlagFacts
<1>3. \A i \in 1 .. FrameSize : i \notin FLAGS + 1 .. FLAGS + 1 => w[i] = m[i]
  <2> SUFFICES ASSUME NEW i \in 1 .. FrameSize, i \notin FLAGS + 1 .. FLAGS + 1
               PROVE  w[i] = m[i]
    OBVIOUS
  <2>1. i # FLAGS + 1
    BY RegistersAt
  <2> QED BY <1>1, <2>1 DEF SetFlag, Memories
<1> HIDE DEF w
<1>4. Differs(w, m, FLAGS, 1)
  BY <1>2, <1>3 DEF Differs
<1>5. Free(FLAGS, 1) /\ FLAGS \in Nat /\ SP + Word <= FLAGS
  BY RegistersAt DEF Free
<1>6. Kept(w) /\ Reg(w, SP) = Reg(m, SP)
  BY <1>4, <1>5, WriteKept
<1> QED
  BY <1>6 DEF w

LEMMA CmpWorks ==
    ASSUME InCalls, Tame, Cmp
    PROVE  Faults \/ Works
<1> DEFINE d == Difference(Inst.sign, Size, Arg(1), Arg(2))
           zero == (d = 0)
           negative == (SignBits(Size, d) # 0)
           w == SetFlag(mem, ZF, zero)
           u == SetFlag(w, SF, negative)
           t == Through[2]
           defined == IsDefined("sub", Inst.sign, Size, Arg(1), Arg(2))
<1>1. /\ Executes({"cmp"}) /\ frames' = frames
      /\ IF Located /\ ~defined THEN status' = "undefined" /\ UNCHANGED mem
         ELSE Leaves(Operands, Bump(u, IP, t))
  BY DEF Cmp
<1>2. /\ InCalls /\ Looping /\ AtInst /\ Known /\ Inst.name = "cmp"
      /\ mem \in Memories /\ status = "running"
  BY <1>1, Running
<1>3. t \in Int /\ t = BytesAt(program, Ip)
  BY <1>2, ThroughInt, BytesTaken
<1>4. Kept(mem) /\ zero \in BOOLEAN /\ negative \in BOOLEAN
  BY <1>2, KeptAtFirst
<1> HIDE DEF zero, negative, defined
<1>5. Kept(w) /\ Reg(w, SP) = Sp
  BY <1>2, <1>4, FlagWrites DEF Sp
<1> HIDE DEF w
<1>6. Kept(u) /\ Reg(u, SP) = Sp
  BY <1>2, <1>4, <1>5, FlagWrites
<1> HIDE DEF u, t
<1>7. ASSUME status' = "running", mem' = Bump(u, IP, t) PROVE Works
  <2>1. Inst.name \notin {"halt", "ret"}
    BY <1>2
  <2>2. Reg(mem', SP) = Sp
    <3>1. IP # SP /\ u \in Memories
      BY <1>6, RegistersAt, SizesKnown DEF Kept
    <3>2. Reg(Bump(u, IP, t), SP) = Reg(u, SP)
      BY <1>3, <3>1, BumpReads, RegistersIn
    <3> QED BY <1>6, <1>7, <3>2
  <2>3. Floor <= Reg(mem', SP)
    BY <1>2, <2>2, FramePlaces
  <2> QED BY <1>1, <1>2, <1>3, <1>6, <1>7, <2>1, <2>3, GoesOn
<1>8. CASE Located /\ ~defined
  BY <1>1, <1>8 DEF Faults
<1>9. CASE ~(Located /\ ~defined)
  <2>1. Leaves(Operands, Bump(u, IP, t))
    BY <1>1, <1>9
  <2>2. \/ status' \in {"thrown", "undefined"} /\ mem' = mem
        \/ status' = status /\ mem' = Bump(u, IP, t)
    BY <2>1, LeavesCases
  <2> QED BY <1>1, <1>2, <1>7, <2>2 DEF Faults
<1> QED
  BY <1>8, <1>9

\* halt leaves the loop.
LEMMA HaltWorks ==
    ASSUME InCalls, Tame, Halt
    PROVE  Faults \/ Works
<1> DEFINE w == SetFlag(mem, RF, FALSE)
           m == Bump(w, IP, InstSize)
<1>1. Executes({"halt"}) /\ Leaves(<<>>, m) /\ frames' = frames
  BY DEF Halt
<1>2. InCalls /\ Looping /\ mem \in Memories /\ status = "running"
  BY <1>1, Running
<1>3. /\ Kept(w) /\ Reg(w, SP) = Sp /\ w \in Memories
      /\ Bit(w[FLAGS + 1], RF) = 0
  BY <1>2, KeptAtFirst, FlagWrites, SetFlagFacts DEF Sp
<1>4. InstSize \in Int /\ Ip + InstSize \in Words
      /\ Ip + InstSize \in RegistersSize .. EndOf(program)
  <2>1. Ip \in RegistersSize + Word .. EndOf(program) - InstSize
    BY <1>2, Fetched, InCallsFacts, StartFacts DEF InCalls
  <2>2. EndOf(program) \in Nat /\ EndOf(program) \in Words
    BY InCallsFacts, ProgramFits
  <2> QED BY <2>1, <2>2, SizesKnown DEF Words
<1> HIDE DEF w
<1>5. Ahead(m, InstSize, Reg(w, SP))
  BY <1>2, <1>3, <1>4, Moves
<1>6. m[FLAGS + 1] = w[FLAGS + 1]
  BY <1>3, <1>4, FlagsKept
<1> HIDE DEF m
<1>7. ASSUME status' = "running", mem' = m PROVE Works
  <2>1. Floor <= Sp
    BY <1>2, FramePlaces
  <2>2. Intact(mem') /\ Reg(mem', BP) = Bp /\ Reg(mem', SP) = Sp /\ Reg(mem', IP) = Ip + InstSize
    BY <1>3, <1>5, <1>7 DEF Ahead
  <2>3. ~LoopingIn(mem', program)
    BY <1>3, <1>6, <1>7 DEF LoopingIn
  <2> QED BY <1>1, <1>4, <1>7, <2>1, <2>2, <2>3 DEF Works
<1>8. (status' \in {"thrown", "undefined"} /\ mem' = mem) \/ (status' = status /\ mem' = m)
  BY <1>1, LeavesCases
<1> QED
  BY <1>1, <1>2, <1>7, <1>8 DEF Faults

-----------------------------------------------------------------------------
(* A call. *)

\* Behind the fcall at IP, and what it calls.
Back == Ip + InstSize + Word
Called == Callee(program, Back)

LEMMA AtCall ==
    ASSUME InCalls, Looping, Inst.name = "fcall"
    PROVE  /\ Back \in Nat /\ Back \in Words /\ Back \in program.starts
           /\ Called \in program.starts /\ Called \in DOMAIN program.args
           /\ Called \in Nat /\ Called \in Words /\ Called \in RegistersSize .. EndOf(program)
           /\ program.args[Called] \in Nat /\ ArgsOf(Called) = program.args[Called]
           /\ CodeAt(program, Ip).name = "fcall" /\ Ip \in program.starts
<1>1. /\ program \in Programs /\ FramedPrograms /\ Ip \in program.starts
      /\ CodeAt(program, Ip).name = "fcall" /\ Ip \in Nat
  BY InCallsFacts, Fetched DEF InCalls
<1>2. /\ Back \in program.starts
      /\ Called \in program.starts /\ Called \in DOMAIN program.args
      /\ program.args[Called] \in Nat
  BY <1>1, CallSite DEF Back, Called
<1>3. Back \in Words /\ Back \in Nat
  BY <1>1, <1>2, StartFacts
<1>4. Called \in Nat /\ Called \in Words /\ Called \in RegistersSize .. EndOf(program)
  BY <1>1, <1>2, StartFacts
<1>5. ArgsOf(Called) = program.args[Called]
  BY <1>2 DEF ArgsOf
<1> QED
  BY <1>1, <1>2, <1>3, <1>4, <1>5

\* Addresses in the frame are where they say.
LEMMA DerefReads ==
    ASSUME NEW m, NEW a \in Nat, a + Word <= FrameSize
    PROVE  Deref(m, a) = Value(m, a, Word)
<1>1. FrameSize <= Span(Word) \div 4 /\ Span(Word) \div 4 \in Nat /\ FrameSize \in Nat
      /\ Word \in Nat \ {0}
  BY SizesKnown
<1>2. Locate(a, Word) = a
  BY <1>1 DEF Locate
<1> QED
  BY <1>2 DEF Deref

LEMMA DisplacedReads ==
    ASSUME NEW a \in Nat, NEW d \in Nat
    PROVE  /\ a + d \in Words => Displaced(a, d) = a + d
           /\ a - d \in Words => Below(a, d) = a - d
<1>1. a + d \in Words => (a + d) % Span(Word) = a + d
  BY InWords
<1>2. a - d \in Words => (a - d) % Span(Word) = a - d
  BY InWords
<1> QED
  BY <1>1, <1>2 DEF Displaced, Below

LEMMA FitsWords ==
    ASSUME NEW a \in Nat, a <= FrameSize
    PROVE  a \in Words
<1>1. FrameSize <= Span(Word) \div 4 /\ Span(Word) \in Nat \ {0} /\ FrameSize \in Nat
  BY SizesKnown
<1>2. Span(Word) \div 4 < Span(Word)
  BY <1>1
<1> QED
  BY <1>1, <1>2 DEF Words

\* A call: its link on the stack, the place it comes back to in BP.
GoesIn ==
    /\ status' = "running"
    /\ frames' = Append(frames, [ret  |-> Back,
                                 low  |-> Sp - program.args[Called],
                                 base |-> Sp + Word])
    /\ Intact(mem') /\ Value(mem', Sp, Word) = Bp
    /\ Reg(mem', IP) = Called /\ Reg(mem', BP) = Back /\ Reg(mem', SP) = Sp + Word
    /\ Floor <= Sp - program.args[Called] /\ Sp + Word <= FrameSize
    /\ Inst.name = "fcall" /\ Looping

LEMMA Linked ==
    ASSUME InCalls, Looping, Inst.name = "fcall", Sp + Word <= FrameSize, NEW m, m = Calling(mem)
    PROVE  /\ Intact(m) /\ Value(m, Sp, Word) = Bp
           /\ Reg(m, IP) = Ip /\ Reg(m, BP) = Back /\ Reg(m, SP) = Sp + Word
<1> DEFINE w == Set(mem, Sp, Bp)
           u == Bump(w, SP, Word)
<1>1. /\ mem \in Memories /\ Sp \in Nat /\ Bp \in Words /\ Bp \in Int /\ Ip \in Nat
      /\ Floor <= Sp /\ Floor \in Int /\ EndOf(program) <= Floor /\ Word \in Nat \ {0}
      /\ EndOf(program) \in Nat /\ RegistersSize <= EndOf(program) /\ RegistersSize \in Nat
  BY InCallsFacts, FramePlaces, ProgramFits, SizesKnown
<1>2. w = Put(mem, Sp, Word, Bp)
  BY DEF Set
<1>3. Differs(w, mem, Sp, Word) /\ w \in Memories
  BY <1>1, <1>2, PutDiffers, PutKeeps
<1>4. Free(Sp, Word) /\ SP + Word <= Sp
  <2>1. SP + Word <= RegistersSize /\ SP \in Nat
    BY <1>1, RegistersAt
  <2> QED BY <1>1, <2>1 DEF Free, Own
<1>5. Kept(w) /\ Reg(w, SP) = Sp
  BY <1>1, <1>3, <1>4, KeptAtFirst, WriteKept DEF Sp
<1>6. Value(w, Sp, Word) = Bp
  <2>1. Value(w, Sp, Word) = Bp % Span(Word)
    BY <1>1, <1>2, PutReads
  <2> QED BY <1>1, <2>1, InWords
<1> HIDE DEF w
<1>7. Kept(u) /\ u \in Memories
  BY <1>1, <1>5, StackMoves DEF Kept
<1>8. Reg(u, SP) = Sp + Word
  <2>1. Sp + Word \in Words
    BY <1>1, FitsWords
  <2>2. Reg(w, SP) + Word \in Words => Reg(u, SP) = Reg(w, SP) + Word
    <3>1. Word \in Int
      BY <1>1
    <3> QED BY <1>3, <3>1, BumpReads, RegistersIn
  <2> QED BY <1>5, <2>1, <2>2
<1>9. ASSUME NEW b \in Nat, SP + Word <= b, b + Word <= FrameSize
      PROVE  Value(u, b, Word) = Value(w, b, Word)
  <2>1. \A i \in 1 .. FrameSize : i \notin SP + 1 .. SP + Word => u[i] = w[i]
    BY <1>1, <1>3, BumpReads, RegistersIn
  <2>2. Differs(u, w, SP, Word)
    BY <1>7, <2>1 DEF Differs
  <2>3. Same(u, w, b, Word)
    BY <1>1, <1>9, <2>2, Apart, RegistersAt
  <2> QED BY <1>1, <1>3, <1>7, <1>9, <2>3, SameReads
<1>10. Value(u, Sp, Word) = Bp
  BY <1>1, <1>4, <1>6, <1>9
<1>11. u = WithLink(mem)
  BY DEF WithLink, w, Sp, Bp
<1> HIDE DEF u
<1>12. Reg(u, IP) = Ip /\ Intact(u)
  BY <1>7, KeptIntact
<1>13. m = Set(u, BP, Back)
  BY <1>11, <1>12 DEF Calling, Back
<1>14. Back \in Int /\ Back \in Words
  BY AtCall
<1>15. IP # BP /\ SP # BP /\ BP + Word <= SP /\ BP \in Nat
  BY RegistersAt, SizesKnown
<1>16. /\ Intact(m) /\ Reg(m, BP) = Back /\ Reg(m, IP) = Ip /\ Reg(m, SP) = Sp + Word
       /\ m \in Memories
  <2>1. Intact(m)
    BY <1>12, <1>13, <1>14, SetIntact, RegistersIn
  <2>2. Reg(m, BP) = Back /\ Reg(m, IP) = Reg(u, IP) /\ Reg(m, SP) = Reg(u, SP) /\ m \in Memories
    BY <1>7, <1>13, <1>14, <1>15, SetReads, RegistersIn
  <2> QED BY <1>8, <1>12, <2>1, <2>2
<1>17. Value(m, Sp, Word) = Value(u, Sp, Word)
  <2>1. \A i \in 1 .. FrameSize : i \notin BP + 1 .. BP + Word => m[i] = u[i]
    BY <1>7, <1>13, <1>14, SetReads, RegistersIn
  <2>2. Differs(m, u, BP, Word)
    BY <1>16, <2>1 DEF Differs
  <2>3. BP + Word <= Sp
    BY <1>1, <1>4, <1>15, RegistersAt
  <2>4. Same(m, u, Sp, Word)
    BY <1>1, <1>15, <2>2, <2>3, Apart
  <2> QED BY <1>1, <1>7, <1>16, <2>4, SameReads
<1> QED
  BY <1>10, <1>16, <1>17

LEMMA FcallGoesIn ==
    ASSUME InCalls, Tame, Fcall
    PROVE  Faults \/ GoesIn
<1> DEFINE calling == Calling(mem)
           entry == Deref(calling, Displaced(Reg(calling, IP), InstSize))
<1>1. /\ Executes({"fcall"})
      /\ Locate(Sp, Word) < 0 => Leaves(<<Locate(Sp, Word)>>, mem) /\ UNCHANGED frames
      /\ ~(Locate(Sp, Word) < 0) /\ ~(entry < 0) =>
            /\ mem' = Set(calling, IP, entry) /\ UNCHANGED status
            /\ frames' = Append(frames, [ret |-> Back, low |-> Sp - ArgsOf(entry), base |-> Sp + Word])
  BY DEF Fcall, Back
<1>2. /\ InCalls /\ Looping /\ Known /\ Inst.name = "fcall"
      /\ mem \in Memories /\ status = "running" /\ Sp \in Nat
  BY <1>1, Running
<1>3. CASE Locate(Sp, Word) < 0
  <2>1. Leaves(<<Locate(Sp, Word)>>, mem) /\ UNCHANGED frames
    BY <1>1, <1>3
  <2>2. \/ status' \in {"thrown", "undefined"} /\ mem' = mem
        \/ \A k \in DOMAIN <<Locate(Sp, Word)>> : ~(<<Locate(Sp, Word)>>[k] < 0)
    BY <2>1, LeavesCases
  <2>3. ~ \A k \in DOMAIN <<Locate(Sp, Word)>> : ~(<<Locate(Sp, Word)>>[k] < 0)
    BY <1>3
  <2> QED BY <2>1, <2>2, <2>3 DEF Faults
<1>4. CASE ~(Locate(Sp, Word) < 0)
  <2>1. Sp + Word <= FrameSize
    <3>1. Sp \in Int /\ Word \in Nat
      BY <1>2, SizesKnown
    <3>2. Locate(Sp, Word) \in Int /\ (Locate(Sp, Word) >= 0 => Sp + Word <= FrameSize)
      BY <3>1, LocateFacts
    <3> QED BY <1>4, <3>2
  <2>2. /\ Intact(calling) /\ Value(calling, Sp, Word) = Bp
        /\ Reg(calling, IP) = Ip /\ Reg(calling, BP) = Back /\ Reg(calling, SP) = Sp + Word
    BY <1>2, <2>1, Linked
  <2> HIDE DEF calling
  <2>3. /\ Back \in program.starts /\ Back \in Nat
        /\ Called \in Nat /\ Called \in Words /\ ArgsOf(Called) = program.args[Called]
        /\ program.args[Called] \in Nat
    BY <1>2, AtCall
  <2>4. entry = Called
    <3> DEFINE a == Ip + InstSize
    <3>1. /\ program \in Programs /\ FramedPrograms /\ Ip \in program.starts /\ Ip \in Nat
          /\ Code(mem, program)
      BY <1>2, InCallsFacts, Fetched DEF InCalls
    <3>2. /\ a \in Nat /\ RegistersSize + Word <= a /\ a + Word <= EndOf(program)
          /\ a + Word <= FrameSize /\ a \in Words /\ a = Back - Word
      <4>1. Ip >= RegistersSize + Word
        BY <3>1, StartFacts
      <4>2. Back <= EndOf(program) - InstSize /\ Back = a + Word
        BY <2>3, <3>1, StartFacts, SizesKnown DEF Back
      <4>3. EndOf(program) \in Nat /\ EndOf(program) + Word <= FrameSize
        BY <3>1, ProgramFits
      <4>4. a \in Nat /\ a <= FrameSize
        BY <3>1, <4>2, <4>3, SizesKnown
      <4> QED BY <3>1, <4>1, <4>2, <4>3, <4>4, FitsWords, SizesKnown
    <3>3. Displaced(Reg(calling, IP), InstSize) = a
      BY <2>2, <3>1, <3>2, DisplacedReads, SizesKnown
    <3> HIDE DEF a
    <3>4. Deref(calling, a) = Value(calling, a, Word)
      BY <3>2, DerefReads
    <3>5. calling \in Memories /\ Code(calling, program)
      BY <2>2, <3>1, CodeKept DEF Intact
    <3>6. Value(calling, a, Word) = Value(program.bytes, a - RegistersSize, Word)
      BY <3>1, <3>2, <3>5, CodeReads, SizesKnown
    <3>7. Called = Value(program.bytes, a - RegistersSize, Word)
      BY <3>2 DEF Called, Callee
    <3> QED BY <3>3, <3>4, <3>6, <3>7
  <2> HIDE DEF entry
  <2>5. /\ mem' = Set(calling, IP, Called) /\ status' = "running"
        /\ frames' = Append(frames, [ret |-> Back, low |-> Sp - program.args[Called], base |-> Sp + Word])
    <3>1. ~(entry < 0)
      BY <2>3, <2>4
    <3> QED BY <1>1, <1>2, <1>4, <2>3, <2>4, <3>1
  <2>6. IP # BP /\ IP # SP /\ IP + Word <= BP /\ IP + Word <= RegistersSize /\ IP \in Nat
    BY RegistersAt, SizesKnown
  <2>7. Called \in Int /\ calling \in Memories
    BY <2>2, <2>3 DEF Intact
  <2>8. /\ Intact(mem') /\ mem' \in Memories
        /\ Reg(mem', IP) = Called /\ Reg(mem', BP) = Back /\ Reg(mem', SP) = Sp + Word
    <3>1. Intact(mem')
      BY <1>2, <2>2, <2>5, <2>7, SetIntact, RegistersIn
    <3>2. Reg(mem', IP) = Called /\ Reg(mem', BP) = Reg(calling, BP) /\ Reg(mem', SP) = Reg(calling, SP)
      BY <2>3, <2>5, <2>6, <2>7, SetReads, RegistersIn
    <3> QED BY <2>2, <3>1, <3>2 DEF Intact
  <2>9. Value(mem', Sp, Word) = Bp
    <3>1. \A i \in 1 .. FrameSize : i \notin IP + 1 .. IP + Word => mem'[i] = calling[i]
      BY <2>5, <2>7, SetReads, RegistersIn
    <3>2. Differs(mem', calling, IP, Word)
      BY <2>8, <3>1 DEF Differs
    <3>3. IP + Word <= Sp /\ Word \in Nat
      <4>1. Floor <= Sp /\ Floor \in Int /\ EndOf(program) <= Floor
        BY <1>2, FramePlaces
      <4>2. RegistersSize <= EndOf(program) /\ EndOf(program) \in Nat
        BY <1>2, InCallsFacts, ProgramFits, SizesKnown
      <4> QED BY <1>2, <2>6, <4>1, <4>2, SizesKnown
    <3>4. Same(mem', calling, Sp, Word)
      BY <1>2, <2>1, <2>6, <3>2, <3>3, Apart
    <3>5. Value(mem', Sp, Word) = Value(calling, Sp, Word)
      BY <1>2, <2>1, <2>7, <2>8, <3>3, <3>4, SameReads
    <3> QED BY <2>2, <3>5
  <2>10. Floor <= Sp - program.args[Called]
    <3>1. Sp - ArgsOf(Called) >= Floor
      BY <1>2 DEF Tame, Called, Back
    <3> QED BY <2>3, <3>1
  <2> QED BY <1>2, <2>1, <2>5, <2>8, <2>9, <2>10 DEF GoesIn
<1> QED
  BY <1>3, <1>4

-----------------------------------------------------------------------------
(* A return. *)

\* A return: the caller has the stack below the arguments and its link in BP.
GoesOut ==
    /\ status' = "running"
    /\ frames # <<>> /\ frames' = SubSeq(frames, 1, Len(frames) - 1)
    /\ Intact(mem')
    /\ Reg(mem', IP) = frames[Len(frames)].ret /\ Reg(mem', SP) = frames[Len(frames)].low
    /\ Reg(mem', BP) = Value(mem, frames[Len(frames)].base - Word, Word)

\* The call a ret answers.
LEMMA AtReturn ==
    ASSUME InCalls, Tame, Looping, Inst.name = "ret",
           NEW f, f = frames[Len(frames)], NEW entry, entry = Callee(program, Bp)
    PROVE  /\ frames # <<>> /\ Len(frames) \in DOMAIN frames /\ Sp = f.base /\ Bp = f.ret
           /\ f.low \in Nat /\ f.base \in Nat /\ f.ret \in Nat
           /\ f.base <= FrameSize /\ EndOf(program) <= f.low
           /\ Bp \in program.starts
           /\ entry \in Nat /\ entry \in program.starts
           /\ entry - 2 * Word >= RegistersSize + Word
           /\ program.args[entry] \in Nat /\ f.base = f.low + program.args[entry] + Word
           /\ HeaderAt(program, entry, 2 * Word) = program.args[entry]
           /\ GP + HeaderAt(program, entry, Word) <= RegistersSize
<1>1. /\ mem \in Memories /\ program \in Programs /\ FramedPrograms
      /\ RunsAt(mem, program, frames) /\ CallFrames(mem, program, frames)
  BY InCallsFacts DEF InCalls, RunsAt
<1>2. frames # <<>> /\ Sp = Floor
  <2>1. status = "running" /\ Known
    BY Fetched DEF InCalls
  <2> QED BY <2>1 DEF Tame
<1>3. Len(frames) \in DOMAIN frames /\ Floor = f.base
  BY <1>2, FramePlaces
<1>4. /\ f.low \in Int /\ f.base \in Nat /\ f.ret \in Nat
      /\ EndOf(program) <= f.low /\ f.base <= FrameSize
  BY <1>3, FramePlaces
<1>5. Bp = f.ret
  BY <1>1, <1>2 DEF RunsAt, Bp
<1>6. PICK s \in program.starts : CodeAt(program, s).name = "fcall" /\ f.ret = s + InstSize + Word
  BY <1>1, <1>3 DEF CallFrames
<1>7. f.base = f.low + program.args[Callee(program, f.ret)] + Word
  BY <1>1, <1>3 DEF CallFrames
<1>8. /\ Bp \in program.starts /\ entry \in program.starts
      /\ program.args[entry] \in Nat
      /\ entry - 2 * Word >= RegistersSize + Word
      /\ HeaderAt(program, entry, 2 * Word) = program.args[entry]
      /\ GP + HeaderAt(program, entry, Word) <= RegistersSize
  BY <1>1, <1>5, <1>6, CallSite
<1>9. entry \in Nat
  BY <1>1, <1>8, StartFacts
<1>10. f.low \in Nat
  <2>1. EndOf(program) \in Nat
    BY <1>1, ProgramFits
  <2> QED BY <1>4, <2>1
<1> QED
  BY <1>2, <1>3, <1>4, <1>5, <1>7, <1>8, <1>9, <1>10

\* Words of the code, read from the memory.
LEMMA CodeWord ==
    ASSUME InCalls, NEW a \in Nat, RegistersSize + Word <= a, a + Word <= EndOf(program)
    PROVE  /\ Deref(mem, a) = Value(program.bytes, a - RegistersSize, Word)
           /\ Deref(mem, a) \in Words /\ a \in Words
<1>1. mem \in Memories /\ program \in Programs /\ Code(mem, program)
  BY InCallsFacts
<1>2. a + Word <= FrameSize /\ a <= FrameSize /\ Word \in Nat
  BY <1>1, ProgramFits, SizesKnown
<1>3. Deref(mem, a) = Value(mem, a, Word)
  BY <1>2, DerefReads
<1>4. Value(mem, a, Word) = Value(program.bytes, a - RegistersSize, Word)
  BY <1>1, <1>2, CodeReads
<1>5. Deref(mem, a) \in Words
  <2>1. Value(mem, a, Word) \in 0 .. Span(Word) - 1
    BY <1>1, <1>2, MemoryIsSeq, ValueType
  <2> QED BY <1>3, <2>1 DEF Words
<1> QED
  BY <1>2, <1>3, <1>4, <1>5, FitsWords

LEMMA HeaderReads ==
    ASSUME InCalls, Tame, Looping, Inst.name = "ret", NEW entry, entry = Callee(program, Bp)
    PROVE  /\ FuncStart = entry
           /\ HeaderWord(entry, 2 * Word) = program.args[entry]
           /\ HeaderWord(entry, Word) = HeaderAt(program, entry, Word)
           /\ HeaderWord(entry, Word) \in Words
<1>1. program \in Programs /\ FramedPrograms /\ Bp \in Nat /\ Word \in Nat \ {0}
  BY InCallsFacts, SizesKnown DEF InCalls
<1> DEFINE f == frames[Len(frames)]
<1>2. /\ Bp \in program.starts /\ entry \in Nat /\ entry \in program.starts
      /\ entry - 2 * Word >= RegistersSize + Word
      /\ HeaderAt(program, entry, 2 * Word) = program.args[entry]
      /\ frames # <<>> /\ Len(frames) \in DOMAIN frames /\ Bp = f.ret
  BY AtReturn
<1>3. PICK s \in program.starts : f.ret = s + InstSize + Word
  <2>1. CallFrames(mem, program, frames)
    BY InCallsFacts DEF RunsAt
  <2> QED BY <1>2, <2>1 DEF CallFrames
<1> HIDE DEF f
<1>4. /\ Bp - Word \in Nat /\ RegistersSize + Word <= Bp - Word /\ (Bp - Word) + Word <= EndOf(program)
  <2>1. s \in Nat /\ s \in RegistersSize + Word .. EndOf(program) - InstSize
        /\ Bp \in RegistersSize .. EndOf(program) /\ EndOf(program) \in Nat
    BY <1>1, <1>2, <1>3, StartFacts, ProgramFits
  <2>2. Bp = s + InstSize + Word
    BY <1>2, <1>3
  <2> QED BY <1>1, <2>1, <2>2, SizesKnown
<1>5. FuncStart = entry
  <2> DEFINE a == Bp - Word
  <2>1. Deref(mem, a) = Value(program.bytes, a - RegistersSize, Word) /\ a \in Words
    BY <1>4, CodeWord
  <2>2. Below(Bp, Word) = a
    BY <1>1, <2>1, DisplacedReads
  <2> QED BY <2>1, <2>2 DEF FuncStart, Callee
<1>6. ASSUME NEW back \in Nat, Word <= back, back <= 2 * Word
      PROVE  HeaderWord(entry, back) = HeaderAt(program, entry, back) /\ HeaderWord(entry, back) \in Words
  <2> DEFINE a == entry - back
  <2>1. a \in Nat /\ RegistersSize + Word <= a /\ a + Word <= EndOf(program)
    <3>1. entry \in RegistersSize .. EndOf(program) /\ EndOf(program) \in Nat
      BY <1>1, <1>2, StartFacts, ProgramFits
    <3>2. entry \in Nat /\ entry - 2 * Word >= RegistersSize + Word
      BY <1>2
    <3> QED BY <1>1, <1>6, <3>1, <3>2, SizesKnown
  <2>2. /\ Deref(mem, a) = Value(program.bytes, a - RegistersSize, Word)
        /\ Deref(mem, a) \in Words /\ a \in Words
    BY <2>1, CodeWord
  <2>3. Below(entry, back) = a
    BY <1>2, <1>6, <2>2, DisplacedReads
  <2> QED BY <2>2, <2>3 DEF HeaderWord, HeaderAt
<1>7. /\ HeaderWord(entry, 2 * Word) = HeaderAt(program, entry, 2 * Word)
      /\ HeaderWord(entry, Word) = HeaderAt(program, entry, Word)
      /\ HeaderWord(entry, Word) \in Words
  <2>1. 2 * Word \in Nat /\ Word <= 2 * Word /\ Word \in Nat
    BY <1>1
  <2> QED BY <1>6, <2>1
<1> QED
  BY <1>2, <1>5, <1>7

\* A result of the size of the header goes to AX or GP.
LEMMA ResultKept ==
    ASSUME InCalls, Looping, NEW size \in Nat, GP + size <= RegistersSize,
           ~(ResultFault(size) < 0)
    PROVE  Kept(WithResult(size)) /\ Reg(WithResult(size), SP) = Sp
<1>1. mem \in Memories /\ Ip \in Nat /\ Kept(mem) /\ AtInst
  BY InCallsFacts, KeptAtFirst, Fetched
<1>2. CASE Kind(1) = Empty
  BY <1>1, <1>2 DEF WithResult, Sp
<1>3. CASE Kind(1) # Empty
  <2> DEFINE from == Ip + InstSize
             to == ResultAt(size)
             w == Copy(mem, from, to, size)
  <2>1. from \in Nat /\ to \in Nat /\ (to + size <= IP \/ (to >= GP /\ to + size <= RegistersSize))
    BY <1>1, RegistersAt, SizesKnown DEF ResultAt, AX, GP, IP
  <2>2. from + size <= FrameSize /\ to + size <= FrameSize
    <3>1. ResultFault(size) = IF size < 0 THEN size
                              ELSE IF from + size > FrameSize \/ to + size > FrameSize
                              THEN -2 ELSE 0
      BY <1>3 DEF ResultFault, Undefined
    <3> HIDE DEF from, to
    <3> QED BY <2>1, <3>1, SizesKnown
  <2>3. WithResult(size) = w
    BY <1>3 DEF WithResult
  <2> HIDE DEF from, to
  <2>4. Differs(w, mem, to, size)
    BY <1>1, <2>1, <2>2, CopyDiffers
  <2> HIDE DEF w
  <2>5. Free(to, size)
    BY <2>1 DEF Free, Own
  <2>6. to + size <= SP \/ SP + Word <= to
    BY <2>1, RegistersAt, SizesKnown
  <2>7. Kept(w) /\ Reg(w, SP) = Reg(mem, SP)
    BY <1>1, <2>1, <2>4, <2>5, <2>6, WriteKept
  <2> QED BY <2>3, <2>7 DEF Sp
<1> QED
  BY <1>2, <1>3

\* What ret leaves before it reads the link.
LEMMA ReturnedReads ==
    ASSUME InCalls, NEW w, Kept(w), NEW args \in Nat, NEW low \in Nat,
           Reg(w, SP) = low + args + Word, low <= FrameSize, NEW m, m = Returned(w, args)
    PROVE  Intact(m) /\ Reg(m, SP) = low /\ Reg(m, IP) = Bp
<1> DEFINE d == -(args + Word)
           u == Bump(w, SP, d)
<1>1. w \in Memories /\ Word \in Nat /\ d \in Int /\ Reg(w, BP) = Bp /\ Bp \in Words /\ Bp \in Int
  BY InCallsFacts, SizesKnown DEF Kept
<1>2. Reg(w, SP) + d = low /\ low \in Words
  BY <1>1, FitsWords
<1> HIDE DEF d
<1>3. IP # SP /\ BP # SP
  BY RegistersAt, SizesKnown
<1>4. Reg(u, SP) = low /\ Reg(u, BP) = Bp /\ u \in Memories
  <2>1. Reg(w, SP) + d \in Words => Reg(u, SP) = Reg(w, SP) + d
    BY <1>1, BumpReads, RegistersIn
  <2>2. Reg(u, BP) = Reg(w, BP) /\ u \in Memories
    BY <1>1, <1>3, BumpReads, RegistersIn
  <2> QED BY <1>1, <1>2, <2>1, <2>2
<1>5. Intact(u)
  BY <1>1, KeptIntact, BumpIntact, RegistersIn
<1>6. m = Set(u, IP, Bp)
  BY <1>4 DEF Returned, d
<1> HIDE DEF u
<1>7. Intact(m)
  BY <1>1, <1>5, <1>6, SetIntact, RegistersIn
<1>8. Reg(m, IP) = Bp /\ Reg(m, SP) = Reg(u, SP)
  BY <1>1, <1>3, <1>4, <1>6, SetReads, RegistersIn
<1> QED
  BY <1>4, <1>7, <1>8

LEMMA LinkReads ==
    ASSUME InCalls, NEW m, Intact(m), NEW i \in DOMAIN frames
    PROVE  /\ Value(m, frames[i].base - Word, Word) = Value(mem, frames[i].base - Word, Word)
           /\ Deref(m, frames[i].base - Word) = Value(mem, frames[i].base - Word, Word)
           /\ Value(mem, frames[i].base - Word, Word) \in Words
<1> DEFINE b == frames[i].base - Word
<1>1. b \in Nat /\ b + Word = frames[i].base /\ frames[i].base <= FrameSize
  BY LinkPlaces
<1>2. Same(m, mem, b, Word) /\ m \in Memories /\ mem \in Memories
  BY InCallsFacts DEF Intact
<1>3. b + Word <= FrameSize /\ Word \in Nat
  BY <1>1, SizesKnown
<1> HIDE DEF b
<1>4. Value(m, b, Word) = Value(mem, b, Word)
  BY <1>1, <1>2, <1>3, SameReads
<1>5. Deref(m, b) = Value(m, b, Word)
  BY <1>1, <1>3, DerefReads
<1>6. Value(mem, b, Word) \in Words
  BY <1>1, <1>2, <1>3, MemoryIsSeq, ValueType DEF Words
<1> QED
  BY <1>4, <1>5, <1>6 DEF b

LEMMA RetGoesOut ==
    ASSUME InCalls, Tame, Ret
    PROVE  Faults \/ GoesOut
<1> DEFINE start == FuncStart
           args == HeaderWord(start, 2 * Word)
           size == HeaderWord(start, Word)
           result == WithResult(size)
           returned == Returned(result, args)
           link == Deref(returned, Displaced(Reg(returned, SP), args))
           f == frames[Len(frames)]
           entry == Callee(program, Bp)
<1>1. /\ Executes({"ret"})
      /\ frames' = IF status' = "running" /\ frames # <<>>
                   THEN SubSeq(frames, 1, Len(frames) - 1) ELSE frames
      /\ IF start < 0 \/ args < 0 \/ ResultFault(size) < 0
         THEN Leaves(<<start, args, ResultFault(size)>>, mem)
         ELSE IF link < 0 THEN status' = Outcome(link) /\ mem' = returned
         ELSE UNCHANGED status /\ mem' = Set(returned, BP, link)
  BY DEF Ret
<1>2. /\ InCalls /\ Looping /\ AtInst /\ Known /\ Inst.name = "ret"
      /\ mem \in Memories /\ status = "running"
  BY <1>1, Running
<1>3. start = entry /\ args = program.args[entry] /\ size = HeaderAt(program, entry, Word)
      /\ size \in Words
  BY <1>2, HeaderReads
<1>4. /\ frames # <<>> /\ Len(frames) \in DOMAIN frames /\ Sp = f.base /\ Bp = f.ret
      /\ f.low \in Nat /\ f.base \in Nat /\ f.base <= FrameSize
      /\ entry \in Nat /\ program.args[entry] \in Nat
      /\ f.base = f.low + program.args[entry] + Word
      /\ GP + HeaderAt(program, entry, Word) <= RegistersSize
  BY <1>2, AtReturn
<1> HIDE DEF start, args, size, entry
<1>5. start \in Nat /\ args \in Nat /\ size \in Nat /\ GP + size <= RegistersSize
      /\ Words \subseteq Nat /\ Word \in Nat
  BY <1>3, <1>4, SizesKnown DEF Words
<1>6. CASE ResultFault(size) < 0
  <2> DEFINE faults == <<start, args, ResultFault(size)>>
  <2>1. Leaves(faults, mem)
    BY <1>1, <1>6
  <2>2. ~ \A k \in DOMAIN faults : ~(faults[k] < 0)
    BY <1>6
  <2> HIDE DEF faults
  <2>3. status' \in {"thrown", "undefined"} /\ mem' = mem
    BY <2>1, <2>2, LeavesCases
  <2> QED BY <1>1, <2>3 DEF Faults
<1>7. CASE ~(ResultFault(size) < 0)
  <2>1. Kept(result) /\ Reg(result, SP) = f.base
    BY <1>2, <1>4, <1>5, <1>7, ResultKept
  <2> HIDE DEF result
  <2>2. Intact(returned) /\ Reg(returned, SP) = f.low /\ Reg(returned, IP) = Bp
    <3> DEFINE low == f.low
               base == f.base
    <3>1. low \in Nat /\ base = low + args + Word /\ base <= FrameSize /\ Reg(result, SP) = base
      BY <1>3, <1>4, <2>1
    <3> HIDE DEF low, base
    <3>2. low <= FrameSize
      BY <1>5, <3>1, SizesKnown
    <3>3. Reg(result, SP) = low + args + Word
      BY <3>1
    <3>4. Intact(returned) /\ Reg(returned, SP) = low /\ Reg(returned, IP) = Bp
      BY <1>2, <1>5, <2>1, <3>1, <3>2, <3>3, ReturnedReads
    <3> QED BY <3>4 DEF low
  <2> HIDE DEF returned
  <2>3. link = Value(mem, f.base - Word, Word) /\ link \in Words
    <3> DEFINE low == f.low
               base == f.base
    <3>1. low \in Nat /\ base = low + args + Word /\ base <= FrameSize /\ base \in Nat
      BY <1>3, <1>4
    <3>2. /\ Deref(returned, base - Word) = Value(mem, base - Word, Word)
          /\ Value(mem, base - Word, Word) \in Words
      BY <1>2, <1>4, <2>2, LinkReads
    <3>3. Reg(returned, SP) = low
      BY <2>2
    <3> HIDE DEF low, base
    <3>4. low + args = base - Word /\ low + args <= FrameSize /\ low + args \in Nat
      BY <1>5, <3>1, SizesKnown
    <3>5. Displaced(low, args) = base - Word
      BY <1>5, <3>1, <3>4, FitsWords, DisplacedReads
    <3>6. link = Value(mem, base - Word, Word) /\ link \in Words
      BY <3>2, <3>3, <3>5
    <3> QED BY <3>6 DEF base
  <2> HIDE DEF link
  <2>4. link \in Int /\ ~(link < 0)
    BY <1>5, <2>3
  <2>5. status' = "running" /\ mem' = Set(returned, BP, link)
    BY <1>1, <1>2, <1>5, <1>7, <2>4
  <2>6. IP # BP /\ SP # BP
    BY RegistersAt, SizesKnown
  <2>7. Intact(mem')
    BY <1>2, <2>2, <2>4, <2>5, SetIntact, RegistersIn
  <2>8. Reg(mem', BP) = link /\ Reg(mem', IP) = Bp /\ Reg(mem', SP) = f.low
    <3>1. returned \in Memories
      BY <2>2 DEF Intact
    <3>2. Reg(mem', BP) = link /\ Reg(mem', IP) = Reg(returned, IP) /\ Reg(mem', SP) = Reg(returned, SP)
      BY <2>3, <2>4, <2>5, <2>6, <3>1, SetReads, RegistersIn
    <3> QED BY <2>2, <3>2
  <2> QED BY <1>1, <1>4, <2>3, <2>5, <2>7, <2>8 DEF GoesOut
<1> QED
  BY <1>6, <1>7

-----------------------------------------------------------------------------
(* Every step keeps the code and the calls in order. *)

(***************************************************************************)
(* A step of a tame program faults, works in its own bytes, calls or       *)
(* returns.                                                                *)
(***************************************************************************)
LEMMA StepOutcomes ==
    ASSUME InCalls, Tame, Step
    PROVE  Faults \/ Works \/ GoesIn \/ GoesOut
<1>1. ~Ncall
  <2>1. SUFFICES ASSUME Ncall PROVE FALSE
    OBVIOUS
  <2>2. status = "running" /\ Looping /\ Known /\ Inst.name \in {"ncall"}
    BY <2>1 DEF Ncall, Executes
  <2> QED BY <2>2 DEF Tame
<1>2. CASE Halt
  BY <1>2, HaltWorks
<1>3. CASE Fcall
  BY <1>3, FcallGoesIn
<1>4. CASE Ret
  BY <1>4, RetGoesOut
<1>5. CASE Mov
  BY <1>5, MovWorks
<1>6. CASE Push
  BY <1>6, PushWorks
<1>7. CASE Pop
  BY <1>7, PopWorks
<1>8. CASE Arithmetic
  BY <1>8, ArithmeticWorks
<1>9. CASE Cmp
  BY <1>9, CmpWorks
<1>10. CASE Raise
  BY <1>10 DEF Raise, Faults
<1> QED
  BY <1>1, <1>2, <1>3, <1>4, <1>5, <1>6, <1>7, <1>8, <1>9, <1>10 DEF Step

-----------------------------------------------------------------------------
(* The calls stay in order. *)

LEMMA IntactCode ==
    ASSUME InCalls, NEW m, Intact(m)
    PROVE  Code(m, program)
BY InCallsFacts, CodeKept DEF Intact

\* The calls in progress, as they were.
LEMMA IntactFrames ==
    ASSUME InCalls, NEW m, Intact(m)
    PROVE  CallFrames(m, program, frames)
<1>1. CallFrames(mem, program, frames)
  BY InCallsFacts DEF RunsAt
<1>2. ASSUME NEW i \in DOMAIN frames, i + 1 \in DOMAIN frames
      PROVE  Value(m, frames[i + 1].base - Word, Word) = frames[i].ret
  <2> DEFINE j == i + 1
  <2>1. j \in DOMAIN frames /\ Value(mem, frames[j].base - Word, Word) = frames[i].ret
    BY <1>1, <1>2 DEF CallFrames
  <2> HIDE DEF j
  <2>2. Value(m, frames[j].base - Word, Word) = Value(mem, frames[j].base - Word, Word)
    BY <2>1, LinkReads
  <2>3. Value(m, frames[j].base - Word, Word) = frames[i].ret
    BY <2>1, <2>2
  <2> QED BY <2>3 DEF j
<1> QED
  BY <1>1, <1>2 DEF CallFrames

LEMMA WorksKeeps ==
    ASSUME InCalls, Works
    PROVE  Code(mem', program) /\ RunsAt(mem', program, frames')
<1>1. Intact(mem') /\ frames' = frames
  BY DEF Works
<1>2. Code(mem', program) /\ CallFrames(mem', program, frames)
  BY <1>1, IntactCode, IntactFrames
<1>3. Floor = FloorOf(frames, program)
  BY FramePlaces
<1>4. frames # <<>> => Bp = frames[Len(frames)].ret
  BY InCallsFacts DEF RunsAt, Bp
<1>5. RunsAt(mem', program, frames)
  BY <1>2, <1>3, <1>4 DEF Works, RunsAt
<1> QED
  BY <1>1, <1>2, <1>5

LEMMA GoesInKeeps ==
    ASSUME InCalls, GoesIn
    PROVE  Code(mem', program) /\ RunsAt(mem', program, frames')
<1> DEFINE f == [ret |-> Back, low |-> Sp - program.args[Called], base |-> Sp + Word]
           n == Len(frames)
           fs == Append(frames, f)
           m == mem'
<1>1. /\ Intact(m) /\ Value(m, Sp, Word) = Bp
      /\ Reg(m, IP) = Called /\ Reg(m, BP) = Back /\ Reg(m, SP) = Sp + Word
      /\ Floor <= f.low /\ f.base <= FrameSize
      /\ Inst.name = "fcall" /\ Looping /\ frames' = fs
  BY DEF GoesIn
<1>2. Code(m, program) /\ CallFrames(m, program, frames)
  BY <1>1, IntactCode, IntactFrames
<1>3. /\ Back \in Nat
      /\ Called \in program.starts /\ Called \in RegistersSize .. EndOf(program)
      /\ program.args[Called] \in Nat
      /\ CodeAt(program, Ip).name = "fcall" /\ Ip \in program.starts
  BY <1>1, AtCall
<1>4. f \in [ret : Nat, low : Int, base : Nat] /\ Sp \in Nat /\ Word \in Nat
  <2>1. Sp \in Nat /\ Word \in Nat
    BY InCallsFacts, SizesKnown
  <2> QED BY <1>3, <2>1
<1>5. /\ f.ret = Back /\ f.base = Sp + Word
      /\ f.base = f.low + program.args[Called] + Word
      /\ f.base - Word = Sp /\ f.low \in Int /\ f.base \in Nat
  BY <1>3, <1>4
<1>6. \E s \in program.starts : CodeAt(program, s).name = "fcall" /\ f.ret = s + InstSize + Word
  BY <1>3, <1>5 DEF Back
<1>7. f.base = f.low + program.args[Callee(program, f.ret)] + Word
  BY <1>5 DEF Called
<1> HIDE DEF f
<1>8. frames \in Frames /\ n \in Nat /\ DOMAIN frames = 1 .. n
  BY InCallsFacts DEF Frames
<1>9. /\ DOMAIN fs = 1 .. n + 1 /\ fs[n + 1] = f /\ fs # <<>> /\ Len(fs) = n + 1
      /\ \A k \in 1 .. n : fs[k] = frames[k]
  <2>1. Longer(frames, f, fs)
    BY <1>4, <1>8, Appended DEF Frames
  <2>2. fs \in Seq([ret : Nat, low : Int, base : Nat]) /\ Len(fs) = n + 1
    BY <1>4, <1>8 DEF Frames
  <2> HIDE DEF fs
  <2> QED BY <1>8, <2>1, <2>2 DEF Longer
<1> HIDE DEF fs
<1>10. /\ Floor \in Int /\ EndOf(program) <= Floor /\ EndOf(program) \in Nat
       /\ \A i \in DOMAIN frames : frames[i].base <= Floor /\ frames[i].base \in Nat
       /\ \A i \in DOMAIN frames : frames[i].low \in Int
       /\ frames = <<>> <=> n = 0
  BY <1>8, FramePlaces, InCallsFacts, ProgramFits DEF Frames
<1>11. ASSUME NEW i \in DOMAIN fs
       PROVE  /\ \E s \in program.starts : CodeAt(program, s).name = "fcall"
                                           /\ fs[i].ret = s + InstSize + Word
              /\ fs[i].base = fs[i].low + program.args[Callee(program, fs[i].ret)] + Word
              /\ EndOf(program) <= fs[i].low /\ fs[i].base <= FrameSize
  <2>1. CASE i = n + 1
    <3>1. EndOf(program) <= f.low
      BY <1>1, <1>5, <1>10
    <3> QED BY <1>1, <1>6, <1>7, <1>9, <2>1, <3>1
  <2>2. CASE i # n + 1
    <3>1. i \in DOMAIN frames /\ fs[i] = frames[i]
      BY <1>8, <1>9, <2>2
    <3> QED BY <1>2, <3>1 DEF CallFrames
  <2> QED BY <2>1, <2>2
<1>12. ASSUME NEW i \in DOMAIN fs, NEW j \in DOMAIN fs, i < j
       PROVE  fs[i].base <= fs[j].low
  <2>1. i \in DOMAIN frames /\ fs[i] = frames[i]
    BY <1>8, <1>9, <1>12
  <2>2. CASE j = n + 1
    <3>1. frames[i].base <= f.low
      BY <1>1, <1>5, <1>10, <2>1
    <3> QED BY <1>9, <2>1, <2>2, <3>1
  <2>3. CASE j # n + 1
    <3>1. j \in DOMAIN frames /\ fs[j] = frames[j]
      BY <1>8, <1>9, <2>3
    <3> QED BY <1>2, <1>12, <2>1, <3>1 DEF CallFrames
  <2> QED BY <2>2, <2>3
<1>13. ASSUME NEW i \in DOMAIN fs, i + 1 \in DOMAIN fs
       PROVE  Value(m, fs[i + 1].base - Word, Word) = fs[i].ret
  <2>1. i \in DOMAIN frames /\ fs[i] = frames[i] /\ i \in 1 .. n
    BY <1>8, <1>9, <1>13
  <2>2. CASE i = n
    <3>1. frames # <<>>
      BY <1>10, <2>1, <2>2
    <3>2. Bp = frames[n].ret
      BY <3>1, InCallsFacts DEF RunsAt, Bp
    <3>3. fs[i + 1].base - Word = Sp
      BY <1>5, <1>9, <2>2
    <3> QED BY <1>1, <2>1, <2>2, <3>2, <3>3
  <2>3. CASE i # n
    <3>1. i + 1 \in DOMAIN frames /\ fs[i + 1] = frames[i + 1]
      BY <1>8, <1>9, <2>1, <2>3
    <3> QED BY <1>2, <2>1, <3>1 DEF CallFrames
  <2> QED BY <2>2, <2>3
<1>14. CallFrames(m, program, fs)
  BY <1>11, <1>12, <1>13 DEF CallFrames
<1>15. FloorOf(fs, program) = Sp + Word /\ fs[Len(fs)].ret = Back
  BY <1>5, <1>9 DEF FloorOf
<1>16. Sp + Word <= Sp + Word
  BY <1>4
<1>17. RunsAt(m, program, fs)
  BY <1>1, <1>3, <1>14, <1>15, <1>16 DEF RunsAt
<1> QED
  BY <1>1, <1>2, <1>17

LEMMA LastDropped ==
    ASSUME NEW S, NEW s \in Seq(S), s # <<>>, NEW t, t = SubSeq(s, 1, Len(s) - 1)
    PROVE  /\ t \in Seq(S) /\ Len(t) = Len(s) - 1
           /\ \A i \in 1 .. Len(t) : t[i] = s[i]
<1> DEFINE n == Len(s)
<1>1. \A i \in 1 .. n - 1 : s[i] \in S
  OBVIOUS
<1>2. n \in Nat /\ n # 0 /\ 1 \in Int /\ n - 1 \in Int
  OBVIOUS
<1>3. /\ t \in Seq(S)
      /\ Len(t) = IF 1 <= n - 1 THEN n - 1 - 1 + 1 ELSE 0
      /\ \A i \in 1 .. n - 1 - 1 + 1 : t[i] = s[1 + i - 1]
  BY <1>1, <1>2, SubSeqProperties
<1> HIDE DEF n
<1>4. Len(t) = n - 1
  BY <1>2, <1>3
<1>5. ASSUME NEW i \in 1 .. n - 1 PROVE t[i] = s[i]
  <2>1. i \in 1 .. n - 1 - 1 + 1 /\ 1 + i - 1 = i
    BY <1>2
  <2> QED BY <2>1, <1>3
<1> QED BY <1>3, <1>4, <1>5 DEF n

LEMMA GoesOutKeeps ==
    ASSUME InCalls, GoesOut
    PROVE  Code(mem', program) /\ RunsAt(mem', program, frames')
<1> DEFINE n == Len(frames)
           f == frames[n]
           fs == SubSeq(frames, 1, n - 1)
           m == mem'
<1>1. /\ Intact(m) /\ frames # <<>> /\ frames' = fs
      /\ Reg(m, IP) = f.ret /\ Reg(m, SP) = f.low
      /\ Reg(m, BP) = Value(mem, f.base - Word, Word)
  BY DEF GoesOut
<1>2. Code(m, program) /\ CallFrames(m, program, frames)
  BY <1>1, IntactCode, IntactFrames
<1>3. /\ frames \in Frames /\ n \in Nat \ {0} /\ DOMAIN frames = 1 .. n /\ n \in DOMAIN frames
  BY <1>1, InCallsFacts DEF Frames
<1>4. /\ Len(fs) = n - 1 /\ DOMAIN fs = 1 .. n - 1
      /\ \A k \in 1 .. n - 1 : fs[k] = frames[k]
      /\ fs = <<>> <=> n = 1
  <2> DEFINE R == [ret : Nat, low : Int, base : Nat]
  <2>1. frames \in Seq(R) /\ frames # <<>> /\ fs = SubSeq(frames, 1, Len(frames) - 1)
    BY <1>1, <1>3 DEF Frames
  <2> HIDE DEF R, fs
  <2>2. fs \in Seq(R) /\ Len(fs) = n - 1 /\ \A k \in 1 .. Len(fs) : fs[k] = frames[k]
    BY <2>1, LastDropped
  <2>3. DOMAIN fs = 1 .. Len(fs) /\ (fs = <<>> <=> Len(fs) = 0)
    BY <2>2
  <2>4. n - 1 = 0 <=> n = 1
    BY <1>3
  <2> QED BY <2>2, <2>3, <2>4
<1> HIDE DEF fs
<1>5. CallFrames(m, program, fs)
  <2>1. \A i \in DOMAIN fs : i \in DOMAIN frames /\ fs[i] = frames[i]
    BY <1>3, <1>4
  <2>2. ASSUME NEW i \in DOMAIN fs, i + 1 \in DOMAIN fs
        PROVE  Value(m, fs[i + 1].base - Word, Word) = fs[i].ret
    BY <1>2, <2>1, <2>2 DEF CallFrames
  <2>3. ASSUME NEW i \in DOMAIN fs, NEW j \in DOMAIN fs, i < j PROVE fs[i].base <= fs[j].low
    BY <1>2, <2>1, <2>3 DEF CallFrames
  <2>4. ASSUME NEW i \in DOMAIN fs
        PROVE  /\ \E s \in program.starts : CodeAt(program, s).name = "fcall"
                                            /\ fs[i].ret = s + InstSize + Word
               /\ fs[i].base = fs[i].low + program.args[Callee(program, fs[i].ret)] + Word
               /\ EndOf(program) <= fs[i].low /\ fs[i].base <= FrameSize
    BY <1>2, <2>1 DEF CallFrames
  <2> QED BY <2>2, <2>3, <2>4 DEF CallFrames
<1>6. FloorOf(fs, program) <= f.low
  <2>1. CASE n = 1
    <3>1. EndOf(program) <= f.low
      BY <1>3, FramePlaces
    <3> QED BY <1>4, <2>1, <3>1 DEF FloorOf
  <2>2. CASE n # 1
    <3> DEFINE l == n - 1
    <3>1. l \in DOMAIN frames /\ l < n /\ Len(fs) = l /\ fs[l] = frames[l] /\ fs # <<>>
      BY <1>3, <1>4, <2>2
    <3> HIDE DEF l
    <3>2. frames[l].base <= f.low
      BY <1>3, <3>1, FramePlaces
    <3> QED BY <3>1, <3>2 DEF FloorOf
  <2> QED BY <2>1, <2>2
<1>7. fs # <<>> => Reg(m, BP) = fs[Len(fs)].ret
  <2> SUFFICES ASSUME fs # <<>> PROVE Reg(m, BP) = fs[Len(fs)].ret
    OBVIOUS
  <2> DEFINE l == n - 1
  <2>1. l \in DOMAIN frames /\ l + 1 = n /\ l + 1 \in DOMAIN frames /\ Len(fs) = l /\ fs[l] = frames[l]
    BY <1>3, <1>4
  <2> HIDE DEF l
  <2>2. CallFrames(mem, program, frames)
    BY InCallsFacts DEF RunsAt
  <2>3. Value(mem, f.base - Word, Word) = frames[l].ret
    BY <2>1, <2>2 DEF CallFrames
  <2> QED BY <1>1, <2>1, <2>3
<1>8. f.ret \in program.starts /\ f.ret \in RegistersSize .. EndOf(program)
  <2>1. PICK s \in program.starts : CodeAt(program, s).name = "fcall" /\ f.ret = s + InstSize + Word
    BY <1>2, <1>3 DEF CallFrames
  <2>2. program \in Programs /\ FramedPrograms
    BY InCallsFacts DEF InCalls
  <2>3. f.ret \in program.starts
    BY <2>1, <2>2, CallSite
  <2> QED BY <2>2, <2>3, StartFacts
<1>9. RunsAt(m, program, fs)
  BY <1>1, <1>5, <1>6, <1>7, <1>8 DEF RunsAt
<1> QED
  BY <1>1, <1>2, <1>9

-----------------------------------------------------------------------------
(* The start of a run. *)

(***************************************************************************)
(* exec starts a program at its entry point, with nothing on the stack.    *)
(***************************************************************************)
LEMMA LoadedCode ==
    ASSUME NEW m \in Memories, NEW p \in Programs
    PROVE  Loaded(m, p.bytes) \in Memories /\ Code(Loaded(m, p.bytes), p)
<1> DEFINE l == Len(p.bytes)
           code == SubSeq(p.bytes, Word + 1, l)
           a == RegistersSize + Word
           w == Write(m, a, code)
<1>1. /\ p.bytes \in Seq(Bytes) /\ l \in Nat /\ EndOf(p) = RegistersSize + l
      /\ Word <= l /\ EndOf(p) <= FrameSize /\ RegistersSize \in Nat /\ Word \in Nat
      /\ FrameSize \in Nat
  BY ProgramFits, SizesKnown
<1>2. /\ code \in Seq(Bytes) /\ Len(code) = l - Word
      /\ \A k \in 1 .. l - Word : code[k] = p.bytes[k + Word]
  <2> DEFINE s == p.bytes
  <2>1. s \in Seq(Bytes) /\ Len(s) = l
    BY <1>1
  <2> HIDE DEF s
  <2>2. /\ SubSeq(s, Word + 1, Len(s)) \in Seq(Bytes)
        /\ Len(SubSeq(s, Word + 1, Len(s))) = Len(s) - Word
        /\ \A k \in 1 .. Len(s) - Word : SubSeq(s, Word + 1, Len(s))[k] = s[k + Word]
    BY <1>1, <2>1
  <2> QED BY <2>1, <2>2 DEF s
<1> HIDE DEF code, l
<1>3. m \in Seq(Bytes) /\ Len(m) = FrameSize
  BY MemoryIsSeq
<1>4. a \in Nat /\ a + Len(code) <= FrameSize /\ a + Len(code) = EndOf(p)
  BY <1>1, <1>2
<1>5. /\ w \in Seq(Bytes) /\ Len(w) = FrameSize
      /\ \A i \in 1 .. FrameSize : w[i] = IF i \in a + 1 .. a + Len(code) THEN code[i - a] ELSE m[i]
  <2>1. a \in Nat /\ a + Len(code) <= Len(m)
    BY <1>3, <1>4
  <2> HIDE DEF a
  <2>2. /\ w \in Seq(Bytes) /\ Len(w) = Len(m)
        /\ \A i \in 1 .. Len(m) :
              w[i] = IF i \in a + 1 .. a + Len(code) THEN code[i - a] ELSE m[i]
    BY <1>2, <1>3, <2>1, WriteFrame
  <2> HIDE DEF w
  <2> QED BY <1>3, <2>2
<1> HIDE DEF w
<1>6. ASSUME NEW i \in RegistersSize + Word + 1 .. EndOf(p) PROVE w[i] = p.bytes[i - RegistersSize]
  <2>1. i \in 1 .. FrameSize /\ i \in a + 1 .. a + Len(code)
    BY <1>1, <1>4
  <2>2. i - a \in 1 .. l - Word /\ (i - a) + Word = i - RegistersSize
    BY <1>1, <1>6
  <2>3. w[i] = code[i - a]
    BY <1>5, <2>1
  <2>4. code[i - a] = p.bytes[(i - a) + Word]
    <3> DEFINE k == i - a
    <3>1. k \in 1 .. l - Word
      BY <2>2
    <3> HIDE DEF k
    <3> QED BY <1>2, <3>1 DEF k
  <2> QED BY <2>2, <2>3, <2>4
<1>7. w = Loaded(m, p.bytes)
  BY DEF Loaded, w, code, l
<1>8. w \in Memories
  BY <1>5, MemoryIsSeq
<1> QED
  BY <1>6, <1>7, <1>8 DEF Code

LEMMA ExecRuns ==
    ASSUME FramedPrograms, Inv, NEW p \in Programs, ExecOn(p)
    PROVE  /\ Code(mem', p) /\ RunsAt(mem', p, frames')
           /\ program' = p /\ status' = "running" /\ frames' = <<>> /\ status # "running"
           /\ Reg(mem', SP) = EndOf(p) /\ Reg(mem', IP) \in RegistersSize .. EndOf(p)
<1> DEFINE loaded == Loaded(mem, p.bytes)
           flagged == SetFlag(loaded, RF, TRUE)
           stacked == Set(flagged, SP, EndOf(p))
           entry == Value(p.bytes, 0, Word) + RegistersSize
<1>1. loaded \in Memories /\ Code(loaded, p)
  BY InvFields, LoadedCode
<1>2. /\ program' = p /\ status' = "running" /\ frames' = <<>> /\ status # "running"
      /\ mem' = Set(stacked, IP, entry)
  BY DEF ExecOn
<1>3. entry \in p.starts
  BY DEF FramedPrograms, Framed
<1> HIDE DEF loaded, entry
<1>4. /\ entry \in Words /\ entry \in Int /\ entry \in RegistersSize .. EndOf(p)
      /\ EndOf(p) \in Words /\ EndOf(p) \in Nat /\ EndOf(p) <= FrameSize
      /\ RegistersSize \in Nat /\ Word \in Nat /\ FrameSize \in Nat
  BY <1>3, StartFacts, ProgramFits, SizesKnown
<1>5. flagged \in Memories /\ \A i \in 1 .. FrameSize : i > RegistersSize => flagged[i] = loaded[i]
  <2>1. flagged \in Memories
    BY <1>1, SetFlagFacts
  <2>2. ASSUME NEW i \in 1 .. FrameSize, i > RegistersSize PROVE flagged[i] = loaded[i]
    <3>1. i # FLAGS + 1
      BY <1>4, <2>2, RegistersAt, SizesKnown
    <3> QED BY <1>1, <3>1 DEF SetFlag, Memories
  <2> QED BY <2>1, <2>2
<1> HIDE DEF flagged
<1>6. ASSUME NEW m \in Memories, NEW r \in Registers, NEW v \in Int, NEW i \in 1 .. FrameSize,
             i > RegistersSize
      PROVE  Set(m, r, v)[i] = m[i]
  <2>1. r \in Nat /\ r + Word <= RegistersSize
    BY RegistersApart
  <2>2. i \notin r + 1 .. r + Word
    BY <1>4, <1>6, <2>1
  <2> QED BY <1>6, <2>2, SetReads
<1>7. stacked \in Memories /\ Reg(stacked, SP) = EndOf(p)
  BY <1>4, <1>5, SetReads, RegistersIn
<1>8. \A i \in 1 .. FrameSize : i > RegistersSize => stacked[i] = flagged[i]
  BY <1>4, <1>5, <1>6, RegistersIn
<1> HIDE DEF stacked
<1>9. \A i \in 1 .. FrameSize : i > RegistersSize => mem'[i] = stacked[i]
  BY <1>2, <1>4, <1>6, <1>7, RegistersIn
<1>10. Reg(mem', IP) = entry /\ Reg(mem', SP) = EndOf(p)
  <2>1. IP # SP
    BY RegistersAt, SizesKnown
  <2> QED BY <1>2, <1>4, <1>7, <2>1, SetReads, RegistersIn
<1>11. Code(mem', p)
  <2> SUFFICES ASSUME NEW i \in RegistersSize + Word + 1 .. EndOf(p)
               PROVE  mem'[i] = p.bytes[i - RegistersSize]
    BY DEF Code
  <2>1. i \in 1 .. FrameSize /\ i > RegistersSize
    BY <1>4
  <2>2. loaded[i] = p.bytes[i - RegistersSize]
    BY <1>1 DEF Code
  <2> QED BY <1>5, <1>8, <1>9, <2>1, <2>2
<1>12. CallFrames(mem', p, <<>>)
  BY DEF CallFrames
<1>13. RunsAt(mem', p, frames')
  BY <1>2, <1>3, <1>4, <1>10, <1>12 DEF RunsAt, FloorOf
<1> QED
  BY <1>2, <1>4, <1>10, <1>11, <1>13

-----------------------------------------------------------------------------
(* The invariant. *)

LEMMA InitCalls ==
    ASSUME Init
    PROVE  CallsInv
<1>1. Inv
  BY InitInv
<1>2. program = NoProgram /\ status = "idle"
  BY DEF Init
<1>3. EndOf(NoProgram) = RegistersSize /\ RegistersSize \in Nat /\ Word \in Nat
  BY SizesKnown DEF EndOf, NoProgram
<1>4. Code(mem, program)
  BY <1>2, <1>3 DEF Code
<1> QED
  BY <1>1, <1>2, <1>4 DEF CallsInv

\* What a step leaves of the code and the calls.
LEMMA Outcomes ==
    ASSUME FramedPrograms, CallsInv, Next, [Tame]_vars
    PROVE  \/ status # "running" /\ \E p \in Programs : ExecOn(p)
           \/ /\ InCalls /\ program' = program
              /\ \/ Faults \/ Works \/ GoesIn \/ GoesOut
                 \/ status' = "idle" /\ mem' = mem /\ frames' = frames
<1>1. CASE Exec
  BY <1>1 DEF Exec, ExecOn
<1>2. CASE Step
  <2>1. Inv
    BY DEF CallsInv
  <2>2. status = "running" /\ program' = program /\ InCalls
    BY <1>2, <2>1, StepKeeps DEF InCalls
  <2>3. CASE Tame
    BY <1>2, <2>2, <2>3, StepOutcomes
  <2>4. CASE UNCHANGED vars
    <3>1. mem' = mem /\ frames' = frames /\ status' = "running"
      BY <2>2, <2>4 DEF vars
    <3>2. /\ Intact(mem) /\ Bp = Reg(mem, BP) /\ Floor <= Sp /\ Floor = FloorOf(frames, program)
          /\ RunsAt(mem, program, frames)
      BY <2>2, KeptAtFirst, KeptIntact, FramePlaces, InCallsFacts DEF Bp
    <3>3. Works
      BY <3>1, <3>2 DEF Works, RunsAt, Sp
    <3> QED BY <2>2, <3>3
  <2> QED BY <2>3, <2>4
<1>3. CASE Finish
  BY <1>3 DEF Finish, InCalls
<1> QED
  BY <1>1, <1>2, <1>3 DEF Next

LEMMA NextCalls ==
    ASSUME FramedPrograms
    PROVE  CallsInv /\ [Next]_vars /\ [Tame]_vars => CallsInv'
<1> SUFFICES ASSUME CallsInv, [Next]_vars, [Tame]_vars PROVE CallsInv'
  OBVIOUS
<1>1. Inv /\ Inv'
  BY NextInv DEF CallsInv
<1>2. ASSUME Code(mem', program'), status' = "running" => RunsAt(mem', program', frames')
      PROVE  CallsInv'
  BY <1>1, <1>2 DEF CallsInv
<1>3. CASE UNCHANGED vars
  BY <1>1, <1>2, <1>3 DEF CallsInv, vars
<1>4. CASE Next
  <2>1. CASE \E p \in Programs : ExecOn(p)
    BY <1>1, <1>2, <2>1, ExecRuns
  <2>2. CASE InCalls /\ program' = program /\ Works
    BY <1>2, <2>2, WorksKeeps
  <2>3. CASE InCalls /\ program' = program /\ GoesIn
    BY <1>2, <2>3, GoesInKeeps
  <2>4. CASE InCalls /\ program' = program /\ GoesOut
    BY <1>2, <2>4, GoesOutKeeps
  <2>5. CASE InCalls /\ program' = program /\ mem' = mem /\ status' # "running"
    BY <1>2, <2>5 DEF CallsInv
  <2> QED BY <1>4, <2>1, <2>2, <2>3, <2>4, <2>5, Outcomes DEF Faults
<1> QED
  BY <1>3, <1>4

LEMMA CallsInvariance ==
    ASSUME FramedPrograms
    PROVE  Spec /\ StaysTame => []CallsInv
<1>1. Init => CallsInv
  BY InitCalls
<1>2. CallsInv /\ [Next]_vars /\ [Tame]_vars => CallsInv'
  BY NextCalls
<1> QED
  BY <1>1, <1>2, PTL DEF Spec, StaysTame

LEMMA CodeIs ==
    ASSUME CallsInv
    PROVE  CodeIntact
<1> DEFINE s == program.bytes
           l == Len(s)
           a == RegistersSize + Word
<1>1. /\ mem \in Seq(Bytes) /\ Len(mem) = FrameSize /\ RegistersSize \in Nat /\ Word \in Nat \ {0}
      /\ FrameSize \in Nat /\ Code(mem, program)
  BY InvFields, MemoryIsSeq, SizesKnown DEF CallsInv
<1>2. s \in Seq(Bytes) /\ l \in Nat /\ RegistersSize + l <= FrameSize
  <2>1. CASE program = NoProgram
    BY <2>1, SizesKnown DEF NoProgram
  <2>2. CASE program \in Programs
    BY <2>2, ProgramFits, SizesKnown
  <2> QED BY <2>1, <2>2 DEF CallsInv, Inv
<1>3. End = RegistersSize + l
  BY DEF End, EndOf
<1>4. \A i \in a + 1 .. RegistersSize + l : mem[i] = s[i - RegistersSize]
  BY <1>1, <1>3 DEF Code, End
<1> DEFINE left == SubSeq(mem, a + 1, RegistersSize + l)
           right == SubSeq(s, Word + 1, l)
<1> HIDE DEF s
<1>5. left = [i \in 1 .. l - Word |-> mem[i + a]]
  BY <1>1, <1>2
<1>6. right = [i \in 1 .. l - Word |-> s[i + Word]]
  BY <1>1, <1>2
<1>7. ASSUME NEW i \in 1 .. l - Word PROVE mem[i + a] = s[i + Word]
  <2>1. i + a \in a + 1 .. RegistersSize + l /\ (i + a) - RegistersSize = i + Word
    BY <1>1, <1>2
  <2> QED BY <1>4, <2>1
<1>8. left = right
  BY <1>5, <1>6, <1>7
<1> QED
  BY <1>3, <1>8 DEF CodeIntact, s

(***************************************************************************)
(* Programs and stack share one frame, and a tame program leaves its code  *)
(* as exec loaded it, whatever it pushes, stores, calls and returns.       *)
(***************************************************************************)
THEOREM CodeStays ==
    ASSUME FramedPrograms
    PROVE  Spec /\ StaysTame => []CodeIntact
<1>1. CallsInv => CodeIntact
  BY CodeIs
<1> QED
  BY <1>1, CallsInvariance, PTL

(***************************************************************************)
(* Every instruction moves IP past all of its operands, fcall and ret to   *)
(* where instructions begin: a tame program is never decoded from within   *)
(* an instruction.                                                         *)
(***************************************************************************)
THEOREM FetchesInstructions ==
    ASSUME FramedPrograms
    PROVE  Spec /\ StaysTame => []InSync
<1>1. CallsInv => InSync
  <2> SUFFICES ASSUME CallsInv, status = "running", Looping PROVE Ip \in program.starts
    BY DEF InSync
  <2>1. InCalls
    BY DEF InCalls
  <2> QED BY <2>1, Fetched
<1> QED
  BY <1>1, CallsInvariance, PTL

-----------------------------------------------------------------------------
(* The machine implements Calls. *)

\* A call as Calls sees it.
Seen(p, f) == [ret |-> <<p, f.ret>>, low |-> f.low - EndOf(p), base |-> f.base - EndOf(p)]
View(p, fs) == [i \in DOMAIN fs |-> Seen(p, fs[i])]

\* What Calls says, of what the machine has.
Views ==
    /\ Promise!Floor = IF frames = <<>> THEN 0 ELSE Floor - End
    /\ Promise!InCall <=> frames # <<>>
    /\ frames # <<>> => Promise!Innermost = Seen(program, frames[Len(frames)])

LEMMA ViewFacts ==
    ASSUME frames \in Frames
    PROVE  Views
<1> DEFINE v == View(program, frames)
           n == Len(frames)
<1>1. n \in Nat /\ DOMAIN frames = 1 .. n /\ (frames = <<>> <=> n = 0)
  BY DEF Frames
<1>2. v = [i \in 1 .. n |-> Seen(program, frames[i])]
  BY <1>1 DEF View
<1>3. Len(v) = n /\ (v = <<>> <=> n = 0) /\ (n # 0 => v[n] = Seen(program, frames[n]))
  BY <1>1, <1>2
<1>4. v = [i \in DOMAIN frames |-> [ret  |-> <<program, frames[i].ret>>,
                                    low  |-> frames[i].low - End,
                                    base |-> frames[i].base - End]]
  BY DEF View, Seen, End
<1> HIDE DEF v, n
<1>5. Promise!InCall <=> v # <<>>
  BY <1>4 DEF Promise!InCall
<1>6. Promise!Innermost = v[Len(v)]
  BY <1>4 DEF Promise!Innermost
<1>7. Promise!Floor = IF v # <<>> THEN v[Len(v)].base ELSE 0
  BY <1>5, <1>6 DEF Promise!Floor
<1>8. frames # <<>> => v[Len(v)] = Seen(program, frames[Len(frames)])
  BY <1>1, <1>3 DEF n
<1>9. frames # <<>> => v[Len(v)].base = Floor - End
  BY <1>8 DEF Seen, Floor, End
<1> QED
  BY <1>1, <1>3, <1>5, <1>6, <1>7, <1>8, <1>9 DEF Views

LEMMA PlaceIn ==
    ASSUME NEW p \in Programs, NEW a \in RegistersSize .. EndOf(p)
    PROVE  <<p, a>> \in Places
<1> DEFINE own == {p} \X (RegistersSize .. EndOf(p))
           all == { {q} \X (RegistersSize .. EndOf(q)) : q \in Programs }
<1>1. <<p, a>> \in own /\ own \in all
  OBVIOUS
<1>2. Places = {<<NoProgram, 0>>} \cup UNION all
  BY DEF Places
<1> HIDE DEF own, all
<1> QED
  BY <1>1, <1>2

LEMMA ProgramIsSome ==
    ASSUME NEW p \in Programs
    PROVE  p # NoProgram
<1>1. Len(p.bytes) >= Word /\ Word \in Nat \ {0}
  BY MachineConstants, SizesKnown
<1>2. Len(NoProgram.bytes) = 0
  BY DEF NoProgram
<1> QED
  BY <1>1, <1>2

\* The frames of a step, as Calls sees them.
LEMMA NextView ==
    [i \in DOMAIN frames' |-> [ret  |-> <<program', frames'[i].ret>>,
                               low  |-> frames'[i].low - End',
                               base |-> frames'[i].base - End']] = View(program', frames')
BY DEF View, Seen, End

LEMMA ThisView ==
    [i \in DOMAIN frames |-> [ret  |-> <<program, frames[i].ret>>,
                              low  |-> frames[i].low - End,
                              base |-> frames[i].base - End]] = View(program, frames)
BY DEF View, Seen, End

LEMMA StartsOne ==
    ASSUME FramedPrograms, Inv, NEW p \in Programs, ExecOn(p)
    PROVE  Promise!Start
<1>1. /\ program' = p /\ status' = "running" /\ frames' = <<>> /\ status # "running"
      /\ Reg(mem', SP) = EndOf(p) /\ Reg(mem', IP) \in RegistersSize .. EndOf(p)
  BY ExecRuns
<1>2. <<program', Ip'>> \in Places
  BY <1>1, PlaceIn DEF Ip
<1>3. (IF program' = NoProgram THEN 0 ELSE Sp' - End') = 0
  <2>1. EndOf(p) \in Nat
    BY ProgramFits
  <2> QED BY <1>1, <2>1, ProgramIsSome DEF Sp, End
<1>4. View(program', frames') = <<>>
  BY <1>1 DEF View
<1> QED
  BY <1>1, <1>2, <1>3, <1>4, NextView DEF Promise!Start

LEMMA WorksOne ==
    ASSUME InCalls, Works, program' = program
    PROVE  Promise!Work
<1>1. /\ program \in Programs /\ frames \in Frames /\ status = "running"
      /\ Floor \in Int /\ EndOf(program) <= Floor /\ EndOf(program) \in Nat /\ End = EndOf(program)
      /\ Floor = FloorOf(frames, program)
  BY InCallsFacts, FramePlaces, ProgramFits DEF InCalls, End
<1>2. /\ status' = "running" /\ frames' = frames
      /\ Floor <= Reg(mem', SP) /\ Reg(mem', IP) \in RegistersSize .. EndOf(program)
      /\ Reg(mem', SP) \in Int
  <2>1. Reg(mem', SP) \in Words /\ Words \subseteq Int
    BY RegType, RegistersIn, SizesKnown DEF Works, Intact, Words
  <2> QED BY <2>1 DEF Works
<1>3. <<program', Ip'>> \in Places
  BY <1>1, <1>2, PlaceIn DEF Ip
<1>4. Sp' = Reg(mem', SP) /\ End' = EndOf(program) /\ program' # NoProgram
  BY <1>1, ProgramIsSome DEF Sp, End
<1>5. Sp' - End' \in Int /\ Sp' - End' >= Promise!Floor
  <2>1. Promise!Floor = IF frames = <<>> THEN 0 ELSE Floor - End
    BY <1>1, ViewFacts DEF Views
  <2>2. frames = <<>> => Floor = End
    BY <1>1 DEF FloorOf
  <2> QED BY <1>1, <1>2, <1>4, <2>1, <2>2
<1>6. View(program', frames') = View(program, frames)
  BY <1>2
<1> QED
  BY <1>1, <1>2, <1>3, <1>4, <1>5, <1>6, NextView, ThisView DEF Promise!Work

\* Entries of the functions of a program.
LEMMA EntryIn ==
    ASSUME NEW p \in Programs, NEW entry \in DOMAIN p.args
    PROVE  <<p, entry>> \in Entries
<1> DEFINE own == {p} \X DOMAIN p.args
           all == { {q} \X DOMAIN q.args : q \in Programs }
<1>1. <<p, entry>> \in own /\ own \in all
  OBVIOUS
<1>2. Entries = UNION all
  BY DEF Entries
<1> HIDE DEF own, all
<1> QED
  BY <1>1, <1>2

\* A call appended is a call Calls appends.
LEMMA ViewAppend ==
    ASSUME NEW p, NEW fs \in Frames, NEW f \in [ret : Nat, low : Int, base : Nat]
    PROVE  View(p, Append(fs, f)) = Append(View(p, fs), Seen(p, f))
<1> DEFINE n == Len(fs)
           t == Append(fs, f)
           v == View(p, fs)
           e == Seen(p, f)
           E == {Seen(p, fs[i]) : i \in DOMAIN fs} \cup {e}
<1>1. n \in Nat /\ DOMAIN fs = 1 .. n /\ fs \in Seq([ret : Nat, low : Int, base : Nat])
  BY DEF Frames
<1>2. DOMAIN t = 1 .. n + 1 /\ t[n + 1] = f /\ \A k \in 1 .. n : t[k] = fs[k]
  <2>1. Longer(fs, f, t)
    BY <1>1, Appended
  <2> HIDE DEF t
  <2> QED BY <2>1 DEF Longer
<1>3. v \in Seq(E) /\ Len(v) = n /\ e \in E
  <2>1. v = [i \in 1 .. n |-> Seen(p, fs[i])]
    BY <1>1 DEF View
  <2>2. \A i \in 1 .. n : Seen(p, fs[i]) \in E
    BY <1>1
  <2> HIDE DEF E
  <2>3. v \in [1 .. n -> E]
    BY <2>1, <2>2
  <2>4. v \in Seq(E) /\ Len(v) = n
    <3> HIDE DEF v, n
    <3> QED BY <1>1, <2>3, ListIsSeq
  <2>5. e \in E
    BY DEF E
  <2> QED BY <2>4, <2>5
<1> HIDE DEF E
<1> DEFINE w == Append(v, e)
<1>4. DOMAIN w = 1 .. n + 1 /\ w[n + 1] = e /\ \A k \in 1 .. n : w[k] = v[k]
  <2>1. Longer(v, e, w)
    BY <1>3, Appended
  <2> HIDE DEF w
  <2> QED BY <1>3, <2>1 DEF Longer
<1>5. w = [i \in 1 .. n + 1 |-> w[i]]
  <2>1. w \in Seq(E)
    BY <1>3
  <2> HIDE DEF w
  <2> QED BY <1>4, <2>1
<1>6. View(p, t) = [i \in 1 .. n + 1 |-> Seen(p, t[i])]
  BY <1>2 DEF View
<1> HIDE DEF t, w
<1>7. ASSUME NEW i \in 1 .. n + 1 PROVE w[i] = Seen(p, t[i])
  <2>1. CASE i = n + 1
    BY <1>2, <1>4, <2>1
  <2>2. CASE i # n + 1
    <3>1. i \in 1 .. n
      BY <1>1, <2>2
    <3>2. v[i] = Seen(p, fs[i])
      BY <1>1, <3>1 DEF View
    <3> QED BY <1>2, <1>4, <3>1, <3>2
  <2> QED BY <2>1, <2>2
<1>8. View(p, t) = w
  BY <1>5, <1>6, <1>7
<1> QED
  BY <1>8 DEF t, w

LEMMA CallsOne ==
    ASSUME InCalls, GoesIn, program' = program, NEW p, p = program,
           NEW entry, entry = Called, NEW back, back = Back,
           NEW f, f = <<p, entry>>, NEW r, r = <<p, back>>
    PROVE  f \in Entries /\ r \in Places /\ Promise!Call(f, r)
<1> DEFINE args == p.args[entry]
           frame == [ret |-> back, low |-> Sp - args, base |-> Sp + Word]
<1>1. /\ p \in Programs /\ frames \in Frames /\ status = "running"
      /\ Floor \in Int /\ EndOf(p) \in Nat /\ End = EndOf(p)
      /\ Floor = FloorOf(frames, p) /\ Sp \in Nat /\ Word \in Nat
  BY InCallsFacts, FramePlaces, ProgramFits, SizesKnown DEF InCalls, End
<1>2. /\ status' = "running" /\ frames' = Append(frames, frame)
      /\ Reg(mem', IP) = entry /\ Reg(mem', SP) = Sp + Word
      /\ Floor <= Sp - args /\ Inst.name = "fcall" /\ Looping
  BY DEF GoesIn
<1>3. /\ back \in Nat /\ back \in p.starts /\ entry \in DOMAIN p.args /\ args \in Nat
  BY <1>2, AtCall
<1>4. back \in RegistersSize .. EndOf(p)
  BY <1>1, <1>3, StartFacts DEF InCalls
<1>5. f \in Entries /\ r \in Places
  BY <1>1, <1>3, <1>4, EntryIn, PlaceIn
<1>6. [g \in Entries |-> g[1].args[g[2]]][f] = args
  BY <1>5
<1>7. p # NoProgram
  BY <1>1, ProgramIsSome
<1>8. frame \in [ret : Nat, low : Int, base : Nat] /\ frame.low = Sp - args /\ frame.base = Sp + Word
      /\ frame.ret = back
  BY <1>1, <1>3
<1>9. View(p, frames') = Append(View(p, frames), Seen(p, frame))
  BY <1>1, <1>2, <1>8, ViewAppend
<1> HIDE DEF frame
<1>10. Seen(p, frame) = [ret |-> r, low |-> (Sp - End) - args, base |-> (Sp - End) + Word]
  <2>1. Seen(p, frame) = [ret |-> r, low |-> (Sp - args) - EndOf(p), base |-> (Sp + Word) - EndOf(p)]
    BY <1>8 DEF Seen
  <2>2. (Sp - args) - EndOf(p) = (Sp - End) - args /\ (Sp + Word) - EndOf(p) = (Sp - End) + Word
    BY <1>1, <1>3
  <2> QED BY <2>1, <2>2
<1>11. (Sp - End) - args >= Promise!Floor
  <2>1. Promise!Floor = IF frames = <<>> THEN 0 ELSE Floor - End
    BY <1>1, ViewFacts DEF Views
  <2>2. frames = <<>> => Floor = End
    BY <1>1 DEF FloorOf
  <2> QED BY <1>1, <1>2, <1>3, <2>1, <2>2
<1>12. /\ Ip' = entry /\ Sp' = Sp + Word /\ End' = End /\ Sp' - End' = (Sp - End) + Word
  <2>1. Ip' = entry /\ Sp' = Sp + Word /\ End' = End
    BY <1>2 DEF Ip, Sp, End
  <2>2. (Sp + Word) - End = (Sp - End) + Word
    BY <1>1
  <2> QED BY <2>1, <2>2
<1>13. View(program', frames') = Append(View(p, frames), Seen(p, frame))
  BY <1>9
<1> DEFINE sp == Sp - End
           seen == [i \in DOMAIN frames |-> [ret  |-> <<program, frames[i].ret>>,
                                             low  |-> frames[i].low - End,
                                             base |-> frames[i].base - End]]
<1>14. sp - args >= Promise!Floor
  BY <1>11
<1>15. /\ (IF program = NoProgram THEN 0 ELSE Sp - End) = sp
       /\ (IF program' = NoProgram THEN 0 ELSE Sp' - End') = sp + Word
  BY <1>7, <1>12
<1>16. <<program', Ip'>> = f
  BY <1>12
<1>17. seen' = Append(seen, [ret |-> r, low |-> sp - args, base |-> sp + Word])
  BY <1>10, <1>13, NextView, ThisView
<1>18. status = "running" /\ status' = "running"
  BY <1>1, <1>2
<1>19. Promise!Call(f, r)
  <2> HIDE DEF seen, sp, args
  <2>1. (status = "running")' = (status = "running")
    BY <1>18
  <2> QED
    BY <1>6, <1>14, <1>15, <1>16, <1>17, <1>18, <2>1 DEF Promise!Call, seen
<1> QED
  BY <1>5, <1>19

\* A call left is a call Calls drops.
LEMMA ViewDrop ==
    ASSUME NEW p, NEW fs \in Frames, fs # <<>>
    PROVE  View(p, SubSeq(fs, 1, Len(fs) - 1)) = SubSeq(View(p, fs), 1, Len(View(p, fs)) - 1)
<1> DEFINE n == Len(fs)
           t == SubSeq(fs, 1, n - 1)
           v == View(p, fs)
           w == SubSeq(v, 1, Len(v) - 1)
           R == [ret : Nat, low : Int, base : Nat]
           E == {Seen(p, fs[i]) : i \in DOMAIN fs}
<1>1. n \in Nat /\ n # 0 /\ DOMAIN fs = 1 .. n /\ fs \in Seq(R)
  BY DEF Frames
<1>2. /\ Len(t) = n - 1 /\ DOMAIN t = 1 .. n - 1 /\ \A k \in 1 .. n - 1 : t[k] = fs[k]
  <2> HIDE DEF R, t
  <2>1. t \in Seq(R) /\ Len(t) = n - 1 /\ \A k \in 1 .. Len(t) : t[k] = fs[k]
    BY <1>1, LastDropped DEF t
  <2>2. DOMAIN t = 1 .. Len(t)
    BY <2>1
  <2> QED BY <2>1, <2>2
<1>3. v \in Seq(E) /\ Len(v) = n /\ v # <<>>
  <2>1. v = [i \in 1 .. n |-> Seen(p, fs[i])]
    BY <1>1 DEF View
  <2>2. \A i \in 1 .. n : Seen(p, fs[i]) \in E
    BY <1>1
  <2> HIDE DEF E
  <2>3. v \in [1 .. n -> E]
    BY <2>1, <2>2
  <2>4. v \in Seq(E) /\ Len(v) = n
    <3> HIDE DEF v, n
    <3> QED BY <1>1, <2>3, ListIsSeq
  <2> HIDE DEF v
  <2> QED BY <1>1, <2>4
<1>4. \A i \in 1 .. n : v[i] = Seen(p, fs[i])
  BY <1>1 DEF View
<1> HIDE DEF E, R, v
<1>5. w \in Seq(E) /\ Len(w) = n - 1 /\ \A k \in 1 .. n - 1 : w[k] = v[k]
  <2> HIDE DEF w
  <2> QED BY <1>3, LastDropped DEF w
<1> HIDE DEF w
<1>6. w = [i \in 1 .. n - 1 |-> w[i]]
  BY <1>5
<1>7. View(p, t) = [i \in 1 .. n - 1 |-> Seen(p, t[i])]
  BY <1>2 DEF View
<1> HIDE DEF t, n
<1>8. ASSUME NEW i \in 1 .. n - 1 PROVE w[i] = Seen(p, t[i])
  <2>1. i \in 1 .. n
    BY <1>1
  <2> QED BY <1>2, <1>4, <1>5, <2>1
<1>9. View(p, t) = w
  BY <1>6, <1>7, <1>8
<1> QED
  BY <1>9 DEF t, w, v, n

LEMMA ReturnsOne ==
    ASSUME InCalls, GoesOut, program' = program, NEW p, p = program
    PROVE  Promise!Return
<1> DEFINE f == frames[Len(frames)]
           seen == [i \in DOMAIN frames |-> [ret  |-> <<program, frames[i].ret>>,
                                             low  |-> frames[i].low - End,
                                             base |-> frames[i].base - End]]
<1>1. /\ p \in Programs /\ frames \in Frames /\ status = "running" /\ End = EndOf(p)
  BY InCallsFacts DEF InCalls, End
<1>2. /\ status' = "running" /\ frames # <<>> /\ frames' = SubSeq(frames, 1, Len(frames) - 1)
      /\ Reg(mem', IP) = f.ret /\ Reg(mem', SP) = f.low
  BY DEF GoesOut
<1>3. Promise!InCall /\ Promise!Innermost = Seen(p, f)
  BY <1>1, <1>2, ViewFacts DEF Views
<1>4. seen' = SubSeq(seen, 1, Len(seen) - 1)
  <2>1. View(p, frames') = SubSeq(View(p, frames), 1, Len(View(p, frames)) - 1)
    BY <1>1, <1>2, ViewDrop
  <2>2. seen = View(p, frames) /\ seen' = View(p, frames')
    BY NextView, ThisView
  <2> HIDE DEF seen
  <2> QED BY <2>1, <2>2
<1>5. <<program', Ip'>> = Promise!Innermost.ret
  <2>1. Ip' = f.ret
    BY <1>2 DEF Ip
  <2> QED BY <1>3, <2>1 DEF Seen
<1>6. (IF program' = NoProgram THEN 0 ELSE Sp' - End') = Promise!Innermost.low
  <2>1. Sp' = f.low /\ End' = EndOf(p) /\ program' # NoProgram
    BY <1>1, <1>2, ProgramIsSome DEF Sp, End
  <2> QED BY <1>3, <2>1 DEF Seen
<1>7. (status = "running")' = (status = "running")
  BY <1>1, <1>2
<1> HIDE DEF f, seen
<1> QED
  BY <1>1, <1>3, <1>4, <1>5, <1>6, <1>7 DEF Promise!Return, seen

LEMMA StopsOne ==
    ASSUME status = "running", status' # "running", mem' = mem, frames' = frames, program' = program
    PROVE  Promise!Stop
<1>1. Ip' = Ip /\ Sp' = Sp /\ End' = End
  BY DEF Ip, Sp, End
<1> QED
  BY <1>1 DEF Promise!Stop

\* A memory never written holds 0 in IP.
LEMMA IpAtFirst ==
    ASSUME Init
    PROVE  Ip = 0
<1>1. mem \in Memories /\ \A i \in 1 .. FrameSize : mem[i] = 0
  <2>1. mem = [k \in 1 .. FrameSize |-> 0]
    BY DEF Init
  <2>2. 0 \in Bytes
    BY SizesKnown DEF Bytes
  <2> QED BY <2>1, <2>2 DEF Memories
<1>2. /\ Word \in Nat \ {0} /\ FrameSize \in Nat /\ Byte \in Nat \ {0} /\ Span(Word) \in Nat \ {0}
      /\ IP \in Nat /\ IP + Word <= FrameSize
  BY SizesKnown, RegistersAt, RegistersApart, RegistersIn
<1>3. ASSUME NEW k \in Nat PROVE Part(0, k) = 0
  <2>1. Span(k) \in Nat \ {0}
    BY SpanFacts
  <2>2. 0 \div Span(k) = 0 /\ 0 % Byte = 0
    BY <1>2, <2>1
  <2> QED BY <2>2 DEF Part
<1>4. Lies(mem, IP, Little(0, Word))
  <2>1. /\ Len(Little(0, Word)) = Word
        /\ \A k \in 1 .. Word : Little(0, Word)[k] = Part(0, k - 1)
    BY <1>2, LittleBytes
  <2>2. ASSUME NEW k \in 1 .. Word PROVE mem[IP + k] = Little(0, Word)[k]
    <3>1. IP + k \in 1 .. FrameSize /\ k - 1 \in Nat
      BY <1>2
    <3> QED BY <1>1, <1>3, <2>1, <3>1
  <2> QED BY <2>1, <2>2 DEF Lies
<1>5. Value(mem, IP, Word) = 0 % Span(Word)
  BY <1>2, <1>4, ValueOfLittle
<1>6. 0 % Span(Word) = 0
  BY <1>2
<1> QED
  BY <1>5, <1>6 DEF Ip, Reg

LEMMA InitOne ==
    ASSUME Init
    PROVE  Promise!Init
<1>1. program = NoProgram /\ (status = "running") = FALSE /\ frames = <<>>
  BY DEF Init
<1>2. <<NoProgram, 0>> \in Places
  BY DEF Places
<1>3. View(program, frames) = <<>>
  BY <1>1 DEF View
<1>4. <<program, Ip>> \in Places
  BY <1>1, <1>2, IpAtFirst
<1> DEFINE seen == [i \in DOMAIN frames |-> [ret  |-> <<program, frames[i].ret>>,
                                             low  |-> frames[i].low - End,
                                             base |-> frames[i].base - End]]
<1>5. seen = <<>>
  BY <1>3, ThisView
<1> HIDE DEF seen
<1> QED
  BY <1>1, <1>4, <1>5 DEF Promise!Init, seen

LEMMA StepRefines ==
    ASSUME FramedPrograms
    PROVE  CallsInv /\ [Next]_vars /\ [Tame]_vars => [Promise!Next]_(Promise!vars)
<1> SUFFICES ASSUME CallsInv, [Next]_vars, [Tame]_vars PROVE [Promise!Next]_(Promise!vars)
  OBVIOUS
<1>1. CASE UNCHANGED vars
  <2>1. Ip' = Ip /\ Sp' = Sp /\ End' = End
    BY <1>1 DEF vars, Ip, Sp, End
  <2> QED BY <1>1, <2>1 DEF vars, Promise!vars
<1>2. CASE Next
  <2>1. CASE \E p \in Programs : ExecOn(p)
    <3>1. Promise!Start
      BY <2>1, StartsOne DEF CallsInv
    <3> QED BY <3>1 DEF Promise!Next
  <2>2. CASE InCalls /\ program' = program /\ Works
    <3>1. Promise!Work
      BY <2>2, WorksOne
    <3> QED BY <3>1 DEF Promise!Next
  <2>3. CASE InCalls /\ program' = program /\ GoesIn
    <3>1. PICK p, entry, back : p = program /\ entry = Called /\ back = Back
      OBVIOUS
    <3>2. PICK f, r : f = <<p, entry>> /\ r = <<p, back>>
      OBVIOUS
    <3>3. f \in Entries /\ r \in Places /\ Promise!Call(f, r)
      BY <2>3, <3>1, <3>2, CallsOne
    <3> QED BY <3>3 DEF Promise!Next
  <2>4. CASE InCalls /\ program' = program /\ GoesOut
    <3>1. PICK p : p = program
      OBVIOUS
    <3>2. Promise!Return
      BY <2>4, <3>1, ReturnsOne
    <3> QED BY <3>2 DEF Promise!Next
  <2>5. CASE /\ status = "running" /\ status' # "running"
             /\ mem' = mem /\ frames' = frames /\ program' = program
    <3>1. Promise!Stop
      BY <2>5, StopsOne
    <3> QED BY <3>1 DEF Promise!Next
  <2> QED BY <1>2, <2>1, <2>2, <2>3, <2>4, <2>5, Outcomes DEF Faults, InCalls
<1> QED
  BY <1>1, <1>2

(***************************************************************************)
(* The bytes fcall and ret keep on the stack, in the code and in the       *)
(* headers of functions make calls that nest, return behind their fcall    *)
(* and take their arguments with them: the machine implements Calls.       *)
(***************************************************************************)
THEOREM MachineKeepsPromise ==
    ASSUME FramedPrograms
    PROVE  Spec /\ StaysTame => KeepsPromise
<1>1. Init => Promise!Init
  BY InitOne
<1>2. CallsInv /\ [Next]_vars /\ [Tame]_vars => [Promise!Next]_(Promise!vars)
  BY StepRefines
<1> QED
  BY <1>1, <1>2, CallsInvariance, PTL DEF Spec, StaysTame, KeepsPromise, Promise!Spec
=============================================================================
