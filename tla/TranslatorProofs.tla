-------------------------- MODULE TranslatorProofs --------------------------
(***************************************************************************)
(* Proofs about the translator, for all programs and all sizes of bytes,   *)
(* words, codes and operands.                                              *)
(***************************************************************************)
EXTENDS Translator, WellFoundedInduction, FiniteSetTheorems, TLAPS

-----------------------------------------------------------------------------
(* Induction and recursion.  The theorems of the library take the formula  *)
(* to be proved as an operator; these take a set, so that an induction is  *)
(* SetInduction on the set of the numbers the formula holds of, and the    *)
(* equation of a recursive function follows from Recursion.                *)

(***************************************************************************)
(* A set of numbers that holds 0 and the successor of each of its elements *)
(* holds all natural numbers.                                              *)
(***************************************************************************)
LEMMA SetInduction ==
    ASSUME NEW S, 0 \in S, \A n \in Nat : n \in S => n + 1 \in S
    PROVE  Nat \subseteq S
<1> DEFINE T == Nat \ S
           R == {p \in Nat \X Nat : p[1] < p[2]}
<1>1. IsWellFoundedOn(R, Nat)
  BY NatLessThanWellFounded DEF OpToRel
<1>2. SUFFICES ASSUME T # {} PROVE FALSE
  OBVIOUS
<1>3. PICK x \in T : \A y \in T : ~(<<y, x>> \in R)
  <2>1. T \subseteq Nat
    OBVIOUS
  <2> HIDE DEF T, R
  <2> QED BY <1>1, <1>2, <2>1, WFMin
<1>4. x # 0 /\ x \in Nat /\ x - 1 \in Nat
  BY <1>3
<1>5. x - 1 \in T
  BY <1>4, <1>3
<1>6. <<x - 1, x>> \in R
  BY <1>4
<1> QED
  BY <1>3, <1>5, <1>6

(***************************************************************************)
(* A set of natural numbers that is not empty has a least element.         *)
(***************************************************************************)
LEMMA LeastElement ==
    ASSUME NEW T \in SUBSET Nat, T # {}
    PROVE  \E x \in T : \A y \in T : x <= y
<1> DEFINE R == {p \in Nat \X Nat : p[1] < p[2]}
<1>1. IsWellFoundedOn(R, Nat)
  BY NatLessThanWellFounded DEF OpToRel
<1>2. PICK x \in T : \A y \in T : ~(<<y, x>> \in R)
  <2> HIDE DEF R
  <2> QED BY <1>1, WFMin
<1>3. ASSUME NEW y \in T PROVE x <= y
  <2>1. x \in Nat /\ y \in Nat
    OBVIOUS
  <2>2. y < x => <<y, x>> \in R
    BY <2>1
  <2> HIDE DEF R
  <2> QED BY <1>2, <2>1, <2>2
<1> QED
  BY <1>3

-----------------------------------------------------------------------------
\* g is what step makes of base along s, within V.
Runs(g, V, base, step, s) ==
    /\ g \in [0 .. Len(s) -> V]
    /\ g[0] = base
    /\ \A k \in 1 .. Len(s) : g[k] = step[<<g[k - 1], s[k]>>]

(***************************************************************************)
(* Every step that stays in a set can be taken along any sequence.         *)
(***************************************************************************)
LEMMA Recursion ==
    ASSUME NEW E, NEW s \in Seq(E), NEW V, NEW base \in V, NEW step \in [V \X E -> V]
    PROVE  \E g : Runs(g, V, base, step, s)
<1> DEFINE Upto(g, m) == /\ g \in [0 .. m -> V]
                         /\ g[0] = base
                         /\ \A k \in 1 .. m : g[k] = step[<<g[k - 1], s[k]>>]
           S == {m \in Nat : m <= Len(s) => \E g : Upto(g, m)}
<1>1. \E g : Upto(g, 0)
  <2> DEFINE h == [k \in 0 .. 0 |-> base]
  <2>1. h \in [0 .. 0 -> V] /\ h[0] = base
    OBVIOUS
  <2> HIDE DEF h
  <2>2. Upto(h, 0)
    BY <2>1
  <2> QED BY <2>2
<1>2. ASSUME NEW m \in Nat, m + 1 <= Len(s), NEW g, Upto(g, m)
      PROVE  \E h : Upto(h, m + 1)
  <2> DEFINE h == [k \in 0 .. m + 1 |-> IF k = m + 1 THEN step[<<g[m], s[m + 1]>>] ELSE g[k]]
  <2>1. s[m + 1] \in E /\ m \in 0 .. m /\ step[<<g[m], s[m + 1]>>] \in V
    BY <1>2
  <2>2. h \in [0 .. m + 1 -> V]
    BY <2>1, <1>2
  <2>3. h[m + 1] = step[<<g[m], s[m + 1]>>] /\ \A k \in 0 .. m : h[k] = g[k]
    BY <2>1
  <2> HIDE DEF h
  <2>4. Upto(h, m + 1)
    <3>1. h[0] = base
      BY <2>3, <1>2
    <3>2. ASSUME NEW k \in 1 .. m + 1 PROVE h[k] = step[<<h[k - 1], s[k]>>]
      <4>1. CASE k = m + 1
        BY <4>1, <2>3
      <4>2. CASE k \in 1 .. m
        BY <4>2, <2>3, <1>2
      <4> QED BY <4>1, <4>2
    <3> QED BY <2>2, <3>1, <3>2
  <2> QED BY <2>4
<1>3. Len(s) \in S
  <2> HIDE DEF Upto
  <2>1. 0 \in S /\ \A m \in Nat : m \in S => m + 1 \in S
    BY <1>1, <1>2
  <2> HIDE DEF S
  <2> QED BY <2>1, SetInduction
<1> QED
  BY <1>3 DEF Runs

-----------------------------------------------------------------------------
Bytes == 0 .. Byte - 1

-----------------------------------------------------------------------------
(* Quotients. *)

LEMMA DivMod ==
    ASSUME NEW x \in Int, NEW b \in Nat \ {0}
    PROVE  /\ x \div b \in Int
           /\ x % b \in 0 .. b - 1
           /\ x = b * (x \div b) + (x % b)
OBVIOUS

LEMMA DivUnique ==
    ASSUME NEW b \in Nat \ {0}, NEW q \in Int, NEW r \in 0 .. b - 1
    PROVE  (b * q + r) \div b = q /\ (b * q + r) % b = r
OBVIOUS

LEMMA DivDiv ==
    ASSUME NEW x \in Int, NEW s \in Nat \ {0}, NEW b \in Nat \ {0}
    PROVE  (x \div s) \div b = x \div (b * s)
<1> DEFINE r == x % s
           q == x \div s
           t == q % b
           p == q \div b
<1>1. x = s * q + r /\ r \in 0 .. s - 1 /\ q \in Int
  BY DivMod
<1>2. q = b * p + t /\ t \in 0 .. b - 1 /\ p \in Int
  BY <1>1, DivMod
<1> HIDE DEF r, q, t, p
<1>3. x = (b * s) * p + (s * t + r)
  BY <1>1, <1>2
<1>4. s * t + r \in 0 .. b * s - 1 /\ b * s \in Nat \ {0}
  <2>1. s * t <= s * (b - 1)
    BY <1>2
  <2>2. s * (b - 1) = b * s - s
    OBVIOUS
  <2> QED BY <2>1, <2>2, <1>1, <1>2
<1>5. x \div (b * s) = p
  <2> DEFINE c == b * s
             u == s * t + r
  <2>1. c \in Nat \ {0} /\ u \in 0 .. c - 1 /\ x = c * p + u /\ p \in Int
    BY <1>2, <1>3, <1>4
  <2> HIDE DEF c, u
  <2>2. x \div c = p
    BY <2>1, DivUnique
  <2> QED BY <2>2 DEF c, u
<1> QED
  BY <1>5 DEF q, p

LEMMA ModMul ==
    ASSUME NEW x \in Int, NEW b \in Nat \ {0}, NEW s \in Nat \ {0}
    PROVE  (x % b) + b * ((x \div b) % s) = x % (b * s)
<1> DEFINE r == x % b
           q == x \div b
           t == q % s
           p == q \div s
<1>1. x = b * q + r /\ r \in 0 .. b - 1 /\ q \in Int
  BY DivMod
<1>2. q = s * p + t /\ t \in 0 .. s - 1 /\ p \in Int
  BY <1>1, DivMod
<1> HIDE DEF r, q, t, p
<1>3. x = (b * s) * p + (b * t + r)
  BY <1>1, <1>2
<1>4. b * t + r \in 0 .. b * s - 1 /\ b * s \in Nat \ {0}
  <2>1. b * t <= b * (s - 1)
    BY <1>2
  <2>2. b * (s - 1) = b * s - b
    OBVIOUS
  <2> QED BY <2>1, <2>2, <1>1, <1>2
<1>5. x % (b * s) = b * t + r
  <2> DEFINE c == b * s
             u == b * t + r
  <2>1. c \in Nat \ {0} /\ u \in 0 .. c - 1 /\ x = c * p + u /\ p \in Int
    BY <1>2, <1>3, <1>4
  <2> HIDE DEF c, u
  <2>2. x % c = u
    BY <2>1, DivUnique
  <2> QED BY <2>2 DEF c, u
<1> QED
  BY <1>5 DEF r, q, t

-----------------------------------------------------------------------------
(* Powers. *)

LEMMA PowersEquation ==
    ASSUME NEW b \in Nat \ {0}, NEW n \in Nat
    PROVE  /\ Powers(b, n)[0] = 1
           /\ \A k \in 1 .. n : Powers(b, n)[k] = b * Powers(b, n)[k - 1]
           /\ \A k \in 0 .. n : Powers(b, n)[k] \in Nat \ {0}
<1> DEFINE s == [k \in 1 .. n |-> k]
           step == [p \in Nat \X Nat |-> b * p[1]]
           Eq(f) == f = [k \in 0 .. n |-> IF k = 0 THEN 1 ELSE b * f[k - 1]]
           S == {k \in Nat : k <= n => Powers(b, n)[k] \in Nat \ {0}}
<1>1. s \in Seq(Nat) /\ Len(s) = n /\ b \in Nat \ {0}
  OBVIOUS
<1>2. step \in [Nat \X Nat -> Nat] /\ \A p, k \in Nat : step[<<p, k>>] = b * p
  BY <1>1
<1>3. \A k \in 1 .. n : s[k] \in Nat
  OBVIOUS
<1> HIDE DEF s, step
<1>4. \E g : Eq(g)
  <2>1. PICK g : Runs(g, Nat, 1, step, s)
    <3>1. 1 \in Nat
      OBVIOUS
    <3> QED BY <1>1, <1>2, <3>1, Recursion
  <2>2. g \in [0 .. n -> Nat] /\ g[0] = 1
    BY <1>1, <2>1 DEF Runs
  <2>3. ASSUME NEW k \in 1 .. n PROVE g[k] = b * g[k - 1]
    <3>1. g[k] = step[<<g[k - 1], s[k]>>] /\ g[k - 1] \in Nat
      BY <1>1, <2>1, <2>2 DEF Runs
    <3> QED BY <1>2, <1>3, <3>1
  <2>4. Eq(g)
    BY <2>2, <2>3
  <2> QED BY <2>4
<1>5. Eq(Powers(b, n))
  BY <1>4 DEF Powers
<1>6. /\ Powers(b, n)[0] = 1
      /\ \A k \in 1 .. n : Powers(b, n)[k] = b * Powers(b, n)[k - 1]
  <2>1. \A k \in 0 .. n : Powers(b, n)[k] = IF k = 0 THEN 1 ELSE b * Powers(b, n)[k - 1]
    BY <1>5, Zenon
  <2> QED BY <2>1
<1>7. 0 \in S /\ \A k \in Nat : k \in S => k + 1 \in S
  BY <1>1, <1>6
<1>8. \A k \in 0 .. n : Powers(b, n)[k] \in Nat \ {0}
  <2>1. Nat \subseteq S
    <3> HIDE DEF S
    <3> QED BY <1>7, SetInduction
  <2> QED BY <2>1
<1> QED
  BY <1>6, <1>8

LEMMA PowerFacts ==
    ASSUME NEW b \in Nat \ {0}
    PROVE  /\ Powers(b, 0)[0] = 1
           /\ \A n \in Nat : /\ Powers(b, n)[n] \in Nat \ {0}
                            /\ Powers(b, n + 1)[n + 1] = b * Powers(b, n)[n]
<1>1. Powers(b, 0)[0] = 1
  BY PowersEquation
<1>2. ASSUME NEW n \in Nat PROVE Powers(b, n)[n] \in Nat \ {0}
  BY PowersEquation
<1>3. ASSUME NEW n \in Nat PROVE Powers(b, n + 1)[n + 1] = b * Powers(b, n)[n]
  <2> DEFINE S == {k \in Nat : k <= n => Powers(b, n + 1)[k] = Powers(b, n)[k]}
  <2>1. 0 \in S /\ \A k \in Nat : k \in S => k + 1 \in S
    <3>1. n + 1 \in Nat
      OBVIOUS
    <3> QED BY <3>1, PowersEquation
  <2>2. n \in S
    <3> HIDE DEF S
    <3> QED BY <2>1, SetInduction
  <2>3. Powers(b, n + 1)[n + 1] = b * Powers(b, n + 1)[n]
    <3>1. n + 1 \in Nat /\ n + 1 \in 1 .. n + 1 /\ (n + 1) - 1 = n
      OBVIOUS
    <3> QED BY <3>1, PowersEquation
  <2> QED BY <2>2, <2>3
<1> QED
  BY <1>1, <1>2, <1>3

LEMMA SpanFacts ==
    /\ Span(0) = 1
    /\ \A n \in Nat : Span(n) \in Nat \ {0} /\ Span(n + 1) = Byte * Span(n)
<1>1. Byte \in Nat \ {0}
  BY IsaConstants
<1> QED
  BY <1>1, PowerFacts DEF Span

-----------------------------------------------------------------------------
(* Numbers in memory. *)

LEMMA PartByte ==
    ASSUME NEW v \in Int, NEW k \in Nat
    PROVE  Part(v, k) \in Bytes
<1>1. Byte \in Nat \ {0}
  BY IsaConstants
<1> Span(k) \in Nat \ {0}
  BY SpanFacts
<1>2. v \div Span(k) \in Int
  BY <1>1, DivMod
<1> QED
  BY <1>1, <1>2, DivMod DEF Part, Bytes

LEMMA LittleBytes ==
    ASSUME NEW v \in Int, NEW n \in Nat
    PROVE  /\ Little(v, n) \in Seq(Bytes)
           /\ Len(Little(v, n)) = n
           /\ \A k \in 1 .. n : Little(v, n)[k] = Part(v, k - 1)
<1>1. \A k \in 1 .. n : Part(v, k - 1) \in Bytes
  <2> SUFFICES ASSUME NEW k \in 1 .. n PROVE Part(v, k - 1) \in Bytes
    OBVIOUS
  <2>1. k - 1 \in Nat
    OBVIOUS
  <2> QED BY <2>1, PartByte
<1> QED
  BY <1>1 DEF Little

\* The bytes s lie at address a of m.
Lies(m, a, s) == \A k \in 1 .. Len(s) : m[a + k] = s[k]

(***************************************************************************)
(* The lower bytes of a number, read as a number.                          *)
(***************************************************************************)
LEMMA ValueOfLittle ==
    ASSUME NEW m, NEW a \in Nat, NEW v \in Int, NEW l \in Nat, NEW n \in 0 .. l,
           Lies(m, a, Little(v, l))
    PROVE  Value(m, a, n) = v % Span(n)
<1> DEFINE s == [k \in 1 .. n |-> Part(v, n - k)]
           step == [p \in Nat \X Nat |-> p[2] + (Byte * p[1])]
           U == Uppers(m, a, n)
           Eq(f) == f = [k \in 0 .. n |-> IF k = 0 THEN 0 ELSE m[a + n - k + 1] + Byte * f[k - 1]]
           S == {k \in Nat : k <= n => U[k] = (v \div Span(n - k)) % Span(k)}
<1>1. Byte \in Nat \ {0}
  BY IsaConstants
<1>2. ASSUME NEW k \in 1 .. n
      PROVE  Part(v, n - k) \in Nat /\ m[a + n - k + 1] = Part(v, n - k)
  <2>1. n - k \in Nat /\ n - k + 1 \in 1 .. n /\ a + n - k + 1 = a + (n - k + 1)
        /\ (n - k + 1) - 1 = n - k
    OBVIOUS
  <2>2. Part(v, n - k) \in Nat
    <3>1. \A i \in Nat : Part(v, i) \in Bytes
      BY PartByte
    <3>2. Bytes \subseteq Nat
      BY <1>1 DEF Bytes
    <3> QED BY <2>1, <3>1, <3>2
  <2>3. /\ Len(Little(v, l)) = l
        /\ \A i \in 1 .. l : Little(v, l)[i] = Part(v, i - 1)
    BY LittleBytes
  <2>4. m[a + (n - k + 1)] = Little(v, l)[n - k + 1]
    BY <2>1, <2>3 DEF Lies
  <2> QED BY <2>1, <2>2, <2>3, <2>4
<1>3. s \in Seq(Nat) /\ Len(s) = n /\ \A k \in 1 .. n : s[k] = Part(v, n - k)
  BY <1>2
<1>4. step \in [Nat \X Nat -> Nat] /\ \A p, q \in Nat : step[<<p, q>>] = q + (Byte * p)
  <2>1. \A p \in Nat \X Nat : p[2] + (Byte * p[1]) \in Nat
    BY <1>1
  <2> QED BY <2>1
<1> HIDE DEF s, step
<1>5. \E g : Eq(g)
  <2>1. PICK g : Runs(g, Nat, 0, step, s)
    <3>1. 0 \in Nat
      OBVIOUS
    <3> QED BY <1>3, <1>4, <3>1, Recursion
  <2>2. g \in [0 .. n -> Nat] /\ g[0] = 0
    BY <1>3, <2>1 DEF Runs
  <2>3. ASSUME NEW k \in 1 .. n PROVE g[k] = m[a + n - k + 1] + Byte * g[k - 1]
    <3>1. g[k] = step[<<g[k - 1], s[k]>>] /\ g[k - 1] \in Nat
      BY <1>3, <2>1, <2>2 DEF Runs
    <3> QED BY <1>2, <1>3, <1>4, <3>1
  <2>4. Eq(g)
    BY <2>2, <2>3
  <2> QED BY <2>4
<1>6. Eq(U)
  BY <1>5 DEF Uppers
<1>7. \A k \in 0 .. n : U[k] = IF k = 0 THEN 0 ELSE m[a + n - k + 1] + Byte * U[k - 1]
  <2> HIDE DEF U
  <2> QED BY <1>6, Zenon
<1> HIDE DEF U
<1>8. 0 \in S
  <2>1. v \div Span(n) \in Int
    <3>1. Span(n) \in Nat \ {0}
      BY SpanFacts
    <3> QED BY <3>1
  <2>2. (v \div Span(n)) % 1 = 0
    BY <2>1
  <2> QED BY <1>7, <2>2, SpanFacts
<1>9. ASSUME NEW k \in Nat, k \in S PROVE k + 1 \in S
  <2> SUFFICES ASSUME k + 1 <= n
               PROVE  U[k + 1] = (v \div Span(n - (k + 1))) % Span(k + 1)
    OBVIOUS
  <2> DEFINE i == n - (k + 1)
             x == v \div Span(i)
  <2>1. i \in Nat /\ i + 1 = n - k /\ k + 1 \in 1 .. n /\ k + 1 \in 0 .. n /\ (k + 1) - 1 = k
    OBVIOUS
  <2>2. Span(i) \in Nat \ {0} /\ Span(n - k) = Byte * Span(i)
        /\ Span(k) \in Nat \ {0} /\ Span(k + 1) = Byte * Span(k)
    BY <2>1, SpanFacts
  <2>3. x \in Int
    <3> HIDE DEF i
    <3> QED BY <2>2, DivMod
  <2>4. v \div Span(n - k) = x \div Byte
    BY <2>2, <1>1, DivDiv
  <2>5. U[k] = (x \div Byte) % Span(k)
    <3>1. U[k] = (v \div Span(n - k)) % Span(k)
      BY <1>9, <2>1
    <3> QED BY <3>1, <2>4
  <2>6. U[k + 1] = (x % Byte) + Byte * ((x \div Byte) % Span(k))
    <3>1. U[k + 1] = Part(v, i) + Byte * U[k]
      BY <1>2, <1>7, <2>1
    <3> QED BY <3>1, <2>5 DEF Part
  <2> HIDE DEF x
  <2>7. U[k + 1] = x % (Byte * Span(k))
    BY <2>6, <2>2, <2>3, <1>1, ModMul
  <2> QED BY <2>7, <2>2 DEF x
<1>10. n \in S
  <2> HIDE DEF S
  <2> QED BY <1>8, <1>9, SetInduction
<1>11. v \div Span(0) = v
  BY SpanFacts
<1>12. U[n] = v % Span(n)
  BY <1>10, <1>11
<1> QED
  BY <1>12, Zenon DEF U, Value

(***************************************************************************)
(* A write inside a memory changes the bytes it writes and no other.       *)
(***************************************************************************)
LEMMA WriteFrame ==
    ASSUME NEW E, NEW m \in Seq(E), NEW bytes \in Seq(E), NEW a \in Nat,
           a + Len(bytes) <= Len(m)
    PROVE  /\ Write(m, a, bytes) \in Seq(E)
           /\ Len(Write(m, a, bytes)) = Len(m)
           /\ \A i \in 1 .. Len(m) :
                 Write(m, a, bytes)[i] = IF i \in a + 1 .. a + Len(bytes) THEN bytes[i - a]
                                         ELSE m[i]
<1> DEFINE p == SubSeq(m, 1, a)
           q == SubSeq(m, a + Len(bytes) + 1, Len(m))
<1>1. p \in Seq(E) /\ Len(p) = a /\ \A i \in 1 .. a : p[i] = m[i]
  OBVIOUS
<1>2. /\ q \in Seq(E) /\ Len(q) = Len(m) - a - Len(bytes)
      /\ \A i \in 1 .. Len(m) - a - Len(bytes) : q[i] = m[a + Len(bytes) + i]
  OBVIOUS
<1>3. Write(m, a, bytes) = (p \o bytes) \o q
  BY DEF Write
<1> HIDE DEF p, q
<1> DEFINE r == p \o bytes
<1>4. /\ r \in Seq(E) /\ Len(r) = a + Len(bytes)
      /\ \A i \in 1 .. a : r[i] = m[i]
      /\ \A i \in a + 1 .. a + Len(bytes) : r[i] = bytes[i - a]
  BY <1>1
<1> HIDE DEF r
<1> DEFINE w == r \o q
<1>5. w \in Seq(E) /\ Len(w) = Len(m)
  <2> r \in Seq(E) /\ q \in Seq(E)
    BY <1>2, <1>4
  <2>1. Len(w) = Len(r) + Len(q)
    OBVIOUS
  <2>2. Len(m) \in Nat /\ Len(bytes) \in Nat
    OBVIOUS
  <2> QED BY <1>2, <1>4, <2>1, <2>2
<1>6. \A i \in 1 .. Len(r) : w[i] = r[i]
  BY <1>2, <1>4
<1>7. \A i \in Len(r) + 1 .. Len(m) : w[i] = q[i - Len(r)]
  BY <1>2, <1>4
<1>8. w = Write(m, a, bytes)
  BY <1>3 DEF r
<1> HIDE DEF w
<1>9. \A i \in 1 .. Len(m) : w[i] = IF i \in a + 1 .. a + Len(bytes) THEN bytes[i - a] ELSE m[i]
  <2> SUFFICES ASSUME NEW i \in 1 .. Len(m)
               PROVE  w[i] = IF i \in a + 1 .. a + Len(bytes) THEN bytes[i - a] ELSE m[i]
    OBVIOUS
  <2>1. CASE i \in 1 .. Len(r)
    BY <2>1, <1>4, <1>6
  <2>2. CASE i \in Len(r) + 1 .. Len(m)
    <3>1. i - Len(r) \in 1 .. Len(m) - a - Len(bytes) /\ a + Len(bytes) + (i - Len(r)) = i
      BY <2>2, <1>4
    <3> QED BY <3>1, <2>2, <1>2, <1>4, <1>7
  <2> QED BY <2>1, <2>2, <1>4
<1> QED
  BY <1>5, <1>8, <1>9

-----------------------------------------------------------------------------
(* The two tables of instruction codes. *)

LEMMA SystemPlaces ==
    \A n \in DOMAIN SystemIds : \E i \in DOMAIN SystemNames :
        SystemNames[i] = n /\ SystemIds[n] = i - 1
<1>1. /\ DOMAIN SystemNames = 1 .. 4
      /\ SystemNames[1] = "halt" /\ SystemNames[2] = "ncall"
      /\ SystemNames[3] = "fcall" /\ SystemNames[4] = "ret"
  BY DEF SystemNames
<1>2. /\ DOMAIN SystemIds = {"halt", "ncall", "fcall", "ret"}
      /\ SystemIds["halt"] = 0 /\ SystemIds["ncall"] = 1
      /\ SystemIds["fcall"] = 2 /\ SystemIds["ret"] = 3
  BY DEF SystemIds
<1> QED
  BY <1>1, <1>2

LEMMA SizePlaces ==
    \A n \in DOMAIN SizeIds : \E i \in DOMAIN SizeNames :
        SizeNames[i] = n /\ SizeIds[n] = i - 1
<1>1. /\ DOMAIN SizeNames = 1 .. 9
      /\ SizeNames[1] = "mov" /\ SizeNames[2] = "push" /\ SizeNames[3] = "pop"
      /\ SizeNames[4] = "not" /\ SizeNames[5] = "and" /\ SizeNames[6] = "or"
      /\ SizeNames[7] = "xor" /\ SizeNames[8] = "shl" /\ SizeNames[9] = "shr"
  BY DEF SizeNames
<1>2. /\ DOMAIN SizeIds = {"mov", "push", "pop", "not", "and", "or", "xor", "shl", "shr"}
      /\ SizeIds["mov"] = 0 /\ SizeIds["push"] = 1 /\ SizeIds["pop"] = 2
      /\ SizeIds["not"] = 3 /\ SizeIds["and"] = 4 /\ SizeIds["or"] = 5
      /\ SizeIds["xor"] = 6 /\ SizeIds["shl"] = 7 /\ SizeIds["shr"] = 8
  BY DEF SizeIds
<1> QED
  BY <1>1, <1>2

LEMMA TypePlaces ==
    /\ \A n \in DOMAIN TypeIds : \E i \in DOMAIN TypeNames :
          TypeNames[i] = n /\ TypeIds[n] = i - 1
    /\ \A n \in DOMAIN TypeIds : \E i \in DOMAIN SignedNames :
          SignedNames[i] = n /\ TypeIds[n] = i - 1
<1>1. /\ DOMAIN TypeNames = 1 .. 6
      /\ TypeNames[1] = "add" /\ TypeNames[2] = "sub" /\ TypeNames[3] = "mul"
      /\ TypeNames[4] = "div" /\ TypeNames[5] = "mod" /\ TypeNames[6] = "cmp"
  BY DEF TypeNames
<1>2. /\ DOMAIN TypeIds = {"add", "sub", "mul", "div", "mod", "cmp"}
      /\ TypeIds["add"] = 0 /\ TypeIds["sub"] = 1 /\ TypeIds["mul"] = 2
      /\ TypeIds["div"] = 3 /\ TypeIds["mod"] = 4 /\ TypeIds["cmp"] = 5
  BY DEF TypeIds
<1>3. /\ DOMAIN SignedNames = 1 .. 7
      /\ SignedNames[1] = "add" /\ SignedNames[2] = "sub" /\ SignedNames[3] = "mul"
      /\ SignedNames[4] = "div" /\ SignedNames[5] = "mod" /\ SignedNames[6] = "cmp"
  BY DEF SignedNames, TypeNames
<1> QED
  BY <1>1, <1>2, <1>3

LEMMA FromAgrees ==
    ASSUME NEW first \in Nat, NEW ids, NEW names, NEW sign, DOMAIN names \subseteq Nat,
           \A n \in DOMAIN ids : \E i \in DOMAIN names : names[i] = n /\ ids[n] = i - 1
    PROVE  InfosFrom(first, ids, sign) \subseteq CodesFrom(first, names, sign)
<1> SUFFICES ASSUME NEW n \in DOMAIN ids, NEW k \in DOMAIN OperandSizes
             PROVE  [name |-> n, size |-> OperandSizes[k], sign |-> sign,
                     code |-> first + (k - 1) * CodeStride + ids[n]]
                        \in CodesFrom(first, names, sign)
  BY DEF InfosFrom
<1>1. PICK i \in DOMAIN names : names[i] = n /\ ids[n] = i - 1
  OBVIOUS
<1>2. first + (k - 1) * CodeStride + ids[n] = first + (k - 1) * CodeStride + i - 1
  <2>1. (k - 1) * CodeStride \in Int /\ i \in Nat
    BY IsaConstants
  <2> QED BY <1>1, <2>1
<1> QED
  BY <1>1, <1>2 DEF CodesFrom

(***************************************************************************)
(* The instructions of the compiler's table are instructions of the        *)
(* machine, with the codes they have there.                                *)
(***************************************************************************)
LEMMA TablesAgree ==
    InstInfos \subseteq Instructions
<1>1. { [name |-> n, size |-> 0, sign |-> "", code |-> SystemIds[n]] : n \in DOMAIN SystemIds }
        \subseteq { [name |-> SystemNames[i], size |-> 0, sign |-> "", code |-> i - 1] :
                        i \in DOMAIN SystemNames }
  BY SystemPlaces
<1>2. InfosFrom(SizeCodes, SizeIds, "") \subseteq CodesFrom(SizeCodes, SizeNames, "")
  <2>1. SizeCodes \in Nat /\ DOMAIN SizeNames \subseteq Nat
    BY IsaConstants DEF SizeNames
  <2> QED BY <2>1, SizePlaces, FromAgrees
<1>3. InfosFrom(UnsignedCodes, TypeIds, "u") \subseteq CodesFrom(UnsignedCodes, TypeNames, "u")
  <2>1. UnsignedCodes \in Nat /\ DOMAIN TypeNames \subseteq Nat
    BY IsaConstants DEF TypeNames
  <2> QED BY <2>1, TypePlaces, FromAgrees
<1>4. InfosFrom(SignedCodes, TypeIds, "i") \subseteq CodesFrom(SignedCodes, SignedNames, "i")
  <2>1. SignedCodes \in Nat /\ DOMAIN SignedNames \subseteq Nat
    BY IsaConstants DEF SignedNames, TypeNames
  <2> QED BY <2>1, TypePlaces, FromAgrees
<1> QED
  BY <1>1, <1>2, <1>3, <1>4 DEF InstInfos, Instructions

-----------------------------------------------------------------------------
(* The functions of a program as a sequence. *)

Scoped(fs) ==
    /\ IsFiniteSet(fs)
    /\ \A f \in fs : f.scope \in Nat
    /\ \A f, g \in fs : f # g => f.scope # g.scope

IsOrder(s, fs) ==
    /\ s \in [1 .. Cardinality(fs) -> fs]
    /\ \A f \in fs : \E i \in DOMAIN s : s[i] = f
    /\ \A i, j \in DOMAIN s : i < j => s[i].scope < s[j].scope

(***************************************************************************)
(* The functions of a finite set can be put in the order of their scopes:  *)
(* the one with the least scope first, then the others.                    *)
(***************************************************************************)
LEMMA LeastFirst ==
    ASSUME NEW fs, Scoped(fs), NEW f \in fs, \A g \in fs : f.scope <= g.scope,
           NEW n \in Nat, Cardinality(fs) = n + 1,
           NEW r, IsOrder(r, fs \ {f}), Cardinality(fs \ {f}) = n
    PROVE  \E s : IsOrder(s, fs)
<1> DEFINE s == [i \in 1 .. n + 1 |-> IF i = 1 THEN f ELSE r[i - 1]]
<1>1. r \in [1 .. n -> fs \ {f}]
  BY DEF IsOrder
<1>2. s[1] = f /\ \A i \in 2 .. n + 1 : s[i] = r[i - 1]
  OBVIOUS
<1>3. s \in [1 .. n + 1 -> fs]
  BY <1>1
<1> HIDE DEF s
<1>4. ASSUME NEW g \in fs PROVE \E i \in 1 .. n + 1 : s[i] = g
  <2>1. CASE g = f
    BY <1>2, <2>1
  <2>2. CASE g # f
    <3>1. PICK i \in 1 .. n : r[i] = g
      BY <2>2, <1>1 DEF IsOrder
    <3>2. i + 1 \in 2 .. n + 1 /\ (i + 1) - 1 = i
      OBVIOUS
    <3> QED BY <3>1, <3>2, <1>2
  <2> QED BY <2>1, <2>2
<1>5. ASSUME NEW i \in 1 .. n + 1, NEW j \in 1 .. n + 1, i < j
      PROVE  s[i].scope < s[j].scope
  <2>1. j \in 2 .. n + 1 /\ j - 1 \in 1 .. n /\ s[j] = r[j - 1] /\ s[j] \in fs \ {f}
    BY <1>1, <1>2, <1>5
  <2>2. CASE i = 1
    <3>1. f.scope <= s[j].scope /\ f.scope # s[j].scope
      BY <2>1 DEF Scoped
    <3>2. f.scope \in Nat /\ s[j].scope \in Nat
      BY <2>1 DEF Scoped
    <3> QED BY <2>2, <3>1, <3>2, <1>2
  <2>3. CASE i # 1
    <3>1. i \in 2 .. n + 1 /\ i - 1 \in 1 .. n /\ i - 1 < j - 1
      BY <2>3, <1>5
    <3>2. r[i - 1].scope < r[j - 1].scope
      <4>1. DOMAIN r = 1 .. n
        BY <1>1
      <4> QED BY <3>1, <2>1, <4>1 DEF IsOrder
    <3> QED BY <3>1, <3>2, <2>1, <1>2
  <2> QED BY <2>2, <2>3
<1>6. IsOrder(s, fs)
  BY <1>3, <1>4, <1>5 DEF IsOrder
<1> QED
  BY <1>6

\* Functions of different scopes can be put in the order of their scopes.
LEMMA OrderExists ==
    ASSUME NEW fs, Scoped(fs)
    PROVE  \E s : IsOrder(s, fs)
<1> DEFINE S == {n \in Nat : \A gs : Scoped(gs) /\ Cardinality(gs) = n => \E s : IsOrder(s, gs)}
<1>1. 0 \in S
  <2> SUFFICES ASSUME NEW gs, Scoped(gs), Cardinality(gs) = 0 PROVE \E s : IsOrder(s, gs)
    OBVIOUS
  <2>1. gs = {}
    BY FS_EmptySet DEF Scoped
  <2>2. <<>> \in [1 .. 0 -> {}] /\ DOMAIN <<>> = 1 .. 0
    OBVIOUS
  <2>3. IsOrder(<<>>, gs)
    BY <2>1, <2>2 DEF IsOrder
  <2> QED BY <2>3
<1>2. ASSUME NEW n \in Nat, n \in S PROVE n + 1 \in S
  <2> SUFFICES ASSUME NEW gs, Scoped(gs), Cardinality(gs) = n + 1
               PROVE  \E s : IsOrder(s, gs)
    OBVIOUS
  <2>1. gs # {}
    BY FS_EmptySet
  <2> DEFINE T == {f.scope : f \in gs}
  <2>2. PICK x \in T : \A y \in T : x <= y
    <3>1. T \in SUBSET Nat /\ T # {}
      BY <2>1 DEF Scoped
    <3> HIDE DEF T
    <3> QED BY <3>1, LeastElement
  <2>3. PICK f \in gs : \A g \in gs : f.scope <= g.scope
    BY <2>2
  <2>4. IsFiniteSet(gs \ {f}) /\ Cardinality(gs \ {f}) = n
    <3>1. IsFiniteSet(gs) /\ f \in gs
      BY DEF Scoped
    <3>2. IsFiniteSet(gs \ {f}) /\ Cardinality(gs \ {f}) = Cardinality(gs) - 1
      BY <3>1, FS_RemoveElement
    <3> QED BY <3>2
  <2>5. Scoped(gs \ {f})
    BY <2>4 DEF Scoped
  <2>6. PICK r : IsOrder(r, gs \ {f})
    BY <1>2, <2>4, <2>5
  <2> QED BY <2>3, <2>4, <2>6, LeastFirst
<1>3. Cardinality(fs) \in Nat
  BY FS_CardinalityType DEF Scoped
<1>4. Cardinality(fs) \in S
  <2> HIDE DEF S
  <2> QED BY <1>1, <1>2, <1>3, SetInduction
<1> QED
  BY <1>4

LEMMA InOrderIsOrder ==
    ASSUME NEW fs, Scoped(fs)
    PROVE  IsOrder(InOrder(fs), fs)
<1>1. \E s \in [1 .. Cardinality(fs) -> fs] :
        /\ \A f \in fs : \E i \in DOMAIN s : s[i] = f
        /\ \A i, j \in DOMAIN s : i < j => s[i].scope < s[j].scope
  BY OrderExists DEF IsOrder
<1> QED
  BY <1>1, Zenon DEF InOrder, IsOrder

-----------------------------------------------------------------------------
(* The bytes of one instruction. *)

LEMMA Sizes ==
    /\ Byte \in Nat /\ Byte >= 64
    /\ Word \in Nat /\ Word >= InstSize
    /\ InstSize \in Nat /\ InstSize >= 2 /\ InstSize - 1 \in Nat
    /\ RegistersSize \in Nat
BY IsaConstants

(***************************************************************************)
(* CodeOf finds the instruction in the compiler's table; the machine has it*)
(* under the same code.                                                    *)
(***************************************************************************)
LEMMA CodeKnown ==
    ASSUME NEW inst, InTable(inst)
    PROVE  \E known \in Instructions :
              /\ known.name = inst.name /\ known.size = inst.size /\ known.sign = inst.sign
              /\ known.code = CodeOf(inst.name, inst.size, inst.sign)
              /\ known.code \in 0 .. Span(InstSize - 1) - 1
<1> DEFINE Known(i) == i.name = inst.name /\ i.size = inst.size /\ i.sign = inst.sign
           known == CHOOSE i \in InstInfos : Known(i)
<1>1. \E i \in InstInfos : Known(i)
  BY DEF InTable
<1>2. known \in InstInfos /\ Known(known)
  BY <1>1
<1>3. known \in Instructions
  BY <1>2, TablesAgree
<1>4. CodeOf(inst.name, inst.size, inst.sign) = known.code
  BY DEF CodeOf
<1> HIDE DEF known
<1> QED
  BY <1>2, <1>3, <1>4, CodesFit

\* The mask of an instruction: calls have none.
MaskOf(inst) == IF inst \in Others THEN Mask(inst.args) ELSE 0

\* Kinds are two bits.
LEMMA ArgKinds ==
    ASSUME NEW inst \in Others
    PROVE  /\ \A k \in Nat : ArgKind(inst.args, k) \in 0 .. 3
           /\ inst.size \in Nat
<1>1. inst.args \in Seq(Operands) /\ inst.size \in Nat
  BY DEF Others
<1>2. \A arg \in Operands : arg.kind \in 0 .. 3
  BY DEF Operands, Empty, Relative, RelativeWithDiff, Fixed
<1> QED
  BY <1>1, <1>2 DEF ArgKind, Empty

LEMMA MaskRange ==
    ASSUME NEW inst
    PROVE  /\ MaskOf(inst) \in 0 .. 63
           /\ inst \in Others => \A k \in 1 .. 3 :
                 (MaskOf(inst) \div <<1, 4, 16>>[k]) % 4 = ArgKind(inst.args, k)
<1>1. CASE inst \in Others
  <2> DEFINE a == ArgKind(inst.args, 1)
             b == ArgKind(inst.args, 2)
             c == ArgKind(inst.args, 3)
  <2>1. a \in 0 .. 3 /\ b \in 0 .. 3 /\ c \in 0 .. 3
    BY <1>1, ArgKinds
  <2>2. MaskOf(inst) = a + 4 * b + 16 * c
    BY <1>1 DEF MaskOf, Mask
  <2> HIDE DEF a, b, c
  <2>3. MaskOf(inst) \in 0 .. 63
    BY <2>1, <2>2
  <2>4. (MaskOf(inst) \div 1) % 4 = a
    BY <2>1, <2>2
  <2>5. (MaskOf(inst) \div 4) % 4 = b
    BY <2>1, <2>2
  <2>6. (MaskOf(inst) \div 16) % 4 = c
    BY <2>1, <2>2
  <2> QED BY <2>3, <2>4, <2>5, <2>6 DEF a, b, c
<1>2. CASE inst \notin Others
  BY <1>2 DEF MaskOf
<1> QED
  BY <1>1, <1>2

(***************************************************************************)
(* Code and mask can be taken apart again: the code is what the lower bytes*)
(* make, the mask is the last one.                                         *)
(***************************************************************************)
LEMMA CodeAndMask ==
    ASSUME NEW code \in 0 .. Span(InstSize - 1) - 1, NEW mask \in 0 .. 63
    PROVE  /\ code + mask * Span(InstSize - 1) \in Nat
           /\ (code + mask * Span(InstSize - 1)) % Span(InstSize - 1) = code
           /\ Part(code + mask * Span(InstSize - 1), InstSize - 1) = mask
<1> DEFINE unit == Span(InstSize - 1)
           v == code + mask * unit
<1>1. unit \in Nat \ {0}
  BY SpanFacts, Sizes
<1>2. code \in Int /\ mask \in Int /\ code \in 0 .. unit - 1
  OBVIOUS
<1> HIDE DEF unit
<1>3. v \in Nat
  BY <1>1, <1>2
<1>4. v = unit * mask + code
  BY <1>1, <1>2
<1>5. v \div unit = mask /\ v % unit = code
  BY <1>1, <1>2, <1>4, DivUnique
<1>6. mask % Byte = mask
  BY Sizes
<1> QED
  BY <1>3, <1>5, <1>6 DEF Part, unit

LEMMA OperandBytesLength ==
    ASSUME NEW arg \in Operands, NEW size \in Nat
    PROVE  /\ OperandBytes(arg, size) \in Seq(Bytes)
           /\ Len(OperandBytes(arg, size)) = Width(arg.kind, size)
<1> USE DEF Empty, Relative, RelativeWithDiff, Fixed
<1>1. \A v \in Int, n \in Nat : Little(v, n) \in Seq(Bytes) /\ Len(Little(v, n)) = n
  BY LittleBytes
<1>2. CASE arg \in [kind : {Empty}]
  BY <1>2 DEF OperandBytes, Width
<1>3. CASE arg \in [kind : {Relative}, base : Int]
  <2>1. arg.kind = Relative /\ arg.base \in Int
    BY <1>3
  <2> QED BY <1>1, <2>1, Sizes DEF OperandBytes, Width
<1>4. CASE arg \in [kind : {Fixed}, value : Int]
  <2>1. arg.kind = Fixed /\ arg.value \in Int
    BY <1>4
  <2> QED BY <1>1, <2>1 DEF OperandBytes, Width
<1>5. CASE arg \in [kind : {RelativeWithDiff}, base : Int, value : Int]
  <2>1. arg.kind = RelativeWithDiff /\ arg.base \in Int /\ arg.value \in Int
    BY <1>5
  <2> DEFINE p == Little(arg.base, Word)
             q == Little(arg.value, Word)
  <2>2. p \in Seq(Bytes) /\ q \in Seq(Bytes) /\ Len(p) = Word /\ Len(q) = Word
    BY <1>1, <2>1, Sizes
  <2>3. OperandBytes(arg, size) = p \o q /\ Width(arg.kind, size) = 2 * Word
    BY <2>1 DEF OperandBytes, Width
  <2> HIDE DEF p, q
  <2>4. p \o q \in Seq(Bytes) /\ Len(p \o q) = 2 * Word
    BY <2>2, Sizes
  <2> QED BY <2>3, <2>4
<1> QED
  BY <1>2, <1>3, <1>4, <1>5 DEF Operands

LEMMA ArgBytesLength ==
    ASSUME NEW inst \in Others, NEW k \in Nat
    PROVE  /\ ArgBytes(inst, k) \in Seq(Bytes)
           /\ Len(ArgBytes(inst, k)) = Width(ArgKind(inst.args, k), inst.size)
<1>1. inst.args \in Seq(Operands) /\ inst.size \in Nat
  BY DEF Others
<1>2. CASE k \in DOMAIN inst.args
  <2>1. inst.args[k] \in Operands
    BY <1>1, <1>2
  <2> QED BY <1>1, <1>2, <2>1, OperandBytesLength DEF ArgBytes, ArgKind
<1>3. CASE k \notin DOMAIN inst.args
  <2>1. ArgBytes(inst, k) = <<>> /\ ArgKind(inst.args, k) = Empty
    BY <1>3 DEF ArgBytes, ArgKind
  <2>2. Width(Empty, inst.size) = 0
    BY DEF Width, Empty, Relative, RelativeWithDiff, Fixed
  <2>3. <<>> \in Seq(Bytes) /\ Len(<<>>) = 0
    OBVIOUS
  <2> QED BY <2>1, <2>2, <2>3
<1> QED
  BY <1>2, <1>3

LEMMA ConcatElements ==
    ASSUME NEW E, NEW s \in Seq(E), NEW t \in Seq(E)
    PROVE  /\ s \o t \in Seq(E) /\ Len(s \o t) = Len(s) + Len(t)
           /\ \A i \in 1 .. Len(s) + Len(t) :
                 (s \o t)[i] = IF i <= Len(s) THEN s[i] ELSE t[i - Len(s)]
OBVIOUS

LEMMA SameElements ==
    ASSUME NEW E, NEW s \in Seq(E), NEW t \in Seq(E), Len(s) = Len(t),
           \A i \in 1 .. Len(s) : s[i] = t[i]
    PROVE  s = t
OBVIOUS

Associates(s, t, u) == (s \o t) \o u = s \o (t \o u)

LEMMA ConcatThree ==
    ASSUME NEW E, NEW s \in Seq(E), NEW t \in Seq(E), NEW u \in Seq(E)
    PROVE  Associates(s, t, u)
<1> DEFINE st == s \o t
           tu == t \o u
           left == st \o u
           right == s \o tu
           a == Len(s)
           b == Len(t)
           c == Len(u)
<1>1. /\ st \in Seq(E) /\ Len(st) = a + b
      /\ \A i \in 1 .. a + b : st[i] = IF i <= a THEN s[i] ELSE t[i - a]
  BY ConcatElements
<1>2. /\ tu \in Seq(E) /\ Len(tu) = b + c
      /\ \A i \in 1 .. b + c : tu[i] = IF i <= b THEN t[i] ELSE u[i - b]
  BY ConcatElements
<1>3. a \in Nat /\ b \in Nat /\ c \in Nat
  OBVIOUS
<1>0. \A x \in Seq(E), y \in Seq(E) :
         /\ x \o y \in Seq(E) /\ Len(x \o y) = Len(x) + Len(y)
         /\ \A i \in 1 .. Len(x) + Len(y) :
               (x \o y)[i] = IF i <= Len(x) THEN x[i] ELSE y[i - Len(x)]
  BY ConcatElements
<1>t. st \in Seq(E) /\ tu \in Seq(E)
  BY <1>1, <1>2
<1> HIDE DEF st, tu
<1>4. /\ left \in Seq(E) /\ Len(left) = Len(st) + c
      /\ \A i \in 1 .. Len(st) + c :
            left[i] = IF i <= Len(st) THEN st[i] ELSE u[i - Len(st)]
  BY <1>t, <1>0, Zenon
<1>5. /\ right \in Seq(E) /\ Len(right) = a + Len(tu)
      /\ \A i \in 1 .. a + Len(tu) : right[i] = IF i <= a THEN s[i] ELSE tu[i - a]
  BY <1>t, <1>0, Zenon
<1> HIDE DEF left, right, a, b, c
<1>6. Len(left) = a + b + c /\ Len(right) = a + b + c
  BY <1>1, <1>2, <1>3, <1>4, <1>5
<1>7. ASSUME NEW i \in 1 .. a + b + c
      PROVE  left[i] = right[i]
  <2>1. CASE i <= a
    <3>1. /\ i \in 1 .. a + Len(tu) /\ i \in 1 .. Len(st) + c /\ i \in 1 .. a + b
          /\ i <= Len(st)
      BY <1>1, <1>2, <1>3, <2>1
    <3>2. right[i] = s[i]
      BY <1>5, <2>1, <3>1, Zenon
    <3>3. st[i] = s[i]
      BY <1>1, <2>1, <3>1, Zenon
    <3>4. left[i] = st[i]
      BY <1>4, <3>1, Zenon
    <3> QED BY <3>2, <3>3, <3>4, Zenon
  <2>2. CASE i > a /\ i <= a + b
    <3>1. /\ i \in 1 .. a + Len(tu) /\ i \in 1 .. Len(st) + c /\ i \in 1 .. a + b
          /\ i <= Len(st) /\ ~(i <= a) /\ i - a \in 1 .. b + c /\ i - a <= b
      BY <1>1, <1>2, <1>3, <2>2
    <3>2. right[i] = tu[i - a]
      BY <1>5, <3>1, Zenon
    <3>3. tu[i - a] = t[i - a]
      BY <1>2, <3>1, Zenon
    <3>4. st[i] = t[i - a]
      BY <1>1, <3>1, Zenon
    <3>5. left[i] = st[i]
      BY <1>4, <3>1, Zenon
    <3> QED BY <3>2, <3>3, <3>4, <3>5, Zenon
  <2>3. CASE i > a + b
    <3>1. i - a \in 1 .. b + c /\ ~(i - a <= b) /\ (i - a) - b = i - (a + b) /\ ~(i <= a)
      BY <1>3, <2>3
    <3>2. i \in 1 .. a + Len(tu) /\ i \in 1 .. Len(st) + c /\ ~(i <= Len(st)) /\ Len(st) = a + b
      BY <1>1, <1>2, <1>3, <2>3
    <3>3. right[i] = tu[i - a]
      BY <1>5, <3>1, <3>2, Zenon
    <3>4. tu[i - a] = u[(i - a) - b]
      BY <1>2, <3>1, Zenon
    <3>5. left[i] = u[i - Len(st)]
      BY <1>4, <3>2, Zenon
    <3> QED BY <3>1, <3>2, <3>3, <3>4, <3>5, Zenon
  <2> QED BY <1>3, <2>1, <2>2, <2>3
<1>8. left = right
  BY <1>4, <1>5, <1>6, <1>7, SameElements
<1> QED
  BY <1>8, Zenon DEF left, right, st, tu, Associates

Regrouped(s, t, u, v) == ((s \o t) \o u) \o v = s \o ((t \o u) \o v)

LEMMA ConcatFour ==
    ASSUME NEW E, NEW s \in Seq(E), NEW t \in Seq(E), NEW u \in Seq(E), NEW v \in Seq(E)
    PROVE  /\ Regrouped(s, t, u, v)
           /\ (t \o u) \o v \in Seq(E)
           /\ Len((t \o u) \o v) = Len(t) + Len(u) + Len(v)
<1> DEFINE tu == t \o u
           st == s \o t
           stu == st \o u
           tuv == tu \o v
<1>1. tu \in Seq(E) /\ Len(tu) = Len(t) + Len(u)
  BY ConcatElements
<1>0. Associates(s, t, u) /\ \A x \in Seq(E) : Associates(s, x, v)
  BY ConcatThree
<1>2. stu = s \o tu
  BY <1>0, Zenon DEF Associates
<1> HIDE DEF tu, stu
<1>3. (s \o tu) \o v = s \o (tu \o v)
  BY <1>1, <1>0, Zenon DEF Associates
<1>4. tuv \in Seq(E) /\ Len(tuv) = Len(tu) + Len(v)
  BY <1>1, ConcatElements
<1>5. stu \o v = s \o tuv
  BY <1>2, <1>3
<1> QED
  BY <1>1, <1>4, <1>5 DEF tu, stu, Regrouped

(***************************************************************************)
(* An instruction begins with its code and mask and has the length the     *)
(* properties count for it.                                                *)
(***************************************************************************)
LEMMA CodeBytesFacts ==
    ASSUME NEW inst, InTable(inst), NEW mask \in 0 .. 63
    PROVE  /\ CodeBytes(inst, mask) \in Seq(Bytes)
           /\ Len(CodeBytes(inst, mask)) = InstSize
           /\ Value(CodeBytes(inst, mask), 0, InstSize - 1) = CodeOf(inst.name, inst.size, inst.sign)
           /\ CodeBytes(inst, mask)[InstSize] = mask
<1> DEFINE code == CodeOf(inst.name, inst.size, inst.sign)
           v == code + mask * Span(InstSize - 1)
<1>1. code \in 0 .. Span(InstSize - 1) - 1
  BY CodeKnown
<1> HIDE DEF code
<1>2. v \in Nat /\ v % Span(InstSize - 1) = code /\ Part(v, InstSize - 1) = mask
  BY <1>1, CodeAndMask
<1>3. CodeBytes(inst, mask) = Little(v, InstSize)
  BY DEF CodeBytes, code
<1> HIDE DEF v
<1>4. /\ Little(v, InstSize) \in Seq(Bytes) /\ Len(Little(v, InstSize)) = InstSize
      /\ Little(v, InstSize)[InstSize] = Part(v, InstSize - 1)
  <2>1. v \in Int /\ InstSize \in Nat /\ InstSize \in 1 .. InstSize
    BY <1>2, Sizes
  <2> QED BY <2>1, LittleBytes
<1>5. Value(Little(v, InstSize), 0, InstSize - 1) = v % Span(InstSize - 1)
  <2>1. Lies(Little(v, InstSize), 0, Little(v, InstSize))
    BY <1>4, Sizes DEF Lies
  <2>2. 0 \in Nat /\ InstSize - 1 \in 0 .. InstSize
    BY Sizes
  <2> QED BY <1>2, <2>1, <2>2, Sizes, ValueOfLittle
<1> QED
  BY <1>2, <1>3, <1>4, <1>5 DEF code

\* Every line is of one of the four kinds.
LEMMA LinesSplit ==
    ASSUME NEW line \in Lines
    PROVE  \/ IsLabel(line) /\ line \in Labels /\ line \notin Fcalls \cup Ncalls
           \/ /\ ~IsLabel(line) /\ InTable(line)
              /\ \/ line \in Fcalls /\ line.name = "fcall" /\ line \notin Ncalls \cup Others
                 \/ line \in Ncalls /\ line.name = "ncall" /\ line \notin Fcalls \cup Others
                 \/ /\ line \in Others /\ line \notin Fcalls \cup Ncalls
                    /\ line.name # "fcall" /\ line.name # "ncall"
<1>1. CASE line \in Labels
  <2>1. DOMAIN line = {"label"}
    BY <1>1 DEF Labels
  <2>2. line \notin Fcalls \cup Ncalls
    BY <2>1 DEF Fcalls, Ncalls
  <2> QED BY <1>1, <2>1, <2>2 DEF IsLabel
<1>2. CASE line \in Fcalls
  <2>1. DOMAIN line = {"name", "size", "sign", "target"} /\ line.name = "fcall"
    BY <1>2 DEF Fcalls
  <2>2. line \notin Labels /\ ~IsLabel(line)
    BY <2>1 DEF Labels, IsLabel
  <2> QED BY <1>2, <2>1, <2>2 DEF Lines, Ncalls, Others
<1>3. CASE line \in Ncalls
  <2>1. DOMAIN line = {"name", "size", "sign", "key"} /\ line.name = "ncall"
    BY <1>3 DEF Ncalls
  <2>2. line \notin Labels /\ ~IsLabel(line)
    BY <2>1 DEF Labels, IsLabel
  <2> QED BY <1>3, <2>1, <2>2 DEF Lines, Fcalls, Others
<1>4. CASE line \in Others
  <2>1. DOMAIN line = {"name", "size", "sign", "args"} /\ line.name \notin {"fcall", "ncall"}
    BY <1>4 DEF Others
  <2>2. line \notin Labels /\ ~IsLabel(line)
    BY <2>1 DEF Labels, IsLabel
  <2> QED BY <1>4, <2>1, <2>2 DEF Lines, Fcalls, Ncalls
<1> QED
  BY <1>1, <1>2, <1>3, <1>4 DEF Lines

\* An instruction has the length counted for it and begins with its code.
LEMMA InstBytesFacts ==
    ASSUME NEW inst \in Lines, ~IsLabel(inst)
    PROVE  /\ InstBytes(inst) \in Seq(Bytes)
           /\ Len(InstBytes(inst)) = LineLength(inst)
           /\ Lies(InstBytes(inst), 0, CodeBytes(inst, MaskOf(inst)))
           /\ inst \in Fcalls => LineLength(inst) = InstSize + Word
           /\ LineLength(inst) >= InstSize
<1> DEFINE c == CodeBytes(inst, MaskOf(inst))
<1>0. /\ InTable(inst)
      /\ \/ inst \in Fcalls /\ inst.name = "fcall" /\ inst \notin Ncalls \cup Others
         \/ inst \in Ncalls /\ inst.name = "ncall" /\ inst \notin Fcalls \cup Others
         \/ /\ inst \in Others /\ inst \notin Fcalls \cup Ncalls
            /\ inst.name # "fcall" /\ inst.name # "ncall"
  BY LinesSplit
<1>1. c \in Seq(Bytes) /\ Len(c) = InstSize
  <2>1. MaskOf(inst) \in 0 .. 63
    BY MaskRange
  <2> QED BY <1>0, <2>1, CodeBytesFacts
<1>2. ASSUME NEW rest \in Seq(Bytes), InstBytes(inst) = c \o rest,
             LineLength(inst) = InstSize + Len(rest)
      PROVE  /\ InstBytes(inst) \in Seq(Bytes)
             /\ Len(InstBytes(inst)) = LineLength(inst)
             /\ Lies(InstBytes(inst), 0, c)
             /\ LineLength(inst) >= InstSize
  <2> HIDE DEF c
  <2> DEFINE b == c \o rest
  <2>1. b \in Seq(Bytes) /\ Len(b) = InstSize + Len(rest) /\ Len(rest) \in Nat
        /\ \A k \in 1 .. InstSize : b[k] = c[k]
    BY <1>1, Sizes
  <2> HIDE DEF b
  <2>2. \A k \in 1 .. InstSize : b[0 + k] = c[k]
    BY <2>1, Sizes
  <2>3. Lies(b, 0, c)
    BY <1>1, <2>2 DEF Lies
  <2>4. InstBytes(inst) = b
    BY <1>2 DEF b
  <2> QED BY <1>2, <2>1, <2>3, <2>4, Sizes
<1>3. CASE inst \in Fcalls
  <2>1. inst \notin Others /\ inst.name = "fcall"
    BY <1>3, <1>0
  <2>2. Little(0, Word) \in Seq(Bytes) /\ Len(Little(0, Word)) = Word
    BY LittleBytes, Sizes
  <2>3. InstBytes(inst) = c \o Little(0, Word)
    BY <2>1 DEF InstBytes, MaskOf
  <2>4. LineLength(inst) = InstSize + Word
    BY <1>3 DEF LineLength
  <2> QED BY <1>2, <2>2, <2>3, <2>4
<1>4. CASE inst \in Ncalls
  <2>1. inst \notin Others /\ inst.name = "ncall" /\ inst.key \in Nat /\ inst \notin Fcalls
    BY <1>4, <1>0 DEF Ncalls
  <2>2. Little(inst.key, Word) \in Seq(Bytes) /\ Len(Little(inst.key, Word)) = Word
    BY <2>1, LittleBytes, Sizes
  <2>3. InstBytes(inst) = c \o Little(inst.key, Word)
    BY <2>1 DEF InstBytes, MaskOf
  <2>4. LineLength(inst) = InstSize + Word
    BY <1>4 DEF LineLength
  <2> QED BY <1>2, <2>1, <2>2, <2>3, <2>4
<1>5. CASE inst \in Others
  <2>1. inst \notin Fcalls \cup Ncalls /\ inst.name # "fcall" /\ inst.name # "ncall"
    BY <1>5, <1>0
  <2> DEFINE p == ArgBytes(inst, 1)
             q == ArgBytes(inst, 2)
             r == ArgBytes(inst, 3)
             w(k) == Width(ArgKind(inst.args, k), inst.size)
  <2>2. /\ p \in Seq(Bytes) /\ q \in Seq(Bytes) /\ r \in Seq(Bytes)
        /\ Len(p) = w(1) /\ Len(q) = w(2) /\ Len(r) = w(3)
    BY <1>5, ArgBytesLength
  <2>3. InstBytes(inst) = ((c \o p) \o q) \o r
    BY <1>5, <2>1 DEF InstBytes, MaskOf
  <2>4. LineLength(inst) = InstSize + w(1) + w(2) + w(3)
    BY <2>1 DEF LineLength
  <2> HIDE DEF c, p, q, r, w
  <2>5. c \in Seq(Bytes) /\ p \in Seq(Bytes) /\ q \in Seq(Bytes) /\ r \in Seq(Bytes)
    BY <1>1, <2>2
  <2>6. ((c \o p) \o q) \o r = c \o ((p \o q) \o r)
    <3>1. Regrouped(c, p, q, r)
      BY <2>5, ConcatFour
    <3> QED BY <3>1, Zenon DEF Regrouped
  <2>7. (p \o q) \o r \in Seq(Bytes) /\ Len((p \o q) \o r) = Len(p) + Len(q) + Len(r)
    BY <2>5, ConcatFour
  <2>8. LineLength(inst) = InstSize + Len((p \o q) \o r)
    <3> DEFINE n == Len((p \o q) \o r)
    <3>1. n = w(1) + w(2) + w(3) /\ w(1) \in Nat /\ w(2) \in Nat /\ w(3) \in Nat
      BY <2>2, <2>7
    <3> HIDE DEF n
    <3> QED BY <2>4, <3>1, Sizes DEF n
  <2>9. InstBytes(inst) = c \o ((p \o q) \o r)
    BY <2>3, <2>6
  <2> QED BY <1>2, <2>1, <2>7, <2>8, <2>9 DEF c
<1> QED
  BY <1>3, <1>4, <1>5, <1>0

-----------------------------------------------------------------------------
(* The layout of a program as it grows. *)

LabelMaps == UNION { [D -> Nat] : D \in SUBSET STRING }
Hints == [name : STRING, offset : Nat]
Layouts == [bytes : Seq(Bytes), labels : LabelMaps, hints : Seq(Hints), starts : SUBSET Nat]

\* The words that are still to be filled in lie behind the first word, inside
\* the code, and apart from each other.
Sound(acc) ==
    /\ \A q \in DOMAIN acc.hints : /\ acc.hints[q].offset >= Word
                                  /\ acc.hints[q].offset + Word <= Len(acc.bytes)
    /\ \A p, q \in DOMAIN acc.hints : p < q => acc.hints[p].offset + Word <= acc.hints[q].offset

SoundLayouts == { acc \in Layouts : Sound(acc) }

\* Those that have their first word already.
Begun == { acc \in SoundLayouts : Len(acc.bytes) >= Word }

\* What is in a layout stays; later words to be filled in lie behind it.
Grows(a, b) ==
    /\ Len(a.bytes) <= Len(b.bytes)
    /\ \A x \in 1 .. Len(a.bytes) : b.bytes[x] = a.bytes[x]
    /\ \A n \in DOMAIN a.labels : n \in DOMAIN b.labels /\ b.labels[n] = a.labels[n]
    /\ Len(a.hints) <= Len(b.hints)
    /\ \A q \in 1 .. Len(a.hints) : b.hints[q] = a.hints[q]
    /\ \A q \in Len(a.hints) + 1 .. Len(b.hints) : b.hints[q].offset >= Len(a.bytes)

LEMMA LayoutFields ==
    ASSUME NEW acc \in Layouts
    PROVE  /\ acc.bytes \in Seq(Bytes) /\ Len(acc.bytes) \in Nat
           /\ acc.labels \in LabelMaps
           /\ acc.hints \in Seq(Hints) /\ Len(acc.hints) \in Nat
           /\ acc.starts \in SUBSET Nat
           /\ DOMAIN acc.hints = 1 .. Len(acc.hints)
           /\ \A q \in 1 .. Len(acc.hints) : acc.hints[q].offset \in Nat
<1>1. /\ acc.bytes \in Seq(Bytes) /\ acc.labels \in LabelMaps
      /\ acc.hints \in Seq(Hints) /\ acc.starts \in SUBSET Nat
  BY DEF Layouts
<1>2. \A h \in Hints : h.offset \in Nat
  BY DEF Hints
<1> QED
  BY <1>1, <1>2

LEMMA GrowsReflexive ==
    ASSUME NEW a \in Layouts
    PROVE  Grows(a, a)
BY LayoutFields DEF Grows

LEMMA GrowsTransitive ==
    ASSUME NEW a \in Layouts, NEW b \in Layouts, NEW c \in Layouts, Grows(a, b), Grows(b, c)
    PROVE  Grows(a, c)
<1> USE LayoutFields
<1>1. Len(a.bytes) <= Len(c.bytes) /\ Len(a.hints) <= Len(c.hints)
  BY DEF Grows
<1>2. \A x \in 1 .. Len(a.bytes) : c.bytes[x] = a.bytes[x]
  BY DEF Grows
<1>3. \A n \in DOMAIN a.labels : n \in DOMAIN c.labels /\ c.labels[n] = a.labels[n]
  BY DEF Grows
<1>4. \A q \in 1 .. Len(a.hints) : c.hints[q] = a.hints[q]
  BY DEF Grows
<1>5. ASSUME NEW q \in Len(a.hints) + 1 .. Len(c.hints)
      PROVE  c.hints[q].offset >= Len(a.bytes)
  <2>1. CASE q \in Len(a.hints) + 1 .. Len(b.hints)
    <3>1. q \in 1 .. Len(b.hints)
      BY <2>1
    <3> QED BY <2>1, <3>1 DEF Grows
  <2>2. CASE q \in Len(b.hints) + 1 .. Len(c.hints)
    <3>1. c.hints[q].offset >= Len(b.bytes) /\ Len(b.bytes) >= Len(a.bytes)
      BY <2>2 DEF Grows
    <3>2. c.hints[q].offset \in Nat
      BY <2>2
    <3> QED BY <3>1, <3>2
  <2> QED BY <2>1, <2>2
<1> QED
  BY <1>1, <1>2, <1>3, <1>4, <1>5 DEF Grows

\* emplace adds a name, and keeps those there are.
LEMMA EmplaceFacts ==
    ASSUME NEW labels \in LabelMaps, NEW name \in STRING, NEW offset \in Nat
    PROVE  /\ Emplace(labels, name, offset) \in LabelMaps
           /\ DOMAIN Emplace(labels, name, offset) = DOMAIN labels \cup {name}
           /\ \A n \in DOMAIN labels : Emplace(labels, name, offset)[n] = labels[n]
           /\ name \notin DOMAIN labels => Emplace(labels, name, offset)[name] = offset
<1>1. PICK D \in SUBSET STRING : labels \in [D -> Nat]
  BY DEF LabelMaps
<1>2. DOMAIN labels = D
  BY <1>1
<1>3. CASE name \in D
  BY <1>1, <1>2, <1>3 DEF Emplace
<1>4. CASE name \notin D
  <2> DEFINE map == [n \in D \cup {name} |-> IF n = name THEN offset ELSE labels[n]]
  <2>1. Emplace(labels, name, offset) = map
    BY <1>2, <1>4 DEF Emplace
  <2>2. map \in [D \cup {name} -> Nat] /\ D \cup {name} \in SUBSET STRING
    BY <1>1
  <2>3. map \in LabelMaps
    BY <2>2 DEF LabelMaps
  <2>4. DOMAIN map = D \cup {name} /\ map[name] = offset /\ \A n \in D : map[n] = labels[n]
    BY <1>4
  <2> HIDE DEF map
  <2> QED BY <1>2, <2>1, <2>3, <2>4
<1> QED
  BY <1>3, <1>4

LEMMA AddLabelFacts ==
    ASSUME NEW acc \in Layouts, NEW line \in Lines, IsLabel(line)
    PROVE  /\ AddLine(acc, line) \in Layouts
           /\ AddLine(acc, line).bytes = acc.bytes
           /\ AddLine(acc, line).hints = acc.hints
           /\ AddLine(acc, line).labels = Emplace(acc.labels, line.label, Len(acc.bytes))
           /\ line.label \in STRING
<1> DEFINE map == Emplace(acc.labels, line.label, Len(acc.bytes))
<1>1. line.label \in STRING
  BY LinesSplit DEF Labels
<1>2. map \in LabelMaps
  BY <1>1, LayoutFields, EmplaceFacts
<1> HIDE DEF map
<1>3. AddLine(acc, line) = [acc EXCEPT !.labels = map]
  BY DEF AddLine, map
<1>4. AddLine(acc, line) \in Layouts
  BY <1>2, <1>3 DEF Layouts
<1>5. /\ AddLine(acc, line).bytes = acc.bytes /\ AddLine(acc, line).hints = acc.hints
      /\ AddLine(acc, line).labels = map
  BY <1>3 DEF Layouts
<1> QED
  BY <1>1, <1>4, <1>5 DEF map

\* The word an fcall leaves to be filled in.
HintOf(acc, line) == [name |-> line.target, offset |-> Len(acc.bytes) + InstSize]

LEMMA AddInstFacts ==
    ASSUME NEW acc \in Layouts, NEW line \in Lines, ~IsLabel(line)
    PROVE  /\ AddLine(acc, line) \in Layouts
           /\ AddLine(acc, line).bytes = acc.bytes \o InstBytes(line)
           /\ AddLine(acc, line).labels = acc.labels
           /\ AddLine(acc, line).hints = IF line \in Fcalls THEN Append(acc.hints, HintOf(acc, line))
                                         ELSE acc.hints
           /\ line \in Fcalls => HintOf(acc, line) \in Hints
<1> DEFINE b == acc.bytes \o InstBytes(line)
           h == IF line \in Fcalls THEN Append(acc.hints, HintOf(acc, line)) ELSE acc.hints
           t == acc.starts \cup {Len(acc.bytes)}
<1>1. b \in Seq(Bytes) /\ t \in SUBSET Nat
  BY InstBytesFacts, LayoutFields
<1>2. line \in Fcalls => HintOf(acc, line) \in Hints
  <2>1. line \in Fcalls => line.target \in STRING
    BY DEF Fcalls
  <2>2. Len(acc.bytes) + InstSize \in Nat
    BY LayoutFields, Sizes
  <2> QED BY <2>1, <2>2 DEF HintOf, Hints
<1>3. h \in Seq(Hints)
  BY <1>2, LayoutFields
<1>4. AddLine(acc, line) = [acc EXCEPT !.bytes = b, !.starts = t, !.hints = h]
  <2>1. line.name = "fcall" <=> line \in Fcalls
    BY LinesSplit
  <2> QED BY <2>1 DEF AddLine, HintOf
<1> HIDE DEF b, h, t
<1>5. AddLine(acc, line) \in Layouts
  BY <1>1, <1>3, <1>4 DEF Layouts
<1>6. /\ AddLine(acc, line).bytes = b /\ AddLine(acc, line).labels = acc.labels
      /\ AddLine(acc, line).hints = h
  BY <1>4 DEF Layouts
<1> QED
  BY <1>2, <1>5, <1>6 DEF b, h

(***************************************************************************)
(* A line keeps the layout sound, adds to it, and adds as many bytes as the*)
(* properties count for it.                                                *)
(***************************************************************************)
LEMMA AddLineGrows ==
    ASSUME NEW acc \in Begun, NEW line \in Lines
    PROVE  /\ AddLine(acc, line) \in Begun
           /\ Grows(acc, AddLine(acc, line))
           /\ Len(AddLine(acc, line).bytes) = Len(acc.bytes) + LineLength(line)
           /\ LineLength(line) \in Nat
<1> DEFINE next == AddLine(acc, line)
<1>1. acc \in Layouts /\ Sound(acc) /\ Len(acc.bytes) >= Word
  BY DEF Begun, SoundLayouts
<1>2. CASE IsLabel(line)
  <2>1. /\ next \in Layouts /\ next.bytes = acc.bytes /\ next.hints = acc.hints
        /\ next.labels = Emplace(acc.labels, line.label, Len(acc.bytes))
        /\ line.label \in STRING
    BY <1>1, <1>2, AddLabelFacts
  <2>2. \A n \in DOMAIN acc.labels : n \in DOMAIN next.labels /\ next.labels[n] = acc.labels[n]
    <3>1. acc.labels \in LabelMaps /\ Len(acc.bytes) \in Nat /\ line.label \in STRING
      BY <1>1, <2>1, LayoutFields
    <3> DEFINE map == Emplace(acc.labels, line.label, Len(acc.bytes))
    <3>2. DOMAIN map = DOMAIN acc.labels \cup {line.label} /\ \A n \in DOMAIN acc.labels : map[n] = acc.labels[n]
      BY <3>1, EmplaceFacts
    <3>3. next.labels = map
      BY <2>1
    <3> HIDE DEF next, map
    <3> QED BY <3>2, <3>3
  <2>3. LineLength(line) = 0
    <3>1. line \notin Fcalls \cup Ncalls
      BY <1>2, LinesSplit
    <3> QED BY <1>2, <3>1 DEF LineLength
  <2> HIDE DEF next
  <2>4. Sound(next)
    BY <1>1, <2>1 DEF Sound
  <2>5. Grows(acc, next)
    BY <1>1, <2>1, <2>2, LayoutFields DEF Grows
  <2>6. next \in Begun /\ Len(next.bytes) = Len(acc.bytes) + LineLength(line)
    BY <1>1, <2>1, <2>3, <2>4, LayoutFields DEF Begun, SoundLayouts
  <2> QED BY <2>3, <2>5, <2>6 DEF next
<1>3. CASE ~IsLabel(line)
  <2> DEFINE b == InstBytes(line)
  <2>1. /\ next \in Layouts /\ next.bytes = acc.bytes \o b /\ next.labels = acc.labels
        /\ next.hints = IF line \in Fcalls THEN Append(acc.hints, HintOf(acc, line)) ELSE acc.hints
    BY <1>1, <1>3, AddInstFacts
  <2>2. /\ b \in Seq(Bytes) /\ Len(b) = LineLength(line) /\ LineLength(line) >= InstSize
        /\ line \in Fcalls => LineLength(line) = InstSize + Word
    BY <1>3, InstBytesFacts
  <2> HIDE DEF next, b
  <2>3. /\ Len(next.bytes) = Len(acc.bytes) + LineLength(line)
        /\ \A x \in 1 .. Len(acc.bytes) : next.bytes[x] = acc.bytes[x]
        /\ LineLength(line) \in Nat
    <3>1. acc.bytes \in Seq(Bytes)
      BY <1>1, LayoutFields
    <3>2. /\ Len(acc.bytes \o b) = Len(acc.bytes) + Len(b)
          /\ \A x \in 1 .. Len(acc.bytes) : (acc.bytes \o b)[x] = acc.bytes[x]
          /\ Len(b) \in Nat
      BY <2>2, <3>1
    <3> QED BY <2>1, <2>2, <3>2
  <2>4. Len(acc.bytes) \in Nat
    BY <1>1, LayoutFields
  <2>5. CASE line \in Fcalls
    <3> DEFINE q == Len(acc.hints) + 1
    <3>1. HintOf(acc, line).offset = Len(acc.bytes) + InstSize /\ HintOf(acc, line) \in Hints
      BY <1>1, <1>3, <2>5, AddInstFacts DEF HintOf
    <3>2. /\ Len(next.hints) = q /\ next.hints[q].offset = Len(acc.bytes) + InstSize
          /\ \A p \in 1 .. Len(acc.hints) : next.hints[p] = acc.hints[p]
          /\ Len(acc.hints) \in Nat /\ DOMAIN next.hints = 1 .. q
      BY <1>1, <2>1, <2>5, <3>1, LayoutFields
    <3>3. Len(next.bytes) = Len(acc.bytes) + InstSize + Word
      BY <2>2, <2>3, <2>5, Sizes
    <3>4. \A p \in 1 .. Len(acc.hints) :
              /\ acc.hints[p].offset \in Nat /\ acc.hints[p].offset >= Word
              /\ acc.hints[p].offset + Word <= Len(acc.bytes)
      BY <1>1, LayoutFields DEF Sound
    <3>5. Sound(next)
      <4>1. ASSUME NEW p \in 1 .. q
            PROVE  /\ next.hints[p].offset >= Word
                   /\ next.hints[p].offset + Word <= Len(next.bytes)
        <5>1. CASE p = q
          BY <5>1, <3>2, <3>3, <1>1, <2>4, Sizes
        <5>2. CASE p \in 1 .. Len(acc.hints)
          <6>1. next.hints[p] = acc.hints[p]
            BY <5>2, <3>2
          <6>2. /\ acc.hints[p].offset \in Nat /\ acc.hints[p].offset >= Word
                /\ acc.hints[p].offset + Word <= Len(acc.bytes)
            BY <5>2, <3>4
          <6> DEFINE o == acc.hints[p].offset
                     l == Len(acc.bytes)
                     m == Len(next.bytes)
          <6>3. o \in Nat /\ o >= Word /\ o + Word <= l /\ l \in Nat /\ m = l + InstSize + Word
            BY <6>2, <3>3, <2>4
          <6> HIDE DEF o, l, m
          <6>4. o >= Word /\ o + Word <= m
            BY <6>3, Sizes
          <6> QED BY <6>1, <6>4 DEF o, m
        <5> QED BY <5>1, <5>2, <3>2
      <4>2. ASSUME NEW o \in 1 .. q, NEW p \in 1 .. q, o < p
            PROVE  next.hints[o].offset + Word <= next.hints[p].offset
        <5>1. o \in 1 .. Len(acc.hints)
          BY <4>2, <3>2
        <5>2. CASE p = q
          <6>1. next.hints[o] = acc.hints[o] /\ next.hints[p].offset = Len(acc.bytes) + InstSize
            BY <5>1, <5>2, <3>2
          <6> QED BY <5>1, <6>1, <3>4, <2>4, Sizes
        <5>3. CASE p \in 1 .. Len(acc.hints)
          <6>1. next.hints[o] = acc.hints[o] /\ next.hints[p] = acc.hints[p]
            BY <5>1, <5>3, <3>2
          <6>2. DOMAIN acc.hints = 1 .. Len(acc.hints)
            BY <1>1, LayoutFields
          <6> QED BY <4>2, <5>1, <5>3, <6>1, <6>2, <1>1 DEF Sound
        <5> QED BY <5>2, <5>3, <3>2
      <4> HIDE DEF q
      <4> QED BY <4>1, <4>2, <3>2 DEF Sound
    <3>6. Grows(acc, next)
      <4>1. \A p \in Len(acc.hints) + 1 .. Len(next.hints) : next.hints[p].offset >= Len(acc.bytes)
        BY <3>2, <2>4, Sizes
      <4> QED BY <4>1, <3>2, <2>1, <2>3, <2>4 DEF Grows
    <3>7. next \in Begun
      BY <1>1, <2>1, <2>3, <2>4, <3>5, Sizes DEF Begun, SoundLayouts
    <3> QED BY <2>3, <3>6, <3>7 DEF next
  <2>6. CASE line \notin Fcalls
    <3>1. next.hints = acc.hints
      BY <2>1, <2>6
    <3>2. \A p \in DOMAIN acc.hints : acc.hints[p].offset \in Nat
      BY <1>1, LayoutFields
    <3>3. Sound(next)
      BY <1>1, <2>3, <2>4, <3>1, <3>2, Sizes DEF Sound
    <3>4. Grows(acc, next)
      <4>1. Len(acc.hints) \in Nat
        BY <1>1, LayoutFields
      <4>2. next.labels = acc.labels /\ Len(acc.bytes) <= Len(next.bytes)
        BY <2>1, <2>3, <2>4
      <4> QED BY <2>3, <3>1, <4>1, <4>2 DEF Grows
    <3>5. next \in Begun
      BY <1>1, <2>1, <2>3, <2>4, <3>3, Sizes DEF Begun, SoundLayouts
    <3> QED BY <2>3, <3>4, <3>5 DEF next
  <2> QED BY <2>5, <2>6
<1> QED
  BY <1>2, <1>3

-----------------------------------------------------------------------------
(* The lines of a function, one after the other. *)

LEMMA LineLengthType ==
    ASSUME NEW line \in Lines
    PROVE  LineLength(line) \in Nat
<1>1. CASE IsLabel(line)
  <2>1. line \notin Fcalls \cup Ncalls
    BY <1>1, LinesSplit
  <2> QED BY <1>1, <2>1 DEF LineLength
<1>2. CASE ~IsLabel(line)
  <2>1. InstBytes(line) \in Seq(Bytes) /\ Len(InstBytes(line)) = LineLength(line)
    BY <1>2, InstBytesFacts
  <2>2. Len(InstBytes(line)) \in Nat
    BY <2>1
  <2> QED BY <2>1, <2>2
<1> QED
  BY <1>1, <1>2

\* The layouts along the lines of a function are defined by the recursion.
LEMMA RunLines ==
    ASSUME NEW acc \in Begun, NEW lines \in Seq(Lines)
    PROVE  /\ Running(AddLine, acc, lines)[0] = acc
           /\ \A k \in 1 .. Len(lines) :
                 Running(AddLine, acc, lines)[k] = AddLine(Running(AddLine, acc, lines)[k - 1], lines[k])
           /\ \A k \in 0 .. Len(lines) : Running(AddLine, acc, lines)[k] \in Begun
<1> DEFINE step == [p \in Begun \X Lines |-> AddLine(p[1], p[2])]
           R == Running(AddLine, acc, lines)
           Eq(f) == f = [k \in 0 .. Len(lines) |-> IF k = 0 THEN acc ELSE AddLine(f[k - 1], lines[k])]
           S == {k \in Nat : k <= Len(lines) => R[k] \in Begun}
<1>1. step \in [Begun \X Lines -> Begun]
  BY AddLineGrows
<1>2. \A a \in Begun, line \in Lines : step[<<a, line>>] = AddLine(a, line)
  OBVIOUS
<1> HIDE DEF step
<1>3. \E g : Eq(g)
  <2>1. PICK g : Runs(g, Begun, acc, step, lines)
    BY <1>1, Recursion
  <2>2. g \in [0 .. Len(lines) -> Begun] /\ g[0] = acc
    BY <2>1 DEF Runs
  <2>3. ASSUME NEW k \in 1 .. Len(lines) PROVE g[k] = AddLine(g[k - 1], lines[k])
    <3>1. g[k] = step[<<g[k - 1], lines[k]>>] /\ g[k - 1] \in Begun /\ lines[k] \in Lines
      BY <2>1, <2>2 DEF Runs
    <3> QED BY <1>2, <3>1
  <2>4. Eq(g)
    BY <2>2, <2>3
  <2> QED BY <2>4
<1>4. Eq(R)
  BY <1>3 DEF Running
<1> HIDE DEF R
<1>5. R[0] = acc /\ \A k \in 1 .. Len(lines) : R[k] = AddLine(R[k - 1], lines[k])
  BY <1>4
<1>6. 0 \in S
  BY <1>5
<1>7. ASSUME NEW k \in Nat, k \in S PROVE k + 1 \in S
  <2> SUFFICES ASSUME k + 1 <= Len(lines) PROVE R[k + 1] \in Begun
    OBVIOUS
  <2>1. k + 1 \in 1 .. Len(lines) /\ (k + 1) - 1 = k /\ R[k] \in Begun
    BY <1>7
  <2>2. lines[k + 1] \in Lines
    BY <2>1
  <2>3. R[k + 1] = AddLine(R[k], lines[k + 1])
    BY <1>5, <2>1
  <2> QED BY <2>1, <2>2, <2>3, AddLineGrows
<1>8. \A k \in 0 .. Len(lines) : R[k] \in Begun
  <2>1. Nat \subseteq S
    <3> HIDE DEF S
    <3> QED BY <1>6, <1>7, SetInduction
  <2> QED BY <2>1
<1> QED
  BY <1>5, <1>8 DEF R

LEMMA RunBody ==
    ASSUME NEW f, f.lines \in Seq(Lines)
    PROVE  /\ BodyLengths(f)[0] = 0
           /\ \A k \in 1 .. Len(f.lines) :
                 BodyLengths(f)[k] = BodyLengths(f)[k - 1] + LineLength(f.lines[k])
           /\ \A k \in 0 .. Len(f.lines) : BodyLengths(f)[k] \in Nat
<1> DEFINE lines == f.lines
           step == [p \in Nat \X Lines |-> p[1] + LineLength(p[2])]
           R == BodyLengths(f)
           Eq(g) == g = [k \in 0 .. Len(lines) |-> IF k = 0 THEN 0 ELSE g[k - 1] + LineLength(lines[k])]
           S == {k \in Nat : k <= Len(lines) => R[k] \in Nat}
<1>1. step \in [Nat \X Lines -> Nat]
  <2>1. \A p \in Nat \X Lines : p[1] + LineLength(p[2]) \in Nat
    BY LineLengthType
  <2> QED BY <2>1
<1>2. \A n \in Nat, line \in Lines : step[<<n, line>>] = n + LineLength(line)
  OBVIOUS
<1>3. lines \in Seq(Lines)
  OBVIOUS
<1> HIDE DEF step, lines
<1>4. \E g : Eq(g)
  <2>1. PICK g : Runs(g, Nat, 0, step, lines)
    <3>1. 0 \in Nat
      OBVIOUS
    <3> QED BY <1>1, <1>3, <3>1, Recursion
  <2>2. g \in [0 .. Len(lines) -> Nat] /\ g[0] = 0
    BY <2>1 DEF Runs
  <2>3. ASSUME NEW k \in 1 .. Len(lines) PROVE g[k] = g[k - 1] + LineLength(lines[k])
    <3>1. g[k] = step[<<g[k - 1], lines[k]>>]
      BY <2>1 DEF Runs
    <3>2. g[k - 1] \in Nat /\ lines[k] \in Lines
      BY <1>3, <2>2
    <3> QED BY <1>2, <3>1, <3>2
  <2>4. Eq(g)
    BY <2>2, <2>3
  <2> QED BY <2>4
<1>5. Eq(R)
  BY <1>4 DEF BodyLengths, Running, lines
<1> HIDE DEF R
<1>6. R[0] = 0 /\ \A k \in 1 .. Len(lines) : R[k] = R[k - 1] + LineLength(lines[k])
  BY <1>5
<1>7. 0 \in S
  BY <1>6
<1>8. ASSUME NEW k \in Nat, k \in S PROVE k + 1 \in S
  <2> SUFFICES ASSUME k + 1 <= Len(lines) PROVE R[k + 1] \in Nat
    OBVIOUS
  <2>1. k + 1 \in 1 .. Len(lines) /\ (k + 1) - 1 = k /\ R[k] \in Nat
    BY <1>3, <1>8
  <2>2. LineLength(lines[k + 1]) \in Nat
    BY <1>3, <2>1, LineLengthType
  <2>3. R[k + 1] = R[k] + LineLength(lines[k + 1])
    BY <1>6, <2>1
  <2> QED BY <2>1, <2>2, <2>3
<1>9. \A k \in 0 .. Len(lines) : R[k] \in Nat
  <2>1. Nat \subseteq S
    <3> HIDE DEF S
    <3> QED BY <1>7, <1>8, SetInduction
  <2> QED BY <2>1
<1> QED
  BY <1>6, <1>9 DEF R, lines

(***************************************************************************)
(* Lines only add to a layout, and every line begins where the ones before *)
(* it end.                                                                 *)
(***************************************************************************)
LEMMA LinesGrow ==
    ASSUME NEW acc \in Begun, NEW f, f.lines \in Seq(Lines)
    PROVE  /\ \A k \in 0 .. Len(f.lines) :
                 Len(Running(AddLine, acc, f.lines)[k].bytes) = Len(acc.bytes) + BodyLengths(f)[k]
           /\ \A j, k \in 0 .. Len(f.lines) : j <= k =>
                 Grows(Running(AddLine, acc, f.lines)[j], Running(AddLine, acc, f.lines)[k])
<1> DEFINE R == Running(AddLine, acc, f.lines)
           B == BodyLengths(f)
           n == Len(f.lines)
           S == {k \in Nat : k <= n =>
                    /\ Len(R[k].bytes) = Len(acc.bytes) + B[k]
                    /\ \A j \in 0 .. k : Grows(R[j], R[k])}
<1>1. /\ R[0] = acc
      /\ \A k \in 1 .. n : R[k] = AddLine(R[k - 1], f.lines[k])
      /\ \A k \in 0 .. n : R[k] \in Begun
  BY RunLines
<1>2. /\ B[0] = 0 /\ \A k \in 1 .. n : B[k] = B[k - 1] + LineLength(f.lines[k])
      /\ \A k \in 0 .. n : B[k] \in Nat
  BY RunBody
<1>3. n \in Nat /\ \A k \in 1 .. n : f.lines[k] \in Lines
  OBVIOUS
<1>4. Begun \subseteq Layouts
  BY DEF Begun, SoundLayouts
<1> HIDE DEF R, B, n
<1>5. 0 \in S
  <2>1. acc \in Layouts
    BY <1>4
  <2>2. Len(acc.bytes) \in Nat /\ Grows(acc, acc)
    BY <2>1, LayoutFields, GrowsReflexive
  <2>3. Len(R[0].bytes) = Len(acc.bytes) + B[0]
    BY <1>1, <1>2, <2>2
  <2>4. \A j \in 0 .. 0 : Grows(R[j], R[0])
    BY <1>1, <2>2
  <2> QED BY <2>3, <2>4
<1>6. ASSUME NEW k \in Nat, k \in S PROVE k + 1 \in S
  <2> SUFFICES ASSUME k + 1 <= n
               PROVE  /\ Len(R[k + 1].bytes) = Len(acc.bytes) + B[k + 1]
                      /\ \A j \in 0 .. k + 1 : Grows(R[j], R[k + 1])
    OBVIOUS
  <2>1. k + 1 \in 1 .. n /\ (k + 1) - 1 = k /\ k \in 0 .. n /\ k + 1 \in 0 .. n
    BY <1>3
  <2>2. Len(R[k].bytes) = Len(acc.bytes) + B[k] /\ \A j \in 0 .. k : Grows(R[j], R[k])
    BY <1>6, <2>1
  <2> HIDE DEF S
  <2> DEFINE line == f.lines[k + 1]
  <2>3. line \in Lines /\ R[k] \in Begun /\ R[k + 1] \in Begun /\ R[k + 1] = AddLine(R[k], line)
    BY <1>1, <1>3, <2>1
  <2>4. B[k + 1] = B[k] + LineLength(line) /\ B[k] \in Nat
    BY <1>2, <2>1
  <2> HIDE DEF line
  <2>5. /\ Grows(R[k], R[k + 1]) /\ LineLength(line) \in Nat
        /\ Len(R[k + 1].bytes) = Len(R[k].bytes) + LineLength(line)
    BY <2>3, AddLineGrows
  <2>6. acc \in Layouts /\ Len(acc.bytes) \in Nat
    BY <1>4, LayoutFields
  <2>7. Len(R[k + 1].bytes) = Len(acc.bytes) + B[k + 1]
    BY <2>2, <2>4, <2>5, <2>6
  <2>8. ASSUME NEW j \in 0 .. k + 1 PROVE Grows(R[j], R[k + 1])
    <3>1. CASE j = k + 1
      BY <1>4, <2>3, <3>1, GrowsReflexive
    <3>2. CASE j \in 0 .. k
      <4>1. j \in 0 .. n
        BY <1>3, <2>1, <3>2
      <4>2. R[j] \in Layouts /\ R[k] \in Layouts /\ R[k + 1] \in Layouts
        BY <1>1, <1>4, <2>3, <4>1
      <4>3. Grows(R[j], R[k])
        BY <2>2, <3>2
      <4> QED BY <2>5, <4>2, <4>3, GrowsTransitive
    <3> QED BY <3>1, <3>2
  <2> QED BY <2>7, <2>8
<1>7. \A k \in 0 .. n : k \in S
  <2>1. Nat \subseteq S
    <3> HIDE DEF S
    <3> QED BY <1>5, <1>6, SetInduction
  <2> HIDE DEF S
  <2> QED BY <2>1
<1>8. \A k \in 0 .. n : Len(R[k].bytes) = Len(acc.bytes) + B[k]
  BY <1>7
<1>9. \A k \in 0 .. n : \A j \in 0 .. k : Grows(R[j], R[k])
  BY <1>7
<1> QED
  BY <1>8, <1>9 DEF R, B, n

-----------------------------------------------------------------------------
(* The functions of a program, one after the other. *)

LEMMA TwoWords ==
    ASSUME NEW l \in Nat
    PROVE  l + 2 * Word = l + Word + Word /\ l + 2 * Word \in Nat /\ l + Word \in Nat
<1> DEFINE w == Word
<1>1. w \in Nat
  BY Sizes
<1> HIDE DEF w
<1>2. l + 2 * w = l + w + w /\ l + 2 * w \in Nat /\ l + w \in Nat
  BY <1>1
<1> QED
  BY <1>2 DEF w

LEMMA Joint ==
    ASSUME NEW E, NEW s \in Seq(E), NEW a \in Seq(E)
    PROVE  /\ s \o a \in Seq(E)
           /\ Len(s \o a) = Len(s) + Len(a)
           /\ \A x \in 1 .. Len(s) : (s \o a)[x] = s[x]
           /\ \A x \in 1 .. Len(a) : (s \o a)[Len(s) + x] = a[x]
OBVIOUS

(***************************************************************************)
(* Two sequences behind a third lie where the ones before them end.        *)
(***************************************************************************)
LEMMA Joined ==
    ASSUME NEW E, NEW s \in Seq(E), NEW a \in Seq(E), NEW r \in Seq(E)
    PROVE  /\ (s \o a) \o r \in Seq(E)
           /\ Len((s \o a) \o r) = Len(s) + Len(a) + Len(r)
           /\ \A x \in 1 .. Len(s) : ((s \o a) \o r)[x] = s[x]
           /\ \A x \in 1 .. Len(a) : ((s \o a) \o r)[Len(s) + x] = a[x]
           /\ \A x \in 1 .. Len(r) : ((s \o a) \o r)[Len(s) + Len(a) + x] = r[x]
<1> DEFINE c == s \o a
           d == c \o r
<1>1. /\ c \in Seq(E) /\ Len(c) = Len(s) + Len(a)
      /\ \A x \in 1 .. Len(s) : c[x] = s[x]
      /\ \A x \in 1 .. Len(a) : c[Len(s) + x] = a[x]
  BY Joint
<1> HIDE DEF c
<1>2. /\ d \in Seq(E) /\ Len(d) = Len(c) + Len(r)
      /\ \A x \in 1 .. Len(c) : d[x] = c[x]
      /\ \A x \in 1 .. Len(r) : d[Len(c) + x] = r[x]
  <2>1. c \in Seq(E)
    BY <1>1
  <2> QED BY <2>1, Joint
<1>3. /\ Len(s) \in Nat /\ Len(a) \in Nat /\ Len(r) \in Nat
  OBVIOUS
<1> HIDE DEF d
<1>4. \A x \in 1 .. Len(s) : d[x] = s[x]
  BY <1>1, <1>2, <1>3
<1>5. \A x \in 1 .. Len(a) : d[Len(s) + x] = a[x]
  <2> SUFFICES ASSUME NEW x \in 1 .. Len(a) PROVE d[Len(s) + x] = a[x]
    OBVIOUS
  <2>1. Len(s) + x \in 1 .. Len(c)
    BY <1>1, <1>3
  <2> QED BY <1>1, <1>2, <2>1
<1> QED
  BY <1>1, <1>2, <1>4, <1>5 DEF d, c

LEMMA HeaderFacts ==
    ASSUME NEW acc \in SoundLayouts, NEW f \in Functions
    PROVE  /\ AddHeader(acc, f) \in Begun
           /\ Grows(acc, AddHeader(acc, f))
           /\ Len(AddHeader(acc, f).bytes) = Len(acc.bytes) + 2 * Word
           /\ AddHeader(acc, f).hints = acc.hints
           /\ AddHeader(acc, f).labels = Emplace(acc.labels, f.name, Len(acc.bytes) + 2 * Word)
           /\ Lies(AddHeader(acc, f).bytes, Len(acc.bytes), Little(f.args, Word))
           /\ Lies(AddHeader(acc, f).bytes, Len(acc.bytes) + Word, Little(f.ret, Word))
<1> DEFINE h == AddHeader(acc, f)
           a == Little(f.args, Word)
           r == Little(f.ret, Word)
           map == Emplace(acc.labels, f.name, Len(acc.bytes) + 2 * Word)
           b == (acc.bytes \o a) \o r
           l == Len(acc.bytes)
<1>1. acc \in Layouts /\ Sound(acc)
  BY DEF SoundLayouts
<1>2. f.name \in STRING /\ f.args \in Int /\ f.ret \in Int
  <2>1. f.name \in STRING /\ f.args \in Words /\ f.ret \in Words
    BY DEF Functions
  <2> QED BY <2>1 DEF Words
<1>3. a \in Seq(Bytes) /\ r \in Seq(Bytes) /\ Len(a) = Word /\ Len(r) = Word
  BY <1>2, Sizes, LittleBytes
<1>4. acc.bytes \in Seq(Bytes) /\ l \in Nat /\ acc.labels \in LabelMaps
  BY <1>1, LayoutFields
<1>5. h = [acc EXCEPT !.bytes = b, !.labels = map]
  BY DEF AddHeader
<1>6. Len(acc.bytes) + 2 * Word \in Nat
  BY <1>4, TwoWords
<1>7. /\ map \in LabelMaps
      /\ \A n \in DOMAIN acc.labels : n \in DOMAIN map /\ map[n] = acc.labels[n]
  <2> DEFINE o == Len(acc.bytes) + 2 * Word
  <2> HIDE DEF o
  <2>1. o \in Nat
    BY <1>6 DEF o
  <2>2. /\ Emplace(acc.labels, f.name, o) \in LabelMaps
        /\ DOMAIN Emplace(acc.labels, f.name, o) = DOMAIN acc.labels \cup {f.name}
        /\ \A n \in DOMAIN acc.labels : Emplace(acc.labels, f.name, o)[n] = acc.labels[n]
    BY <1>2, <1>4, <2>1, EmplaceFacts
  <2>3. map = Emplace(acc.labels, f.name, o)
    BY DEF o
  <2> HIDE DEF map
  <2> QED BY <2>2, <2>3
<1> HIDE DEF h, a, r, map
<1>8. /\ b \in Seq(Bytes) /\ Len(b) = l + Word + Word
      /\ \A x \in 1 .. l : b[x] = acc.bytes[x]
      /\ \A x \in 1 .. Word : b[l + x] = a[x]
      /\ \A x \in 1 .. Word : b[l + Word + x] = r[x]
  <2>1. /\ Len(b) = l + Len(a) + Len(r) /\ b \in Seq(Bytes)
        /\ \A x \in 1 .. l : b[x] = acc.bytes[x]
        /\ \A x \in 1 .. Len(a) : b[l + x] = a[x]
        /\ \A x \in 1 .. Len(r) : b[l + Len(a) + x] = r[x]
    <3>1. acc.bytes \in Seq(Bytes) /\ a \in Seq(Bytes) /\ r \in Seq(Bytes)
      BY <1>3, <1>4
    <3> QED BY <3>1, Joined
  <2> HIDE DEF b, l
  <2> QED BY <1>3, <2>1
<1> HIDE DEF b
<1>9. /\ h \in Layouts /\ h.bytes = b /\ h.labels = map /\ h.hints = acc.hints
  BY <1>1, <1>5, <1>7, <1>8 DEF Layouts
<1>10. Len(b) = l + 2 * Word /\ Len(b) >= l
  <2>1. l \in Nat /\ Len(b) = l + Word + Word /\ Word \in Nat
    BY <1>4, <1>8, Sizes
  <2> HIDE DEF l
  <2>2. l + 2 * Word = l + Word + Word
    BY <2>1, TwoWords
  <2> QED BY <2>1, <2>2
<1> HIDE DEF l
<1>11. Len(acc.hints) \in Nat /\ DOMAIN acc.hints = 1 .. Len(acc.hints)
       /\ \A q \in 1 .. Len(acc.hints) : acc.hints[q].offset \in Nat
  BY <1>1, LayoutFields
<1>12. Sound(h)
  <2>1. ASSUME NEW q \in DOMAIN h.hints
        PROVE  h.hints[q].offset >= Word /\ h.hints[q].offset + Word <= Len(h.bytes)
    <3>1. /\ acc.hints[q].offset >= Word /\ acc.hints[q].offset + Word <= l
          /\ acc.hints[q].offset \in Nat
      BY <1>1, <1>9, <1>11 DEF Sound, l
    <3> QED BY <3>1, <1>4, <1>9, <1>10, Sizes
  <2>2. \A p, q \in DOMAIN h.hints : p < q => h.hints[p].offset + Word <= h.hints[q].offset
    BY <1>1, <1>9 DEF Sound
  <2> QED BY <2>1, <2>2 DEF Sound
<1>13. h \in Begun
  BY <1>4, <1>9, <1>10, <1>12, Sizes DEF Begun, SoundLayouts
<1>14. Grows(acc, h)
  <2>1. \A x \in 1 .. Len(acc.bytes) : h.bytes[x] = acc.bytes[x]
    BY <1>8, <1>9 DEF l
  <2>2. Len(acc.bytes) <= Len(h.bytes)
    BY <1>9, <1>10 DEF l
  <2>3. Len(acc.hints) + 1 .. Len(h.hints) = {}
    BY <1>9, <1>11
  <2> QED BY <1>7, <1>9, <1>11, <2>1, <2>2, <2>3 DEF Grows
<1>15. Lies(h.bytes, l, a) /\ Lies(h.bytes, l + Word, r)
  BY <1>3, <1>8, <1>9 DEF Lies
<1> QED
  BY <1>9, <1>10, <1>13, <1>14, <1>15 DEF h, a, r, map, l

LEMMA AddFunctionGrows ==
    ASSUME NEW acc \in SoundLayouts, NEW f \in Functions
    PROVE  /\ AddFunction(acc, f) \in Begun
           /\ Grows(acc, AddFunction(acc, f))
           /\ Len(AddFunction(acc, f).bytes) = Len(acc.bytes) + FunctionLength(f)
           /\ FunctionLength(f) \in Nat
<1> DEFINE h == AddHeader(acc, f)
           n == Len(f.lines)
           R == Running(AddLine, h, f.lines)
<1>1. f.lines \in Seq(Lines) /\ n \in Nat /\ n \in 0 .. n /\ 0 \in 0 .. n
  BY DEF Functions
<1>2. /\ h \in Begun /\ Grows(acc, h) /\ Len(h.bytes) = Len(acc.bytes) + 2 * Word
  BY HeaderFacts
<1> HIDE DEF h
<1>3. AddFunction(acc, f) = R[n]
  BY DEF AddFunction, h
<1>4. R[0] = h /\ R[n] \in Begun
  BY <1>1, <1>2, RunLines
<1>5. Len(R[n].bytes) = Len(h.bytes) + BodyLengths(f)[n] /\ Grows(R[0], R[n])
  BY <1>1, <1>2, LinesGrow
<1>6. BodyLengths(f)[n] \in Nat
  BY <1>1, RunBody
<1> HIDE DEF R
<1>7. acc \in Layouts /\ h \in Layouts /\ R[n] \in Layouts
  BY <1>2, <1>4 DEF Begun, SoundLayouts
<1>8. Grows(acc, R[n])
  BY <1>2, <1>4, <1>5, <1>7, GrowsTransitive
<1>9. Len(acc.bytes) \in Nat
  BY <1>7, LayoutFields
<1>10. FunctionLength(f) = 2 * Word + BodyLengths(f)[n]
  BY DEF FunctionLength
<1>11. Len(R[n].bytes) = Len(acc.bytes) + FunctionLength(f) /\ FunctionLength(f) \in Nat
  <2> DEFINE w == 2 * Word
             l == Len(acc.bytes)
             b == BodyLengths(f)[n]
             k == Len(h.bytes)
             m == Len(R[n].bytes)
  <2>1. w \in Nat
    BY Sizes
  <2>2. k = l + w /\ m = k + b /\ b \in Nat /\ l \in Nat /\ FunctionLength(f) = w + b
    BY <1>2, <1>5, <1>6, <1>9, <1>10
  <2> HIDE DEF w, l, b, k, m
  <2>3. m = l + FunctionLength(f) /\ FunctionLength(f) \in Nat
    BY <2>1, <2>2
  <2> QED BY <2>3 DEF m, l
<1> QED
  BY <1>3, <1>4, <1>8, <1>11

(***************************************************************************)
(* The names a line and a header put in the labels.                        *)
(***************************************************************************)
LEMMA LabelNames ==
    ASSUME NEW acc \in Layouts, NEW line \in Lines, IsLabel(line)
    PROVE  DOMAIN AddLine(acc, line).labels = DOMAIN acc.labels \cup {line.label}
<1> DEFINE o == Len(acc.bytes)
           name == line.label
           map == acc.labels
           e == Emplace(map, name, o)
<1>1. AddLine(acc, line).labels = e /\ name \in STRING
  BY AddLabelFacts
<1>2. map \in LabelMaps /\ o \in Nat
  BY LayoutFields
<1> HIDE DEF o, name, map
<1>3. DOMAIN e = DOMAIN map \cup {name}
  BY <1>1, <1>2, EmplaceFacts
<1> HIDE DEF e
<1> QED
  BY <1>1, <1>3 DEF map, name

LEMMA HeaderNames ==
    ASSUME NEW acc \in SoundLayouts, NEW f \in Functions
    PROVE  DOMAIN AddHeader(acc, f).labels = DOMAIN acc.labels \cup {f.name}
<1> DEFINE o == Len(acc.bytes) + 2 * Word
           e == Emplace(acc.labels, f.name, o)
<1>1. f.name \in STRING
  BY DEF Functions
<1>2. acc.labels \in LabelMaps /\ o \in Nat
  BY LayoutFields, TwoWords DEF SoundLayouts
<1>3. AddHeader(acc, f).labels = e
  BY HeaderFacts
<1> HIDE DEF o
<1>4. e \in LabelMaps /\ DOMAIN e = DOMAIN acc.labels \cup {f.name}
  BY <1>1, <1>2, EmplaceFacts
<1> HIDE DEF e
<1> QED
  BY <1>3, <1>4

(***************************************************************************)
(* A name that no line puts in the labels does not get there.              *)
(***************************************************************************)
LEMMA LinesAddNames ==
    ASSUME NEW acc \in Begun, NEW lines \in Seq(Lines), NEW x, x \notin DOMAIN acc.labels,
           \A j \in DOMAIN lines : IsLabel(lines[j]) => lines[j].label # x
    PROVE  x \notin DOMAIN Running(AddLine, acc, lines)[Len(lines)].labels
<1> DEFINE R == Running(AddLine, acc, lines)
           S == {k \in Nat : k <= Len(lines) => x \notin DOMAIN R[k].labels}
<1>1. /\ R[0] = acc
      /\ \A k \in 1 .. Len(lines) : R[k] = AddLine(R[k - 1], lines[k])
      /\ \A k \in 0 .. Len(lines) : R[k] \in Begun
  BY RunLines
<1>2. Len(lines) \in Nat /\ \A k \in 1 .. Len(lines) : lines[k] \in Lines /\ k \in DOMAIN lines
  OBVIOUS
<1> HIDE DEF R
<1>3. 0 \in S
  BY <1>1
<1>4. ASSUME NEW k \in Nat, k \in S PROVE k + 1 \in S
  <2> SUFFICES ASSUME k + 1 <= Len(lines) PROVE x \notin DOMAIN R[k + 1].labels
    OBVIOUS
  <2>1. k + 1 \in 1 .. Len(lines) /\ (k + 1) - 1 = k /\ k \in 0 .. Len(lines)
    BY <1>2
  <2>2. x \notin DOMAIN R[k].labels
    BY <1>4, <2>1
  <2> DEFINE line == lines[k + 1]
  <2>3. /\ R[k + 1] = AddLine(R[k], line) /\ R[k] \in Layouts /\ line \in Lines
        /\ IsLabel(line) => line.label # x
    BY <1>1, <1>2, <2>1 DEF Begun, SoundLayouts
  <2> HIDE DEF line
  <2>4. CASE IsLabel(line)
    <3>1. DOMAIN AddLine(R[k], line).labels = DOMAIN R[k].labels \cup {line.label}
      BY <2>3, <2>4, LabelNames
    <3> QED BY <2>2, <2>3, <2>4, <3>1
  <2>5. CASE ~IsLabel(line)
    <3>1. AddLine(R[k], line).labels = R[k].labels
      BY <2>3, <2>5, AddInstFacts
    <3> QED BY <2>2, <2>3, <3>1
  <2> QED BY <2>4, <2>5
<1>5. Nat \subseteq S
  <2> HIDE DEF S
  <2> QED BY <1>3, <1>4, SetInduction
<1> QED
  BY <1>2, <1>5 DEF R

LEMMA FunctionAddsNames ==
    ASSUME NEW acc \in SoundLayouts, NEW f \in Functions, NEW x, x \notin DOMAIN acc.labels,
           x # f.name, \A j \in DOMAIN f.lines : IsLabel(f.lines[j]) => f.lines[j].label # x
    PROVE  x \notin DOMAIN AddFunction(acc, f).labels
<1> DEFINE h == AddHeader(acc, f)
<1>1. f.lines \in Seq(Lines)
  BY DEF Functions
<1>2. h \in Begun /\ DOMAIN h.labels = DOMAIN acc.labels \cup {f.name}
  BY HeaderFacts, HeaderNames
<1> HIDE DEF h
<1>3. x \notin DOMAIN h.labels
  BY <1>2
<1>4. x \notin DOMAIN Running(AddLine, h, f.lines)[Len(f.lines)].labels
  BY <1>1, <1>2, <1>3, LinesAddNames
<1> QED
  BY <1>4 DEF AddFunction, h

\* The same along the functions.
LEMMA RunFunctions ==
    ASSUME NEW s \in Seq(Functions)
    PROVE  /\ Running(AddFunction, NoLayout, s)[0] = NoLayout
           /\ \A k \in 1 .. Len(s) :
                 Running(AddFunction, NoLayout, s)[k]
                     = AddFunction(Running(AddFunction, NoLayout, s)[k - 1], s[k])
           /\ \A k \in 0 .. Len(s) : Running(AddFunction, NoLayout, s)[k] \in SoundLayouts
<1> DEFINE step == [p \in SoundLayouts \X Functions |-> AddFunction(p[1], p[2])]
           R == Running(AddFunction, NoLayout, s)
           Eq(f) == f = [k \in 0 .. Len(s) |-> IF k = 0 THEN NoLayout ELSE AddFunction(f[k - 1], s[k])]
           S == {k \in Nat : k <= Len(s) => R[k] \in SoundLayouts}
<1>1. Begun \subseteq SoundLayouts
  BY DEF Begun
<1>2. step \in [SoundLayouts \X Functions -> SoundLayouts]
  <2>1. \A p \in SoundLayouts \X Functions : AddFunction(p[1], p[2]) \in SoundLayouts
    BY <1>1, AddFunctionGrows
  <2> QED BY <2>1
<1>3. \A a \in SoundLayouts, f \in Functions : step[<<a, f>>] = AddFunction(a, f)
  OBVIOUS
<1>4. NoLayout \in SoundLayouts
  <2>1. <<>> \in LabelMaps
    <3>1. <<>> \in [{} -> Nat] /\ {} \in SUBSET STRING
      OBVIOUS
    <3> QED BY <3>1 DEF LabelMaps
  <2>2. <<>> \in Seq(Bytes) /\ <<>> \in Seq(Hints) /\ {} \in SUBSET Nat
    OBVIOUS
  <2>3. NoLayout \in Layouts
    BY <2>1, <2>2 DEF NoLayout, Layouts
  <2>4. DOMAIN NoLayout.hints = {}
    BY DEF NoLayout
  <2> QED BY <2>3, <2>4 DEF SoundLayouts, Sound
<1> HIDE DEF step
<1>5. \E g : Eq(g)
  <2>1. PICK g : Runs(g, SoundLayouts, NoLayout, step, s)
    BY <1>2, <1>4, Recursion
  <2>2. g \in [0 .. Len(s) -> SoundLayouts] /\ g[0] = NoLayout
    BY <2>1 DEF Runs
  <2>3. ASSUME NEW k \in 1 .. Len(s) PROVE g[k] = AddFunction(g[k - 1], s[k])
    <3>1. g[k] = step[<<g[k - 1], s[k]>>]
      BY <2>1 DEF Runs
    <3>2. g[k - 1] \in SoundLayouts /\ s[k] \in Functions
      BY <2>2
    <3> QED BY <1>3, <3>1, <3>2
  <2>4. Eq(g)
    BY <2>2, <2>3
  <2> QED BY <2>4
<1>6. Eq(R)
  BY <1>5 DEF Running
<1> HIDE DEF R
<1>7. R[0] = NoLayout /\ \A k \in 1 .. Len(s) : R[k] = AddFunction(R[k - 1], s[k])
  BY <1>6
<1>8. 0 \in S
  BY <1>4, <1>7
<1>9. ASSUME NEW k \in Nat, k \in S PROVE k + 1 \in S
  <2> SUFFICES ASSUME k + 1 <= Len(s) PROVE R[k + 1] \in SoundLayouts
    OBVIOUS
  <2>1. k + 1 \in 1 .. Len(s) /\ (k + 1) - 1 = k /\ R[k] \in SoundLayouts
    BY <1>9
  <2>2. s[k + 1] \in Functions
    BY <2>1
  <2>3. R[k + 1] = AddFunction(R[k], s[k + 1])
    BY <1>7, <2>1
  <2> QED BY <1>1, <2>1, <2>2, <2>3, AddFunctionGrows
<1>10. \A k \in 0 .. Len(s) : R[k] \in SoundLayouts
  <2>1. Nat \subseteq S
    <3> HIDE DEF S
    <3> QED BY <1>8, <1>9, SetInduction
  <2> QED BY <2>1
<1> QED
  BY <1>7, <1>10 DEF R

\* The lengths of the first 0, 1, ... functions of s.
LengthsOf(s) == Running(LAMBDA n, f : n + FunctionLength(f), 0, s)

\* And for the lengths that are counted.
LEMMA RunLengths ==
    ASSUME NEW s \in Seq(Functions)
    PROVE  /\ LengthsOf(s)[0] = 0
           /\ \A k \in 1 .. Len(s) : LengthsOf(s)[k] = LengthsOf(s)[k - 1] + FunctionLength(s[k])
           /\ \A k \in 0 .. Len(s) : LengthsOf(s)[k] \in Nat
<1> DEFINE step == [p \in Nat \X Functions |-> p[1] + FunctionLength(p[2])]
           R == LengthsOf(s)
           Eq(g) == g = [k \in 0 .. Len(s) |-> IF k = 0 THEN 0 ELSE g[k - 1] + FunctionLength(s[k])]
           S == {k \in Nat : k <= Len(s) => R[k] \in Nat}
<1>1. \A f \in Functions : FunctionLength(f) \in Nat
  <2> SUFFICES ASSUME NEW f \in Functions PROVE FunctionLength(f) \in Nat
    OBVIOUS
  <2>1. NoLayout \in SoundLayouts
    <3>1. s \in Seq(Functions) /\ 0 \in 0 .. Len(s)
      OBVIOUS
    <3> QED BY <3>1, RunFunctions
  <2> QED BY <2>1, AddFunctionGrows
<1>2. step \in [Nat \X Functions -> Nat]
  <2>1. \A p \in Nat \X Functions : p[1] + FunctionLength(p[2]) \in Nat
    BY <1>1
  <2> QED BY <2>1
<1>3. \A n \in Nat, f \in Functions : step[<<n, f>>] = n + FunctionLength(f)
  OBVIOUS
<1> HIDE DEF step
<1>4. \E g : Eq(g)
  <2>1. PICK g : Runs(g, Nat, 0, step, s)
    <3>1. 0 \in Nat
      OBVIOUS
    <3> QED BY <1>2, <3>1, Recursion
  <2>2. g \in [0 .. Len(s) -> Nat] /\ g[0] = 0
    BY <2>1 DEF Runs
  <2>3. ASSUME NEW k \in 1 .. Len(s) PROVE g[k] = g[k - 1] + FunctionLength(s[k])
    <3>1. g[k] = step[<<g[k - 1], s[k]>>]
      BY <2>1 DEF Runs
    <3>2. g[k - 1] \in Nat /\ s[k] \in Functions
      BY <2>2
    <3> QED BY <1>3, <3>1, <3>2
  <2>4. Eq(g)
    BY <2>2, <2>3
  <2> QED BY <2>4
<1>5. Eq(R)
  BY <1>4 DEF LengthsOf, Running
<1> HIDE DEF R
<1>6. R[0] = 0 /\ \A k \in 1 .. Len(s) : R[k] = R[k - 1] + FunctionLength(s[k])
  BY <1>5
<1>7. 0 \in S
  BY <1>6
<1>8. ASSUME NEW k \in Nat, k \in S PROVE k + 1 \in S
  <2> SUFFICES ASSUME k + 1 <= Len(s) PROVE R[k + 1] \in Nat
    OBVIOUS
  <2>1. k + 1 \in 1 .. Len(s) /\ (k + 1) - 1 = k /\ R[k] \in Nat /\ s[k + 1] \in Functions
    BY <1>8
  <2>2. FunctionLength(s[k + 1]) \in Nat
    BY <1>1, <2>1
  <2>3. R[k + 1] = R[k] + FunctionLength(s[k + 1])
    BY <1>6, <2>1
  <2> QED BY <2>1, <2>2, <2>3
<1>9. \A k \in 0 .. Len(s) : R[k] \in Nat
  <2>1. Nat \subseteq S
    <3> HIDE DEF S
    <3> QED BY <1>7, <1>8, SetInduction
  <2> QED BY <2>1
<1> QED
  BY <1>6, <1>9 DEF R

(***************************************************************************)
(* Functions only add to a layout, and every function begins where the     *)
(* ones before it end.                                                     *)
(***************************************************************************)
LEMMA FunctionsGrow ==
    ASSUME NEW s \in Seq(Functions)
    PROVE  /\ \A k \in 0 .. Len(s) :
                 Len(Running(AddFunction, NoLayout, s)[k].bytes) = LengthsOf(s)[k]
           /\ \A j, k \in 0 .. Len(s) : j <= k =>
                 Grows(Running(AddFunction, NoLayout, s)[j], Running(AddFunction, NoLayout, s)[k])
<1> DEFINE R == Running(AddFunction, NoLayout, s)
           B == LengthsOf(s)
           n == Len(s)
           S == {k \in Nat : k <= n =>
                    /\ Len(R[k].bytes) = B[k]
                    /\ \A j \in 0 .. k : Grows(R[j], R[k])}
<1>1. /\ R[0] = NoLayout
      /\ \A k \in 1 .. n : R[k] = AddFunction(R[k - 1], s[k])
      /\ \A k \in 0 .. n : R[k] \in SoundLayouts
  BY RunFunctions
<1>2. /\ B[0] = 0 /\ \A k \in 1 .. n : B[k] = B[k - 1] + FunctionLength(s[k])
      /\ \A k \in 0 .. n : B[k] \in Nat
  BY RunLengths
<1>3. n \in Nat /\ \A k \in 1 .. n : s[k] \in Functions
  OBVIOUS
<1>4. SoundLayouts \subseteq Layouts
  BY DEF SoundLayouts
<1> HIDE DEF R, B, n
<1>5. 0 \in S
  <2>1. R[0] \in Layouts
    BY <1>1, <1>3, <1>4
  <2>2. Grows(R[0], R[0])
    BY <2>1, GrowsReflexive
  <2>3. Len(R[0].bytes) = B[0]
    <3>1. Len(NoLayout.bytes) = 0
      BY DEF NoLayout
    <3> QED BY <1>1, <1>2, <3>1
  <2>4. \A j \in 0 .. 0 : Grows(R[j], R[0])
    BY <2>2
  <2> QED BY <2>3, <2>4
<1>6. ASSUME NEW k \in Nat, k \in S PROVE k + 1 \in S
  <2> SUFFICES ASSUME k + 1 <= n
               PROVE  /\ Len(R[k + 1].bytes) = B[k + 1]
                      /\ \A j \in 0 .. k + 1 : Grows(R[j], R[k + 1])
    OBVIOUS
  <2>1. k + 1 \in 1 .. n /\ (k + 1) - 1 = k /\ k \in 0 .. n /\ k + 1 \in 0 .. n
    BY <1>3
  <2>2. Len(R[k].bytes) = B[k] /\ \A j \in 0 .. k : Grows(R[j], R[k])
    BY <1>6, <2>1
  <2> HIDE DEF S
  <2> DEFINE f == s[k + 1]
  <2>3. f \in Functions /\ R[k] \in SoundLayouts /\ R[k + 1] \in SoundLayouts /\ R[k + 1] = AddFunction(R[k], f)
    BY <1>1, <1>3, <2>1
  <2>4. B[k + 1] = B[k] + FunctionLength(f) /\ B[k] \in Nat
    BY <1>2, <2>1
  <2> HIDE DEF f
  <2>5. /\ Grows(R[k], R[k + 1])
        /\ Len(R[k + 1].bytes) = Len(R[k].bytes) + FunctionLength(f)
    BY <2>3, AddFunctionGrows
  <2>6. Len(R[k + 1].bytes) = B[k + 1]
    BY <2>2, <2>4, <2>5
  <2>7. ASSUME NEW j \in 0 .. k + 1 PROVE Grows(R[j], R[k + 1])
    <3>1. CASE j = k + 1
      BY <1>4, <2>3, <3>1, GrowsReflexive
    <3>2. CASE j \in 0 .. k
      <4>1. j \in 0 .. n
        BY <1>3, <2>1, <3>2
      <4>2. R[j] \in Layouts /\ R[k] \in Layouts /\ R[k + 1] \in Layouts
        BY <1>1, <1>4, <2>3, <4>1
      <4>3. Grows(R[j], R[k])
        BY <2>2, <3>2
      <4> QED BY <2>5, <4>2, <4>3, GrowsTransitive
    <3> QED BY <3>1, <3>2
  <2> QED BY <2>6, <2>7
<1>7. \A k \in 0 .. n : k \in S
  <2>1. Nat \subseteq S
    <3> HIDE DEF S
    <3> QED BY <1>5, <1>6, SetInduction
  <2> HIDE DEF S
  <2> QED BY <2>1
<1>8. \A k \in 0 .. n : Len(R[k].bytes) = B[k]
  BY <1>7
<1>9. \A k \in 0 .. n : \A j \in 0 .. k : Grows(R[j], R[k])
  BY <1>7
<1> QED
  BY <1>8, <1>9 DEF R, B, n

\* Functions that are found by their names, no label among them.
Apart(s) ==
    /\ \A i, j \in DOMAIN s : i # j => s[i].name # s[j].name
    /\ \A i, j \in DOMAIN s : \A k \in DOMAIN s[i].lines :
          IsLabel(s[i].lines[k]) => s[i].lines[k].label # s[j].name

\* Functions before the i-th have neither its name nor a label of that name.
Leads(s, i) ==
    \A k \in 1 .. i - 1 :
        /\ s[k].name # s[i].name
        /\ \A j \in DOMAIN s[k].lines : IsLabel(s[k].lines[j]) => s[k].lines[j].label # s[i].name

LEMMA ApartLeads ==
    ASSUME NEW s \in Seq(Functions), Apart(s), NEW i \in 1 .. Len(s)
    PROVE  Leads(s, i)
<1>1. \A k \in 1 .. i - 1 : k \in DOMAIN s /\ i \in DOMAIN s /\ k # i
  OBVIOUS
<1> QED
  BY <1>1 DEF Leads, Apart

(***************************************************************************)
(* No function before the i-th has put the i-th's name in the labels.      *)
(***************************************************************************)
LEMMA NamesApart ==
    ASSUME NEW s \in Seq(Functions), NEW i \in 1 .. Len(s), Leads(s, i)
    PROVE  s[i].name \notin DOMAIN Running(AddFunction, NoLayout, s)[i - 1].labels
<1> DEFINE R == Running(AddFunction, NoLayout, s)
           x == s[i].name
           S == {k \in Nat : k < i => x \notin DOMAIN R[k].labels}
<1>1. /\ R[0] = NoLayout
      /\ \A k \in 1 .. Len(s) : R[k] = AddFunction(R[k - 1], s[k])
      /\ \A k \in 0 .. Len(s) : R[k] \in SoundLayouts
  BY RunFunctions
<1>2. /\ Len(s) \in Nat /\ DOMAIN s = 1 .. Len(s) /\ i \in Nat /\ i - 1 \in Nat
      /\ \A k \in 1 .. Len(s) : s[k] \in Functions
  OBVIOUS
<1> HIDE DEF R, x
<1>3. 0 \in S
  <2>1. DOMAIN NoLayout.labels = {}
    BY DEF NoLayout
  <2> QED BY <1>1, <2>1
<1>4. ASSUME NEW k \in Nat, k \in S PROVE k + 1 \in S
  <2> SUFFICES ASSUME k + 1 < i PROVE x \notin DOMAIN R[k + 1].labels
    OBVIOUS
  <2>1. k + 1 \in 1 .. Len(s) /\ (k + 1) - 1 = k /\ k \in 0 .. Len(s) /\ k + 1 # i /\ k < i
    BY <1>2
  <2>2. x \notin DOMAIN R[k].labels
    BY <1>4, <2>1
  <2> DEFINE f == s[k + 1]
  <2>3. R[k + 1] = AddFunction(R[k], f) /\ R[k] \in SoundLayouts /\ f \in Functions
    BY <1>1, <1>2, <2>1
  <2>4. x # f.name /\ \A j \in DOMAIN f.lines : IsLabel(f.lines[j]) => f.lines[j].label # x
    <3>1. k + 1 \in 1 .. i - 1
      BY <1>2, <2>1
    <3> QED BY <3>1 DEF Leads, x
  <2> HIDE DEF f, S
  <2> QED BY <2>2, <2>3, <2>4, FunctionAddsNames
<1>5. Nat \subseteq S
  <2> HIDE DEF S
  <2> QED BY <1>3, <1>4, SetInduction
<1> HIDE DEF S
<1>6. i - 1 \in S /\ i - 1 < i
  BY <1>2, <1>5
<1> QED
  BY <1>6 DEF S, x, R

-----------------------------------------------------------------------------
(* Where things lie in the layout of a whole program. *)

\* No word that is filled in later lies in the n bytes at offset a.
Kept(layout, a, n) ==
    \A q \in DOMAIN layout.hints :
        layout.hints[q].offset + Word <= a \/ a + n <= layout.hints[q].offset

\* What the layout of a prefix of the functions has, the whole one has.
LEMMA KeptBetween ==
    ASSUME NEW b \in SoundLayouts, NEW c \in Layouts, NEW d \in Layouts, NEW n \in Nat,
           Grows(b, c), Grows(c, d), Len(b.bytes) + n <= Len(c.bytes),
           \A q \in Len(b.hints) + 1 .. Len(c.hints) : c.hints[q].offset >= Len(b.bytes) + n
    PROVE  Kept(d, Len(b.bytes), n)
<1>1. b \in Layouts /\ Sound(b)
  BY DEF SoundLayouts
<1>2. /\ Len(b.hints) \in Nat /\ Len(c.hints) \in Nat /\ Len(d.hints) \in Nat
      /\ DOMAIN b.hints = 1 .. Len(b.hints) /\ DOMAIN d.hints = 1 .. Len(d.hints)
      /\ Len(b.bytes) \in Nat /\ Len(c.bytes) \in Nat
      /\ \A q \in 1 .. Len(d.hints) : d.hints[q].offset \in Nat
  BY <1>1, LayoutFields
<1>3. SUFFICES ASSUME NEW q \in 1 .. Len(d.hints)
               PROVE  \/ d.hints[q].offset + Word <= Len(b.bytes)
                      \/ Len(b.bytes) + n <= d.hints[q].offset
  BY <1>2 DEF Kept
<1>4. CASE q \in 1 .. Len(b.hints)
  <2>1. q \in 1 .. Len(c.hints)
    BY <1>2, <1>4 DEF Grows
  <2>2. d.hints[q] = c.hints[q] /\ c.hints[q] = b.hints[q]
    BY <1>4, <2>1 DEF Grows
  <2>3. b.hints[q].offset + Word <= Len(b.bytes)
    BY <1>1, <1>2, <1>4 DEF Sound
  <2> QED BY <2>2, <2>3
<1>5. CASE q \in Len(b.hints) + 1 .. Len(c.hints)
  <2>1. q \in 1 .. Len(c.hints)
    BY <1>2, <1>5
  <2>2. d.hints[q] = c.hints[q]
    BY <2>1 DEF Grows
  <2>3. c.hints[q].offset >= Len(b.bytes) + n
    BY <1>5
  <2>4. d.hints[q].offset \in Nat
    BY <1>2
  <2> QED BY <1>2, <2>2, <2>3, <2>4
<1>6. CASE q \in Len(c.hints) + 1 .. Len(d.hints)
  <2>1. d.hints[q].offset >= Len(c.bytes)
    BY <1>6 DEF Grows
  <2>2. d.hints[q].offset \in Nat
    BY <1>2
  <2> QED BY <1>2, <2>1, <2>2
<1>7. q \in Nat /\ q >= 1
  OBVIOUS
<1> QED
  BY <1>2, <1>4, <1>5, <1>6, <1>7

\* What lies in a layout lies in every one it grows into.
LEMMA LiesOn ==
    ASSUME NEW b \in Layouts, NEW c \in Layouts, Grows(b, c), NEW a \in Nat, NEW s \in Seq(Bytes),
           a + Len(s) <= Len(b.bytes), Lies(b.bytes, a, s)
    PROVE  Lies(c.bytes, a, s)
<1>1. Len(b.bytes) \in Nat /\ Len(s) \in Nat
  BY LayoutFields
<1>2. \A x \in 1 .. Len(b.bytes) : c.bytes[x] = b.bytes[x]
  BY DEF Grows
<1>3. ASSUME NEW k \in 1 .. Len(s) PROVE c.bytes[a + k] = s[k]
  <2>1. a + k \in 1 .. Len(b.bytes)
    BY <1>1
  <2>2. b.bytes[a + k] = s[k]
    BY DEF Lies
  <2> QED BY <1>2, <2>1, <2>2
<1> QED
  BY <1>3 DEF Lies

\* The layout of all functions of s.
LayoutOf(s) == Running(AddFunction, NoLayout, s)[Len(s)]

(***************************************************************************)
(* Lines and header of the i-th function: what the layout is before it,    *)
(* after its header and after its first j lines, and that all of that stays*)
(* in the layout of the whole program.                                     *)
(***************************************************************************)
LEMMA Stages ==
    ASSUME NEW s \in Seq(Functions), NEW i \in 1 .. Len(s)
    PROVE  \E before \in SoundLayouts :
              /\ before = Running(AddFunction, NoLayout, s)[i - 1]
              /\ Len(before.bytes) = LengthsOf(s)[i - 1]
              /\ AddHeader(before, s[i]) \in Begun
              /\ \A j \in 0 .. Len(s[i].lines) :
                    /\ Running(AddLine, AddHeader(before, s[i]), s[i].lines)[j] \in Begun
                    /\ Grows(Running(AddLine, AddHeader(before, s[i]), s[i].lines)[j], LayoutOf(s))
<1> DEFINE R == Running(AddFunction, NoLayout, s)
           n == Len(s)
           before == R[i - 1]
           f == s[i]
           h == AddHeader(before, f)
           m == Len(f.lines)
           L == Running(AddLine, h, f.lines)
<1>1. /\ \A k \in 1 .. n : R[k] = AddFunction(R[k - 1], s[k])
      /\ \A k \in 0 .. n : R[k] \in SoundLayouts
  BY RunFunctions
<1>2. /\ \A k \in 0 .. n : Len(R[k].bytes) = LengthsOf(s)[k]
      /\ \A j, k \in 0 .. n : j <= k => Grows(R[j], R[k])
  BY FunctionsGrow
<1>3. n \in Nat /\ i - 1 \in 0 .. n /\ i \in 0 .. n /\ n \in 0 .. n /\ i <= n /\ f \in Functions
  OBVIOUS
<1> HIDE DEF R, n
<1>4. before \in SoundLayouts /\ Len(before.bytes) = LengthsOf(s)[i - 1]
  BY <1>1, <1>2, <1>3
<1>5. R[i] = AddFunction(before, f) /\ R[i] \in SoundLayouts /\ R[n] \in SoundLayouts /\ Grows(R[i], R[n])
  BY <1>1, <1>2, <1>3 DEF n
<1>6. f.lines \in Seq(Lines)
  BY <1>3 DEF Functions
<1>7. m \in Nat /\ m \in 0 .. m
  BY <1>6
<1> HIDE DEF before, f
<1>8. h \in Begun
  BY <1>3, <1>4, HeaderFacts
<1> HIDE DEF h
<1>9. /\ \A j \in 0 .. m : L[j] \in Begun
      /\ \A j, k \in 0 .. m : j <= k => Grows(L[j], L[k])
  BY <1>6, <1>8, RunLines, LinesGrow
<1>10. R[i] = L[m]
  BY <1>5 DEF AddFunction, h
<1> HIDE DEF L, m
<1>11. ASSUME NEW j \in 0 .. m PROVE Grows(L[j], R[n])
  <2>1. L[j] \in Layouts /\ L[m] \in Layouts /\ R[n] \in Layouts
    BY <1>5, <1>7, <1>9 DEF Begun, SoundLayouts
  <2>2. Grows(L[j], L[m])
    BY <1>7, <1>9
  <2> QED BY <1>5, <1>10, <2>1, <2>2, GrowsTransitive
<1>12. LayoutOf(s) = R[n]
  BY DEF LayoutOf, R, n
<1> QED
  BY <1>4, <1>8, <1>9, <1>11, <1>12 DEF L, m, h, f, before, R

(***************************************************************************)
(* The sizes of its arguments and of its result lie in front of a function,*)
(* and its name leads behind them.                                         *)
(***************************************************************************)
LEMMA FunctionPlaced ==
    ASSUME NEW s \in Seq(Functions), NEW i \in 1 .. Len(s), NEW a, a = LengthsOf(s)[i - 1]
    PROVE  /\ a \in Nat /\ LayoutOf(s) \in SoundLayouts
           /\ a + 2 * Word <= Len(LayoutOf(s).bytes)
           /\ Lies(LayoutOf(s).bytes, a, Little(s[i].args, Word))
           /\ Lies(LayoutOf(s).bytes, a + Word, Little(s[i].ret, Word))
           /\ Kept(LayoutOf(s), a, 2 * Word)
           /\ s[i].name \in DOMAIN LayoutOf(s).labels
           /\ Leads(s, i) => LayoutOf(s).labels[s[i].name] = a + 2 * Word
<1> DEFINE F == LayoutOf(s)
           f == s[i]
           before == Running(AddFunction, NoLayout, s)[i - 1]
           h == AddHeader(before, f)
<1>1. F \in SoundLayouts
  <2>1. Len(s) \in 0 .. Len(s)
    OBVIOUS
  <2> QED BY <2>1, RunFunctions DEF LayoutOf
<1>2. /\ before \in SoundLayouts /\ Len(before.bytes) = a /\ h \in Begun
      /\ \A j \in 0 .. Len(f.lines) : Grows(Running(AddLine, h, f.lines)[j], F)
  BY Stages
<1>3. f \in Functions /\ f.lines \in Seq(Lines)
  <2>1. f \in Functions
    OBVIOUS
  <2> QED BY <2>1 DEF Functions
<1>4. Leads(s, i) => f.name \notin DOMAIN before.labels
  BY NamesApart
<1> HIDE DEF F, f, before
<1>5. Grows(h, F)
  <2>1. 0 \in 0 .. Len(f.lines)
    BY <1>3
  <2>2. Running(AddLine, h, f.lines)[0] = h
    BY <1>2, <1>3, RunLines
  <2> QED BY <1>2, <2>1, <2>2
<1>6. /\ Grows(before, h) /\ Len(h.bytes) = a + 2 * Word /\ h.hints = before.hints
      /\ h.labels = Emplace(before.labels, f.name, a + 2 * Word)
      /\ Lies(h.bytes, a, Little(f.args, Word)) /\ Lies(h.bytes, a + Word, Little(f.ret, Word))
  BY <1>2, <1>3, HeaderFacts
<1> HIDE DEF h
<1>7. F \in Layouts /\ h \in Layouts /\ before \in Layouts
  BY <1>1, <1>2 DEF Begun, SoundLayouts
<1>8. a \in Nat
  BY <1>2, <1>7, LayoutFields
<1> DEFINE w == 2 * Word
<1>9. a + w = a + Word + Word /\ a + w \in Nat /\ a + Word \in Nat /\ w \in Nat
  BY <1>8, TwoWords, Sizes
<1>10. Little(f.args, Word) \in Seq(Bytes) /\ Len(Little(f.args, Word)) = Word
       /\ Little(f.ret, Word) \in Seq(Bytes) /\ Len(Little(f.ret, Word)) = Word
  <2>1. f.args \in Words /\ f.ret \in Words
    BY <1>3 DEF Functions
  <2>2. f.args \in Int /\ f.ret \in Int
    BY <2>1 DEF Words
  <2> QED BY <2>2, LittleBytes, Sizes
<1>11. Lies(F.bytes, a, Little(f.args, Word)) /\ Lies(F.bytes, a + Word, Little(f.ret, Word))
  <2> DEFINE p == Little(f.args, Word)
             q == Little(f.ret, Word)
             o == a + Word
             k == Len(h.bytes)
  <2>1. /\ p \in Seq(Bytes) /\ Len(p) = Word /\ q \in Seq(Bytes) /\ Len(q) = Word /\ o \in Nat
        /\ k = o + Word /\ Word \in Nat
    BY <1>6, <1>9, <1>10, Sizes
  <2>2. a + Word <= k /\ o + Word <= k
    BY <1>8, <2>1
  <2>3. Lies(h.bytes, a, p) /\ Lies(h.bytes, o, q)
    BY <1>6
  <2> HIDE DEF p, q
  <2>4. Lies(F.bytes, a, p)
    BY <1>5, <1>7, <1>8, <2>1, <2>2, <2>3, LiesOn
  <2> HIDE DEF o
  <2>5. Lies(F.bytes, o, q)
    BY <1>5, <1>7, <2>1, <2>2, <2>3, LiesOn
  <2> QED BY <2>4, <2>5 DEF p, q, o
<1> HIDE DEF w
<1>12. Len(h.bytes) = a + w /\ h.labels = Emplace(before.labels, f.name, a + w)
  BY <1>6 DEF w
<1>13. Kept(F, a, w)
  <2>1. Len(before.bytes) + w <= Len(h.bytes)
    BY <1>2, <1>8, <1>9, <1>12
  <2>2. Len(before.hints) + 1 .. Len(h.hints) = {}
    <3>1. Len(before.hints) \in Nat
      BY <1>7, LayoutFields
    <3> QED BY <3>1, <1>6
  <2>3. Kept(F, Len(before.bytes), w)
    BY <1>2, <1>5, <1>6, <1>7, <1>9, <2>1, <2>2, KeptBetween
  <2> QED BY <1>2, <2>3
<1>14. f.name \in DOMAIN F.labels /\ (Leads(s, i) => F.labels[f.name] = a + w)
  <2> DEFINE name == f.name
             map == before.labels
             o == a + w
             e == Emplace(map, name, o)
  <2>1. name \in STRING
    BY <1>3 DEF Functions
  <2>2. map \in LabelMaps /\ o \in Nat /\ (Leads(s, i) => name \notin DOMAIN map)
    BY <1>4, <1>7, <1>9, LayoutFields
  <2> HIDE DEF o, name, map
  <2>3. DOMAIN e = DOMAIN map \cup {name} /\ (Leads(s, i) => e[name] = o)
    BY <2>1, <2>2, EmplaceFacts
  <2>4. h.labels = e
    BY <1>12 DEF map, name, o
  <2> HIDE DEF e
  <2>5. name \in DOMAIN F.labels /\ F.labels[name] = h.labels[name]
    BY <1>5, <2>3, <2>4 DEF Grows
  <2> QED BY <2>3, <2>4, <2>5 DEF name, o
<1>15. a + w <= Len(F.bytes)
  <2>1. Len(h.bytes) <= Len(F.bytes)
    BY <1>5 DEF Grows
  <2> QED BY <1>12, <2>1
<1> QED
  BY <1>1, <1>8, <1>11, <1>13, <1>14, <1>15 DEF F, f, w

(***************************************************************************)
(* Every instruction lies where the lines before it end; that of an fcall  *)
(* is followed by a word that is filled in with its target.                *)
(***************************************************************************)
LEMMA LinePlaced ==
    ASSUME NEW s \in Seq(Functions), NEW i \in 1 .. Len(s), NEW j \in DOMAIN s[i].lines,
           ~IsLabel(s[i].lines[j]),
           NEW o, o = LengthsOf(s)[i - 1] + 2 * Word + BodyLengths(s[i])[j - 1]
    PROVE  /\ o \in Nat /\ s[i].lines[j] \in Lines
           /\ o + InstSize <= Len(LayoutOf(s).bytes)
           /\ Lies(LayoutOf(s).bytes, o, CodeBytes(s[i].lines[j], MaskOf(s[i].lines[j])))
           /\ Kept(LayoutOf(s), o, InstSize)
           /\ o + Len(InstBytes(s[i].lines[j])) <= Len(LayoutOf(s).bytes)
           /\ Lies(LayoutOf(s).bytes, o, InstBytes(s[i].lines[j]))
           /\ s[i].lines[j] \notin Fcalls => Kept(LayoutOf(s), o, Len(InstBytes(s[i].lines[j])))
           /\ s[i].lines[j] \in Fcalls =>
                 \E q \in DOMAIN LayoutOf(s).hints :
                     LayoutOf(s).hints[q] = [name |-> s[i].lines[j].target, offset |-> o + InstSize]
<1> DEFINE F == LayoutOf(s)
           f == s[i]
           m == Len(f.lines)
           line == f.lines[j]
           before == Running(AddFunction, NoLayout, s)[i - 1]
           h == AddHeader(before, f)
           L == Running(AddLine, h, f.lines)
           p == L[j - 1]
           n == L[j]
<1>1. F \in Layouts
  <2>1. Len(s) \in 0 .. Len(s)
    OBVIOUS
  <2> QED BY <2>1, RunFunctions DEF LayoutOf, SoundLayouts
<1>2. /\ before \in SoundLayouts /\ Len(before.bytes) = LengthsOf(s)[i - 1] /\ h \in Begun
      /\ \A k \in 0 .. m : L[k] \in Begun /\ Grows(L[k], F)
  BY Stages
<1>3. f \in Functions /\ f.lines \in Seq(Lines)
  <2>1. f \in Functions
    OBVIOUS
  <2> QED BY <2>1 DEF Functions
<1>4. line \in Lines /\ ~IsLabel(line) /\ j \in 1 .. m /\ j - 1 \in 0 .. m /\ j \in 0 .. m
  BY <1>3
<1> HIDE DEF F, f, before
<1>5. Len(h.bytes) = LengthsOf(s)[i - 1] + 2 * Word
  BY <1>2, <1>3, HeaderFacts
<1> HIDE DEF h
<1>6. L[j] = AddLine(L[j - 1], f.lines[j]) /\ Len(L[j - 1].bytes) = Len(h.bytes) + BodyLengths(f)[j - 1]
  <2>1. \A k \in 1 .. m : L[k] = AddLine(L[k - 1], f.lines[k])
    BY <1>2, <1>3, RunLines
  <2>2. \A k \in 0 .. m : Len(L[k].bytes) = Len(h.bytes) + BodyLengths(f)[k]
    BY <1>2, <1>3, LinesGrow
  <2> HIDE DEF L, m
  <2> QED BY <1>4, <2>1, <2>2
<1> HIDE DEF L, m
<1>7. /\ p \in Begun /\ n \in Begun /\ Grows(p, F) /\ Grows(n, F) /\ n = AddLine(p, line)
  BY <1>2, <1>4, <1>6
<1>8. Len(p.bytes) = o
  BY <1>5, <1>6 DEF f
<1> HIDE DEF p, n, line
<1>9. p \in Layouts /\ n \in Layouts /\ p \in SoundLayouts
  BY <1>7 DEF Begun, SoundLayouts
<1>10. /\ n.bytes = p.bytes \o InstBytes(line)
       /\ n.hints = IF line \in Fcalls THEN Append(p.hints, HintOf(p, line)) ELSE p.hints
       /\ line \in Fcalls => HintOf(p, line) \in Hints
  BY <1>4, <1>7, <1>9, AddInstFacts
<1>11. /\ InstBytes(line) \in Seq(Bytes) /\ Len(InstBytes(line)) = LineLength(line)
       /\ Lies(InstBytes(line), 0, CodeBytes(line, MaskOf(line)))
       /\ LineLength(line) >= InstSize
  BY <1>4, InstBytesFacts
<1>12. Grows(p, n)
  BY <1>4, <1>7, AddLineGrows
<1>13. o \in Nat /\ p.bytes \in Seq(Bytes) /\ p.hints \in Seq(Hints) /\ Len(p.hints) \in Nat
  BY <1>8, <1>9, LayoutFields
<1>14. /\ Len(n.bytes) = o + Len(InstBytes(line))
       /\ \A x \in 1 .. Len(InstBytes(line)) : n.bytes[o + x] = InstBytes(line)[x]
  <2> DEFINE u == p.bytes
             v == InstBytes(line)
  <2>1. u \in Seq(Bytes) /\ v \in Seq(Bytes) /\ n.bytes = u \o v /\ Len(u) = o
    BY <1>8, <1>10, <1>11, <1>13
  <2> HIDE DEF u, v
  <2>2. Len(u \o v) = Len(u) + Len(v) /\ \A x \in 1 .. Len(v) : (u \o v)[Len(u) + x] = v[x]
    BY <2>1, Joint
  <2> QED BY <2>1, <2>2 DEF v
<1> DEFINE c == CodeBytes(line, MaskOf(line))
           b == InstBytes(line)
<1>15. c \in Seq(Bytes) /\ Len(c) = InstSize
  <2>1. InTable(line) /\ MaskOf(line) \in 0 .. 63
    BY <1>4, LinesSplit, MaskRange
  <2> QED BY <2>1, CodeBytesFacts
<1> HIDE DEF c, b
<1>16. /\ b \in Seq(Bytes) /\ Len(b) \in Nat /\ Len(b) >= InstSize /\ Lies(b, 0, c)
       /\ Len(n.bytes) = o + Len(b) /\ \A x \in 1 .. Len(b) : n.bytes[o + x] = b[x]
  BY <1>11, <1>14 DEF b, c
<1>17. o + InstSize <= Len(n.bytes)
  BY <1>13, <1>16, Sizes
<1>18. Lies(n.bytes, o, c)
  <2>1. ASSUME NEW k \in 1 .. Len(c) PROVE n.bytes[o + k] = c[k]
    <3>1. k \in 1 .. Len(b) /\ 0 + k = k
      BY <1>15, <1>16, Sizes
    <3>2. b[0 + k] = c[k]
      BY <1>16 DEF Lies
    <3> QED BY <1>16, <3>1, <3>2
  <2> QED BY <2>1 DEF Lies
<1>19. Lies(F.bytes, o, c)
  BY <1>1, <1>7, <1>9, <1>13, <1>15, <1>17, <1>18, LiesOn
<1>20. o + InstSize <= Len(F.bytes)
  <2>1. Len(n.bytes) <= Len(F.bytes) /\ Len(F.bytes) \in Nat /\ Len(n.bytes) \in Nat
    BY <1>1, <1>7, <1>9, LayoutFields DEF Grows
  <2> QED BY <1>13, <1>17, <2>1, Sizes
<1>21. \A q \in Len(p.hints) + 1 .. Len(n.hints) :
           n.hints[q].offset >= Len(p.bytes) + InstSize
  <2>1. CASE line \in Fcalls
    <3>1. n.hints = Append(p.hints, HintOf(p, line)) /\ HintOf(p, line).offset = o + InstSize
      BY <1>8, <1>10, <2>1 DEF HintOf
    <3>2. Len(n.hints) = Len(p.hints) + 1 /\ n.hints[Len(p.hints) + 1] = HintOf(p, line)
      BY <1>10, <1>13, <2>1, <3>1
    <3>3. o + InstSize \in Nat
      BY <1>13, Sizes
    <3> QED BY <1>8, <1>13, <3>1, <3>2, <3>3
  <2>2. CASE line \notin Fcalls
    BY <1>10, <1>13, <2>2
  <2> QED BY <2>1, <2>2
<1>22. Kept(F, o, InstSize)
  <2>1. InstSize \in Nat /\ Len(p.bytes) + InstSize <= Len(n.bytes)
    BY <1>8, <1>17, Sizes
  <2>2. Kept(F, Len(p.bytes), InstSize)
    BY <1>1, <1>7, <1>9, <1>12, <1>21, <2>1, KeptBetween
  <2> QED BY <1>8, <2>2
<1>23. ASSUME line \in Fcalls
       PROVE  \E q \in DOMAIN F.hints :
                  F.hints[q] = [name |-> line.target, offset |-> o + InstSize]
  <2> DEFINE q == Len(p.hints) + 1
             g == HintOf(p, line)
  <2>1. g = [name |-> line.target, offset |-> o + InstSize]
    BY <1>8 DEF HintOf
  <2>2. n.hints = Append(p.hints, g) /\ g \in Hints
    BY <1>10, <1>23
  <2> HIDE DEF g
  <2>3. Len(n.hints) = q /\ n.hints[q] = g /\ q \in 1 .. Len(n.hints)
    BY <1>13, <2>2
  <2> HIDE DEF q
  <2>4. F.hints[q] = n.hints[q] /\ Len(n.hints) <= Len(F.hints)
    BY <1>7, <2>3 DEF Grows
  <2>5. q \in DOMAIN F.hints
    <3>1. DOMAIN F.hints = 1 .. Len(F.hints) /\ Len(F.hints) \in Nat /\ Len(n.hints) \in Nat
      BY <1>1, <1>9, LayoutFields
    <3> QED BY <2>3, <2>4, <3>1
  <2> QED BY <2>1, <2>3, <2>4, <2>5
<1>24. o + Len(b) <= Len(F.bytes) /\ Lies(F.bytes, o, b)
  <2>1. Lies(n.bytes, o, b)
    BY <1>16 DEF Lies
  <2>2. o + Len(b) <= Len(n.bytes)
    BY <1>13, <1>16
  <2>3. Lies(F.bytes, o, b)
    BY <1>1, <1>7, <1>9, <1>13, <1>16, <2>1, <2>2, LiesOn
  <2>4. Len(n.bytes) <= Len(F.bytes) /\ Len(F.bytes) \in Nat /\ Len(n.bytes) \in Nat
    BY <1>1, <1>7, <1>9, LayoutFields DEF Grows
  <2> QED BY <1>13, <1>16, <2>2, <2>3, <2>4
<1>25. ASSUME line \notin Fcalls PROVE Kept(F, o, Len(b))
  <2>1. Len(p.bytes) + Len(b) <= Len(n.bytes)
    BY <1>8, <1>13, <1>16
  <2>2. Len(p.hints) + 1 .. Len(n.hints) = {}
    BY <1>10, <1>13, <1>25
  <2>3. Kept(F, Len(p.bytes), Len(b))
    BY <1>1, <1>7, <1>9, <1>12, <1>16, <2>1, <2>2, KeptBetween
  <2> QED BY <1>8, <2>3
<1> QED
  BY <1>4, <1>13, <1>19, <1>20, <1>22, <1>23, <1>24, <1>25 DEF F, line, f, c, b

-----------------------------------------------------------------------------
(* Linking. *)

\* A number is put where it should lie, and everything else stays.
\* A word put into the code changes its own bytes only.
LEMMA PutFacts ==
    ASSUME NEW b \in Seq(Bytes), NEW a \in Nat, NEW n \in Nat, NEW v \in Int, a + n <= Len(b)
    PROVE  /\ Put(b, a, n, v) \in Seq(Bytes)
           /\ Len(Put(b, a, n, v)) = Len(b)
           /\ Lies(Put(b, a, n, v), a, Little(v, n))
           /\ \A x \in 1 .. Len(b) : x <= a \/ x > a + n => Put(b, a, n, v)[x] = b[x]
<1> DEFINE s == Little(v, n)
           w == Write(b, a, s)
<1>1. s \in Seq(Bytes) /\ Len(s) = n
  BY LittleBytes
<1> HIDE DEF s
<1>2. /\ w \in Seq(Bytes) /\ Len(w) = Len(b)
      /\ \A x \in 1 .. Len(b) : w[x] = IF x \in a + 1 .. a + Len(s) THEN s[x - a] ELSE b[x]
  BY <1>1, WriteFrame
<1>3. Len(b) \in Nat
  OBVIOUS
<1> HIDE DEF w
<1>4. ASSUME NEW k \in 1 .. Len(s) PROVE w[a + k] = s[k]
  <2>1. a + k \in 1 .. Len(b) /\ a + k \in a + 1 .. a + Len(s) /\ (a + k) - a = k
    BY <1>1, <1>3
  <2> QED BY <1>2, <2>1
<1>5. ASSUME NEW x \in 1 .. Len(b), x <= a \/ x > a + n PROVE w[x] = b[x]
  <2>1. x \notin a + 1 .. a + Len(s)
    BY <1>1, <1>5
  <2> QED BY <1>2, <2>1
<1>6. Put(b, a, n, v) = w
  BY DEF Put, w, s
<1> QED
  BY <1>2, <1>4, <1>5, <1>6 DEF Lies, s

\* The address an fcall of a name is given.
Target(labels, name) == Offset(labels, name) + RegistersSize

LEMMA TargetType ==
    ASSUME NEW labels \in LabelMaps, NEW name
    PROVE  Offset(labels, name) \in Nat /\ Target(labels, name) \in Nat
<1>1. PICK D \in SUBSET STRING : labels \in [D -> Nat]
  BY DEF LabelMaps
<1>2. Offset(labels, name) \in Nat
  BY <1>1 DEF Offset
<1> QED
  BY <1>2, Sizes DEF Target

\* What linking has made of a layout when its first k words are filled in.
Patched(layout, b, k) ==
    /\ b \in Seq(Bytes) /\ Len(b) = Len(layout.bytes)
    /\ Lies(b, 0, Little(layout.labels["@main()"], Word))
    /\ \A q \in 1 .. k :
          Lies(b, layout.hints[q].offset, Little(Target(layout.labels, layout.hints[q].name), Word))
    /\ \A x \in 1 .. Len(b) :
          x > Word /\ (\A q \in 1 .. k : \/ x <= layout.hints[q].offset
                                        \/ x > layout.hints[q].offset + Word)
              => b[x] = layout.bytes[x]

\* Linking one call puts its target's address into its word and keeps the rest.
LEMMA PatchNext ==
    ASSUME NEW layout \in Begun, "@main()" \in DOMAIN layout.labels,
           NEW k \in Nat, k + 1 <= Len(layout.hints), NEW b, Patched(layout, b, k)
    PROVE  Patched(layout, Put(b, layout.hints[k + 1].offset, Word,
                               Target(layout.labels, layout.hints[k + 1].name)), k + 1)
<1> DEFINE o(q) == layout.hints[q].offset
           v(q) == Little(Target(layout.labels, layout.hints[q].name), Word)
           m == Little(layout.labels["@main()"], Word)
           r == k + 1
           n == Len(layout.hints)
           c == Put(b, layout.hints[r].offset, Word, Target(layout.labels, layout.hints[r].name))
<1>1. layout \in Layouts /\ Sound(layout)
  BY DEF Begun, SoundLayouts
<1>2. /\ n \in Nat /\ DOMAIN layout.hints = 1 .. n /\ layout.labels \in LabelMaps
      /\ Len(layout.bytes) \in Nat /\ \A q \in 1 .. n : o(q) \in Nat
  BY <1>1, LayoutFields
<1>3. /\ \A q \in 1 .. n : o(q) >= Word /\ o(q) + Word <= Len(layout.bytes)
      /\ \A p, q \in 1 .. n : p < q => o(p) + Word <= o(q)
  BY <1>1, <1>2 DEF Sound
<1>4. \A q \in 1 .. n : v(q) \in Seq(Bytes) /\ Len(v(q)) = Word
  <2> SUFFICES ASSUME NEW q \in 1 .. n PROVE v(q) \in Seq(Bytes) /\ Len(v(q)) = Word
    OBVIOUS
  <2>1. Target(layout.labels, layout.hints[q].name) \in Int
    BY <1>2, TargetType
  <2> QED BY <2>1, LittleBytes, Sizes
<1>5. Len(m) = Word
  <2>1. layout.labels["@main()"] \in Nat
    <3>1. PICK D \in SUBSET STRING : layout.labels \in [D -> Nat]
      BY <1>2 DEF LabelMaps
    <3> QED BY <3>1
  <2>2. layout.labels["@main()"] \in Int
    BY <2>1
  <2> QED BY <2>2, LittleBytes, Sizes
<1>6. /\ b \in Seq(Bytes) /\ Len(b) = Len(layout.bytes) /\ Lies(b, 0, m)
      /\ \A q \in 1 .. k : Lies(b, o(q), v(q))
      /\ \A x \in 1 .. Len(b) :
            x > Word /\ (\A q \in 1 .. k : x <= o(q) \/ x > o(q) + Word) => b[x] = layout.bytes[x]
  BY DEF Patched
<1>7. r \in 1 .. n /\ k \in Nat /\ r = k + 1
  BY <1>2
<1>8. /\ c \in Seq(Bytes) /\ Len(c) = Len(b) /\ Lies(c, o(r), v(r))
      /\ \A x \in 1 .. Len(b) : x <= o(r) \/ x > o(r) + Word => c[x] = b[x]
  <2> DEFINE t == Target(layout.labels, layout.hints[r].name)
             a == layout.hints[r].offset
  <2>1. t \in Int
    BY <1>2, TargetType
  <2>2. a \in Nat /\ a + Word <= Len(b) /\ Word \in Nat
    BY <1>2, <1>3, <1>6, <1>7, Sizes
  <2> HIDE DEF t, a, r
  <2>3. /\ Put(b, a, Word, t) \in Seq(Bytes) /\ Len(Put(b, a, Word, t)) = Len(b)
        /\ Lies(Put(b, a, Word, t), a, Little(t, Word))
        /\ \A x \in 1 .. Len(b) : x <= a \/ x > a + Word => Put(b, a, Word, t)[x] = b[x]
    BY <1>6, <2>1, <2>2, PutFacts
  <2> QED BY <2>3 DEF t, a
<1> HIDE DEF o, v, m, c, r, n
<1>9. Lies(c, 0, m)
  <2>1. ASSUME NEW j \in 1 .. Len(m) PROVE c[0 + j] = m[j]
    <3>1. 0 + j \in 1 .. Len(b) /\ 0 + j <= o(r) /\ b[0 + j] = m[j]
      <4>1. o(r) >= Word /\ o(r) + Word <= Len(b) /\ o(r) \in Nat /\ Word \in Nat
        BY <1>2, <1>3, <1>6, <1>7, Sizes
      <4>2. Len(b) \in Nat
        BY <1>6
      <4>3. b[0 + j] = m[j]
        BY <1>6 DEF Lies
      <4> QED BY <1>5, <4>1, <4>2, <4>3
    <3> QED BY <1>8, <3>1
  <2> QED BY <2>1 DEF Lies
<1>10. ASSUME NEW q \in 1 .. r PROVE Lies(c, o(q), v(q))
  <2>1. CASE q = r
    BY <1>8, <2>1
  <2>2. CASE q \in 1 .. k
    <3>1. /\ q \in 1 .. n /\ q < r
      BY <1>7, <1>2, <2>2
    <3>2. o(q) + Word <= o(r) /\ o(q) \in Nat /\ o(r) \in Nat /\ o(r) + Word <= Len(b)
      BY <1>2, <1>3, <1>6, <1>7, <3>1
    <3>3. Len(v(q)) = Word /\ Lies(b, o(q), v(q)) /\ Len(b) \in Nat /\ Word \in Nat
      BY <1>4, <1>6, <2>2, <3>1, Sizes
    <3>4. ASSUME NEW j \in 1 .. Len(v(q)) PROVE c[o(q) + j] = v(q)[j]
      <4>1. o(q) + j \in 1 .. Len(b) /\ o(q) + j <= o(r)
        BY <3>2, <3>3
      <4>2. b[o(q) + j] = v(q)[j]
        BY <3>3 DEF Lies
      <4> QED BY <1>8, <4>1, <4>2
    <3> QED BY <3>4 DEF Lies
  <2> QED BY <1>7, <2>1, <2>2
<1>11. ASSUME NEW x \in 1 .. Len(c), x > Word, \A q \in 1 .. r : x <= o(q) \/ x > o(q) + Word
       PROVE  c[x] = layout.bytes[x]
  <2>1. r \in 1 .. r /\ \A q \in 1 .. k : q \in 1 .. r
    BY <1>7
  <2>2. c[x] = b[x]
    BY <1>8, <1>11, <2>1
  <2>3. \A q \in 1 .. k : x <= o(q) \/ x > o(q) + Word
    BY <1>11, <2>1
  <2> QED BY <1>6, <1>8, <1>11, <2>2, <2>3
<1>12. Patched(layout, c, r)
  BY <1>6, <1>8, <1>9, <1>10, <1>11 DEF Patched, o, v, m
<1> QED
  BY <1>12 DEF c, r

(***************************************************************************)
(* What a linked program consists of: the offset of main in the first word,*)
(* the targets of the calls in the words left for them, and everything else*)
(* as it was laid out.                                                     *)
(***************************************************************************)
LEMMA LinkedPatched ==
    ASSUME NEW layout \in Begun, "@main()" \in DOMAIN layout.labels
    PROVE  Patched(layout, Linked(layout), Len(layout.hints))
<1> DEFINE n == Len(layout.bytes)
           m == Len(layout.hints)
           V == { b \in Seq(Bytes) : Len(b) = n }
           E == { h \in Hints : h.offset + Word <= n }
           step == [p \in V \X E |-> Put(p[1], p[2].offset, Word, Target(layout.labels, p[2].name))]
           entered == Put(layout.bytes, 0, Word, layout.labels["@main()"])
           Eq(f) == f = [k \in 0 .. m |->
                            IF k = 0 THEN entered
                            ELSE Put(f[k - 1], layout.hints[k].offset, Word,
                                     Target(layout.labels, layout.hints[k].name))]
<1>1. layout \in Layouts /\ Sound(layout) /\ n >= Word
  BY DEF Begun, SoundLayouts
<1>2. /\ layout.bytes \in Seq(Bytes) /\ n \in Nat /\ layout.hints \in Seq(Hints) /\ m \in Nat
      /\ layout.labels \in LabelMaps /\ DOMAIN layout.hints = 1 .. m
  BY <1>1, LayoutFields
<1>3. step \in [V \X E -> V]
  <2>1. ASSUME NEW b \in V, NEW h \in E
        PROVE  Put(b, h.offset, Word, Target(layout.labels, h.name)) \in V
    <3>1. Target(layout.labels, h.name) \in Int
      BY <1>2, TargetType
    <3>2. h.offset \in Nat /\ h.offset + Word <= Len(b) /\ b \in Seq(Bytes) /\ Len(b) = n
      BY DEF Hints
    <3> QED BY <3>1, <3>2, PutFacts, Sizes
  <2> QED BY <2>1
<1>4. \A b \in V, h \in E :
          step[<<b, h>>] = Put(b, h.offset, Word, Target(layout.labels, h.name))
  OBVIOUS
<1>5. /\ layout.labels["@main()"] \in Int
      /\ entered \in V /\ Lies(entered, 0, Little(layout.labels["@main()"], Word))
      /\ \A x \in 1 .. n : x > Word => entered[x] = layout.bytes[x]
  <2> DEFINE v == layout.labels["@main()"]
             b == layout.bytes
  <2>1. v \in Int
    <3>1. PICK D \in SUBSET STRING : layout.labels \in [D -> Nat]
      BY <1>2 DEF LabelMaps
    <3>2. v \in Nat
      BY <3>1
    <3> QED BY <3>2
  <2>2. b \in Seq(Bytes) /\ 0 + Word <= Len(b) /\ Word \in Nat /\ 0 \in Nat
    BY <1>1, <1>2, Sizes
  <2> HIDE DEF v, b
  <2>3. /\ Put(b, 0, Word, v) \in Seq(Bytes) /\ Len(Put(b, 0, Word, v)) = Len(b)
        /\ Lies(Put(b, 0, Word, v), 0, Little(v, Word))
        /\ \A x \in 1 .. Len(b) : x <= 0 \/ x > 0 + Word => Put(b, 0, Word, v)[x] = b[x]
    BY <2>1, <2>2, PutFacts
  <2>4. entered = Put(b, 0, Word, v) /\ n = Len(b)
    BY DEF b, v
  <2>5. 0 + Word = Word
    BY <2>2
  <2> QED BY <2>1, <2>3, <2>4, <2>5 DEF v, b
<1>6. layout.hints \in Seq(E)
  <2>1. \A q \in 1 .. m : layout.hints[q] \in E
    BY <1>1, <1>2 DEF Sound
  <2> QED BY <1>2, <2>1
<1> HIDE DEF step, entered, V, E
<1>7. \E g : Eq(g)
  <2>1. PICK g : Runs(g, V, entered, step, layout.hints)
    BY <1>3, <1>5, <1>6, Recursion
  <2>2. g \in [0 .. m -> V] /\ g[0] = entered
    BY <2>1 DEF Runs
  <2>3. ASSUME NEW k \in 1 .. m
        PROVE  g[k] = Put(g[k - 1], layout.hints[k].offset, Word,
                          Target(layout.labels, layout.hints[k].name))
    <3>1. g[k] = step[<<g[k - 1], layout.hints[k]>>]
      BY <2>1 DEF Runs
    <3>2. g[k - 1] \in V /\ layout.hints[k] \in E
      BY <1>6, <2>2
    <3> QED BY <1>4, <3>1, <3>2
  <2>4. Eq(g)
    BY <2>2, <2>3
  <2> QED BY <2>4
<1> DEFINE R == CHOOSE f : Eq(f)
           S == {k \in Nat : k <= m => Patched(layout, R[k], k)}
<1>8. Eq(R)
  BY <1>7
<1>9. Linked(layout) = R[m]
  BY DEF Linked, Running, Target, entered
<1> HIDE DEF R
<1>10. /\ R[0] = entered
       /\ \A k \in 1 .. m : R[k] = Put(R[k - 1], layout.hints[k].offset, Word,
                                      Target(layout.labels, layout.hints[k].name))
  <2>1. 0 \in 0 .. m /\ \A k \in 1 .. m : k \in 0 .. m /\ k # 0
    BY <1>2
  <2> QED BY <1>8, <2>1
<1>11. 0 \in S
  <2>1. 1 .. 0 = {}
    OBVIOUS
  <2>2. entered \in Seq(Bytes) /\ Len(entered) = n
    BY <1>5 DEF V
  <2>3. Patched(layout, entered, 0)
    BY <1>5, <2>1, <2>2 DEF Patched
  <2> QED BY <1>10, <2>3
<1>12. ASSUME NEW k \in Nat, k \in S PROVE k + 1 \in S
  <2> SUFFICES ASSUME k + 1 <= m PROVE Patched(layout, R[k + 1], k + 1)
    OBVIOUS
  <2>1. k <= m /\ k + 1 \in 1 .. m /\ (k + 1) - 1 = k
    BY <1>2
  <2>2. Patched(layout, R[k], k)
    BY <1>12, <2>1
  <2>3. R[k + 1] = Put(R[k], layout.hints[k + 1].offset, Word,
                       Target(layout.labels, layout.hints[k + 1].name))
    BY <1>10, <2>1
  <2> QED BY <2>2, <2>3, PatchNext
<1>13. Nat \subseteq S
  <2> HIDE DEF S
  <2> QED BY <1>11, <1>12, SetInduction
<1> QED
  BY <1>2, <1>9, <1>13

\* What no word was filled in over is as it was laid out.
\* Linking changes no byte but those of the first word and the words of calls.
LEMMA LinkedKeeps ==
    ASSUME NEW layout \in Begun, "@main()" \in DOMAIN layout.labels,
           NEW a \in Nat, a >= Word, NEW s \in Seq(Bytes), a + Len(s) <= Len(layout.bytes),
           Kept(layout, a, Len(s)), Lies(layout.bytes, a, s)
    PROVE  Lies(Linked(layout), a, s)
<1> DEFINE L == Linked(layout)
           o(q) == layout.hints[q].offset
           n == Len(layout.hints)
<1>1. layout \in Layouts
  BY DEF Begun, SoundLayouts
<1>2. /\ n \in Nat /\ DOMAIN layout.hints = 1 .. n
      /\ Len(layout.bytes) \in Nat /\ \A q \in 1 .. n : o(q) \in Nat
  BY <1>1, LayoutFields
<1>3. /\ Len(L) = Len(layout.bytes)
      /\ \A x \in 1 .. Len(L) :
            x > Word /\ (\A q \in 1 .. n : x <= o(q) \/ x > o(q) + Word) => L[x] = layout.bytes[x]
  BY LinkedPatched DEF Patched
<1>4. \A q \in 1 .. n : o(q) + Word <= a \/ a + Len(s) <= o(q)
  BY <1>2 DEF Kept
<1>5. Len(s) \in Nat /\ Word \in Nat
  BY Sizes
<1> HIDE DEF L, o, n
<1>6. ASSUME NEW k \in 1 .. Len(s) PROVE L[a + k] = s[k]
  <2>1. a + k \in 1 .. Len(L) /\ a + k > Word
    BY <1>2, <1>3, <1>5
  <2>2. ASSUME NEW q \in 1 .. n PROVE a + k <= o(q) \/ a + k > o(q) + Word
    <3>1. o(q) \in Nat /\ (o(q) + Word <= a \/ a + Len(s) <= o(q))
      BY <1>2, <1>4
    <3> QED BY <1>5, <3>1
  <2>3. layout.bytes[a + k] = s[k]
    BY DEF Lies
  <2> QED BY <1>3, <2>1, <2>2, <2>3
<1> QED
  BY <1>6 DEF Lies, L

-----------------------------------------------------------------------------
(* The translator. *)

\* Programs the translator is given: their functions as a sequence.
LEMMA Ordered ==
    ASSUME NEW fs \in Programs
    PROVE  /\ InOrder(fs) \in Seq(Functions) /\ Apart(InOrder(fs))
           /\ Layout(fs) = LayoutOf(InOrder(fs))
           /\ Len(LayoutOf(InOrder(fs)).bytes) + RegistersSize < Span(Word)
<1> DEFINE s == InOrder(fs)
           n == Cardinality(fs)
<1>1. /\ IsFiniteSet(fs) /\ fs \subseteq Functions
      /\ \A f, g \in fs : f # g => f.scope # g.scope /\ f.name # g.name
      /\ \A f, g \in fs : \A j \in DOMAIN f.lines :
            IsLabel(f.lines[j]) => f.lines[j].label # g.name
      /\ Len(Layout(fs).bytes) + RegistersSize < Span(Word)
  BY TranslatorConstants
<1>2. \A f \in fs : f.scope \in Nat
  BY <1>1 DEF Functions
<1>3. Scoped(fs)
  BY <1>1, <1>2 DEF Scoped
<1>4. IsOrder(s, fs)
  BY <1>3, InOrderIsOrder
<1>5. n \in Nat
  BY <1>1, FS_CardinalityType
<1> HIDE DEF s, n
<1>6. s \in [1 .. n -> fs] /\ \A i, j \in DOMAIN s : i < j => s[i].scope < s[j].scope
  BY <1>4 DEF IsOrder, n
<1>7. s \in Seq(Functions) /\ Len(s) = n /\ DOMAIN s = 1 .. n
  BY <1>1, <1>5, <1>6
<1>8. ASSUME NEW i \in DOMAIN s, NEW j \in DOMAIN s, i # j PROVE s[i] # s[j]
  <2>1. i \in Int /\ j \in Int
    BY <1>7
  <2>2. s[i].scope \in Nat /\ s[j].scope \in Nat
    BY <1>2, <1>6
  <2>3. s[i].scope # s[j].scope
    BY <1>6, <1>8, <2>1, <2>2
  <2> QED BY <2>3
<1>9. \A i \in DOMAIN s : s[i] \in fs
  BY <1>6
<1>10. Apart(s)
  BY <1>1, <1>8, <1>9 DEF Apart
<1>11. Layout(fs) = LayoutOf(s)
  BY <1>7 DEF Layout, LayoutOf, s, n
<1> QED
  BY <1>1, <1>7, <1>10, <1>11 DEF s

\* A layout with a name in its labels has its first word.
LEMMA LayoutBegun ==
    ASSUME NEW s \in Seq(Functions), NEW x \in DOMAIN LayoutOf(s).labels
    PROVE  LayoutOf(s) \in Begun
<1> DEFINE R == Running(AddFunction, NoLayout, s)
           n == Len(s)
<1>1. /\ R[0] = NoLayout /\ \A k \in 1 .. n : R[k] = AddFunction(R[k - 1], s[k])
      /\ \A k \in 0 .. n : R[k] \in SoundLayouts
  BY RunFunctions
<1>2. n \in Nat /\ \A k \in 1 .. n : s[k] \in Functions
  OBVIOUS
<1>3. LayoutOf(s) = R[n]
  BY DEF LayoutOf
<1> HIDE DEF R, n
<1>4. n # 0
  <2>1. DOMAIN NoLayout.labels = {}
    BY DEF NoLayout
  <2> QED BY <1>1, <1>3, <2>1
<1>5. n \in 1 .. n /\ n - 1 \in 0 .. n
  BY <1>2, <1>4
<1> QED
  BY <1>1, <1>2, <1>3, <1>5, AddFunctionGrows

\* The bytecode is the linked layout, once there is any.
Inv ==
    /\ functions \in Programs
    /\ status \in {"parsed", "translated", "thrown"}
    /\ Translated => "@main()" \in DOMAIN Layout(functions).labels
                     /\ bytecode = Linked(Layout(functions))
    /\ ~Translated => bytecode = <<>>

\* What the translator has left is the linked layout of the functions it was
\* given, with a main among the labels: the invariant the theorems follow from
\* (translate either throws or sets everything it sets).
THEOREM Invariant ==
    Spec => []Inv
<1>1. Init => Inv
  BY DEF Init, Inv, Translated
<1>2. Inv /\ [Next]_vars => Inv'
  <2> SUFFICES ASSUME Inv, [Next]_vars PROVE Inv'
    OBVIOUS
  <2>1. CASE Translate
    <3>1. functions' = functions /\ status = "parsed"
      BY <2>1 DEF Translate
    <3>2. CASE Throws(functions)
      <4>1. status' = "thrown" /\ bytecode' = bytecode
        BY <2>1, <3>2 DEF Translate
      <4> QED BY <3>1, <4>1 DEF Inv, Translated
    <3>3. CASE ~Throws(functions)
      <4>1. status' = "translated" /\ bytecode' = Linked(Layout(functions))
        BY <2>1, <3>3 DEF Translate
      <4>2. "@main()" \in DOMAIN Layout(functions).labels
        BY <3>3 DEF Throws
      <4> QED BY <3>1, <4>1, <4>2 DEF Inv, Translated
    <3> QED BY <3>2, <3>3
  <2>2. CASE UNCHANGED vars
    BY <2>2 DEF vars, Inv, Translated
  <2> QED BY <2>1, <2>2 DEF Next
<1> QED
  BY <1>1, <1>2, PTL DEF Spec

\* What the properties are about: the functions in order, what the layout is,
\* and that their lengths are those of the layout.
LEMMA TranslatedFacts ==
    ASSUME Inv, Translated
    PROVE  /\ Order \in Seq(Functions) /\ Apart(Order) /\ Lengths = LengthsOf(Order)
           /\ LayoutOf(Order) \in Begun /\ "@main()" \in DOMAIN LayoutOf(Order).labels
           /\ bytecode = Linked(LayoutOf(Order))
           /\ Len(LayoutOf(Order).bytes) + RegistersSize < Span(Word)
<1>1. functions \in Programs /\ bytecode = Linked(Layout(functions))
      /\ "@main()" \in DOMAIN Layout(functions).labels
  BY DEF Inv
<1>2. /\ Order \in Seq(Functions) /\ Apart(Order) /\ Layout(functions) = LayoutOf(Order)
      /\ Len(LayoutOf(Order).bytes) + RegistersSize < Span(Word)
  BY <1>1, Ordered DEF Order
<1>3. Lengths = LengthsOf(Order)
  BY DEF Lengths, LengthsOf
<1>4. LayoutOf(Order) \in Begun
  BY <1>1, <1>2, LayoutBegun
<1> QED
  BY <1>1, <1>2, <1>3, <1>4

\* A word that lies in memory is read back.
\* A word that lies in the bytecode is read back as it was written.
LEMMA WordRead ==
    ASSUME NEW m, NEW a \in Nat, NEW v \in Nat, v < Span(Word), Lies(m, a, Little(v, Word))
    PROVE  Value(m, a, Word) = v
<1> DEFINE w == Word
           b == Span(w)
<1>1. w \in Nat /\ w \in 0 .. w
  BY Sizes
<1>2. b \in Nat \ {0}
  BY <1>1, SpanFacts
<1>3. Value(m, a, w) = v % b
  <2> HIDE DEF w
  <2>1. Lies(m, a, Little(v, w))
    BY DEF w
  <2> QED BY <1>1, <2>1, ValueOfLittle
<1>4. v < b
  OBVIOUS
<1> HIDE DEF w, b
<1>5. v % b = v
  BY <1>2, <1>4
<1> QED
  BY <1>3, <1>5 DEF w

(***************************************************************************)
(* The translator's state is well typed: the bytecode consists of bytes.   *)
(***************************************************************************)
THEOREM TypeCorrect ==
    Spec => []TypeOK
<1>1. ASSUME Inv PROVE TypeOK
  <2>1. CASE Translated
    <3>1. bytecode \in Seq(Bytes)
      BY <1>1, <2>1, TranslatedFacts, LinkedPatched DEF Patched
    <3> QED BY <1>1, <3>1 DEF Inv, TypeOK, Bytes
  <2>2. CASE ~Translated
    BY <1>1, <2>2 DEF Inv, TypeOK
  <2> QED BY <2>1, <2>2
<1> QED
  BY <1>1, Invariant, PTL

\* Where functions begin and end, counted in words.
\* Where a function is counted to begin, its name's label is.
LEMMA StartFacts ==
    ASSUME Inv, Translated, NEW i \in DOMAIN Order
    PROVE  /\ i \in 1 .. Len(Order) /\ Order[i] \in Functions
           /\ LengthsOf(Order)[i - 1] \in Nat
           /\ StartOf(i) = LengthsOf(Order)[i - 1] + Word + Word
           /\ StartOf(i) \in Nat /\ StartOf(i) <= Len(LayoutOf(Order).bytes)
           /\ StartOf(i) + RegistersSize < Span(Word)
           /\ i # 1 => LengthsOf(Order)[i - 1] >= Word
<1> DEFINE s == Order
           a == LengthsOf(s)[i - 1]
           n == Len(LayoutOf(s).bytes)
<1>1. /\ s \in Seq(Functions) /\ Apart(s) /\ Lengths = LengthsOf(s)
      /\ n + RegistersSize < Span(Word) /\ LayoutOf(s) \in Layouts
  BY TranslatedFacts DEF Begun, SoundLayouts
<1>2. n \in Nat
  BY <1>1, LayoutFields
<1>3. i \in 1 .. Len(s) /\ s[i] \in Functions /\ i - 1 \in 0 .. Len(s)
  BY <1>1
<1>4. a \in Nat /\ a + 2 * Word <= n
  BY <1>1, <1>3, FunctionPlaced
<1>5. a + 2 * Word = a + Word + Word /\ a + 2 * Word \in Nat
  BY <1>4, TwoWords
<1>6. StartOf(i) = a + 2 * Word
  BY <1>1 DEF StartOf
<1>7. ASSUME i # 1 PROVE a >= Word
  <2> DEFINE R == Running(AddFunction, NoLayout, s)
  <2>1. /\ \A k \in 1 .. Len(s) : R[k] = AddFunction(R[k - 1], s[k])
        /\ \A k \in 0 .. Len(s) : R[k] \in SoundLayouts
    BY <1>1, RunFunctions
  <2>2. \A k \in 0 .. Len(s) : Len(R[k].bytes) = LengthsOf(s)[k]
    BY <1>1, FunctionsGrow
  <2> HIDE DEF R
  <2> DEFINE p == i - 1
  <2>3. p \in 1 .. Len(s) /\ p - 1 \in 0 .. Len(s) /\ p \in 0 .. Len(s) /\ s[p] \in Functions
    BY <1>1, <1>3, <1>7
  <2> HIDE DEF p, s
  <2>4. R[p] \in Begun /\ Len(R[p].bytes) = LengthsOf(s)[p]
    BY <2>1, <2>2, <2>3, AddFunctionGrows
  <2> QED BY <2>4 DEF Begun, p
<1> HIDE DEF n, a, s
<1>8. StartOf(i) + RegistersSize < Span(Word) /\ StartOf(i) <= n
  <2> DEFINE t == StartOf(i)
             w == Span(Word)
  <2>1. t <= n /\ t \in Nat
    BY <1>4, <1>5, <1>6
  <2>2. w \in Nat /\ n + RegistersSize < w
    BY <1>1, SpanFacts, Sizes
  <2> HIDE DEF t, w
  <2>3. t + RegistersSize < w
    BY <1>2, <2>1, <2>2, Sizes
  <2> QED BY <2>1, <2>3 DEF t, w
<1> QED
  BY <1>3, <1>4, <1>5, <1>6, <1>7, <1>8 DEF n, a, s

(***************************************************************************)
(* Exec enters at the first instruction of main.                           *)
(***************************************************************************)
THEOREM MainEntered ==
    Spec => []EntersMain
<1>1. ASSUME Inv, Translated, NEW i \in DOMAIN Order, Order[i].name = "@main()"
      PROVE  WordAt(0) = StartOf(i)
  <2> DEFINE F == LayoutOf(Order)
  <2>1. /\ Order \in Seq(Functions) /\ Apart(Order) /\ Lengths = LengthsOf(Order)
        /\ F \in Begun /\ "@main()" \in DOMAIN F.labels /\ bytecode = Linked(F)
    BY <1>1, TranslatedFacts
  <2>2. /\ i \in 1 .. Len(Order) /\ StartOf(i) \in Nat /\ StartOf(i) + RegistersSize < Span(Word)
    BY <1>1, StartFacts
  <2>3. F.labels[Order[i].name] = LengthsOf(Order)[i - 1] + 2 * Word
    BY <2>1, <2>2, FunctionPlaced, ApartLeads
  <2>4. F.labels["@main()"] = StartOf(i)
    BY <1>1, <2>1, <2>3 DEF StartOf
  <2> HIDE DEF F
  <2>5. Lies(bytecode, 0, Little(StartOf(i), Word))
    BY <2>1, <2>4, LinkedPatched DEF Patched
  <2>6. StartOf(i) < Span(Word)
    <3>1. Span(Word) \in Nat
      BY SpanFacts, Sizes
    <3> HIDE DEF F
    <3> QED BY <2>2, <3>1, Sizes
  <2> QED BY <2>2, <2>5, <2>6, WordRead DEF WordAt
<1>2. Inv => EntersMain
  BY <1>1 DEF EntersMain
<1> QED
  BY <1>2, Invariant, PTL

(***************************************************************************)
(* A call of a function of the program goes to its first instruction.      *)
(***************************************************************************)
THEOREM CallsGoWhereTheyShould ==
    Spec => []CallsResolved
<1>1. ASSUME Inv, Translated, NEW i \in DOMAIN Order, NEW callee \in DOMAIN Order,
             NEW j \in DOMAIN Order[i].lines, Order[i].lines[j] \in Fcalls,
             Order[i].lines[j].target = Order[callee].name
      PROVE  WordAt(OffsetOf(i, j) + InstSize) = StartOf(callee) + RegistersSize
  <2> DEFINE F == LayoutOf(Order)
             line == Order[i].lines[j]
             o == OffsetOf(i, j)
             name == Order[callee].name
             v == StartOf(callee) + RegistersSize
  <2>1. /\ Order \in Seq(Functions) /\ Apart(Order) /\ Lengths = LengthsOf(Order)
        /\ F \in Begun /\ "@main()" \in DOMAIN F.labels /\ bytecode = Linked(F)
    BY <1>1, TranslatedFacts
  <2>2. /\ i \in 1 .. Len(Order) /\ callee \in 1 .. Len(Order)
        /\ Order[i] \in Functions
        /\ StartOf(callee) \in Nat /\ v < Span(Word)
    BY <1>1, StartFacts
  <2>3. ~IsLabel(line)
    <3>1. line \in Lines
      <4>1. Order[i].lines \in Seq(Lines)
        BY <2>2 DEF Functions
      <4> QED BY <4>1
    <3> QED BY <1>1, <3>1, LinesSplit
  <2>4. o = LengthsOf(Order)[i - 1] + 2 * Word + BodyLengths(Order[i])[j - 1]
    BY <2>1 DEF OffsetOf, StartOf
  <2>5. /\ o \in Nat
        /\ \E q \in DOMAIN F.hints : F.hints[q] = [name |-> line.target, offset |-> o + InstSize]
    <3> HIDE DEF o
    <3> QED BY <1>1, <2>1, <2>2, <2>3, <2>4, LinePlaced
  <2>6. name \in DOMAIN F.labels /\ F.labels[name] = LengthsOf(Order)[callee - 1] + 2 * Word
    BY <2>1, <2>2, FunctionPlaced, ApartLeads
  <2>7. Target(F.labels, name) = v
    BY <2>1, <2>6 DEF Target, Offset, StartOf
  <2>8. line.target = name
    BY <1>1
  <2> HIDE DEF F, line, o, name
  <2>9. PICK q \in DOMAIN F.hints : F.hints[q].name = name /\ F.hints[q].offset = o + InstSize
    BY <2>5, <2>8
  <2>10. DOMAIN F.hints = 1 .. Len(F.hints)
    <3>1. F \in Layouts
      BY <2>1 DEF Begun, SoundLayouts
    <3> QED BY <3>1, LayoutFields
  <2>11. Lies(bytecode, F.hints[q].offset, Little(Target(F.labels, F.hints[q].name), Word))
    BY <2>1, <2>9, <2>10, LinkedPatched DEF Patched
  <2>12. Lies(bytecode, o + InstSize, Little(v, Word))
    BY <2>7, <2>9, <2>11
  <2>13. o + InstSize \in Nat /\ v \in Nat
    BY <2>2, <2>5, Sizes
  <2> HIDE DEF v
  <2>14. Value(bytecode, o + InstSize, Word) = v
    BY <2>2, <2>12, <2>13, WordRead
  <2> QED BY <2>14 DEF WordAt, o, v
<1>2. Inv => CallsResolved
  BY <1>1 DEF CallsResolved
<1> QED
  BY <1>2, Invariant, PTL

(***************************************************************************)
(* The sizes ret needs lie in the two words in front of a function, but for*)
(* the argument size of the first one.                                     *)
(***************************************************************************)
THEOREM HeadersKept ==
    Spec => []HeadersInFront
<1>1. ASSUME Inv, Translated, NEW i \in DOMAIN Order
      PROVE  /\ WordAt(StartOf(i) - Word) = Order[i].ret
             /\ i # 1 => WordAt(StartOf(i) - 2 * Word) = Order[i].args
  <2> DEFINE F == LayoutOf(Order)
             f == Order[i]
             a == LengthsOf(Order)[i - 1]
             w == 2 * Word
             p == Little(f.args, Word)
             r == Little(f.ret, Word)
             n == Len(F.bytes)
  <2>1. /\ Order \in Seq(Functions) /\ Apart(Order)
        /\ F \in Begun /\ "@main()" \in DOMAIN F.labels /\ bytecode = Linked(F)
    BY <1>1, TranslatedFacts
  <2>2. /\ i \in 1 .. Len(Order) /\ f \in Functions /\ a \in Nat
        /\ StartOf(i) = a + Word + Word /\ StartOf(i) <= n
        /\ i # 1 => a >= Word
    BY <1>1, StartFacts
  <2>3. /\ Lies(F.bytes, a, p) /\ Lies(F.bytes, a + Word, r) /\ Kept(F, a, w)
    BY <2>1, <2>2, FunctionPlaced
  <2>4. /\ f.args \in Nat /\ f.args < Span(Word) /\ f.ret \in Nat /\ f.ret < Span(Word)
    <3>1. f.args \in Words /\ f.ret \in Words
      BY <2>2 DEF Functions
    <3>2. Span(Word) \in Nat
      BY SpanFacts, Sizes
    <3> QED BY <3>1, <3>2 DEF Words
  <2>5. /\ p \in Seq(Bytes) /\ Len(p) = Word /\ r \in Seq(Bytes) /\ Len(r) = Word
    <3>1. f.args \in Int /\ f.ret \in Int
      BY <2>4
    <3> QED BY <3>1, LittleBytes, Sizes
  <2>6. Word \in Nat /\ a + w = a + Word + Word /\ a + Word \in Nat
    BY <2>2, TwoWords, Sizes
  <2>7. F \in Layouts
    BY <2>1 DEF Begun, SoundLayouts
  <2>8. n \in Nat /\ DOMAIN F.hints = 1 .. Len(F.hints) /\ \A q \in 1 .. Len(F.hints) : F.hints[q].offset \in Nat
    BY <2>7, LayoutFields
  <2> HIDE DEF F, f, a, w, p, r, n
  <2>9. Kept(F, a, Word) /\ Kept(F, a + Word, Word)
    <3>1. ASSUME NEW q \in DOMAIN F.hints
          PROVE  /\ F.hints[q].offset + Word <= a \/ a + Word <= F.hints[q].offset
                 /\ F.hints[q].offset + Word <= a + Word \/ a + Word + Word <= F.hints[q].offset
      <4> DEFINE o == F.hints[q].offset
      <4>1. o \in Nat
        BY <2>8
      <4>2. o + Word <= a \/ a + w <= o
        BY <2>3 DEF Kept
      <4> HIDE DEF o
      <4>3. /\ o + Word <= a \/ a + Word <= o
            /\ o + Word <= a + Word \/ a + Word + Word <= o
        BY <2>2, <2>6, <4>1, <4>2
      <4> QED BY <4>3 DEF o
    <3> QED BY <3>1 DEF Kept
  <2>10. StartOf(i) - Word = a + Word /\ StartOf(i) - w = a
    <3> DEFINE t == StartOf(i)
    <3>1. t = a + Word + Word /\ t = a + w /\ w \in Nat
      BY <2>2, <2>6, Sizes DEF w
    <3> HIDE DEF t
    <3> QED BY <2>2, <2>6, <3>1 DEF t
  <2>11. WordAt(StartOf(i) - Word) = f.ret
    <3> DEFINE b == a + Word
    <3>1. b \in Nat /\ b >= Word /\ b + Len(r) <= n
      BY <2>2, <2>5, <2>6
    <3>2. Kept(F, b, Len(r)) /\ Lies(F.bytes, b, r)
      BY <2>3, <2>5, <2>9
    <3> HIDE DEF b
    <3>3. Lies(bytecode, b, r)
      BY <2>1, <2>5, <3>1, <3>2, LinkedKeeps DEF n
    <3>4. Value(bytecode, b, Word) = f.ret
      BY <2>4, <3>1, <3>3, WordRead DEF r
    <3> QED BY <2>10, <3>4 DEF WordAt, b
  <2>12. ASSUME i # 1 PROVE WordAt(StartOf(i) - w) = f.args
    <3>1. a >= Word /\ a + Len(p) <= n /\ Kept(F, a, Len(p))
      <4>1. a + Word <= n
        BY <2>2, <2>6, <2>8
      <4> QED BY <2>2, <2>5, <2>9, <2>12, <4>1
    <3>2. Lies(bytecode, a, p)
      BY <2>1, <2>2, <2>3, <2>5, <3>1, LinkedKeeps DEF n
    <3>3. Value(bytecode, a, Word) = f.args
      BY <2>2, <2>4, <3>2, WordRead DEF p
    <3> QED BY <2>10, <3>3 DEF WordAt
  <2> QED BY <2>11, <2>12 DEF f, w
<1>2. Inv => HeadersInFront
  BY <1>1 DEF HeadersInFront
<1> QED
  BY <1>2, Invariant, PTL

(***************************************************************************)
(* Every instruction is read back from where it should lie.                *)
(***************************************************************************)
THEOREM InstructionsDecode ==
    Spec => []Decodes
<1>1. ASSUME Inv, Translated, NEW i \in DOMAIN Order, NEW j \in DOMAIN Order[i].lines,
             ~IsLabel(Order[i].lines[j])
      PROVE  /\ \E known \in Instructions :
                   /\ known.code = Value(bytecode, OffsetOf(i, j), InstSize - 1)
                   /\ known.name = Order[i].lines[j].name
                   /\ known.size = Order[i].lines[j].size /\ known.sign = Order[i].lines[j].sign
             /\ Order[i].lines[j] \in Others =>
                   \A k \in 1 .. 3 :
                       (bytecode[OffsetOf(i, j) + InstSize] \div <<1, 4, 16>>[k]) % 4
                           = ArgKind(Order[i].lines[j].args, k)
  <2> DEFINE F == LayoutOf(Order)
             line == Order[i].lines[j]
             o == OffsetOf(i, j)
             mask == MaskOf(line)
             c == CodeBytes(line, mask)
             code == CodeOf(line.name, line.size, line.sign)
             v == code + mask * Span(InstSize - 1)
  <2>1. /\ Order \in Seq(Functions) /\ Lengths = LengthsOf(Order)
        /\ F \in Begun /\ "@main()" \in DOMAIN F.labels /\ bytecode = Linked(F)
    BY <1>1, TranslatedFacts
  <2>2. /\ i \in 1 .. Len(Order) /\ Order[i] \in Functions
        /\ LengthsOf(Order)[i - 1] \in Nat /\ StartOf(i) = LengthsOf(Order)[i - 1] + Word + Word
    BY <1>1, StartFacts
  <2>3. o = LengthsOf(Order)[i - 1] + 2 * Word + BodyLengths(Order[i])[j - 1]
    BY <2>1 DEF OffsetOf, StartOf
  <2>4. /\ o \in Nat /\ line \in Lines /\ o + InstSize <= Len(F.bytes)
        /\ Lies(F.bytes, o, c) /\ Kept(F, o, InstSize)
    <3> HIDE DEF o
    <3> QED BY <1>1, <2>1, <2>2, <2>3, LinePlaced
  <2>5. o >= Word
    <3> DEFINE b == BodyLengths(Order[i])[j - 1]
    <3>1. b \in Nat
      <4>1. Order[i].lines \in Seq(Lines)
        BY <2>2 DEF Functions
      <4>2. j - 1 \in 0 .. Len(Order[i].lines)
        BY <4>1
      <4> QED BY <4>1, <4>2, RunBody
    <3>2. o = StartOf(i) + b
      BY DEF OffsetOf
    <3> HIDE DEF b, o
    <3> QED BY <2>2, <3>1, <3>2, Sizes
  <2>6. InTable(line) /\ mask \in 0 .. 63
    BY <1>1, <2>4, LinesSplit, MaskRange
  <2> HIDE DEF F, line, o, mask
  <2>7. c \in Seq(Bytes) /\ Len(c) = InstSize /\ c[InstSize] = mask
    BY <2>6, CodeBytesFacts
  <2>8. PICK known \in Instructions :
           /\ known.name = line.name /\ known.size = line.size /\ known.sign = line.sign
           /\ known.code = code /\ known.code \in 0 .. Span(InstSize - 1) - 1
    BY <2>6, CodeKnown
  <2>9. v \in Nat /\ v % Span(InstSize - 1) = code
    BY <2>6, <2>8, CodeAndMask
  <2>10. c = Little(v, InstSize)
    BY DEF CodeBytes
  <2> HIDE DEF c
  <2>11. Lies(bytecode, o, c)
    BY <2>1, <2>4, <2>5, <2>7, LinkedKeeps
  <2>12. Value(bytecode, o, InstSize - 1) = code
    <3> HIDE DEF v
    <3>1. InstSize \in Nat /\ InstSize - 1 \in 0 .. InstSize /\ Lies(bytecode, o, Little(v, InstSize))
      BY <2>10, <2>11, Sizes
    <3> QED BY <2>4, <2>9, <3>1, ValueOfLittle
  <2>13. bytecode[o + InstSize] = mask
    <3>1. InstSize \in 1 .. Len(c)
      BY <2>7, Sizes
    <3> QED BY <2>7, <2>11, <3>1 DEF Lies
  <2>14. line \in Others => \A k \in 1 .. 3 : (mask \div <<1, 4, 16>>[k]) % 4 = ArgKind(line.args, k)
    BY MaskRange DEF mask
  <2>15. \E known_ \in Instructions :
            /\ known_.code = Value(bytecode, o, InstSize - 1) /\ known_.name = line.name
            /\ known_.size = line.size /\ known_.sign = line.sign
    BY <2>8, <2>12
  <2> QED BY <2>13, <2>14, <2>15 DEF line, o
<1>2. Inv => Decodes
  BY <1>1 DEF Decodes
<1> QED
  BY <1>2, Invariant, PTL

-----------------------------------------------------------------------------
(* What the labels of a layout stand for. *)

\* A line gives a place to its label only, its own.
LEMMA LinePlaces ==
    ASSUME NEW acc \in Layouts, NEW line \in Lines, NEW x \in DOMAIN AddLine(acc, line).labels
    PROVE  \/ x \in DOMAIN acc.labels /\ AddLine(acc, line).labels[x] = acc.labels[x]
           \/ IsLabel(line) /\ line.label = x /\ AddLine(acc, line).labels[x] = Len(acc.bytes)
<1>1. CASE IsLabel(line)
  <2> DEFINE o == Len(acc.bytes)
             name == line.label
             map == acc.labels
             e == Emplace(map, name, o)
  <2>1. AddLine(acc, line).labels = e /\ name \in STRING
    BY <1>1, AddLabelFacts
  <2>2. map \in LabelMaps /\ o \in Nat
    BY LayoutFields
  <2> HIDE DEF o, name, map
  <2>3. /\ DOMAIN e = DOMAIN map \cup {name} /\ \A n \in DOMAIN map : e[n] = map[n]
        /\ name \notin DOMAIN map => e[name] = o
    BY <2>1, <2>2, EmplaceFacts
  <2> HIDE DEF e
  <2>4. \/ x \in DOMAIN map /\ e[x] = map[x]
        \/ name = x /\ e[x] = o
    BY <2>1, <2>3
  <2> QED BY <1>1, <2>1, <2>4 DEF map, name, o
<1>2. CASE ~IsLabel(line)
  BY <1>2, AddInstFacts
<1> QED
  BY <1>1, <1>2

\* A header gives a place to the name of its function only.
LEMMA HeaderPlaces ==
    ASSUME NEW acc \in SoundLayouts, NEW f \in Functions, NEW x \in DOMAIN AddHeader(acc, f).labels
    PROVE  \/ x \in DOMAIN acc.labels /\ AddHeader(acc, f).labels[x] = acc.labels[x]
           \/ f.name = x /\ AddHeader(acc, f).labels[x] = Len(acc.bytes) + 2 * Word
<1> DEFINE o == Len(acc.bytes) + 2 * Word
           map == acc.labels
           e == Emplace(map, f.name, o)
<1>1. f.name \in STRING
  BY DEF Functions
<1>2. map \in LabelMaps /\ o \in Nat
  BY LayoutFields, TwoWords DEF SoundLayouts
<1>3. AddHeader(acc, f).labels = e
  BY HeaderFacts
<1> HIDE DEF o, map
<1>4. /\ DOMAIN e = DOMAIN map \cup {f.name} /\ \A n \in DOMAIN map : e[n] = map[n]
      /\ f.name \notin DOMAIN map => e[f.name] = o
  BY <1>1, <1>2, EmplaceFacts
<1> HIDE DEF e
<1> QED
  BY <1>3, <1>4 DEF o, map

\* The names that the first k lines of f, which begins behind a, have given
\* places: those of a, and their labels, each its own place.
LinesNamed(a, b, f, k) ==
    /\ \A x \in DOMAIN b.labels :
          \/ x \in DOMAIN a.labels /\ b.labels[x] = a.labels[x]
          \/ \E j \in 1 .. k : /\ IsLabel(f.lines[j]) /\ f.lines[j].label = x
                              /\ b.labels[x] = Len(a.bytes) + BodyLengths(f)[j - 1]
    /\ \A j \in 1 .. k : IsLabel(f.lines[j]) => f.lines[j].label \in DOMAIN b.labels

\* After its first k lines a function has named those of its labels.
LEMMA BodyPlaces ==
    ASSUME NEW acc \in Begun, NEW f, f.lines \in Seq(Lines), NEW k \in 0 .. Len(f.lines)
    PROVE  LinesNamed(acc, Running(AddLine, acc, f.lines)[k], f, k)
<1> DEFINE R == Running(AddLine, acc, f.lines)
           m == Len(f.lines)
           o(j) == Len(acc.bytes) + BodyLengths(f)[j - 1]
           Known(n, x) == \/ x \in DOMAIN acc.labels /\ R[n].labels[x] = acc.labels[x]
                          \/ \E j \in 1 .. n : /\ IsLabel(f.lines[j]) /\ f.lines[j].label = x
                                               /\ R[n].labels[x] = o(j)
           S == {n \in Nat : n <= m => \A x \in DOMAIN R[n].labels : Known(n, x)}
<1>1. /\ R[0] = acc /\ \A n \in 1 .. m : R[n] = AddLine(R[n - 1], f.lines[n])
      /\ \A n \in 0 .. m : R[n] \in Begun
  BY RunLines
<1>2. /\ \A n \in 0 .. m : Len(R[n].bytes) = Len(acc.bytes) + BodyLengths(f)[n]
      /\ \A i, n \in 0 .. m : i <= n => Grows(R[i], R[n])
  BY LinesGrow
<1>3. m \in Nat /\ \A n \in 1 .. m : f.lines[n] \in Lines
  OBVIOUS
<1> HIDE DEF R, m, o
<1>4. 0 \in S
  BY <1>1
<1>5. ASSUME NEW n \in Nat, n \in S PROVE n + 1 \in S
  <2> SUFFICES ASSUME n + 1 <= m, NEW x \in DOMAIN R[n + 1].labels PROVE Known(n + 1, x)
    OBVIOUS
  <2> DEFINE line == f.lines[n + 1]
  <2>1. n + 1 \in 1 .. m /\ (n + 1) - 1 = n /\ n \in 0 .. m /\ n <= m
    BY <1>3
  <2>2. \A y \in DOMAIN R[n].labels : Known(n, y)
    BY <1>5, <2>1
  <2>3. R[n + 1] = AddLine(R[n], line) /\ R[n] \in Layouts /\ line \in Lines
    BY <1>1, <1>3, <2>1 DEF Begun, SoundLayouts
  <2>4. Len(R[n].bytes) = o(n + 1)
    BY <1>2, <2>1 DEF o
  <2> HIDE DEF line
  <2>5. \/ x \in DOMAIN R[n].labels /\ R[n + 1].labels[x] = R[n].labels[x]
        \/ IsLabel(line) /\ line.label = x /\ R[n + 1].labels[x] = o(n + 1)
    BY <2>3, <2>4, LinePlaces
  <2>6. CASE x \in DOMAIN R[n].labels /\ R[n + 1].labels[x] = R[n].labels[x]
    <3>1. Known(n, x)
      BY <2>2, <2>6
    <3>2. \A j \in 1 .. n : j \in 1 .. n + 1
      OBVIOUS
    <3> QED BY <2>6, <3>1, <3>2
  <2>7. CASE IsLabel(line) /\ line.label = x /\ R[n + 1].labels[x] = o(n + 1)
    <3>1. n + 1 \in 1 .. n + 1
      OBVIOUS
    <3> QED BY <2>7, <3>1 DEF line
  <2> QED BY <2>5, <2>6, <2>7
<1>6. Nat \subseteq S
  <2> HIDE DEF S
  <2> QED BY <1>4, <1>5, SetInduction
<1>7. \A x \in DOMAIN R[k].labels : Known(k, x)
  <2>1. k \in Nat /\ k <= m
    BY <1>3 DEF m
  <2> QED BY <1>6, <2>1
<1>8. ASSUME NEW j \in 1 .. k, IsLabel(f.lines[j]) PROVE f.lines[j].label \in DOMAIN R[k].labels
  <2> DEFINE line == f.lines[j]
  <2>1. j \in 1 .. m /\ j \in 0 .. m /\ j - 1 \in 0 .. m /\ k \in 0 .. m /\ j <= k
    BY <1>3 DEF m
  <2>2. R[j] = AddLine(R[j - 1], line) /\ R[j - 1] \in Layouts /\ line \in Lines /\ IsLabel(line)
    BY <1>1, <1>3, <1>8, <2>1 DEF Begun, SoundLayouts
  <2> HIDE DEF line
  <2>3. line.label \in DOMAIN R[j].labels
    BY <2>2, LabelNames
  <2>4. Grows(R[j], R[k])
    BY <1>2, <2>1
  <2> QED BY <2>3, <2>4 DEF Grows, line
<1> QED
  BY <1>7, <1>8 DEF R, o, LinesNamed

\* Where a function and its j-th line begin.
Start(s, i) == LengthsOf(s)[i - 1] + 2 * Word
At(s, i, j) == Start(s, i) + BodyLengths(s[i])[j - 1]

\* What a name stands for: functions of that name and labels.
Places(s, x) ==
    { Start(s, i) : i \in { k \in DOMAIN s : s[k].name = x } }
       \cup UNION { { At(s, i, j) : j \in { k \in DOMAIN s[i].lines :
                                           IsLabel(s[i].lines[k]) /\ s[i].lines[k].label = x } } :
                    i \in DOMAIN s }

\* What a function adds to the labels are places of its own.
LEMMA FunctionPlaces ==
    ASSUME NEW s \in Seq(Functions), NEW i \in 1 .. Len(s), NEW acc \in SoundLayouts,
           Len(acc.bytes) = LengthsOf(s)[i - 1], NEW x \in DOMAIN AddFunction(acc, s[i]).labels
    PROVE  \/ x \in DOMAIN acc.labels /\ AddFunction(acc, s[i]).labels[x] = acc.labels[x]
           \/ AddFunction(acc, s[i]).labels[x] \in Places(s, x)
<1> DEFINE f == s[i]
           h == AddHeader(acc, f)
           m == Len(f.lines)
           g == AddFunction(acc, f)
<1>1. i \in DOMAIN s /\ f \in Functions
  OBVIOUS
<1>2. f.lines \in Seq(Lines)
  BY <1>1 DEF Functions
<1>3. m \in 0 .. m /\ DOMAIN f.lines = 1 .. m
  BY <1>2
<1>4. h \in Begun /\ Len(h.bytes) = Start(s, i)
  BY <1>1, HeaderFacts DEF Start
<1>5. \A y \in DOMAIN h.labels : \/ y \in DOMAIN acc.labels /\ h.labels[y] = acc.labels[y]
                                 \/ f.name = y /\ h.labels[y] = Start(s, i)
  BY <1>1, HeaderPlaces DEF Start
<1> HIDE DEF h
<1>6. g = Running(AddLine, h, f.lines)[m]
  BY DEF AddFunction, h
<1>7. \/ x \in DOMAIN h.labels /\ g.labels[x] = h.labels[x]
      \/ \E j \in 1 .. m : /\ IsLabel(f.lines[j]) /\ f.lines[j].label = x
                          /\ g.labels[x] = Len(h.bytes) + BodyLengths(f)[j - 1]
  <2>1. LinesNamed(h, g, f, m)
    <3>1. LinesNamed(h, Running(AddLine, h, f.lines)[m], f, m)
      <4> HIDE DEF f
      <4> QED BY <1>2, <1>3, <1>4, BodyPlaces
    <3> HIDE DEF g
    <3> QED BY <1>6, <3>1
  <2>2. x \in DOMAIN g.labels
    OBVIOUS
  <2> HIDE DEF g
  <2> QED BY <2>1, <2>2 DEF LinesNamed
<1> HIDE DEF g
<1>8. CASE x \in DOMAIN h.labels /\ g.labels[x] = h.labels[x]
  <2>1. CASE x \in DOMAIN acc.labels /\ h.labels[x] = acc.labels[x]
    BY <1>8, <2>1 DEF g
  <2>2. CASE f.name = x /\ h.labels[x] = Start(s, i)
    <3>1. g.labels[x] \in Places(s, x)
      BY <1>1, <1>8, <2>2 DEF Places
    <3> QED BY <3>1 DEF g
  <2> QED BY <1>5, <1>8, <2>1, <2>2
<1>9. CASE \E j \in 1 .. m : /\ IsLabel(f.lines[j]) /\ f.lines[j].label = x
                            /\ g.labels[x] = Len(h.bytes) + BodyLengths(f)[j - 1]
  <2>1. PICK j \in DOMAIN f.lines : /\ IsLabel(f.lines[j]) /\ f.lines[j].label = x
                                   /\ g.labels[x] = At(s, i, j)
    BY <1>3, <1>4, <1>9 DEF At
  <2>2. g.labels[x] \in Places(s, x)
    BY <1>1, <2>1 DEF Places
  <2> QED BY <2>2 DEF g
<1> QED
  BY <1>7, <1>8, <1>9

(***************************************************************************)
(* A label stands for a place of its name, and every name of a function or *)
(* of a label is one.                                                      *)
(***************************************************************************)
LEMMA LabelsPlaced ==
    ASSUME NEW s \in Seq(Functions)
    PROVE  /\ \A x \in DOMAIN LayoutOf(s).labels : LayoutOf(s).labels[x] \in Places(s, x)
           /\ \A x : Places(s, x) # {} => x \in DOMAIN LayoutOf(s).labels
<1> DEFINE R == Running(AddFunction, NoLayout, s)
           n == Len(s)
           F == LayoutOf(s)
           S == {k \in Nat : k <= n => \A x \in DOMAIN R[k].labels : R[k].labels[x] \in Places(s, x)}
<1>1. /\ R[0] = NoLayout /\ \A k \in 1 .. n : R[k] = AddFunction(R[k - 1], s[k])
      /\ \A k \in 0 .. n : R[k] \in SoundLayouts
  BY RunFunctions
<1>2. \A k \in 0 .. n : Len(R[k].bytes) = LengthsOf(s)[k]
  BY FunctionsGrow
<1>3. n \in Nat /\ n \in 0 .. n /\ DOMAIN s = 1 .. n /\ \A k \in 1 .. n : s[k] \in Functions
  OBVIOUS
<1>4. F = R[n]
  BY DEF LayoutOf
<1> HIDE DEF R, F
<1>5. 0 \in S
  <2>1. DOMAIN NoLayout.labels = {}
    BY DEF NoLayout
  <2> QED BY <1>1, <2>1
<1>6. ASSUME NEW k \in Nat, k \in S PROVE k + 1 \in S
  <2> SUFFICES ASSUME k + 1 <= n, NEW x \in DOMAIN R[k + 1].labels PROVE R[k + 1].labels[x] \in Places(s, x)
    OBVIOUS
  <2> DEFINE i == k + 1
  <2>1. i \in 1 .. n /\ i - 1 = k /\ k \in 0 .. n /\ k <= n
    BY <1>3
  <2>2. \A y \in DOMAIN R[k].labels : R[k].labels[y] \in Places(s, y)
    BY <1>6, <2>1
  <2> HIDE DEF i, S
  <2>3. R[i] = AddFunction(R[k], s[i]) /\ R[k] \in SoundLayouts /\ Len(R[k].bytes) = LengthsOf(s)[i - 1]
    BY <1>1, <1>2, <2>1
  <2>4. x \in DOMAIN R[i].labels
    BY DEF i
  <2>5. \/ x \in DOMAIN R[k].labels /\ R[i].labels[x] = R[k].labels[x]
        \/ R[i].labels[x] \in Places(s, x)
    BY <2>1, <2>3, <2>4, FunctionPlaces
  <2>6. R[i].labels[x] \in Places(s, x)
    BY <2>2, <2>5
  <2> QED BY <2>6 DEF i
<1>7. \A x \in DOMAIN F.labels : F.labels[x] \in Places(s, x)
  <2>1. Nat \subseteq S
    <3> HIDE DEF S
    <3> QED BY <1>5, <1>6, SetInduction
  <2> QED BY <1>3, <1>4, <2>1
<1>8. ASSUME NEW x, Places(s, x) # {} PROVE x \in DOMAIN F.labels
  <2>1. \/ \E i \in DOMAIN s : s[i].name = x
        \/ \E i \in DOMAIN s : \E j \in DOMAIN s[i].lines :
               IsLabel(s[i].lines[j]) /\ s[i].lines[j].label = x
    BY <1>8, Zenon DEF Places
  <2>2. ASSUME NEW i \in DOMAIN s, s[i].name = x PROVE x \in DOMAIN F.labels
    BY <1>3, <2>2, FunctionPlaced DEF F
  <2>3. ASSUME NEW i \in DOMAIN s, NEW j \in DOMAIN s[i].lines,
               IsLabel(s[i].lines[j]), s[i].lines[j].label = x
        PROVE  x \in DOMAIN F.labels
    <3> DEFINE f == s[i]
               before == R[i - 1]
               h == AddHeader(before, f)
               m == Len(f.lines)
               L == Running(AddLine, h, f.lines)
    <3>1. f \in Functions
      BY <1>3
    <3>2. f.lines \in Seq(Lines)
      BY <3>1 DEF Functions
    <3>3. j \in 1 .. m /\ j \in 0 .. m /\ j \in 1 .. j
      BY <3>2
    <3>4. h \in Begun /\ Grows(L[j], F)
      BY <1>3, <3>3, Stages DEF F, R
    <3> HIDE DEF h
    <3>5. LinesNamed(h, L[j], f, j)
      BY <3>2, <3>3, <3>4, BodyPlaces
    <3>6. f.lines[j].label \in DOMAIN L[j].labels
      BY <2>3, <3>3, <3>5 DEF LinesNamed
    <3> QED BY <2>3, <3>4, <3>6 DEF Grows
  <2> QED BY <2>1, <2>2, <2>3
<1> QED
  BY <1>7, <1>8 DEF F

-----------------------------------------------------------------------------
(* Reading numbers back. *)

\* A signed number that its bytes can hold is read back with its sign.
LEMMA SignedBack ==
    ASSUME NEW n \in Nat, NEW v \in Int, -Span(n) <= 2 * v, 2 * v < Span(n)
    PROVE  Signed(v % Span(n), n) = v
<1> DEFINE b == Span(n)
<1>1. b \in Nat \ {0}
  BY SpanFacts
<1> HIDE DEF b
<1>2. CASE v >= 0
  <2>1. v % b = v
    <3>1. v \in 0 .. b - 1 /\ 0 \in Int /\ b * 0 + v = v
      BY <1>1, <1>2 DEF b
    <3> QED BY <1>1, <3>1, DivUnique
  <2> QED BY <1>2, <2>1 DEF Signed, b
<1>3. CASE v < 0
  <2>1. v % b = v + b
    <3>1. v + b \in 0 .. b - 1 /\ -1 \in Int /\ b * (-1) + (v + b) = v
      BY <1>1, <1>3 DEF b
    <3> QED BY <1>1, <3>1, DivUnique
  <2>2. ~(2 * (v + b) < b)
    BY <1>1, <1>3 DEF b
  <2>3. (v + b) - b = v
    BY <1>1
  <2> QED BY <2>1, <2>2, <2>3 DEF Signed, b
<1> QED
  BY <1>2, <1>3

\* Words are numbers.
LEMMA WordsFacts ==
    Span(Word) \in Nat /\ \A v \in Words : v \in Nat /\ v < Span(Word)
<1> DEFINE b == Span(Word)
<1>1. b \in Nat
  BY SpanFacts, Sizes
<1>2. Words = 0 .. b - 1
  BY DEF Words
<1> HIDE DEF b
<1>3. \A v \in 0 .. b - 1 : v \in Nat /\ v < b
  BY <1>1
<1> QED
  BY <1>1, <1>2, <1>3 DEF b

\* What lies somewhere in two parts.
LEMMA LiesConcat ==
    ASSUME NEW m, NEW a \in Nat, NEW s \in Seq(Bytes), NEW t \in Seq(Bytes), Lies(m, a, s \o t)
    PROVE  Lies(m, a, s) /\ Lies(m, a + Len(s), t)
<1>1. /\ s \o t \in Seq(Bytes) /\ Len(s \o t) = Len(s) + Len(t)
      /\ \A x \in 1 .. Len(s) : (s \o t)[x] = s[x]
      /\ \A x \in 1 .. Len(t) : (s \o t)[Len(s) + x] = t[x]
  BY Joint
<1>2. \A k \in 1 .. Len(s) + Len(t) : m[a + k] = (s \o t)[k]
  BY <1>1 DEF Lies
<1>3. Len(s) \in Nat /\ Len(t) \in Nat
  OBVIOUS
<1>4. ASSUME NEW k \in 1 .. Len(s) PROVE m[a + k] = s[k]
  BY <1>1, <1>2, <1>3
<1>5. ASSUME NEW k \in 1 .. Len(t) PROVE m[a + Len(s) + k] = t[k]
  <2>1. Len(s) + k \in 1 .. Len(s) + Len(t) /\ a + (Len(s) + k) = a + Len(s) + k
    BY <1>3
  <2> QED BY <1>1, <1>2, <2>1
<1> QED
  BY <1>4, <1>5 DEF Lies

\* Where the k-th operand of an instruction lies behind its code.
ArgOffset(inst, k) ==
    LET w(n) == Width(ArgKind(inst.args, n), inst.size)
    IN <<0, w(1), w(1) + w(2)>>[k]

\* The bytes of an operand lie behind the code and the operands before it.
LEMMA ArgsLie ==
    ASSUME NEW m, NEW o \in Nat, NEW inst \in Others, InTable(inst), Lies(m, o, InstBytes(inst)),
           NEW k \in DOMAIN inst.args
    PROVE  /\ inst.args[k] \in Operands /\ inst.size \in Nat /\ k \in 1 .. 3
           /\ ArgOffset(inst, k) \in Nat
           /\ Lies(m, o + InstSize + ArgOffset(inst, k), OperandBytes(inst.args[k], inst.size))
<1> DEFINE c == CodeBytes(inst, Mask(inst.args))
           p == ArgBytes(inst, 1)
           q == ArgBytes(inst, 2)
           r == ArgBytes(inst, 3)
           w(n) == Width(ArgKind(inst.args, n), inst.size)
<1>1. /\ inst.args \in Seq(Operands) /\ Len(inst.args) <= 3 /\ inst.size \in Nat
      /\ inst.name \notin {"fcall", "ncall"}
  BY DEF Others
<1>2. k \in 1 .. 3 /\ inst.args[k] \in Operands
  BY <1>1
<1>3. c \in Seq(Bytes) /\ Len(c) = InstSize
  <2>1. MaskOf(inst) = Mask(inst.args) /\ MaskOf(inst) \in 0 .. 63
    BY MaskRange DEF MaskOf
  <2> QED BY <2>1, CodeBytesFacts
<1>4. /\ p \in Seq(Bytes) /\ Len(p) = w(1)
      /\ q \in Seq(Bytes) /\ Len(q) = w(2)
      /\ r \in Seq(Bytes) /\ Len(r) = w(3)
  BY ArgBytesLength
<1>5. InstBytes(inst) = ((c \o p) \o q) \o r
  BY <1>1 DEF InstBytes
<1>6. ArgBytes(inst, k) = OperandBytes(inst.args[k], inst.size)
  BY DEF ArgBytes
<1> HIDE DEF c, p, q, r, w
<1>7. w(1) \in Nat /\ w(2) \in Nat /\ w(3) \in Nat
  BY <1>4
<1>8. c \o p \in Seq(Bytes) /\ Len(c \o p) = InstSize + w(1)
  <2>1. c \o p \in Seq(Bytes) /\ Len(c \o p) = Len(c) + Len(p)
    BY <1>3, <1>4, ConcatElements
  <2> QED BY <1>3, <1>4, <2>1
<1> DEFINE d == c \o p
<1> HIDE DEF d
<1>9. d \o q \in Seq(Bytes) /\ Len(d \o q) = InstSize + w(1) + w(2)
  <2>1. d \in Seq(Bytes) /\ Len(d) = InstSize + w(1)
    BY <1>8 DEF d
  <2>2. d \o q \in Seq(Bytes) /\ Len(d \o q) = Len(d) + Len(q)
    BY <1>4, <2>1, ConcatElements
  <2> QED BY <1>4, <2>1, <2>2
<1>10. Lies(m, o, (c \o p) \o q) /\ Lies(m, o + (InstSize + w(1) + w(2)), r)
  <2>1. Lies(m, o, (d \o q) \o r)
    BY <1>5 DEF d
  <2>2. Lies(m, o, d \o q) /\ Lies(m, o + Len(d \o q), r)
    BY <1>4, <1>9, <2>1, LiesConcat
  <2> QED BY <1>9, <2>2 DEF d
<1>11. Lies(m, o, c \o p) /\ Lies(m, o + (InstSize + w(1)), q)
  BY <1>4, <1>8, <1>10, LiesConcat
<1>12. Lies(m, o + InstSize, p)
  BY <1>3, <1>4, <1>11, LiesConcat
<1>13. ArgOffset(inst, k) = <<0, w(1), w(1) + w(2)>>[k]
  BY DEF ArgOffset, w
<1>14. InstSize \in Nat
  BY Sizes
<1>15. CASE k = 1
  <2>1. ArgOffset(inst, k) = 0 /\ o + InstSize + 0 = o + InstSize
    BY <1>13, <1>14, <1>15
  <2> QED BY <1>1, <1>2, <1>6, <1>12, <1>15, <2>1 DEF p
<1>16. CASE k = 2
  <2>1. ArgOffset(inst, k) = w(1) /\ o + InstSize + w(1) = o + (InstSize + w(1))
    BY <1>7, <1>13, <1>14, <1>16
  <2> QED BY <1>1, <1>2, <1>6, <1>7, <1>11, <1>16, <2>1 DEF q
<1>17. CASE k = 3
  <2>1. ArgOffset(inst, k) = w(1) + w(2)
        /\ o + InstSize + (w(1) + w(2)) = o + (InstSize + w(1) + w(2)) /\ w(1) + w(2) \in Nat
    BY <1>7, <1>13, <1>14, <1>17
  <2> QED BY <1>1, <1>2, <1>6, <1>10, <1>17, <2>1 DEF r
<1> QED
  BY <1>2, <1>15, <1>16, <1>17

\* What an operand reads as, by its kind.
OperandReads(m, at, arg, size) ==
    /\ arg.kind = Fixed => Value(m, at, size) = arg.value % Span(size)
    /\ arg.kind = Relative => Value(m, at, Word) = arg.base
    /\ arg.kind = RelativeWithDiff =>
          /\ Value(m, at, Word) = arg.base
          /\ -Span(Word) <= 2 * arg.value /\ 2 * arg.value < Span(Word)
                => Signed(Value(m, at + Word, Word), Word) = arg.value

\* An operand is read back from its bytes.
LEMMA OperandRead ==
    ASSUME NEW m, NEW at \in Nat, NEW arg \in Operands, NEW size \in Nat,
           arg.kind \in {Relative, RelativeWithDiff} => arg.base \in Words,
           Lies(m, at, OperandBytes(arg, size))
    PROVE  OperandReads(m, at, arg, size)
<1> USE DEF Empty, Relative, RelativeWithDiff, Fixed
<1>0. Word \in Nat /\ Word \in 0 .. Word /\ size \in 0 .. size
  BY Sizes
<1>1. CASE arg \in [kind : {Empty}]
  BY <1>1 DEF OperandReads
<1>2. CASE arg \in [kind : {Relative}, base : Int]
  <2>1. arg.kind = Relative /\ arg.base \in Words
    BY <1>2
  <2>2. Lies(m, at, Little(arg.base, Word))
    BY <2>1 DEF OperandBytes
  <2>3. Value(m, at, Word) = arg.base
    BY <2>1, <2>2, WordRead, WordsFacts
  <2> QED BY <2>1, <2>3 DEF OperandReads
<1>3. CASE arg \in [kind : {Fixed}, value : Int]
  <2>1. arg.kind = Fixed /\ arg.value \in Int
    BY <1>3
  <2>2. Lies(m, at, Little(arg.value, size))
    BY <2>1 DEF OperandBytes
  <2>3. Value(m, at, size) = arg.value % Span(size)
    BY <1>0, <2>1, <2>2, ValueOfLittle
  <2> QED BY <2>1, <2>3 DEF OperandReads
<1>4. CASE arg \in [kind : {RelativeWithDiff}, base : Int, value : Int]
  <2>1. arg.kind = RelativeWithDiff /\ arg.base \in Words /\ arg.value \in Int /\ arg.base \in Int
    BY <1>4
  <2> DEFINE p == Little(arg.base, Word)
             q == Little(arg.value, Word)
  <2>2. p \in Seq(Bytes) /\ q \in Seq(Bytes) /\ Len(p) = Word
    BY <1>0, <2>1, LittleBytes
  <2>3. Lies(m, at, p \o q)
    BY <2>1 DEF OperandBytes
  <2> HIDE DEF p, q
  <2>4. Lies(m, at, p) /\ Lies(m, at + Word, q)
    BY <2>2, <2>3, LiesConcat
  <2>5. Value(m, at, Word) = arg.base
    BY <2>1, <2>4, WordRead, WordsFacts DEF p
  <2>6. Value(m, at + Word, Word) = arg.value % Span(Word)
    <3>1. at + Word \in Nat
      BY <1>0
    <3> QED BY <1>0, <2>1, <2>4, <3>1, ValueOfLittle DEF q
  <2>7. ASSUME -Span(Word) <= 2 * arg.value, 2 * arg.value < Span(Word)
        PROVE  Signed(Value(m, at + Word, Word), Word) = arg.value
    BY <1>0, <2>1, <2>6, <2>7, SignedBack
  <2> QED BY <2>1, <2>5, <2>7 DEF OperandReads
<1> QED
  BY <1>1, <1>2, <1>3, <1>4 DEF Operands

-----------------------------------------------------------------------------
(* Where things lie in the linked program. *)

Code(s) == Linked(LayoutOf(s))

\* The code of a layout with a main is a sequence of bytes of its length.
LEMMA CodeFacts ==
    ASSUME NEW s \in Seq(Functions), "@main()" \in DOMAIN LayoutOf(s).labels
    PROVE  /\ LayoutOf(s) \in Begun
           /\ Len(LayoutOf(s).bytes) = LengthsOf(s)[Len(s)]
           /\ Code(s) \in Seq(Bytes) /\ Len(Code(s)) = LengthsOf(s)[Len(s)]
<1> DEFINE F == LayoutOf(s)
<1>1. F \in Begun
  BY LayoutBegun
<1>2. Len(F.bytes) = LengthsOf(s)[Len(s)]
  <2>1. Len(s) \in 0 .. Len(s)
    OBVIOUS
  <2> QED BY <2>1, FunctionsGrow DEF LayoutOf
<1> HIDE DEF F
<1>3. Code(s) \in Seq(Bytes) /\ Len(Code(s)) = Len(F.bytes)
  BY <1>1, LinkedPatched DEF Patched, Code, F
<1> QED
  BY <1>1, <1>2, <1>3 DEF F

\* A function begins behind the two words of its header.
LEMMA StartPlace ==
    ASSUME NEW s \in Seq(Functions), NEW i \in 1 .. Len(s)
    PROVE  /\ s[i] \in Functions /\ s[i].lines \in Seq(Lines)
           /\ LengthsOf(s)[i - 1] \in Nat
           /\ Start(s, i) = LengthsOf(s)[i - 1] + Word + Word
           /\ Start(s, i) \in Nat /\ Start(s, i) >= Word
           /\ i # 1 => LengthsOf(s)[i - 1] >= Word
<1> DEFINE a == LengthsOf(s)[i - 1]
           R == Running(AddFunction, NoLayout, s)
<1>1. s[i] \in Functions
  OBVIOUS
<1>2. s[i].lines \in Seq(Lines)
  BY <1>1 DEF Functions
<1>3. a \in Nat
  <2>1. i - 1 \in 0 .. Len(s)
    OBVIOUS
  <2> QED BY <2>1, RunLengths
<1>4. Start(s, i) = a + Word + Word /\ Start(s, i) \in Nat /\ Start(s, i) >= Word
  <2>1. Start(s, i) = a + 2 * Word
    BY DEF Start
  <2> HIDE DEF a
  <2>2. Start(s, i) = a + Word + Word
    BY <1>3, <2>1, TwoWords
  <2> QED BY <1>3, <2>2, Sizes
<1>5. ASSUME i # 1 PROVE a >= Word
  <2>1. /\ \A k \in 1 .. Len(s) : R[k] = AddFunction(R[k - 1], s[k])
        /\ \A k \in 0 .. Len(s) : R[k] \in SoundLayouts
    BY RunFunctions
  <2>2. \A k \in 0 .. Len(s) : Len(R[k].bytes) = LengthsOf(s)[k]
    BY FunctionsGrow
  <2> HIDE DEF R
  <2> DEFINE p == i - 1
  <2>3. p \in 1 .. Len(s) /\ p - 1 \in 0 .. Len(s) /\ p \in 0 .. Len(s)
    BY <1>5
  <2>4. s[p] \in Functions
    BY <2>3
  <2> HIDE DEF p
  <2>5. R[p] \in Begun /\ Len(R[p].bytes) = LengthsOf(s)[p]
    BY <2>1, <2>2, <2>3, <2>4, AddFunctionGrows
  <2> QED BY <2>5 DEF Begun, p
<1> QED
  BY <1>1, <1>2, <1>3, <1>4, <1>5

\* A line lies in the code, behind the word of the entry.
LEMMA LinePlace ==
    ASSUME NEW s \in Seq(Functions), NEW i \in 1 .. Len(s), NEW j \in DOMAIN s[i].lines
    PROVE  /\ At(s, i, j) \in Nat /\ At(s, i, j) >= Word
           /\ At(s, i, j) <= LengthsOf(s)[Len(s)]
<1> DEFINE f == s[i]
           m == Len(f.lines)
           F == LayoutOf(s)
           before == Running(AddFunction, NoLayout, s)[i - 1]
           h == AddHeader(before, f)
           L == Running(AddLine, h, f.lines)
           b == BodyLengths(f)[j - 1]
<1>1. f \in Functions /\ f.lines \in Seq(Lines) /\ Start(s, i) \in Nat /\ Start(s, i) >= Word
  BY StartPlace
<1>2. j - 1 \in 0 .. m
  BY <1>1
<1>3. b \in Nat
  BY <1>1, <1>2, RunBody
<1>4. At(s, i, j) = Start(s, i) + b
  BY DEF At
<1>5. /\ before \in SoundLayouts /\ Len(before.bytes) = LengthsOf(s)[i - 1]
      /\ h \in Begun /\ L[j - 1] \in Begun /\ Grows(L[j - 1], F)
  BY <1>2, Stages
<1> HIDE DEF before
<1>6. Len(h.bytes) = Start(s, i)
  BY <1>1, <1>5, HeaderFacts DEF Start
<1> HIDE DEF h
<1>7. Len(L[j - 1].bytes) = Len(h.bytes) + b
  <2> HIDE DEF f
  <2> QED BY <1>1, <1>2, <1>5, LinesGrow
<1>8. F \in SoundLayouts /\ Len(F.bytes) = LengthsOf(s)[Len(s)]
  <2>1. Len(s) \in 0 .. Len(s)
    OBVIOUS
  <2> QED BY <2>1, FunctionsGrow, RunFunctions DEF LayoutOf
<1>9. Len(L[j - 1].bytes) <= Len(F.bytes)
  BY <1>5 DEF Grows
<1> HIDE DEF b, F, L
<1> QED
  BY <1>1, <1>3, <1>4, <1>6, <1>7, <1>8, <1>9, Sizes

\* Places lie in the code.
LEMMA PlacesBound ==
    ASSUME NEW s \in Seq(Functions), NEW x, NEW p \in Places(s, x)
    PROVE  p \in Nat /\ p <= LengthsOf(s)[Len(s)]
<1>1. \/ \E i \in DOMAIN s : p = Start(s, i)
      \/ \E i \in DOMAIN s : \E j \in DOMAIN s[i].lines : p = At(s, i, j)
  BY Zenon DEF Places
<1>2. DOMAIN s = 1 .. Len(s)
  OBVIOUS
<1>3. ASSUME NEW i \in DOMAIN s, p = Start(s, i) PROVE p \in Nat /\ p <= LengthsOf(s)[Len(s)]
  <2>1. Start(s, i) \in Nat
    BY <1>2, StartPlace
  <2>2. LengthsOf(s)[i - 1] + 2 * Word <= Len(LayoutOf(s).bytes)
    BY <1>2, FunctionPlaced
  <2>3. Len(LayoutOf(s).bytes) = LengthsOf(s)[Len(s)]
    <3>1. Len(s) \in 0 .. Len(s)
      OBVIOUS
    <3> QED BY <3>1, FunctionsGrow DEF LayoutOf
  <2> QED BY <1>3, <2>1, <2>2, <2>3 DEF Start
<1>4. ASSUME NEW i \in DOMAIN s, NEW j \in DOMAIN s[i].lines, p = At(s, i, j)
      PROVE  p \in Nat /\ p <= LengthsOf(s)[Len(s)]
  BY <1>2, <1>4, LinePlace
<1> QED
  BY <1>1, <1>3, <1>4

\* A program with a main that addresses can reach everywhere.
Placeable(s) ==
    /\ "@main()" \in DOMAIN LayoutOf(s).labels
    /\ LengthsOf(s)[Len(s)] + RegistersSize < Span(Word)

\* The address of a place is a word.
LEMMA PlaceFits ==
    ASSUME NEW s \in Seq(Functions), Placeable(s), NEW p \in Nat, p <= LengthsOf(s)[Len(s)]
    PROVE  p < Span(Word) /\ p + RegistersSize \in Nat /\ p + RegistersSize < Span(Word)
<1> DEFINE n == LengthsOf(s)[Len(s)]
           b == Span(Word)
<1>1. n \in Nat /\ b \in Nat /\ RegistersSize \in Nat /\ n + RegistersSize < b
  <2>1. Len(s) \in 0 .. Len(s)
    OBVIOUS
  <2> QED BY <2>1, RunLengths, WordsFacts, Sizes DEF Placeable
<1> HIDE DEF n, b
<1> QED
  BY <1>1 DEF n, b

\* The entry is the place of main, of the first one.
LEMMA EntryRead ==
    ASSUME NEW s \in Seq(Functions), Placeable(s), NEW i \in 1 .. Len(s),
           s[i].name = "@main()", Leads(s, i)
    PROVE  Value(Code(s), 0, Word) = Start(s, i)
<1> DEFINE F == LayoutOf(s)
           v == Start(s, i)
<1>1. F \in Begun /\ "@main()" \in DOMAIN F.labels
  BY CodeFacts DEF Placeable
<1>2. F.labels["@main()"] = v
  BY FunctionPlaced DEF Start
<1>3. v \in Nat /\ v < Span(Word)
  <2>1. v \in Places(s, s[i].name)
    <3>1. i \in DOMAIN s
      OBVIOUS
    <3> QED BY <3>1 DEF Places
  <2>2. v \in Nat /\ v <= LengthsOf(s)[Len(s)]
    BY <2>1, PlacesBound
  <2> HIDE DEF v
  <2> QED BY <2>2, PlaceFits
<1> HIDE DEF F, v
<1>4. Lies(Linked(F), 0, Little(v, Word))
  BY <1>1, <1>2, LinkedPatched DEF Patched
<1>5. Value(Linked(F), 0, Word) = v
  BY <1>3, <1>4, WordRead
<1> QED
  BY <1>5 DEF Code, F, v

(***************************************************************************)
(* The sizes of its arguments and of its result are in front of a function,*)
(* but for the argument size of the first one.                             *)
(***************************************************************************)
LEMMA HeaderRead ==
    ASSUME NEW s \in Seq(Functions), Placeable(s), NEW i \in 1 .. Len(s)
    PROVE  /\ Value(Code(s), Start(s, i) - Word, Word) = s[i].ret
           /\ i # 1 => Value(Code(s), Start(s, i) - 2 * Word, Word) = s[i].args
<1> DEFINE F == LayoutOf(s)
           f == s[i]
           a == LengthsOf(s)[i - 1]
           w == 2 * Word
           p == Little(f.args, Word)
           r == Little(f.ret, Word)
           n == Len(F.bytes)
<1>1. F \in Begun /\ "@main()" \in DOMAIN F.labels /\ Code(s) = Linked(F)
  BY CodeFacts DEF Placeable, Code
<1>2. /\ f \in Functions /\ a \in Nat
      /\ Start(s, i) = a + Word + Word
      /\ i # 1 => a >= Word
  BY StartPlace
<1>3. /\ Lies(F.bytes, a, p) /\ Lies(F.bytes, a + Word, r) /\ Kept(F, a, w) /\ a + w <= n
  BY FunctionPlaced
<1>4. /\ f.args \in Nat /\ f.args < Span(Word) /\ f.ret \in Nat /\ f.ret < Span(Word)
  <2>1. f.args \in Words /\ f.ret \in Words
    BY <1>2 DEF Functions
  <2> QED BY <2>1, WordsFacts
<1>5. /\ p \in Seq(Bytes) /\ Len(p) = Word /\ r \in Seq(Bytes) /\ Len(r) = Word
  <2>1. f.args \in Int /\ f.ret \in Int
    BY <1>4
  <2> QED BY <2>1, LittleBytes, Sizes
<1>6. Word \in Nat /\ a + w = a + Word + Word /\ a + Word \in Nat
  BY <1>2, TwoWords, Sizes
<1>7. F \in Layouts
  BY <1>1 DEF Begun, SoundLayouts
<1>8. n \in Nat /\ DOMAIN F.hints = 1 .. Len(F.hints) /\ \A q \in 1 .. Len(F.hints) : F.hints[q].offset \in Nat
  BY <1>7, LayoutFields
<1> HIDE DEF F, f, a, w, p, r, n
<1>9. Kept(F, a, Word) /\ Kept(F, a + Word, Word)
  <2>1. ASSUME NEW q \in DOMAIN F.hints
        PROVE  /\ F.hints[q].offset + Word <= a \/ a + Word <= F.hints[q].offset
               /\ F.hints[q].offset + Word <= a + Word \/ a + Word + Word <= F.hints[q].offset
    <3> DEFINE o == F.hints[q].offset
    <3>1. o \in Nat
      BY <1>8
    <3>2. o + Word <= a \/ a + w <= o
      BY <1>3 DEF Kept
    <3> HIDE DEF o
    <3>3. /\ o + Word <= a \/ a + Word <= o
          /\ o + Word <= a + Word \/ a + Word + Word <= o
      BY <1>2, <1>6, <3>1, <3>2
    <3> QED BY <3>3 DEF o
  <2> QED BY <2>1 DEF Kept
<1>10. Start(s, i) - Word = a + Word /\ Start(s, i) - w = a
  <2> DEFINE t == Start(s, i)
  <2>1. t = a + Word + Word /\ t = a + w /\ w \in Nat
    BY <1>2, <1>6, Sizes DEF w
  <2> HIDE DEF t
  <2> QED BY <1>2, <1>6, <2>1 DEF t
<1>11. Value(Code(s), Start(s, i) - Word, Word) = f.ret
  <2> DEFINE b == a + Word
  <2>1. b \in Nat /\ b >= Word /\ b + Len(r) <= n
    BY <1>2, <1>3, <1>5, <1>6
  <2>2. Kept(F, b, Len(r)) /\ Lies(F.bytes, b, r)
    BY <1>3, <1>5, <1>9
  <2> HIDE DEF b
  <2>3. Lies(Code(s), b, r)
    BY <1>1, <1>5, <2>1, <2>2, LinkedKeeps DEF n
  <2>4. Value(Code(s), b, Word) = f.ret
    BY <1>4, <2>1, <2>3, WordRead DEF r
  <2> QED BY <1>10, <2>4 DEF b
<1>12. ASSUME i # 1 PROVE Value(Code(s), Start(s, i) - w, Word) = f.args
  <2>1. a >= Word /\ a + Len(p) <= n /\ Kept(F, a, Len(p))
    <3>1. a + Word <= n
      BY <1>2, <1>3, <1>6, <1>8
    <3> QED BY <1>2, <1>5, <1>9, <1>12, <3>1
  <2>2. Lies(Code(s), a, p)
    BY <1>1, <1>2, <1>3, <1>5, <2>1, LinkedKeeps DEF n
  <2>3. Value(Code(s), a, Word) = f.args
    BY <1>2, <1>4, <2>2, WordRead DEF p
  <2> QED BY <1>10, <2>3
<1> QED
  BY <1>11, <1>12 DEF f, w

(***************************************************************************)
(* An instruction is read back from where it should lie, with the kinds of *)
(* its operands.                                                           *)
(***************************************************************************)
LEMMA InstRead ==
    ASSUME NEW s \in Seq(Functions), Placeable(s), NEW i \in 1 .. Len(s),
           NEW j \in DOMAIN s[i].lines, ~IsLabel(s[i].lines[j])
    PROVE  /\ \E known \in Instructions :
                 /\ known.code = Value(Code(s), At(s, i, j), InstSize - 1)
                 /\ known.name = s[i].lines[j].name
                 /\ known.size = s[i].lines[j].size /\ known.sign = s[i].lines[j].sign
           /\ s[i].lines[j] \in Others =>
                 \A k \in 1 .. 3 :
                     (Code(s)[At(s, i, j) + InstSize] \div <<1, 4, 16>>[k]) % 4
                         = ArgKind(s[i].lines[j].args, k)
<1> DEFINE F == LayoutOf(s)
           line == s[i].lines[j]
           o == At(s, i, j)
           mask == MaskOf(line)
           c == CodeBytes(line, mask)
           code == CodeOf(line.name, line.size, line.sign)
           v == code + mask * Span(InstSize - 1)
<1>1. F \in Begun /\ "@main()" \in DOMAIN F.labels /\ Code(s) = Linked(F)
  BY CodeFacts DEF Placeable, Code
<1>2. o = LengthsOf(s)[i - 1] + 2 * Word + BodyLengths(s[i])[j - 1]
  BY DEF At, Start
<1>3. /\ o \in Nat /\ line \in Lines /\ o + InstSize <= Len(F.bytes)
      /\ Lies(F.bytes, o, c) /\ Kept(F, o, InstSize)
  <2> HIDE DEF o
  <2> QED BY <1>2, LinePlaced
<1>4. o >= Word
  BY LinePlace
<1>5. InTable(line) /\ mask \in 0 .. 63
  BY <1>3, LinesSplit, MaskRange
<1> HIDE DEF F, line, o, mask
<1>6. c \in Seq(Bytes) /\ Len(c) = InstSize /\ c[InstSize] = mask
  BY <1>5, CodeBytesFacts
<1>7. PICK known \in Instructions :
         /\ known.name = line.name /\ known.size = line.size /\ known.sign = line.sign
         /\ known.code = code /\ known.code \in 0 .. Span(InstSize - 1) - 1
  BY <1>5, CodeKnown
<1>8. v \in Nat /\ v % Span(InstSize - 1) = code
  BY <1>5, <1>7, CodeAndMask
<1>9. c = Little(v, InstSize)
  BY DEF CodeBytes
<1> HIDE DEF c
<1>10. Lies(Code(s), o, c)
  BY <1>1, <1>3, <1>4, <1>6, LinkedKeeps
<1>11. Value(Code(s), o, InstSize - 1) = code
  <2> HIDE DEF v
  <2>1. InstSize \in Nat /\ InstSize - 1 \in 0 .. InstSize /\ Lies(Code(s), o, Little(v, InstSize)) /\ v \in Int
    BY <1>8, <1>9, <1>10, Sizes
  <2> QED BY <1>3, <1>8, <2>1, ValueOfLittle
<1>12. Code(s)[o + InstSize] = mask
  <2>1. InstSize \in 1 .. Len(c)
    BY <1>6, Sizes
  <2> QED BY <1>6, <1>10, <2>1 DEF Lies
<1>13. line \in Others => \A k \in 1 .. 3 : (mask \div <<1, 4, 16>>[k]) % 4 = ArgKind(line.args, k)
  BY MaskRange DEF mask
<1>14. \E known_ \in Instructions :
          /\ known_.code = Value(Code(s), o, InstSize - 1) /\ known_.name = line.name
          /\ known_.size = line.size /\ known_.sign = line.sign
  BY <1>7, <1>11
<1> QED
  BY <1>12, <1>13, <1>14 DEF line, o

\* A line that is no call keeps all of its bytes when the program is linked.
LEMMA WholeLine ==
    ASSUME NEW s \in Seq(Functions), Placeable(s), NEW i \in 1 .. Len(s),
           NEW j \in DOMAIN s[i].lines, ~IsLabel(s[i].lines[j]), s[i].lines[j] \notin Fcalls
    PROVE  /\ s[i].lines[j] \in Lines /\ InTable(s[i].lines[j])
           /\ Lies(Code(s), At(s, i, j), InstBytes(s[i].lines[j]))
<1> DEFINE F == LayoutOf(s)
           line == s[i].lines[j]
           o == At(s, i, j)
           b == InstBytes(line)
<1>1. F \in Begun /\ "@main()" \in DOMAIN F.labels /\ Code(s) = Linked(F)
  BY CodeFacts DEF Placeable, Code
<1>2. o = LengthsOf(s)[i - 1] + 2 * Word + BodyLengths(s[i])[j - 1]
  BY DEF At, Start
<1>3. /\ o \in Nat /\ line \in Lines /\ o + Len(b) <= Len(F.bytes)
      /\ Lies(F.bytes, o, b) /\ Kept(F, o, Len(b))
  <2> HIDE DEF o
  <2> QED BY <1>2, LinePlaced
<1>4. o >= Word
  BY LinePlace
<1>5. InTable(line)
  BY <1>3, LinesSplit
<1> HIDE DEF F, line, o
<1>6. b \in Seq(Bytes)
  <2>1. ~IsLabel(line)
    BY DEF line
  <2> QED BY <1>3, <2>1, InstBytesFacts
<1> HIDE DEF b
<1>7. Lies(Code(s), o, b)
  BY <1>1, <1>3, <1>4, <1>6, LinkedKeeps
<1> QED
  BY <1>3, <1>5, <1>7 DEF b, line, o

(***************************************************************************)
(* The operands of an instruction lie behind its code, one after the other.*)
(***************************************************************************)
LEMMA ArgRead ==
    ASSUME NEW s \in Seq(Functions), Placeable(s), NEW i \in 1 .. Len(s),
           NEW j \in DOMAIN s[i].lines, s[i].lines[j] \in Others,
           NEW k \in DOMAIN s[i].lines[j].args,
           s[i].lines[j].args[k].kind \in {Relative, RelativeWithDiff}
              => s[i].lines[j].args[k].base \in Words
    PROVE  OperandReads(Code(s), At(s, i, j) + InstSize + ArgOffset(s[i].lines[j], k),
                        s[i].lines[j].args[k], s[i].lines[j].size)
<1> DEFINE line == s[i].lines[j]
           o == At(s, i, j)
<1>1. s[i].lines \in Seq(Lines)
  BY StartPlace
<1>2. line \in Lines
  BY <1>1
<1>3. ~IsLabel(line) /\ line \notin Fcalls /\ line \in Others
  <2>1. line \in Others
    OBVIOUS
  <2> HIDE DEF line
  <2>2. ~IsLabel(line)
    BY <2>1 DEF Others, IsLabel
  <2> QED BY <1>2, <2>1, <2>2, LinesSplit
<1>4. InTable(line) /\ Lies(Code(s), o, InstBytes(line)) /\ o \in Nat
  BY <1>3, WholeLine, LinePlace
<1> HIDE DEF line, o
<1>5. k \in DOMAIN line.args
  BY DEF line
<1>6. /\ line.args[k] \in Operands /\ line.size \in Nat
      /\ ArgOffset(line, k) \in Nat
      /\ Lies(Code(s), o + InstSize + ArgOffset(line, k), OperandBytes(line.args[k], line.size))
  BY <1>3, <1>4, <1>5, ArgsLie
<1>7. o + InstSize + ArgOffset(line, k) \in Nat
  BY <1>4, <1>6, Sizes
<1>8. line.args[k].kind \in {Relative, RelativeWithDiff} => line.args[k].base \in Words
  BY DEF line
<1>9. OperandReads(Code(s), o + InstSize + ArgOffset(line, k), line.args[k], line.size)
  BY <1>6, <1>7, <1>8, OperandRead
<1> QED
  BY <1>9 DEF line, o

\* The key of a native function is behind the code of its call.
LEMMA NcallRead ==
    ASSUME NEW s \in Seq(Functions), Placeable(s), NEW i \in 1 .. Len(s),
           NEW j \in DOMAIN s[i].lines, s[i].lines[j] \in Ncalls, s[i].lines[j].key \in Words
    PROVE  Value(Code(s), At(s, i, j) + InstSize, Word) = s[i].lines[j].key
<1> DEFINE line == s[i].lines[j]
           o == At(s, i, j)
           c == CodeBytes(line, 0)
           p == Little(line.key, Word)
<1>1. s[i].lines \in Seq(Lines)
  BY StartPlace
<1>2. line \in Lines
  BY <1>1
<1>3. ~IsLabel(line) /\ line \notin Fcalls /\ line \in Ncalls /\ line.name = "ncall"
  BY <1>2, LinesSplit
<1>4. InTable(line) /\ Lies(Code(s), o, InstBytes(line)) /\ o \in Nat
  BY <1>3, WholeLine, LinePlace
<1>5. line.key \in Nat /\ line.key < Span(Word) /\ line.key \in Int
  BY WordsFacts
<1> HIDE DEF line, o
<1>6. c \in Seq(Bytes) /\ Len(c) = InstSize
  <2>1. 0 \in 0 .. 63
    OBVIOUS
  <2> QED BY <1>4, <2>1, CodeBytesFacts
<1>7. p \in Seq(Bytes)
  BY <1>5, LittleBytes, Sizes
<1>8. InstBytes(line) = c \o p
  BY <1>3 DEF InstBytes
<1> HIDE DEF c, p
<1>9. Lies(Code(s), o + InstSize, p)
  <2>1. Lies(Code(s), o, c \o p)
    BY <1>4, <1>8
  <2> QED BY <1>4, <1>6, <1>7, <2>1, LiesConcat
<1>10. o + InstSize \in Nat
  BY <1>4, Sizes
<1>11. Value(Code(s), o + InstSize, Word) = line.key
  BY <1>5, <1>9, <1>10, WordRead DEF p
<1> QED
  BY <1>11 DEF line, o

(***************************************************************************)
(* A call of what the program has once goes there.                         *)
(***************************************************************************)
LEMMA FcallRead ==
    ASSUME NEW s \in Seq(Functions), Placeable(s), NEW i \in 1 .. Len(s),
           NEW j \in DOMAIN s[i].lines, s[i].lines[j] \in Fcalls,
           NEW p, Places(s, s[i].lines[j].target) = {p}
    PROVE  Value(Code(s), At(s, i, j) + InstSize, Word) = p + RegistersSize
<1> DEFINE F == LayoutOf(s)
           line == s[i].lines[j]
           o == At(s, i, j)
           v == p + RegistersSize
           x == line.target
<1>1. F \in Begun /\ "@main()" \in DOMAIN F.labels /\ Code(s) = Linked(F)
  BY CodeFacts DEF Placeable, Code
<1>2. s[i].lines \in Seq(Lines)
  BY StartPlace
<1>3. line \in Lines
  BY <1>2
<1>4. ~IsLabel(line)
  BY <1>3, LinesSplit
<1>5. /\ o \in Nat
      /\ \E q \in DOMAIN F.hints : F.hints[q] = [name |-> line.target, offset |-> o + InstSize]
  <2>1. o = LengthsOf(s)[i - 1] + 2 * Word + BodyLengths(s[i])[j - 1]
    BY DEF At, Start
  <2> HIDE DEF o
  <2> QED BY <1>4, <2>1, LinePlaced
<1>6. x \in DOMAIN F.labels /\ F.labels[x] = p
  <2>1. Places(s, x) = {p}
    OBVIOUS
  <2> HIDE DEF x
  <2>2. x \in DOMAIN F.labels
    BY <2>1, LabelsPlaced
  <2>3. F.labels[x] \in Places(s, x)
    BY <2>2, LabelsPlaced
  <2> HIDE DEF F
  <2> QED BY <2>1, <2>2, <2>3
<1>7. v \in Nat /\ v < Span(Word)
  <2>1. p \in Places(s, x)
    OBVIOUS
  <2> HIDE DEF x
  <2>2. p \in Nat /\ p <= LengthsOf(s)[Len(s)]
    BY <2>1, PlacesBound
  <2> QED BY <2>2, PlaceFits
<1>8. Target(F.labels, x) = v
  BY <1>6 DEF Target, Offset
<1> HIDE DEF F, line, o, x, v
<1>9. PICK q \in DOMAIN F.hints : F.hints[q].name = x /\ F.hints[q].offset = o + InstSize
  BY <1>5 DEF x
<1>10. DOMAIN F.hints = 1 .. Len(F.hints)
  <2>1. F \in Layouts
    BY <1>1 DEF Begun, SoundLayouts
  <2> QED BY <2>1, LayoutFields
<1>11. Lies(Code(s), F.hints[q].offset, Little(Target(F.labels, F.hints[q].name), Word))
  BY <1>1, <1>9, <1>10, LinkedPatched DEF Patched
<1>12. Lies(Code(s), o + InstSize, Little(v, Word))
  BY <1>8, <1>9, <1>11
<1>13. o + InstSize \in Nat
  BY <1>5, Sizes
<1>14. Value(Code(s), o + InstSize, Word) = v
  BY <1>7, <1>12, <1>13, WordRead
<1> QED
  BY <1>14 DEF o, v

-----------------------------------------------------------------------------
(* Functions that are numbered. *)

(***************************************************************************)
(* The order of functions that have the numbers 1, 2, ... is that of their *)
(* numbers.                                                                *)
(***************************************************************************)
LEMMA NumberedOrder ==
    ASSUME NEW s \in Seq(Functions), \A i \in DOMAIN s : s[i].scope = i
    PROVE  /\ Layout({ s[i] : i \in DOMAIN s }) = LayoutOf(s)
<1> DEFINE n == Len(s)
           fs == { s[i] : i \in DOMAIN s }
           t == InOrder(fs)
<1>1. n \in Nat /\ DOMAIN s = 1 .. n /\ \A i \in 1 .. n : s[i] \in fs
  OBVIOUS
<1>2. \A f \in fs : f.scope \in 1 .. n /\ f = s[f.scope]
  BY <1>1
<1>3. IsFiniteSet(fs) /\ Cardinality(fs) = n
  <2> DEFINE h == [i \in 1 .. n |-> s[i]]
  <2>1. h \in Bijection(1 .. n, fs)
    <3>1. h \in [1 .. n -> fs]
      BY <1>1
    <3>2. \A i, j \in 1 .. n : h[i] = h[j] => i = j
      BY <1>1
    <3>3. \A f \in fs : \E i \in 1 .. n : h[i] = f
      BY <1>1
    <3> HIDE DEF h, fs, n
    <3>4. h \in Injection(1 .. n, fs)
      BY <3>1, <3>2 DEF Injection, IsInjective
    <3>5. h \in Surjection(1 .. n, fs)
      BY <3>1, <3>3 DEF Surjection
    <3> QED BY <3>4, <3>5 DEF Bijection
  <2>2. ExistsBijection(1 .. n, fs)
    <3> HIDE DEF h, n, fs
    <3> QED BY <2>1 DEF ExistsBijection
  <2> HIDE DEF fs, n
  <2> QED BY <1>1, <2>2, FS_CountingElements, FS_NatBijection
<1>4. Scoped(fs)
  <2>1. \A f, g \in fs : f # g => f.scope # g.scope
    BY <1>2
  <2>2. \A f \in fs : f.scope \in Nat
    BY <1>1, <1>2
  <2> HIDE DEF fs
  <2> QED BY <1>3, <2>1, <2>2 DEF Scoped
<1>5. IsOrder(t, fs)
  BY <1>4, InOrderIsOrder
<1> HIDE DEF fs, t, n
<1>6. /\ t \in [1 .. n -> fs]
      /\ \A f \in fs : \E i \in DOMAIN t : t[i] = f
      /\ \A i, j \in DOMAIN t : i < j => t[i].scope < t[j].scope
  BY <1>3, <1>5 DEF IsOrder
<1> DEFINE S == {k \in Nat : \A i \in 1 .. n : i <= k => t[i].scope = i}
<1>7. DOMAIN t = 1 .. n /\ \A i \in 1 .. n : t[i].scope \in 1 .. n /\ t[i] \in fs
  BY <1>2, <1>6
<1>8. 0 \in S
  BY <1>1
<1>9. ASSUME NEW k \in Nat, k \in S PROVE k + 1 \in S
  <2> SUFFICES ASSUME k + 1 <= n PROVE t[k + 1].scope = k + 1
    BY <1>1, <1>9
  <2>1. k + 1 \in 1 .. n /\ \A i \in 1 .. n : i <= k => t[i].scope = i
    BY <1>1, <1>9
  <2> HIDE DEF S
  <2>2. t[k + 1].scope \in Nat /\ t[k + 1].scope >= k + 1
    <3>1. t[k + 1].scope \in 1 .. n
      BY <1>7, <2>1
    <3>2. CASE k = 0
      BY <3>1, <3>2
    <3>3. CASE k # 0
      <4>1. k \in 1 .. n /\ k < k + 1
        BY <1>1, <2>1, <3>3
      <4>2. t[k].scope < t[k + 1].scope /\ t[k].scope = k
        BY <1>6, <1>7, <2>1, <4>1
      <4> QED BY <3>1, <4>2
    <3> QED BY <3>2, <3>3
  <2>3. PICK i \in 1 .. n : t[i] = s[k + 1]
    BY <1>1, <1>6, <1>7, <2>1
  <2>4. t[i].scope = k + 1
    BY <1>1, <2>1, <2>3
  <2>5. ~(i < k + 1)
    <3>1. i < k + 1 => i <= k /\ i # k + 1
      BY <2>1
    <3> QED BY <2>1, <2>4, <3>1
  <2>6. ~(k + 1 < i)
    <3>1. k + 1 < i => t[k + 1].scope < t[i].scope
      BY <1>6, <1>7, <2>1
    <3> QED BY <2>2, <2>4, <3>1
  <2> QED BY <2>4, <2>5, <2>6
<1>10. \A i \in 1 .. n : t[i].scope = i
  <2>1. Nat \subseteq S
    <3> HIDE DEF S
    <3> QED BY <1>8, <1>9, SetInduction
  <2> QED BY <1>1, <2>1
<1>11. \A i \in 1 .. n : t[i] = s[i]
  BY <1>2, <1>7, <1>10
<1>12. t = s
  <2>1. t = [i \in 1 .. n |-> t[i]]
    BY <1>6
  <2>2. s = [i \in 1 .. n |-> s[i]]
    BY <1>1
  <2> QED BY <1>11, <2>1, <2>2, Zenon
<1> QED
  BY <1>3, <1>12 DEF Layout, LayoutOf, fs, t, n

\* Such a program is refused if it has no main, or an operand of no kind.
LEMMA ThrowsWithoutMain ==
    ASSUME NEW s \in Seq(Functions), \A i \in DOMAIN s : s[i].scope = i,
           \A i \in DOMAIN s : \A j \in DOMAIN s[i].lines :
               s[i].lines[j] \in Others =>
                   \A k \in DOMAIN s[i].lines[j].args : s[i].lines[j].args[k].kind # Empty
    PROVE  Throws({ s[i] : i \in DOMAIN s }) <=> Places(s, "@main()") = {}
<1> DEFINE fs == { s[i] : i \in DOMAIN s }
           F == LayoutOf(s)
<1>1. Layout(fs) = F
  BY NumberedOrder
<1>2. ASSUME NEW f \in fs, NEW j \in DOMAIN f.lines, ~IsLabel(f.lines[j]), WrongOperand(f.lines[j])
      PROVE  FALSE
  <2>1. PICK i \in DOMAIN s : f = s[i]
    OBVIOUS
  <2>2. s[i].lines \in Seq(Lines)
    BY <2>1, StartPlace
  <2>3. f.lines[j] \in Lines
    BY <2>1, <2>2
  <2>4. f.lines[j] \in Others
    BY <1>2, <2>3, LinesSplit DEF WrongOperand
  <2> QED BY <1>2, <2>1, <2>4 DEF WrongOperand
<1>3. "@main()" \in DOMAIN F.labels <=> Places(s, "@main()") # {}
  BY LabelsPlaced
<1> HIDE DEF fs, F
<1>4. Throws(fs) <=> "@main()" \notin DOMAIN F.labels
  BY <1>1, <1>2 DEF Throws
<1> QED
  BY <1>3, <1>4 DEF fs
=============================================================================
