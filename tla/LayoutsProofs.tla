--------------------------- MODULE LayoutsProofs ---------------------------
(***************************************************************************)
(* Proofs that an object is read back as it was written, that what was     *)
(* written is never refused and that a prefix of it always is, for all     *)
(* classes, contents, lengths and numbers of elements.                     *)
(*                                                                         *)
(* The recursive functions of the uleb128 code are shown to be functions   *)
(* by induction over the numbers: the library's theorem on minimal members *)
(* of a well-founded relation takes sets only, and the induction and the   *)
(* recursion principles below are its corollaries for sets and functions.  *)
(***************************************************************************)
EXTENDS Layouts, TLAPS, SequenceTheorems, WellFoundedInduction

(***************************************************************************)
(* Induction and recursion over the natural numbers                        *)
(***************************************************************************)

Below == {p \in Nat \X Nat : p[1] < p[2]}

\* No sequence of numbers descends for ever.
LEMMA BelowWellFounded == IsWellFoundedOn(Below, Nat)
BY NatLessThanWellFounded DEF OpToRel, Below

\* A set of numbers that is not empty has a least member.
LEMMA Least ==
  ASSUME NEW T, T \subseteq Nat, T # {}
  PROVE  \E n \in T : \A m \in T : n <= m
<1>1. PICK n \in T : \A m \in T : <<m, n>> \notin Below
  BY BelowWellFounded, WFMin
<1>2. \A m \in T : ~ (m < n)
  BY <1>1 DEF Below
<1> QED BY <1>2

\* A set that holds every number whose predecessors it holds is all of Nat.
LEMMA Induction ==
  ASSUME NEW T, \A n \in Nat : (\A m \in 0..n-1 : m \in T) => n \in T
  PROVE  Nat \subseteq T
<1> SUFFICES ASSUME ~ (Nat \subseteq T) PROVE FALSE
  OBVIOUS
<1>1. PICK n \in Nat \ T : \A m \in Nat \ T : n <= m
  BY Least
<1>2. \A m \in 0..n-1 : m \in T
  BY <1>1
<1> QED BY <1>1, <1>2

\* A definition by recursion, whose right-hand side looks only at smaller
\* arguments, is met by some function.
LEMMA Recursion ==
  ASSUME NEW V, NEW H \in [Nat \X [Nat -> V] -> V],
         \A n \in Nat : \A f, g \in [Nat -> V] :
           (\A m \in 0..n-1 : f[m] = g[m]) => H[<<n, f>>] = H[<<n, g>>],
         V # {}
  PROVE  \E f \in [Nat -> V] : \A n \in Nat : f[n] = H[<<n, f>>]
<1>0. \A n \in Nat : \A f, g \in [Nat -> V] :
           (\A m \in 0..n-1 : f[m] = g[m]) => H[<<n, f>>] = H[<<n, g>>]
  OBVIOUS
<1> DEFINE Good(f, n) == f \in [Nat -> V] /\ \A m \in 0..n : f[m] = H[<<m, f>>]
<1>1. ASSUME NEW n \in Nat, NEW f, NEW g, Good(f, n), Good(g, n)
      PROVE  \A m \in 0..n : f[m] = g[m]
  <2> DEFINE S == {m \in Nat : m <= n => f[m] = g[m]}
  <2>1. ASSUME NEW m \in Nat, \A k \in 0..m-1 : k \in S
        PROVE  m \in S
    <3> SUFFICES ASSUME m <= n PROVE f[m] = g[m]
      OBVIOUS
    <3>1. \A k \in 0..m-1 : f[k] = g[k]
      BY <2>1
    <3>2. H[<<m, f>>] = H[<<m, g>>]
      BY <3>1, <1>1
    <3> QED BY <3>2, <1>1
  <2>2. Nat \subseteq S
    <3> HIDE DEF S
    <3> QED BY <2>1, Induction
  <2> QED BY <2>2
<1>2. \A n \in Nat : \E f : Good(f, n)
  <2> DEFINE S == {n \in Nat : \E f : Good(f, n)}
  <2>1. ASSUME NEW n \in Nat, \A k \in 0..n-1 : k \in S
        PROVE  n \in S
    <3> PICK v \in V : TRUE
      OBVIOUS
    <3> HIDE DEF Good
    <3>1. \E f \in [Nat -> V] : \A m \in 0..n-1 : f[m] = H[<<m, f>>]
      <4>1. CASE n = 0
        <5>1. [k \in Nat |-> v] \in [Nat -> V]
          OBVIOUS
        <5>2. 0..n-1 = {}
          BY <4>1
        <5> QED BY <5>1, <5>2
      <4>2. CASE n # 0
        <5>1. n - 1 \in 0..n-1
          BY <4>2
        <5>2. PICK f : Good(f, n - 1)
          BY <5>1, <2>1
        <5> QED BY <5>2 DEF Good
      <4> QED BY <4>1, <4>2
    <3>2. PICK f \in [Nat -> V] : \A m \in 0..n-1 : f[m] = H[<<m, f>>]
      BY <3>1
    <3> DEFINE g == [f EXCEPT ![n] = H[<<n, f>>]]
    <3>3. g \in [Nat -> V] /\ g[n] = H[<<n, f>>] /\ \A m \in Nat : m # n => g[m] = f[m]
      <4>1. <<n, f>> \in Nat \X [Nat -> V]
        OBVIOUS
      <4>2. H[<<n, f>>] \in V
        BY <4>1
      <4> QED BY <4>2
    <3> HIDE DEF g
    <3>4. ASSUME NEW m \in 0..n
          PROVE  g[m] = H[<<m, g>>]
      <4>1. H[<<m, f>>] = H[<<m, g>>]
        <5>1. \A k \in 0..m-1 : f[k] = g[k]
          BY <3>3
        <5>2. m \in Nat /\ f \in [Nat -> V] /\ g \in [Nat -> V]
          BY <3>3
        <5> HIDE <3>3, <3>2
        <5> QED BY ONLY <5>1, <5>2, <1>0
      <4>2. m = n \/ m \in 0..n-1
        OBVIOUS
      <4>3. CASE m = n
        BY <4>1, <3>3, <4>3
      <4>4. CASE m \in 0..n-1
        <5>1. g[m] = f[m] /\ f[m] = H[<<m, f>>]
          BY <3>3, <3>2, <4>4
        <5> QED BY <4>1, <5>1
      <4> QED BY <4>2, <4>3, <4>4
    <3>5. Good(g, n)
      BY <3>3, <3>4 DEF Good
    <3> QED BY <3>5
  <2>2. Nat \subseteq S
    <3> HIDE DEF S
    <3> QED BY <2>1, Induction
  <2> QED BY <2>2
<1> DEFINE c == [n \in Nat |-> CHOOSE f : Good(f, n)]
<1> DEFINE h == [n \in Nat |-> c[n][n]]
<1>3. \A n \in Nat : Good(c[n], n)
  BY <1>2
<1>4. h \in [Nat -> V]
  <2> HIDE DEF c
  <2>1. \A n \in Nat : c[n][n] \in V
    BY <1>3
  <2> QED BY <2>1
<1>5. ASSUME NEW n \in Nat
      PROVE  h[n] = H[<<n, h>>]
  <2> HIDE DEF c, Good
  <2>1. ASSUME NEW m \in 0..n
        PROVE  h[m] = c[n][m]
    <3>1. Good(c[m], m) /\ Good(c[n], n)
      BY <1>3
    <3>3. Good(c[n], m)
      <4>1. c[n] \in [Nat -> V] /\ \A k \in 0..n : c[n][k] = H[<<k, c[n]>>]
        BY <3>1 DEF Good
      <4>2. \A k \in 0..m : k \in 0..n
        OBVIOUS
      <4>3. \A k \in 0..m : c[n][k] = H[<<k, c[n]>>]
        BY <4>1, <4>2, Zenon
      <4> QED BY <4>1, <4>3, Zenon DEF Good
    <3>2. c[m][m] = c[n][m]
      <4> QED BY <1>1, <3>1, <3>3
    <3> QED BY <3>2
  <2>2. h[n] = H[<<n, c[n]>>]
    <3>1. Good(c[n], n)
      BY <1>3
    <3>2. c[n][n] = H[<<n, c[n]>>]
      <4>1. n \in 0..n
        OBVIOUS
      <4> QED BY <3>1, <4>1 DEF Good
    <3> QED BY <3>2
  <2>3. H[<<n, c[n]>>] = H[<<n, h>>]
    <3>1. c[n] \in [Nat -> V]
      <4>1. Good(c[n], n)
        BY <1>3
      <4> QED BY <4>1 DEF Good
    <3>2. \A m \in 0..n-1 : c[n][m] = h[m]
      BY <2>1
    <3> HIDE DEF h
    <3> QED BY <3>1, <3>2, <1>4, <1>0
  <2> QED BY <2>2, <2>3
<1> HIDE DEF h
<1> QED BY <1>4, <1>5

(***************************************************************************)
(* uleb128                                                                 *)
(***************************************************************************)

Byte == 0..255

\* The quotient by 128 is a smaller number, and with the rest it gives the number.
LEMMA Division ==
  ASSUME NEW n \in Nat
  PROVE  /\ n \div 128 \in Nat /\ n % 128 \in 0..127
         /\ n = 128 * (n \div 128) + (n % 128)
         /\ n >= 128 => n \div 128 \in 0..n-1
<1>1. n \div 128 \in Nat
  OBVIOUS
<1>2. n % 128 \in 0..127
  OBVIOUS
<1>3. n = 128 * (n \div 128) + (n % 128)
  OBVIOUS
<1>4. n >= 128 => n \div 128 < n
  OBVIOUS
<1> QED BY <1>1, <1>2, <1>3, <1>4

\* The recursive definition of Uleb describes a function on all numbers.
LEMMA UlebStep ==
  ASSUME NEW n \in Nat
  PROVE  /\ Uleb[n] \in Seq(Byte)
         /\ n < 128 => Uleb[n] = <<n>>
         /\ n >= 128 => Uleb[n] = <<128 + (n % 128)>> \o Uleb[n \div 128]
<1> DEFINE V == Seq(Byte)
           H == [p \in Nat \X [Nat -> V] |->
                   IF p[1] < 128 THEN <<p[1]>>
                   ELSE <<128 + (p[1] % 128)>> \o p[2][p[1] \div 128]]
           Def(f) == f = [k \in Nat |-> IF k < 128 THEN <<k>>
                                        ELSE <<128 + (k % 128)>> \o f[k \div 128]]
<1>1. H \in [Nat \X [Nat -> V] -> V]
  <2>1. ASSUME NEW k \in Nat, NEW f \in [Nat -> V]
        PROVE  (IF k < 128 THEN <<k>> ELSE <<128 + (k % 128)>> \o f[k \div 128]) \in V
    <3>1. CASE k < 128
      <4>1. <<k>> \in Seq(Byte)
        BY <3>1 DEF Byte
      <4> QED BY <3>1, <4>1
    <3>2. CASE ~ (k < 128)
      <4>1. 128 + (k % 128) \in Byte
        BY Division DEF Byte
      <4>2. <<128 + (k % 128)>> \in Seq(Byte)
        BY <4>1
      <4>3. f[k \div 128] \in Seq(Byte)
        BY Division
      <4>4. <<128 + (k % 128)>> \o f[k \div 128] \in Seq(Byte)
        BY <4>2, <4>3, ConcatProperties
      <4> QED BY <3>2, <4>4
    <3> QED BY <3>1, <3>2
  <2> HIDE DEF V
  <2> QED BY <2>1
<1>2. \A k \in Nat : \A f, g \in [Nat -> V] :
        (\A m \in 0..k-1 : f[m] = g[m]) => H[<<k, f>>] = H[<<k, g>>]
  <2> HIDE DEF V
  <2> SUFFICES ASSUME NEW k \in Nat, NEW f \in [Nat -> V], NEW g \in [Nat -> V],
                      \A m \in 0..k-1 : f[m] = g[m]
               PROVE  H[<<k, f>>] = H[<<k, g>>]
    OBVIOUS
  <2>1. CASE k < 128
    BY <2>1
  <2>2. CASE ~ (k < 128)
    <3>1. f[k \div 128] = g[k \div 128]
      BY <2>2, Division
    <3> QED BY <2>2, <3>1
  <2> QED BY <2>1, <2>2
<1>3. V # {}
  BY EmptySeq
<1>4. PICK f \in [Nat -> V] : \A k \in Nat : f[k] = H[<<k, f>>]
  <2> HIDE DEF V, H
  <2> QED BY <1>1, <1>2, <1>3, Recursion
<1>5. Def(f)
  <2> HIDE DEF V
  <2>1. \A k \in Nat : f[k] = IF k < 128 THEN <<k>> ELSE <<128 + (k % 128)>> \o f[k \div 128]
    BY <1>4
  <2> QED BY <2>1, <1>4
<1>6. Def(Uleb)
  <2>1. Uleb = CHOOSE g : Def(g)
    BY DEF Uleb
  <2> HIDE DEF Def
  <2> QED BY <1>5, <2>1
<1>7. \A k \in Nat : Uleb[k] = IF k < 128 THEN <<k>> ELSE <<128 + (k % 128)>> \o Uleb[k \div 128]
  BY <1>6
<1>8. Nat \subseteq {k \in Nat : Uleb[k] \in V}
  <2> DEFINE T == {k \in Nat : Uleb[k] \in V}
  <2>1. ASSUME NEW k \in Nat, \A m \in 0..k-1 : m \in T
        PROVE  k \in T
    <3>1. CASE k < 128
      <4>1. <<k>> \in Seq(Byte)
        BY <3>1 DEF Byte
      <4> QED BY <3>1, <4>1, <1>7
    <3>2. CASE ~ (k < 128)
      <4>1. 128 + (k % 128) \in Byte
        BY Division DEF Byte
      <4>2. <<128 + (k % 128)>> \in Seq(Byte)
        BY <4>1
      <4>3. Uleb[k \div 128] \in Seq(Byte)
        BY Division, <2>1, <3>2
      <4>4. <<128 + (k % 128)>> \o Uleb[k \div 128] \in Seq(Byte)
        BY <4>2, <4>3, ConcatProperties
      <4> QED BY <3>2, <4>4, <1>7
    <3> QED BY <3>1, <3>2
  <2>2. Nat \subseteq T
    <3> HIDE DEF T
    <3> QED BY <2>1, Induction
  <2> QED BY <2>2
<1>9. Uleb[n] \in Seq(Byte)
  BY <1>8
<1>10. Uleb[n] = IF n < 128 THEN <<n>> ELSE <<128 + (n % 128)>> \o Uleb[n \div 128]
  BY <1>7
<1>11. n >= 128 => ~ (n < 128)
  OBVIOUS
<1> HIDE <1>7, <1>8
<1> QED BY <1>9, <1>10, <1>11, Zenon

\* The last byte of a number is told from the ones before it.
LEMMA Halves == \A b \in Byte : b < 128 => ~ (b >= 128)
BY DEF Byte

\* What a byte carries besides its continuation bit is a number.
LEMMA Residues == \A b \in Byte : b \in Nat /\ b % 128 \in Nat
BY DEF Byte

\* A number is encoded as bytes.
LEMMA UlebType == \A n \in Nat : Uleb[n] \in Seq(Byte)
BY UlebStep

\* Every byte of a uleb128 number but the last has its continuation bit set.
LEMMA UlebShape ==
  ASSUME NEW n \in Nat
  PROVE  /\ Len(Uleb[n]) \in Nat \ {0}
         /\ Uleb[n][Len(Uleb[n])] < 128
         /\ \A j \in 1..Len(Uleb[n]) - 1 : Uleb[n][j] >= 128
<1> DEFINE Shape(s) == /\ Len(s) \in Nat \ {0} /\ s[Len(s)] < 128
                       /\ \A j \in 1..Len(s) - 1 : s[j] >= 128
           T == {k \in Nat : Shape(Uleb[k])}
<1>1. ASSUME NEW k \in Nat, \A m \in 0..k-1 : m \in T
      PROVE  k \in T
  <2>1. CASE k < 128
    <3>1. Shape(<<k>>)
      BY <2>1
    <3> QED BY <2>1, <3>1, UlebStep
  <2>2. CASE k >= 128
    <3>1. Shape(Uleb[k \div 128])
      BY <1>1, <2>2, Division
    <3>2. Shape(<<128 + (k % 128)>> \o Uleb[k \div 128])
      <4>1. /\ Uleb[k \div 128] \in Seq(Byte)
            /\ <<128 + (k % 128)>> \in Seq(Byte)
        <5>1. k \div 128 \in Nat /\ 128 + (k % 128) \in Byte
          BY Division DEF Byte
        <5> QED BY <5>1, UlebType
      <4> DEFINE s == <<128 + (k % 128)>> \o Uleb[k \div 128]
      <4>2. /\ Len(s) = 1 + Len(Uleb[k \div 128])
            /\ \A i \in 1..Len(s) : s[i] = IF i <= 1 THEN 128 + (k % 128)
                                           ELSE Uleb[k \div 128][i - 1]
        BY <4>1, ConcatProperties
      <4> DEFINE u == Uleb[k \div 128]
                 M == Len(u)
      <4>3. 128 + (k % 128) >= 128 /\ M \in Nat \ {0}
        BY <3>1, Division
      <4> HIDE DEF s
      <4>4. Len(s) = 1 + M /\ s[Len(s)] = u[M] /\ s[1] = 128 + (k % 128)
        BY <4>2, <4>3
      <4>5. ASSUME NEW j \in 1..M
            PROVE  j = 1 \/ (s[j] = u[j - 1] /\ j - 1 \in 1..M-1)
        BY <4>2, <4>3
      <4>6. \A j \in 1..M : s[j] >= 128
        BY <4>3, <4>4, <4>5, <3>1
      <4>7. Shape(s)
        BY <4>3, <4>4, <4>6, <3>1
      <4> QED BY <4>7 DEF s
    <3> QED BY <2>2, <3>2, UlebStep
  <2> QED BY <2>1, <2>2
<1>2. Nat \subseteq T
  <2> HIDE DEF T
  <2> QED BY <1>1, Induction
<1> QED BY <1>2

\* The recursive definition of UlebLast describes a function on its domain.
LEMMA UlebLastStep ==
  ASSUME bytes \in Seq(Byte), UlebEnd \in 0..Len(bytes), NEW k \in 0..UlebEnd
  PROVE  /\ UlebLast[0] = 0
         /\ k > 0 => UlebLast[k] = (bytes[UlebEnd - k + 1] % 128) + 128 * UlebLast[k - 1]
<1> DEFINE e == UlebEnd
           V == Nat
           H == [p \in Nat \X [Nat -> V] |->
                   IF p[1] \in 1..e THEN (bytes[e - p[1] + 1] % 128) + 128 * p[2][p[1] - 1]
                   ELSE 0]
           Def(f) == f = [j \in 0..e |->
                            IF j = 0 THEN 0
                            ELSE (bytes[e - j + 1] % 128) + 128 * f[j - 1]]
<1>1. e \in 0..Len(bytes) /\ e \in Nat
  OBVIOUS
<1>2. UlebLast = CHOOSE f : Def(f)
  BY DEF UlebLast
<1> HIDE DEF e
<1>3. ASSUME NEW j \in 1..e
      PROVE  bytes[e - j + 1] % 128 \in Nat
  <2>1. e - j + 1 \in 1..Len(bytes)
    BY <1>1
  <2>2. bytes[e - j + 1] \in Byte
    BY <2>1
  <2> QED BY <2>2, Residues
<1>4. H \in [Nat \X [Nat -> V] -> V]
  <2>1. ASSUME NEW j \in Nat, NEW f \in [Nat -> V]
        PROVE  (IF j \in 1..e THEN (bytes[e - j + 1] % 128) + 128 * f[j - 1] ELSE 0) \in V
    <3>1. CASE j \in 1..e
      <4> DEFINE a == bytes[e - j + 1] % 128
                 b == f[j - 1]
      <4>1. a \in Nat
        BY <3>1, <1>3
      <4>2. b \in Nat
        <5>1. j - 1 \in Nat
          BY <3>1, <1>1
        <5> QED BY <5>1
      <4> HIDE DEF a, b
      <4>3. a + 128 * b \in Nat
        BY <4>1, <4>2
      <4> QED BY <3>1, <4>3 DEF a, b
    <3> QED BY <3>1
  <2> QED BY <2>1
<1>5. \A j \in Nat : \A f, g \in [Nat -> V] :
        (\A m \in 0..j-1 : f[m] = g[m]) => H[<<j, f>>] = H[<<j, g>>]
  <2> SUFFICES ASSUME NEW j \in Nat, NEW f \in [Nat -> V], NEW g \in [Nat -> V],
                      \A m \in 0..j-1 : f[m] = g[m]
               PROVE  H[<<j, f>>] = H[<<j, g>>]
    OBVIOUS
  <2>1. CASE j \in 1..e
    <3>1. f[j - 1] = g[j - 1]
      BY <2>1, <1>1
    <3> QED BY <2>1, <3>1
  <2>2. CASE j \notin 1..e
    BY <2>2
  <2> QED BY <2>1, <2>2
<1>6. PICK f \in [Nat -> V] : \A j \in Nat : f[j] = H[<<j, f>>]
  <2>1. V # {}
    OBVIOUS
  <2> HIDE DEF H, V
  <2> QED BY <1>4, <1>5, <2>1, Recursion
<1> DEFINE r == [j \in 0..e |-> f[j]]
<1>7. Def(r)
  <2>1. ASSUME NEW j \in 0..e
        PROVE  f[j] = IF j = 0 THEN 0 ELSE (bytes[e - j + 1] % 128) + 128 * r[j - 1]
    <3>1. CASE j = 0
      <4>1. j \in Nat /\ j \notin 1..e
        BY <3>1
      <4>2. f[j] = H[<<j, f>>]
        BY <4>1, <1>6
      <4>3. H[<<j, f>>] = 0
        BY <4>1
      <4> QED BY <3>1, <4>2, <4>3
    <3>2. CASE j # 0
      <4>1. j \in Nat /\ j \in 1..e /\ j - 1 \in 0..e
        BY <3>2, <1>1
      <4>2. f[j] = H[<<j, f>>]
        BY <4>1, <1>6
      <4>3. H[<<j, f>>] = (bytes[e - j + 1] % 128) + 128 * f[j - 1]
        BY <4>1
      <4> QED BY <3>2, <4>1, <4>2, <4>3
    <3> QED BY <3>1, <3>2
  <2> QED BY <2>1
<1>8. Def(UlebLast)
  <2> HIDE DEF Def, r
  <2> QED BY <1>2, <1>7
<1>9. \A j \in 0..e : UlebLast[j] = IF j = 0 THEN 0
                                   ELSE (bytes[e - j + 1] % 128) + 128 * UlebLast[j - 1]
  BY <1>8
<1> HIDE <1>2, <1>6, <1>7, <1>8
<1>10. k \in 0..e /\ 0 \in 0..e /\ (k > 0 => k # 0)
  BY <1>1 DEF e
<1> QED BY <1>9, <1>10 DEF e

\* The last bytes of a buffer up to UlebEnd, when they are a uleb128 number.
LEMMA UlebSum ==
  ASSUME bytes \in Seq(Byte), UlebEnd \in 0..Len(bytes)
  PROVE  \A n \in Nat :
           /\ Len(Uleb[n]) <= UlebEnd
           /\ \A j \in 1..Len(Uleb[n]) : bytes[UlebEnd - Len(Uleb[n]) + j] = Uleb[n][j]
           => UlebLast[Len(Uleb[n])] = n
<1> DEFINE e == UlebEnd
           Ends(s) == Len(s) <= e /\ \A j \in 1..Len(s) : bytes[e - Len(s) + j] = s[j]
           T == {n \in Nat : Ends(Uleb[n]) => UlebLast[Len(Uleb[n])] = n}
<1>1. e \in Nat
  OBVIOUS
<1>2. \A k \in 1..e : UlebLast[k] = (bytes[e - k + 1] % 128) + 128 * UlebLast[k - 1]
  <2> SUFFICES ASSUME NEW k \in 1..e
               PROVE  UlebLast[k] = (bytes[e - k + 1] % 128) + 128 * UlebLast[k - 1]
    OBVIOUS
  <2>1. k \in 0..UlebEnd /\ k > 0
    BY <1>1
  <2> QED BY <2>1, UlebLastStep
<1>3. UlebLast[0] = 0
  <2>1. 0 \in 0..UlebEnd
    BY <1>1
  <2> QED BY <2>1, UlebLastStep
<1> HIDE DEF e
<1>4. ASSUME NEW n \in Nat, \A m \in 0..n-1 : m \in T
      PROVE  n \in T
  <2> SUFFICES ASSUME Ends(Uleb[n]) PROVE UlebLast[Len(Uleb[n])] = n
    OBVIOUS
  <2>1. CASE n < 128
    <3>1. Uleb[n] = <<n>>
      BY <2>1, UlebStep
    <3>2. 1 <= e /\ bytes[e - 1 + 1] = n
      BY <3>1
    <3>3. UlebLast[1] = (bytes[e - 1 + 1] % 128) + 128 * UlebLast[0]
      <4>1. 1 \in 1..e /\ 1 - 1 = 0
        BY <3>2, <1>1
      <4> QED BY <4>1, <1>2
    <3>4. n % 128 = n
      BY <2>1
    <3> QED BY <3>1, <3>2, <3>3, <3>4, <1>3
  <2>2. CASE n >= 128
    <3> DEFINE m == n \div 128
               b == 128 + (n % 128)
               u == Uleb[m]
               L == Len(u)
    <3>1. m \in Nat /\ m \in 0..n-1 /\ n % 128 \in 0..127 /\ n = 128 * m + (n % 128)
      BY <2>2, Division
    <3>2. Uleb[n] = <<b>> \o u
      BY <2>2, UlebStep
    <3>3. u \in Seq(Byte) /\ b \in Byte /\ b % 128 = n % 128
      BY <3>1, UlebType DEF Byte
    <3> HIDE DEF b, u, m
    <3>4. L \in Nat
      BY <3>3
    <3>5. Len(Uleb[n]) = 1 + L /\ Uleb[n][1] = b /\ \A j \in 1..L : Uleb[n][j + 1] = u[j]
      <4>1. <<b>> \in Seq(Byte) /\ Len(<<b>>) = 1 /\ <<b>>[1] = b
        BY <3>3
      <4> DEFINE s == <<b>> \o u
      <4>2. Len(s) = 1 + L /\ \A i \in 1..1+L : s[i] = IF i <= 1 THEN <<b>>[i] ELSE u[i - 1]
        BY <4>1, <3>3, ConcatProperties
      <4> HIDE DEF s
      <4>3. s[1] = b /\ \A j \in 1..L : s[j + 1] = u[j]
        BY <4>1, <4>2, <3>4
      <4> QED BY <3>2, <4>2, <4>3 DEF s
    <3>6. 1 + L <= e /\ bytes[e - (1 + L) + 1] = b
      BY <3>4, <3>5, <1>1
    <3>7. Ends(u)
      <4>1. ASSUME NEW j \in 1..L
            PROVE  bytes[e - L + j] = u[j]
        <5>1. j + 1 \in 1..1+L
          BY <3>4
        <5>2. bytes[e - (1 + L) + (j + 1)] = u[j]
          BY <5>1, <3>5
        <5>3. e - (1 + L) + (j + 1) = e - L + j
          BY <3>4, <1>1
        <5> QED BY <5>2, <5>3
      <4> QED BY <4>1, <3>4, <3>6, <1>1
    <3>8. UlebLast[L] = m
      BY <3>1, <3>7, <1>4 DEF u
    <3>9. UlebLast[1 + L] = (bytes[e - (1 + L) + 1] % 128) + 128 * UlebLast[(1 + L) - 1]
      <4>1. 1 + L \in 1..e
        BY <3>4, <3>6, <1>1
      <4> QED BY <4>1, <1>2
    <3>10. UlebLast[1 + L] = n
      <4>1. (1 + L) - 1 = L
        BY <3>4
      <4>2. UlebLast[1 + L] = (b % 128) + 128 * m
        BY <4>1, <3>6, <3>8, <3>9
      <4>3. PICK r \in Nat : r = n % 128
        BY <3>1
      <4>4. UlebLast[1 + L] = r + 128 * m /\ n = 128 * m + r
        BY <4>2, <4>3, <3>1, <3>3
      <4> QED BY <4>3, <4>4, <3>1
    <3> QED BY <3>5, <3>10
  <2> QED BY <2>1, <2>2
<1>5. Nat \subseteq T
  <2> HIDE DEF T
  <2> QED BY <1>4, Induction
<1> QED BY <1>5 DEF e

\* The reader of uleb128 numbers at a number: it finds the number when all of
\* it is there, and runs into the end of the buffer otherwise.
LEMMA UlebRead ==
  ASSUME NEW n \in Nat, bytes \in Seq(Byte), pos \in 0..Len(bytes),
         \A j \in 1..Len(Uleb[n]) :
           pos + j <= Len(bytes) => bytes[pos + j] = Uleb[n][j]
  PROVE  IF pos + Len(Uleb[n]) <= Len(bytes)
         THEN HasUleb /\ UlebEnd = pos + Len(Uleb[n]) /\ UlebValue = n
         ELSE ~HasUleb
<1> DEFINE u == Uleb[n]
           L == Len(u)
           N == Len(bytes)
<1>1. /\ L \in Nat \ {0} /\ u[L] < 128
      /\ \A j \in 1..L-1 : u[j] >= 128
  BY UlebShape
<1>2. N \in Nat
  OBVIOUS
<1>3. \A j \in 1..L : pos + j <= N => bytes[pos + j] = u[j]
  OBVIOUS
<1>4. ASSUME NEW p \in pos + 1 .. pos + L - 1, p <= N
      PROVE  bytes[p] >= 128
  <2> HIDE DEF u, L, N
  <2> DEFINE j == p - pos
  <2>1. j \in 1..L /\ j \in 1..L-1 /\ pos + j = p
    BY <1>1, <1>2
  <2> HIDE DEF j
  <2>2. bytes[pos + j] = u[j] /\ u[j] >= 128
    BY <2>1, <1>1, <1>3, <1>4
  <2> QED BY <2>1, <2>2
<1>5. CASE ~ (pos + L <= N)
  <2>1. \A p \in pos + 1 .. N : bytes[p] >= 128
    <3> HIDE DEF u, L, N
    <3> QED BY <1>1, <1>2, <1>4, <1>5
  <2>2. ~HasUleb
    BY <2>1 DEF HasUleb
  <2> QED BY <1>5, <2>2
<1>6. CASE pos + L <= N
  <2> DEFINE e == pos + L
             E(p) == bytes[p] < 128 /\ \A q \in pos + 1 .. p - 1 : bytes[q] >= 128
  <2>1. bytes[e] < 128 /\ e \in pos + 1 .. N /\ ~ (bytes[e] >= 128)
    <3> HIDE DEF u, L, N
    <3>1. bytes[e] = u[L] /\ e \in pos + 1 .. N /\ e \in 1..N
      BY <1>1, <1>2, <1>3, <1>6
    <3>2. bytes[e] \in Byte
      BY <3>1 DEF N
    <3> DEFINE b == bytes[e]
    <3>3. b \in Byte /\ b < 128
      BY <3>1, <3>2, <1>1
    <3> HIDE DEF b
    <3>4. ~ (b >= 128)
      BY <3>3 DEF Byte
    <3> QED BY <3>1, <3>3, <3>4 DEF b
  <2>2. \A q \in pos + 1 .. e - 1 : bytes[q] >= 128
    <3> HIDE DEF u, L, N
    <3> QED BY <1>1, <1>2, <1>4, <1>6
  <2>3. HasUleb
    BY <2>1 DEF HasUleb
  <2>4. \A p \in pos + 1 .. N : E(p) => p = e
    <3> HIDE DEF e, N
    <3> SUFFICES ASSUME NEW p \in pos + 1 .. N, E(p), p # e
                 PROVE  FALSE
      OBVIOUS
    <3>1. CASE p < e
      <4>1. p \in pos + 1 .. e - 1 /\ bytes[p] \in Byte
        BY <3>1, <2>1 DEF N
      <4>2. bytes[p] >= 128 /\ bytes[p] < 128
        BY <4>1, <2>2
      <4> QED BY <4>1, <4>2, Halves
    <3>2. CASE p > e
      <4>1. e \in pos + 1 .. p - 1
        BY <3>2, <2>1, <1>2
      <4> QED BY <4>1, <2>1
    <3> QED BY <3>1, <3>2, <2>1, <1>2
  <2>5. UlebEnd = e
    <3>1. UlebEnd = CHOOSE p \in pos + 1 .. N : E(p)
      BY DEF UlebEnd
    <3> HIDE DEF e, N
    <3>2. E(e)
      BY <2>1, <2>2
    <3> HIDE DEF E
    <3> QED BY <2>1, <2>4, <3>1, <3>2
  <2>6. UlebValue = n
    <3>1. UlebEnd \in 0..Len(bytes) /\ UlebEnd - pos = L /\ UlebEnd - L = pos
      BY <2>1, <2>5, <1>1, <1>2
    <3>2. L <= UlebEnd /\ \A j \in 1..L : bytes[UlebEnd - L + j] = u[j]
      <4>1. \A j \in 1..L : pos + j <= N
        BY <1>1, <1>2, <1>6
      <4>2. \A j \in 1..L : bytes[pos + j] = u[j]
        BY <4>1, <1>3
      <4>3. L <= UlebEnd
        BY <3>1, <1>1
      <4> HIDE DEF u, L
      <4> QED BY <3>1, <4>2, <4>3
    <3>3. UlebLast[L] = n
      BY <3>1, <3>2, UlebSum
    <3> QED BY <3>1, <3>3 DEF UlebValue
  <2> HIDE DEF E
  <2> QED BY <1>6, <2>3, <2>5, <2>6
<1> QED BY <1>5, <1>6

(***************************************************************************)
(* The tables                                                              *)
(***************************************************************************)

Fixed == {"u8", "u16", "u32", "u64", "u128", "u256", "bool", "address", "sender",
          "multisig_address", "sequence_number", "max_gas_amount", "gas_unit_price",
          "expiration_timestamp_secs", "chain_id"}
Keys == {"Secp256k1PublicKey", "Secp256k1Signature", "MultiSecp256k1PublicKey",
         "MultiSecp256k1Signature"}
Vectors == {"type_args", "ty_args", "script_args", "args", "elements", "fields",
            "secondary_signer_addresses", "secondary_signers", "abi_ty_args", "abi_args"}
Abstract == {"TypeTag", "RawTransactionWithData", "TransactionPayload",
             "MultiSigTransactionPayload", "payloadPresent", "Transaction",
             "TransactionArgument", "EntryFunctionArgument", "isSome",
             "TransactionAuthenticator", "AccountAuthenticator", "ScriptABI"}
Concrete == {"StructTag", "RawTransaction", "Script", "EntryFunction", "MultiSig",
             "Module", "ModuleId", "SignedTransaction", "Field", "TypeArgumentABI",
             "ArgumentABI"}

\* The names that have an entry in each table.
LEMMA Domains ==
  /\ DOMAIN Width = Fixed /\ DOMAIN Lengths = Texts \cup Keys
  /\ DOMAIN ElementOf = Vectors /\ DOMAIN Variants = Abstract /\ DOMAIN Plains = Concrete
<1>1. DOMAIN Width = Fixed
  BY DEF Width, Fixed
<1>2. DOMAIN KeyLengths = Keys
  BY DEF KeyLengths, Keys
<1>3. DOMAIN Lengths = Texts \cup DOMAIN KeyLengths
  BY DEF Lengths
<1>4. DOMAIN ElementOf = Vectors
  BY DEF ElementOf, Vectors
<1>5. DOMAIN Variants = Abstract
  BY DEF Variants, Abstract
<1>6. DOMAIN Plains = Concrete
  BY DEF Plains, Concrete
<1> QED BY <1>1, <1>2, <1>3, <1>4, <1>5, <1>6

\* The items are those names.
LEMMA ItemsAre == Items = Fixed \cup Texts \cup Keys \cup Vectors \cup Abstract \cup Concrete
BY Domains DEF Items

\* An item is of one kind, and none is the name of a tag the wire confuses.
LEMMA Kinds ==
  ASSUME NEW x
  PROVE  /\ x \in Fixed => x \notin Texts \cup Keys \cup Vectors \cup Abstract \cup Concrete
         /\ x \in Texts \cup Keys => x \notin Vectors \cup Abstract \cup Concrete
         /\ x \in Vectors => x \notin Abstract \cup Concrete
         /\ x \in Abstract => x \notin Concrete
         /\ x \in Items => x \notin Misnumbered
<1>1. x \in Fixed => x \notin Texts \cup Keys \cup Vectors \cup Abstract \cup Concrete
  BY DEF Fixed, Texts, Keys, Vectors, Abstract, Concrete
<1>2. x \in Texts \cup Keys => x \notin Vectors \cup Abstract \cup Concrete
  BY DEF Texts, Keys, Vectors, Abstract, Concrete
<1>3. x \in Vectors => x \notin Abstract \cup Concrete
  BY DEF Vectors, Abstract, Concrete
<1>4. x \in Abstract => x \notin Concrete
  BY DEF Abstract, Concrete
<1>5. x \in Items => x \notin Misnumbered
  <2>1. \A y \in Misnumbered : y \notin Fixed \cup Texts \cup Keys
    BY DEF Fixed, Texts, Keys, Misnumbered
  <2>2. \A y \in Misnumbered : y \notin Vectors \cup Abstract \cup Concrete
    BY DEF Vectors, Abstract, Concrete, Misnumbered
  <2> QED BY <2>1, <2>2, ItemsAre
<1> QED BY <1>1, <1>2, <1>3, <1>4, <1>5

\* Every name in a list of fields is an item.
LEMMA FieldNames ==
  /\ "address" \in Items /\ "module_name" \in Items /\ "name" \in Items
  /\ "type_args" \in Items /\ "sender" \in Items /\ "sequence_number" \in Items
  /\ "TransactionPayload" \in Items
  /\ "max_gas_amount" \in Items
  /\ "gas_unit_price" \in Items
  /\ "expiration_timestamp_secs" \in Items /\ "chain_id" \in Items /\ "code" \in Items
  /\ "ty_args" \in Items /\ "script_args" \in Items /\ "ModuleId" \in Items
  /\ "function_name" \in Items /\ "args" \in Items /\ "EntryFunction" \in Items
  /\ "multisig_address" \in Items
  /\ "payloadPresent" \in Items
  /\ "MultiSigTransactionPayload" \in Items
  /\ "RawTransaction" \in Items
  /\ "TransactionAuthenticator" \in Items
  /\ "secondary_signer_addresses" \in Items
  /\ "Script" \in Items /\ "MultiSig" \in Items /\ "SignedTransaction" \in Items
  /\ "StructTag" \in Items /\ "TypeTag" \in Items /\ "EntryFunctionArgument" \in Items
  /\ "elements" \in Items /\ "fields" \in Items /\ "bytes" \in Items
  /\ "u8" \in Items /\ "u16" \in Items /\ "u32" \in Items
  /\ "u64" \in Items /\ "u128" \in Items /\ "u256" \in Items
  /\ "bool" \in Items /\ "str" \in Items /\ "isSome" \in Items
  /\ "Secp256k1PublicKey" \in Items
  /\ "Secp256k1Signature" \in Items
  /\ "MultiSecp256k1PublicKey" \in Items
  /\ "MultiSecp256k1Signature" \in Items
  /\ "AccountAuthenticator" \in Items
  /\ "secondary_signers" \in Items
  /\ "doc" \in Items /\ "abi_ty_args" \in Items /\ "abi_args" \in Items
  /\ "TransactionArgument" \in Items /\ "Field" \in Items /\ "TypeArgumentABI" \in Items
  /\ "ArgumentABI" \in Items
BY ItemsAre DEF Fixed, Texts, Keys, Vectors, Abstract, Concrete

\* A field of fixed size has a number of bytes.
LEMMA Widths == \A x \in Fixed : Width[x] \in Nat
BY DEF Width, Fixed, AddressLength

\* The element of a vector is an item.
LEMMA Elements == \A x \in Vectors : ElementOf[x] \in Items
BY ItemsAre DEF ElementOf, Vectors, Fixed, Abstract, Concrete

\* A length prefix is a number.
LEMMA LengthTypes == \A x \in Texts \cup Keys : Lengths[x] \subseteq Nat
<1>1. \A x \in Keys : KeyLengths[x] \subseteq Nat
  <2>1. \A k \in KeyCounts : k * 65 + 1 \in Nat /\ k * 64 + 4 \in Nat
    BY LayoutsAssumption
  <2> QED BY <2>1 DEF KeyLengths, Keys, PublicKeyLength, SignatureLength, BitmapLength
<1>2. \A x \in Texts : TextLengths[x] \subseteq Nat
  BY LayoutsAssumption
<1>3. DOMAIN KeyLengths = Keys
  BY DEF KeyLengths, Keys
<1> QED BY <1>1, <1>2, <1>3 DEF Lengths

\* The lists of fields of the classes.
FieldLists ==
  { << >>,
    <<"EntryFunction">>,
    <<"EntryFunctionArgument">>,
    <<"MultiSig">>,
    <<"MultiSigTransactionPayload">>,
    <<"Script">>,
    <<"SignedTransaction">>,
    <<"StructTag">>,
    <<"TypeTag">>,
    <<"address">>,
    <<"bool">>,
    <<"bytes">>,
    <<"code">>,
    <<"elements">>,
    <<"isSome">>,
    <<"name">>,
    <<"str">>,
    <<"u128">>,
    <<"u16">>,
    <<"u256">>,
    <<"u32">>,
    <<"u64">>,
    <<"u8">>,
    <<"MultiSecp256k1PublicKey", "MultiSecp256k1Signature">>,
    <<"RawTransaction", "TransactionAuthenticator">>,
    <<"RawTransaction", "secondary_signer_addresses">>,
    <<"Secp256k1PublicKey", "Secp256k1Signature">>,
    <<"StructTag", "fields">>,
    <<"address", "module_name">>,
    <<"multisig_address", "payloadPresent">>,
    <<"name", "EntryFunctionArgument">>,
    <<"name", "TypeTag">>,
    <<"AccountAuthenticator", "secondary_signer_addresses",
       "secondary_signers">>,
    <<"code", "ty_args", "script_args">>,
    <<"ModuleId", "function_name", "ty_args", "args">>,
    <<"address", "module_name", "name", "type_args">>,
    <<"name", "ModuleId", "doc", "abi_ty_args", "abi_args">>,
    <<"name", "doc", "code", "abi_ty_args", "abi_args">>,
    <<"sender", "sequence_number", "TransactionPayload",
       "max_gas_amount", "gas_unit_price", "expiration_timestamp_secs", "chain_id">> }

\* Those lists hold items and nothing else.
LEMMA FieldListsTyped == \A s \in FieldLists : s \in Seq(Items)
<1>1. /\ << >> \in Seq(Items)
      /\ <<"EntryFunction">> \in Seq(Items)
      /\ <<"EntryFunctionArgument">> \in Seq(Items)
      /\ <<"MultiSig">> \in Seq(Items)
      /\ <<"MultiSigTransactionPayload">> \in Seq(Items)
      /\ <<"Script">> \in Seq(Items)
      /\ <<"SignedTransaction">> \in Seq(Items)
      /\ <<"StructTag">> \in Seq(Items)
      /\ <<"TypeTag">> \in Seq(Items)
      /\ <<"address">> \in Seq(Items)
      /\ <<"bool">> \in Seq(Items)
      /\ <<"bytes">> \in Seq(Items)
      /\ <<"code">> \in Seq(Items)
      /\ <<"elements">> \in Seq(Items)
      /\ <<"isSome">> \in Seq(Items)
      /\ <<"name">> \in Seq(Items)
      /\ <<"str">> \in Seq(Items)
      /\ <<"u128">> \in Seq(Items)
      /\ <<"u16">> \in Seq(Items)
      /\ <<"u256">> \in Seq(Items)
      /\ <<"u32">> \in Seq(Items)
      /\ <<"u64">> \in Seq(Items)
      /\ <<"u8">> \in Seq(Items)
  BY FieldNames
<1>2. /\ <<"MultiSecp256k1PublicKey", "MultiSecp256k1Signature">> \in Seq(Items)
      /\ <<"RawTransaction", "TransactionAuthenticator">> \in Seq(Items)
      /\ <<"RawTransaction", "secondary_signer_addresses">> \in Seq(Items)
      /\ <<"Secp256k1PublicKey", "Secp256k1Signature">> \in Seq(Items)
      /\ <<"StructTag", "fields">> \in Seq(Items)
      /\ <<"address", "module_name">> \in Seq(Items)
      /\ <<"multisig_address", "payloadPresent">> \in Seq(Items)
      /\ <<"name", "EntryFunctionArgument">> \in Seq(Items)
      /\ <<"name", "TypeTag">> \in Seq(Items)
      /\ <<"AccountAuthenticator", "secondary_signer_addresses",
       "secondary_signers">> \in Seq(Items)
      /\ <<"code", "ty_args", "script_args">> \in Seq(Items)
  BY FieldNames
<1>3. /\ <<"ModuleId", "function_name", "ty_args", "args">> \in Seq(Items)
      /\ <<"address", "module_name", "name", "type_args">> \in Seq(Items)
      /\ <<"name", "ModuleId", "doc", "abi_ty_args", "abi_args">> \in Seq(Items)
      /\ <<"name", "doc", "code", "abi_ty_args", "abi_args">> \in Seq(Items)
      /\ <<"sender", "sequence_number", "TransactionPayload",
       "max_gas_amount", "gas_unit_price", "expiration_timestamp_secs", "chain_id">> \in Seq(Items)
  BY FieldNames
<1> QED BY <1>1, <1>2, <1>3 DEF FieldLists

\* The reader of a plain class calls for the fields its writer has written.
LEMMA PlainFields ==
  \A x \in Concrete : Plains[x].writes \in Seq(Items) /\ Plains[x].reads = Plains[x].writes
<1>1. \A x \in Concrete : Plains[x].reads = Plains[x].writes
  BY DEF Concrete, Plains, Plain, StructTagClass, RawTransactionClass, ScriptClass,
         EntryFunctionClass, MultiSigClass, ModuleClass, ModuleIdClass,
         SignedTransactionClass, FieldClass, TypeArgumentABIClass, ArgumentABIClass
<1>2. \A x \in Concrete : Plains[x].writes \in FieldLists
  BY DEF FieldLists, Concrete, Plains, Plain, StructTagClass, RawTransactionClass, ScriptClass,
      EntryFunctionClass, MultiSigClass, ModuleClass, ModuleIdClass,
      SignedTransactionClass, FieldClass, TypeArgumentABIClass, ArgumentABIClass
<1> QED BY <1>1, <1>2, FieldListsTyped

\* What the reader takes a variant for.
Taken(v) == IF v \in Misnumbered THEN "TypeTagU8" ELSE v

\* A variant is written with an index, and with fields, by which its reader
\* finds the variant again, or TypeTagU8 for a misnumbered tag.
Found(class, v) ==
  /\ Variants[class][v].index \in Nat
  /\ Variants[class][v].writes \in Seq(Items)
  /\ Chosen(class, Variants[class][v].index) = Taken(v) /\ Taken(v) # Unknown
  /\ Variants[class][Taken(v)].reads = Variants[class][v].writes

\* The reader finds every type tag, but takes three of them for TypeTagU8.
LEMMA TypeTagsFound == \A v \in DOMAIN TypeTagClasses : Found("TypeTag", v)
<1>1. Variants["TypeTag"] = TypeTagClasses /\ Switch["TypeTag"] = TypeTagSwitch
  BY DEF Variants, Switch
<1> SUFFICES ASSUME NEW v \in DOMAIN TypeTagClasses PROVE Found("TypeTag", v)
  OBVIOUS
<1>2. TypeTagClasses[v].writes \in FieldLists /\ TypeTagClasses[v].index \in Nat
  BY DEF TypeTagClasses, Class, FieldLists
<1>3. CASE v \in Misnumbered
  <2>1. Taken(v) = "TypeTagU8" /\ Taken(v) # Unknown
    BY <1>3 DEF Taken, Unknown
  <2>2. TypeTagClasses["TypeTagU8"].reads = TypeTagClasses[v].writes
    BY <1>3 DEF TypeTagClasses, Class, Misnumbered
  <2>3. Chosen("TypeTag", TypeTagClasses[v].index) = "TypeTagU8"
    BY <1>1, <1>3 DEF TypeTagClasses, Class, Misnumbered, Chosen, Case, TypeTagSwitch
  <2> QED BY <1>1, <1>2, <2>1, <2>2, <2>3, FieldListsTyped DEF Found
<1>4. CASE v \notin Misnumbered
  <2>1. Taken(v) = v /\ v # Unknown
    BY <1>4 DEF Taken, Unknown, TypeTagClasses
  <2>2. TypeTagClasses[v].reads = TypeTagClasses[v].writes
    BY DEF TypeTagClasses, Class
  <2>3. Chosen("TypeTag", TypeTagClasses[v].index) = v
    BY <1>1, <1>4 DEF TypeTagClasses, Class, Misnumbered, Chosen, Case, TypeTagSwitch
  <2> QED BY <1>1, <1>2, <2>1, <2>2, <2>3, FieldListsTyped DEF Found
<1> QED BY <1>3, <1>4

\* A variant that is not misnumbered is written so that it is found again.
Kept(class, v) ==
  /\ v \notin Misnumbered /\ v # Unknown
  /\ Variants[class][v].index \in Nat /\ Variants[class][v].writes \in FieldLists
  /\ Variants[class][v].reads = Variants[class][v].writes
  /\ Chosen(class, Variants[class][v].index) = v

\* What is kept is found.
LEMMA KeptFound == ASSUME NEW class, NEW v, Kept(class, v) PROVE Found(class, v)
BY FieldListsTyped DEF Kept, Found, Taken

\* Every variant of every abstract class is found again: the tables of the
\* serialize methods and those of the deserialize methods agree.
LEMMA VariantsFound ==
  \A class \in Abstract : \A v \in DOMAIN Variants[class] : Found(class, v)
<1>1. \A v \in DOMAIN Variants["TypeTag"] : Found("TypeTag", v)
  BY TypeTagsFound DEF Variants
<1>2. \A v \in DOMAIN Variants["RawTransactionWithData"] : Kept("RawTransactionWithData", v)
  <2>1. /\ Variants["RawTransactionWithData"] = RawTransactionWithDataClasses
        /\ Switch["RawTransactionWithData"] = RawTransactionWithDataSwitch
    BY DEF Variants, Switch
  <2>2. \A v \in DOMAIN RawTransactionWithDataClasses :
          v \notin Misnumbered /\ v # Unknown
    BY DEF RawTransactionWithDataClasses, Class, Misnumbered, Unknown
  <2>3. \A v \in DOMAIN RawTransactionWithDataClasses :
          /\ RawTransactionWithDataClasses[v].index \in Nat
          /\ RawTransactionWithDataClasses[v].writes \in FieldLists
          /\ RawTransactionWithDataClasses[v].reads = RawTransactionWithDataClasses[v].writes
    BY DEF RawTransactionWithDataClasses, Class, FieldLists
  <2>4. \A v \in DOMAIN RawTransactionWithDataClasses :
          Chosen("RawTransactionWithData", RawTransactionWithDataClasses[v].index) = v
    BY <2>1 DEF RawTransactionWithDataClasses, Class, Chosen, Case, RawTransactionWithDataSwitch
  <2> QED BY <2>1, <2>2, <2>3, <2>4 DEF Kept
<1>3. \A v \in DOMAIN Variants["TransactionPayload"] : Kept("TransactionPayload", v)
  <2>1. /\ Variants["TransactionPayload"] = TransactionPayloadClasses
        /\ Switch["TransactionPayload"] = TransactionPayloadSwitch
    BY DEF Variants, Switch
  <2>2. \A v \in DOMAIN TransactionPayloadClasses :
          v \notin Misnumbered /\ v # Unknown
    BY DEF TransactionPayloadClasses, Class, Misnumbered, Unknown
  <2>3. \A v \in DOMAIN TransactionPayloadClasses :
          /\ TransactionPayloadClasses[v].index \in Nat
          /\ TransactionPayloadClasses[v].writes \in FieldLists
          /\ TransactionPayloadClasses[v].reads = TransactionPayloadClasses[v].writes
    BY DEF TransactionPayloadClasses, Class, FieldLists
  <2>4. \A v \in DOMAIN TransactionPayloadClasses :
          Chosen("TransactionPayload", TransactionPayloadClasses[v].index) = v
    BY <2>1 DEF TransactionPayloadClasses, Class, Chosen, Case, TransactionPayloadSwitch
  <2> QED BY <2>1, <2>2, <2>3, <2>4 DEF Kept
<1>4. \A v \in DOMAIN Variants["MultiSigTransactionPayload"] :
        Kept("MultiSigTransactionPayload", v)
  <2>1. Variants["MultiSigTransactionPayload"] = MultiSigPayloadClasses
    BY DEF Variants
  <2>2. \A v \in DOMAIN MultiSigPayloadClasses :
          v \notin Misnumbered /\ v # Unknown
    BY DEF MultiSigPayloadClasses, Class, Misnumbered, Unknown
  <2>3. \A v \in DOMAIN MultiSigPayloadClasses :
          /\ MultiSigPayloadClasses[v].index \in Nat
          /\ MultiSigPayloadClasses[v].writes \in FieldLists
          /\ MultiSigPayloadClasses[v].reads = MultiSigPayloadClasses[v].writes
    BY DEF MultiSigPayloadClasses, Class, FieldLists
  <2>4. \A v \in DOMAIN MultiSigPayloadClasses :
          Chosen("MultiSigTransactionPayload", MultiSigPayloadClasses[v].index) = v
    BY <2>1 DEF MultiSigPayloadClasses, Class, Chosen
  <2> QED BY <2>1, <2>2, <2>3, <2>4 DEF Kept
<1>5. \A v \in DOMAIN Variants["payloadPresent"] : Kept("payloadPresent", v)
  <2>1. /\ Variants["payloadPresent"] = PayloadPresentClasses
        /\ Switch["payloadPresent"] = PayloadPresentSwitch
    BY DEF Variants, Switch
  <2>2. \A v \in DOMAIN PayloadPresentClasses :
          v \notin Misnumbered /\ v # Unknown
    BY DEF PayloadPresentClasses, Class, Misnumbered, Unknown
  <2>3. \A v \in DOMAIN PayloadPresentClasses :
          /\ PayloadPresentClasses[v].index \in Nat
          /\ PayloadPresentClasses[v].writes \in FieldLists
          /\ PayloadPresentClasses[v].reads = PayloadPresentClasses[v].writes
    BY DEF PayloadPresentClasses, Class, FieldLists
  <2>4. \A v \in DOMAIN PayloadPresentClasses :
          Chosen("payloadPresent", PayloadPresentClasses[v].index) = v
    BY <2>1 DEF PayloadPresentClasses, Class, Chosen, Case, PayloadPresentSwitch
  <2> QED BY <2>1, <2>2, <2>3, <2>4 DEF Kept
<1>6. \A v \in DOMAIN Variants["Transaction"] : Kept("Transaction", v)
  <2>1. /\ Variants["Transaction"] = UserTransactionClasses
        /\ Switch["Transaction"] = TransactionSwitch
    BY DEF Variants, Switch
  <2>2. \A v \in DOMAIN UserTransactionClasses :
          v \notin Misnumbered /\ v # Unknown
    BY DEF UserTransactionClasses, Class, Misnumbered, Unknown
  <2>3. \A v \in DOMAIN UserTransactionClasses :
          /\ UserTransactionClasses[v].index \in Nat
          /\ UserTransactionClasses[v].writes \in FieldLists
          /\ UserTransactionClasses[v].reads = UserTransactionClasses[v].writes
    BY DEF UserTransactionClasses, Class, FieldLists
  <2>4. \A v \in DOMAIN UserTransactionClasses :
          Chosen("Transaction", UserTransactionClasses[v].index) = v
    BY <2>1 DEF UserTransactionClasses, Class, Chosen, Case, TransactionSwitch
  <2> QED BY <2>1, <2>2, <2>3, <2>4 DEF Kept
<1>7. \A v \in DOMAIN Variants["TransactionArgument"] : Kept("TransactionArgument", v)
  <2>1. /\ Variants["TransactionArgument"] = TransactionArgumentClasses
        /\ Switch["TransactionArgument"] = TransactionArgumentSwitch
    BY DEF Variants, Switch
  <2>2. \A v \in DOMAIN TransactionArgumentClasses :
          v \notin Misnumbered /\ v # Unknown
    BY DEF TransactionArgumentClasses, Class, Misnumbered, Unknown
  <2>3. \A v \in DOMAIN TransactionArgumentClasses :
          /\ TransactionArgumentClasses[v].index \in Nat
          /\ TransactionArgumentClasses[v].writes \in FieldLists
          /\ TransactionArgumentClasses[v].reads = TransactionArgumentClasses[v].writes
    BY DEF TransactionArgumentClasses, Class, FieldLists
  <2>4. \A v \in DOMAIN TransactionArgumentClasses :
          Chosen("TransactionArgument", TransactionArgumentClasses[v].index) = v
    BY <2>1 DEF TransactionArgumentClasses, Class, Chosen, Case, TransactionArgumentSwitch
  <2> QED BY <2>1, <2>2, <2>3, <2>4 DEF Kept
<1>8. \A v \in DOMAIN Variants["EntryFunctionArgument"] : Kept("EntryFunctionArgument", v)
  <2>1. /\ Variants["EntryFunctionArgument"] = EntryFunctionArgumentClasses
        /\ Switch["EntryFunctionArgument"] = EntryFunctionArgumentSwitch
    BY DEF Variants, Switch
  <2>2. ASSUME NEW v \in DOMAIN NumberArgumentClasses PROVE Kept("EntryFunctionArgument", v)
    <3>1. EntryFunctionArgumentClasses[v] = NumberArgumentClasses[v]
      BY DEF EntryFunctionArgumentClasses, NumberArgumentClasses, ValueArgumentClasses,
             CompoundArgumentClasses
    <3>2. v \notin Misnumbered /\ v # Unknown
      BY DEF NumberArgumentClasses, Class, Misnumbered, Unknown
    <3>3. /\ NumberArgumentClasses[v].index \in Nat
          /\ NumberArgumentClasses[v].writes \in FieldLists
          /\ NumberArgumentClasses[v].reads = NumberArgumentClasses[v].writes
      BY DEF NumberArgumentClasses, Class, FieldLists
    <3>4. Chosen("EntryFunctionArgument", NumberArgumentClasses[v].index) = v
      BY <2>1 DEF NumberArgumentClasses, Class, Chosen, Case, EntryFunctionArgumentSwitch
    <3> QED BY <2>1, <3>1, <3>2, <3>3, <3>4 DEF Kept
  <2>3. ASSUME NEW v \in DOMAIN ValueArgumentClasses PROVE Kept("EntryFunctionArgument", v)
    <3>1. EntryFunctionArgumentClasses[v] = ValueArgumentClasses[v]
      BY DEF EntryFunctionArgumentClasses, NumberArgumentClasses, ValueArgumentClasses,
             CompoundArgumentClasses
    <3>2. v \notin Misnumbered /\ v # Unknown
      BY DEF ValueArgumentClasses, Class, Misnumbered, Unknown
    <3>3. /\ ValueArgumentClasses[v].index \in Nat
          /\ ValueArgumentClasses[v].writes \in FieldLists
          /\ ValueArgumentClasses[v].reads = ValueArgumentClasses[v].writes
      BY DEF ValueArgumentClasses, Class, FieldLists
    <3>4. Chosen("EntryFunctionArgument", ValueArgumentClasses[v].index) = v
      BY <2>1 DEF ValueArgumentClasses, Class, Chosen, Case, EntryFunctionArgumentSwitch
    <3> QED BY <2>1, <3>1, <3>2, <3>3, <3>4 DEF Kept
  <2>4. ASSUME NEW v \in DOMAIN CompoundArgumentClasses PROVE Kept("EntryFunctionArgument", v)
    <3>1. EntryFunctionArgumentClasses[v] = CompoundArgumentClasses[v]
      BY DEF EntryFunctionArgumentClasses, NumberArgumentClasses, ValueArgumentClasses,
             CompoundArgumentClasses
    <3>2. v \notin Misnumbered /\ v # Unknown
      BY DEF CompoundArgumentClasses, Class, Misnumbered, Unknown
    <3>3. /\ CompoundArgumentClasses[v].index \in Nat
          /\ CompoundArgumentClasses[v].writes \in FieldLists
          /\ CompoundArgumentClasses[v].reads = CompoundArgumentClasses[v].writes
      BY DEF CompoundArgumentClasses, Class, FieldLists
    <3>4. Chosen("EntryFunctionArgument", CompoundArgumentClasses[v].index) = v
      BY <2>1 DEF CompoundArgumentClasses, Class, Chosen, Case, EntryFunctionArgumentSwitch
    <3> QED BY <2>1, <3>1, <3>2, <3>3, <3>4 DEF Kept
  <2>5. DOMAIN EntryFunctionArgumentClasses =
          DOMAIN NumberArgumentClasses \cup DOMAIN ValueArgumentClasses
          \cup DOMAIN CompoundArgumentClasses
    BY DEF EntryFunctionArgumentClasses
  <2> QED BY <2>1, <2>2, <2>3, <2>4, <2>5
<1>9. \A v \in DOMAIN Variants["isSome"] : Kept("isSome", v)
  <2>1. Variants["isSome"] = OptionClasses
    BY DEF Variants
  <2>2. \A v \in DOMAIN OptionClasses :
          v \notin Misnumbered /\ v # Unknown
    BY DEF OptionClasses, Class, Misnumbered, Unknown
  <2>3. \A v \in DOMAIN OptionClasses :
          /\ OptionClasses[v].index \in Nat /\ OptionClasses[v].writes \in FieldLists
          /\ OptionClasses[v].reads = OptionClasses[v].writes
    BY DEF OptionClasses, Class, FieldLists
  <2>4. \A v \in DOMAIN OptionClasses : Chosen("isSome", OptionClasses[v].index) = v
    BY <2>1 DEF OptionClasses, Class, Chosen
  <2> QED BY <2>1, <2>2, <2>3, <2>4 DEF Kept
<1>10. \A v \in DOMAIN Variants["TransactionAuthenticator"] :
         Kept("TransactionAuthenticator", v)
  <2>1. /\ Variants["TransactionAuthenticator"] = TransactionAuthenticatorClasses
        /\ Switch["TransactionAuthenticator"] = TransactionAuthenticatorSwitch
    BY DEF Variants, Switch
  <2>2. \A v \in DOMAIN TransactionAuthenticatorClasses :
          v \notin Misnumbered /\ v # Unknown
    BY DEF TransactionAuthenticatorClasses, Class, Misnumbered, Unknown
  <2>3. \A v \in DOMAIN TransactionAuthenticatorClasses :
          /\ TransactionAuthenticatorClasses[v].index \in Nat
          /\ TransactionAuthenticatorClasses[v].writes \in FieldLists
          /\ TransactionAuthenticatorClasses[v].reads = TransactionAuthenticatorClasses[v].writes
    BY DEF TransactionAuthenticatorClasses, Class, FieldLists
  <2>4. \A v \in DOMAIN TransactionAuthenticatorClasses :
          Chosen("TransactionAuthenticator", TransactionAuthenticatorClasses[v].index) = v
    BY <2>1 DEF TransactionAuthenticatorClasses, Class, Chosen, Case, TransactionAuthenticatorSwitch
  <2> QED BY <2>1, <2>2, <2>3, <2>4 DEF Kept
<1>11. \A v \in DOMAIN Variants["AccountAuthenticator"] : Kept("AccountAuthenticator", v)
  <2>1. /\ Variants["AccountAuthenticator"] = AccountAuthenticatorClasses
        /\ Switch["AccountAuthenticator"] = AccountAuthenticatorSwitch
    BY DEF Variants, Switch
  <2>2. \A v \in DOMAIN AccountAuthenticatorClasses :
          v \notin Misnumbered /\ v # Unknown
    BY DEF AccountAuthenticatorClasses, Class, Misnumbered, Unknown
  <2>3. \A v \in DOMAIN AccountAuthenticatorClasses :
          /\ AccountAuthenticatorClasses[v].index \in Nat
          /\ AccountAuthenticatorClasses[v].writes \in FieldLists
          /\ AccountAuthenticatorClasses[v].reads = AccountAuthenticatorClasses[v].writes
    BY DEF AccountAuthenticatorClasses, Class, FieldLists
  <2>4. \A v \in DOMAIN AccountAuthenticatorClasses :
          Chosen("AccountAuthenticator", AccountAuthenticatorClasses[v].index) = v
    BY <2>1 DEF AccountAuthenticatorClasses, Class, Chosen, Case, AccountAuthenticatorSwitch
  <2> QED BY <2>1, <2>2, <2>3, <2>4 DEF Kept
<1>12. \A v \in DOMAIN Variants["ScriptABI"] : Kept("ScriptABI", v)
  <2>1. Variants["ScriptABI"] = ScriptABIClasses /\ Switch["ScriptABI"] = ScriptABISwitch
    BY DEF Variants, Switch
  <2>2. \A v \in DOMAIN ScriptABIClasses :
          v \notin Misnumbered /\ v # Unknown
    BY DEF ScriptABIClasses, Class, Misnumbered, Unknown
  <2>3. \A v \in DOMAIN ScriptABIClasses :
          /\ ScriptABIClasses[v].index \in Nat /\ ScriptABIClasses[v].writes \in FieldLists
          /\ ScriptABIClasses[v].reads = ScriptABIClasses[v].writes
    BY DEF ScriptABIClasses, Class, FieldLists
  <2>4. \A v \in DOMAIN ScriptABIClasses :
          Chosen("ScriptABI", ScriptABIClasses[v].index) = v
    BY <2>1 DEF ScriptABIClasses, Class, Chosen, Case, ScriptABISwitch
  <2> QED BY <2>1, <2>2, <2>3, <2>4 DEF Kept
<1> QED
  BY KeptFound, <1>1, <1>2, <1>3, <1>4, <1>5, <1>6, <1>7, <1>8, <1>9, <1>10, <1>11, <1>12
  DEF Abstract

(***************************************************************************)
(* The log of the writer                                                   *)
(***************************************************************************)

\* The counters of a typed state are numbers.
LEMMA Numbers ==
  ASSUME TypeOK
  PROVE  /\ cut \in Nat /\ pos \in Nat /\ fuel \in Nat /\ Len(bytes) \in Nat
         /\ Len(written) \in Nat /\ Len(got) \in Nat /\ Len(stack) \in Nat
<1>1. cut \in Nat /\ pos \in Nat /\ Fuel[root] \in Nat
  BY LayoutsAssumption DEF TypeOK
<1>2. fuel \in Nat
  BY <1>1 DEF TypeOK
<1> QED BY <1>1, <1>2 DEF TypeOK

\* An entry starts at an offset, with a stack of items.
LEMMA StartTyped ==
  ASSUME TypeOK, NEW i \in 1..Len(written) + 1
  PROVE  Start(i) \in Nat /\ Before(i) \in Seq(Items)
<1>1. CASE i = 1
  BY <1>1, LayoutsAssumption DEF Start, Before, TypeOK
<1>2. CASE i # 1
  <2>1. i - 1 \in 1..Len(written)
    BY <1>2 DEF TypeOK
  <2>2. written[i - 1] \in Entries
    BY <2>1 DEF TypeOK
  <2> QED BY <1>2, <2>2 DEF Entries, Start, Before
<1> QED BY <1>1, <1>2

\* The code and the fields a class or a field is written with.
Form(item, what, value, code, fields) ==
  \/ /\ item \in DOMAIN Width /\ what = item /\ value \in [1..Width[item] -> 0..255]
     /\ (item = "bool" => value \in {<<0>>, <<1>>})
     /\ code = value /\ fields = << >>
  \/ /\ item \in DOMAIN Lengths /\ what = item /\ value \in Seq(0..255)
     /\ Accepts(item, value)
     /\ code = Uleb[Len(value)] \o value /\ fields = << >>
  \/ /\ item \in DOMAIN ElementOf /\ what = item /\ value \in [1..1 -> Nat]
     /\ code = Uleb[value[1]] /\ fields = [k \in 1..value[1] |-> ElementOf[item]]
  \/ /\ item \in DOMAIN Variants /\ what \in DOMAIN Variants[item] /\ value = << >>
     /\ code = Uleb[Variants[item][what].index] /\ fields = Variants[item][what].writes
  \/ /\ item \in DOMAIN Plains /\ what = item /\ value = << >>
     /\ code = << >> /\ fields = Plains[item].writes

\* An entry that is well written has a code and fields of some form ...
LEMMA WellWrittenForm ==
  ASSUME NEW i, WellWritten(i)
  PROVE  /\ Before(i) # << >> /\ written[i].end <= Len(bytes) + cut
         /\ \E code, fields :
              /\ Form(Head(Before(i)), written[i].what, written[i].value, code, fields)
              /\ Coded(i, code, fields)
<1> DEFINE e == written[i]
           item == Head(Before(i))
           Goal == \E code, fields : Form(item, e.what, e.value, code, fields)
                                     /\ Coded(i, code, fields)
<1>1. Before(i) # << >> /\ e.end <= Len(bytes) + cut
  BY DEF WellWritten
<1>2. /\ item \in DOMAIN Width /\ e.what = item /\ e.value \in [1..Width[item] -> 0..255]
      /\ (item = "bool" => e.value \in {<<0>>, <<1>>})
      /\ Coded(i, e.value, << >>)
      => Goal
  BY DEF Form
<1>3. /\ item \in DOMAIN Lengths /\ e.what = item /\ e.value \in Seq(0..255)
      /\ Accepts(item, e.value)
      /\ Coded(i, Uleb[Len(e.value)] \o e.value, << >>)
      => Goal
  BY DEF Form
<1>4. /\ item \in DOMAIN ElementOf /\ e.what = item /\ e.value \in [1..1 -> Nat]
      /\ Coded(i, Uleb[e.value[1]], [k \in 1..e.value[1] |-> ElementOf[item]])
      => Goal
  BY DEF Form
<1>5. /\ item \in DOMAIN Variants /\ e.what \in DOMAIN Variants[item] /\ e.value = << >>
      /\ Coded(i, Uleb[Variants[item][e.what].index], Variants[item][e.what].writes)
      => Goal
  BY DEF Form
<1>6. /\ item \in DOMAIN Plains /\ e.what = item /\ e.value = << >>
      /\ Coded(i, << >>, Plains[item].writes)
      => Goal
  BY DEF Form
<1> HIDE DEF Goal
<1>7. Goal
  BY <1>2, <1>3, <1>4, <1>5, <1>6 DEF WellWritten
<1> QED BY <1>1, <1>7 DEF Goal

\* ... and an entry that has them in the next state is well written there.
LEMMA FormWellWrittenNext ==
  ASSUME NEW i, NEW code, NEW fields,
         Before(i)' # << >>, written'[i].end <= Len(bytes') + cut',
         Form(Head(Before(i)'), written'[i].what, written'[i].value, code, fields),
         Coded(i, code, fields)'
  PROVE  WellWritten(i)'
BY DEF Form, WellWritten

\* Bytes are numbers.
LEMMA ByteSeqs == \A s \in Seq(Byte) : s \in Seq(Nat)
<1>1. Byte \subseteq Nat
  BY DEF Byte
<1> QED BY <1>1, SeqMonotonic

\* Codes are bytes, and fields are items.
LEMMA FormTyped ==
  ASSUME NEW item \in Items, NEW what, NEW value, NEW code, NEW fields,
         Form(item, what, value, code, fields)
  PROVE  /\ code \in Seq(Byte) /\ fields \in Seq(Items)
         /\ what \in Names /\ value \in Seq(Nat)
<1>1. CASE item \in DOMAIN Width
  <2>1. value \in [1..Width[item] -> Byte] /\ code = value /\ fields = << >> /\ what = item
    BY <1>1, Kinds, Domains DEF Form, Byte
  <2>2. Width[item] \in Nat
    BY <1>1, Widths, Domains
  <2>3. value \in Seq(Byte)
    BY <2>1, <2>2, SeqDef
  <2>4. value \in Seq(Nat)
    BY <2>3, ByteSeqs
  <2> QED BY <2>1, <2>3, <2>4 DEF Names
<1>2. CASE item \in DOMAIN Lengths
  <2>1. value \in Seq(Byte) /\ code = Uleb[Len(value)] \o value /\ fields = << >>
        /\ what = item
    BY <1>2, Kinds, Domains DEF Form, Byte
  <2>2. Uleb[Len(value)] \in Seq(Byte)
    BY <2>1, UlebType
  <2>3. code \in Seq(Byte)
    BY <2>1, <2>2, ConcatProperties
  <2>4. value \in Seq(Nat)
    BY <2>1, ByteSeqs
  <2> QED BY <2>1, <2>3, <2>4 DEF Names
<1>3. CASE item \in DOMAIN ElementOf
  <2>1. /\ value \in [1..1 -> Nat] /\ code = Uleb[value[1]] /\ what = item
        /\ fields = [k \in 1..value[1] |-> ElementOf[item]]
    BY <1>3, Kinds, Domains DEF Form
  <2>2. value[1] \in Nat /\ value \in Seq(Nat)
    <3>1. value[1] \in Nat
      BY <2>1
    <3>2. value \in UNION {[1..n -> Nat] : n \in Nat}
      BY <2>1
    <3> QED BY <3>1, <3>2, SeqDef
  <2>3. ElementOf[item] \in Items
    BY <1>3, Elements, Domains
  <2>4. fields \in [1..value[1] -> Items]
    BY <2>1, <2>3
  <2>5. fields \in Seq(Items)
    BY <2>2, <2>4, SeqDef
  <2> QED BY <2>1, <2>2, <2>5, UlebType DEF Names
<1>4. CASE item \in DOMAIN Variants
  <2>1. /\ what \in DOMAIN Variants[item] /\ value = << >>
        /\ code = Uleb[Variants[item][what].index] /\ fields = Variants[item][what].writes
    BY <1>4, Kinds, Domains DEF Form
  <2>2. Found(item, what)
    BY <1>4, <2>1, VariantsFound, Domains
  <2>3. what \in Names
    BY <1>4, <2>1 DEF Names
  <2> QED BY <2>1, <2>2, <2>3, UlebType DEF Found
<1>5. CASE item \in DOMAIN Plains
  <2>1. what = item /\ value = << >> /\ code = << >> /\ fields = Plains[item].writes
    BY <1>5, Kinds, Domains DEF Form
  <2> QED BY <1>5, <2>1, PlainFields, Domains DEF Names
<1> QED BY <1>1, <1>2, <1>3, <1>4, <1>5 DEF Items

\* What follows an entry does not depend on what is written after it.
LEMMA Persists ==
  ASSUME TypeOK, NEW i \in 1..Len(written), WellWritten(i), root' = root,
         \A k \in 1..i : written'[k] = written[k],
         Len(bytes) + cut <= Len(bytes') + cut',
         Len(bytes') \in Nat, cut' \in Nat,
         \A p \in 1..written[i].end :
           p <= Len(bytes') => p <= Len(bytes) /\ bytes'[p] = bytes[p]
  PROVE  WellWritten(i)' /\ Start(i)' = Start(i) /\ Before(i)' = Before(i)
<1>1. Start(i) \in Nat /\ Before(i) \in Seq(Items)
  BY StartTyped DEF TypeOK
<1>2. written'[i] = written[i] /\ written[i].end \in Nat
  <2>1. written[i] \in Entries
    BY DEF TypeOK
  <2>2. i \in 1..i
    BY DEF TypeOK
  <2> QED BY <2>1, <2>2 DEF Entries
<1>3. Start(i)' = Start(i) /\ Before(i)' = Before(i)
  BY DEF Start, Before, TypeOK
<1>4. PICK code, fields :
        /\ Form(Head(Before(i)), written[i].what, written[i].value, code, fields)
        /\ Coded(i, code, fields)
  BY WellWrittenForm
<1>5. Before(i) # << >> /\ written[i].end <= Len(bytes) + cut
  BY WellWrittenForm
<1>6. code \in Seq(Byte) /\ Len(code) \in Nat
  <2>1. Head(Before(i)) \in Items
    BY <1>1, <1>5
  <2> QED BY <2>1, <1>4, FormTyped
<1>7. Coded(i, code, fields)'
  <2>1. written[i].end = Start(i) + Len(code)
        /\ written[i].rest = fields \o Tail(Before(i))
    BY <1>4 DEF Coded
  <2>2. ASSUME NEW j \in 1..Len(code), Start(i) + j <= Len(bytes')
        PROVE  bytes'[Start(i) + j] = code[j]
    <3>1. Start(i) + j \in 1..written[i].end
      BY <2>1, <1>1, <1>6
    <3>2. Start(i) + j <= Len(bytes) /\ bytes'[Start(i) + j] = bytes[Start(i) + j]
      BY <2>2, <3>1
    <3> QED BY <3>2, <1>4 DEF Coded
  <2> QED BY <2>1, <2>2, <1>2, <1>3 DEF Coded
<1>8. written'[i].end <= Len(bytes') + cut'
  BY <1>2, <1>5, Numbers
<1> QED BY <1>2, <1>3, <1>4, <1>5, <1>7, <1>8, FormWellWrittenNext

\* A write of what the item on top of the stack may be written as.
LEMMA PutKeeps ==
  ASSUME IInv, Turn("write"), NEW code, NEW what, NEW value, NEW fields,
         NEW cost \in 0..fuel, Form(Top, what, value, code, fields),
         Put(code, what, value, fields, cost)
  PROVE  IInv'
<1>0. PICK W \in Nat : W = Len(written)
  BY Numbers DEF IInv
<1> DEFINE E == Entry(what, value, Len(bytes'), stack')
<1>1. TypeOK /\ phase = "write" /\ stack # << >> /\ stack = Before(W + 1) /\ cut = 0
      /\ pos = 0 /\ got = << >> /\ Len(bytes) + cut = Start(W + 1)
      /\ \A i \in 1..W : WellWritten(i)
  BY <1>0 DEF IInv, Turn
<1>2. /\ W \in Nat /\ Len(bytes) \in Nat /\ fuel \in Nat
      /\ stack \in Seq(Items) /\ bytes \in Seq(Byte)
  BY <1>1, Numbers DEF TypeOK, Byte
<1>3. Top \in Items /\ Tail(stack) \in Seq(Items) /\ Top = Head(Before(W + 1))
  BY <1>1, <1>2, HeadTailProperties DEF Top
<1>4. code \in Seq(Byte) /\ fields \in Seq(Items) /\ what \in Names /\ value \in Seq(Nat)
  BY <1>3, FormTyped
<1>5. /\ bytes' = bytes \o code /\ stack' = fields \o Tail(stack)
      /\ written' = Append(written, E) /\ fuel' = fuel - cost
      /\ phase' = phase /\ root' = root /\ pos' = pos /\ got' = got /\ cut' = cut
  BY DEF Put
<1>6. /\ bytes' \in Seq(Byte) /\ Len(bytes') = Len(bytes) + Len(code)
      /\ \A p \in 1..Len(bytes) + Len(code) :
           bytes'[p] = IF p <= Len(bytes) THEN bytes[p] ELSE code[p - Len(bytes)]
      /\ Len(code) \in Nat
  BY <1>2, <1>4, <1>5, ConcatProperties
<1>7. stack' \in Seq(Items)
  BY <1>3, <1>4, <1>5, ConcatProperties
<1>8. /\ E \in Entries /\ E.what = what /\ E.value = value /\ E.end = Len(bytes')
      /\ E.rest = stack'
  BY <1>4, <1>6, <1>7 DEF Entry, Entries
<1> HIDE DEF E
<1>9. /\ written' \in Seq(Entries) /\ Len(written') = W + 1 /\ written'[W + 1] = E
      /\ \A i \in 1..W : written'[i] = written[i]
  BY <1>0, <1>1, <1>5, <1>8, AppendProperties DEF TypeOK
<1>10. TypeOK'
  <2>1. pos' \in 0..Len(bytes')
    BY <1>1, <1>2, <1>5, <1>6
  <2>2. Fuel[root] \in Nat /\ fuel \in 0..Fuel[root]
    BY <1>1, LayoutsAssumption DEF TypeOK
  <2>3. fuel' \in 0..Fuel[root]'
    BY <1>2, <1>5, <2>2
  <2> QED BY <1>1, <1>5, <1>6, <1>7, <1>9, <2>1, <2>3 DEF TypeOK, Byte
<1>11. ASSUME NEW i \in 1..W
       PROVE  WellWritten(i)'
  <2>1. WellWritten(i) /\ written[i].end <= Len(bytes) + cut
    BY <1>1, WellWrittenForm
  <2>2. \A k \in 1..i : written'[k] = written[k]
    BY <1>9, <1>2
  <2>3. \A p \in 1..written[i].end : p <= Len(bytes) /\ bytes'[p] = bytes[p]
    <3>1. written[i] \in Entries
      BY <1>0, <1>1 DEF TypeOK
    <3>2. written[i].end \in Nat
      BY <3>1 DEF Entries
    <3>3. ASSUME NEW p \in 1..written[i].end
          PROVE  p <= Len(bytes) /\ p \in 1..Len(bytes) + Len(code)
      BY <3>2, <2>1, <1>1, <1>2, <1>6
    <3> QED BY <3>3, <1>6
  <2>4. Len(bytes) + cut <= Len(bytes') + cut' /\ Len(bytes') \in Nat /\ cut' \in Nat
    BY <1>1, <1>2, <1>5, <1>6
  <2>5. i \in 1..Len(written)
    BY <1>0
  <2> QED BY <1>1, <1>5, <2>1, <2>2, <2>3, <2>4, <2>5, Persists
<1>12. Start(W + 1)' = Start(W + 1) /\ Before(W + 1)' = Before(W + 1)
  <2>1. CASE W = 0
    BY <1>5, <2>1 DEF Start, Before
  <2>2. CASE W # 0
    <3>1. W \in 1..W /\ (W + 1) - 1 = W /\ W + 1 # 1
      BY <1>2, <2>2
    <3> QED BY <1>9, <3>1 DEF Start, Before
  <2> QED BY <2>1, <2>2
<1>13. WellWritten(W + 1)'
  <2>1. Coded(W + 1, code, fields)'
    <3>1. Start(W + 1) = Len(bytes) /\ Start(W + 1)' = Len(bytes)
      BY <1>1, <1>2, <1>12
    <3>2. written'[W + 1].end = Start(W + 1)' + Len(code)
      BY <3>1, <1>6, <1>8, <1>9
    <3>3. written'[W + 1].rest = fields \o Tail(Before(W + 1)')
      BY <1>1, <1>5, <1>8, <1>9, <1>12
    <3>4. ASSUME NEW j \in 1..Len(code)
          PROVE  bytes'[Start(W + 1)' + j] = code[j]
      <4>1. Len(bytes) + j \in 1..Len(bytes) + Len(code)
            /\ ~ (Len(bytes) + j <= Len(bytes)) /\ Len(bytes) + j - Len(bytes) = j
        BY <1>2, <1>6
      <4> QED BY <3>1, <4>1, <1>6
    <3> QED BY <3>2, <3>3, <3>4 DEF Coded
  <2>2. written'[W + 1].end <= Len(bytes') + cut'
    BY <1>1, <1>5, <1>6, <1>8, <1>9
  <2>3. Before(W + 1)' # << >> /\ Form(Head(Before(W + 1)'), what, value, code, fields)
    BY <1>1, <1>3, <1>12
  <2>4. written'[W + 1].what = what /\ written'[W + 1].value = value
    BY <1>8, <1>9
  <2> QED BY <2>1, <2>2, <2>3, <2>4, FormWellWrittenNext
<1>14. Start(W + 2)' = Len(bytes') /\ Before(W + 2)' = stack'
  <2>1. W + 2 # 1 /\ W + 2 - 1 = W + 1
    BY <1>0
  <2> QED BY <2>1, <1>8, <1>9 DEF Start, Before
<1>15. \A i \in 1..W+1 : WellWritten(i)'
  <2>1. \A i \in 1..W+1 : i \in 1..W \/ i = W + 1
    BY <1>0
  <2> QED BY <2>1, <1>11, <1>13
<1>16. (Len(written) + 1)' = W + 2
  BY <1>0, <1>9
<1>17. /\ (\A i \in 1..Len(written) : WellWritten(i))'
       /\ (Len(bytes) + cut = Start(Len(written) + 1))'
       /\ (stack = Before(Len(written) + 1))'
  BY <1>1, <1>2, <1>5, <1>6, <1>9, <1>14, <1>15, <1>16
<1> QED BY <1>1, <1>5, <1>10, <1>17 DEF IInv

(***************************************************************************)
(* The actions of the writer                                               *)
(***************************************************************************)

\* A content of n bytes is a sequence of that length.
LEMMA ContentTyped ==
  ASSUME NEW n \in Nat, NEW s \in [1..n -> 0..255]
  PROVE  s \in Seq(Byte) /\ Len(s) = n
<1>1. s \in Seq(Byte)
  BY SeqDef DEF Byte
<1> QED BY <1>1

\* What a key may be made of, its reader accepts.
LEMMA AcceptsWritten ==
  ASSUME NEW item \in Texts \cup Keys, NEW n \in Lengths[item], NEW s \in [1..n -> 0..255],
         item = "MultiSecp256k1PublicKey" => s[n] <= MaxSignatures
  PROVE  n \in Nat /\ Accepts(item, s)
<1>1. n \in Nat
  BY LengthTypes
<1>2. Len(s) = n
  BY <1>1, ContentTyped
<1>3. item \in Keys => n \in KeyLengths[item]
  <2>1. item \in Keys => item \notin Texts
    BY DEF Keys, Texts
  <2>2. DOMAIN KeyLengths = Keys
    BY DEF KeyLengths, Keys
  <2> QED BY <2>1, <2>2 DEF Lengths
<1>4. CASE item = "Secp256k1PublicKey"
  BY <1>2, <1>3, <1>4 DEF Keys, KeyLengths, Accepts
<1>5. CASE item = "Secp256k1Signature"
  BY <1>2, <1>3, <1>5 DEF Keys, KeyLengths, Accepts
<1>6. CASE item = "MultiSecp256k1PublicKey"
  <2>1. PICK k \in KeyCounts : n = k * 65 + 1
    BY <1>3, <1>6 DEF Keys, KeyLengths, PublicKeyLength
  <2>2. n % 65 = 1
    BY <2>1, LayoutsAssumption
  <2> QED BY <1>2, <1>6, <2>2 DEF Accepts, PublicKeyLength
<1>7. CASE item = "MultiSecp256k1Signature"
  <2>1. PICK k \in KeyCounts : n = k * 64 + 4
    BY <1>3, <1>7 DEF Keys, KeyLengths, SignatureLength, BitmapLength
  <2>2. n % 64 = 4 /\ n >= 4
    BY <2>1, LayoutsAssumption
  <2> QED BY <1>2, <1>7, <2>2 DEF Accepts, SignatureLength, BitmapLength
<1>8. CASE item \notin Keys
  <2>1. /\ item # "Secp256k1PublicKey" /\ item # "Secp256k1Signature"
        /\ item # "MultiSecp256k1PublicKey" /\ item # "MultiSecp256k1Signature"
    BY <1>8 DEF Keys
  <2>2. Accepts(item, s) = TRUE
    BY <2>1 DEF Accepts
  <2> QED BY <1>1, <2>2
<1> QED BY <1>1, <1>4, <1>5, <1>6, <1>7, <1>8 DEF Keys

\* The fuel that is left pays for a write that costs nothing.
LEMMA FuelTyped == ASSUME IInv PROVE fuel \in Nat /\ 0 \in 0..fuel
BY Numbers DEF IInv

\* One lemma for each write: it logs what it puts into the buffer.
LEMMA WriteFixedKeeps == ASSUME IInv, WriteFixed PROVE IInv'
<1>1. Turn("write") /\ Top \in DOMAIN Width /\ Top # "bool"
  BY DEF WriteFixed
<1>2. PICK s \in [1..Width[Top] -> 0..255] : Put(s, Top, s, << >>, 0)
  BY DEF WriteFixed, Contents
<1>3. Form(Top, Top, s, s, << >>)
  BY <1>1 DEF Form
<1> QED BY <1>1, <1>2, <1>3, FuelTyped, PutKeeps

\* ... a boolean: one byte, 0 or 1.
LEMMA WriteBoolKeeps == ASSUME IInv, WriteBool PROVE IInv'
<1>1. Turn("write") /\ Top = "bool"
  BY DEF WriteBool
<1>2. PICK b \in 0..1 : Put(<<b>>, Top, <<b>>, << >>, 0)
  BY DEF WriteBool
<1>3. Top \in DOMAIN Width /\ Width[Top] = 1
  BY <1>1 DEF Width
<1>4. Form(Top, Top, <<b>>, <<b>>, << >>)
  <2>1. <<b>> \in [1..1 -> 0..255] /\ <<b>> \in {<<0>>, <<1>>}
    <3>1. b = 0 \/ b = 1
      BY <1>2
    <3>2. <<0>> \in [1..1 -> 0..255] /\ <<1>> \in [1..1 -> 0..255]
      OBVIOUS
    <3> QED BY <3>1, <3>2
  <2> QED BY <1>3, <2>1 DEF Form
<1> QED BY <1>1, <1>2, <1>4, FuelTyped, PutKeeps

\* ... a text, a byte string, a key or a signature.
LEMMA WriteBytesKeeps == ASSUME IInv, WriteBytes PROVE IInv'
<1>1. Turn("write") /\ Top \in DOMAIN Lengths
  BY DEF WriteBytes
<1>2. PICK n \in Lengths[Top] : \E s \in Contents(n) :
        /\ Top = "MultiSecp256k1PublicKey" => s[n] <= MaxSignatures
        /\ Put(Uleb[n] \o s, Top, s, << >>, 0)
  BY DEF WriteBytes
<1>3. PICK s \in [1..n -> 0..255] :
        /\ Top = "MultiSecp256k1PublicKey" => s[n] <= MaxSignatures
        /\ Put(Uleb[n] \o s, Top, s, << >>, 0)
  BY <1>2 DEF Contents
<1>4. n \in Nat /\ Accepts(Top, s)
  BY <1>1, <1>3, AcceptsWritten, Domains
<1>5. s \in Seq(0..255) /\ Len(s) = n
  BY <1>4, ContentTyped DEF Byte
<1>6. Form(Top, Top, s, Uleb[n] \o s, << >>)
  BY <1>1, <1>4, <1>5 DEF Form
<1> QED BY <1>1, <1>3, <1>6, FuelTyped, PutKeeps

\* ... the length of a vector, with as many elements to be written next.
LEMMA WriteVectorKeeps == ASSUME IInv, WriteVector PROVE IInv'
<1>1. Turn("write") /\ Top \in DOMAIN ElementOf
  BY DEF WriteVector
<1>2. PICK n \in 0..fuel :
        Put(Uleb[n], Top, <<n>>, [i \in 1..n |-> ElementOf[Top]], n)
  BY DEF WriteVector
<1>3. n \in Nat
  BY FuelTyped
<1>4. Form(Top, Top, <<n>>, Uleb[n], [i \in 1..n |-> ElementOf[Top]])
  <2>1. <<n>> \in [1..1 -> Nat] /\ <<n>>[1] = n
    BY <1>3
  <2> QED BY <1>1, <2>1 DEF Form
<1> QED BY <1>1, <1>2, <1>4, PutKeeps

\* ... the index of a variant, with its fields to be written next.
LEMMA WriteVariantKeeps == ASSUME IInv, WriteVariant PROVE IInv'
<1>1. Turn("write") /\ Top \in DOMAIN Variants
  BY DEF WriteVariant
<1>2. PICK v \in DOMAIN Variants[Top] :
        /\ Cost(v) <= fuel
        /\ Put(Uleb[Variants[Top][v].index], v, << >>, Variants[Top][v].writes, Cost(v))
  BY DEF WriteVariant
<1>3. Cost(v) \in 0..fuel
  BY <1>2, FuelTyped DEF Cost
<1>4. Form(Top, v, << >>, Uleb[Variants[Top][v].index], Variants[Top][v].writes)
  BY <1>1 DEF Form
<1> QED BY <1>1, <1>2, <1>3, <1>4, PutKeeps

\* ... nothing for a plain class but its fields.
LEMMA WritePlainKeeps == ASSUME IInv, WritePlain PROVE IInv'
<1>1. Turn("write") /\ Top \in DOMAIN Plains /\ Put(<< >>, Top, << >>, Plains[Top].writes, 0)
  BY DEF WritePlain
<1>2. Form(Top, Top, << >>, << >>, Plains[Top].writes)
  BY <1>1 DEF Form
<1> QED BY <1>1, <1>2, FuelTyped, PutKeeps

\* Cutting the buffer short leaves the log true of what remains.
LEMMA HandKeeps == ASSUME IInv, Hand PROVE IInv'
<1>1. PICK k \in Cuts : k <= Len(bytes) /\ cut' = k /\ bytes' = SubSeq(bytes, 1, Len(bytes) - k)
  BY DEF Hand
<1>2. /\ phase = "write" /\ stack = << >> /\ phase' = "read" /\ stack' = <<root>>
      /\ root' = root /\ pos' = pos /\ written' = written /\ got' = got /\ fuel' = fuel
  BY DEF Hand
<1>3. /\ TypeOK /\ Before(Len(written) + 1) = << >> /\ cut = 0 /\ pos = 0 /\ got = << >>
      /\ Len(bytes) + cut = Start(Len(written) + 1)
      /\ \A i \in 1..Len(written) : WellWritten(i)
  BY <1>2 DEF IInv
<1>4. /\ Len(bytes) \in Nat /\ k \in Nat /\ Len(written) \in Nat
      /\ bytes \in Seq(Byte) /\ root \in Items
  BY <1>3, Numbers, LayoutsAssumption DEF TypeOK, Byte
<1>5. /\ bytes' \in Seq(Byte) /\ Len(bytes') = Len(bytes) - k
      /\ \A p \in 1..Len(bytes) - k : bytes'[p] = bytes[p]
  <2>1. \A p \in 1..Len(bytes) - k : bytes[p] \in Byte
    BY <1>4
  <2>2. Len(bytes) - k \in Int /\ 1 \in Int
    BY <1>4
  <2>3. /\ SubSeq(bytes, 1, Len(bytes) - k) \in Seq(Byte)
        /\ Len(SubSeq(bytes, 1, Len(bytes) - k)) =
             IF 1 <= Len(bytes) - k THEN Len(bytes) - k - 1 + 1 ELSE 0
        /\ \A i \in 1..Len(bytes) - k - 1 + 1 :
             SubSeq(bytes, 1, Len(bytes) - k)[i] = bytes[1 + i - 1]
    BY <2>1, <2>2, SubSeqProperties
  <2> QED BY <1>1, <1>4, <2>3
<1>6. TypeOK'
  <2>1. pos' \in 0..Len(bytes') /\ stack' \in Seq(Items) /\ cut' \in Cuts
    BY <1>1, <1>2, <1>3, <1>4, <1>5
  <2> QED BY <1>2, <1>3, <1>5, <2>1 DEF TypeOK, Byte
<1>7. ASSUME NEW i \in 1..Len(written)
      PROVE  WellWritten(i)' /\ Start(i)' = Start(i) /\ Before(i)' = Before(i)
  <2>1. \A p \in 1..written[i].end : p <= Len(bytes') => p <= Len(bytes) /\ bytes'[p] = bytes[p]
    <3>1. written[i] \in Entries
      BY <1>3 DEF TypeOK
    <3>2. written[i].end \in Nat
      BY <3>1 DEF Entries
    <3> QED BY <3>2, <1>4, <1>5
  <2>2. Len(bytes) + cut <= Len(bytes') + cut' /\ Len(bytes') \in Nat /\ cut' \in Nat
    BY <1>1, <1>3, <1>4, <1>5
  <2> QED BY <1>2, <1>3, <2>1, <2>2, Persists
<1>8. /\ Start(Len(written) + 1)' = Start(Len(written) + 1)
      /\ Before(Len(written) + 1)' = Before(Len(written) + 1)
  BY <1>2 DEF Start, Before
<1>9. Len(bytes') + cut' = Start(Len(written) + 1)'
  BY <1>1, <1>3, <1>4, <1>5, <1>8
<1>10. Follows'
  <2>1. Len(got') = 0 /\ Len(got') + 1 = 1
    BY <1>2, <1>3
  <2>2. (pos = Start(Len(got) + 1))' /\ (stack = Before(Len(got) + 1))'
    BY <1>2, <1>3, <2>1 DEF Start, Before
  <2> QED BY <1>2, <1>4, <2>1, <2>2 DEF Follows
<1> QED BY <1>2, <1>3, <1>6, <1>7, <1>8, <1>9, <1>10 DEF IInv

(***************************************************************************)
(* The reader at the next entry of the log                                 *)
(***************************************************************************)

\* The bytes from an offset on are those that were put there.
LEMMA SliceIs ==
  ASSUME bytes \in Seq(Byte), NEW p \in Nat, NEW s \in Seq(Byte),
         p + Len(s) <= Len(bytes), \A j \in 1..Len(s) : bytes[p + j] = s[j]
  PROVE  Slice(p, Len(s)) = s
<1> DEFINE t == SubSeq(bytes, p + 1, p + Len(s))
<1>1. Len(s) \in Nat /\ Len(bytes) \in Nat
  OBVIOUS
<1>2. Slice(p, Len(s)) = t
  BY DEF Slice
<1>3. \A k \in p + 1 .. p + Len(s) : bytes[k] \in Byte
  BY <1>1
<1>4. p + 1 \in Int /\ p + Len(s) \in Int /\ p + Len(s) - (p + 1) + 1 = Len(s)
  BY <1>1
<1>5. /\ t \in Seq(Byte)
      /\ Len(t) = IF p + 1 <= p + Len(s) THEN p + Len(s) - (p + 1) + 1 ELSE 0
      /\ \A k \in 1 .. p + Len(s) - (p + 1) + 1 : t[k] = bytes[p + 1 + k - 1]
  BY <1>3, <1>4, SubSeqProperties
<1>6. Len(t) = Len(s)
  <2>1. p + 1 <= p + Len(s) \/ Len(s) = 0
    BY <1>1
  <2> HIDE DEF t
  <2> QED BY <2>1, <1>1, <1>4, <1>5
<1>7. \A k \in 1..Len(s) : t[k] = s[k]
  <2> SUFFICES ASSUME NEW k \in 1..Len(s) PROVE t[k] = s[k]
    OBVIOUS
  <2>1. t[k] = bytes[p + 1 + k - 1] /\ p + 1 + k - 1 = p + k
    BY <1>4, <1>5
  <2> QED BY <2>1
<1> HIDE DEF t
<1>8. t = s
  BY <1>5, <1>6, <1>7, SeqEqual
<1> QED BY <1>2, <1>8

\* The reader is at an entry of the log of the writer, with the same stack.
LEMMA AtEntry ==
  ASSUME IInv, Turn("read"), NEW i \in Nat, i = Len(got) + 1
  PROVE  /\ i \in 1..Len(written) /\ WellWritten(i) /\ written[i] \in Entries
         /\ pos = Start(i) /\ stack = Before(i) /\ Top = Head(Before(i)) /\ Top \in Items
         /\ bytes \in Seq(Byte) /\ pos \in 0..Len(bytes) /\ Len(bytes) \in Nat
<1>1. /\ TypeOK /\ Follows /\ Before(Len(written) + 1) = << >> /\ stack # << >>
      /\ \A k \in 1..Len(written) : WellWritten(k)
  BY DEF IInv, Turn
<1>2. Len(written) \in Nat /\ Len(got) \in Nat /\ Len(bytes) \in Nat
  BY <1>1, Numbers
<1>3. pos = Start(i) /\ stack = Before(i) /\ Len(got) <= Len(written)
  BY <1>1 DEF Follows
<1>4. i # Len(written) + 1
  BY <1>1, <1>3
<1>5. i \in 1..Len(written)
  BY <1>2, <1>3, <1>4
<1>6. Top = Head(Before(i)) /\ Top \in Items
  BY <1>1, <1>3 DEF Top, TypeOK
<1>7. written[i] \in Entries
  BY <1>1, <1>5 DEF TypeOK
<1> QED BY <1>1, <1>2, <1>3, <1>5, <1>6, <1>7 DEF TypeOK, Byte

\* Item, code and fields of the entry the reader is at.
At(i, code, fields) ==
  /\ IInv /\ Turn("read") /\ i \in Nat /\ i = Len(got) + 1
  /\ Form(Top, written[i].what, written[i].value, code, fields)
  /\ Coded(i, code, fields)

\* All of the entry is in the buffer.
Whole(i) == written[i].end <= Len(bytes)

\* A reader with something left to read is at an entry of the log.
LEMMA SomeCode ==
  ASSUME IInv, Turn("read"), NEW i \in Nat, i = Len(got) + 1
  PROVE  \E code, fields : At(i, code, fields)
BY AtEntry, WellWrittenForm DEF At

\* The entry the reader is at has its code at the offset of the reader.
LEMMA AtCode ==
  ASSUME NEW i, NEW code, NEW fields, At(i, code, fields)
  PROVE  /\ code \in Seq(Byte) /\ fields \in Seq(Items) /\ Len(code) \in Nat
         /\ written[i].end = pos + Len(code)
         /\ written[i].rest = fields \o Tail(stack)
         /\ \A j \in 1..Len(code) : pos + j <= Len(bytes) => bytes[pos + j] = code[j]
<1>1. Top \in Items /\ pos = Start(i) /\ stack = Before(i)
  BY AtEntry DEF At
<1>2. code \in Seq(Byte) /\ fields \in Seq(Items)
  BY <1>1, FormTyped DEF At
<1> QED BY <1>1, <1>2 DEF At, Coded

\* A number, an address or a bool.
LEMMA FixedRead ==
  ASSUME NEW i, NEW code, NEW fields, At(i, code, fields), Top \in DOMAIN Width
  PROVE  /\ Readable <=> Whole(i)
         /\ Whole(i) => /\ pos + Width[Top] = written[i].end
                        /\ Slice(pos, Width[Top]) = written[i].value
         /\ written[i].what = Top /\ fields = << >>
<1> DEFINE v == written[i].value
<1>1. /\ v \in [1..Width[Top] -> 0..255] /\ code = v /\ fields = << >>
      /\ written[i].what = Top /\ (Top = "bool" => v \in {<<0>>, <<1>>})
  BY Kinds, Domains DEF At, Form
<1>2. Width[Top] \in Nat
  BY Widths, Domains
<1>3. v \in Seq(Byte) /\ Len(v) = Width[Top]
  BY <1>1, <1>2, ContentTyped
<1>4. written[i].end = pos + Width[Top]
  BY <1>1, <1>3, AtCode
<1>5. Has(pos, Width[Top]) <=> Whole(i)
  BY <1>4 DEF Has, Whole
<1>6. bytes \in Seq(Byte) /\ pos \in Nat /\ Len(bytes) \in Nat
  BY AtEntry DEF At
<1>7. ASSUME Whole(i) PROVE Slice(pos, Width[Top]) = v
  <2>1. pos + Len(v) <= Len(bytes)
    BY <1>3, <1>4, <1>7 DEF Whole
  <2>2. \A j \in 1..Len(v) : bytes[pos + j] = v[j]
    <3>1. \A j \in 1..Len(v) : pos + j <= Len(bytes)
      BY <1>2, <1>3, <1>6, <2>1
    <3> QED BY <3>1, <1>1, AtCode
  <2> HIDE DEF v
  <2> QED BY <1>3, <1>6, <2>1, <2>2, SliceIs
<1>8. Top = "bool" => Width[Top] = 1
  BY DEF Width
<1>9. Readable <=> Has(pos, Width[Top]) /\ (Top = "bool" => Slice(pos, 1) \in {<<0>>, <<1>>})
  BY Kinds, Domains DEF Readable
<1>10. Whole(i) => (Top = "bool" => Slice(pos, 1) \in {<<0>>, <<1>>})
  BY <1>1, <1>7, <1>8
<1> QED BY <1>1, <1>4, <1>5, <1>7, <1>9, <1>10

\* The number at the front of the code of an entry.
LEMMA PrefixRead ==
  ASSUME NEW i, NEW code, NEW fields, At(i, code, fields), NEW n \in Nat,
         NEW s \in Seq(Byte), code = Uleb[n] \o s
  PROVE  /\ IF pos + Len(Uleb[n]) <= Len(bytes)
            THEN HasUleb /\ UlebEnd = pos + Len(Uleb[n]) /\ UlebValue = n
            ELSE ~HasUleb
         /\ Len(Uleb[n]) \in Nat /\ Len(s) \in Nat
         /\ written[i].end = pos + Len(Uleb[n]) + Len(s)
         /\ \A j \in 1..Len(s) : pos + Len(Uleb[n]) + j <= Len(bytes)
                                 => bytes[pos + Len(Uleb[n]) + j] = s[j]
<1> DEFINE u == Uleb[n]
<1>1. u \in Seq(Byte) /\ Len(u) \in Nat /\ Len(s) \in Nat
  BY UlebType
<1>2. /\ Len(code) = Len(u) + Len(s)
      /\ \A j \in 1..Len(u) + Len(s) : code[j] = IF j <= Len(u) THEN u[j] ELSE s[j - Len(u)]
  <2> HIDE DEF u
  <2>1. code = u \o s
    BY DEF u
  <2> QED BY <1>1, <2>1, ConcatProperties
<1>3. bytes \in Seq(Byte) /\ pos \in 0..Len(bytes) /\ pos \in Nat /\ Len(bytes) \in Nat
  BY AtEntry DEF At
<1>4. /\ written[i].end = pos + Len(code)
      /\ \A j \in 1..Len(code) : pos + j <= Len(bytes) => bytes[pos + j] = code[j]
  BY AtCode
<1> HIDE DEF u
<1>5. ASSUME NEW j \in 1..Len(u), pos + j <= Len(bytes)
      PROVE  bytes[pos + j] = u[j]
  <2>1. j \in 1..Len(code) /\ code[j] = u[j]
    BY <1>1, <1>2
  <2> QED BY <2>1, <1>4, <1>5
<1>6. ASSUME NEW j \in 1..Len(s), pos + Len(u) + j <= Len(bytes)
      PROVE  bytes[pos + Len(u) + j] = s[j]
  <2> DEFINE k == Len(u) + j
  <2>1. /\ k \in 1..Len(u) + Len(s) /\ ~ (k <= Len(u))
        /\ k - Len(u) = j /\ pos + k = pos + Len(u) + j
    BY <1>1, <1>3
  <2> HIDE DEF k
  <2>2. code[k] = s[j] /\ k \in 1..Len(code)
    BY <1>2, <2>1
  <2> QED BY <2>1, <2>2, <1>4, <1>6
<1>7. IF pos + Len(u) <= Len(bytes)
      THEN HasUleb /\ UlebEnd = pos + Len(u) /\ UlebValue = n
      ELSE ~HasUleb
  BY <1>3, <1>5, UlebRead DEF u
<1>8. written[i].end = pos + Len(u) + Len(s)
  BY <1>1, <1>2, <1>3, <1>4
<1> QED BY <1>1, <1>6, <1>7, <1>8 DEF u

\* A text, a byte string, a key or a signature.
LEMMA BytesRead ==
  ASSUME NEW i, NEW code, NEW fields, At(i, code, fields), Top \in DOMAIN Lengths
  PROVE  /\ Readable <=> Whole(i)
         /\ Whole(i) => /\ UlebEnd + UlebValue = written[i].end
                        /\ Slice(UlebEnd, UlebValue) = written[i].value
         /\ written[i].what = Top /\ fields = << >>
<1> DEFINE v == written[i].value
           n == Len(v)
           m == pos + Len(Uleb[n])
<1>1. /\ v \in Seq(Byte) /\ code = Uleb[n] \o v /\ fields = << >>
      /\ written[i].what = Top /\ Accepts(Top, v)
  BY Kinds, Domains DEF At, Form, Byte
<1>2. n \in Nat
  BY <1>1
<1>3. bytes \in Seq(Byte) /\ pos \in Nat /\ Len(bytes) \in Nat
  BY AtEntry DEF At
<1>10. /\ IF m <= Len(bytes) THEN HasUleb /\ UlebEnd = m /\ UlebValue = n ELSE ~HasUleb
       /\ Len(Uleb[n]) \in Nat /\ n \in Nat
       /\ written[i].end = m + n
       /\ \A j \in 1..n : m + j <= Len(bytes) => bytes[m + j] = v[j]
  BY <1>1, <1>2, PrefixRead, Zenon
<1>4. /\ IF m <= Len(bytes) THEN HasUleb /\ UlebEnd = m /\ UlebValue = n ELSE ~HasUleb
      /\ m \in Nat /\ written[i].end = m + n
      /\ \A j \in 1..n : m + j <= Len(bytes) => bytes[m + j] = v[j]
  BY <1>3, <1>10
<1>5. Readable <=> /\ HasUleb /\ Has(UlebEnd, UlebValue)
                   /\ Accepts(Top, Slice(UlebEnd, UlebValue))
  BY Kinds, Domains DEF Readable
<1> HIDE DEF m, v
<1>6. ASSUME Whole(i)
      PROVE  HasUleb /\ UlebEnd = m /\ UlebValue = n /\ Has(m, n) /\ Slice(m, n) = v
  <2>1. m + n <= Len(bytes) /\ m <= Len(bytes)
    BY <1>2, <1>3, <1>4, <1>6 DEF Whole
  <2>2. \A j \in 1..n : bytes[m + j] = v[j]
    <3>1. \A j \in 1..n : m + j <= Len(bytes)
      BY <1>2, <1>3, <1>4, <2>1
    <3> QED BY <3>1, <1>4
  <2>3. Slice(m, n) = v
    BY <1>1, <1>3, <1>4, <2>1, <2>2, SliceIs
  <2> QED BY <1>4, <2>1, <2>3 DEF Has
<1>7. ASSUME ~ Whole(i)
      PROVE  ~ (HasUleb /\ Has(UlebEnd, UlebValue))
  BY <1>3, <1>4, <1>7 DEF Has, Whole
<1> QED BY <1>1, <1>4, <1>5, <1>6, <1>7 DEF v

\* An item that is written as a number: a vector or a variant.
LEMMA NumberRead ==
  ASSUME NEW i, NEW code, NEW fields, At(i, code, fields), NEW n \in Nat, code = Uleb[n]
  PROVE  IF Whole(i) THEN HasUleb /\ UlebEnd = written[i].end /\ UlebValue = n ELSE ~HasUleb
<1>1. PICK s \in Seq(Byte) : s = << >>
  <2>1. << >> \in Seq(Byte)
    OBVIOUS
  <2> QED BY <2>1, Zenon
<1>2. code = Uleb[n] \o s
  BY <1>1, UlebType, ConcatEmptySeq
<1>3. /\ IF pos + Len(Uleb[n]) <= Len(bytes)
         THEN HasUleb /\ UlebEnd = pos + Len(Uleb[n]) /\ UlebValue = n
         ELSE ~HasUleb
      /\ Len(Uleb[n]) \in Nat /\ written[i].end = pos + Len(Uleb[n]) + Len(s)
  BY <1>2, PrefixRead, Zenon
<1>4. pos \in Nat
  BY AtEntry DEF At
<1>5. written[i].end = pos + Len(Uleb[n])
  BY <1>1, <1>3, <1>4
<1> QED BY <1>3, <1>5 DEF Whole

\* The length of a vector.
LEMMA VectorRead ==
  ASSUME NEW i, NEW code, NEW fields, At(i, code, fields), Top \in DOMAIN ElementOf
  PROVE  /\ Readable <=> Whole(i)
         /\ Whole(i) => /\ UlebEnd = written[i].end /\ <<UlebValue>> = written[i].value
                        /\ fields = [k \in 1..UlebValue |-> ElementOf[Top]]
         /\ written[i].what = Top
<1> DEFINE v == written[i].value
<1>1. /\ v \in [1..1 -> Nat] /\ code = Uleb[v[1]] /\ written[i].what = Top
      /\ fields = [k \in 1..v[1] |-> ElementOf[Top]]
  BY Kinds, Domains DEF At, Form
<1> HIDE DEF v
<1>2. v[1] \in Nat /\ v = <<v[1]>>
  BY <1>1
<1>3. IF Whole(i) THEN HasUleb /\ UlebEnd = written[i].end /\ UlebValue = v[1] ELSE ~HasUleb
  BY <1>1, <1>2, NumberRead
<1>4. Readable <=> HasUleb
  BY Kinds, Domains DEF Readable
<1> QED BY <1>1, <1>2, <1>3, <1>4 DEF v

\* The index of a variant, by which its reader finds the variant again.
LEMMA VariantRead ==
  ASSUME NEW i, NEW code, NEW fields, At(i, code, fields), Top \in DOMAIN Variants
  PROVE  /\ Readable <=> Whole(i)
         /\ Whole(i) => /\ UlebEnd = written[i].end
                        /\ Chosen(Top, UlebValue) = Taken(written[i].what)
                        /\ Variants[Top][Taken(written[i].what)].reads = fields
         /\ written[i].value = << >>
<1> DEFINE v == written[i].what
<1>1. /\ v \in DOMAIN Variants[Top] /\ written[i].value = << >>
      /\ code = Uleb[Variants[Top][v].index] /\ fields = Variants[Top][v].writes
  BY Kinds, Domains DEF At, Form
<1> HIDE DEF v
<1>2. Found(Top, v)
  BY <1>1, VariantsFound, Domains
<1>3. IF Whole(i) THEN HasUleb /\ UlebEnd = written[i].end
                       /\ UlebValue = Variants[Top][v].index
      ELSE ~HasUleb
  BY <1>1, <1>2, NumberRead DEF Found
<1>4. Readable <=> HasUleb /\ Chosen(Top, UlebValue) # Unknown
  BY Kinds, Domains DEF Readable
<1> QED BY <1>1, <1>2, <1>3, <1>4 DEF v, Found

\* A plain class, which has no bytes of its own.
LEMMA PlainRead ==
  ASSUME NEW i, NEW code, NEW fields, At(i, code, fields), Top \in DOMAIN Plains
  PROVE  /\ Readable /\ Whole(i) /\ written[i].end = pos /\ written[i].what = Top
         /\ written[i].value = << >> /\ fields = Plains[Top].reads
<1>1. /\ written[i].what = Top /\ written[i].value = << >> /\ code = << >>
      /\ fields = Plains[Top].writes
  BY Kinds, Domains DEF At, Form
<1>2. pos \in 0..Len(bytes) /\ Len(bytes) \in Nat
  BY AtEntry DEF At
<1>3. written[i].end = pos + 0
  BY <1>1, AtCode
<1>4. fields = Plains[Top].reads
  BY <1>1, PlainFields, Domains
<1> QED BY <1>1, <1>2, <1>3, <1>4 DEF Readable, Whole

\* The reader can take an entry when all of it is in the buffer, and only then.
LEMMA ReadableWhole ==
  ASSUME IInv, Turn("read"), NEW i \in Nat, i = Len(got) + 1
  PROVE  Readable <=> Whole(i)
<1>1. PICK code, fields : At(i, code, fields)
  BY SomeCode
<1>2. Top \in Items
  BY AtEntry
<1> QED BY <1>1, <1>2, FixedRead, BytesRead, VectorRead, VariantRead, PlainRead DEF Items

(***************************************************************************)
(* The actions of the reader                                               *)
(***************************************************************************)

\* An entry as it is read differs in its name at most.
LEMMA AsReadIs ==
  ASSUME NEW e \in Entries
  PROVE  AsRead(e) = Entry(Taken(e.what), e.value, e.end, e.rest)
BY DEF AsRead, Taken, Entries, Entry

\* A read leaves the log of the writer alone.
LEMMA LogKept ==
  ASSUME UNCHANGED <<root, bytes, written, cut>>, NEW i
  PROVE  /\ WellWritten(i) => WellWritten(i)'
         /\ Start(i)' = Start(i) /\ Before(i)' = Before(i)
BY DEF WellWritten, Coded, Start, Before

\* A read that takes the entry the reader is at.
LEMMA TakeKeeps ==
  ASSUME NEW i, NEW code, NEW fields, At(i, code, fields), Whole(i), NEW end, NEW what,
         NEW value, Take(end, what, value, fields),
         end = written[i].end, what = Taken(written[i].what), value = written[i].value
  PROVE  IInv'
<1>1. /\ pos' = end /\ stack' = fields \o Tail(stack)
      /\ got' = Append(got, Entry(what, value, end, stack'))
      /\ phase' = phase /\ root' = root /\ bytes' = bytes /\ written' = written
      /\ cut' = cut /\ fuel' = fuel
  BY DEF Take
<1>2. /\ i \in 1..Len(written) /\ written[i] \in Entries /\ TypeOK /\ Follows
      /\ i = Len(got) + 1 /\ i \in Nat /\ IInv /\ phase = "read" /\ Len(bytes) \in Nat
  BY AtEntry DEF At, IInv, Turn
<1>3. stack' = written[i].rest
  BY <1>1, AtCode
<1>4. Entry(what, value, end, stack') = AsRead(written[i])
  BY <1>2, <1>3, AsReadIs
<1>5. AsRead(written[i]) \in Entries
  <2>1. "TypeTagU8" \in Names
    <3>1. "TypeTag" \in DOMAIN Variants /\ "TypeTagU8" \in DOMAIN Variants["TypeTag"]
      BY DEF Variants, TypeTagClasses
    <3> QED BY <3>1 DEF Names
  <2> QED BY <1>2, <2>1, AsReadIs DEF Entries, Entry, Taken
<1>6. /\ got' \in Seq(Entries) /\ Len(got') = i /\ got'[i] = AsRead(written[i])
      /\ \A k \in 1..Len(got) : got'[k] = got[k]
  BY <1>1, <1>2, <1>4, <1>5, AppendProperties DEF TypeOK
<1>7. TypeOK'
  <2>1. pos' \in 0..Len(bytes') /\ stack' \in Seq(Items)
    <3>1. written[i].end \in Nat /\ written[i].rest \in Seq(Items)
      BY <1>2 DEF Entries
    <3>2. pos' = written[i].end /\ bytes' = bytes
      BY <1>1
    <3>3. written[i].end <= Len(bytes)
      BY DEF Whole
    <3>4. pos' \in 0..Len(bytes')
      BY <3>1, <3>2, <3>3, <1>2
    <3>5. stack' \in Seq(Items)
      BY <3>1, <1>3
    <3> QED BY <3>4, <3>5
  <2> QED BY <1>1, <1>2, <1>6, <2>1 DEF TypeOK
<1>8. Start(i + 1)' = pos' /\ Before(i + 1)' = stack'
  <2>1. i + 1 # 1 /\ i + 1 - 1 = i
    BY <1>2
  <2>2. pos' = written[i].end /\ written' = written
    BY <1>1
  <2>3. Start(i + 1)' = written'[i + 1 - 1].end /\ Before(i + 1)' = written'[i + 1 - 1].rest
    BY <2>1, <1>2 DEF Start, Before
  <2> QED BY <2>1, <2>2, <2>3, <1>3
<1>9. Follows'
  <2>1. \A k \in 1..i : k \in 1..Len(got) \/ k = i
    BY <1>2
  <2>2. \A k \in 1..i : got'[k] = AsRead(written[k])
    BY <2>1, <1>2, <1>6 DEF Follows
  <2>3. (Len(got) <= Len(written))' /\ (Len(got) + 1)' = i + 1
    BY <1>1, <1>2, <1>6
  <2> QED BY <1>1, <1>6, <1>8, <2>2, <2>3 DEF Follows
<1>10. /\ (\A k \in 1..Len(written) : WellWritten(k))'
       /\ (Len(bytes) + cut = Start(Len(written) + 1))'
       /\ (Before(Len(written) + 1) = << >>)'
  BY <1>1, <1>2, LogKept DEF IInv
<1> QED BY <1>1, <1>2, <1>7, <1>9, <1>10 DEF IInv

\* An item that is no variant is taken for itself.
LEMMA TakenItem == \A x \in Items : Taken(x) = x
BY Kinds DEF Taken

\* One lemma for each read: it takes the entry the reader is at.
LEMMA ReadFixedKeeps == ASSUME IInv, ReadFixed PROVE IInv'
<1>1. /\ Turn("read") /\ Top \in DOMAIN Width /\ Readable
      /\ Take(pos + Width[Top], Top, Slice(pos, Width[Top]), << >>)
  BY DEF ReadFixed
<1>2. PICK i \in Nat : i = Len(got) + 1
  BY Numbers DEF IInv
<1>3. PICK code, fields : At(i, code, fields)
  BY <1>1, <1>2, SomeCode
<1>4. Top = Taken(Top)
  BY <1>1, TakenItem DEF Items
<1>5. /\ Whole(i) /\ pos + Width[Top] = written[i].end /\ written[i].what = Top
      /\ Slice(pos, Width[Top]) = written[i].value /\ fields = << >>
  BY <1>1, <1>3, FixedRead
<1> QED BY <1>1, <1>3, <1>4, <1>5, TakeKeeps

\* ... a text, a byte string, a key or a signature.
LEMMA ReadBytesKeeps == ASSUME IInv, ReadBytes PROVE IInv'
<1>1. /\ Turn("read") /\ Top \in DOMAIN Lengths /\ Readable
      /\ Take(UlebEnd + UlebValue, Top, Slice(UlebEnd, UlebValue), << >>)
  BY DEF ReadBytes
<1>2. PICK i \in Nat : i = Len(got) + 1
  BY Numbers DEF IInv
<1>3. PICK code, fields : At(i, code, fields)
  BY <1>1, <1>2, SomeCode
<1>4. Top = Taken(Top)
  BY <1>1, TakenItem DEF Items
<1>5. /\ Whole(i) /\ UlebEnd + UlebValue = written[i].end /\ written[i].what = Top
      /\ Slice(UlebEnd, UlebValue) = written[i].value /\ fields = << >>
  BY <1>1, <1>3, BytesRead
<1> QED BY <1>1, <1>3, <1>4, <1>5, TakeKeeps

\* ... the length of a vector.
LEMMA ReadVectorKeeps == ASSUME IInv, ReadVector PROVE IInv'
<1>1. /\ Turn("read") /\ Top \in DOMAIN ElementOf /\ Readable
      /\ Take(UlebEnd, Top, <<UlebValue>>, [i \in 1..UlebValue |-> ElementOf[Top]])
  BY DEF ReadVector
<1>2. PICK i \in Nat : i = Len(got) + 1
  BY Numbers DEF IInv
<1>3. PICK code, fields : At(i, code, fields)
  BY <1>1, <1>2, SomeCode
<1>4. Top = Taken(Top)
  BY <1>1, TakenItem DEF Items
<1>5. /\ Whole(i) /\ UlebEnd = written[i].end /\ written[i].what = Top
      /\ <<UlebValue>> = written[i].value
      /\ fields = [k \in 1..UlebValue |-> ElementOf[Top]]
  BY <1>1, <1>3, VectorRead
<1> QED BY <1>1, <1>3, <1>4, <1>5, TakeKeeps

\* ... the index of a variant.
LEMMA ReadVariantKeeps == ASSUME IInv, ReadVariant PROVE IInv'
<1> DEFINE v == Chosen(Top, UlebValue)
<1>1. /\ Turn("read") /\ Top \in DOMAIN Variants /\ Readable
      /\ Take(UlebEnd, v, << >>, Variants[Top][v].reads)
  BY DEF ReadVariant
<1>2. PICK i \in Nat : i = Len(got) + 1
  BY Numbers DEF IInv
<1>3. PICK code, fields : At(i, code, fields)
  BY <1>1, <1>2, SomeCode
<1>4. /\ Whole(i) /\ UlebEnd = written[i].end /\ v = Taken(written[i].what)
      /\ Variants[Top][v].reads = fields /\ << >> = written[i].value
  BY <1>1, <1>3, VariantRead
<1> HIDE DEF v
<1> QED BY <1>1, <1>3, <1>4, TakeKeeps

\* ... a plain class.
LEMMA ReadPlainKeeps == ASSUME IInv, ReadPlain PROVE IInv'
<1>1. /\ Turn("read") /\ Top \in DOMAIN Plains
      /\ Take(pos, Top, << >>, Plains[Top].reads)
  BY DEF ReadPlain
<1>2. PICK i \in Nat : i = Len(got) + 1
  BY Numbers DEF IInv
<1>3. PICK code, fields : At(i, code, fields)
  BY <1>1, <1>2, SomeCode
<1>4. Top = Taken(Top)
  BY <1>1, TakenItem DEF Items
<1>5. /\ Whole(i) /\ pos = written[i].end /\ written[i].what = Top
      /\ << >> = written[i].value /\ fields = Plains[Top].reads
  BY <1>1, <1>3, PlainRead
<1> QED BY <1>1, <1>3, <1>4, <1>5, TakeKeeps

\* The reader throws only at an entry that has been cut off.
LEMMA ThrowKeeps == ASSUME IInv, Throw PROVE IInv'
<1>1. /\ Turn("read") /\ ~Readable /\ phase' = "threw"
      /\ UNCHANGED <<root, stack, bytes, pos, written, got, cut, fuel>>
  BY DEF Throw
<1>2. PICK i \in Nat : i = Len(got) + 1
  BY Numbers DEF IInv
<1>3. ~ Whole(i)
  BY <1>1, <1>2, ReadableWhole
<1>4. i \in 1..Len(written) /\ WellWritten(i) /\ written[i] \in Entries /\ TypeOK
  BY <1>1, <1>2, AtEntry DEF IInv
<1>5. written[i].end <= Len(bytes) + cut /\ written[i].end \in Nat
  BY <1>4, WellWrittenForm DEF Entries
<1>6. cut > 0
  BY <1>3, <1>4, <1>5, Numbers DEF Whole
<1>7. TypeOK' /\ Follows'
  BY <1>1, <1>4 DEF IInv, TypeOK, Follows, Start, Before, Turn
<1>8. /\ (\A k \in 1..Len(written) : WellWritten(k))'
      /\ (Len(bytes) + cut = Start(Len(written) + 1))'
      /\ (Before(Len(written) + 1) = << >>)'
  BY <1>1, LogKept DEF IInv, Turn
<1> QED BY <1>1, <1>6, <1>7, <1>8 DEF IInv

\* A reader with nothing left to read stands at the end of the log.
LEMMA ReturnKeeps == ASSUME IInv, Return PROVE IInv'
<1>1. /\ phase = "read" /\ stack = << >> /\ phase' = "done"
      /\ UNCHANGED <<root, stack, bytes, pos, written, got, cut, fuel>>
  BY DEF Return
<1>2. TypeOK' /\ Follows'
  BY <1>1 DEF IInv, TypeOK, Follows, Start, Before
<1>3. /\ (\A k \in 1..Len(written) : WellWritten(k))'
      /\ (Len(bytes) + cut = Start(Len(written) + 1))'
      /\ (Before(Len(written) + 1) = << >>)'
  BY <1>1, LogKept DEF IInv
<1> QED BY <1>1, <1>2, <1>3 DEF IInv

\* A step that changes nothing keeps the invariant.
LEMMA StutterKeeps == ASSUME IInv, UNCHANGED vars PROVE IInv'
<1>1. TypeOK' /\ (Follows => Follows')
  BY DEF vars, IInv, TypeOK, Follows, Start, Before
<1>2. /\ (\A k \in 1..Len(written) : WellWritten(k))'
      /\ (Len(bytes) + cut = Start(Len(written) + 1))'
      /\ (Before(Len(written) + 1))' = Before(Len(written) + 1)
  BY LogKept DEF vars, IInv
<1> QED BY <1>1, <1>2 DEF vars, IInv

\* Nothing is written and nothing read at first.
LEMMA InitHolds == Init => IInv
<1> SUFFICES ASSUME Init PROVE IInv
  OBVIOUS
<1>1. /\ phase = "write" /\ root \in Roots /\ stack = <<root>> /\ bytes = << >> /\ pos = 0
      /\ written = << >> /\ got = << >> /\ cut = 0 /\ fuel = Fuel[root]
  BY DEF Init
<1>2. root \in Items /\ Fuel[root] \in Nat
  BY <1>1, LayoutsAssumption
<1>3. TypeOK
  BY <1>1, <1>2 DEF TypeOK
<1>4. Len(written) = 0 /\ Start(1) = 0 /\ Before(1) = <<root>> /\ Len(bytes) = 0
  BY <1>1 DEF Start, Before
<1> QED BY <1>1, <1>3, <1>4 DEF IInv

\* The log of the writer explains every byte and every item of the stack, and
\* the reader retraces it, for all classes, values, lengths and cuts.
THEOREM Invariance == Spec => []IInv
<1>1. IInv /\ [Next]_vars => IInv'
  BY WriteFixedKeeps, WriteBoolKeeps, WriteBytesKeeps, WriteVectorKeeps,
     WriteVariantKeeps, WritePlainKeeps, HandKeeps, ReadFixedKeeps, ReadBytesKeeps,
     ReadVectorKeeps, ReadVariantKeeps, ReadPlainKeeps, ThrowKeeps, ReturnKeeps,
     StutterKeeps
  DEF Next
<1> QED BY InitHolds, <1>1, PTL DEF Spec

\* A reader that returns has followed the log of the writer to its end.
LEMMA AtReturn ==
  ASSUME IInv, phase = "done"
  PROVE  cut = 0 /\ Len(got) = Len(written) /\ pos = Len(bytes) /\ TypeOK
         /\ \A i \in 1..Len(got) : got[i] = AsRead(written[i])
<1>1. /\ TypeOK /\ Follows /\ stack = << >> /\ Len(bytes) + cut = Start(Len(written) + 1)
      /\ \A i \in 1..Len(written) : WellWritten(i)
  BY DEF IInv
<1>2. /\ Len(got) \in Nat /\ Len(written) \in Nat /\ Len(bytes) \in Nat /\ cut \in Nat
      /\ pos \in 0..Len(bytes)
  BY <1>1, Numbers DEF TypeOK
<1>3. /\ Len(got) <= Len(written) /\ pos = Start(Len(got) + 1)
      /\ Before(Len(got) + 1) = << >>
  BY <1>1 DEF Follows
<1>4. Len(got) + 1 \notin 1..Len(written)
  BY <1>1, <1>3 DEF WellWritten
<1>5. Len(got) = Len(written)
  BY <1>2, <1>3, <1>4
<1> QED BY <1>1, <1>2, <1>3, <1>5 DEF Follows

\* What is written and not cut short is read back as it was, but for the tags
\* that have no index of their own.
THEOREM Trip == Spec => []RoundTrip
<1>1. IInv => RoundTrip
  <2> SUFFICES ASSUME IInv, phase = "done", ~Wrote(Misnumbered)
               PROVE  got = written /\ pos = Len(bytes)
    BY DEF RoundTrip
  <2>1. /\ Len(got) = Len(written) /\ pos = Len(bytes) /\ TypeOK
        /\ \A i \in 1..Len(got) : got[i] = AsRead(written[i])
    BY AtReturn
  <2>2. got \in Seq(Entries) /\ written \in Seq(Entries)
    BY <2>1 DEF TypeOK
  <2>3. ASSUME NEW i \in 1..Len(got)
        PROVE  got[i] = written[i]
    <3>1. written[i] \in Entries /\ written[i].what \notin Misnumbered
      BY <2>1, <2>2 DEF Wrote
    <3>2. AsRead(written[i]) = written[i]
      BY <3>1 DEF AsRead, Entries
    <3> QED BY <2>1, <3>2
  <2> QED BY <2>1, <2>2, <2>3, SeqEqual
<1> QED BY Invariance, <1>1, PTL

\* No deserializer returns an object for an encoding that has been cut short, and none
\* throws on what the serializer of its class has written.
THEOREM Prefixes == Spec => []PrefixRefused
<1>1. IInv => PrefixRefused
  <2>1. IInv /\ phase = "done" => cut = 0
    BY AtReturn
  <2>2. IInv /\ phase = "threw" => cut > 0
    BY DEF IInv
  <2> QED BY <2>1, <2>2 DEF PrefixRefused
<1> QED BY Invariance, <1>1, PTL
=============================================================================
