--------------------------- MODULE TypeTagsProofs ---------------------------
(***************************************************************************)
(* Lemmas about type tags: their parser and the two writers of their       *)
(* texts, for types nested to any depth; and about the sequences that      *)
(* these, and the conversions of arguments, are made of.                   *)
(***************************************************************************)
EXTENDS TypeTags, TLAPS, SequenceTheorems, WellFoundedInduction

(***************************************************************************)
(* Induction over the natural numbers, and the levels                      *)
(***************************************************************************)

\* A set of numbers that is not empty has a least member.
LEMMA Least ==
  ASSUME NEW T, T \subseteq Nat, T # {}
  PROVE  \E n \in T : \A m \in T : n <= m
<1> DEFINE Below == {p \in Nat \X Nat : p[1] < p[2]}
<1>1. IsWellFoundedOn(Below, Nat)
  BY NatLessThanWellFounded DEF OpToRel
<1>2. PICK n \in T : \A m \in T : <<m, n>> \notin Below
  BY <1>1, WFMin
<1>3. \A m \in T : ~ (m < n)
  BY <1>2
<1> QED BY <1>3

\* A set that holds 0, and with each number the next, is all of Nat.
LEMMA Induction ==
  ASSUME NEW T, 0 \in T, \A n \in Nat : n \in T => n + 1 \in T
  PROVE  Nat \subseteq T
<1> SUFFICES ASSUME ~ (Nat \subseteq T) PROVE FALSE
  OBVIOUS
<1>1. PICK n \in Nat \ T : \A m \in Nat \ T : n <= m
  BY Least
<1>2. n - 1 \in T
  BY <1>1
<1> QED BY <1>1, <1>2

\* What is at level n of each kind of data.
Inner(f, n) == IF n = 0 THEN {} ELSE f[n - 1]

LEMMA SeqsGrow == \A A, B : A \subseteq B => Seq(A) \subseteq Seq(B)
<1> SUFFICES ASSUME NEW A, NEW B, A \subseteq B, NEW s \in Seq(A) PROVE s \in Seq(B)
  OBVIOUS
<1>1. s \in [1..Len(s) -> A] /\ Len(s) \in Nat
  OBVIOUS
<1>2. s \in [1..Len(s) -> B]
  BY <1>1
<1> QED BY <1>1, <1>2

\* Levels that grow step by step lie in the last one.
LEMMA Climb ==
  ASSUME NEW L, \A n \in Nat : n + 1 \in 0..Depth => L[n] \subseteq L[n + 1]
  PROVE  \A n \in 0..Depth : L[n] \subseteq L[Depth]
<1> SUFFICES ASSUME NEW n \in 0..Depth PROVE L[n] \subseteq L[Depth]
  OBVIOUS
<1> DEFINE U == {d \in Nat : n + d \in 0..Depth => L[n] \subseteq L[n + d]}
<1>5. 0 \in U
  OBVIOUS
<1>6. ASSUME NEW d \in Nat, d \in U PROVE d + 1 \in U
  <2> SUFFICES ASSUME n + (d + 1) \in 0..Depth PROVE L[n] \subseteq L[n + (d + 1)]
    OBVIOUS
  <2>1. L[n] \subseteq L[n + d]
    BY <1>6, DepthAssumption
  <2>2. L[n + d] \subseteq L[(n + d) + 1]
    OBVIOUS
  <2> QED BY <2>1, <2>2
<1>7. Depth - n \in U
  <2> HIDE DEF U
  <2> QED BY <1>5, <1>6, Induction, DepthAssumption
<1> QED BY <1>7, DepthAssumption

\* The levels of types: each is made of the one below, and holds it.
LEMMA TagLevels == \A n \in 0..Depth : TagLevel[n] = TagsOver(Inner(TagLevel, n))
<1> DEFINE T == {d \in Nat : \E f : f = [n \in 0..d |-> TagsOver(Inner(f, n))]}
<1>1. 0 \in T
  <2> DEFINE f == [n \in 0..0 |-> TagsOver({})]
  <2>1. f = [n \in 0..0 |-> TagsOver(Inner(f, n))]
    BY DEF Inner
  <2> QED BY <2>1
<1>2. ASSUME NEW d \in Nat, d \in T PROVE d + 1 \in T
  <2>1. PICK f : f = [n \in 0..d |-> TagsOver(Inner(f, n))]
    BY <1>2
  <2> DEFINE h == [n \in 0..d+1 |-> TagsOver(Inner(f, n))]
  <2>2. \A n \in 0..d : h[n] = f[n]
    BY <2>1
  <2>3. ASSUME NEW n \in 0..d+1 PROVE Inner(h, n) = Inner(f, n)
    <3> HIDE DEF h
    <3>1. n # 0 => n - 1 \in 0..d
      OBVIOUS
    <3> QED BY <2>2, <3>1 DEF Inner
  <2>4. h = [n \in 0..d+1 |-> TagsOver(Inner(h, n))]
    <3>1. \A n \in 0..d+1 : h[n] = TagsOver(Inner(h, n))
      BY <2>3
    <3> QED BY <3>1, Zenon
  <2> HIDE DEF h
  <2> QED BY <2>4
<1>3. Depth \in T
  <2> HIDE DEF T
  <2> QED BY <1>1, <1>2, Induction, DepthAssumption
<1>4. TagLevel = [n \in 0..Depth |-> TagsOver(Inner(TagLevel, n))]
  BY <1>3 DEF TagLevel, Inner
<1> QED BY <1>4, Zenon

LEMMA TagSteps ==
  /\ TagLevel[0] = TagsOver({})
  /\ \A n \in Nat : n + 1 \in 0..Depth => TagLevel[n + 1] = TagsOver(TagLevel[n])
<1>1. 0 \in 0..Depth /\ Inner(TagLevel, 0) = {}
  BY DepthAssumption DEF Inner
<1>2. ASSUME NEW n \in Nat, n + 1 \in 0..Depth PROVE Inner(TagLevel, n + 1) = TagLevel[n]
  <2>1. n + 1 # 0 /\ (n + 1) - 1 = n
    OBVIOUS
  <2> QED BY <2>1 DEF Inner
<1>3. TagLevel[0] = TagsOver({})
  BY <1>1, TagLevels
<1> QED BY <1>2, <1>3, TagLevels

LEMMA TagsNested ==
  /\ \A n \in 0..Depth : TagLevel[n] \subseteq Tag
  /\ \A n \in Nat : n + 1 \in 0..Depth => TagLevel[n] \subseteq TagLevel[n + 1]
<1>1. \A A, B : A \subseteq B => TagsOver(A) \subseteq TagsOver(B)
  BY SeqsGrow DEF TagsOver
<1> DEFINE T == {d \in Nat : d + 1 \in 0..Depth => TagLevel[d] \subseteq TagLevel[d + 1]}
<1>2. 0 \in T
  <2> SUFFICES ASSUME 0 + 1 \in 0..Depth PROVE TagLevel[0] \subseteq TagLevel[0 + 1]
    OBVIOUS
  <2>1. TagLevel[0] = TagsOver({}) /\ TagLevel[0 + 1] = TagsOver(TagLevel[0])
    BY TagSteps
  <2>2. TagsOver({}) \subseteq TagsOver(TagLevel[0])
    BY <1>1
  <2> QED BY <2>1, <2>2
<1>3. ASSUME NEW d \in Nat, d \in T PROVE d + 1 \in T
  <2> SUFFICES ASSUME (d + 1) + 1 \in 0..Depth
               PROVE  TagLevel[d + 1] \subseteq TagLevel[(d + 1) + 1]
    OBVIOUS
  <2>1. /\ TagLevel[d + 1] = TagsOver(TagLevel[d])
        /\ TagLevel[(d + 1) + 1] = TagsOver(TagLevel[d + 1])
    BY TagSteps, DepthAssumption
  <2>2. TagLevel[d] \subseteq TagLevel[d + 1]
    BY <1>3, DepthAssumption
  <2>3. TagsOver(TagLevel[d]) \subseteq TagsOver(TagLevel[d + 1])
    BY <2>2, <1>1
  <2> QED BY <2>1, <2>3
<1>4. \A n \in Nat : n + 1 \in 0..Depth => TagLevel[n] \subseteq TagLevel[n + 1]
  <2> HIDE DEF T
  <2>1. Nat \subseteq T
    BY <1>2, <1>3, Induction
  <2> QED BY <2>1 DEF T
<1>5. \A n \in 0..Depth : TagLevel[n] \subseteq TagLevel[Depth]
  <2> HIDE DEF T
  <2> QED BY <1>4, Climb
<1> QED BY <1>4, <1>5 DEF Tag

(***************************************************************************)
(* The recursive functions over types                                      *)
(***************************************************************************)

Children(g) == IF g.k = "vector" THEN {g.of}
               ELSE IF g.k = "struct" THEN {g.args[i] : i \in DOMAIN g.args} ELSE {}

LEMMA TagShape ==
  ASSUME NEW n \in 0..Depth, NEW g \in TagLevel[n]
  PROVE  /\ g.k = "vector" => g = Vector(g.of)
         /\ g.k = "struct" =>
              /\ g = [k |-> "struct", address |-> g.address, module |-> g.module,
                      name |-> g.name, args |-> g.args]
              /\ g.args \in Seq(Tag)
         /\ \A c \in Children(g) : n - 1 \in 0..Depth /\ c \in TagLevel[n - 1] /\ c \in TagLevel[n]
<1> DEFINE inner == Inner(TagLevel, n)
<1>1. g \in TagsOver(inner)
  BY TagLevels
<1>2. \A c \in inner : n - 1 \in 0..Depth /\ c \in TagLevel[n - 1] /\ c \in TagLevel[n]
  <2> SUFFICES ASSUME NEW c \in inner
               PROVE  n - 1 \in 0..Depth /\ c \in TagLevel[n - 1] /\ c \in TagLevel[n]
    OBVIOUS
  <2>1. n # 0 /\ c \in TagLevel[n - 1]
    BY DEF Inner
  <2>2. n - 1 \in Nat /\ (n - 1) + 1 = n
    BY <2>1, DepthAssumption
  <2> QED BY <2>1, <2>2, TagsNested, DepthAssumption
<1>3. inner \subseteq Tag
  BY <1>2, TagsNested
<1> HIDE DEF inner
<1>4. CASE g \in [k : STRING \ {"vector", "struct"}]
  BY <1>4 DEF Children
<1>5. CASE g \in [k : {"vector"}, of : inner]
  <2>1. g.k = "vector" /\ g.of \in inner /\ g = [k |-> "vector", of |-> g.of]
    BY <1>5
  <2>2. Children(g) = {g.of}
    BY <2>1 DEF Children
  <2>3. \A c \in Children(g) : n - 1 \in 0..Depth /\ c \in TagLevel[n - 1] /\ c \in TagLevel[n]
    BY <2>1, <2>2, <1>2
  <2>4. g = Vector(g.of)
    BY <2>1, Zenon DEF Vector
  <2>5. g.k # "struct"
    BY <2>1
  <2> QED BY <2>3, <2>4, <2>5, Zenon
<1>6. CASE g \in [k : {"struct"}, address : Addresses, module : STRING, name : STRING,
                  args : Seq(inner)]
  <2>1. /\ g.k = "struct" /\ g.args \in Seq(inner)
        /\ g = [k |-> "struct", address |-> g.address, module |-> g.module,
                name |-> g.name, args |-> g.args]
    BY <1>6
  <2>2. g.args \in Seq(Tag)
    BY <2>1, <1>3, SeqsGrow
  <2>3. \A c \in Children(g) : c \in inner
    BY <2>1 DEF Children
  <2>4. \A c \in Children(g) : n - 1 \in 0..Depth /\ c \in TagLevel[n - 1] /\ c \in TagLevel[n]
    BY <2>3, <1>2
  <2>5. g.k # "vector"
    BY <2>1
  <2> QED BY <2>1, <2>2, <2>4, <2>5, Zenon
<1> QED BY <1>1, <1>4, <1>5, <1>6 DEF TagsOver

(***************************************************************************)
(* Sequences of sequences, one after the other                             *)
(***************************************************************************)

\* A function over the values of a sequence gives a sequence.
LEMMA SequenceMade ==
  ASSUME NEW S, NEW X, NEW f, NEW s \in Seq(S), \A x \in S : f[x] \in X
  PROVE  [i \in DOMAIN s |-> f[s[i]]] \in Seq(X)
<1>1. DOMAIN s = 1..Len(s) /\ Len(s) \in Nat /\ \A i \in 1..Len(s) : s[i] \in S
  OBVIOUS
<1>2. \A i \in 1..Len(s) : f[s[i]] \in X
  BY <1>1
<1>3. [i \in 1..Len(s) |-> f[s[i]]] \in Seq(X)
  BY <1>1, <1>2
<1> QED BY <1>1, <1>3

\* acc[i] is the first i sequences of ss, one after the other.
Steps(acc, ss) == /\ acc[1] = ss[1]
                  /\ \A i \in 2..Len(ss) : acc[i] = acc[i - 1] \o ss[i]

LEMMA FlattenSteps ==
  ASSUME NEW ss, Len(ss) \in Nat \ {0}, DOMAIN ss = 1..Len(ss)
  PROVE  \E acc : Steps(acc, ss) /\ FlattenSeq(ss) = acc[Len(ss)]
<1> DEFINE Step(f, i) == IF i = 1 THEN ss[i] ELSE f[i - 1] \o ss[i]
<1> DEFINE T == {n \in Nat : \E f : f = [i \in 1..n |-> Step(f, i)]}
<1>1. 0 \in T
  <2> DEFINE f == [i \in 1..0 |-> {}]
  <2>1. 1..0 = {}
    OBVIOUS
  <2>2. f = [i \in 1..0 |-> Step(f, i)]
    <3> HIDE DEF Step
    <3> QED BY <2>1
  <2> QED BY <2>2
<1>2. ASSUME NEW n \in Nat, n \in T PROVE n + 1 \in T
  <2>1. PICK f : f = [i \in 1..n |-> Step(f, i)]
    BY <1>2
  <2> DEFINE h == [i \in 1..n + 1 |-> Step(f, i)]
  <2>2. \A i \in 1..n : h[i] = f[i]
    <3> HIDE DEF Step
    <3>1. \A i \in 1..n : f[i] = Step(f, i)
      BY <2>1
    <3> QED BY <3>1
  <2>3. ASSUME NEW i \in 1..n + 1 PROVE h[i] = Step(h, i)
    <3>1. h[i] = Step(f, i)
      OBVIOUS
    <3>2. i # 1 => i - 1 \in 1..n
      OBVIOUS
    <3> HIDE DEF h
    <3>3. i # 1 => h[i - 1] = f[i - 1]
      BY <3>2, <2>2
    <3> QED BY <3>1, <3>3
  <2>4. h = [i \in 1..n + 1 |-> Step(h, i)]
    <3> HIDE DEF Step
    <3>1. h = [i \in 1..n + 1 |-> h[i]]
      OBVIOUS
    <3> HIDE DEF h
    <3> QED BY <2>3, <3>1
  <2> HIDE DEF h, Step
  <2> QED BY <2>4
<1>3. Len(ss) \in T
  <2> HIDE DEF T
  <2> QED BY <1>1, <1>2, Induction
<1> DEFINE flatten == CHOOSE f : f = [i \in 1..Len(ss) |-> Step(f, i)]
<1>4. flatten = [i \in 1..Len(ss) |-> Step(flatten, i)]
  <2> HIDE DEF Step
  <2>1. \E f : f = [i \in 1..Len(ss) |-> Step(f, i)]
    BY <1>3
  <2> QED BY <2>1
<1>5. ss # << >>
  OBVIOUS
<1>6. FlattenSeq(ss) = flatten[Len(ss)]
  BY <1>5 DEF FlattenSeq
<1>7. \A i \in 1..Len(ss) : flatten[i] = Step(flatten, i)
  <2> HIDE DEF Step, flatten
  <2> QED BY <1>4
<1> HIDE DEF flatten
<1>8. Steps(flatten, ss)
  <2>1. 1 \in 1..Len(ss) /\ \A i \in 2..Len(ss) : i \in 1..Len(ss) /\ i # 1
    OBVIOUS
  <2> QED BY <1>7, <2>1 DEF Steps
<1> QED BY <1>6, <1>8

LEMMA RangeOfBoth ==
  ASSUME NEW S, NEW s \in Seq(S), NEW t \in Seq(S)
  PROVE  s \o t \in Seq(S) /\ Range(s \o t) = Range(s) \cup Range(t)
<1> DEFINE m == Len(s)
<1> DEFINE n == Len(t)
<1>1. /\ m \in Nat /\ n \in Nat /\ DOMAIN s = 1..m /\ DOMAIN t = 1..n
      /\ DOMAIN (s \o t) = 1..(m + n) /\ s \o t \in Seq(S)
      /\ \A i \in 1..(m + n) : (s \o t)[i] = IF i <= m THEN s[i] ELSE t[i - m]
  OBVIOUS
<1> DEFINE u == s \o t
<1> HIDE DEF m, n, u
<1>9. \A i \in 1..(m + n) : u[i] = IF i <= m THEN s[i] ELSE t[i - m]
  BY <1>1 DEF u
<1>10. m \in Nat /\ n \in Nat
  BY <1>1
<1>2. \A i \in 1..m : i \in 1..(m + n) /\ u[i] = s[i]
  <2> TAKE i \in 1..m
  <2>1. i \in 1..(m + n) /\ i <= m
    BY <1>10
  <2> QED BY <2>1, <1>9
<1>3. \A i \in 1..n : m + i \in 1..(m + n) /\ u[m + i] = t[i]
  <2> TAKE i \in 1..n
  <2>1. m + i \in 1..(m + n) /\ ~(m + i <= m) /\ (m + i) - m = i
    BY <1>10
  <2> QED BY <2>1, <1>9
<1>4. \A i \in 1..(m + n) : (i \in 1..m /\ u[i] = s[i]) \/ (i - m \in 1..n /\ u[i] = t[i - m])
  <2> TAKE i \in 1..(m + n)
  <2>1. (i <= m /\ i \in 1..m) \/ (~(i <= m) /\ i - m \in 1..n)
    BY <1>10
  <2> QED BY <2>1, <1>9
<1>5. DOMAIN u = 1..(m + n)
  BY <1>1 DEF u
<1>6. Range(u) = Range(s) \cup Range(t)
  <2>1. ASSUME NEW x \in Range(u) PROVE x \in Range(s) \cup Range(t)
    <3>1. PICK i \in 1..(m + n) : x = u[i]
      BY <1>5 DEF Range
    <3> QED BY <3>1, <1>4, <1>1 DEF Range
  <2>2. ASSUME NEW x \in Range(s) PROVE x \in Range(u)
    <3>1. PICK i \in 1..m : x = s[i]
      BY <1>1 DEF Range
    <3>2. i \in DOMAIN u /\ x = u[i]
      BY <3>1, <1>2, <1>5
    <3> QED BY <3>2 DEF Range
  <2>3. ASSUME NEW x \in Range(t) PROVE x \in Range(u)
    <3>1. PICK i \in 1..n : x = t[i]
      BY <1>1 DEF Range
    <3>2. m + i \in DOMAIN u /\ x = u[m + i]
      BY <3>1, <1>3, <1>5
    <3> QED BY <3>2 DEF Range
  <2> QED BY <2>1, <2>2, <2>3
<1> QED BY <1>1, <1>6 DEF u

\* What is in the sequences is what is in one of them.
LEMMA Flattened ==
  ASSUME NEW S, NEW ss \in Seq(Seq(S))
  PROVE  /\ FlattenSeq(ss) \in Seq(S)
         /\ \A x : x \in Range(FlattenSeq(ss)) <=> \E i \in DOMAIN ss : x \in Range(ss[i])
<1>0. /\ Len(ss) \in Nat /\ DOMAIN ss = 1..Len(ss)
      /\ \A i \in 1..Len(ss) : ss[i] \in Seq(S)
  OBVIOUS
<1>1. CASE Len(ss) = 0
  <2>1. ss = << >>
    BY <1>0, <1>1
  <2>2. FlattenSeq(ss) = << >>
    BY <1>1, <2>1 DEF FlattenSeq
  <2>3. Range(<< >>) = {} /\ DOMAIN ss = {}
    BY <2>1 DEF Range
  <2> QED BY <2>2, <2>3
<1>2. CASE Len(ss) # 0
  <2>1. PICK acc : Steps(acc, ss) /\ FlattenSeq(ss) = acc[Len(ss)]
    BY <1>0, <1>2, FlattenSteps
  <2> DEFINE Exact(s, n) == /\ s \in Seq(S)
                         /\ \A x : x \in Range(s) <=> \E i \in 1..n : x \in Range(ss[i])
  <2> DEFINE T == {n \in Nat : n + 1 \in 1..Len(ss) => Exact(acc[n + 1], n + 1)}
  <2>2. 0 \in T
    <3>1. acc[1] = ss[1] /\ 1 \in 1..Len(ss)
      BY <2>1, <1>0, <1>2 DEF Steps
    <3> QED BY <3>1, <1>0
  <2>3. ASSUME NEW n \in Nat, n \in T PROVE n + 1 \in T
    <3> SUFFICES ASSUME (n + 1) + 1 \in 1..Len(ss) PROVE Exact(acc[(n + 1) + 1], (n + 1) + 1)
      OBVIOUS
    <3>1. n + 1 \in 1..Len(ss) /\ (n + 1) + 1 \in 2..Len(ss)
      BY <1>0
    <3>2. Exact(acc[n + 1], n + 1)
      BY <3>1, <2>3
    <3>3. acc[(n + 1) + 1] = acc[n + 1] \o ss[(n + 1) + 1]
      <4>1. ((n + 1) + 1) - 1 = n + 1
        OBVIOUS
      <4> QED BY <3>1, <4>1, <2>1 DEF Steps
    <3>4. ss[(n + 1) + 1] \in Seq(S)
      BY <1>0
    <3> DEFINE s == acc[n + 1]
    <3> DEFINE t == ss[(n + 1) + 1]
    <3>5. s \o t \in Seq(S) /\ Range(s \o t) = Range(s) \cup Range(t)
      <4>1. s \in Seq(S) /\ t \in Seq(S)
        BY <3>2, <3>4
      <4> HIDE DEF s, t
      <4> QED BY <4>1, RangeOfBoth
    <3>6. \A x : (\E i \in 1..(n + 1) + 1 : x \in Range(ss[i]))
                 <=> (\E i \in 1..n + 1 : x \in Range(ss[i])) \/ x \in Range(t)
      <4>1. 1..(n + 1) + 1 = (1..n + 1) \cup {(n + 1) + 1}
        OBVIOUS
      <4> QED BY <4>1
    <3> QED BY <3>2, <3>3, <3>5, <3>6
  <2>4. Len(ss) - 1 \in T
    <3> HIDE DEF T
    <3>1. Nat \subseteq T
      BY <2>2, <2>3, Induction
    <3> QED BY <3>1, <1>0, <1>2
  <2>5. Exact(acc[Len(ss)], Len(ss))
    <3>1. (Len(ss) - 1) + 1 = Len(ss) /\ Len(ss) \in 1..Len(ss)
      BY <1>0, <1>2
    <3> QED BY <3>1, <2>4
  <2> QED BY <2>1, <2>5, <1>0
<1> QED BY <1>1, <1>2

(***************************************************************************)
(* What is printed of a type                                               *)
(***************************************************************************)

\* The words of the texts of types.
Words == Seq(STRING)

StructText(f, g) == <<g.address, "::", g.module, "::", g.name>>
                    \o PrintedArguments([i \in DOMAIN g.args |-> f[g.args[i]]])

PrintOf(f, g) ==
    CASE g.k = "struct" -> StructText(f, g)
      [] g.k = "vector" -> <<"vector", "<">> \o f[g.of] \o <<">">>
      [] OTHER -> <<g.k>>

LEMMA PrintLocal ==
  ASSUME NEW f, NEW h, NEW g \in Tag, \A c \in Children(g) : f[c] = h[c]
  PROVE  PrintOf(f, g) = PrintOf(h, g)
<1>1. g.k = "struct" => StructText(f, g) = StructText(h, g)
  BY DEF Children, StructText
<1>2. g.k = "vector" => f[g.of] = h[g.of]
  BY DEF Children
<1> QED BY <1>1, <1>2 DEF PrintOf

LEMMA PrintIs == \A g \in Tag : TypeTagToString[g] = PrintOf(TypeTagToString, g)
<1> DEFINE T == {n \in Nat : n \in 0..Depth => \E f : f = [g \in TagLevel[n] |-> PrintOf(f, g)]}
<1>1. ASSUME NEW n \in 0..Depth,
             \E f : \A g \in TagLevel[n] : \A c \in Children(g) : f[c] = PrintOf(f, c)
      PROVE  \E f : f = [g \in TagLevel[n] |-> PrintOf(f, g)]
  <2>1. PICK f : \A g \in TagLevel[n] : \A c \in Children(g) : f[c] = PrintOf(f, c)
    BY <1>1
  <2> DEFINE h == [g \in TagLevel[n] |-> PrintOf(f, g)]
  <2>2. ASSUME NEW g \in TagLevel[n] PROVE h[g] = PrintOf(h, g)
    <3>1. \A c \in Children(g) : c \in TagLevel[n]
      BY TagShape
    <3>2. \A c \in Children(g) : f[c] = h[c]
      BY <3>1, <2>1
    <3>3. g \in Tag
      BY TagsNested
    <3> HIDE DEF h
    <3>4. PrintOf(f, g) = PrintOf(h, g)
      BY <3>2, <3>3, PrintLocal
    <3> QED BY <3>4 DEF h
  <2>3. h = [g \in TagLevel[n] |-> PrintOf(h, g)]
    BY <2>2, Zenon
  <2> HIDE DEF h
  <2> QED BY <2>3
<1>2. 0 \in T
  <2>1. \A g \in TagLevel[0] : Children(g) = {}
    BY TagShape, DepthAssumption
  <2> QED BY <2>1, <1>1
<1>3. ASSUME NEW n \in Nat, n \in T PROVE n + 1 \in T
  <2> SUFFICES ASSUME n + 1 \in 0..Depth
               PROVE  \E f : f = [g \in TagLevel[n + 1] |-> PrintOf(f, g)]
    OBVIOUS
  <2>1. n \in 0..Depth
    BY DepthAssumption
  <2>2. PICK f : f = [g \in TagLevel[n] |-> PrintOf(f, g)]
    BY <2>1, <1>3
  <2>3. ASSUME NEW g \in TagLevel[n + 1], NEW c \in Children(g) PROVE c \in TagLevel[n]
    <3>1. c \in TagLevel[(n + 1) - 1]
      BY TagShape
    <3>2. (n + 1) - 1 = n
      OBVIOUS
    <3> QED BY <3>1, <3>2
  <2>4. \A c \in TagLevel[n] : f[c] = PrintOf(f, c)
    BY <2>2
  <2> QED BY <2>3, <2>4, <1>1
<1>4. Depth \in T
  <2> HIDE DEF T
  <2> QED BY <1>2, <1>3, Induction, DepthAssumption
<1>5. \E f : f = [g \in Tag |-> PrintOf(f, g)]
  BY <1>4, DepthAssumption DEF Tag
<1>6. TypeTagToString = [g \in Tag |-> PrintOf(TypeTagToString, g)]
  BY <1>5 DEF TypeTagToString, PrintOf, StructText
<1> QED BY <1>6, Zenon

LEMMA TagNames ==
  ASSUME NEW n \in 0..Depth, NEW g \in TagLevel[n]
  PROVE  /\ g.k \notin {"struct", "vector"} => g.k \in STRING
         /\ g.k = "struct" => /\ g.address \in Addresses /\ g.address \in STRING
                             /\ g.module \in STRING /\ g.name \in STRING
<1> DEFINE inner == Inner(TagLevel, n)
<1>1. g \in TagsOver(inner)
  BY TagLevels
<1> DEFINE args == Seq(inner)
<1> HIDE DEF args
<1>2. TagsOver(inner) = [k : STRING \ {"vector", "struct"}] \cup [k : {"vector"}, of : inner]
        \cup [k : {"struct"}, address : Addresses, module : STRING, name : STRING, args : args]
  BY Zenon DEF TagsOver, args
<1> QED BY <1>1, <1>2, StringAssumption

LEMMA OverItself ==
  ASSUME NEW S, NEW s \in Seq(S)
  PROVE  s \in Seq({s[i] : i \in DOMAIN s})
OBVIOUS

LEMMA ShortSequences ==
  ASSUME NEW S, NEW a \in S, NEW b \in S, NEW c \in S, NEW d \in S, NEW e \in S
  PROVE  /\ << >> \in Seq(S) /\ <<a>> \in Seq(S) /\ <<a, b>> \in Seq(S)
         /\ <<a, b, c>> \in Seq(S) /\ <<a, b, c, d, e>> \in Seq(S)
OBVIOUS

LEMMA Joined ==
  ASSUME NEW S, NEW s \in Seq(S), NEW t \in Seq(S), NEW x \in S
  PROVE  s \o t \in Seq(S) /\ Append(s, x) \in Seq(S)
OBVIOUS

LEMMA SomeWords == \A x \in {"<", ">", ",", "::", "vector"} : x \in STRING
BY StringAssumption DEF Punctuation

\* A word that is appended, and sequences of words one after the other.
LEMMA WordsAppended ==
  ASSUME NEW texts \in Seq(Words)
  PROVE  PrintedArguments(texts) \in Words
<1>1. ASSUME NEW t \in Words PROVE Append(t, ",") \in Words
  BY SomeWords, Joined DEF Words
<1>2. [i \in DOMAIN texts |-> Append(texts[i], ",")] \in Seq(Words)
  <2> HIDE DEF Words
  <2> DEFINE f == [t \in Words |-> Append(t, ",")]
  <2>1. \A t \in Words : f[t] \in Words
    BY <1>1
  <2>2. \A i \in DOMAIN texts : texts[i] \in Words /\ f[texts[i]] = Append(texts[i], ",")
    <3>1. \A i \in DOMAIN texts : texts[i] \in Words
      OBVIOUS
    <3> QED BY <3>1
  <2> HIDE DEF f
  <2>3. [i \in DOMAIN texts |-> f[texts[i]]] \in Seq(Words)
    BY <2>1, SequenceMade
  <2>4. [i \in DOMAIN texts |-> f[texts[i]]] = [i \in DOMAIN texts |-> Append(texts[i], ",")]
    BY <2>2
  <2> QED BY <2>3, <2>4
<1>3. FlattenSeq([i \in DOMAIN texts |-> Append(texts[i], ",")]) \in Words
  BY <1>2, Flattened DEF Words
<1>4. << >> \in Words /\ <<"<">> \in Words /\ <<">">> \in Words
  <2>1. "<" \in STRING /\ ">" \in STRING
    BY SomeWords
  <2> QED BY <2>1, ShortSequences DEF Words
<1> HIDE DEF Words
<1>5. \A s, t \in Words : s \o t \in Words
  BY Joined DEF Words
<1> QED BY <1>3, <1>4, <1>5 DEF PrintedArguments

\* The text of a type is a sequence of words.
LEMMA TextTyped == \A g \in Tag : TypeTagToString[g] \in Words
<1> DEFINE F == TypeTagToString
<1> DEFINE T == {n \in Nat : n \in 0..Depth => \A g \in TagLevel[n] : F[g] \in Words}
<1>1. ASSUME NEW n \in 0..Depth, NEW g \in TagLevel[n], \A c \in Children(g) : F[c] \in Words
      PROVE  F[g] \in Words
  <2>1. F[g] = PrintOf(F, g)
    BY TagsNested, PrintIs
  <2> HIDE DEF F
  <2>2. \A s, t \in Words : s \o t \in Words
    BY Joined DEF Words
  <2>3. CASE g.k = "struct"
    <3>1. /\ g.args \in Seq(Tag) /\ g.address \in STRING /\ g.module \in STRING /\ g.name \in STRING
      BY <2>3, TagNames, TagShape
    <3>2. <<g.address, "::", g.module, "::", g.name>> \in Words
      <4>1. "::" \in STRING
        BY SomeWords
      <4> QED BY <3>1, <4>1, ShortSequences DEF Words
    <3>3. [i \in DOMAIN g.args |-> F[g.args[i]]] \in Seq(Words)
      <4> DEFINE C == Children(g)
      <4>1. g.args \in Seq(C)
        BY <3>1, <2>3, OverItself DEF Children
      <4>2. \A c \in C : F[c] \in Words
        BY <1>1 DEF F
      <4> HIDE DEF C
      <4> QED BY <4>1, <4>2, SequenceMade
    <3>4. PrintedArguments([i \in DOMAIN g.args |-> F[g.args[i]]]) \in Words
      BY <3>3, WordsAppended
    <3>5. StructText(F, g) \in Words
      BY <3>2, <3>4, <2>2 DEF StructText
    <3> QED BY <3>5, <2>1, <2>3 DEF PrintOf
  <2>4. CASE g.k = "vector"
    <3>1. F[g.of] \in Words
      BY <1>1, <2>4 DEF Children, F
    <3>2. <<"vector", "<">> \in Words /\ <<">">> \in Words
      <4>1. "<" \in STRING /\ ">" \in STRING /\ "vector" \in STRING
        BY SomeWords
      <4> QED BY <4>1, ShortSequences DEF Words
    <3>3. <<"vector", "<">> \o F[g.of] \o <<">">> \in Words
      BY <3>1, <3>2, <2>2
    <3> QED BY <3>3, <2>1, <2>4 DEF PrintOf
  <2>5. CASE g.k \notin {"struct", "vector"}
    <3>1. <<g.k>> \in Words
      <4>1. g.k \in STRING
        BY <2>5, TagNames
      <4> QED BY <4>1, ShortSequences DEF Words
    <3> QED BY <3>1, <2>1, <2>5 DEF PrintOf
  <2> QED BY <2>3, <2>4, <2>5
<1> HIDE DEF F
<1>2. 0 \in T
  <2>1. \A g \in TagLevel[0] : Children(g) = {}
    BY TagShape, DepthAssumption
  <2> QED BY <2>1, <1>1
<1>3. ASSUME NEW n \in Nat, n \in T PROVE n + 1 \in T
  <2> SUFFICES ASSUME n + 1 \in 0..Depth, NEW g \in TagLevel[n + 1] PROVE F[g] \in Words
    OBVIOUS
  <2>1. n \in 0..Depth /\ (n + 1) - 1 = n
    BY DepthAssumption
  <2>2. \A c \in Children(g) : c \in TagLevel[n]
    BY <2>1, TagShape
  <2>3. \A c \in Children(g) : F[c] \in Words
    BY <2>1, <2>2, <1>3
  <2> QED BY <2>3, <1>1
<1>4. Nat \subseteq T
  <2> HIDE DEF T
  <2> QED BY <1>2, <1>3, Induction
<1> QED BY <1>4, DepthAssumption DEF F, Tag

LEMMA FlattenOne ==
  ASSUME NEW S, NEW s \in Seq(S)
  PROVE  FlattenSeq(<<s>>) = s
<1> DEFINE ss == <<s>>
<1>1. Len(ss) = 1 /\ DOMAIN ss = 1..1 /\ ss[1] = s
  OBVIOUS
<1>2. Len(ss) \in Nat \ {0} /\ DOMAIN ss = 1..Len(ss)
  BY <1>1
<1> HIDE DEF ss
<1>3. PICK acc : Steps(acc, ss) /\ FlattenSeq(ss) = acc[Len(ss)]
  BY <1>2, FlattenSteps
<1>4. FlattenSeq(ss) = s
  BY <1>1, <1>3 DEF Steps
<1> QED BY <1>4 DEF ss

(***************************************************************************)
(* The parser meets its definition                                         *)
(***************************************************************************)

\* What the parser makes of a text, of what it makes of the texts in "read".
Body(reads, given, text) ==
  [what \in {"tag", "list"} |->
     IF what = "tag" THEN ParseTag(reads, given, text)
     ELSE ParseList(reads, ParseTag(reads, given, text))]

TagFits(p, n) == p.ok => p.rest \in Words /\ Len(p.rest) < n

ListFits(p, n) == p.ok => p.rest \in Words /\ Len(p.rest) < n /\ Starts(p.rest, ">")

Fits(b, n) == TagFits(b["tag"], n) /\ ListFits(b["list"], n)

\* f and h are the same, and leave less of a text than there was, for texts of length below n.
Near(f, h, n) == \A t \in Words : Len(t) < n => f[t] = h[t] /\ Fits(f[t], Len(t))

\* A set that holds every number whose predecessors it holds is all of Nat.
LEMMA StrongInduction ==
  ASSUME NEW T, \A n \in Nat : (\A m \in 0..n-1 : m \in T) => n \in T
  PROVE  Nat \subseteq T
<1> SUFFICES ASSUME ~ (Nat \subseteq T) PROVE FALSE
  OBVIOUS
<1>1. PICK n \in Nat \ T : \A m \in Nat \ T : n <= m
  BY Least
<1>2. \A m \in 0..n-1 : m \in T
  BY <1>1
<1> QED BY <1>1, <1>2

LEMMA TailShorter ==
  ASSUME NEW t \in Words, t # << >>
  PROVE  /\ Tail(t) \in Words /\ Len(Tail(t)) = Len(t) - 1 /\ Len(t) \in Nat /\ Len(t) > 0
         /\ Head(t) \in STRING
BY DEF Words

LEMMA SubSeqShorter ==
  ASSUME NEW t \in Words, NEW k \in Nat \ {0}
  PROVE  SubSeq(t, k, Len(t)) \in Words /\ Len(SubSeq(t, k, Len(t))) <= Len(t)
BY DEF Words

LEMMA Outcomes ==
  /\ ~Invalid.ok
  /\ \A g, r : Parsed(g, r).ok /\ Parsed(g, r).tag = g /\ Parsed(g, r).rest = r
  /\ \A g, r : ParsedList(g, r).ok /\ ParsedList(g, r).tags = g /\ ParsedList(g, r).rest = r
BY DEF Invalid, Parsed, ParsedList

\* The parser of types, by the first word.
LEMMA TagEquations ==
  ASSUME NEW reads, NEW given, NEW text
  PROVE  LET w == Head(text)  rest == Tail(text)  p == ParseTag(reads, given, text) IN
         /\ text = << >> => p = Invalid
         /\ text # << >> =>
              /\ w \in Primitives => p = Parsed(Prim(w), rest)
              /\ w = "vector" => p = ParseVector(reads, rest)
              /\ w = "string" => p = Parsed(BareString, rest)
              /\ w \in Addresses => p = ParseStruct(reads, w, rest)
              /\ Kind(w) = "GENERIC" =>
                   p = IF GenericIndex[w] \notin 0..(Len(given) - 1) THEN Invalid
                       ELSE IF given[GenericIndex[w] + 1].ok
                            THEN Parsed(given[GenericIndex[w] + 1].tag, rest) ELSE Invalid
              /\ \/ w \in Primitives \/ w = "vector" \/ w = "string" \/ w \in Addresses
                 \/ Kind(w) = "GENERIC" \/ p = Invalid
<1> DEFINE w == Head(text)
<1> DEFINE rest == Tail(text)
<1> DEFINE generic == IF GenericIndex[w] \notin 0..(Len(given) - 1) THEN Invalid
                      ELSE IF given[GenericIndex[w] + 1].ok
                           THEN Parsed(given[GenericIndex[w] + 1].tag, rest) ELSE Invalid
<1>1. Kind(w) = "GENERIC" => w \notin Primitives \cup Addresses \cup {"vector", "string"}
  BY GenericAssumption DEF Kind
<1>2. {"vector", "string"} \cap (Primitives \cup Addresses) = {} /\ Primitives \cap Addresses = {}
  BY DEF Primitives, Addresses
<1> DEFINE isGeneric == Kind(w) = "GENERIC"
<1> DEFINE prims == Primitives
<1> DEFINE addresses == Addresses
<1> DEFINE vector == ParseVector(reads, rest)
<1> DEFINE struct == ParseStruct(reads, w, rest)
<1>3. ParseTag(reads, given, text) =
        IF text = << >> THEN Invalid
        ELSE CASE w \in prims -> Parsed(Prim(w), rest)
               [] w = "vector" -> vector
               [] w = "string" -> Parsed(BareString, rest)
               [] w \in addresses -> struct
               [] isGeneric -> generic
               [] OTHER -> Invalid
  BY DEF ParseTag
<1>4. /\ isGeneric => w \notin prims \cup addresses \cup {"vector", "string"}
      /\ {"vector", "string"} \cap (prims \cup addresses) = {} /\ prims \cap addresses = {}
  BY <1>1, <1>2
<1> HIDE DEF generic, w, rest, isGeneric, prims, addresses, vector, struct
<1>5. /\ text = << >> => ParseTag(reads, given, text) = Invalid
      /\ text # << >> =>
           /\ w \in prims => ParseTag(reads, given, text) = Parsed(Prim(w), rest)
           /\ w = "vector" => ParseTag(reads, given, text) = vector
           /\ w = "string" => ParseTag(reads, given, text) = Parsed(BareString, rest)
           /\ w \in addresses => ParseTag(reads, given, text) = struct
           /\ isGeneric => ParseTag(reads, given, text) = generic
           /\ \/ w \in prims \/ w = "vector" \/ w = "string" \/ w \in addresses
              \/ isGeneric \/ ParseTag(reads, given, text) = Invalid
  BY <1>3, <1>4
<1> QED BY <1>5 DEF generic, w, rest, isGeneric, prims, addresses, vector, struct

LEMMA ListLocal ==
  ASSUME NEW f, NEW h, NEW n \in Nat, Near(f, h, n), NEW one, TagFits(one, n)
  PROVE  ParseList(f, one) = ParseList(h, one) /\ ListFits(ParseList(f, one), n)
<1> DEFINE next == Consume(one.rest, ",")
<1> DEFINE more(reads) == reads[next.rest]["list"]
<1>1. CASE ~one.ok
  BY <1>1, Outcomes DEF ParseList, ListFits
<1>2. CASE one.ok /\ Starts(one.rest, ">")
  <2>1. ParseList(f, one) = ParsedList(<<one.tag>>, one.rest)
        /\ ParseList(h, one) = ParsedList(<<one.tag>>, one.rest)
    BY <1>2 DEF ParseList
  <2> QED BY <1>2, <2>1, Outcomes DEF ListFits, TagFits
<1>3. CASE one.ok /\ ~Starts(one.rest, ">") /\ (~next.ok \/ next.rest = << >>)
  <2>1. ParseList(f, one) = Invalid /\ ParseList(h, one) = Invalid
    BY <1>3 DEF ParseList
  <2> QED BY <2>1, Outcomes DEF ListFits
<1>4. CASE one.ok /\ ~Starts(one.rest, ">") /\ next.ok /\ next.rest # << >>
  <2>1. one.rest # << >> /\ next.rest = Tail(one.rest)
    BY <1>4, Outcomes DEF Consume, Starts
  <2>2. next.rest \in Words /\ Len(next.rest) < n /\ Len(next.rest) \in Nat
    <3>1. one.rest \in Words /\ Len(one.rest) < n
      BY <1>4 DEF TagFits
    <3>2. next.rest \in Words /\ Len(next.rest) = Len(one.rest) - 1 /\ Len(one.rest) \in Nat
          /\ Len(one.rest) > 0
      BY <2>1, <3>1, TailShorter
    <3> HIDE DEF next
    <3> QED BY <3>1, <3>2
  <2>3. f[next.rest] = h[next.rest] /\ Fits(f[next.rest], Len(next.rest))
    BY <2>2 DEF Near
  <2> HIDE DEF next
  <2>4. CASE Starts(next.rest, ">")
    <3>1. ParseList(f, one) = ParsedList(<<one.tag>>, next.rest)
          /\ ParseList(h, one) = ParsedList(<<one.tag>>, next.rest)
      BY <1>4, <2>4 DEF ParseList, next
    <3> QED BY <2>2, <2>4, <3>1, Outcomes DEF ListFits
  <2>5. CASE ~Starts(next.rest, ">")
    <3>1. /\ ParseList(f, one) = IF more(f).ok THEN ParsedList(<<one.tag>> \o more(f).tags, more(f).rest)
                                 ELSE Invalid
          /\ ParseList(h, one) = IF more(h).ok THEN ParsedList(<<one.tag>> \o more(h).tags, more(h).rest)
                                 ELSE Invalid
      BY <1>4, <2>5 DEF ParseList, next
    <3>2. more(f) = more(h) /\ ListFits(more(f), Len(next.rest))
      BY <2>3 DEF Fits
    <3> DEFINE m == more(f)
    <3>3. ParseList(h, one) = ParseList(f, one)
          /\ ParseList(f, one) = IF m.ok THEN ParsedList(<<one.tag>> \o m.tags, m.rest) ELSE Invalid
      BY <3>1, <3>2
    <3>4. ListFits(m, Len(next.rest))
      BY <3>2
    <3> HIDE DEF m
    <3>5. m.ok => m.rest \in Words /\ Len(m.rest) \in Nat /\ Len(m.rest) < Len(next.rest)
                  /\ Starts(m.rest, ">")
      BY <3>4 DEF ListFits, Words
    <3>6. m.ok => Len(m.rest) < n
      BY <3>5, <2>2
    <3> QED BY <3>3, <3>5, <3>6, Outcomes DEF ListFits
  <2> QED BY <2>4, <2>5
<1> QED BY <1>1, <1>2, <1>3, <1>4

LEMMA ArgumentsLocal ==
  ASSUME NEW f, NEW h, NEW n \in Nat, Near(f, h, n), NEW text \in Words, Len(text) <= n
  PROVE  /\ StructArguments(f, text) = StructArguments(h, text)
         /\ StructArguments(f, text).ok => /\ StructArguments(f, text).rest \in Words
                                          /\ Len(StructArguments(f, text).rest) <= Len(text)
<1> DEFINE A == StructArguments(f, text)
<1> DEFINE B == StructArguments(h, text)
<1>1. CASE ~Starts(text, "<")
  <2>1. A = ParsedList(<< >>, text) /\ B = ParsedList(<< >>, text)
    BY <1>1 DEF StructArguments
  <2>2. Len(text) <= Len(text)
    BY DEF Words
  <2> QED BY <2>1, <2>2, Outcomes
<1>2. CASE Starts(text, "<")
  <2>1. /\ Tail(text) \in Words /\ Len(Tail(text)) = Len(text) - 1 /\ Len(text) \in Nat
        /\ Len(text) > 0
    BY <1>2, TailShorter DEF Starts
  <2> DEFINE t == Tail(text)
  <2> HIDE DEF t
  <2>2. t \in Words /\ Len(t) < n /\ Len(t) < Len(text) /\ Len(t) \in Nat
    BY <2>1 DEF t
  <2>3. CASE Starts(t, ">")
    <3>1. A = ParsedList(<< >>, Tail(t)) /\ B = ParsedList(<< >>, Tail(t))
      BY <1>2, <2>3 DEF StructArguments, t
    <3>2. Tail(t) \in Words /\ Len(Tail(t)) = Len(t) - 1 /\ Len(t) > 0
      BY <2>2, <2>3, TailShorter DEF Starts
    <3>3. Len(Tail(t)) <= Len(text)
      BY <2>1, <2>2, <3>2
    <3> HIDE DEF A, B
    <3>4. A.rest = Tail(t)
      BY <3>1, Outcomes
    <3>5. A = B
      BY <3>1
    <3>6. A.rest \in Words /\ Len(A.rest) <= Len(text)
      BY <3>2, <3>3, <3>4
    <3> QED BY <3>5, <3>6 DEF A, B
  <2>4. CASE ~Starts(t, ">")
    <3> DEFINE l == f[t]["list"]
    <3>1. f[t] = h[t] /\ ListFits(l, Len(t))
      BY <2>2 DEF Near, Fits
    <3>2. /\ A = IF l.ok THEN ParsedList(l.tags, Tail(l.rest)) ELSE Invalid
          /\ B = IF h[t]["list"].ok THEN ParsedList(h[t]["list"].tags, Tail(h[t]["list"].rest)) ELSE Invalid
      BY <1>2, <2>4 DEF StructArguments, t
    <3>3. B = IF l.ok THEN ParsedList(l.tags, Tail(l.rest)) ELSE Invalid
      BY <3>1, <3>2
    <3> HIDE DEF l
    <3>4. l.ok => l.rest \in Words /\ Len(l.rest) < Len(t) /\ l.rest # << >>
      BY <3>1 DEF ListFits, Starts
    <3>5. l.ok => Tail(l.rest) \in Words /\ Len(Tail(l.rest)) = Len(l.rest) - 1 /\ Len(l.rest) \in Nat
      BY <3>4, TailShorter
    <3>6. l.ok => Len(Tail(l.rest)) <= Len(text)
      BY <2>1, <2>2, <3>4, <3>5
    <3>7. A = IF l.ok THEN ParsedList(l.tags, Tail(l.rest)) ELSE Invalid
      BY <3>2 DEF l
    <3> HIDE DEF A, B
    <3>8. A = B
      BY <3>3, <3>7
    <3>9. A.ok => A.rest \in Words /\ Len(A.rest) <= Len(text)
      <4>1. CASE l.ok
        BY <4>1, <3>5, <3>6, <3>7, Outcomes
      <4>2. CASE ~l.ok
        BY <4>2, <3>7, Outcomes
      <4> QED BY <4>1, <4>2
    <3> QED BY <3>8, <3>9 DEF A, B
  <2> QED BY <2>3, <2>4
<1> QED BY <1>1, <1>2

LEMMA VectorLocal ==
  ASSUME NEW f, NEW h, NEW n \in Nat, Near(f, h, n), NEW text \in Words, Len(text) <= n
  PROVE  /\ ParseVector(f, text) = ParseVector(h, text)
         /\ TagFits(ParseVector(f, text), Len(text))
<1> DEFINE A == ParseVector(f, text)
<1> DEFINE B == ParseVector(h, text)
<1>1. CASE ~Starts(text, "<")
  <2>1. A = Invalid /\ B = Invalid
    BY <1>1, Outcomes DEF ParseVector
  <2> QED BY <2>1, Outcomes DEF TagFits
<1>2. CASE Starts(text, "<")
  <2>1. /\ Tail(text) \in Words /\ Len(Tail(text)) = Len(text) - 1 /\ Len(text) \in Nat
        /\ Len(text) > 0
    BY <1>2, TailShorter DEF Starts
  <2> DEFINE t == Tail(text)
  <2> HIDE DEF t
  <2>2. t \in Words /\ Len(t) < n /\ Len(t) < Len(text) /\ Len(t) \in Nat
    BY <2>1 DEF t
  <2> DEFINE of == f[t]["tag"]
  <2> DEFINE end == Consume(of.rest, ">")
  <2>3. f[t] = h[t] /\ TagFits(of, Len(t))
    BY <2>2 DEF Near, Fits
  <2>4. A = B /\ A = IF of.ok /\ end.ok THEN Parsed(Vector(of.tag), end.rest) ELSE Invalid
    BY <1>2, <2>3 DEF ParseVector, t
  <2> HIDE DEF of
  <2>5. of.ok /\ end.ok => /\ of.rest \in Words /\ Len(of.rest) < Len(t)
                           /\ end.rest = Tail(of.rest) /\ of.rest # << >>
    BY <2>3, Outcomes DEF TagFits, Consume, Starts
  <2> HIDE DEF end
  <2>6. of.ok /\ end.ok => /\ end.rest \in Words /\ Len(end.rest) = Len(of.rest) - 1
                           /\ Len(of.rest) \in Nat
    BY <2>5, TailShorter
  <2>7. of.ok /\ end.ok => Len(end.rest) < Len(text)
    BY <2>1, <2>2, <2>5, <2>6
  <2> QED BY <2>4, <2>6, <2>7, Outcomes DEF TagFits
<1> QED BY <1>1, <1>2

LEMMA StructLocal ==
  ASSUME NEW f, NEW h, NEW n \in Nat, Near(f, h, n), NEW text \in Words, Len(text) <= n, NEW w
  PROVE  /\ ParseStruct(f, w, text) = ParseStruct(h, w, text)
         /\ ParseStruct(f, w, text).ok => /\ ParseStruct(f, w, text).rest \in Words
                                         /\ Len(ParseStruct(f, w, text).rest) <= Len(text)
<1> DEFINE name == StructName(text)
<1> DEFINE t == SkipObjectArgument(name.tag[1], name.tag[2], name.rest)
<1> DEFINE A == StructArguments(f, t)
<1> DEFINE B == StructArguments(h, t)
<1> DEFINE made(a) == [Struct(name.tag[1], name.tag[2], a.tags) EXCEPT !.address = w]
<1>1. /\ ParseStruct(f, w, text) = IF name.ok /\ A.ok THEN Parsed(made(A), A.rest) ELSE Invalid
      /\ ParseStruct(h, w, text) = IF name.ok /\ B.ok THEN Parsed(made(B), B.rest) ELSE Invalid
  BY DEF ParseStruct
<1>2. CASE ~name.ok
  <2> HIDE DEF name, A, B, made
  <2> QED BY <1>1, <1>2, Outcomes
<1>3. CASE name.ok
  <2>1. name.rest = SubSeq(text, 5, Len(text))
    <3> DEFINE right == /\ Len(text) >= 4 /\ text[1] = "::" /\ Kind(text[2]) = "IDENT"
                        /\ text[3] = "::" /\ Kind(text[4]) = "IDENT"
    <3> DEFINE reads == Parsed(<<text[2], text[4]>>, SubSeq(text, 5, Len(text)))
    <3>1. name = IF right THEN reads ELSE Invalid
      BY DEF StructName
    <3> HIDE DEF right, name
    <3>2. name = reads
      <4> HIDE DEF reads
      <4> QED BY <1>3, <3>1, Outcomes
    <3> QED BY <3>2, Outcomes
  <2>2. name.rest \in Words /\ Len(name.rest) <= Len(text)
    <3>1. 5 \in Nat \ {0}
      OBVIOUS
    <3>2. SubSeq(text, 5, Len(text)) \in Words /\ Len(SubSeq(text, 5, Len(text))) <= Len(text)
      BY <3>1, SubSeqShorter
    <3> HIDE DEF name
    <3> QED BY <2>1, <3>2
  <2>3. t = name.rest \/ t = SubSeq(name.rest, 4, Len(name.rest))
    BY DEF SkipObjectArgument
  <2>4. t \in Words /\ Len(t) <= Len(name.rest)
    <3>1. Len(name.rest) <= Len(name.rest)
      BY <2>2 DEF Words
    <3> DEFINE r == name.rest
    <3>2. r \in Words /\ Len(r) <= Len(r) /\ (t = r \/ t = SubSeq(r, 4, Len(r)))
      BY <2>2, <2>3, <3>1
    <3> HIDE DEF name, t, r
    <3>3. 4 \in Nat \ {0}
      OBVIOUS
    <3>4. SubSeq(r, 4, Len(r)) \in Words /\ Len(SubSeq(r, 4, Len(r))) <= Len(r)
      BY <3>2, <3>3, SubSeqShorter
    <3>5. t \in Words /\ Len(t) <= Len(r)
      <4>1. CASE t = r
        BY <4>1, <3>2
      <4>2. CASE t = SubSeq(r, 4, Len(r))
        BY <4>2, <3>4
      <4> QED BY <3>2, <4>1, <4>2
    <3> QED BY <3>5 DEF r
  <2> HIDE DEF t, name
  <2>5. Len(t) <= n /\ Len(t) <= Len(text)
    <3>1. Len(t) \in Nat /\ Len(name.rest) \in Nat /\ Len(text) \in Nat
      BY <2>2, <2>4 DEF Words
    <3> QED BY <3>1, <2>2, <2>4
  <2>6. A = B /\ (A.ok => A.rest \in Words /\ Len(A.rest) <= Len(t))
    BY <2>4, <2>5, ArgumentsLocal
  <2> HIDE DEF A, B, made
  <2>7. A.ok => Len(A.rest) <= Len(text)
    <3>1. Len(t) \in Nat /\ Len(text) \in Nat /\ (A.ok => Len(A.rest) \in Nat)
      BY <2>4, <2>6 DEF Words
    <3> QED BY <3>1, <2>5, <2>6
  <2> QED BY <1>1, <2>6, <2>7, Outcomes
<1> QED BY <1>2, <1>3

\* The parser looks only at shorter texts, and leaves less than there was.
LEMMA BodyLocal ==
  ASSUME NEW f, NEW h, NEW given, NEW text \in Words, Near(f, h, Len(text))
  PROVE  Body(f, given, text) = Body(h, given, text) /\ Fits(Body(f, given, text), Len(text))
<1> DEFINE p == ParseTag(f, given, text)
<1> DEFINE q == ParseTag(h, given, text)
<1>0. Len(text) \in Nat
  BY DEF Words
<1>1. p = q /\ TagFits(p, Len(text))
  <2>1. CASE text = << >>
    <3>1. p = Invalid /\ q = Invalid
      BY <2>1, TagEquations
    <3> QED BY <3>1, Outcomes DEF TagFits
  <2>2. CASE text # << >>
    <3> DEFINE w == Head(text)
    <3> DEFINE rest == Tail(text)
    <3>1. rest \in Words /\ Len(rest) < Len(text) /\ Len(rest) <= Len(text)
      BY <2>2, TailShorter
    <3>2. CASE w \in Primitives \/ w = "string"
      <4>1. p = q /\ \E g : p = Parsed(g, rest)
        BY <2>2, <3>2, TagEquations
      <4> HIDE DEF rest, p, q
      <4>2. PICK g : p = Parsed(g, rest)
        BY <4>1
      <4>3. p.rest = rest
        BY <4>2, Outcomes
      <4> QED BY <3>1, <4>1, <4>3 DEF TagFits
    <3>3. CASE w = "vector"
      <4>1. p = ParseVector(f, rest) /\ q = ParseVector(h, rest)
        BY <2>2, <3>3, TagEquations
      <4> HIDE DEF rest, p, q
      <4>2. p = q /\ TagFits(p, Len(rest))
        BY <1>0, <3>1, <4>1, VectorLocal
      <4>3. p.ok => p.rest \in Words /\ Len(p.rest) < Len(rest) /\ Len(p.rest) \in Nat
                    /\ Len(rest) \in Nat
        BY <3>1, <4>2 DEF TagFits, Words
      <4>4. p.ok => Len(p.rest) < Len(text)
        BY <1>0, <3>1, <4>3
      <4> QED BY <4>2, <4>3, <4>4 DEF TagFits
    <3>4. CASE w \in Addresses
      <4>1. p = ParseStruct(f, w, rest) /\ q = ParseStruct(h, w, rest)
        BY <2>2, <3>4, TagEquations
      <4> HIDE DEF rest, p, q
      <4>2. p = q /\ (p.ok => p.rest \in Words /\ Len(p.rest) <= Len(rest))
        BY <1>0, <3>1, <4>1, StructLocal
      <4>3. p.ok => Len(p.rest) \in Nat /\ Len(rest) \in Nat
        BY <3>1, <4>2 DEF Words
      <4>4. p.ok => Len(p.rest) < Len(text)
        BY <1>0, <3>1, <4>2, <4>3
      <4> QED BY <4>2, <4>4 DEF TagFits
    <3>5. CASE Kind(w) = "GENERIC"
      <4>1. p = q /\ (p = Invalid \/ \E g : p = Parsed(g, rest))
        BY <2>2, <3>5, TagEquations
      <4> HIDE DEF rest, p, q
      <4>2. p.ok => p.rest = rest
        BY <4>1, Outcomes
      <4> QED BY <3>1, <4>1, <4>2 DEF TagFits
    <3>6. CASE ~(w \in Primitives \/ w = "vector" \/ w = "string" \/ w \in Addresses
                 \/ Kind(w) = "GENERIC")
      <4>1. p = Invalid /\ q = Invalid
        BY <2>2, <3>6, TagEquations
      <4> QED BY <4>1, Outcomes DEF TagFits
    <3> QED BY <3>2, <3>3, <3>4, <3>5, <3>6
  <2> QED BY <2>1, <2>2
<1>2. ParseList(f, p) = ParseList(h, p) /\ ListFits(ParseList(f, p), Len(text))
  <2> HIDE DEF p
  <2> QED BY <1>0, <1>1, ListLocal
<1> HIDE DEF p, q
<1>3. ParseList(f, p) = ParseList(h, q)
  BY <1>1, <1>2
<1>4. Body(f, given, text) = Body(h, given, text)
  BY <1>1, <1>3 DEF Body, p, q
<1>5. Body(f, given, text)["tag"] = p /\ Body(f, given, text)["list"] = ParseList(f, p)
  BY DEF Body, p
<1> QED BY <1>1, <1>2, <1>4, <1>5 DEF Fits

Upto(n) == {t \in Words : Len(t) < n}

\* The parser, for the texts shorter than n.
IsLevel(given, n, f) ==
  /\ DOMAIN f = Upto(n)
  /\ \A t \in Upto(n) : f[t] = Body(f, given, t)

LEMMA LevelFits ==
  ASSUME NEW given, NEW n \in Nat, NEW f, IsLevel(given, n, f),
         NEW h, NEW m \in Nat, IsLevel(given, m, h) \/ h = f, NEW k \in Nat, k <= n,
         h = f \/ k <= m
  PROVE  \A t \in Upto(k) : f[t] = h[t] /\ Fits(f[t], Len(t))
<1> DEFINE S == {j \in Nat : \A t \in Words : Len(t) = j /\ j < k => f[t] = h[t] /\ Fits(f[t], Len(t))}
<1>1. ASSUME NEW j \in Nat, \A i \in 0..j-1 : i \in S
      PROVE  j \in S
  <2> SUFFICES ASSUME NEW t \in Words, Len(t) = j, j < k
               PROVE  f[t] = h[t] /\ Fits(f[t], Len(t))
    OBVIOUS
  <2>1. Near(f, h, Len(t))
    <3> SUFFICES ASSUME NEW u \in Words, Len(u) < Len(t)
                 PROVE  f[u] = h[u] /\ Fits(f[u], Len(u))
      BY DEF Near
    <3>1. Len(u) \in Nat
      BY DEF Words
    <3>2. Len(u) \in 0..j-1 /\ Len(u) < k
      BY <3>1
    <3>3. Len(u) \in S
      BY <1>1, <3>2
    <3> QED BY <3>2, <3>3
  <2>2. t \in Upto(n) /\ (h = f \/ t \in Upto(m))
    BY DEF Upto
  <2>3. f[t] = Body(f, given, t)
    BY <2>2 DEF IsLevel
  <2>4. h[t] = Body(h, given, t)
    <3>1. CASE h = f
      BY <2>3, <3>1
    <3>2. CASE h # f
      BY <2>2, <3>2 DEF IsLevel
    <3> QED BY <3>1, <3>2
  <2>5. Body(f, given, t) = Body(h, given, t) /\ Fits(Body(f, given, t), Len(t))
    BY <2>1, BodyLocal
  <2> QED BY <2>3, <2>4, <2>5
<1>2. Nat \subseteq S
  <2> HIDE DEF S
  <2>1. \A i \in Nat : (\A j \in 0..i-1 : j \in S) => i \in S
    BY <1>1
  <2> QED BY <2>1, StrongInduction
<1> SUFFICES ASSUME NEW t \in Upto(k)
             PROVE  f[t] = h[t] /\ Fits(f[t], Len(t))
  OBVIOUS
<1>3. t \in Words /\ Len(t) < k /\ Len(t) \in Nat
  BY DEF Upto, Words
<1>4. Len(t) \in S
  BY <1>2, <1>3
<1> QED BY <1>3, <1>4

LEMMA LevelsExist == \A given : \A n \in Nat : \E f : IsLevel(given, n, f)
<1> SUFFICES ASSUME NEW given
             PROVE  \A n \in Nat : \E f : IsLevel(given, n, f)
  OBVIOUS
<1> DEFINE S == {n \in Nat : \E f : IsLevel(given, n, f)}
<1>1. ASSUME NEW n \in Nat, \A m \in 0..n-1 : m \in S
      PROVE  n \in S
  <2>1. CASE n = 0
    <3>1. Upto(0) = {}
      BY DEF Upto, Words
    <3>2. IsLevel(given, 0, [t \in Upto(0) |-> t])
      BY <3>1 DEF IsLevel
    <3> QED BY <2>1, <3>2
  <2>2. CASE n # 0
    <3>1. n - 1 \in Nat /\ n - 1 \in 0..n-1
      BY <2>2
    <3>2. n - 1 \in S
      BY <1>1, <3>1
    <3> DEFINE m == n - 1
    <3>3. PICK f : IsLevel(given, m, f)
      BY <3>2
    <3> DEFINE h == [t \in Upto(n) |-> Body(f, given, t)]
    <3>4. m \in Nat /\ m < n /\ m + 1 = n
      BY <3>1
    <3> HIDE DEF m
    <3>5. \A t \in Upto(m) : f[t] = h[t] /\ Fits(f[t], Len(t))
      <4>1. m <= m
        BY <3>4
      <4>2. \A t \in Upto(m) : f[t] = f[t] /\ Fits(f[t], Len(t))
        BY <3>3, <3>4, <4>1, LevelFits
      <4>3. \A t \in Upto(m) : t \in Upto(n) /\ f[t] = Body(f, given, t)
        BY <3>3, <3>4 DEF IsLevel, Upto, Words
      <4> QED BY <4>2, <4>3
    <3>6. ASSUME NEW t \in Upto(n)
          PROVE  h[t] = Body(h, given, t)
      <4>1. t \in Words /\ Len(t) \in Nat /\ Len(t) <= m
        BY <3>4 DEF Upto, Words
      <4>2. Near(f, h, Len(t))
        <5> HIDE DEF h
        <5> SUFFICES ASSUME NEW u \in Words, Len(u) < Len(t)
                     PROVE  f[u] = h[u] /\ Fits(f[u], Len(u))
          BY DEF Near
        <5>1. Len(u) \in Nat
          BY DEF Words
        <5>2. u \in Upto(m)
          BY <3>4, <4>1, <5>1 DEF Upto
        <5> QED BY <5>2, <3>5
      <4>3. Body(f, given, t) = Body(h, given, t)
        BY <4>1, <4>2, BodyLocal
      <4> QED BY <4>3
    <3>7. IsLevel(given, n, h)
      BY <3>6 DEF IsLevel
    <3> QED BY <3>7
  <2> QED BY <2>1, <2>2
<1>2. Nat \subseteq S
  <2> HIDE DEF S
  <2>1. \A i \in Nat : (\A j \in 0..i-1 : j \in S) => i \in S
    BY <1>1
  <2> QED BY <2>1, StrongInduction
<1> QED BY <1>2

\* The definition of the parser by recursion is met: what it makes of a text is what
\* its rules make of what it makes of shorter texts.
LEMMA ParserMeets ==
  ASSUME NEW given, NEW text \in Words
  PROVE  LET reads == Parser(given) IN
         /\ reads[text]["tag"] = ParseTag(reads, given, text)
         /\ reads[text]["list"] = ParseList(reads, ParseTag(reads, given, text))
<1> DEFINE F(n) == CHOOSE f : IsLevel(given, n, f)
<1> DEFINE L == [t \in Words |-> F(Len(t) + 1)[t]]
<1>1. \A n \in Nat : IsLevel(given, n, F(n))
  BY LevelsExist
<1>2. ASSUME NEW t \in Words
      PROVE  L[t] = Body(L, given, t)
  <2>1. Len(t) \in Nat /\ Len(t) + 1 \in Nat
    BY DEF Words
  <2> DEFINE n == Len(t) + 1
  <2> DEFINE f == F(n)
  <2>2. IsLevel(given, n, f) /\ t \in Upto(n)
    BY <1>1, <2>1 DEF Upto
  <2>3. L[t] = Body(f, given, t)
    BY <2>2 DEF IsLevel
  <2>4. Near(f, L, Len(t))
    <3> HIDE DEF L, f
    <3> SUFFICES ASSUME NEW u \in Words, Len(u) < Len(t)
                 PROVE  f[u] = L[u] /\ Fits(f[u], Len(u))
      BY DEF Near
    <3>1. Len(u) \in Nat
      BY DEF Words
    <3> DEFINE m == Len(u) + 1
    <3>2. m \in Nat /\ m <= n /\ u \in Upto(m) /\ n \in Nat /\ m <= m
      BY <2>1, <3>1 DEF Upto
    <3> HIDE DEF m, n
    <3>3. \A x \in Upto(m) : f[x] = F(m)[x] /\ Fits(f[x], Len(x))
      <4> DEFINE h == F(m)
      <4>1. IsLevel(given, m, h)
        BY <1>1, <3>2
      <4> HIDE DEF h
      <4>2. \A x \in Upto(m) : f[x] = h[x] /\ Fits(f[x], Len(x))
        BY <4>1, <2>2, <3>2, LevelFits
      <4> QED BY <4>2 DEF h
    <3>4. L[u] = F(m)[u]
      BY DEF L, m
    <3> QED BY <3>2, <3>3, <3>4
  <2>5. Body(f, given, t) = Body(L, given, t)
    <3> HIDE DEF L, f, n
    <3> QED BY <2>4, BodyLocal
  <2> QED BY <2>3, <2>5
<1>3. L = [t \in Words |-> Body(L, given, t)]
  <2> HIDE DEF F
  <2> DEFINE R == [t \in Words |-> Body(L, given, t)]
  <2>1. DOMAIN R = Words /\ DOMAIN L = Words /\ \A t \in Words : R[t] = L[t]
    BY <1>2
  <2> QED BY <2>1
<1> DEFINE P == Parser(given)
<1>4. P = [t \in Words |-> Body(P, given, t)]
  <2> DEFINE Meets(g) == g = [t \in Words |-> Body(g, given, t)]
  <2>1. P = CHOOSE g : Meets(g)
    BY DEF Parser, Body, Words
  <2>2. \E g : Meets(g)
    <3> HIDE DEF L
    <3> QED BY <1>3
  <2>3. Meets(CHOOSE g : Meets(g))
    <3> HIDE DEF Meets
    <3> QED BY <2>2
  <2> HIDE DEF P
  <2> QED BY <2>1, <2>3
<1> HIDE DEF P
<1>5. P[text] = Body(P, given, text)
  <2> DEFINE R == [t \in Words |-> Body(P, given, t)]
  <2>1. R[text] = Body(P, given, text)
    OBVIOUS
  <2> HIDE DEF R
  <2>2. P = R
    BY <1>4 DEF R
  <2> QED BY <2>1, <2>2
<1>6. P[text]["tag"] = ParseTag(P, given, text)
      /\ P[text]["list"] = ParseList(P, ParseTag(P, given, text))
  BY <1>5 DEF Body
<1> QED BY <1>6 DEF P

(***************************************************************************)
(* The recursive functions over the types the node writes                  *)
(***************************************************************************)

NodeArguments(f, g) ==
  IF g.args = << >> THEN << >>
  ELSE <<"<">> \o FlattenSeq([i \in DOMAIN g.args |->
                 (IF i = 1 THEN << >> ELSE <<",">>) \o f[g.args[i]]]) \o <<">">>

NodeOf(f, g) ==
    CASE g.k = "struct" -> <<g.address, "::", g.module, "::", g.name>> \o NodeArguments(f, g)
      [] g.k = "vector" -> <<"vector", "<">> \o f[g.of] \o <<">">>
      [] OTHER -> <<g.k>>

LEMMA NodeLocal ==
  ASSUME NEW f, NEW h, NEW g \in Tag, \A c \in Children(g) : f[c] = h[c]
  PROVE  NodeOf(f, g) = NodeOf(h, g)
<1>1. g.k = "struct" => NodeArguments(f, g) = NodeArguments(h, g)
  BY ZenonT(40) DEF Children, NodeArguments
<1>2. g.k = "vector" => f[g.of] = h[g.of]
  BY DEF Children
<1> QED BY <1>1, <1>2 DEF NodeOf

LEMMA NodeIs == \A g \in Tag : NodeText[g] = NodeOf(NodeText, g)
<1> DEFINE T == {n \in Nat : n \in 0..Depth => \E f : f = [g \in TagLevel[n] |-> NodeOf(f, g)]}
<1>1. ASSUME NEW n \in 0..Depth,
             \E f : \A g \in TagLevel[n] : \A c \in Children(g) : f[c] = NodeOf(f, c)
      PROVE  \E f : f = [g \in TagLevel[n] |-> NodeOf(f, g)]
  <2>1. PICK f : \A g \in TagLevel[n] : \A c \in Children(g) : f[c] = NodeOf(f, c)
    BY <1>1
  <2> DEFINE h == [g \in TagLevel[n] |-> NodeOf(f, g)]
  <2>2. ASSUME NEW g \in TagLevel[n] PROVE h[g] = NodeOf(h, g)
    <3>1. \A c \in Children(g) : c \in TagLevel[n]
      BY TagShape
    <3>2. \A c \in Children(g) : f[c] = h[c]
      BY <3>1, <2>1
    <3>3. g \in Tag
      BY TagsNested
    <3> HIDE DEF h
    <3>4. NodeOf(f, g) = NodeOf(h, g)
      BY <3>2, <3>3, NodeLocal
    <3> QED BY <3>4 DEF h
  <2>3. h = [g \in TagLevel[n] |-> NodeOf(h, g)]
    BY <2>2, Zenon
  <2> HIDE DEF h
  <2> QED BY <2>3
<1>2. 0 \in T
  <2>1. \A g \in TagLevel[0] : Children(g) = {}
    BY TagShape, DepthAssumption
  <2> QED BY <2>1, <1>1
<1>3. ASSUME NEW n \in Nat, n \in T PROVE n + 1 \in T
  <2> SUFFICES ASSUME n + 1 \in 0..Depth
               PROVE  \E f : f = [g \in TagLevel[n + 1] |-> NodeOf(f, g)]
    OBVIOUS
  <2>1. n \in 0..Depth
    BY DepthAssumption
  <2>2. PICK f : f = [g \in TagLevel[n] |-> NodeOf(f, g)]
    BY <2>1, <1>3
  <2>3. ASSUME NEW g \in TagLevel[n + 1], NEW c \in Children(g) PROVE c \in TagLevel[n]
    <3>1. c \in TagLevel[(n + 1) - 1]
      BY TagShape
    <3>2. (n + 1) - 1 = n
      OBVIOUS
    <3> QED BY <3>1, <3>2
  <2>4. \A c \in TagLevel[n] : f[c] = NodeOf(f, c)
    BY <2>2
  <2> QED BY <2>3, <2>4, <1>1
<1>4. Depth \in T
  <2> HIDE DEF T
  <2> QED BY <1>2, <1>3, Induction, DepthAssumption
<1>5. \E f : f = [g \in Tag |-> NodeOf(f, g)]
  BY <1>4, DepthAssumption DEF Tag
<1>6. NodeText = [g \in Tag |-> NodeOf(NodeText, g)]
  BY <1>5 DEF NodeText, NodeOf, NodeArguments
<1> QED BY <1>6, Zenon

ErasedStruct(f, g) ==
  [g EXCEPT !.args = IF NamedObject(g) THEN << >> ELSE [i \in DOMAIN g.args |-> f[g.args[i]]]]

ErasedOf(f, g) ==
    CASE g.k = "vector" -> Vector(f[g.of])
      [] g.k = "struct" -> ErasedStruct(f, g)
      [] OTHER -> g

LEMMA ErasedLocal ==
  ASSUME NEW f, NEW h, NEW g \in Tag, \A c \in Children(g) : f[c] = h[c]
  PROVE  ErasedOf(f, g) = ErasedOf(h, g)
<1>1. g.k = "struct" => ErasedStruct(f, g) = ErasedStruct(h, g)
  BY DEF Children, ErasedStruct
<1>2. g.k = "vector" => f[g.of] = h[g.of]
  BY DEF Children
<1> QED BY <1>1, <1>2 DEF ErasedOf

LEMMA ErasedIs == \A g \in Tag : Erased[g] = ErasedOf(Erased, g)
<1> DEFINE T == {n \in Nat : n \in 0..Depth => \E f : f = [g \in TagLevel[n] |-> ErasedOf(f, g)]}
<1>1. ASSUME NEW n \in 0..Depth,
             \E f : \A g \in TagLevel[n] : \A c \in Children(g) : f[c] = ErasedOf(f, c)
      PROVE  \E f : f = [g \in TagLevel[n] |-> ErasedOf(f, g)]
  <2>1. PICK f : \A g \in TagLevel[n] : \A c \in Children(g) : f[c] = ErasedOf(f, c)
    BY <1>1
  <2> DEFINE h == [g \in TagLevel[n] |-> ErasedOf(f, g)]
  <2>2. ASSUME NEW g \in TagLevel[n] PROVE h[g] = ErasedOf(h, g)
    <3>1. \A c \in Children(g) : c \in TagLevel[n]
      BY TagShape
    <3>2. \A c \in Children(g) : f[c] = h[c]
      BY <3>1, <2>1
    <3>3. g \in Tag
      BY TagsNested
    <3> HIDE DEF h
    <3>4. ErasedOf(f, g) = ErasedOf(h, g)
      BY <3>2, <3>3, ErasedLocal
    <3> QED BY <3>4 DEF h
  <2>3. h = [g \in TagLevel[n] |-> ErasedOf(h, g)]
    BY <2>2, Zenon
  <2> HIDE DEF h
  <2> QED BY <2>3
<1>2. 0 \in T
  <2>1. \A g \in TagLevel[0] : Children(g) = {}
    BY TagShape, DepthAssumption
  <2> QED BY <2>1, <1>1
<1>3. ASSUME NEW n \in Nat, n \in T PROVE n + 1 \in T
  <2> SUFFICES ASSUME n + 1 \in 0..Depth
               PROVE  \E f : f = [g \in TagLevel[n + 1] |-> ErasedOf(f, g)]
    OBVIOUS
  <2>1. n \in 0..Depth
    BY DepthAssumption
  <2>2. PICK f : f = [g \in TagLevel[n] |-> ErasedOf(f, g)]
    BY <2>1, <1>3
  <2>3. ASSUME NEW g \in TagLevel[n + 1], NEW c \in Children(g) PROVE c \in TagLevel[n]
    <3>1. c \in TagLevel[(n + 1) - 1]
      BY TagShape
    <3>2. (n + 1) - 1 = n
      OBVIOUS
    <3> QED BY <3>1, <3>2
  <2>4. \A c \in TagLevel[n] : f[c] = ErasedOf(f, c)
    BY <2>2
  <2> QED BY <2>3, <2>4, <1>1
<1>4. Depth \in T
  <2> HIDE DEF T
  <2> QED BY <1>2, <1>3, Induction, DepthAssumption
<1>5. \E f : f = [g \in Tag |-> ErasedOf(f, g)]
  BY <1>4, DepthAssumption DEF Tag
<1>6. Erased = [g \in Tag |-> ErasedOf(Erased, g)]
  BY <1>5 DEF Erased, ErasedOf, ErasedStruct
<1> QED BY <1>6, Zenon

OnChainStruct(f, g) == /\ {g.module, g.name} \cap Punctuation = {}
                       /\ NamedObject(g) => Len(g.args) = 1
                       /\ \A i \in DOMAIN g.args : f[g.args[i]]

OnChainOf(f, g) ==
    CASE g.k = "vector" -> f[g.of]
      [] g.k = "struct" -> OnChainStruct(f, g)
      [] OTHER -> g.k \in Primitives \cup {"signer"}

LEMMA OnChainLocal ==
  ASSUME NEW f, NEW h, NEW g \in Tag, \A c \in Children(g) : f[c] = h[c]
  PROVE  OnChainOf(f, g) = OnChainOf(h, g)
<1>1. g.k = "struct" => OnChainStruct(f, g) = OnChainStruct(h, g)
  BY DEF Children, OnChainStruct
<1>2. g.k = "vector" => f[g.of] = h[g.of]
  BY DEF Children
<1> QED BY <1>1, <1>2 DEF OnChainOf

LEMMA OnChainIs == \A g \in Tag : OnChain[g] = OnChainOf(OnChain, g)
<1> DEFINE T == {n \in Nat : n \in 0..Depth => \E f : f = [g \in TagLevel[n] |-> OnChainOf(f, g)]}
<1>1. ASSUME NEW n \in 0..Depth,
             \E f : \A g \in TagLevel[n] : \A c \in Children(g) : f[c] = OnChainOf(f, c)
      PROVE  \E f : f = [g \in TagLevel[n] |-> OnChainOf(f, g)]
  <2>1. PICK f : \A g \in TagLevel[n] : \A c \in Children(g) : f[c] = OnChainOf(f, c)
    BY <1>1
  <2> DEFINE h == [g \in TagLevel[n] |-> OnChainOf(f, g)]
  <2>2. ASSUME NEW g \in TagLevel[n] PROVE h[g] = OnChainOf(h, g)
    <3>1. \A c \in Children(g) : c \in TagLevel[n]
      BY TagShape
    <3>2. \A c \in Children(g) : f[c] = h[c]
      BY <3>1, <2>1
    <3>3. g \in Tag
      BY TagsNested
    <3> HIDE DEF h
    <3>4. OnChainOf(f, g) = OnChainOf(h, g)
      BY <3>2, <3>3, OnChainLocal
    <3> QED BY <3>4 DEF h
  <2>3. h = [g \in TagLevel[n] |-> OnChainOf(h, g)]
    BY <2>2, Zenon
  <2> HIDE DEF h
  <2> QED BY <2>3
<1>2. 0 \in T
  <2>1. \A g \in TagLevel[0] : Children(g) = {}
    BY TagShape, DepthAssumption
  <2> QED BY <2>1, <1>1
<1>3. ASSUME NEW n \in Nat, n \in T PROVE n + 1 \in T
  <2> SUFFICES ASSUME n + 1 \in 0..Depth
               PROVE  \E f : f = [g \in TagLevel[n + 1] |-> OnChainOf(f, g)]
    OBVIOUS
  <2>1. n \in 0..Depth
    BY DepthAssumption
  <2>2. PICK f : f = [g \in TagLevel[n] |-> OnChainOf(f, g)]
    BY <2>1, <1>3
  <2>3. ASSUME NEW g \in TagLevel[n + 1], NEW c \in Children(g) PROVE c \in TagLevel[n]
    <3>1. c \in TagLevel[(n + 1) - 1]
      BY TagShape
    <3>2. (n + 1) - 1 = n
      OBVIOUS
    <3> QED BY <3>1, <3>2
  <2>4. \A c \in TagLevel[n] : f[c] = OnChainOf(f, c)
    BY <2>2
  <2> QED BY <2>3, <2>4, <1>1
<1>4. Depth \in T
  <2> HIDE DEF T
  <2> QED BY <1>2, <1>3, Induction, DepthAssumption
<1>5. \E f : f = [g \in Tag |-> OnChainOf(f, g)]
  BY <1>4, DepthAssumption DEF Tag
<1>6. OnChain = [g \in Tag |-> OnChainOf(OnChain, g)]
  BY <1>5 DEF OnChain, OnChainOf, OnChainStruct
<1> QED BY <1>6, Zenon

(***************************************************************************)
(* Texts one after the other                                               *)
(***************************************************************************)

LEMMA Concatenated ==
  /\ \A s, t \in Words : s \o t \in Words /\ Len(s \o t) = Len(s) + Len(t)
  /\ \A s, t, u \in Words : (s \o t) \o u = s \o (t \o u)
  /\ \A s \in Words : << >> \o s = s /\ s \o << >> = s /\ << >> \in Words
  /\ \A s \in Words : s # << >> => Len(s) \in Nat \ {0}
BY DEF Words

LEMMA FourLong ==
  ASSUME NEW S, NEW a \in S, NEW b \in S, NEW c \in S, NEW d \in S
  PROVE  <<a, b, c, d>> \in Seq(S)
OBVIOUS

LEMMA FewWords ==
  ASSUME NEW a \in STRING, NEW b \in STRING, NEW c \in STRING, NEW d \in STRING, NEW e \in STRING
  PROVE  /\ <<a>> \in Words /\ <<a, b, c>> \in Words /\ <<a, b, c, d>> \in Words
         /\ <<a, b, c, d, e>> \in Words /\ <<a, b>> \in Words
BY ShortSequences, FourLong DEF Words

LEMMA Both ==
  ASSUME NEW s \in Words, NEW t \in Words
  PROVE  /\ s \o t \in Words /\ Len(s \o t) = Len(s) + Len(t) /\ Len(s) \in Nat /\ Len(t) \in Nat
         /\ \A i \in 1..Len(s) : (s \o t)[i] = s[i]
         /\ \A i \in 1..Len(t) : (s \o t)[Len(s) + i] = t[i]
BY DEF Words

LEMMA Same ==
  ASSUME NEW s \in Words, NEW t \in Words, Len(s) = Len(t), \A i \in 1..Len(s) : s[i] = t[i]
  PROVE  s = t
BY DEF Words

LEMMA Tails ==
  ASSUME NEW t \in Words, t # << >>
  PROVE  /\ Tail(t) \in Words /\ Len(Tail(t)) = Len(t) - 1 /\ Len(t) \in Nat \ {0} /\ Head(t) = t[1]
         /\ \A i \in 1..Len(t) - 1 : Tail(t)[i] = t[i + 1]
BY DEF Words

LEMMA Drops ==
  ASSUME NEW t \in Words, NEW k \in Nat \ {0}, k <= Len(t) + 1
  PROVE  LET v == SubSeq(t, k, Len(t)) IN
         /\ v \in Words /\ Len(v) = Len(t) - k + 1 /\ Len(t) \in Nat
         /\ \A i \in 1..Len(t) - k + 1 : v[i] = t[i + k - 1]
BY DEF Words

\* What is left of a text without its first words.
LEMMA DroppedPrefix ==
  ASSUME NEW s \in Words, NEW u \in Words
  PROVE  SubSeq(s \o u, Len(s) + 1, Len(s \o u)) = u
<1> DEFINE t == s \o u
<1> DEFINE k == Len(s) + 1
<1>1. /\ t \in Words /\ Len(t) = Len(s) + Len(u) /\ Len(s) \in Nat /\ Len(u) \in Nat
      /\ \A i \in 1..Len(u) : t[Len(s) + i] = u[i]
  BY Both
<1> HIDE DEF t
<1>2. k \in Nat \ {0} /\ k <= Len(t) + 1
  BY <1>1
<1> DEFINE v == SubSeq(t, k, Len(t))
<1>3. v \in Words /\ Len(v) = Len(t) - k + 1 /\ \A i \in 1..Len(t) - k + 1 : v[i] = t[i + k - 1]
  <2> HIDE DEF k
  <2> QED BY <1>1, <1>2, Drops
<1> HIDE DEF v
<1>4. Len(v) = Len(u)
  BY <1>1, <1>3
<1>5. ASSUME NEW i \in 1..Len(v) PROVE v[i] = u[i]
  <2>1. v[i] = t[i + k - 1] /\ i + k - 1 = Len(s) + i /\ i \in 1..Len(u)
    BY <1>1, <1>3, <1>4
  <2> QED BY <2>1, <1>1
<1>6. v = u
  BY <1>1, <1>3, <1>4, <1>5, Same
<1> QED BY <1>6 DEF v, t

LEMMA FirstOf ==
  ASSUME NEW t \in Words, t # << >>, NEW u \in Words
  PROVE  t \o u # << >> /\ Head(t \o u) = Head(t) /\ \A x : Starts(t \o u, x) <=> Head(t) = x
<1> DEFINE v == t \o u
<1>1. /\ v \in Words /\ Len(v) = Len(t) + Len(u) /\ Len(u) \in Nat
      /\ \A i \in 1..Len(t) : v[i] = t[i]
  BY Both
<1> HIDE DEF v
<1>2. Len(t) \in Nat \ {0} /\ Head(t) = t[1]
  BY Tails
<1>3. Len(v) # 0 /\ 1 \in 1..Len(t) /\ v[1] = t[1]
  BY <1>1, <1>2
<1>4. v # << >>
  BY <1>3
<1>5. Head(v) = Head(t)
  BY <1>1, <1>2, <1>3, <1>4, Tails
<1>6. \A x : Starts(v, x) <=> Head(t) = x
  BY <1>4, <1>5 DEF Starts
<1> QED BY <1>4, <1>5, <1>6 DEF v

LEMMA FirstWord ==
  ASSUME NEW w \in STRING, NEW u \in Words
  PROVE  LET t == <<w>> \o u IN
         /\ t \in Words /\ t # << >> /\ Head(t) = w /\ Tail(t) = u
         /\ \A x : Starts(t, x) <=> w = x
<1> DEFINE o == <<w>>
<1> DEFINE t == o \o u
<1>1. o \in Words /\ o # << >> /\ Head(o) = w /\ Len(o) = 1
  <2>1. o # << >> /\ Head(o) = w /\ Len(o) = 1
    OBVIOUS
  <2> QED BY <2>1, FewWords
<1> HIDE DEF o
<1>2. t # << >> /\ Head(t) = w /\ \A x : Starts(t, x) <=> w = x
  BY <1>1, FirstOf
<1>3. t \in Words
  BY <1>1, Concatenated
<1>5. Tail(t) = u
  <2>1. /\ Len(t) = Len(o) + Len(u) /\ Len(u) \in Nat
        /\ \A i \in 1..Len(u) : t[Len(o) + i] = u[i]
    BY <1>1, Both
  <2> HIDE DEF t
  <2>2. /\ Tail(t) \in Words /\ Len(Tail(t)) = Len(t) - 1
        /\ \A i \in 1..Len(t) - 1 : Tail(t)[i] = t[i + 1]
    BY <1>2, <1>3, Tails
  <2> DEFINE v == Tail(t)
  <2> HIDE DEF v
  <2>3. Len(v) = Len(u) /\ \A i \in 1..Len(v) : v[i] = u[i]
    BY <1>1, <2>1, <2>2 DEF v
  <2>4. v = u
    BY <2>2, <2>3, Same DEF v
  <2> QED BY <2>4 DEF v
<1> QED BY <1>2, <1>3, <1>5 DEF o

LEMMA FiveWords ==
  ASSUME NEW a \in STRING, NEW b \in STRING, NEW c \in STRING, NEW d \in STRING, NEW e \in STRING,
         NEW u \in Words
  PROVE  LET t == <<a, b, c, d, e>> \o u  x == Tail(t) IN
         /\ t \in Words /\ t # << >> /\ Head(t) = a
         /\ x \in Words /\ Len(x) >= 4 /\ x[1] = b /\ x[2] = c /\ x[3] = d /\ x[4] = e
         /\ SubSeq(x, 5, Len(x)) = u
<1> DEFINE o == <<a>>
<1> DEFINE q == <<b, c, d, e>>
<1>1. /\ o \in Words /\ q \in Words /\ o \o q = <<a, b, c, d, e>> /\ Len(q) = 4
      /\ q[1] = b /\ q[2] = c /\ q[3] = d /\ q[4] = e
  <2>1. Len(q) = 4 /\ q[1] = b /\ q[2] = c /\ q[3] = d /\ q[4] = e /\ Len(o) = 1 /\ o[1] = a
    OBVIOUS
  <2>2. o \in Words /\ q \in Words
    BY FewWords
  <2> DEFINE five == <<a, b, c, d, e>>
  <2>3. five \in Words /\ Len(five) = 5
    BY FewWords
  <2>4. five[1] = a /\ five[2] = b /\ five[3] = c /\ five[4] = d /\ five[5] = e
    OBVIOUS
  <2> HIDE DEF o, q, five
  <2> DEFINE v == o \o q
  <2>5. /\ v \in Words /\ Len(v) = Len(o) + Len(q)
        /\ \A i \in 1..Len(o) : v[i] = o[i]
        /\ \A i \in 1..Len(q) : v[Len(o) + i] = q[i]
    BY <2>2, Both
  <2> HIDE DEF v
  <2>6. /\ Len(v) = 5 /\ v[1] = o[1] /\ v[2] = q[1] /\ v[3] = q[2] /\ v[4] = q[3] /\ v[5] = q[4]
    <3>1. Len(o) = 1 /\ Len(q) = 4
      BY <2>1
    <3>2. 1 \in 1..Len(o) /\ \A i \in {1, 2, 3, 4} : i \in 1..Len(q)
      BY <3>1
    <3>3. v[1] = o[1] /\ \A i \in {1, 2, 3, 4} : v[Len(o) + i] = q[i]
      BY <3>2, <2>5
    <3>4. 1 + 1 = 2 /\ 1 + 2 = 3 /\ 1 + 3 = 4 /\ 1 + 4 = 5
      OBVIOUS
    <3> QED BY <3>1, <3>3, <3>4, <2>5
  <2>7. \A i \in 1..Len(v) : v[i] = five[i]
    <3>1. v[1] = a /\ v[2] = b /\ v[3] = c /\ v[4] = d /\ v[5] = e /\ Len(v) = 5
      BY <2>1, <2>6
    <3>2. \A i \in 1..5 : i \in {1, 2, 3, 4, 5}
      OBVIOUS
    <3> QED BY <3>1, <3>2, <2>4
  <2>8. v = five
    BY <2>3, <2>5, <2>6, <2>7, Same, SMTT(30)
  <2> QED BY <2>1, <2>2, <2>8 DEF v, five
<1> HIDE DEF q
<1> DEFINE x == q \o u
<1>2. <<a, b, c, d, e>> \o u = o \o x
  <2>1. (o \o q) \o u = o \o (q \o u)
    <3> HIDE DEF o
    <3>1. o \in Words /\ q \in Words /\ u \in Words
      BY <1>1
    <3> QED BY <3>1, Concatenated, ZenonT(40)
  <2> QED BY <2>1, <1>1
<1>3. /\ x \in Words /\ Len(x) = 4 + Len(u) /\ Len(u) \in Nat
      /\ \A i \in 1..4 : x[i] = q[i]
  <2>1. /\ x \in Words /\ Len(x) = Len(q) + Len(u) /\ Len(u) \in Nat
        /\ \A i \in 1..Len(q) : x[i] = q[i]
    BY <1>1, Both
  <2> HIDE DEF x
  <2>2. Len(q) = 4
    BY <1>1
  <2> QED BY <2>1, <2>2
<1>4. SubSeq(x, 5, Len(x)) = u
  <2>1. SubSeq(x, Len(q) + 1, Len(x)) = u
    BY <1>1, DroppedPrefix
  <2>2. Len(q) + 1 = 5
    BY <1>1
  <2> HIDE DEF x
  <2> QED BY <2>1, <2>2
<1> HIDE DEF x
<1>5. Len(x) >= 4 /\ x[1] = b /\ x[2] = c /\ x[3] = d /\ x[4] = e
  <2>1. x[1] = q[1] /\ x[2] = q[2] /\ x[3] = q[3] /\ x[4] = q[4] /\ Len(x) >= 4
    BY <1>3
  <2> QED BY <1>1, <2>1
<1> DEFINE t == o \o x
<1>6. t \in Words /\ t # << >> /\ Head(t) = a /\ Tail(t) = x
  BY <1>3, FirstWord
<1> HIDE DEF t
<1>7. t = <<a, b, c, d, e>> \o u
  BY <1>2 DEF t
<1> QED BY <1>3, <1>4, <1>5, <1>6, <1>7

LEMMA ThreeWords ==
  ASSUME NEW a \in STRING, NEW b \in STRING, NEW c \in STRING, NEW u \in Words
  PROVE  LET x == <<a, b, c>> \o u IN x \in Words /\ SubSeq(x, 4, Len(x)) = u
<1> DEFINE q == <<a, b, c>>
<1>1. q \in Words /\ Len(q) = 3
  <2>1. Len(q) = 3
    OBVIOUS
  <2> QED BY <2>1, FewWords
<1> HIDE DEF q
<1> DEFINE x == q \o u
<1>2. SubSeq(x, Len(q) + 1, Len(x)) = u /\ x \in Words
  BY <1>1, DroppedPrefix, Concatenated
<1>3. Len(q) + 1 = 4
  BY <1>1
<1> HIDE DEF x
<1>4. x \in Words /\ SubSeq(x, 4, Len(x)) = u
  BY <1>2, <1>3
<1> QED BY <1>4 DEF x, q

LEMMA Cancelled ==
  ASSUME NEW a \in Words, NEW s \in Words, NEW t \in Words, a \o s = a \o t
  PROVE  s = t
<1> DEFINE u == a \o s
<1> DEFINE v == a \o t
<1>1. /\ Len(u) = Len(a) + Len(s) /\ Len(a) \in Nat /\ Len(s) \in Nat
      /\ \A i \in 1..Len(s) : u[Len(a) + i] = s[i]
  BY Both
<1>2. /\ Len(v) = Len(a) + Len(t) /\ Len(t) \in Nat
      /\ \A i \in 1..Len(t) : v[Len(a) + i] = t[i]
  BY Both
<1>3. u = v
  OBVIOUS
<1> HIDE DEF u, v
<1>4. Len(s) = Len(t)
  BY <1>1, <1>2, <1>3
<1>5. \A i \in 1..Len(s) : s[i] = t[i]
  BY <1>1, <1>2, <1>3, <1>4
<1> QED BY <1>4, <1>5, Same

\* What is left after each of the texts of a sequence, with something at the end.
LEMMA Remains ==
  ASSUME NEW ss \in Seq(Words), ss # << >>, NEW e \in Words
  PROVE  \E s \in [1..Len(ss) -> Words] :
           /\ FlattenSeq(ss) \o e = ss[1] \o s[1] /\ s[Len(ss)] = e
           /\ \A i \in 2..Len(ss) : s[i - 1] = ss[i] \o s[i]
<1> DEFINE n == Len(ss)
<1>0. n \in Nat \ {0} /\ DOMAIN ss = 1..n /\ \A i \in 1..n : ss[i] \in Words
  <2> HIDE DEF Words
  <2> QED OBVIOUS
<1>1. PICK acc : Steps(acc, ss) /\ FlattenSeq(ss) = acc[n]
  BY <1>0, FlattenSteps
<1> DEFINE whole == acc[n] \o e
<1> HIDE DEF n
<1>2. \A i \in 1..n : acc[i] \in Words
  <2> DEFINE T == {k \in Nat : k + 1 \in 1..n => acc[k + 1] \in Words}
  <2>1. 0 \in T
    BY <1>0, <1>1 DEF Steps
  <2>2. ASSUME NEW k \in Nat, k \in T PROVE k + 1 \in T
    <3> SUFFICES ASSUME (k + 1) + 1 \in 1..n PROVE acc[(k + 1) + 1] \in Words
      OBVIOUS
    <3>1. k + 1 \in 1..n /\ (k + 1) + 1 \in 2..n /\ ((k + 1) + 1) - 1 = k + 1
      BY <1>0
    <3>2. acc[(k + 1) + 1] = acc[k + 1] \o ss[(k + 1) + 1]
      BY <3>1, <1>1 DEF Steps, n
    <3>3. acc[k + 1] \in Words /\ ss[(k + 1) + 1] \in Words
      BY <3>1, <2>2, <1>0
    <3> QED BY <3>2, <3>3, Concatenated
  <2>3. Nat \subseteq T
    <3> HIDE DEF T
    <3> QED BY <2>1, <2>2, Induction
  <2> SUFFICES ASSUME NEW i \in 1..n PROVE acc[i] \in Words
    OBVIOUS
  <2>4. i - 1 \in Nat /\ (i - 1) + 1 = i
    BY <1>0
  <2>5. i - 1 \in T
    BY <2>3, <2>4
  <2> QED BY <2>4, <2>5
<1>9. ASSUME NEW i \in 2..n, NEW u \in Words
      PROVE  /\ (acc[i - 1] \o ss[i]) \o u = acc[i - 1] \o (ss[i] \o u)
             /\ ss[i] \o u \in Words
  <2>1. i - 1 \in 1..n /\ i \in 1..n
    BY <1>0
  <2> DEFINE a == acc[i - 1]
  <2> DEFINE b == ss[i]
  <2>2. a \in Words /\ b \in Words
    BY <2>1, <1>0, <1>2
  <2> HIDE DEF a, b
  <2>3. (a \o b) \o u = a \o (b \o u) /\ b \o u \in Words
    BY <2>2, Concatenated, ZenonT(40)
  <2> QED BY <2>3 DEF a, b
<1>3. \A i \in 1..n : \E u \in Words : whole = acc[i] \o u
  <2> DEFINE T == {k \in Nat : n - k \in 1..n => \E u \in Words : whole = acc[n - k] \o u}
  <2>1. 0 \in T
    <3>1. n - 0 = n
      BY <1>0
    <3> QED BY <3>1
  <2>2. ASSUME NEW k \in Nat, k \in T PROVE k + 1 \in T
    <3> HIDE DEF whole
    <3> SUFFICES ASSUME n - (k + 1) \in 1..n PROVE \E u \in Words : whole = acc[n - (k + 1)] \o u
      OBVIOUS
    <3> DEFINE i == n - k
    <3>1. i \in 2..n /\ i \in 1..n /\ i - 1 = n - (k + 1) /\ i - 1 \in 1..n
      BY <1>0
    <3>2. PICK u \in Words : whole = acc[i] \o u
      BY <2>2, <3>1
    <3>3. acc[i] = acc[i - 1] \o ss[i]
      BY <3>1, <1>1 DEF Steps, n
    <3>4. acc[i - 1] \in Words /\ ss[i] \in Words
      BY <3>1, <1>0, <1>2
    <3> HIDE DEF i
    <3>5. whole = acc[i - 1] \o (ss[i] \o u) /\ ss[i] \o u \in Words
      <4>1. whole = (acc[i - 1] \o ss[i]) \o u
        BY <3>2, <3>3
      <4> QED BY <4>1, <3>1, <1>9
    <3> QED BY <3>1, <3>5
  <2>3. Nat \subseteq T
    <3> HIDE DEF T
    <3> QED BY <2>1, <2>2, Induction
  <2> SUFFICES ASSUME NEW i \in 1..n PROVE \E u \in Words : whole = acc[i] \o u
    OBVIOUS
  <2>4. n - i \in Nat /\ n - (n - i) = i
    BY <1>0
  <2>5. n - i \in T
    BY <2>3, <2>4
  <2> QED BY <2>4, <2>5
<1> DEFINE left(i) == CHOOSE u \in Words : whole = acc[i] \o u
<1> DEFINE s == [i \in 1..n |-> left(i)]
<1>4. \A i \in 1..n : left(i) \in Words /\ whole = acc[i] \o left(i)
  <2> HIDE DEF whole
  <2> QED BY <1>3
<1> HIDE DEF left
<1>5. s \in [1..n -> Words] /\ \A i \in 1..n : s[i] \in Words /\ whole = acc[i] \o s[i]
  <2> HIDE DEF whole
  <2> QED BY <1>4
<1> HIDE DEF s
<1>6. s[n] = e
  <2>1. n \in 1..n
    BY <1>0
  <2>2. acc[n] \in Words /\ s[n] \in Words /\ acc[n] \o e = acc[n] \o s[n]
    BY <2>1, <1>2, <1>5
  <2> QED BY <2>2, Cancelled
<1>7. whole = ss[1] \o s[1]
  <2>1. 1 \in 1..n /\ acc[1] = ss[1]
    BY <1>0, <1>1 DEF Steps
  <2>2. whole = acc[1] \o s[1]
    BY <2>1, <1>5
  <2> HIDE DEF whole
  <2> QED BY <2>1, <2>2
<1>8. ASSUME NEW i \in 2..n PROVE s[i - 1] = ss[i] \o s[i]
  <2>1. i \in 1..n /\ i - 1 \in 1..n
    BY <1>0
  <2>2. acc[i] = acc[i - 1] \o ss[i]
    BY <1>1 DEF Steps, n
  <2>3. acc[i - 1] \in Words /\ ss[i] \in Words /\ s[i] \in Words /\ s[i - 1] \in Words
    BY <2>1, <1>0, <1>2, <1>5
  <2>4. acc[i - 1] \o s[i - 1] = acc[i] \o s[i]
    BY <2>1, <1>5
  <2>5. acc[i - 1] \o s[i - 1] = acc[i - 1] \o (ss[i] \o s[i]) /\ ss[i] \o s[i] \in Words
    <3> DEFINE a == acc[i - 1]
    <3> DEFINE b == ss[i]
    <3> DEFINE u == s[i]
    <3>1. a \o s[i - 1] = (a \o b) \o u /\ a \in Words /\ b \in Words /\ u \in Words
      BY <2>2, <2>3, <2>4
    <3> HIDE DEF a, b, u
    <3>2. (a \o b) \o u = a \o (b \o u) /\ b \o u \in Words
      BY <3>1, Concatenated
    <3>3. a \o s[i - 1] = a \o (b \o u) /\ b \o u \in Words
      BY <3>1, <3>2
    <3> QED BY <3>3 DEF a, b, u
  <2> DEFINE c == ss[i] \o s[i]
  <2> DEFINE a == acc[i - 1]
  <2>6. a \o s[i - 1] = a \o c /\ c \in Words /\ a \in Words /\ s[i - 1] \in Words
    BY <2>3, <2>5
  <2> HIDE DEF c, a
  <2>7. s[i - 1] = c
    BY <2>6, Cancelled
  <2> QED BY <2>7 DEF c
<1> QED BY <1>1, <1>5, <1>6, <1>7, <1>8 DEF n

(***************************************************************************)
(* The parser on what the node and the printer write                       *)
(***************************************************************************)

Comma == <<",">>

\* Where a type ends.
Ends(r) == r = << >> \/ Starts(r, ",") \/ Starts(r, ">")

\* What is read when a type was not: nothing, or the type ends where it does not.
Misses(p) == ~p.ok \/ ~Ends(p.rest)

\* A list of types: x[i] is the text of the i-th, s[i] what follows it; after the last there
\* may be a comma before "end".
Listed(n, x, s, end) ==
  /\ n \in Nat \ {0} /\ x \in [1..n -> Words] /\ s \in [1..n -> Words]
  /\ \A i \in 1..n : x[i] # << >> /\ ~Starts(x[i], ">")
  /\ \A i \in 2..n : s[i - 1] = Comma \o (x[i] \o s[i])
  /\ s[n] = end \/ s[n] = Comma \o end

\* es[i] is what the i-th is read as, if it is one of those that are read.
ReadAs(R, n, x, s, es, good) ==
  \A i \in 1..n : LET p == R[x[i] \o s[i]]["tag"]
                  IN IF i \in good THEN p = Parsed(es[i], s[i]) ELSE Misses(p)

RestsJoined(es) ==
  /\ SubSeq(es, Len(es) + 1, Len(es)) = << >> /\ SubSeq(es, 1, Len(es)) = es
  /\ \A i \in 1..Len(es) : <<es[i]>> \o SubSeq(es, i + 1, Len(es)) = SubSeq(es, i, Len(es))

LEMMA RestOf ==
  ASSUME NEW S, NEW es \in Seq(S), NEW k \in Nat \ {0}, k <= Len(es) + 1
  PROVE  LET v == SubSeq(es, k, Len(es)) IN
         /\ v \in Seq(S) /\ Len(v) = Len(es) - k + 1
         /\ \A i \in 1..Len(es) - k + 1 : v[i] = es[i + k - 1]
OBVIOUS

LEMMA Prefixed ==
  ASSUME NEW S, NEW x \in S, NEW b \in Seq(S), NEW d, d = <<x>> \o b
  PROVE  /\ d \in Seq(S) /\ Len(d) = Len(b) + 1 /\ Len(b) \in Nat
         /\ d[1] = x /\ \A k \in 1..Len(b) : d[k + 1] = b[k]
OBVIOUS

LEMMA SameSeq ==
  ASSUME NEW S, NEW s \in Seq(S), NEW t \in Seq(S), Len(s) = Len(t),
         \A i \in 1..Len(s) : s[i] = t[i]
  PROVE  s = t
OBVIOUS

LEMMA RestsJoin ==
  ASSUME NEW S, NEW es \in Seq(S), Len(es) # 0
  PROVE  RestsJoined(es)
<1> DEFINE n == Len(es)
<1>1. n \in Nat \ {0} /\ \A i \in 1..n : es[i] \in S
  OBVIOUS
<1>2. SubSeq(es, n + 1, n) = << >> /\ SubSeq(es, 1, n) = es
  OBVIOUS
<1>3. ASSUME NEW i \in 1..n PROVE <<es[i]>> \o SubSeq(es, i + 1, n) = SubSeq(es, i, n)
  <2> DEFINE b == SubSeq(es, i + 1, n)
  <2> DEFINE c == SubSeq(es, i, n)
  <2> DEFINE m == n - i
  <2>1. /\ i \in Nat \ {0} /\ i + 1 \in Nat \ {0} /\ i <= n + 1 /\ i + 1 <= n + 1
        /\ m \in Nat /\ n - (i + 1) + 1 = m /\ n - i + 1 = m + 1 /\ m + 1 \in Nat
    BY <1>1
  <2>2. b \in Seq(S) /\ Len(b) = n - (i + 1) + 1 /\ \A k \in 1..n - (i + 1) + 1 : b[k] = es[k + (i + 1) - 1]
    <3>1. i + 1 \in Nat \ {0} /\ i + 1 <= Len(es) + 1
      BY <2>1
    <3> DEFINE h == i + 1
    <3> HIDE DEF h
    <3>2. h \in Nat \ {0} /\ h <= Len(es) + 1
      BY <3>1 DEF h
    <3>3. LET v == SubSeq(es, h, Len(es)) IN
         /\ v \in Seq(S) /\ Len(v) = Len(es) - h + 1
         /\ \A k \in 1..Len(es) - h + 1 : v[k] = es[k + h - 1]
      BY <3>2, RestOf
    <3> QED BY <3>3 DEF h
  <2>3. c \in Seq(S) /\ Len(c) = n - i + 1 /\ \A k \in 1..n - i + 1 : c[k] = es[k + i - 1]
    BY <2>1, RestOf
  <2> DEFINE x == es[i]
  <2> DEFINE d == <<x>> \o b
  <2>4. /\ d \in Seq(S) /\ Len(d) = Len(b) + 1 /\ d[1] = x
        /\ \A k \in 1..Len(b) : d[k + 1] = b[k]
    <3>1. x \in S /\ b \in Seq(S)
      BY <1>1, <2>2
    <3>3. d = <<x>> \o b
      OBVIOUS
    <3> HIDE DEF x, b, n, m, d
    <3>2. /\ d \in Seq(S) /\ Len(d) = Len(b) + 1 /\ Len(b) \in Nat /\ d[1] = x
          /\ \A k \in 1..Len(b) : d[k + 1] = b[k]
      BY <3>1, <3>3, Prefixed
    <3> QED BY <3>2
  <2>7. Len(b) = m /\ \A k \in 1..m : b[k] = es[k + (i + 1) - 1]
    <3> HIDE DEF b, m, n
    <3> QED BY <2>1, <2>2
  <2>8. Len(c) = m + 1 /\ \A k \in 1..m + 1 : c[k] = es[k + i - 1]
    <3> HIDE DEF c, m, n
    <3> QED BY <2>1, <2>3
  <2>9. m \in Nat /\ i \in Nat
    BY <2>1
  <2> HIDE DEF b, c, d, m, n
  <2>5. ASSUME NEW k \in 1..m + 1 PROVE d[k] = c[k]
    <3>1. CASE k = 1
      <4>1. 1 \in 1..m + 1 /\ 1 + i - 1 = i
        BY <2>9
      <4>2. c[1] = es[i]
        BY <4>1, <2>8
      <4> QED BY <2>4, <3>1, <4>2
    <3>2. CASE k # 1
      <4>1. k - 1 \in 1..m /\ (k - 1) + 1 = k /\ (k - 1) + (i + 1) - 1 = k + i - 1
        BY <2>9, <3>2
      <4>2. d[k] = b[k - 1] /\ b[k - 1] = es[k + i - 1]
        BY <4>1, <2>4, <2>7
      <4> QED BY <4>2, <2>8
    <3> QED BY <3>1, <3>2
  <2>6. d = c
    <3>1. Len(d) = m + 1 /\ Len(c) = m + 1
      BY <2>4, <2>7, <2>8
    <3> QED BY <2>3, <2>4, <2>5, <3>1, SameSeq
  <2> QED BY <2>6 DEF b, c, d
<1> QED BY <1>1, <1>2, <1>3 DEF n, RestsJoined

LEMMA Alone == \A t : <<t>> \o << >> = <<t>>
OBVIOUS

LEMMA ListEnds ==
  ASSUME NEW R, NEW t, NEW a, Starts(a, ">")
  PROVE  ParseList(R, Parsed(t, a)) = ParsedList(<<t>>, a)
<1> DEFINE one == Parsed(t, a)
<1>1. one.ok /\ one.tag = t /\ one.rest = a
  BY Outcomes
<1> HIDE DEF one
<1>2. ParseList(R, one) = ParsedList(<<t>>, a)
  BY <1>1 DEF ParseList
<1> QED BY <1>2 DEF one

LEMMA ListEquations ==
  ASSUME NEW R, NEW t, NEW a, NEW u
  PROVE  LET l == ParseList(R, Parsed(t, a))
             more == R[u]["list"]
         IN /\ Starts(a, ">") => l = ParsedList(<<t>>, a)
            /\ ~Starts(a, ">") /\ Consume(a, ",").ok /\ Consume(a, ",").rest = u /\ u # << >> =>
                 /\ Starts(u, ">") => l = ParsedList(<<t>>, u)
                 /\ ~Starts(u, ">") => l = IF more.ok THEN ParsedList(<<t>> \o more.tags, more.rest)
                                          ELSE Invalid
<1> DEFINE one == Parsed(t, a)
<1> DEFINE more == R[u]["list"]
<1> DEFINE l == ParseList(R, one)
<1>1. one.ok /\ one.tag = t /\ one.rest = a
  BY Outcomes
<1> HIDE DEF one
<1>2. CASE Starts(a, ">")
  <2>1. l = ParsedList(<<t>>, a)
    BY <1>1, <1>2 DEF ParseList
  <2> QED BY <2>1, <1>2 DEF one
<1>3. CASE ~Starts(a, ">") /\ Consume(a, ",").ok /\ Consume(a, ",").rest = u /\ u # << >>
  <2> DEFINE next == Consume(one.rest, ",")
  <2>1. next = Consume(a, ",")
    BY <1>1
  <2>2. next.ok /\ next.rest = u
    <3> HIDE DEF next
    <3> QED BY <2>1, <1>3
  <2>3. l = IF Starts(next.rest, ">") THEN ParsedList(<<one.tag>>, next.rest)
            ELSE IF R[next.rest]["list"].ok
                 THEN ParsedList(<<one.tag>> \o R[next.rest]["list"].tags, R[next.rest]["list"].rest)
                 ELSE Invalid
    <3>1. ~Starts(one.rest, ">") /\ next.rest # << >>
      BY <1>1, <1>3, <2>2
    <3> QED BY <1>1, <3>1, <2>2 DEF ParseList
  <2> HIDE DEF next, l
  <2>4. l = IF Starts(u, ">") THEN ParsedList(<<t>>, u)
            ELSE IF more.ok THEN ParsedList(<<t>> \o more.tags, more.rest) ELSE Invalid
    BY <1>1, <2>2, <2>3
  <2> HIDE DEF more
  <2> QED BY <1>3, <2>4 DEF l, one, more
<1> QED BY <1>2, <1>3

LEMMA ListComma ==
  ASSUME NEW R, NEW t, NEW a, NEW u, ~Starts(a, ">"), Consume(a, ",").ok, Consume(a, ",").rest = u,
         u # << >>, Starts(u, ">")
  PROVE  ParseList(R, Parsed(t, a)) = ParsedList(<<t>>, u)
<1> DEFINE one == Parsed(t, a)
<1>1. one.ok /\ one.tag = t /\ one.rest = a
  BY Outcomes
<1> HIDE DEF one
<1>2. ParseList(R, one) = ParsedList(<<t>>, u)
  BY <1>1 DEF ParseList
<1> QED BY <1>2 DEF one

LEMMA ListRead ==
  ASSUME NEW given, NEW n, NEW x, NEW s, NEW S, NEW es \in Seq(S), NEW good, NEW r \in Words,
         Listed(n, x, s, <<">">> \o r), ReadAs(Parser(given), n, x, s, es, good), Len(es) = n
  PROVE  LET l == Parser(given)[x[1] \o s[1]]["list"]
         IN IF 1..n \subseteq good THEN l = ParsedList(es, <<">">> \o r) ELSE ~l.ok
<1> DEFINE R == Parser(given)
<1> DEFINE end == <<">">> \o r
<1> DEFINE more(i) == SubSeq(es, i + 1, n)
\* What the list is after an element t that is followed by s[i].
<1> DEFINE After(i) == \A t : LET l == ParseList(R, Parsed(t, s[i]))
                              IN IF i + 1..n \subseteq good THEN l = ParsedList(<<t>> \o more(i), end)
                                 ELSE ~l.ok
<1>10. /\ n \in Nat \ {0}
       /\ \A i \in 1..n : x[i] \in Words /\ s[i] \in Words /\ x[i] # << >> /\ ~Starts(x[i], ">")
       /\ \A i \in 2..n : s[i - 1] = Comma \o (x[i] \o s[i])
       /\ s[n] = end \/ s[n] = Comma \o end
  <2> HIDE DEF end, Words
  <2>1. Listed(n, x, s, end)
    BY DEF end
  <2> QED BY <2>1 DEF Listed
<1>9. n \in Nat \ {0}
  BY <1>10
<1>11. \A i \in 1..n : LET p == R[x[i] \o s[i]]["tag"]
                        IN IF i \in good THEN p = Parsed(es[i], s[i]) ELSE Misses(p)
  BY DEF ReadAs
<1>12. /\ more(n) = << >> /\ SubSeq(es, 1, n) = es
       /\ \A i \in 1..n : <<es[i]>> \o more(i) = SubSeq(es, i, n)
  <2>1. n = Len(es) /\ n # 0 /\ n \in Nat \ {0}
    BY <1>9
  <2>2. /\ SubSeq(es, n + 1, n) = << >> /\ SubSeq(es, 1, n) = es
        /\ \A i \in 1..n : <<es[i]>> \o SubSeq(es, i + 1, n) = SubSeq(es, i, n)
    <3> DEFINE m == Len(es)
    <3>1. /\ SubSeq(es, m + 1, m) = << >> /\ SubSeq(es, 1, m) = es
          /\ \A i \in 1..m : <<es[i]>> \o SubSeq(es, i + 1, m) = SubSeq(es, i, m)
      <4>1. RestsJoined(es)
        BY <2>1, RestsJoin
      <4> QED BY <4>1 DEF RestsJoined
    <3>2. m = n
      OBVIOUS
    <3> HIDE DEF m
    <3> QED BY <3>1, <3>2
  <2> QED BY <2>2
<1>0. "," \in STRING /\ ">" \in STRING
  BY SomeWords
<1>1. /\ end \in Words /\ end # << >> /\ Starts(end, ">")
      /\ LET c == Comma \o end IN ~Starts(c, ">") /\ Consume(c, ",").ok /\ Consume(c, ",").rest = end
  <2>1. end \in Words /\ end # << >> /\ Starts(end, ">")
    BY <1>0, FirstWord
  <2> HIDE DEF end
  <2> DEFINE c == Comma \o end
  <2>2. Tail(c) = end /\ Starts(c, ",") /\ ~Starts(c, ">")
    BY <2>1, <1>0, FirstWord DEF Comma
  <2> HIDE DEF c
  <2>3. Consume(c, ",").ok /\ Consume(c, ",").rest = end
    BY <2>2 DEF Consume
  <2> QED BY <2>1, <2>2, <2>3 DEF c
<1> HIDE DEF end
\* What the list is from the i-th element on.
<1>2. ASSUME NEW i \in 1..n, After(i)
      PROVE  LET l == R[x[i] \o s[i]]["list"]
             IN IF i..n \subseteq good THEN l = ParsedList(<<es[i]>> \o more(i), end) ELSE ~l.ok
  <2> DEFINE p == R[x[i] \o s[i]]["tag"]
  <2> DEFINE l == R[x[i] \o s[i]]["list"]
  <2>1. l = ParseList(R, p)
    <3>1. x[i] \o s[i] \in Words
      BY <1>10, Concatenated
    <3> QED BY <3>1, ParserMeets
  <2>2. i..n = {i} \cup (i + 1..n)
    BY <1>9
  <2>3. CASE i \in good
    <3>1. p = Parsed(es[i], s[i])
      BY <2>3, <1>11
    <3> HIDE DEF p, l, R
    <3>2. IF i + 1..n \subseteq good THEN l = ParsedList(<<es[i]>> \o more(i), end) ELSE ~l.ok
      BY <2>1, <3>1, <1>2
    <3> QED BY <2>2, <2>3, <3>2 DEF l
  <2>4. CASE i \notin good
    <3>1. Misses(p)
      BY <2>4, <1>11
    <3> HIDE DEF p, R
    <3>2. ParseList(R, p) = Invalid
      BY <3>1 DEF ParseList, Misses, Ends, Consume, Invalid
    <3> QED BY <2>1, <2>2, <2>4, <3>2, Outcomes
  <2> QED BY <2>3, <2>4
<1>3. After(n)
  <2>1. n + 1..n = {} /\ more(n) = << >>
    BY <1>9, <1>12
  <2> HIDE DEF more, R
  <2>2. ASSUME NEW t PROVE ParseList(R, Parsed(t, s[n])) = ParsedList(<<t>>, end)
    <3>1. CASE s[n] = end
      <4>1. ParseList(R, Parsed(t, end)) = ParsedList(<<t>>, end)
        BY <1>1, ListEnds
      <4> QED BY <3>1, <4>1
    <3>2. CASE s[n] = Comma \o end
      <4> DEFINE c == Comma \o end
      <4>1. ~Starts(c, ">") /\ Consume(c, ",").ok /\ Consume(c, ",").rest = end
        BY <1>1
      <4> HIDE DEF c
      <4>2. s[n] = c
        BY <3>2 DEF c
      <4>3. end # << >> /\ Starts(end, ">")
        BY <1>1
      <4>4. ParseList(R, Parsed(t, c)) = ParsedList(<<t>>, end)
        BY <4>1, <4>3, ListComma
      <4> QED BY <4>2, <4>4
    <3> QED BY <1>10, <3>1, <3>2
  <2> QED BY <2>1, <2>2, Alone
<1>4. ASSUME NEW i \in 2..n, After(i)
      PROVE  After(i - 1)
  <2> DEFINE u == x[i] \o s[i]
  <2>0. i \in 1..n /\ i - 1 \in 1..n /\ (i - 1) + 1 = i
    BY <1>9
  <2>1. u \in Words /\ u # << >> /\ ~Starts(u, ">") /\ s[i - 1] = Comma \o u
    <3>1. x[i] \in Words /\ s[i] \in Words /\ x[i] # << >> /\ ~Starts(x[i], ">")
      BY <2>0, <1>10
    <3>2. u # << >> /\ ~Starts(u, ">")
      BY <3>1, FirstOf DEF Starts
    <3> QED BY <3>1, <3>2, <1>10, Concatenated
  <2> DEFINE l == R[u]["list"]
  <2>2. IF i..n \subseteq good THEN l = ParsedList(<<es[i]>> \o more(i), end) ELSE ~l.ok
    BY <1>2, <1>4, <2>0
  <2> HIDE DEF u
  <2>3. /\ ~Starts(s[i - 1], ">") /\ Consume(s[i - 1], ",").ok /\ Consume(s[i - 1], ",").rest = u
    <3> DEFINE c == Comma \o u
    <3>1. Tail(c) = u /\ Starts(c, ",") /\ ~Starts(c, ">")
      BY <2>1, <1>0, FirstWord DEF Comma
    <3> HIDE DEF c
    <3>2. Consume(c, ",").ok /\ Consume(c, ",").rest = u
      BY <3>1 DEF Consume
    <3> QED BY <3>1, <3>2, <2>1 DEF c
  <2>5. <<es[i]>> \o more(i) = more(i - 1)
    BY <2>0, <1>12
  <2> DEFINE tags == more(i - 1)
  <2> DEFINE rest == i..n \subseteq good
  <2>6. IF rest THEN l = ParsedList(tags, end) ELSE ~l.ok
    BY <2>2, <2>5
  <2> HIDE DEF tags, rest
  <2>4. ASSUME NEW t
        PROVE  IF rest THEN ParseList(R, Parsed(t, s[i - 1])) = ParsedList(<<t>> \o tags, end)
               ELSE ~ParseList(R, Parsed(t, s[i - 1])).ok
    <3> HIDE DEF R
    <3> DEFINE a == s[i - 1]
    <3> DEFINE k == ParseList(R, Parsed(t, a))
    <3>1. ~Starts(a, ">") /\ Consume(a, ",").ok /\ Consume(a, ",").rest = u
      BY <2>3
    <3> HIDE DEF a
    <3>2. k = IF l.ok THEN ParsedList(<<t>> \o l.tags, l.rest) ELSE Invalid
      BY <2>1, <3>1, ListEquations
    <3> HIDE DEF k, l
    <3>3. IF rest THEN k = ParsedList(<<t>> \o tags, end) ELSE ~k.ok
      BY <2>6, <3>2, Outcomes
    <3> QED BY <3>3 DEF k, a
  <2> HIDE DEF R
  <2> QED BY <2>0, <2>4 DEF tags, rest
<1>5. After(1)
  <2> DEFINE T == {k \in Nat : n - k \in 1..n => After(n - k)}
  <2> HIDE DEF After
  <2>1. 0 \in T
    <3>1. n - 0 = n
      BY <1>9
    <3> QED BY <1>3, <3>1
  <2>2. ASSUME NEW k \in Nat, k \in T PROVE k + 1 \in T
    <3> SUFFICES ASSUME n - (k + 1) \in 1..n PROVE After(n - (k + 1))
      OBVIOUS
    <3> DEFINE i == n - k
    <3>1. i \in 2..n /\ i \in 1..n /\ i - 1 = n - (k + 1)
      BY <1>9
    <3>2. After(i)
      BY <2>2, <3>1
    <3> HIDE DEF i
    <3>3. After(i - 1)
      BY <3>1, <3>2, <1>4
    <3> QED BY <3>1, <3>3
  <2>3. Nat \subseteq T
    <3> HIDE DEF T
    <3> QED BY <2>1, <2>2, Induction
  <2>4. n - 1 \in T /\ n - (n - 1) = 1 /\ 1 \in 1..n
    BY <2>3, <1>9
  <2> QED BY <2>4
<1>7. 1 \in 1..n
  BY <1>9
<1>6. <<es[1]>> \o more(1) = es
  BY <1>7, <1>12
<1> HIDE DEF After, more, R
<1>8. LET l == R[x[1] \o s[1]]["list"]
      IN IF 1..n \subseteq good THEN l = ParsedList(<<es[1]>> \o more(1), end) ELSE ~l.ok
  BY <1>2, <1>5, <1>7
<1> QED BY <1>6, <1>8 DEF R, end

(***************************************************************************)
(* The texts of the node                                                   *)
(***************************************************************************)

LEMMA Signs ==
  /\ <<"<">> \in Words /\ <<">">> \in Words /\ Comma \in Words /\ << >> \in Words
  /\ <<"vector", "<">> \in Words
<1>1. "<" \in STRING /\ ">" \in STRING /\ "," \in STRING /\ "vector" \in STRING
  BY SomeWords
<1> QED BY <1>1, ShortSequences DEF Words, Comma

NodePart(f, g) == [i \in DOMAIN g.args |-> (IF i = 1 THEN << >> ELSE Comma) \o f[g.args[i]]]

LEMMA NodePartTyped ==
  ASSUME NEW f, NEW g, g.args \in Seq(Tag), \A i \in DOMAIN g.args : f[g.args[i]] \in Words
  PROVE  /\ NodePart(f, g) \in Seq(Words) /\ Len(NodePart(f, g)) = Len(g.args)
         /\ \A i \in DOMAIN g.args :
              NodePart(f, g)[i] = IF i = 1 THEN f[g.args[i]] ELSE Comma \o f[g.args[i]]
<1> DEFINE n == Len(g.args)
<1>1. n \in Nat /\ DOMAIN g.args = 1..n
  OBVIOUS
<1>2. Comma \in Words /\ << >> \in Words
  BY Signs
<1> DEFINE part(i) == (IF i = 1 THEN << >> ELSE Comma) \o f[g.args[i]]
<1>3. ASSUME NEW i \in 1..n
      PROVE  part(i) \in Words /\ part(i) = IF i = 1 THEN f[g.args[i]] ELSE Comma \o f[g.args[i]]
  <2> DEFINE w == f[g.args[i]]
  <2>1. w \in Words
    BY <1>1
  <2> HIDE DEF w
  <2>2. << >> \o w = w /\ Comma \o w \in Words
    BY <1>2, <2>1, Concatenated
  <2>3. part(i) = (IF i = 1 THEN << >> ELSE Comma) \o w
    BY DEF w
  <2> HIDE DEF part
  <2>4. CASE i = 1
    BY <2>1, <2>2, <2>3, <2>4 DEF w
  <2>5. CASE i # 1
    BY <2>1, <2>2, <2>3, <2>5 DEF w
  <2> QED BY <2>4, <2>5
<1> HIDE DEF part, Words
<1>4. NodePart(f, g) = [i \in 1..n |-> part(i)]
  BY <1>1 DEF NodePart, part
<1>5. [i \in 1..n |-> part(i)] \in Seq(Words) /\ Len([i \in 1..n |-> part(i)]) = n
  <2> DEFINE q == [i \in 1..n |-> part(i)]
  <2>1. q \in [1..n -> Words]
    BY <1>3
  <2> HIDE DEF q
  <2>2. q \in Seq(Words) /\ Len(q) = n
    BY <1>1, <2>1
  <2> QED BY <2>2 DEF q
<1> QED BY <1>1, <1>3, <1>4, <1>5

NodeList(f, g) == FlattenSeq(NodePart(f, g))

LEMMA NodeArgumentsAre ==
  \A f, g : NodeArguments(f, g) = IF g.args = << >> THEN << >> ELSE <<"<">> \o NodeList(f, g) \o <<">">>
BY DEF NodeArguments, NodeList, NodePart, Comma

\* The texts of the node are sequences of words.
LEMMA NodeTyped == \A g \in Tag : NodeText[g] \in Words
<1> DEFINE F == NodeText
<1> DEFINE T == {n \in Nat : n \in 0..Depth => \A g \in TagLevel[n] : F[g] \in Words}
<1>1. ASSUME NEW n \in 0..Depth, NEW g \in TagLevel[n], \A c \in Children(g) : F[c] \in Words
      PROVE  F[g] \in Words
  <2>1. F[g] = NodeOf(F, g)
    BY TagsNested, NodeIs
  <2> HIDE DEF F
  <2>2. \A s, t \in Words : s \o t \in Words
    BY Joined DEF Words
  <2>3. CASE g.k = "struct"
    <3>1. /\ g.args \in Seq(Tag) /\ g.address \in STRING /\ g.module \in STRING /\ g.name \in STRING
      BY <2>3, TagNames, TagShape
    <3>2. <<g.address, "::", g.module, "::", g.name>> \in Words
      <4>1. "::" \in STRING
        BY SomeWords
      <4> QED BY <3>1, <4>1, ShortSequences DEF Words
    <3>3. \A i \in DOMAIN g.args : F[g.args[i]] \in Words
      BY <1>1, <2>3 DEF F, Children
    <3>4. NodePart(F, g) \in Seq(Words)
      BY <3>1, <3>3, NodePartTyped
    <3>5. NodeList(F, g) \in Words
      BY <3>4, Flattened DEF Words, NodeList
    <3>6. NodeArguments(F, g) \in Words
      <4>1. <<"<">> \in Words /\ <<">">> \in Words /\ << >> \in Words
        BY Signs
      <4>2. <<"<">> \o NodeList(F, g) \o <<">">> \in Words
        <5> HIDE DEF Words
        <5> QED BY <4>1, <3>5, <2>2
      <4> QED BY <4>1, <4>2, NodeArgumentsAre
    <3>7. <<g.address, "::", g.module, "::", g.name>> \o NodeArguments(F, g) \in Words
      <4> HIDE DEF Words
      <4> QED BY <3>2, <3>6, <2>2
    <3> QED BY <3>7, <2>1, <2>3 DEF NodeOf
  <2>4. CASE g.k = "vector"
    <3>1. F[g.of] \in Words
      BY <1>1, <2>4 DEF Children, F
    <3>2. <<"vector", "<">> \in Words /\ <<">">> \in Words
      <4>1. "<" \in STRING /\ ">" \in STRING /\ "vector" \in STRING
        BY SomeWords
      <4> QED BY <4>1, ShortSequences DEF Words
    <3>3. <<"vector", "<">> \o F[g.of] \o <<">">> \in Words
      BY <3>1, <3>2, <2>2
    <3> QED BY <3>3, <2>1, <2>4 DEF NodeOf
  <2>5. CASE g.k \notin {"struct", "vector"}
    <3>1. <<g.k>> \in Words
      <4>1. g.k \in STRING
        BY <2>5, TagNames
      <4> QED BY <4>1, ShortSequences DEF Words
    <3> QED BY <3>1, <2>1, <2>5 DEF NodeOf
  <2> QED BY <2>3, <2>4, <2>5
<1> HIDE DEF F
<1>2. 0 \in T
  <2>1. \A g \in TagLevel[0] : Children(g) = {}
    BY TagShape, DepthAssumption
  <2> QED BY <2>1, <1>1
<1>3. ASSUME NEW n \in Nat, n \in T PROVE n + 1 \in T
  <2> SUFFICES ASSUME n + 1 \in 0..Depth, NEW g \in TagLevel[n + 1] PROVE F[g] \in Words
    OBVIOUS
  <2>1. n \in 0..Depth /\ (n + 1) - 1 = n
    BY DepthAssumption
  <2>2. \A c \in Children(g) : c \in TagLevel[n]
    BY <2>1, TagShape
  <2>3. \A c \in Children(g) : F[c] \in Words
    BY <2>1, <2>2, <1>3
  <2> QED BY <2>3, <1>1
<1>4. Nat \subseteq T
  <2> HIDE DEF T
  <2> QED BY <1>2, <1>3, Induction
<1> QED BY <1>4, DepthAssumption DEF F, Tag

\* What a type of the last level is.
LEMMA WholeTag ==
  ASSUME NEW g \in Tag
  PROVE  /\ g.k = "vector" => g = Vector(g.of) /\ g.of \in Tag
         /\ g.k = "struct" =>
              /\ g = [k |-> "struct", address |-> g.address, module |-> g.module,
                      name |-> g.name, args |-> g.args]
              /\ g.args \in Seq(Tag) /\ g.address \in Addresses /\ g.address \in STRING
              /\ g.module \in STRING /\ g.name \in STRING
         /\ g.k \notin {"struct", "vector"} => g.k \in STRING
<1>1. Depth \in 0..Depth /\ g \in TagLevel[Depth]
  BY DepthAssumption DEF Tag
<1>2. /\ g.k = "vector" => g = Vector(g.of)
      /\ g.k = "struct" =>
           /\ g = [k |-> "struct", address |-> g.address, module |-> g.module,
                   name |-> g.name, args |-> g.args]
           /\ g.args \in Seq(Tag)
      /\ \A c \in Children(g) : c \in TagLevel[Depth]
  BY <1>1, TagShape
<1>3. g.k = "vector" => g.of \in Tag
  BY <1>2 DEF Children, Tag
<1>4. /\ g.k = "struct" => /\ g.address \in Addresses /\ g.address \in STRING
                          /\ g.module \in STRING /\ g.name \in STRING
      /\ g.k \notin {"struct", "vector"} => g.k \in STRING
  BY <1>1, TagNames
<1> QED BY <1>2, <1>3, <1>4

\* The text of a type starts with a word that does not end another.
LEMMA TextHead ==
  ASSUME NEW g \in Tag, OnChain[g], NEW t, NEW u \in Words,
         g.k = "struct" => t = <<g.address, "::", g.module, "::", g.name>> \o u,
         g.k = "vector" => t = <<"vector", "<">> \o u,
         g.k \notin {"struct", "vector"} => t = <<g.k>>
  PROVE  t \in Words /\ t # << >> /\ Head(t) \notin Punctuation
<1>1. CASE g.k = "struct"
  <2> DEFINE a == g.address
  <2> DEFINE five == <<g.address, "::", g.module, "::", g.name>>
  <2>1. a \in Addresses /\ five \in Words
    <3>1. g.address \in STRING /\ g.module \in STRING /\ g.name \in STRING /\ "::" \in STRING
      BY <1>1, WholeTag, SomeWords
    <3> QED BY <1>1, <3>1, FewWords, WholeTag
  <2>2. five # << >> /\ Head(five) = a
    OBVIOUS
  <2>3. t = five \o u
    BY <1>1
  <2> HIDE DEF five, a
  <2>4. t \in Words /\ t # << >> /\ Head(t) = a
    BY <2>1, <2>2, <2>3, FirstOf, Concatenated
  <2> QED BY <2>1, <2>4 DEF Addresses, Punctuation
<1>2. CASE g.k = "vector"
  <2> DEFINE two == <<"vector", "<">>
  <2>1. two \in Words
    BY Signs
  <2>2. two # << >> /\ Head(two) = "vector"
    OBVIOUS
  <2>3. t = two \o u
    BY <1>2
  <2> HIDE DEF two
  <2>4. t \in Words /\ t # << >> /\ Head(t) = "vector"
    BY <2>1, <2>2, <2>3, FirstOf, Concatenated
  <2> QED BY <2>4 DEF Punctuation
<1>3. CASE g.k \notin {"struct", "vector"}
  <2>1. g.k \in Primitives \cup {"signer"}
    <3>1. OnChain[g] = OnChainOf(OnChain, g)
      BY OnChainIs
    <3> QED BY <1>3, <3>1 DEF OnChainOf
  <2>2. g.k \notin Punctuation
    BY <2>1 DEF Punctuation, Primitives
  <2> DEFINE w == <<g.k>>
  <2>3. w # << >> /\ Head(w) = g.k
    OBVIOUS
  <2>4. w \in Words
    BY <1>3, WholeTag, FewWords
  <2>5. t = w
    BY <1>3
  <2> HIDE DEF w
  <2> QED BY <2>2, <2>3, <2>4, <2>5
<1> QED BY <1>1, <1>2, <1>3

\* What follows the name of a struct in a text of the node.
LEMMA NodeArgumentsTyped ==
  ASSUME NEW g \in Tag, g.k = "struct"
  PROVE  NodeArguments(NodeText, g) \in Words
<1>1. g.args \in Seq(Tag)
  BY WholeTag
<1>2. \A i \in DOMAIN g.args : NodeText[g.args[i]] \in Words
  BY <1>1, NodeTyped
<1>3. NodePart(NodeText, g) \in Seq(Words)
  BY <1>1, <1>2, NodePartTyped
<1>4. NodeList(NodeText, g) \in Words
  BY <1>3, Flattened DEF Words, NodeList
<1>5. <<"<">> \in Words /\ <<">">> \in Words /\ << >> \in Words
  BY Signs
<1>6. <<"<">> \o NodeList(NodeText, g) \o <<">">> \in Words
  BY <1>4, <1>5, Concatenated
<1> QED BY <1>5, <1>6, NodeArgumentsAre

\* The text of a vector, when x is the text of its elements.
LEMMA VectorText ==
  ASSUME NEW x \in Words
  PROVE  /\ (<<"vector", "<">> \o x) \o <<">">> = <<"vector", "<">> \o (x \o <<">">>)
         /\ x \o <<">">> \in Words
<1> DEFINE two == <<"vector", "<">>
<1> DEFINE end == <<">">>
<1>1. two \in Words /\ end \in Words
  BY Signs
<1> HIDE DEF two, end
<1>2. (two \o x) \o end = two \o (x \o end) /\ x \o end \in Words
  BY <1>1, Concatenated, ZenonT(40)
<1> QED BY <1>2 DEF two, end

LEMMA NodeHead ==
  ASSUME NEW g \in Tag, OnChain[g]
  PROVE  /\ NodeText[g] \in Words /\ NodeText[g] # << >>
         /\ Head(NodeText[g]) \notin Punctuation
<1> DEFINE t == NodeText[g]
<1>1. t = NodeOf(NodeText, g)
  BY NodeIs
<1> HIDE DEF t
<1>2. CASE g.k = "struct"
  <2> DEFINE u == NodeArguments(NodeText, g)
  <2>1. u \in Words
    BY <1>2, NodeArgumentsTyped
  <2>2. t = <<g.address, "::", g.module, "::", g.name>> \o u
    BY <1>1, <1>2 DEF NodeOf
  <2> HIDE DEF u
  <2> QED BY <1>2, <2>1, <2>2, TextHead DEF t
<1>3. CASE g.k = "vector"
  <2> DEFINE x == NodeText[g.of]
  <2> DEFINE u == x \o <<">">>
  <2>1. x \in Words
    BY <1>3, WholeTag, NodeTyped
  <2>2. t = (<<"vector", "<">> \o x) \o <<">">>
    BY <1>1, <1>3 DEF NodeOf
  <2> HIDE DEF x
  <2>3. u \in Words /\ t = <<"vector", "<">> \o u
    BY <2>1, <2>2, VectorText
  <2> HIDE DEF u
  <2> QED BY <1>3, <2>3, TextHead DEF t
<1>4. CASE g.k \notin {"struct", "vector"}
  <2>1. t = <<g.k>>
    BY <1>1, <1>4 DEF NodeOf
  <2>2. << >> \in Words
    BY Signs
  <2> QED BY <1>4, <2>1, <2>2, TextHead DEF t
<1> QED BY <1>2, <1>3, <1>4

\* u is a list of the texts x, and r follows it.
Spelled(n, x, u, r) ==
  \E s : Listed(n, x, s, <<">">> \o r) /\ u = <<"<">> \o (x[1] \o s[1])

\* A list whose parts are, but for the first, a comma and the text of an element.
ArgumentTexts(n, x, f, g) ==
  /\ n = Len(g.args) /\ g.args \in Seq(Tag) /\ g.args # << >>
  /\ x \in [1..n -> Words]
  /\ \A i \in 1..n : x[i] = f[g.args[i]] /\ x[i] # << >> /\ ~Starts(x[i], ">")

LEMMA NodeListed ==
  ASSUME NEW f, NEW g, NEW n, NEW x, ArgumentTexts(n, x, f, g), NEW r \in Words
  PROVE  Spelled(n, x, NodeArguments(f, g) \o r, r)
<1> DEFINE ss == NodePart(f, g)
<1> DEFINE end == <<">">> \o r
<1>1. /\ n \in Nat \ {0} /\ DOMAIN g.args = 1..n /\ n = Len(g.args) /\ g.args \in Seq(Tag)
      /\ x \in [1..n -> Words] /\ g.args # << >>
      /\ \A i \in 1..n : x[i] \in Words /\ x[i] = f[g.args[i]] /\ x[i] # << >> /\ ~Starts(x[i], ">")
  <2>1. /\ n = Len(g.args) /\ g.args \in Seq(Tag) /\ g.args # << >>
        /\ x \in [1..n -> Words]
        /\ \A i \in 1..n : x[i] = f[g.args[i]] /\ x[i] # << >> /\ ~Starts(x[i], ">")
    BY DEF ArgumentTexts
  <2>2. n \in Nat \ {0} /\ DOMAIN g.args = 1..n
    BY <2>1
  <2> HIDE DEF Words
  <2> QED BY <2>1, <2>2
<1>2. /\ ss \in Seq(Words) /\ Len(ss) = n
      /\ \A i \in 1..n : ss[i] = IF i = 1 THEN x[i] ELSE Comma \o x[i]
  <2>1. \A i \in DOMAIN g.args : f[g.args[i]] \in Words
    BY <1>1
  <2>2. /\ ss \in Seq(Words) /\ Len(ss) = Len(g.args)
        /\ \A i \in DOMAIN g.args : ss[i] = IF i = 1 THEN f[g.args[i]] ELSE Comma \o f[g.args[i]]
    <3>1. g.args \in Seq(Tag)
      BY <1>1
    <3> QED BY <2>1, <3>1, NodePartTyped
  <2> HIDE DEF ss
  <2> QED BY <2>2, <1>1
<1> HIDE DEF ss
<1>3. end \in Words
  BY Signs, Concatenated
<1> HIDE DEF end
<1>4. PICK s \in [1..n -> Words] :
        /\ FlattenSeq(ss) \o end = ss[1] \o s[1] /\ s[n] = end
        /\ \A i \in 2..n : s[i - 1] = ss[i] \o s[i]
  <2>1. ss # << >> /\ Len(ss) = n
    BY <1>1, <1>2
  <2>2. \E s \in [1..Len(ss) -> Words] :
          /\ FlattenSeq(ss) \o end = ss[1] \o s[1] /\ s[Len(ss)] = end
          /\ \A i \in 2..Len(ss) : s[i - 1] = ss[i] \o s[i]
    BY <2>1, <1>2, <1>3, Remains
  <2> QED BY <2>1, <2>2
<1>5. \A i \in 1..n : s[i] \in Words
  BY <1>4
<1>6. 1 \in 1..n /\ ss[1] = x[1]
  <2>1. 1 \in 1..n
    BY <1>1
  <2>2. ss[1] = IF 1 = 1 THEN x[1] ELSE Comma \o x[1]
    BY <2>1, <1>2, Zenon
  <2> QED BY <2>1, <2>2
<1>7. ASSUME NEW i \in 2..n PROVE s[i - 1] = Comma \o (x[i] \o s[i])
  <2>1. i \in 1..n /\ i # 1
    BY <1>1
  <2> DEFINE a == x[i]
  <2> DEFINE b == s[i]
  <2> DEFINE c == Comma
  <2>2. a \in Words /\ b \in Words /\ c \in Words
    BY <2>1, <1>1, <1>5, Signs
  <2>3. s[i - 1] = (c \o a) \o b
    BY <2>1, <1>2, <1>4
  <2> HIDE DEF a, b, c
  <2>4. (c \o a) \o b = c \o (a \o b)
    BY <2>2, Concatenated, ZenonT(40)
  <2> QED BY <2>3, <2>4 DEF a, b, c
<1>8. Listed(n, x, s, end)
  <2>1. x \in [1..n -> Words] /\ s \in [1..n -> Words]
    <3> HIDE DEF Words
    <3> QED BY <1>1, <1>4
  <2> QED BY <2>1, <1>1, <1>4, <1>7 DEF Listed
<1>9. NodeArguments(f, g) \o r = <<"<">> \o (x[1] \o s[1])
  <2> DEFINE F == FlattenSeq(ss)
  <2> DEFINE a == <<"<">>
  <2> DEFINE b == <<">">>
  <2>1. NodeArguments(f, g) = (a \o F) \o b
    BY <1>1, NodeArgumentsAre DEF ss, NodeList
  <2>2. F \in Words /\ a \in Words /\ b \in Words
    BY <1>2, Flattened, Signs DEF Words
  <2>3. F \o end = x[1] \o s[1] /\ end = b \o r
    BY <1>4, <1>6 DEF end
  <2> HIDE DEF F, a, b
  <2>4. (a \o F) \in Words
    BY <2>2, Concatenated
  <2>5. ((a \o F) \o b) \o r = (a \o F) \o (b \o r)
    BY <2>2, <2>4, Concatenated, ZenonT(40)
  <2>6. (a \o F) \o end = a \o (F \o end)
    BY <2>2, <1>3, Concatenated, ZenonT(40)
  <2>7. NodeArguments(f, g) \o r = a \o (x[1] \o s[1])
    BY <2>1, <2>3, <2>5, <2>6
  <2> QED BY <2>7 DEF a
<1> QED BY <1>8, <1>9 DEF end, Spelled

\* Words that end a type start no type, and what starts with such a word ends.
LEMMA EndsAre ==
  ASSUME NEW r \in Words
  PROVE  LET close == <<">">> \o r  comma == Comma \o r IN
         /\ close \in Words /\ Ends(close) /\ Starts(close, ">") /\ Tail(close) = r /\ close # << >>
         /\ comma \in Words /\ Ends(comma)
<1>1. ">" \in STRING /\ "," \in STRING
  BY SomeWords
<1> QED BY <1>1, FirstWord DEF Ends, Comma

\* What the parser makes of a vector, when it is known what it makes of its element.
LEMMA VectorParsed ==
  ASSUME NEW given, NEW x \in Words, NEW r \in Words, NEW of
  PROVE  LET p == Parser(given)[((<<"vector", "<">> \o x) \o <<">">>) \o r]["tag"]
             q == Parser(given)[x \o (<<">">> \o r)]["tag"]
         IN /\ q = Parsed(of, <<">">> \o r) => p = Parsed(Vector(of), r)
            /\ Misses(q) => p = Invalid
<1> DEFINE R == Parser(given)
<1> DEFINE close == <<">">> \o r
<1> DEFINE u == x \o close
<1> DEFINE v == <<"<">> \o u
<1> DEFINE t == <<"vector">> \o v
<1>2. close \in Words /\ Starts(close, ">") /\ Tail(close) = r /\ close # << >>
  BY EndsAre
<1> HIDE DEF close
<1>3. u \in Words
  BY <1>2, Concatenated
<1>4. v \in Words /\ Starts(v, "<") /\ Tail(v) = u
  <2>1. "<" \in STRING
    BY SomeWords
  <2> HIDE DEF u
  <2> QED BY <1>3, <2>1, FirstWord
<1>5. t \in Words /\ t # << >> /\ Head(t) = "vector" /\ Tail(t) = v
  <2>1. "vector" \in STRING
    BY SomeWords
  <2> HIDE DEF v
  <2> QED BY <1>4, <2>1, FirstWord
<1>6. ((<<"vector", "<">> \o x) \o <<">">>) \o r = t
  <2> DEFINE two == <<"vector", "<">>
  <2> DEFINE a == <<"vector">>
  <2> DEFINE b == <<"<">>
  <2> DEFINE c == <<">">>
  <2>2. a \in Words /\ b \in Words /\ c \in Words /\ two \in Words /\ two = a \o b
    <3>1. a \in Words
      BY SomeWords, ShortSequences DEF Words
    <3>2. two = a \o b
      OBVIOUS
    <3> QED BY <3>1, <3>2, Signs
  <2>3. close = c \o r
    BY DEF close
  <2> HIDE DEF two, a, b, c
  <2>4. two \o x \in Words
    BY <2>2, Concatenated
  <2>5. ((two \o x) \o c) \o r = (two \o x) \o (c \o r)
    <3>1. two \o x \in Words /\ c \in Words /\ r \in Words
      BY <2>2, <2>4
    <3> DEFINE y == two \o x
    <3> HIDE DEF y
    <3>2. (y \o c) \o r = y \o (c \o r)
      <4>1. y \in Words /\ c \in Words /\ r \in Words
        BY <3>1 DEF y
      <4> QED BY <4>1, Concatenated, ZenonT(40)
    <3> QED BY <3>2 DEF y
  <2>6. (two \o x) \o close = two \o (x \o close)
    <3>1. two \in Words /\ x \in Words /\ close \in Words
      BY <1>2, <2>2
    <3> QED BY <3>1, Concatenated, ZenonT(40)
  <2>7. (a \o b) \o u = a \o (b \o u)
    <3> HIDE DEF u
    <3> QED BY <1>3, <2>2, Concatenated, ZenonT(40)
  <2>8. ((two \o x) \o c) \o r = a \o (b \o u)
    BY <2>2, <2>3, <2>5, <2>6, <2>7
  <2> QED BY <2>8 DEF two, a, b, c
<1> DEFINE p == R[t]["tag"]
<1> DEFINE q == R[u]["tag"]
<1>7. p = ParseVector(R, v)
  <2>1. p = ParseTag(R, given, t)
    BY <1>5, ParserMeets
  <2> HIDE DEF R, t, v
  <2> QED BY <1>5, <2>1, TagEquations
<1> HIDE DEF R, t, u
<1> DEFINE end == Consume(q.rest, ">")
<1>8. p = IF q.ok /\ end.ok THEN Parsed(Vector(q.tag), end.rest) ELSE Invalid
  <2> HIDE DEF v
  <2> QED BY <1>4, <1>7 DEF ParseVector
<1> HIDE DEF p, q, v
<1>9. q = Parsed(of, close) => p = Parsed(Vector(of), r)
  <2> SUFFICES ASSUME q = Parsed(of, close) PROVE p = Parsed(Vector(of), r)
    OBVIOUS
  <2>1. q.ok /\ q.tag = of /\ q.rest = close
    BY Outcomes
  <2>2. end.ok /\ end.rest = r
    BY <1>2, <2>1 DEF Consume
  <2> HIDE DEF end
  <2> QED BY <1>8, <2>1, <2>2
<1>10. Misses(q) => p = Invalid
  <2> SUFFICES ASSUME Misses(q) PROVE p = Invalid
    OBVIOUS
  <2>1. ~(q.ok /\ end.ok)
    BY Outcomes DEF Misses, Ends, Consume
  <2> HIDE DEF end
  <2> QED BY <1>8, <2>1
<1> QED BY <1>6, <1>9, <1>10 DEF p, q, R, u, close

\* What follows the name of a struct: nothing, or the list of its arguments, then r.
Follows(R, u, r, n, es, good) ==
  \/ n = 0 /\ u = r
  \/ \E x, s : /\ Listed(n, x, s, <<">">> \o r) /\ ReadAs(R, n, x, s, es, good)
               /\ u = <<"<">> \o (x[1] \o s[1])

LEMMA EndsOtherwise == \A r : Ends(r) => ~Starts(r, "<")
BY DEF Ends, Starts

LEMMA NoElements ==
  ASSUME NEW S, NEW es \in Seq(S), Len(es) = 0
  PROVE  es = << >>
OBVIOUS

LEMMA ListedFirst ==
  ASSUME NEW n, NEW x, NEW s, NEW end, Listed(n, x, s, end)
  PROVE  x[1] \in Words /\ s[1] \in Words /\ x[1] # << >> /\ ~Starts(x[1], ">")
<1>1. n \in Nat \ {0} /\ x \in [1..n -> Words] /\ s \in [1..n -> Words]
      /\ \A i \in 1..n : x[i] # << >> /\ ~Starts(x[i], ">")
  BY DEF Listed
<1>2. 1 \in 1..n
  BY <1>1
<1> HIDE DEF Words
<1> QED BY <1>1, <1>2

LEMMA ArgumentsRead ==
  ASSUME NEW given, NEW S, NEW es \in Seq(S), NEW n, n = Len(es), NEW good, NEW r \in Words, Ends(r),
         NEW u, Follows(Parser(given), u, r, n, es, good)
  PROVE  LET a == StructArguments(Parser(given), u)
         IN /\ u \in Words
            /\ IF 1..n \subseteq good THEN a = ParsedList(es, r) ELSE ~a.ok
<1> DEFINE R == Parser(given)
<1> DEFINE a == StructArguments(R, u)
<1>1. CASE n = 0 /\ u = r
  <2>1. a = ParsedList(<< >>, r)
    <3>1. ~Starts(u, "<")
      BY <1>1, EndsOtherwise
    <3> QED BY <3>1, <1>1 DEF StructArguments
  <2>2. es = << >> /\ 1..n = {}
    <3>1. Len(es) = 0 /\ 1..n = {}
      BY <1>1
    <3> QED BY <3>1, NoElements
  <2> HIDE DEF a
  <2> QED BY <1>1, <2>1, <2>2 DEF a
<1>2. ASSUME NEW x, NEW s, Listed(n, x, s, <<">">> \o r), ReadAs(R, n, x, s, es, good),
             u = <<"<">> \o (x[1] \o s[1])
      PROVE  /\ u \in Words
             /\ IF 1..n \subseteq good THEN a = ParsedList(es, r) ELSE ~a.ok
  <2> DEFINE v == x[1] \o s[1]
  <2> DEFINE end == <<">">> \o r
  <2> DEFINE l == R[v]["list"]
  <2>1. IF 1..n \subseteq good THEN l = ParsedList(es, end) ELSE ~l.ok
    BY <1>2, ListRead
  <2>2. x[1] \in Words /\ s[1] \in Words /\ x[1] # << >> /\ ~Starts(x[1], ">")
    BY <1>2, ListedFirst
  <2>3. v \in Words /\ ~Starts(v, ">")
    <3>1. ~Starts(v, ">")
      BY <2>2, FirstOf DEF Starts
    <3> QED BY <2>2, <3>1, Concatenated
  <2>4. end \in Words /\ Tail(end) = r
    BY EndsAre
  <2> HIDE DEF v, end
  <2>5. u \in Words /\ Starts(u, "<") /\ Tail(u) = v
    <3>1. "<" \in STRING
      BY SomeWords
    <3>2. u = <<"<">> \o v
      BY <1>2 DEF v
    <3> QED BY <3>1, <3>2, <2>3, FirstWord
  <2>6. a = IF l.ok THEN ParsedList(l.tags, Tail(l.rest)) ELSE Invalid
    BY <2>3, <2>5 DEF StructArguments
  <2> HIDE DEF a, l
  <2>7. IF 1..n \subseteq good THEN a = ParsedList(es, r) ELSE ~a.ok
    <3>1. CASE 1..n \subseteq good
      <4>1. l.ok /\ l.tags = es /\ l.rest = end
        BY <2>1, <3>1, Outcomes
      <4> QED BY <2>4, <2>6, <3>1, <4>1
    <3>2. CASE ~(1..n \subseteq good)
      BY <2>1, <2>6, <3>2, Outcomes
    <3> QED BY <3>1, <3>2
  <2> QED BY <2>5, <2>7
<1>3. (n = 0 /\ u = r) \/ \E x, s : /\ Listed(n, x, s, <<">">> \o r) /\ ReadAs(R, n, x, s, es, good)
               /\ u = <<"<">> \o (x[1] \o s[1])
  BY DEF Follows
<1> DEFINE Meets == u \in Words /\ IF 1..n \subseteq good THEN a = ParsedList(es, r) ELSE ~a.ok
<1>4. n = 0 /\ u = r => Meets
  BY <1>1
<1>5. \A x, s : /\ Listed(n, x, s, <<">">> \o r) /\ ReadAs(R, n, x, s, es, good)
               /\ u = <<"<">> \o (x[1] \o s[1]) => Meets
  BY <1>2
<1>6. Meets
  <2> HIDE DEF Meets, R
  <2> QED BY <1>3, <1>4, <1>5, Zenon
<1> QED BY <1>6

LEMMA ListedEnds ==
  ASSUME NEW n, NEW x, NEW s, NEW r \in Words, Listed(n, x, s, <<">">> \o r)
  PROVE  \A i \in 1..n : s[i] \in Words /\ Ends(s[i])
<1> DEFINE end == <<">">> \o r
<1>1. end \in Words /\ Ends(end) /\ Ends(Comma \o end)
  <2>1. end \in Words /\ Ends(end)
    BY EndsAre
  <2> HIDE DEF end
  <2>2. Ends(Comma \o end)
    BY <2>1, EndsAre
  <2> QED BY <2>1, <2>2
<1>2. /\ n \in Nat \ {0} /\ x \in [1..n -> Words] /\ s \in [1..n -> Words]
      /\ \A i \in 2..n : s[i - 1] = Comma \o (x[i] \o s[i])
      /\ s[n] = end \/ s[n] = Comma \o end
  BY DEF Listed
<1> HIDE DEF end, Words
<1> SUFFICES ASSUME NEW i \in 1..n PROVE s[i] \in Words /\ Ends(s[i])
  OBVIOUS
<1>3. s[i] \in Words
  BY <1>2
<1>4. CASE i = n
  BY <1>1, <1>2, <1>3, <1>4
<1>5. CASE i # n
  <2> DEFINE j == i + 1
  <2>1. j \in 2..n /\ j - 1 = i /\ j \in 1..n
    <3>1. n \in Nat \ {0}
      BY <1>2
    <3> QED BY <3>1, <1>5
  <2> HIDE DEF j
  <2> DEFINE v == x[j] \o s[j]
  <2>2. v \in Words
    <3>1. x[j] \in Words /\ s[j] \in Words
      BY <2>1, <1>2
    <3> QED BY <3>1, Concatenated
  <2>3. s[i] = Comma \o v
    BY <1>2, <2>1
  <2> HIDE DEF v
  <2>4. Ends(Comma \o v)
    BY <2>2, EndsAre
  <2> QED BY <1>3, <2>3, <2>4
<1> QED BY <1>4, <1>5

\* The text of a struct, with what follows it.
LEMMA StructSpelled ==
  ASSUME NEW g \in Tag, g.k = "struct", NEW r \in Words,
         NEW u, u = NodeArguments(NodeText, g) \o r
  PROVE  /\ NodeText[g] \o r = <<g.address, "::", g.module, "::", g.name>> \o u
         /\ u \in Words /\ NodeArguments(NodeText, g) \in Words
<1> DEFINE five == <<g.address, "::", g.module, "::", g.name>>
<1> DEFINE a == NodeArguments(NodeText, g)
<1>1. NodeText[g] = five \o a
  <2>1. NodeText[g] = NodeOf(NodeText, g)
    BY NodeIs
  <2> QED BY <2>1 DEF NodeOf
<1>2. five \in Words
  <2>1. g.address \in STRING /\ g.module \in STRING /\ g.name \in STRING /\ "::" \in STRING
    BY WholeTag, SomeWords
  <2> QED BY <2>1, FewWords
<1>3. a \in Words
  BY NodeArgumentsTyped
<1> HIDE DEF five, a
<1>4. (five \o a) \o r = five \o (a \o r) /\ a \o r \in Words
  BY <1>2, <1>3, Concatenated, ZenonT(40)
<1>5. u = a \o r
  BY DEF a
<1> QED BY <1>1, <1>3, <1>4, <1>5 DEF five, a

LEMMA OnChainParts ==
  ASSUME NEW g \in Tag, OnChain[g]
  PROVE  /\ g.k = "vector" => OnChain[g.of]
         /\ g.k = "struct" => /\ {g.module, g.name} \cap Punctuation = {}
                              /\ NamedObject(g) => Len(g.args) = 1
                              /\ \A i \in DOMAIN g.args : OnChain[g.args[i]] /\ g.args[i] \in Tag
<1>1. OnChain[g] = OnChainOf(OnChain, g)
  BY OnChainIs
<1>2. g.k = "struct" => OnChainStruct(OnChain, g)
  BY <1>1 DEF OnChainOf
<1>3. g.k = "struct" => \A i \in DOMAIN g.args : g.args[i] \in Tag
  <2>1. g.k = "struct" => g.args \in Seq(Tag)
    BY WholeTag
  <2> QED BY <2>1
<1>4. g.k = "vector" => OnChain[g.of]
  BY <1>1 DEF OnChainOf
<1> QED BY <1>2, <1>3, <1>4 DEF OnChainStruct

LEMMA JoinedIs ==
  ASSUME NEW o \in Words, NEW q \in Words, NEW w \in Words, Len(w) = Len(o) + Len(q),
         \A i \in 1..Len(o) : w[i] = o[i], \A i \in 1..Len(q) : w[Len(o) + i] = q[i]
  PROVE  o \o q = w
<1> DEFINE v == o \o q
<1>1. /\ v \in Words /\ Len(v) = Len(o) + Len(q) /\ Len(o) \in Nat /\ Len(q) \in Nat
      /\ \A i \in 1..Len(o) : v[i] = o[i]
      /\ \A i \in 1..Len(q) : v[Len(o) + i] = q[i]
  BY Both
<1> HIDE DEF v
<1>2. ASSUME NEW i \in 1..Len(v) PROVE v[i] = w[i]
  <2>1. CASE i \in 1..Len(o)
    BY <1>1, <2>1
  <2>2. CASE i \notin 1..Len(o)
    <3> DEFINE j == i - Len(o)
    <3>1. j \in 1..Len(q) /\ Len(o) + j = i
      BY <1>1, <2>2
    <3> HIDE DEF j
    <3>2. v[Len(o) + j] = q[j] /\ w[Len(o) + j] = q[j]
      BY <3>1, <1>1
    <3> QED BY <3>1, <3>2
  <2> QED BY <2>1, <2>2
<1>3. v = w
  BY <1>1, <1>2, Same
<1> QED BY <1>3 DEF v

LEMMA JoinedTwo ==
  ASSUME NEW a \in STRING, NEW b \in STRING
  PROVE  <<a>> \o <<b>> = <<a, b>>
<1> DEFINE o == <<a>>
<1> DEFINE q == <<b>>
<1> DEFINE w == <<a, b>>
<1>1. o \in Words /\ q \in Words /\ w \in Words
  BY FewWords
<1>2. Len(o) = 1 /\ Len(q) = 1 /\ Len(w) = 2 /\ o[1] = a /\ q[1] = b /\ w[1] = a /\ w[2] = b
  OBVIOUS
<1> HIDE DEF o, q, w
<1>3. Len(w) = Len(o) + Len(q)
  BY <1>2
<1>4. \A i \in 1..Len(o) : w[i] = o[i]
  <2>1. \A i \in 1..Len(o) : i = 1
    BY <1>2
  <2> QED BY <1>2, <2>1
<1>5. \A i \in 1..Len(q) : w[Len(o) + i] = q[i]
  <2>1. \A i \in 1..Len(q) : i \in {1}
    BY <1>2
  <2>2. w[Len(o) + 1] = q[1]
    <3>1. Len(o) + 1 = 2
      BY <1>2
    <3> QED BY <1>2, <3>1
  <2> QED BY <2>1, <2>2
<1> QED BY <1>1, <1>3, <1>4, <1>5, JoinedIs DEF o, q, w

LEMMA JoinedThree ==
  ASSUME NEW a \in STRING, NEW b \in STRING, NEW c \in STRING
  PROVE  <<a>> \o <<b, c>> = <<a, b, c>>
<1> DEFINE o == <<a>>
<1> DEFINE q == <<b, c>>
<1> DEFINE w == <<a, b, c>>
<1>1. o \in Words /\ q \in Words /\ w \in Words
  BY FewWords
<1>2. /\ Len(o) = 1 /\ Len(q) = 2 /\ Len(w) = 3 /\ o[1] = a /\ q[1] = b /\ q[2] = c
      /\ w[1] = a /\ w[2] = b /\ w[3] = c
  OBVIOUS
<1> HIDE DEF o, q, w
<1>3. Len(w) = Len(o) + Len(q)
  BY <1>2
<1>4. \A i \in 1..Len(o) : w[i] = o[i]
  <2>1. \A i \in 1..Len(o) : i = 1
    BY <1>2
  <2> QED BY <1>2, <2>1
<1>5. \A i \in 1..Len(q) : w[Len(o) + i] = q[i]
  <2>1. \A i \in 1..Len(q) : i \in {1, 2}
    BY <1>2
  <2>2. w[Len(o) + 1] = q[1] /\ w[Len(o) + 2] = q[2]
    <3>1. Len(o) + 1 = 2 /\ Len(o) + 2 = 3
      BY <1>2
    <3> QED BY <1>2, <3>1
  <2> QED BY <2>1, <2>2
<1> QED BY <1>1, <1>3, <1>4, <1>5, JoinedIs DEF o, q, w

LEMMA JoinedFive ==
  ASSUME NEW o \in Words, NEW q \in Words, NEW w \in Words, Len(o) = 2, Len(q) = 3, Len(w) = 5,
         w[1] = o[1], w[2] = o[2], w[3] = q[1], w[4] = q[2], w[5] = q[3]
  PROVE  o \o q = w
<1>3. Len(w) = Len(o) + Len(q)
  OBVIOUS
<1>4. \A i \in 1..Len(o) : w[i] = o[i]
  <2>1. \A i \in 1..Len(o) : i \in {1, 2}
    OBVIOUS
  <2> QED BY <2>1
<1>5. \A i \in 1..Len(q) : w[Len(o) + i] = q[i]
  <2>1. \A i \in 1..Len(q) : i \in {1, 2, 3}
    OBVIOUS
  <2>2. w[Len(o) + 1] = q[1] /\ w[Len(o) + 2] = q[2] /\ w[Len(o) + 3] = q[3]
    <3>1. Len(o) + 1 = 3 /\ Len(o) + 2 = 4 /\ Len(o) + 3 = 5
      OBVIOUS
    <3> QED BY <3>1
  <2> QED BY <2>1, <2>2
<1> QED BY <1>3, <1>4, <1>5, JoinedIs

LEMMA OneMore ==
  ASSUME NEW a \in STRING, NEW b \in STRING, NEW c \in STRING, NEW v \in Words
  PROVE  <<a>> \o (<<b, c>> \o v) = <<a, b, c>> \o v /\ <<b, c>> \o v \in Words
<1> DEFINE o == <<a>>
<1> DEFINE q == <<b, c>>
<1>1. o \in Words /\ q \in Words
  BY FewWords
<1>2. o \o q = <<a, b, c>>
  BY JoinedThree
<1> HIDE DEF o, q
<1>3. (o \o q) \o v = o \o (q \o v) /\ q \o v \in Words
  BY <1>1, Concatenated, ZenonT(40)
<1> QED BY <1>2, <1>3 DEF o, q

\* The text of a type is one word, or its third word ends no type.
LongText(t) == \E b \in STRING, c \in STRING, v \in Words :
                 t = <<b, c>> \o v /\ v # << >> /\ Head(v) \notin Punctuation

LEMMA NodeWords ==
  ASSUME NEW g \in Tag, OnChain[g]
  PROVE  \/ Len(NodeText[g]) = 1 /\ \E w \in STRING : NodeText[g] = <<w>>
         \/ Len(NodeText[g]) # 1 /\ LongText(NodeText[g])
<1> DEFINE t == NodeText[g]
<1>0. t = NodeOf(NodeText, g)
  BY NodeIs
<1>1. ASSUME LongText(t) PROVE Len(t) # 1
  <2>1. PICK b \in STRING, c \in STRING, v \in Words :
               t = <<b, c>> \o v /\ v # << >> /\ Head(v) \notin Punctuation
    BY <1>1 DEF LongText
  <2> DEFINE o == <<b, c>>
  <2>2. o \in Words
    BY FewWords
  <2>3. Len(o) = 2
    OBVIOUS
  <2>4. t = o \o v
    BY <2>1
  <2> HIDE DEF o, t
  <2>5. Len(t) = Len(o) + Len(v) /\ Len(v) \in Nat \ {0}
    BY <2>1, <2>2, <2>4, Both, Tails
  <2> QED BY <2>3, <2>5
<1>2. CASE g.k = "struct"
  <2> DEFINE m == g.module
  <2> DEFINE d == g.name
  <2> DEFINE a == g.address
  <2> DEFINE u == NodeArguments(NodeText, g)
  <2>1. a \in STRING /\ m \in STRING /\ d \in STRING /\ "::" \in STRING
    BY <1>2, WholeTag, SomeWords
  <2>2. u \in Words
    BY <1>2, NodeArgumentsTyped
  <2>3. t = <<a, "::", m, "::", d>> \o u
    BY <1>0, <1>2 DEF NodeOf
  <2>4. m \notin Punctuation
    BY <1>2, OnChainParts
  <2> HIDE DEF a, m, d, u, t
  <2> DEFINE v == <<m, "::", d>> \o u
  <2>5. t = <<a, "::">> \o v /\ v \in Words
    <3> DEFINE o == <<a, "::">>
    <3> DEFINE q == <<m, "::", d>>
    <3> DEFINE w == <<a, "::", m, "::", d>>
    <3>1. o \in Words /\ q \in Words /\ w \in Words
      BY <2>1, FewWords
    <3>2. /\ Len(o) = 2 /\ Len(q) = 3 /\ Len(w) = 5
          /\ w[1] = o[1] /\ w[2] = o[2] /\ w[3] = q[1] /\ w[4] = q[2] /\ w[5] = q[3]
      OBVIOUS
    <3> HIDE DEF o, q, w
    <3>3. o \o q = w
      BY <3>1, <3>2, JoinedFive
    <3>4. (o \o q) \o u = o \o (q \o u) /\ q \o u \in Words
      BY <3>1, <2>2, Concatenated, ZenonT(40)
    <3>5. t = w \o u
      BY <2>3 DEF w
    <3> QED BY <3>3, <3>4, <3>5 DEF o, q
  <2>6. v # << >> /\ Head(v) = m
    <3> DEFINE q == <<m, "::", d>>
    <3>1. q \in Words
      BY <2>1, FewWords
    <3>2. q # << >> /\ Head(q) = m
      OBVIOUS
    <3> HIDE DEF q
    <3>3. q \o u # << >> /\ Head(q \o u) = Head(q)
      BY <3>1, <3>2, <2>2, FirstOf
    <3> QED BY <3>2, <3>3 DEF q
  <2> HIDE DEF v
  <2>7. LongText(t)
    BY <2>1, <2>4, <2>5, <2>6 DEF LongText
  <2> QED BY <2>7, <1>1 DEF t
<1>3. CASE g.k = "vector"
  <2> DEFINE x == NodeText[g.of]
  <2> DEFINE v == x \o <<">">>
  <2>1. x \in Words /\ x # << >> /\ Head(x) \notin Punctuation
    BY <1>3, WholeTag, OnChainParts, NodeHead
  <2>2. <<">">> \in Words /\ <<"vector", "<">> \in Words /\ "vector" \in STRING /\ "<" \in STRING
    BY Signs, SomeWords
  <2>3. t = (<<"vector", "<">> \o x) \o <<">">>
    BY <1>0, <1>3 DEF NodeOf
  <2> DEFINE end == <<">">>
  <2> HIDE DEF x, t
  <2>4. t = <<"vector", "<">> \o v
    BY <2>1, <2>3, VectorText
  <2>5. v \in Words /\ v # << >> /\ Head(v) \notin Punctuation
    <3> HIDE DEF end
    <3>1. end \in Words
      BY <2>2 DEF end
    <3>2. x \o end \in Words /\ x \o end # << >> /\ Head(x \o end) = Head(x)
      BY <2>1, <3>1, FirstOf, Concatenated
    <3> QED BY <2>1, <3>2 DEF end
  <2> HIDE DEF v
  <2>6. LongText(t)
    BY <2>2, <2>4, <2>5 DEF LongText
  <2> QED BY <2>6, <1>1 DEF t
<1>4. CASE g.k \notin {"struct", "vector"}
  <2>1. t = <<g.k>>
    BY <1>0, <1>4 DEF NodeOf
  <2>2. g.k \in STRING
    BY <1>4, WholeTag
  <2>3. Len(<<g.k>>) = 1
    OBVIOUS
  <2> QED BY <2>1, <2>2, <2>3
<1> QED BY <1>2, <1>3, <1>4

\* What is left after an Object: r if its argument is a word, else what ends no type.
LEMMA ObjectRest ==
  ASSUME NEW g \in Tag, g.k = "struct", OnChain[g], Len(g.args) = 1, NEW r \in Words,
         NEW u, u = NodeArguments(NodeText, g) \o r
  PROVE  LET v == SubSeq(u, 4, Len(u)) IN
         /\ v \in Words
         /\ Len(NodeText[g.args[1]]) = 1 => v = r
         /\ Len(NodeText[g.args[1]]) # 1 => v # << >> /\ Head(v) \notin Punctuation
<1> DEFINE t == NodeText[g.args[1]]
<1> DEFINE close == <<">">> \o r
<1>1. g.args \in Seq(Tag) /\ DOMAIN g.args = 1..1 /\ 1 \in DOMAIN g.args /\ g.args # << >>
  <2>1. g.args \in Seq(Tag)
    BY WholeTag
  <2> QED BY <2>1
<1>2. g.args[1] \in Tag /\ OnChain[g.args[1]]
  BY <1>1, OnChainParts
<1>3. t \in Words
  BY <1>2, NodeTyped
<1>4. close \in Words
  BY EndsAre
<1>5. u = <<"<">> \o (t \o close)
  <2>1. NodeList(NodeText, g) = t
    <3> DEFINE ss == NodePart(NodeText, g)
    <3>1. \A i \in DOMAIN g.args : NodeText[g.args[i]] \in Words
      BY <1>1, <1>3
    <3>2. /\ ss \in Seq(Words) /\ Len(ss) = Len(g.args)
          /\ \A i \in DOMAIN g.args :
               ss[i] = IF i = 1 THEN NodeText[g.args[i]] ELSE Comma \o NodeText[g.args[i]]
      BY <1>1, <3>1, NodePartTyped
    <3> HIDE DEF ss
    <3>3. ss[1] = t /\ Len(ss) = 1
      BY <1>1, <3>2
    <3> HIDE DEF t
    <3>4. ss = <<t>>
      BY <3>2, <3>3
    <3>5. FlattenSeq(ss) = t
      <4>1. t \in Seq(STRING)
        BY <1>3 DEF t, Words
      <4>2. FlattenSeq(<<t>>) = t
        BY <4>1, FlattenOne
      <4> QED BY <3>4, <4>2
    <3> QED BY <3>5 DEF NodeList, ss, t
  <2> DEFINE a == <<"<">>
  <2> DEFINE b == <<">">>
  <2>2. a \in Words /\ b \in Words /\ close = b \o r
    BY Signs
  <2>3. u = ((a \o t) \o b) \o r
    BY <1>1, <2>1, NodeArgumentsAre
  <2> HIDE DEF a, b, close, t
  <2>4. a \o t \in Words
    BY <1>3, <2>2, Concatenated
  <2>5. ((a \o t) \o b) \o r = (a \o t) \o (b \o r)
    BY <2>2, <2>4, Concatenated, ZenonT(40)
  <2>6. (a \o t) \o close = a \o (t \o close)
    BY <1>3, <1>4, <2>2, Concatenated, ZenonT(40)
  <2>7. u = a \o (t \o close)
    BY <2>2, <2>3, <2>5, <2>6
  <2> QED BY <2>7 DEF a
<1>6. "<" \in STRING /\ ">" \in STRING
  BY SomeWords
<1> DEFINE v == SubSeq(u, 4, Len(u))
<1>7. ASSUME NEW w \in STRING, t = <<w>> PROVE v = r
  <2>1. u = <<"<">> \o (<<w>> \o close)
    BY <1>5, <1>7
  <2>2. <<w>> \o close = <<w, ">">> \o r
    <3> DEFINE a == <<w>>
    <3> DEFINE b == <<">">>
    <3>1. a \in Words /\ b \in Words /\ a \o b = <<w, ">">> /\ close = b \o r
      <4>1. a \o b = <<w, ">">>
        <5> DEFINE x == ">"
        <5>1. x \in STRING
          BY <1>6
        <5> HIDE DEF x
        <5>2. <<w>> \o <<x>> = <<w, x>>
          BY <5>1, JoinedTwo
        <5> QED BY <5>2 DEF x
      <4> QED BY <4>1, <1>6, FewWords
    <3> HIDE DEF a, b, close
    <3>2. (a \o b) \o r = a \o (b \o r)
      <4>1. a \in Words /\ b \in Words /\ r \in Words
        BY <3>1
      <4> QED BY <4>1, Concatenated, ZenonT(40)
    <3> QED BY <3>1, <3>2 DEF a
  <2>3. u = <<"<", w, ">">> \o r
    <3> HIDE DEF close
    <3>1. <<"<">> \o (<<w, ">">> \o r) = <<"<", w, ">">> \o r
      BY <1>6, OneMore
    <3> QED BY <2>1, <2>2, <3>1
  <2> QED BY <2>3, <1>6, ThreeWords
<1>8. ASSUME LongText(t) PROVE v \in Words /\ v # << >> /\ Head(v) \notin Punctuation
  <2>1. PICK b \in STRING, c \in STRING, x \in Words :
               t = <<b, c>> \o x /\ x # << >> /\ Head(x) \notin Punctuation
    BY <1>8 DEF LongText
  <2> DEFINE q == <<b, c>>
  <2> DEFINE y == x \o close
  <2>2. t = q \o x /\ q \in Words
    BY <2>1, FewWords
  <2> HIDE DEF q, t, close
  <2>3. t \o close = q \o y /\ y \in Words
    <3>1. (q \o x) \o close = q \o (x \o close) /\ x \o close \in Words
      BY <2>2, <1>4, Concatenated, ZenonT(40)
    <3> QED BY <3>1, <2>2
  <2>4. y # << >> /\ Head(y) = Head(x)
    BY <2>1, <1>4, FirstOf
  <2> HIDE DEF y
  <2>5. u = <<"<", b, c>> \o y
    <3>1. u = <<"<">> \o (<<b, c>> \o y)
      BY <1>5, <2>3 DEF q
    <3> DEFINE l == "<"
    <3>2. l \in STRING
      BY <1>6
    <3> HIDE DEF l
    <3>3. <<l>> \o (<<b, c>> \o y) = <<l, b, c>> \o y
      BY <2>3, <3>2, OneMore
    <3> QED BY <3>1, <3>3 DEF l
  <2>6. v = y
    BY <2>3, <2>5, <1>6, ThreeWords
  <2> QED BY <2>1, <2>3, <2>4, <2>6
<1> HIDE DEF v
<1>9. \/ Len(t) = 1 /\ \E w \in STRING : t = <<w>>
      \/ Len(t) # 1 /\ LongText(t)
  BY <1>2, NodeWords
<1> HIDE DEF t
<1> QED BY <1>7, <1>8, <1>9 DEF v, t

(***************************************************************************)
(* The texts of the printer                                                *)
(***************************************************************************)

PrintArguments(f, g) == PrintedArguments([i \in DOMAIN g.args |-> f[g.args[i]]])

PrintPart(f, g) == [i \in DOMAIN g.args |-> Append(f[g.args[i]], ",")]

LEMMA PrintArgumentsAre ==
  ASSUME NEW f, NEW g, g.args \in Seq(Tag)
  PROVE  PrintArguments(f, g) = IF g.args = << >> THEN << >>
                                ELSE <<"<">> \o FlattenSeq(PrintPart(f, g)) \o <<">">>
<1> DEFINE texts == [i \in DOMAIN g.args |-> f[g.args[i]]]
<1>1. PrintArguments(f, g) = IF texts = << >> THEN << >>
        ELSE <<"<">> \o FlattenSeq([i \in DOMAIN texts |-> Append(texts[i], ",")]) \o <<">">>
  BY DEF PrintArguments, PrintedArguments
<1>2. texts = << >> <=> g.args = << >>
  OBVIOUS
<1>3. [i \in DOMAIN texts |-> Append(texts[i], ",")] = PrintPart(f, g)
  BY DEF PrintPart
<1> HIDE DEF texts
<1> QED BY <1>1, <1>2, <1>3

LEMMA WordAppended ==
  ASSUME NEW t \in Words
  PROVE  Append(t, ",") = t \o Comma /\ t \o Comma \in Words
<1>1. \A S : \A s \in Seq(S) : \A e \in S : Append(s, e) = s \o <<e>>
  OBVIOUS
<1>2. "," \in STRING
  BY SomeWords
<1>3. Append(t, ",") = t \o <<",">>
  BY <1>1, <1>2, Zenon DEF Words
<1> QED BY <1>3, Signs, Concatenated DEF Comma

LEMMA PrintListed ==
  ASSUME NEW f, NEW g, NEW n, NEW x, ArgumentTexts(n, x, f, g), NEW r \in Words
  PROVE  Spelled(n, x, PrintArguments(f, g) \o r, r)
<1> DEFINE ss == PrintPart(f, g)
<1> DEFINE end == <<">">> \o r
<1>1. /\ n \in Nat \ {0} /\ DOMAIN g.args = 1..n /\ n = Len(g.args) /\ g.args \in Seq(Tag)
      /\ x \in [1..n -> Words] /\ g.args # << >>
      /\ \A i \in 1..n : x[i] \in Words /\ x[i] = f[g.args[i]] /\ x[i] # << >> /\ ~Starts(x[i], ">")
  <2>1. /\ n = Len(g.args) /\ g.args \in Seq(Tag) /\ g.args # << >>
        /\ x \in [1..n -> Words]
        /\ \A i \in 1..n : x[i] = f[g.args[i]] /\ x[i] # << >> /\ ~Starts(x[i], ">")
    BY DEF ArgumentTexts
  <2>2. n \in Nat \ {0} /\ DOMAIN g.args = 1..n
    BY <2>1
  <2> HIDE DEF Words
  <2> QED BY <2>1, <2>2
<1>2. ss \in Seq(Words) /\ Len(ss) = n /\ \A i \in 1..n : ss[i] = x[i] \o Comma
  <2> DEFINE part(i) == x[i] \o Comma
  <2>1. \A i \in 1..n : part(i) \in Words /\ Append(x[i], ",") = part(i)
    BY <1>1, WordAppended
  <2>2. ss = [i \in 1..n |-> Append(x[i], ",")]
    BY <1>1, Zenon DEF PrintPart
  <2> HIDE DEF part, ss
  <2>3. ss = [i \in 1..n |-> part(i)]
    BY <2>1, <2>2, Zenon
  <2>4. ss \in [1..n -> Words]
    BY <2>1, <2>3
  <2>5. \A i \in 1..n : ss[i] = part(i)
    BY <2>3
  <2>6. ss \in Seq(Words) /\ Len(ss) = n
    <3> HIDE DEF Words
    <3>1. n \in Nat
      BY <1>1
    <3> QED BY <2>4, <3>1
  <2> QED BY <2>5, <2>6 DEF part
<1> HIDE DEF ss
<1>3. end \in Words /\ Comma \in Words
  BY Signs, Concatenated
<1> HIDE DEF end
<1>4. PICK z \in [1..n -> Words] :
        /\ FlattenSeq(ss) \o end = ss[1] \o z[1] /\ z[n] = end
        /\ \A i \in 2..n : z[i - 1] = ss[i] \o z[i]
  <2>1. ss # << >> /\ Len(ss) = n
    BY <1>1, <1>2
  <2>2. \E z \in [1..Len(ss) -> Words] :
          /\ FlattenSeq(ss) \o end = ss[1] \o z[1] /\ z[Len(ss)] = end
          /\ \A i \in 2..Len(ss) : z[i - 1] = ss[i] \o z[i]
    BY <2>1, <1>2, <1>3, Remains
  <2> QED BY <2>1, <2>2
<1> DEFINE s == [i \in 1..n |-> Comma \o z[i]]
<1>5. \A i \in 1..n : z[i] \in Words /\ s[i] \in Words /\ s[i] = Comma \o z[i]
  <2>1. \A i \in 1..n : z[i] \in Words
    BY <1>4
  <2>2. \A i \in 1..n : s[i] = Comma \o z[i]
    OBVIOUS
  <2> HIDE DEF s
  <2> QED BY <2>1, <2>2, <1>3, Concatenated, ZenonT(40)
<1>6. s \in [1..n -> Words]
  <2> HIDE DEF Words
  <2> QED BY <1>5
<1> HIDE DEF s
<1>7. ASSUME NEW i \in 1..n PROVE ss[i] \o z[i] = x[i] \o s[i]
  <2> DEFINE a == x[i]
  <2> DEFINE b == z[i]
  <2>1. a \in Words /\ b \in Words /\ Comma \in Words
    BY <1>1, <1>3, <1>5
  <2>2. ss[i] \o z[i] = (a \o Comma) \o b /\ x[i] \o s[i] = a \o (Comma \o b)
    BY <1>2, <1>5
  <2> HIDE DEF a, b
  <2>3. (a \o Comma) \o b = a \o (Comma \o b)
    BY <2>1, Concatenated, ZenonT(40)
  <2> QED BY <2>2, <2>3
<1>8. ASSUME NEW i \in 2..n PROVE s[i - 1] = Comma \o (x[i] \o s[i])
  <2>1. i \in 1..n /\ i - 1 \in 1..n
    <3>1. n \in Nat \ {0}
      BY <1>1
    <3> QED BY <3>1
  <2>2. s[i - 1] = Comma \o z[i - 1]
    BY <2>1, <1>5
  <2>3. z[i - 1] = x[i] \o s[i]
    BY <2>1, <1>4, <1>7
  <2> QED BY <2>2, <2>3
<1>9. Listed(n, x, s, end)
  <2>1. n \in 1..n
    <3>1. n \in Nat \ {0}
      BY <1>1
    <3> QED BY <3>1
  <2>2. s[n] = Comma \o end
    BY <2>1, <1>4, <1>5
  <2> QED BY <1>1, <1>6, <1>8, <2>2 DEF Listed
<1>10. PrintArguments(f, g) \o r = <<"<">> \o (x[1] \o s[1])
  <2> DEFINE F == FlattenSeq(ss)
  <2> DEFINE a == <<"<">>
  <2> DEFINE b == <<">">>
  <2>1. PrintArguments(f, g) = (a \o F) \o b
    BY <1>1, PrintArgumentsAre DEF ss
  <2>2. F \in Words /\ a \in Words /\ b \in Words
    BY <1>2, Flattened, Signs DEF Words
  <2>3. F \o end = x[1] \o s[1] /\ end = b \o r
    <3>1. 1 \in 1..n
      <4>1. n \in Nat \ {0}
        BY <1>1
      <4> QED BY <4>1
    <3> QED BY <1>4, <1>7, <3>1 DEF end
  <2> HIDE DEF F, a, b
  <2>4. (a \o F) \in Words
    BY <2>2, Concatenated
  <2>5. ((a \o F) \o b) \o r = (a \o F) \o (b \o r)
    BY <2>2, <2>4, Concatenated, ZenonT(40)
  <2>6. (a \o F) \o end = a \o (F \o end)
    BY <2>2, <1>3, Concatenated, ZenonT(40)
  <2>7. PrintArguments(f, g) \o r = a \o (x[1] \o s[1])
    BY <2>1, <2>3, <2>5, <2>6
  <2> QED BY <2>7 DEF a
<1> QED BY <1>9, <1>10 DEF end, Spelled

LEMMA PrintArgumentsTyped ==
  ASSUME NEW g \in Tag, g.k = "struct"
  PROVE  PrintArguments(TypeTagToString, g) \in Words
<1>1. [i \in DOMAIN g.args |-> TypeTagToString[g.args[i]]] \in Seq(Words)
  BY WholeTag, TextTyped, SequenceMade
<1> QED BY <1>1, WordsAppended DEF PrintArguments

\* What is printed starts with a word that does not end another.
LEMMA PrintHead ==
  ASSUME NEW g \in Tag, OnChain[g]
  PROVE  /\ TypeTagToString[g] \in Words /\ TypeTagToString[g] # << >>
         /\ Head(TypeTagToString[g]) \notin Punctuation
<1> DEFINE t == TypeTagToString[g]
<1>1. t = PrintOf(TypeTagToString, g)
  BY PrintIs
<1> HIDE DEF t
<1>2. CASE g.k = "struct"
  <2> DEFINE u == PrintArguments(TypeTagToString, g)
  <2>1. u \in Words
    BY <1>2, PrintArgumentsTyped
  <2>2. t = <<g.address, "::", g.module, "::", g.name>> \o u
    BY <1>1, <1>2 DEF PrintOf, StructText, PrintArguments
  <2> HIDE DEF u
  <2> QED BY <1>2, <2>1, <2>2, TextHead DEF t
<1>3. CASE g.k = "vector"
  <2> DEFINE x == TypeTagToString[g.of]
  <2> DEFINE u == x \o <<">">>
  <2>1. x \in Words
    BY <1>3, WholeTag, TextTyped
  <2>2. t = (<<"vector", "<">> \o x) \o <<">">>
    BY <1>1, <1>3 DEF PrintOf
  <2> HIDE DEF x
  <2>3. u \in Words /\ t = <<"vector", "<">> \o u
    BY <2>1, <2>2, VectorText
  <2> HIDE DEF u
  <2> QED BY <1>3, <2>3, TextHead DEF t
<1>4. CASE g.k \notin {"struct", "vector"}
  <2>1. t = <<g.k>>
    BY <1>1, <1>4 DEF PrintOf
  <2>2. << >> \in Words
    BY Signs
  <2> QED BY <1>4, <2>1, <2>2, TextHead DEF t
<1> QED BY <1>2, <1>3, <1>4

\* What is printed is read as what it was.
Reads(R, g) == \A r \in Words : Ends(r) => R[TypeTagToString[g] \o r]["tag"] = Parsed(g, r)

LEMMA PrintedVector ==
  ASSUME NEW given, NEW g \in Tag, g.k = "vector", Reads(Parser(given), g.of)
  PROVE  Reads(Parser(given), g)
<1> DEFINE R == Parser(given)
<1> SUFFICES ASSUME NEW r \in Words, Ends(r)
             PROVE  R[TypeTagToString[g] \o r]["tag"] = Parsed(g, r)
  BY DEF Reads
<1> DEFINE x == TypeTagToString[g.of]
<1> DEFINE close == <<">">> \o r
<1>1. x \in Words /\ g = Vector(g.of)
  BY WholeTag, TextTyped
<1>2. TypeTagToString[g] = (<<"vector", "<">> \o x) \o <<">">>
  <2>1. TypeTagToString[g] = PrintOf(TypeTagToString, g)
    BY PrintIs
  <2> QED BY <2>1 DEF PrintOf
<1>3. close \in Words /\ Ends(close)
  BY EndsAre
<1> DEFINE q == R[x \o close]["tag"]
<1> DEFINE of == g.of
<1>4. q = Parsed(of, close)
  <2> HIDE DEF close
  <2> QED BY <1>3 DEF Reads
<1> DEFINE p == R[TypeTagToString[g] \o r]["tag"]
<1>5. q = Parsed(of, close) => p = Parsed(Vector(of), r)
  <2> HIDE DEF x, of
  <2> QED BY <1>1, <1>2, VectorParsed
<1> HIDE DEF p, q, close
<1>6. p = Parsed(g, r)
  BY <1>1, <1>4, <1>5
<1> QED BY <1>6 DEF p

(***************************************************************************)
(* Sequences one after the other                                           *)
(***************************************************************************)

\* Sequences of members of S.
Over(S) == Seq(S)

\* Sequences of S one after the other.
LEMMA OverJoined ==
  ASSUME NEW S
  PROVE  /\ \A s, t \in Over(S) : s \o t \in Over(S) /\ Len(s \o t) = Len(s) + Len(t)
         /\ \A s, t, u \in Over(S) : (s \o t) \o u = s \o (t \o u)
         /\ \A s \in Over(S) : << >> \o s = s /\ s \o << >> = s /\ << >> \in Over(S)
BY DEF Over

\* The members of two sequences one after the other are those of each.
LEMMA OverBoth ==
  ASSUME NEW S, NEW s \in Over(S), NEW t \in Over(S)
  PROVE  /\ s \o t \in Over(S) /\ Len(s \o t) = Len(s) + Len(t) /\ Len(s) \in Nat /\ Len(t) \in Nat
         /\ \A i \in 1..Len(s) : (s \o t)[i] = s[i]
         /\ \A i \in 1..Len(t) : (s \o t)[Len(s) + i] = t[i]
BY DEF Over

\* Sequences of the same members are the same.
LEMMA OverSame ==
  ASSUME NEW S, NEW s \in Over(S), NEW t \in Over(S), Len(s) = Len(t),
         \A i \in 1..Len(s) : s[i] = t[i]
  PROVE  s = t
BY DEF Over

\* What follows the same sequence is the same.
LEMMA OverCancelled ==
  ASSUME NEW S, NEW a \in Over(S), NEW s \in Over(S), NEW t \in Over(S), a \o s = a \o t
  PROVE  s = t
<1>6. \A x, y \in Over(S) :
        /\ Len(x \o y) = Len(x) + Len(y) /\ Len(x) \in Nat /\ Len(y) \in Nat
        /\ \A i \in 1..Len(y) : (x \o y)[Len(x) + i] = y[i]
  BY OverBoth
<1> DEFINE u == a \o s
<1> DEFINE v == a \o t
<1>1. /\ Len(u) = Len(a) + Len(s) /\ Len(a) \in Nat /\ Len(s) \in Nat
      /\ \A i \in 1..Len(s) : u[Len(a) + i] = s[i]
  BY <1>6, Zenon
<1>2. /\ Len(v) = Len(a) + Len(t) /\ Len(t) \in Nat
      /\ \A i \in 1..Len(t) : v[Len(a) + i] = t[i]
  BY <1>6, Zenon
<1>3. u = v
  OBVIOUS
<1> HIDE DEF u, v
<1>4. Len(s) = Len(t)
  BY <1>1, <1>2, <1>3
<1>5. \A i \in 1..Len(s) : s[i] = t[i]
  BY <1>1, <1>2, <1>3, <1>4
<1> QED BY <1>4, <1>5, OverSame

\* What is left after each of the sequences, with something at the end.
LeftAfter(s, ss, e, S) ==
  /\ s \in [1..Len(ss) -> Over(S)]
  /\ FlattenSeq(ss) \o e = ss[1] \o s[1] /\ s[Len(ss)] = e
  /\ \A i \in 2..Len(ss) : s[i - 1] = ss[i] \o s[i]

\* What is left after each of the sequences exists.
LEMMA OverRemains ==
  ASSUME NEW S, NEW ss \in Seq(Over(S)), ss # << >>, NEW e \in Over(S)
  PROVE  \E s : LeftAfter(s, ss, e, S)
<1> DEFINE n == Len(ss)
<1>0. n \in Nat \ {0} /\ DOMAIN ss = 1..n /\ \A i \in 1..n : ss[i] \in Over(S)
  <2> HIDE DEF Over
  <2> QED OBVIOUS
<1>10. /\ \A s, t \in Over(S) : s \o t \in Over(S)
       /\ \A s, t, u \in Over(S) : (s \o t) \o u = s \o (t \o u)
  BY OverJoined, SMTT(30)
<1>1. PICK acc : Steps(acc, ss) /\ FlattenSeq(ss) = acc[n]
  BY <1>0, FlattenSteps
<1> DEFINE whole == acc[n] \o e
<1> HIDE DEF n
<1>2. \A i \in 1..n : acc[i] \in Over(S)
  <2> DEFINE T == {k \in Nat : k + 1 \in 1..n => acc[k + 1] \in Over(S)}
  <2>1. 0 \in T
    BY <1>0, <1>1 DEF Steps
  <2>2. ASSUME NEW k \in Nat, k \in T PROVE k + 1 \in T
    <3> SUFFICES ASSUME (k + 1) + 1 \in 1..n PROVE acc[(k + 1) + 1] \in Over(S)
      OBVIOUS
    <3>1. k + 1 \in 1..n /\ (k + 1) + 1 \in 2..n /\ ((k + 1) + 1) - 1 = k + 1
      BY <1>0
    <3>2. acc[(k + 1) + 1] = acc[k + 1] \o ss[(k + 1) + 1]
      BY <3>1, <1>1 DEF Steps, n
    <3>3. acc[k + 1] \in Over(S) /\ ss[(k + 1) + 1] \in Over(S)
      BY <3>1, <2>2, <1>0
    <3> QED BY <3>2, <3>3, <1>10
  <2>3. Nat \subseteq T
    <3> HIDE DEF T
    <3> QED BY <2>1, <2>2, Induction
  <2> SUFFICES ASSUME NEW i \in 1..n PROVE acc[i] \in Over(S)
    OBVIOUS
  <2>4. i - 1 \in Nat /\ (i - 1) + 1 = i
    BY <1>0
  <2>5. i - 1 \in T
    BY <2>3, <2>4
  <2> QED BY <2>4, <2>5
<1>9. ASSUME NEW i \in 2..n, NEW u \in Over(S)
      PROVE  /\ (acc[i - 1] \o ss[i]) \o u = acc[i - 1] \o (ss[i] \o u)
             /\ ss[i] \o u \in Over(S)
  <2>1. i - 1 \in 1..n /\ i \in 1..n
    BY <1>0
  <2> DEFINE a == acc[i - 1]
  <2> DEFINE b == ss[i]
  <2>2. a \in Over(S) /\ b \in Over(S)
    BY <2>1, <1>0, <1>2
  <2> HIDE DEF a, b
  <2>3. (a \o b) \o u = a \o (b \o u) /\ b \o u \in Over(S)
    BY <2>2, <1>10, ZenonT(40)
  <2> QED BY <2>3 DEF a, b
<1>3. \A i \in 1..n : \E u \in Over(S) : whole = acc[i] \o u
  <2> DEFINE T == {k \in Nat : n - k \in 1..n => \E u \in Over(S) : whole = acc[n - k] \o u}
  <2>1. 0 \in T
    <3>1. n - 0 = n
      BY <1>0
    <3> QED BY <3>1
  <2>2. ASSUME NEW k \in Nat, k \in T PROVE k + 1 \in T
    <3> HIDE DEF whole
    <3> SUFFICES ASSUME n - (k + 1) \in 1..n PROVE \E u \in Over(S) : whole = acc[n - (k + 1)] \o u
      OBVIOUS
    <3> DEFINE i == n - k
    <3>1. i \in 2..n /\ i \in 1..n /\ i - 1 = n - (k + 1) /\ i - 1 \in 1..n
      BY <1>0
    <3>2. PICK u \in Over(S) : whole = acc[i] \o u
      BY <2>2, <3>1
    <3>3. acc[i] = acc[i - 1] \o ss[i]
      BY <3>1, <1>1 DEF Steps, n
    <3>4. acc[i - 1] \in Over(S) /\ ss[i] \in Over(S)
      BY <3>1, <1>0, <1>2
    <3> HIDE DEF i
    <3>5. whole = acc[i - 1] \o (ss[i] \o u) /\ ss[i] \o u \in Over(S)
      <4>1. whole = (acc[i - 1] \o ss[i]) \o u
        BY <3>2, <3>3
      <4> QED BY <4>1, <3>1, <1>9
    <3> QED BY <3>1, <3>5
  <2>3. Nat \subseteq T
    <3> HIDE DEF T
    <3> QED BY <2>1, <2>2, Induction
  <2> SUFFICES ASSUME NEW i \in 1..n PROVE \E u \in Over(S) : whole = acc[i] \o u
    OBVIOUS
  <2>4. n - i \in Nat /\ n - (n - i) = i
    BY <1>0
  <2>5. n - i \in T
    BY <2>3, <2>4
  <2> QED BY <2>4, <2>5
<1> DEFINE left(i) == CHOOSE u \in Over(S) : whole = acc[i] \o u
<1> DEFINE s == [i \in 1..n |-> left(i)]
<1>4. \A i \in 1..n : left(i) \in Over(S) /\ whole = acc[i] \o left(i)
  <2> HIDE DEF whole
  <2> QED BY <1>3
<1> HIDE DEF left
<1>5. s \in [1..n -> Over(S)] /\ \A i \in 1..n : s[i] \in Over(S) /\ whole = acc[i] \o s[i]
  <2> HIDE DEF whole
  <2> QED BY <1>4
<1> HIDE DEF s
<1>6. s[n] = e
  <2>1. n \in 1..n
    BY <1>0
  <2>2. acc[n] \in Over(S) /\ s[n] \in Over(S) /\ acc[n] \o e = acc[n] \o s[n]
    BY <2>1, <1>2, <1>5
  <2> QED BY <2>2, OverCancelled
<1>7. whole = ss[1] \o s[1]
  <2>1. 1 \in 1..n /\ acc[1] = ss[1]
    BY <1>0, <1>1 DEF Steps
  <2>2. whole = acc[1] \o s[1]
    BY <2>1, <1>5
  <2> HIDE DEF whole
  <2> QED BY <2>1, <2>2
<1>8. ASSUME NEW i \in 2..n PROVE s[i - 1] = ss[i] \o s[i]
  <2>1. i \in 1..n /\ i - 1 \in 1..n
    BY <1>0
  <2>2. acc[i] = acc[i - 1] \o ss[i]
    BY <1>1 DEF Steps, n
  <2>3. acc[i - 1] \in Over(S) /\ ss[i] \in Over(S) /\ s[i] \in Over(S) /\ s[i - 1] \in Over(S)
    BY <2>1, <1>0, <1>2, <1>5
  <2>4. acc[i - 1] \o s[i - 1] = acc[i] \o s[i]
    BY <2>1, <1>5
  <2>5. acc[i - 1] \o s[i - 1] = acc[i - 1] \o (ss[i] \o s[i]) /\ ss[i] \o s[i] \in Over(S)
    <3> DEFINE a == acc[i - 1]
    <3> DEFINE b == ss[i]
    <3> DEFINE u == s[i]
    <3>1. a \o s[i - 1] = (a \o b) \o u /\ a \in Over(S) /\ b \in Over(S) /\ u \in Over(S)
      BY <2>2, <2>3, <2>4
    <3> HIDE DEF a, b, u
    <3>2. (a \o b) \o u = a \o (b \o u) /\ b \o u \in Over(S)
      BY <3>1, <1>10, ZenonT(40)
    <3>3. a \o s[i - 1] = a \o (b \o u) /\ b \o u \in Over(S)
      BY <3>1, <3>2
    <3> QED BY <3>3 DEF a, b, u
  <2> DEFINE c == ss[i] \o s[i]
  <2> DEFINE a == acc[i - 1]
  <2>6. a \o s[i - 1] = a \o c /\ c \in Over(S) /\ a \in Over(S) /\ s[i - 1] \in Over(S)
    BY <2>3, <2>5
  <2> HIDE DEF c, a
  <2>7. s[i - 1] = c
    BY <2>6, OverCancelled
  <2> QED BY <2>7 DEF c
<1>11. LeftAfter(s, ss, e, S)
  BY <1>1, <1>5, <1>6, <1>7, <1>8 DEF n, LeftAfter
<1> QED BY <1>11

\* The same for a sequence that may be empty.
Left(s, ss, e, S) ==
  /\ s \in [0..Len(ss) -> Over(S)]
  /\ FlattenSeq(ss) \o e = s[0] /\ s[Len(ss)] = e
  /\ \A i \in 1..Len(ss) : s[i - 1] = ss[i] \o s[i]

\* What is left after each of the sequences, and before the first, exists.
LEMMA AllLeft ==
  ASSUME NEW S, NEW ss \in Seq(Over(S)), NEW e \in Over(S)
  PROVE  \E s : Left(s, ss, e, S)
<1> DEFINE n == Len(ss)
<1>0. n \in Nat /\ \A i \in 1..n : ss[i] \in Over(S)
  <2> HIDE DEF Over
  <2> QED OBVIOUS
<1>1. CASE ss = << >>
  <2> DEFINE s == [i \in 0..0 |-> e]
  <2>1. FlattenSeq(ss) = << >> /\ Len(ss) = 0
    BY <1>1 DEF FlattenSeq
  <2>2. << >> \o e = e
    BY OverJoined
  <2>3. 1..0 = {} /\ s[0] = e
    OBVIOUS
  <2>4. s \in [0..0 -> Over(S)]
    OBVIOUS
  <2> HIDE DEF s
  <2>5. Left(s, ss, e, S)
    BY <2>1, <2>2, <2>3, <2>4 DEF Left
  <2> QED BY <2>5
<1>2. CASE ss # << >>
  <2>10. PICK r : LeftAfter(r, ss, e, S)
    BY <1>2, OverRemains
  <2>1. /\ r \in [1..n -> Over(S)]
        /\ FlattenSeq(ss) \o e = ss[1] \o r[1] /\ r[n] = e
        /\ \A i \in 2..n : r[i - 1] = ss[i] \o r[i]
    BY <2>10 DEF LeftAfter
  <2>2. n # 0
    <3> HIDE DEF Over
    <3> QED BY <1>2
  <2> DEFINE W == Over(S)
  <2> DEFINE first == ss[1] \o r[1]
  <2>3. first \in W
    BY <1>0, <2>1, <2>2, OverJoined
  <2> HIDE DEF W, n, first
  <2> DEFINE s == [i \in 0..n |-> IF i = 0 THEN first ELSE r[i]]
  <2>4. s \in [0..n -> W]
    <3>1. \A i \in 0..n : i # 0 => i \in 1..n
      BY <1>0
    <3>2. \A i \in 1..n : r[i] \in W
      BY <2>1 DEF W
    <3> QED BY <3>1, <3>2, <2>3
  <2>5. s[0] = first /\ \A i \in 1..n : s[i] = r[i]
    <3>1. \A i \in 1..n : i # 0 /\ i \in 0..n
      BY <1>0
    <3> QED BY <3>1, <1>0
  <2> HIDE DEF s
  <2>6. s[n] = e
    <3>1. n \in 1..n
      BY <1>0, <2>2
    <3> QED BY <3>1, <2>1, <2>5 DEF n
  <2>7. ASSUME NEW i \in 1..n PROVE s[i - 1] = ss[i] \o s[i]
    <3>1. CASE i = 1
      <4>1. 1 - 1 = 0
        OBVIOUS
      <4> QED BY <3>1, <4>1, <2>5 DEF first
    <3>2. CASE i # 1
      <4>1. i \in 2..n /\ i - 1 \in 1..n
        BY <3>2, <1>0
      <4> QED BY <4>1, <2>1, <2>5 DEF n
    <3> QED BY <3>1, <3>2
  <2>8. FlattenSeq(ss) \o e = s[0]
    BY <2>1, <2>5 DEF first
  <2>9. Left(s, ss, e, S)
    BY <2>4, <2>6, <2>7, <2>8 DEF Left, W, n
  <2> QED BY <2>9
<1> QED BY <1>1, <1>2

\* Each of some sequences of ss tells where it ends in a text of tt, and none can be taken
\* for what follows the other.
Told(a, b, S) == \A u, v \in Over(S) : a \o u = b \o v => a = b /\ u = v

\* No sequence of ss, with anything after it, is d; those of ss and tt are told apart.
Apart(ss, d, S) == \A i \in DOMAIN ss : \A u \in Over(S) : ss[i] \o u # d

Decodable(ss, tt, S) == \A i \in DOMAIN ss, j \in DOMAIN tt : Told(ss[i], tt[j], S)

\* What is left after i of them is the same, if there are so many.
LEMMA DecodedSteps ==
  ASSUME NEW S, NEW ss \in Seq(Over(S)), NEW tt \in Seq(Over(S)),
         NEW e \in Over(S), NEW d \in Over(S), FlattenSeq(ss) \o e = FlattenSeq(tt) \o d,
         Decodable(ss, tt, S), Apart(tt, e, S), Len(ss) <= Len(tt)
  PROVE  ss = tt /\ e = d
<1> DEFINE n == Len(ss)
<1> DEFINE m == Len(tt)
<1>0. /\ n \in Nat /\ m \in Nat /\ n <= m /\ DOMAIN ss = 1..n /\ DOMAIN tt = 1..m
      /\ \A i \in 1..n : ss[i] \in Over(S)
      /\ \A i \in 1..m : tt[i] \in Over(S)
  <2> HIDE DEF Over
  <2> QED OBVIOUS
<1>1. PICK s : Left(s, ss, e, S)
  BY AllLeft
<1>2. PICK t : Left(t, tt, d, S)
  BY AllLeft
<1> HIDE DEF n, m
<1>3. /\ \A i \in 0..n : s[i] \in Over(S)
      /\ s[n] = e
      /\ \A i \in 1..n : s[i - 1] = ss[i] \o s[i]
  BY <1>1, Zenon DEF Left, n
<1>4. /\ \A i \in 0..m : t[i] \in Over(S)
      /\ t[m] = d
      /\ \A i \in 1..m : t[i - 1] = tt[i] \o t[i]
  BY <1>2, Zenon DEF Left, m
<1>5. s[0] = t[0]
  BY <1>1, <1>2 DEF Left
<1> DEFINE Agree(k) == s[k] = t[k] /\ \A i \in 1..k : ss[i] = tt[i]
<1> DEFINE T == {k \in Nat : k \in 0..n => Agree(k)}
<1>6. 0 \in T
  <2>1. 1..0 = {}
    OBVIOUS
  <2> QED BY <1>5, <2>1
<1>7. ASSUME NEW k \in Nat, k \in T PROVE k + 1 \in T
  <2> SUFFICES ASSUME k + 1 \in 0..n PROVE Agree(k + 1)
    OBVIOUS
  <2>1. /\ k \in 0..n /\ k + 1 \in 1..n /\ k + 1 \in 1..m /\ (k + 1) - 1 = k
        /\ k + 1 \in 0..n /\ k + 1 \in 0..m
    BY <1>0
  <2>2. s[k] = ss[k + 1] \o s[k + 1] /\ t[k] = tt[k + 1] \o t[k + 1]
    BY <2>1, <1>3, <1>4
  <2>3. Agree(k)
    BY <1>7, <2>1
  <2>4. Told(ss[k + 1], tt[k + 1], S)
    BY <2>1, <1>0 DEF Decodable
  <2>5. s[k + 1] \in Over(S) /\ t[k + 1] \in Over(S)
    BY <2>1, <1>3, <1>4
  <2>6. ss[k + 1] \o s[k + 1] = tt[k + 1] \o t[k + 1]
    BY <2>2, <2>3
  <2>7. ss[k + 1] = tt[k + 1] /\ s[k + 1] = t[k + 1]
    BY <2>4, <2>5, <2>6, Zenon DEF Told
  <2>8. \A i \in 1..k + 1 : i \in 1..k \/ i = k + 1
    OBVIOUS
  <2> QED BY <2>3, <2>7, <2>8
<1>8. Agree(n)
  <2> HIDE DEF T
  <2>1. n \in T
    BY <1>6, <1>7, <1>0, Induction
  <2> QED BY <2>1, <1>0 DEF T
<1>9. n = m
  <2> SUFFICES ASSUME n # m PROVE FALSE
    OBVIOUS
  <2>1. n + 1 \in 1..m /\ (n + 1) - 1 = n /\ n + 1 \in 0..m
    BY <1>0
  <2>2. e = tt[n + 1] \o t[n + 1] /\ t[n + 1] \in Over(S)
    BY <2>1, <1>3, <1>4, <1>8
  <2> QED BY <2>1, <2>2, <1>0 DEF Apart
<1>10. ss = tt
  <2> DEFINE W == Over(S)
  <2>1. ss \in Seq(W) /\ tt \in Seq(W) /\ Len(ss) = Len(tt) /\ \A i \in 1..Len(ss) : ss[i] = tt[i]
    BY <1>8, <1>9 DEF n, m
  <2> HIDE DEF W
  <2> QED BY <2>1
<1>11. e = d
  BY <1>3, <1>4, <1>8, <1>9
<1> QED BY <1>10, <1>11

\* Two lists of sequences that are told apart, each before an end that is not one of
\* them, are the same list before the same end.
LEMMA Decoding ==
  ASSUME NEW S, NEW ss \in Seq(Over(S)), NEW tt \in Seq(Over(S)),
         NEW e \in Over(S), NEW d \in Over(S), FlattenSeq(ss) \o e = FlattenSeq(tt) \o d,
         Decodable(ss, tt, S), Apart(ss, d, S), Apart(tt, e, S)
  PROVE  ss = tt /\ e = d
<1>1. Len(ss) \in Nat /\ Len(tt) \in Nat
  <2> HIDE DEF Over
  <2> QED OBVIOUS
<1>2. CASE Len(ss) <= Len(tt)
  BY <1>2, DecodedSteps
<1>3. CASE Len(tt) <= Len(ss)
  <2>1. Decodable(tt, ss, S)
    <3>1. \A a, b : Told(a, b, S) => Told(b, a, S)
      BY DEF Told
    <3> QED BY <3>1 DEF Decodable
  <2>2. FlattenSeq(tt) \o d = FlattenSeq(ss) \o e
    OBVIOUS
  <2>3. tt = ss /\ d = e
    BY <1>3, <2>1, <2>2, DecodedSteps
  <2> QED BY <2>3
<1> QED BY <1>1, <1>2, <1>3

(***************************************************************************)
(* What the parser reads                                                   *)
(***************************************************************************)

\* The types the parser can read have leaves of its own, at any depth.
Leaves == Primitives \cup {"StructTag"}

Whole(T) == \A g \in T : /\ g.k \notin {"vector", "struct"} => g.k \in Leaves
                         /\ Children(g) \subseteq T

Sound == UNION {T \in SUBSET Tag : Whole(T)}

\* A type is sound if its leaf is, and if its parts are.
LEMMA SoundParts ==
  ASSUME NEW g \in Tag
  PROVE  g \in Sound <=> /\ g.k \notin {"vector", "struct"} => g.k \in Leaves
                         /\ Children(g) \subseteq Sound
<1>1. ASSUME g \in Sound
      PROVE  /\ g.k \notin {"vector", "struct"} => g.k \in Leaves
             /\ Children(g) \subseteq Sound
  <2>1. PICK T \in SUBSET Tag : Whole(T) /\ g \in T
    BY <1>1 DEF Sound
  <2>2. T \subseteq Sound
    BY <2>1 DEF Sound
  <2>3. (g.k \notin {"vector", "struct"} => g.k \in Leaves) /\ Children(g) \subseteq T
    BY <2>1 DEF Whole
  <2> QED BY <2>2, <2>3
<1>2. ASSUME g.k \notin {"vector", "struct"} => g.k \in Leaves, Children(g) \subseteq Sound
      PROVE  g \in Sound
  <2> DEFINE T == Sound \cup {g}
  <2>1. T \in SUBSET Tag
    BY DEF Sound
  <2>2. \A h \in Sound : /\ h.k \notin {"vector", "struct"} => h.k \in Leaves
                         /\ Children(h) \subseteq Sound
    BY DEF Sound, Whole
  <2>3. Whole(T)
    BY <1>2, <2>2 DEF Whole
  <2>4. T \subseteq Sound
    BY <2>1, <2>3 DEF Sound
  <2> QED BY <2>4
<1> QED BY <1>1, <1>2

\* A leaf of the parser is sound.
LEMMA SoundLeaf ==
  ASSUME NEW w \in Leaves, [k |-> w] \in Tag
  PROVE  [k |-> w] \in Sound
<1> DEFINE g == [k |-> w]
<1>1. g.k = w
  OBVIOUS
<1>2. w \notin {"vector", "struct"}
  BY DEF Leaves, Primitives
<1> HIDE DEF g
<1>3. Children(g) = {}
  BY <1>1, <1>2 DEF Children
<1>4. g \in Sound
  BY <1>1, <1>3, SoundParts DEF g
<1> QED BY <1>4 DEF g

\* The parser leaves less of a text than there was.
LEMMA ParserFits == \A given : \A t \in Words : Fits(Parser(given)[t], Len(t))
<1> SUFFICES ASSUME NEW given PROVE \A t \in Words : Fits(Parser(given)[t], Len(t))
  OBVIOUS
<1> DEFINE R == Parser(given)
<1> DEFINE T == {n \in Nat : \A t \in Words : Len(t) = n => Fits(R[t], Len(t))}
<1>1. \A t \in Words : /\ R[t]["tag"] = ParseTag(R, given, t)
                       /\ R[t]["list"] = ParseList(R, ParseTag(R, given, t))
  BY ParserMeets
<1> HIDE DEF R
<1>2. ASSUME NEW n \in Nat, \A m \in 0..n-1 : m \in T PROVE n \in T
  <2> SUFFICES ASSUME NEW t \in Words, Len(t) = n PROVE Fits(R[t], Len(t))
    OBVIOUS
  <2>1. ASSUME NEW u \in Words, Len(u) < Len(t) PROVE Fits(R[u], Len(u))
    <3>1. Len(u) \in Nat
      BY DEF Words
    <3>2. Len(u) \in 0..n-1
      BY <2>1, <3>1
    <3>3. Len(u) \in T
      BY <1>2, <3>2
    <3> QED BY <3>3
  <2>2. Near(R, R, Len(t))
    BY <2>1 DEF Near
  <2>3. Fits(Body(R, given, t), Len(t))
    BY <2>2, BodyLocal
  <2>4. /\ Body(R, given, t)["tag"] = R[t]["tag"]
        /\ Body(R, given, t)["list"] = R[t]["list"]
    BY <1>1, Zenon DEF Body
  <2> QED BY <2>3, <2>4 DEF Fits
<1>3. Nat \subseteq T
  <2> HIDE DEF T
  <2>1. \A n \in Nat : (\A m \in 0..n-1 : m \in T) => n \in T
    BY <1>2
  <2> QED BY <2>1, StrongInduction
<1>4. ASSUME NEW t \in Words PROVE Fits(R[t], Len(t))
  <2>1. Len(t) \in Nat
    BY DEF Words
  <2>2. Len(t) \in T
    BY <2>1, <1>3
  <2> QED BY <2>2
<1> QED BY <1>4 DEF R

\* What the parser gives for a type, and for a list of types, is sound.
SoundTag(p) == p.ok /\ p.tag \in Tag => p.tag \in Sound

Sequence(s) == s \in Seq({s[i] : i \in DOMAIN s})

SoundList(l) == l.ok => /\ Sequence(l.tags)
                        /\ \A i \in DOMAIN l.tags : (l.tags[i] \in Tag => l.tags[i] \in Sound)

\* What R makes of texts shorter than n.
Shortly(R, n) == \A t \in Words : Len(t) < n =>
  Fits(R[t], Len(t)) /\ SoundTag(R[t]["tag"]) /\ SoundList(R[t]["list"])

\* Lists of no type and of one are sequences.
LEMMA FewAreSequences ==
  /\ Sequence(<< >>) /\ \A x : Sequence(<<x>>) /\ DOMAIN <<x>> = {1} /\ <<x>>[1] = x
  /\ \A S : \A s \in Seq(S) : Sequence(s)
BY OverItself DEF Sequence

\* The elements of a sequence with one more in front.
LEMMA OneInFront ==
  ASSUME NEW x, NEW s, Sequence(s)
  PROVE  LET l == <<x>> \o s IN
         /\ Sequence(l)
         /\ \A i \in DOMAIN l : l[i] = x \/ (\E j \in DOMAIN s : l[i] = s[j])
<1> DEFINE S == {s[i] : i \in DOMAIN s} \cup {x}
<1> DEFINE o == <<x>>
<1> DEFINE l == o \o s
<1>1. s \in Seq(S) /\ o \in Seq(S)
  <2>1. s \in Seq({s[i] : i \in DOMAIN s})
    BY DEF Sequence
  <2> QED BY <2>1, SeqsGrow
<1>2. l \in Seq(S) /\ Range(l) = Range(o) \cup Range(s)
  <2> HIDE DEF S, o
  <2> QED BY <1>1, RangeOfBoth
<1>3. Range(o) = {x}
  BY DEF Range
<1> HIDE DEF S, o, l
<1>4. \A i \in DOMAIN l : l[i] = x \/ (\E j \in DOMAIN s : l[i] = s[j])
  BY <1>2, <1>3 DEF Range
<1>5. Sequence(l)
  BY <1>2, FewAreSequences
<1> QED BY <1>4, <1>5 DEF l, o

\* A vector is sound if what the parser makes of shorter texts is.
LEMMA SoundVector ==
  ASSUME NEW R, NEW n \in Nat, Shortly(R, n), NEW text \in Words, Len(text) <= n
  PROVE  SoundTag(ParseVector(R, text))
<1> DEFINE t == Tail(text)
<1> DEFINE of == R[t]["tag"]
<1> DEFINE end == Consume(of.rest, ">")
<1> DEFINE p == ParseVector(R, text)
<1>1. CASE ~Starts(text, "<")
  <2>1. p = Invalid
    BY <1>1, Outcomes DEF ParseVector
  <2> QED BY <2>1, Outcomes DEF SoundTag
<1>2. CASE Starts(text, "<")
  <2>1. p = IF of.ok /\ end.ok THEN Parsed(Vector(of.tag), end.rest) ELSE Invalid
    BY <1>2 DEF ParseVector
  <2>2. t \in Words /\ Len(t) = Len(text) - 1 /\ Len(text) \in Nat
    BY <1>2, TailShorter DEF Starts
  <2> HIDE DEF t
  <2>3. Len(t) < n
    BY <2>2
  <2>4. SoundTag(of)
    BY <2>2, <2>3 DEF Shortly
  <2> HIDE DEF of, end, p
  <2> SUFFICES ASSUME p.ok, p.tag \in Tag PROVE p.tag \in Sound
    BY DEF SoundTag, p
  <2>5. of.ok /\ p.tag = Vector(of.tag)
    BY <2>1, Outcomes
  <2> DEFINE g == Vector(of.tag)
  <2>6. g.k = "vector" /\ g.of = of.tag
    BY DEF Vector
  <2>7. g \in Tag
    BY <2>5
  <2> HIDE DEF g
  <2>8. of.tag \in Tag
    BY <2>6, <2>7, WholeTag
  <2>9. of.tag \in Sound
    BY <2>4, <2>5, <2>8 DEF SoundTag
  <2>10. Children(g) = {of.tag}
    BY <2>6 DEF Children
  <2>11. g \in Sound
    BY <2>6, <2>7, <2>9, <2>10, SoundParts
  <2> QED BY <2>5, <2>11 DEF g
<1> QED BY <1>1, <1>2

\* So are the arguments of a struct,
LEMMA SoundArguments ==
  ASSUME NEW R, NEW n \in Nat, Shortly(R, n), NEW text \in Words, Len(text) <= n
  PROVE  SoundList(StructArguments(R, text))
<1> DEFINE t == Tail(text)
<1> DEFINE l == R[t]["list"]
<1> DEFINE p == StructArguments(R, text)
<1>0. SoundList(Invalid) /\ \A r : SoundList(ParsedList(<< >>, r))
  BY Outcomes, FewAreSequences DEF SoundList
<1>1. CASE ~Starts(text, "<")
  <2>1. p = ParsedList(<< >>, text)
    BY <1>1 DEF StructArguments
  <2> QED BY <2>1, <1>0
<1>2. CASE Starts(text, "<") /\ Starts(t, ">")
  <2>1. p = ParsedList(<< >>, Tail(t))
    BY <1>2 DEF StructArguments
  <2> QED BY <2>1, <1>0
<1>3. CASE Starts(text, "<") /\ ~Starts(t, ">")
  <2>1. p = IF l.ok THEN ParsedList(l.tags, Tail(l.rest)) ELSE Invalid
    BY <1>3 DEF StructArguments
  <2>2. t \in Words /\ Len(t) = Len(text) - 1 /\ Len(text) \in Nat
    BY <1>3, TailShorter DEF Starts
  <2> HIDE DEF t
  <2>3. Len(t) < n
    BY <2>2
  <2>4. SoundList(l)
    BY <2>2, <2>3 DEF Shortly
  <2> HIDE DEF l, p
  <2>5. SoundList(p)
    BY <2>1, <2>4, Outcomes DEF SoundList
  <2> QED BY <2>5 DEF p
<1> QED BY <1>1, <1>2, <1>3

\* so is the struct,
LEMMA SoundStruct ==
  ASSUME NEW R, NEW n \in Nat, Shortly(R, n), NEW text \in Words, Len(text) <= n, NEW w
  PROVE  SoundTag(ParseStruct(R, w, text))
<1> DEFINE name == StructName(text)
<1> DEFINE t == SkipObjectArgument(name.tag[1], name.tag[2], name.rest)
<1> DEFINE A == StructArguments(R, t)
<1> DEFINE made == [Struct(name.tag[1], name.tag[2], A.tags) EXCEPT !.address = w]
<1> DEFINE p == ParseStruct(R, w, text)
<1>1. p = IF name.ok /\ A.ok THEN Parsed(made, A.rest) ELSE Invalid
  BY DEF ParseStruct
<1>2. made.k = "struct" /\ made.args = A.tags
  BY DEF Struct
<1>3. name.ok => t \in Words /\ Len(t) <= n
  <2> SUFFICES ASSUME name.ok PROVE t \in Words /\ Len(t) <= n
    OBVIOUS
  <2> DEFINE right == /\ Len(text) >= 4 /\ text[1] = "::" /\ Kind(text[2]) = "IDENT"
                      /\ text[3] = "::" /\ Kind(text[4]) = "IDENT"
  <2> DEFINE u == SubSeq(text, 5, Len(text))
  <2> DEFINE reads == Parsed(<<text[2], text[4]>>, u)
  <2>1. name = IF right THEN reads ELSE Invalid
    BY DEF StructName
  <2>2. t = name.rest \/ t = SubSeq(name.rest, 4, Len(name.rest))
    BY DEF SkipObjectArgument
  <2>3. u \in Words /\ Len(u) <= Len(text)
    <3>1. 5 \in Nat \ {0}
      OBVIOUS
    <3> QED BY <3>1, SubSeqShorter
  <2> HIDE DEF right, name, t, u
  <2>4. name = reads
    <3> HIDE DEF reads
    <3> QED BY <2>1, Outcomes
  <2>5. name.rest = u
    BY <2>4, Outcomes
  <2> DEFINE r == SubSeq(u, 4, Len(u))
  <2>6. r \in Words /\ Len(r) <= Len(u)
    <3>1. 4 \in Nat \ {0}
      OBVIOUS
    <3> QED BY <2>3, <3>1, SubSeqShorter
  <2>7. t = u \/ t = r
    BY <2>2, <2>5
  <2> HIDE DEF r
  <2>8. Len(u) \in Nat /\ Len(r) \in Nat /\ Len(text) \in Nat
    BY <2>3, <2>6 DEF Words
  <2> QED BY <2>3, <2>6, <2>7, <2>8
<1> HIDE DEF t, name, made, p
<1> SUFFICES ASSUME p.ok, p.tag \in Tag PROVE p.tag \in Sound
  BY DEF SoundTag, p
<1>4. name.ok /\ A.ok /\ p.tag = made
  <2> HIDE DEF A
  <2> QED BY <1>1, Outcomes
<1>5. SoundList(A)
  BY <1>3, <1>4, SoundArguments
<1> HIDE DEF A
<1>6. made \in Tag /\ made.args \in Seq(Tag)
  BY <1>2, <1>4, WholeTag
<1>7. \A i \in DOMAIN made.args : made.args[i] \in Sound
  <2>1. \A i \in DOMAIN made.args : made.args[i] \in Tag
    BY <1>6, ElementOfSeq
  <2> QED BY <2>1, <1>2, <1>4, <1>5 DEF SoundList
<1>8. Children(made) \subseteq Sound
  BY <1>2, <1>7 DEF Children
<1>9. made \in Sound
  BY <1>2, <1>6, <1>8, SoundParts
<1> QED BY <1>4, <1>9

\* and so is a list, after its first type.
LEMMA SoundElements ==
  ASSUME NEW R, NEW n \in Nat, Shortly(R, n), NEW one, TagFits(one, n), SoundTag(one)
  PROVE  SoundList(ParseList(R, one))
<1> DEFINE next == Consume(one.rest, ",")
<1> DEFINE more == R[next.rest]["list"]
<1> DEFINE p == ParseList(R, one)
<1>0. SoundList(Invalid)
  BY Outcomes DEF SoundList
<1>1. CASE ~one.ok
  BY <1>0, <1>1 DEF ParseList
<1>2. ASSUME one.ok, NEW r PROVE SoundList(ParsedList(<<one.tag>>, r))
  <2> DEFINE l == <<one.tag>>
  <2>1. Sequence(l) /\ \A i \in DOMAIN l : l[i] = one.tag
    BY FewAreSequences
  <2> HIDE DEF l
  <2>2. SoundList(ParsedList(l, r))
    BY <2>1, <1>2, Outcomes DEF SoundList, SoundTag
  <2> QED BY <2>2 DEF l
<1>3. CASE one.ok /\ Starts(one.rest, ">")
  <2>1. p = ParsedList(<<one.tag>>, one.rest)
    BY <1>3 DEF ParseList
  <2> QED BY <2>1, <1>2, <1>3
<1>4. CASE one.ok /\ ~Starts(one.rest, ">") /\ (~next.ok \/ next.rest = << >>)
  BY <1>0, <1>4 DEF ParseList
<1>5. CASE one.ok /\ ~Starts(one.rest, ">") /\ next.ok /\ next.rest # << >>
  <2>1. one.rest # << >> /\ next.rest = Tail(one.rest)
    BY <1>5, Outcomes DEF Consume, Starts
  <2>2. next.rest \in Words /\ Len(next.rest) < n
    <3>1. one.rest \in Words /\ Len(one.rest) < n
      BY <1>5 DEF TagFits
    <3>2. next.rest \in Words /\ Len(next.rest) = Len(one.rest) - 1 /\ Len(one.rest) \in Nat
      BY <2>1, <3>1, TailShorter
    <3> HIDE DEF next
    <3> QED BY <3>1, <3>2
  <2>3. p = IF Starts(next.rest, ">") THEN ParsedList(<<one.tag>>, next.rest)
            ELSE IF more.ok THEN ParsedList(<<one.tag>> \o more.tags, more.rest) ELSE Invalid
    BY <1>5 DEF ParseList
  <2> HIDE DEF next
  <2>4. SoundList(more) /\ Fits(R[next.rest], Len(next.rest))
    BY <2>2 DEF Shortly
  <2> HIDE DEF more, p
  <2>5. CASE Starts(next.rest, ">")
    BY <2>3, <2>5, <1>2, <1>5 DEF p
  <2>6. CASE ~Starts(next.rest, ">") /\ ~more.ok
    BY <2>3, <2>6, <1>0 DEF p
  <2>7. CASE ~Starts(next.rest, ">") /\ more.ok
    <3> DEFINE l == <<one.tag>> \o more.tags
    <3>1. p = ParsedList(l, more.rest)
      BY <2>3, <2>7
    <3>2. /\ Sequence(more.tags)
          /\ \A j \in DOMAIN more.tags : (more.tags[j] \in Tag => more.tags[j] \in Sound)
      BY <2>4, <2>7 DEF SoundList
    <3>3. /\ Sequence(l)
          /\ \A i \in DOMAIN l : l[i] = one.tag \/ (\E j \in DOMAIN more.tags : l[i] = more.tags[j])
      BY <3>2, OneInFront
    <3> HIDE DEF l
    <3>4. \A i \in DOMAIN l : (l[i] \in Tag => l[i] \in Sound)
      BY <3>2, <3>3, <1>5 DEF SoundTag
    <3> QED BY <3>1, <3>3, <3>4, Outcomes DEF SoundList, p
  <2> QED BY <2>5, <2>6, <2>7
<1> QED BY <1>1, <1>3, <1>4, <1>5

\* What the parser reads of a text that refers to no type arguments.
LEMMA ParserSound ==
  ASSUME NEW text \in Words
  PROVE  LET p == Parser(<< >>)[text]["tag"] IN p.ok /\ p.tag \in Tag => p.tag \in Sound
<1> DEFINE none == << >>
<1> DEFINE R == Parser(none)
<1> DEFINE Known(t) == /\ Fits(R[t], Len(t)) /\ SoundTag(R[t]["tag"]) /\ SoundList(R[t]["list"])
<1> DEFINE T == {n \in Nat : \A t \in Words : Len(t) = n => Known(t)}
<1>1. \A t \in Words : /\ R[t]["tag"] = ParseTag(R, none, t)
                       /\ R[t]["list"] = ParseList(R, ParseTag(R, none, t))
                       /\ Fits(R[t], Len(t))
  BY ParserMeets, ParserFits
<1> HIDE DEF R
<1>2. ASSUME NEW n \in Nat, \A m \in 0..n-1 : m \in T PROVE n \in T
  <2> SUFFICES ASSUME NEW t \in Words, Len(t) = n PROVE Known(t)
    OBVIOUS
  <2>1. Shortly(R, Len(t))
    <3> SUFFICES ASSUME NEW u \in Words, Len(u) < Len(t)
                 PROVE  Known(u)
      BY DEF Shortly
    <3>1. Len(u) \in Nat
      BY DEF Words
    <3>2. Len(u) \in 0..n-1
      BY <3>1
    <3>3. Len(u) \in T
      BY <1>2, <3>2
    <3> QED BY <3>3
  <2> DEFINE p == ParseTag(R, none, t)
  <2> DEFINE w == Head(t)
  <2> DEFINE rest == Tail(t)
  <2>2. /\ t = << >> => p = Invalid
        /\ t # << >> =>
             /\ w \in Primitives => p = Parsed(Prim(w), rest)
             /\ w = "vector" => p = ParseVector(R, rest)
             /\ w = "string" => p = Parsed(BareString, rest)
             /\ w \in Addresses => p = ParseStruct(R, w, rest)
             /\ Kind(w) = "GENERIC" =>
                  p = IF GenericIndex[w] \notin 0..(Len(none) - 1) THEN Invalid
                      ELSE IF none[GenericIndex[w] + 1].ok
                           THEN Parsed(none[GenericIndex[w] + 1].tag, rest) ELSE Invalid
             /\ \/ w \in Primitives \/ w = "vector" \/ w = "string" \/ w \in Addresses
                \/ Kind(w) = "GENERIC" \/ p = Invalid
    BY TagEquations
  <2>3. SoundTag(Invalid)
    BY Outcomes DEF SoundTag
  <2>4. 0..(Len(none) - 1) = {}
    OBVIOUS
  <2>5. t # << >> => rest \in Words /\ Len(rest) <= Len(t) /\ Len(t) \in Nat
    <3> SUFFICES ASSUME t # << >> PROVE rest \in Words /\ Len(rest) <= Len(t) /\ Len(t) \in Nat
      OBVIOUS
    <3>1. rest \in Words /\ Len(rest) = Len(t) - 1 /\ Len(t) \in Nat
      BY TailShorter
    <3> QED BY <3>1
  <2> HIDE DEF p, w, rest, none
  <2>6. SoundTag(p)
    <3>1. CASE t = << >> \/ p = Invalid
      BY <2>2, <2>3, <3>1
    <3>2. CASE t # << >> /\ w \in Primitives
      <4>1. p = Parsed(Prim(w), rest)
        BY <2>2, <3>2
      <4>2. Prim(w) \in Tag => Prim(w) \in Sound
        BY <3>2, SoundLeaf DEF Prim, Leaves
      <4> QED BY <4>1, <4>2, Outcomes DEF SoundTag
    <3>3. CASE t # << >> /\ w = "vector"
      BY <2>1, <2>2, <2>5, <3>3, SoundVector
    <3>4. CASE t # << >> /\ w = "string"
      <4>1. p = Parsed(BareString, rest)
        BY <2>2, <3>4
      <4>2. BareString \in Tag => BareString \in Sound
        BY SoundLeaf DEF BareString, Leaves
      <4> QED BY <4>1, <4>2, Outcomes DEF SoundTag
    <3>5. CASE t # << >> /\ w \in Addresses
      BY <2>1, <2>2, <2>5, <3>5, SoundStruct
    <3>6. CASE t # << >> /\ Kind(w) = "GENERIC"
      <4>1. p = Invalid
        BY <2>2, <2>4, <3>6
      <4> QED BY <4>1, <2>3
    <3> QED BY <2>2, <3>1, <3>2, <3>3, <3>4, <3>5, <3>6
  <2>7. R[t]["tag"] = p /\ R[t]["list"] = ParseList(R, p) /\ Fits(R[t], Len(t))
    BY <1>1 DEF p
  <2>8. TagFits(p, Len(t))
    BY <2>7 DEF Fits
  <2>9. SoundList(ParseList(R, p))
    BY <2>1, <2>6, <2>8, SoundElements
  <2> QED BY <2>6, <2>7, <2>9
<1>3. Nat \subseteq T
  <2> HIDE DEF T
  <2>1. \A n \in Nat : (\A m \in 0..n-1 : m \in T) => n \in T
    BY <1>2
  <2> QED BY <2>1, StrongInduction
<1>4. SoundTag(R[text]["tag"])
  <2>1. Len(text) \in Nat
    BY DEF Words
  <2>2. Len(text) \in T
    BY <2>1, <1>3
  <2> QED BY <2>2
<1> QED BY <1>4 DEF R, SoundTag

(***************************************************************************)
(* What is printed of two types                                            *)
(***************************************************************************)

\* The first word of what is printed.
Opening(g) == IF g.k = "vector" THEN "vector" ELSE IF g.k = "struct" THEN g.address ELSE g.k

\* A type that is neither a vector nor a struct is its kind alone.
LEMMA LeafForm ==
  ASSUME NEW g \in Tag, g.k \notin {"vector", "struct"}
  PROVE  g = [k |-> g.k]
<1>1. Depth \in 0..Depth /\ g \in TagLevel[Depth]
  BY DepthAssumption DEF Tag
<1> DEFINE inner == Inner(TagLevel, Depth)
<1>2. g \in TagsOver(inner)
  BY <1>1, TagLevels
<1> HIDE DEF inner
<1> DEFINE args == Seq(inner)
<1> HIDE DEF args
<1>3. TagsOver(inner) = [k : STRING \ {"vector", "struct"}] \cup [k : {"vector"}, of : inner]
        \cup [k : {"struct"}, address : Addresses, module : STRING, name : STRING, args : args]
  BY Zenon DEF TagsOver, args
<1>4. g \in [k : STRING \ {"vector", "struct"}]
  <2>1. \A h \in [k : {"vector"}, of : inner] : h.k = "vector"
    OBVIOUS
  <2>2. \A h \in [k : {"struct"}, address : Addresses, module : STRING, name : STRING, args : args] :
          h.k = "struct"
    OBVIOUS
  <2> QED BY <1>2, <1>3, <2>1, <2>2, Zenon
<1> QED BY <1>4

\* Sound types are types.
LEMMA SoundIsTag == Sound \subseteq Tag
BY DEF Sound

\* The text of a leaf is one word,
LEMMA LeafSpelled ==
  ASSUME NEW g \in Sound, g.k \notin {"vector", "struct"}, NEW r \in Words
  PROVE  LET t == TypeTagToString[g] \o r IN
         t \in Words /\ t # << >> /\ Head(t) = Opening(g) /\ Tail(t) = r /\ g = [k |-> g.k]
<1>1. g \in Tag
  BY SoundIsTag
<1>2. TypeTagToString[g] = <<g.k>> /\ g.k \in STRING
  BY <1>1, PrintIs, WholeTag DEF PrintOf
<1> QED BY <1>1, <1>2, FirstWord, LeafForm DEF Opening

\* that of a vector is the text of its elements in brackets,
LEMMA VectorSpelled ==
  ASSUME NEW g \in Sound, g.k = "vector", NEW r \in Words
  PROVE  LET t == TypeTagToString[g] \o r
             x == Tail(t)
         IN /\ t \in Words /\ t # << >> /\ Head(t) = Opening(g) /\ x # << >>
            /\ Tail(x) = TypeTagToString[g.of] \o (<<">">> \o r)
            /\ g = Vector(g.of) /\ g.of \in Sound
<1>1. g \in Tag /\ g = Vector(g.of) /\ g.of \in Sound
  BY SoundIsTag, SoundParts, WholeTag DEF Children
<1> DEFINE a == <<"vector", "<">>
<1> DEFINE b == TypeTagToString[g.of]
<1> DEFINE c == <<">">>
<1> DEFINE u == b \o (c \o r)
<1> DEFINE w == <<"<">> \o u
<1>2. TypeTagToString[g] = (a \o b) \o c
  BY <1>1, PrintIs DEF PrintOf
<1>3. a \in Words /\ b \in Words /\ c \in Words /\ <<"vector">> \in Words /\ <<"<">> \in Words
      /\ "vector" \in STRING /\ "<" \in STRING
  <2>1. "vector" \in STRING /\ "<" \in STRING
    BY SomeWords
  <2>2. b \in Words
    BY <1>1, SoundIsTag, TextTyped
  <2> QED BY <2>1, <2>2, Signs, FewWords
<1>4. a = <<"vector">> \o <<"<">>
  OBVIOUS
<1> HIDE DEF a, b, c
<1>5. c \o r \in Words /\ a \o b \in Words
  BY <1>3, Concatenated, ZenonT(40)
<1>6. u \in Words
  BY <1>3, <1>5, Concatenated, ZenonT(40)
<1>7. ((a \o b) \o c) \o r = (a \o b) \o (c \o r)
  BY <1>3, <1>5, Concatenated, ZenonT(40)
<1>8. (a \o b) \o (c \o r) = a \o u
  BY <1>3, <1>5, Concatenated, ZenonT(40)
<1> HIDE DEF u
<1>9. (<<"vector">> \o <<"<">>) \o u = <<"vector">> \o w
  BY <1>3, <1>6, Concatenated, ZenonT(40)
<1>10. w \in Words /\ w # << >> /\ Tail(w) = u
  BY <1>3, <1>6, FirstWord
<1> HIDE DEF w
<1> DEFINE t == TypeTagToString[g] \o r
<1>11. t = <<"vector">> \o w
  BY <1>2, <1>4, <1>7, <1>8, <1>9
<1> HIDE DEF t
<1>12. t \in Words /\ t # << >> /\ Head(t) = "vector" /\ Tail(t) = w
  BY <1>3, <1>10, <1>11, FirstWord
<1>13. Head(t) = Opening(g)
  BY <1>12 DEF Opening
<1> QED BY <1>1, <1>10, <1>12, <1>13 DEF t, u, b, c

\* and that of a struct is its name and the list of its arguments.
LEMMA StructWords ==
  ASSUME NEW g \in Sound, g.k = "struct", NEW r \in Words
  PROVE  LET t == TypeTagToString[g] \o r
             x == Tail(t)
         IN /\ t \in Words /\ t # << >> /\ Head(t) = Opening(g)
            /\ x[2] = g.module /\ x[4] = g.name
            /\ SubSeq(x, 5, Len(x)) = PrintArguments(TypeTagToString, g) \o r
<1>1. g \in Tag
  BY SoundIsTag
<1>2. g.address \in STRING /\ g.module \in STRING /\ g.name \in STRING /\ "::" \in STRING
  BY <1>1, WholeTag, SomeWords
<1> DEFINE five == <<g.address, "::", g.module, "::", g.name>>
<1> DEFINE u == PrintArguments(TypeTagToString, g)
<1>3. five \in Words /\ u \in Words
  BY <1>1, <1>2, FewWords, PrintArgumentsTyped
<1>4. TypeTagToString[g] = five \o u
  BY <1>1, PrintIs DEF PrintOf, StructText, PrintArguments
<1> HIDE DEF five, u
<1>5. (five \o u) \o r = five \o (u \o r) /\ u \o r \in Words
  BY <1>3, Concatenated, ZenonT(40)
<1> DEFINE t == TypeTagToString[g] \o r
<1> DEFINE x == Tail(t)
<1>6. t = five \o (u \o r)
  BY <1>4, <1>5
<1> HIDE DEF t
<1> DEFINE v == u \o r
<1>8. v \in Words /\ t = five \o v
  BY <1>5, <1>6
<1> HIDE DEF v
<1>9. /\ five \o v \in Words /\ five \o v # << >> /\ Head(five \o v) = g.address
      /\ Tail(five \o v)[2] = g.module /\ Tail(five \o v)[4] = g.name
      /\ SubSeq(Tail(five \o v), 5, Len(Tail(five \o v))) = v
  <2> DEFINE m == g.module
  <2> DEFINE c == g.name
  <2> DEFINE w == g.address
  <2> DEFINE y == <<w, "::", m, "::", c>> \o v
  <2> DEFINE z == Tail(y)
  <2>1. w \in STRING /\ m \in STRING /\ c \in STRING /\ "::" \in STRING /\ v \in Words
    BY <1>2, <1>8
  <2>2. y = five \o v
    BY DEF five
  <2>3. /\ y \in Words /\ y # << >> /\ Head(y) = w /\ z \in Words
        /\ Len(z) >= 4 /\ z[1] = "::" /\ z[2] = m /\ z[3] = "::" /\ z[4] = c
        /\ SubSeq(z, 5, Len(z)) = v
    <3> HIDE DEF m, c, w
    <3> QED BY <2>1, FiveWords
  <2> HIDE DEF y
  <2> QED BY <2>2, <2>3
<1>7. /\ t \in Words /\ t # << >> /\ Head(t) = g.address /\ x[2] = g.module /\ x[4] = g.name
      /\ SubSeq(x, 5, Len(x)) = v
  BY <1>8, <1>9
<1> QED BY <1>7 DEF Opening, t, u, v

\* The list of the type arguments, with what follows it.
LEMMA ListWords ==
  ASSUME NEW g \in Sound, g.k = "struct", NEW r \in Words
  PROVE  LET u == PrintArguments(TypeTagToString, g) \o r
             ss == PrintPart(TypeTagToString, g)
         IN /\ g.args = << >> => u = r
            /\ g.args # << >> => u # << >> /\ Starts(u, "<")
                                 /\ Tail(u) = FlattenSeq(ss) \o (<<">">> \o r)
            /\ ss \in Seq(Words) /\ Len(ss) = Len(g.args)
            /\ \A i \in DOMAIN g.args : ss[i] = TypeTagToString[g.args[i]] \o Comma
<1> DEFINE T == TypeTagToString
<1> DEFINE ss == PrintPart(T, g)
<1> DEFINE n == Len(g.args)
<1>1. g \in Tag /\ g.args \in Seq(Tag)
  BY SoundIsTag, WholeTag
<1>2. n \in Nat /\ DOMAIN g.args = 1..n
  BY <1>1
<1> DEFINE part(i) == T[g.args[i]] \o Comma
<1>3. \A i \in 1..n : part(i) \in Words /\ Append(T[g.args[i]], ",") = part(i)
  <2>1. \A i \in 1..n : T[g.args[i]] \in Words
    <3>1. \A i \in 1..n : g.args[i] \in Tag
      BY <1>1, <1>2
    <3> QED BY <3>1, TextTyped
  <2> QED BY <2>1, WordAppended
<1> HIDE DEF part, n
<1>4. ss = [i \in 1..n |-> part(i)]
  BY <1>2, <1>3, Zenon DEF PrintPart
<1> HIDE DEF ss
<1>5. ss \in Seq(Words) /\ Len(ss) = n /\ \A i \in 1..n : ss[i] = part(i)
  <2>1. ss \in [1..n -> Words]
    BY <1>3, <1>4
  <2> HIDE DEF Words
  <2> QED BY <1>2, <1>4, <2>1
<1>6. g.args = << >> => PrintArguments(T, g) \o r = r
  <2>1. g.args = << >> => PrintArguments(T, g) = << >>
    BY <1>1, PrintArgumentsAre
  <2>2. << >> \o r = r
    BY Concatenated, Zenon
  <2> QED BY <2>1, <2>2
<1>7. ASSUME g.args # << >>
      PROVE  LET u == PrintArguments(T, g) \o r IN
             u # << >> /\ Starts(u, "<") /\ Tail(u) = FlattenSeq(ss) \o (<<">">> \o r)
  <2> DEFINE F == FlattenSeq(ss)
  <2> DEFINE a == <<"<">>
  <2> DEFINE b == <<">">>
  <2> DEFINE u == PrintArguments(T, g) \o r
  <2>1. PrintArguments(T, g) = (a \o F) \o b
    BY <1>1, <1>7, PrintArgumentsAre DEF ss
  <2>2. F \in Words /\ a \in Words /\ b \in Words
    BY <1>5, Flattened, Signs DEF Words
  <2>6. "<" \in STRING
    BY SomeWords
  <2> HIDE DEF F, b
  <2>3. (a \o F) \in Words /\ b \o r \in Words
    BY <2>2, Concatenated, ZenonT(40)
  <2>4. ((a \o F) \o b) \o r = (a \o F) \o (b \o r)
    BY <2>2, <2>3, Concatenated, ZenonT(40)
  <2>5. (a \o F) \o (b \o r) = a \o (F \o (b \o r)) /\ F \o (b \o r) \in Words
    BY <2>2, <2>3, Concatenated, ZenonT(40)
  <2>7. u = a \o (F \o (b \o r))
    BY <2>1, <2>4, <2>5
  <2> HIDE DEF u
  <2>8. u # << >> /\ Starts(u, "<") /\ Tail(u) = F \o (b \o r)
    BY <2>5, <2>6, <2>7, FirstWord
  <2> QED BY <2>8 DEF u, F, b
<1> QED BY <1>2, <1>5, <1>6, <1>7 DEF ss, n, part

\* What is printed tells the types apart, and where they end.
PrintTold(g, h) == \A r, s \in Words :
  Ends(r) /\ Ends(s) /\ TypeTagToString[g] \o r = TypeTagToString[h] \o s => g = h /\ r = s

\* Types whose texts start with the same word are of one kind.
LEMMA SameKind ==
  ASSUME NEW g \in Sound, NEW h \in Sound, Opening(g) = Opening(h)
  PROVE  /\ g.k \notin {"vector", "struct"} => h.k \notin {"vector", "struct"} /\ g.k = h.k
         /\ g.k = "vector" => h.k = "vector"
         /\ g.k = "struct" => h.k = "struct"
<1>1. \A x \in Sound : x.k = "struct" => x.address \in {"0x1", "0x2"}
  BY SoundIsTag, WholeTag DEF Addresses
<1>2. \A x \in Sound : x.k \notin {"vector", "struct"} =>
        x.k \notin {"0x1", "0x2", "vector"}
  BY SoundIsTag, SoundParts DEF Leaves, Primitives
<1> QED BY <1>1, <1>2 DEF Opening

\* The text of a type does not start with a sign,
LEMMA OpensNothing ==
  ASSUME NEW g \in Sound
  PROVE  Opening(g) \notin Punctuation
<1>1. g.k = "struct" => g.address \in {"0x1", "0x2"}
  BY SoundIsTag, WholeTag DEF Addresses
<1>2. g.k \notin {"vector", "struct"} => g.k \in Leaves
  BY SoundIsTag, SoundParts
<1> QED BY <1>1, <1>2 DEF Opening, Leaves, Primitives, Punctuation

\* but with the first word of the type.
LEMMA Opens ==
  ASSUME NEW g \in Sound, NEW r \in Words
  PROVE  LET t == TypeTagToString[g] \o r IN t \in Words /\ t # << >> /\ Head(t) = Opening(g)
<1>1. CASE g.k = "vector"
  BY <1>1, VectorSpelled
<1>2. CASE g.k = "struct"
  BY <1>2, StructWords
<1>3. CASE g.k \notin {"vector", "struct"}
  BY <1>3, LeafSpelled
<1> QED BY <1>1, <1>2, <1>3

\* The lists of arguments of two structs, with what follows them, are the same.
SameLists(g, h, r, s) ==
  FlattenSeq(PrintPart(TypeTagToString, g)) \o (<<">">> \o r)
    = FlattenSeq(PrintPart(TypeTagToString, h)) \o (<<">">> \o s)

ListedTold(g, h) == \A i \in DOMAIN g.args, j \in DOMAIN h.args : PrintTold(g.args[i], h.args[j])

\* Types with the same arguments in their lists.
LEMMA ListsTold ==
  ASSUME NEW g \in Sound, NEW h \in Sound, g.k = "struct", h.k = "struct",
         ListedTold(g, h), NEW r \in Words, NEW s \in Words, SameLists(g, h, r, s)
  PROVE  g.args = h.args /\ r = s
<1>0. \A x, y, z \in Words : (x \o y) \o z = x \o (y \o z)
  BY Concatenated
<1> DEFINE T == TypeTagToString
<1> DEFINE ss == PrintPart(T, g)
<1> DEFINE tt == PrintPart(T, h)
<1> DEFINE e == <<">">> \o r
<1> DEFINE d == <<">">> \o s
<1>1. /\ ss \in Seq(Words) /\ Len(ss) = Len(g.args)
      /\ \A i \in DOMAIN g.args : ss[i] = T[g.args[i]] \o Comma
  BY ListWords
<1>2. /\ tt \in Seq(Words) /\ Len(tt) = Len(h.args)
      /\ \A i \in DOMAIN h.args : tt[i] = T[h.args[i]] \o Comma
  BY ListWords
<1>3. /\ g.args \in Seq(Tag) /\ h.args \in Seq(Tag)
      /\ \A i \in DOMAIN g.args : g.args[i] \in Sound
      /\ \A i \in DOMAIN h.args : h.args[i] \in Sound
  <2>1. g \in Tag /\ h \in Tag
    BY SoundIsTag
  <2>2. Children(g) \subseteq Sound /\ Children(h) \subseteq Sound
    BY <2>1, SoundParts
  <2> QED BY <2>1, <2>2, WholeTag DEF Children
<1>4. DOMAIN ss = DOMAIN g.args /\ DOMAIN tt = DOMAIN h.args
  <2> HIDE DEF ss, tt
  <2>1. DOMAIN ss = 1..Len(ss) /\ DOMAIN g.args = 1..Len(g.args)
    BY <1>1, <1>3
  <2>2. DOMAIN tt = 1..Len(tt) /\ DOMAIN h.args = 1..Len(h.args)
    BY <1>2, <1>3
  <2> QED BY <2>1, <2>2, <1>1, <1>2
<1>5. /\ e \in Words /\ d \in Words /\ e # << >> /\ d # << >> /\ Head(e) = ">" /\ Head(d) = ">"
      /\ Tail(e) = r /\ Tail(d) = s
  <2>1. ">" \in STRING
    BY SomeWords
  <2> QED BY <2>1, FirstWord
<1>6. Comma \in Words /\ Ends(Comma) /\ \A u \in Words : Ends(Comma \o u) /\ Tail(Comma \o u) = u
                                                        /\ Comma \o u \in Words
  <2>1. "," \in STRING /\ Comma \in Words /\ << >> \in Words
    BY SomeWords, Signs
  <2>2. \A u \in Words : Ends(Comma \o u) /\ Tail(Comma \o u) = u /\ Comma \o u \in Words
    BY <2>1, FirstWord, EndsAre DEF Comma
  <2>3. Comma \o << >> = Comma
    BY <2>1, Concatenated
  <2>4. Ends(Comma)
    BY <2>1, <2>2, <2>3
  <2> QED BY <2>1, <2>2, <2>4
<1>7. FlattenSeq(ss) \o e = FlattenSeq(tt) \o d
  BY DEF SameLists
<1> HIDE DEF ss, tt, e, d
<1>8. ASSUME NEW i \in DOMAIN g.args, NEW u \in Words
      PROVE  ss[i] \o u = T[g.args[i]] \o (Comma \o u)
  <2> DEFINE a == T[g.args[i]]
  <2>1. a \in Words
    BY <1>3, SoundIsTag, TextTyped
  <2>2. ss[i] = a \o Comma
    BY <1>1
  <2> HIDE DEF a
  <2>3. (a \o Comma) \o u = a \o (Comma \o u)
    <3>1. Comma \in Words
      BY <1>6
    <3> QED BY <2>1, <3>1, <1>0, Zenon
  <2> QED BY <2>2, <2>3 DEF a
<1>9. ASSUME NEW i \in DOMAIN h.args, NEW u \in Words
      PROVE  tt[i] \o u = T[h.args[i]] \o (Comma \o u)
  <2> DEFINE a == T[h.args[i]]
  <2>1. a \in Words
    BY <1>3, SoundIsTag, TextTyped
  <2>2. tt[i] = a \o Comma
    BY <1>2
  <2> HIDE DEF a
  <2>3. (a \o Comma) \o u = a \o (Comma \o u)
    <3>1. Comma \in Words
      BY <1>6
    <3> QED BY <2>1, <3>1, <1>0, Zenon
  <2> QED BY <2>2, <2>3 DEF a
<1>10. Over(STRING) = Words
  BY DEF Over, Words
<1>11. Decodable(ss, tt, STRING)
  <2> SUFFICES ASSUME NEW i \in DOMAIN ss, NEW j \in DOMAIN tt
               PROVE  Told(ss[i], tt[j], STRING)
    BY Zenon DEF Decodable
  <2> SUFFICES ASSUME NEW u \in Over(STRING), NEW v \in Over(STRING), ss[i] \o u = tt[j] \o v
               PROVE  ss[i] = tt[j] /\ u = v
    BY Zenon DEF Told
  <2>0. u \in Words /\ v \in Words
    BY <1>10, Zenon
  <2>1. i \in DOMAIN g.args /\ j \in DOMAIN h.args
    BY <1>4
  <2>2. T[g.args[i]] \o (Comma \o u) = T[h.args[j]] \o (Comma \o v)
    BY <2>0, <2>1, <1>8, <1>9, Zenon
  <2>3. PrintTold(g.args[i], h.args[j])
    BY <2>1 DEF ListedTold
  <2>4. g.args[i] = h.args[j] /\ Comma \o u = Comma \o v
    BY <2>0, <2>2, <2>3, <1>6 DEF PrintTold
  <2>5. u = Tail(Comma \o u) /\ v = Tail(Comma \o v)
    BY <2>0, <1>6
  <2>6. ss[i] = tt[j]
    BY <2>1, <2>4, <1>1, <1>2
  <2> QED BY <2>4, <2>5, <2>6
<1>12. Apart(ss, d, STRING)
  <2> SUFFICES ASSUME NEW i \in DOMAIN ss, NEW u \in Words PROVE ss[i] \o u # d
    BY <1>10 DEF Apart
  <2>1. i \in DOMAIN g.args /\ g.args[i] \in Sound /\ Comma \o u \in Words
    BY <1>3, <1>4, <1>6
  <2> DEFINE w == Comma \o u
  <2> DEFINE x == g.args[i]
  <2>3. ss[i] \o u = T[x] \o w /\ x \in Sound /\ w \in Words
    BY <2>1, <1>8
  <2> HIDE DEF w, x
  <2>4. Head(T[x] \o w) = Opening(x) /\ Opening(x) \notin Punctuation
    BY <2>3, Opens, OpensNothing
  <2>2. Head(ss[i] \o u) \notin Punctuation
    BY <2>3, <2>4
  <2> QED BY <2>2, <1>5 DEF Punctuation
<1>13. Apart(tt, e, STRING)
  <2> SUFFICES ASSUME NEW i \in DOMAIN tt, NEW u \in Words PROVE tt[i] \o u # e
    BY <1>10 DEF Apart
  <2>1. i \in DOMAIN h.args /\ h.args[i] \in Sound /\ Comma \o u \in Words
    BY <1>3, <1>4, <1>6
  <2> DEFINE w == Comma \o u
  <2> DEFINE x == h.args[i]
  <2>3. tt[i] \o u = T[x] \o w /\ x \in Sound /\ w \in Words
    BY <2>1, <1>9
  <2> HIDE DEF w, x
  <2>4. Head(T[x] \o w) = Opening(x) /\ Opening(x) \notin Punctuation
    BY <2>3, Opens, OpensNothing
  <2>2. Head(tt[i] \o u) \notin Punctuation
    BY <2>3, <2>4
  <2> QED BY <2>2, <1>5 DEF Punctuation
<1>14. ss = tt /\ e = d
  BY <1>1, <1>2, <1>5, <1>7, <1>10, <1>11, <1>12, <1>13, Decoding
<1>15. r = s
  BY <1>5, <1>14
<1>16. Len(g.args) = Len(h.args)
  BY <1>1, <1>2, <1>14
<1>17. ASSUME NEW i \in DOMAIN g.args PROVE g.args[i] = h.args[i]
  <2>1. i \in DOMAIN h.args
    BY <1>4, <1>14
  <2>2. T[g.args[i]] \o Comma = T[h.args[i]] \o Comma
    BY <2>1, <1>1, <1>2, <1>14
  <2>3. PrintTold(g.args[i], h.args[i])
    BY <2>1 DEF ListedTold
  <2> QED BY <2>2, <2>3, <1>6 DEF PrintTold
<1> QED BY <1>3, <1>15, <1>16, <1>17

\* The text tells a type if it tells its parts.
LEMMA ToldStep ==
  ASSUME NEW g \in Sound, NEW h \in Sound,
         \A c \in Children(g), b \in Children(h) : PrintTold(c, b)
  PROVE  PrintTold(g, h)
<1> SUFFICES ASSUME NEW r \in Words, NEW s \in Words, Ends(r), Ends(s),
                    TypeTagToString[g] \o r = TypeTagToString[h] \o s
             PROVE  g = h /\ r = s
  BY DEF PrintTold
<1> DEFINE t == TypeTagToString[g] \o r
<1> DEFINE q == TypeTagToString[h] \o s
<1>1. t = q /\ Head(t) = Opening(g) /\ Head(q) = Opening(h)
  BY Opens
<1>2. /\ g.k \notin {"vector", "struct"} => h.k \notin {"vector", "struct"} /\ g.k = h.k
      /\ g.k = "vector" => h.k = "vector"
      /\ g.k = "struct" => h.k = "struct"
  <2> HIDE DEF t, q
  <2> QED BY <1>1, SameKind
<1>3. CASE g.k \notin {"vector", "struct"}
  <2>1. h.k \notin {"vector", "struct"} /\ g.k = h.k
    BY <1>2, <1>3
  <2>2. Tail(t) = r /\ g = [k |-> g.k]
    BY <1>3, LeafSpelled
  <2>3. Tail(q) = s /\ h = [k |-> h.k]
    BY <2>1, LeafSpelled
  <2> HIDE DEF t, q
  <2> QED BY <1>1, <2>1, <2>2, <2>3
<1>4. CASE g.k = "vector"
  <2> DEFINE a == <<">">> \o r
  <2> DEFINE b == <<">">> \o s
  <2>1. h.k = "vector"
    BY <1>2, <1>4
  <2>2. Tail(Tail(t)) = TypeTagToString[g.of] \o a /\ g = Vector(g.of)
    BY <1>4, VectorSpelled
  <2>3. Tail(Tail(q)) = TypeTagToString[h.of] \o b /\ h = Vector(h.of)
    BY <2>1, VectorSpelled
  <2>4. a \in Words /\ Ends(a) /\ Tail(a) = r /\ b \in Words /\ Ends(b) /\ Tail(b) = s
    BY EndsAre
  <2> HIDE DEF t, q, a, b
  <2>5. PrintTold(g.of, h.of)
    BY <1>4, <2>1 DEF Children
  <2>6. g.of = h.of /\ a = b
    BY <1>1, <2>2, <2>3, <2>4, <2>5 DEF PrintTold
  <2> QED BY <2>2, <2>3, <2>4, <2>6
<1>5. CASE g.k = "struct"
  <2> DEFINE a == PrintArguments(TypeTagToString, g) \o r
  <2> DEFINE b == PrintArguments(TypeTagToString, h) \o s
  <2>1. h.k = "struct"
    BY <1>2, <1>5
  <2>2. Tail(t)[2] = g.module /\ Tail(t)[4] = g.name /\ SubSeq(Tail(t), 5, Len(Tail(t))) = a
    BY <1>5, StructWords
  <2>3. Tail(q)[2] = h.module /\ Tail(q)[4] = h.name /\ SubSeq(Tail(q), 5, Len(Tail(q))) = b
    BY <2>1, StructWords
  <2>4. a = b /\ g.module = h.module /\ g.name = h.name /\ g.address = h.address
    <3> HIDE DEF t, q, a, b
    <3>1. Opening(g) = g.address /\ Opening(h) = h.address
      BY <1>5, <2>1 DEF Opening
    <3> QED BY <1>1, <2>2, <2>3, <3>1
  <2>5. g.args = h.args /\ r = s
    <3>1. ~Starts(r, "<") /\ ~Starts(s, "<")
      BY EndsOtherwise
    <3>2. /\ g.args = << >> => a = r
          /\ g.args # << >> => Starts(a, "<")
               /\ Tail(a) = FlattenSeq(PrintPart(TypeTagToString, g)) \o (<<">">> \o r)
      BY <1>5, ListWords
    <3>3. /\ h.args = << >> => b = s
          /\ h.args # << >> => Starts(b, "<")
               /\ Tail(b) = FlattenSeq(PrintPart(TypeTagToString, h)) \o (<<">">> \o s)
      BY <2>1, ListWords
    <3>4. ListedTold(g, h)
      BY <1>5, <2>1 DEF Children, ListedTold
    <3> HIDE DEF a, b
    <3>5. CASE g.args = << >>
      <4>1. h.args = << >>
        BY <3>1, <3>2, <3>3, <3>5, <2>4
      <4> QED BY <3>2, <3>3, <3>5, <2>4, <4>1
    <3>6. CASE g.args # << >>
      <4>1. h.args # << >>
        BY <3>1, <3>2, <3>3, <3>6, <2>4
      <4>2. SameLists(g, h, r, s)
        BY <3>2, <3>3, <3>6, <2>4, <4>1 DEF SameLists
      <4> QED BY <1>5, <2>1, <3>4, <4>2, ListsTold
    <3> QED BY <3>5, <3>6
  <2>6. /\ g = [k |-> "struct", address |-> g.address, module |-> g.module,
                name |-> g.name, args |-> g.args]
        /\ h = [k |-> "struct", address |-> h.address, module |-> h.module,
                name |-> h.name, args |-> h.args]
    BY <1>5, <2>1, SoundIsTag, WholeTag
  <2>7. g = h
    BY <2>4, <2>5, <2>6
  <2> QED BY <2>5, <2>7
<1> QED BY <1>3, <1>4, <1>5

\* By the levels of the first of the two.
LEMMA PrintTells == \A g, h \in Sound : PrintTold(g, h)
<1> DEFINE L == {n \in Nat : n \in 0..Depth =>
                   \A g \in TagLevel[n] : g \in Sound => (\A h \in Sound : PrintTold(g, h))}
<1>0. \A g \in Sound : Children(g) \subseteq Sound
  BY SoundIsTag, SoundParts
<1>1. 0 \in L
  <2>1. \A g \in TagLevel[0] : Children(g) = {}
    BY TagShape, DepthAssumption
  <2> QED BY <2>1, ToldStep
<1>2. ASSUME NEW n \in Nat, n \in L PROVE n + 1 \in L
  <2> SUFFICES ASSUME n + 1 \in 0..Depth, NEW g \in TagLevel[n + 1], g \in Sound, NEW h \in Sound
               PROVE  PrintTold(g, h)
    OBVIOUS
  <2>1. n \in 0..Depth /\ (n + 1) - 1 = n
    BY DepthAssumption
  <2>2. \A c \in Children(g) : c \in TagLevel[n]
    BY <2>1, TagShape
  <2>3. \A c \in Children(g), b \in Children(h) : PrintTold(c, b)
    BY <2>1, <2>2, <1>0, <1>2
  <2> QED BY <2>3, ToldStep
<1>3. Nat \subseteq L
  <2> HIDE DEF L
  <2> QED BY <1>1, <1>2, Induction
<1> QED BY <1>3, DepthAssumption, SoundIsTag DEF Tag

\* The text of a sound type tells the type.
LEMMA TypesTold ==
  ASSUME NEW g \in Sound, NEW h \in Sound, TypeTagToString[g] = TypeTagToString[h]
  PROVE  g = h
<1>1. << >> \in Words /\ Ends(<< >>)
  BY Signs DEF Ends
<1>2. PrintTold(g, h)
  BY PrintTells
<1>3. TypeTagToString[g] \o << >> = TypeTagToString[h] \o << >>
  OBVIOUS
<1> QED BY <1>1, <1>2, <1>3 DEF PrintTold
=============================================================================
