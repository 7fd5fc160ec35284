--------------------------- MODULE PayloadsProofs ---------------------------
(***************************************************************************)
(* Proofs about the conversion of arguments, for types and values nested   *)
(* to any depth.                                                           *)
(***************************************************************************)
EXTENDS Payloads, TypeTagsProofs

(***************************************************************************)
(* Induction over the natural numbers, and the levels                      *)
(***************************************************************************)

\* The levels of values: each is made of the one below, and holds it.
LEMMA ValueLevels == \A n \in 0..Depth : ValueLevel[n] = ValuesOver(Inner(ValueLevel, n))
<1> DEFINE T == {d \in Nat : \E f : f = [n \in 0..d |-> ValuesOver(Inner(f, n))]}
<1>1. 0 \in T
  <2> DEFINE f == [n \in 0..0 |-> ValuesOver({})]
  <2>1. f = [n \in 0..0 |-> ValuesOver(Inner(f, n))]
    BY DEF Inner
  <2> QED BY <2>1
<1>2. ASSUME NEW d \in Nat, d \in T PROVE d + 1 \in T
  <2>1. PICK f : f = [n \in 0..d |-> ValuesOver(Inner(f, n))]
    BY <1>2
  <2> DEFINE h == [n \in 0..d+1 |-> ValuesOver(Inner(f, n))]
  <2>2. \A n \in 0..d : h[n] = f[n]
    BY <2>1
  <2>3. ASSUME NEW n \in 0..d+1 PROVE Inner(h, n) = Inner(f, n)
    <3> HIDE DEF h
    <3>1. n # 0 => n - 1 \in 0..d
      OBVIOUS
    <3> QED BY <2>2, <3>1 DEF Inner
  <2>4. h = [n \in 0..d+1 |-> ValuesOver(Inner(h, n))]
    <3>1. \A n \in 0..d+1 : h[n] = ValuesOver(Inner(h, n))
      BY <2>3
    <3> QED BY <3>1, Zenon
  <2> HIDE DEF h
  <2> QED BY <2>4
<1>3. Depth \in T
  <2> HIDE DEF T
  <2> QED BY <1>1, <1>2, Induction, DepthAssumption
<1>4. ValueLevel = [n \in 0..Depth |-> ValuesOver(Inner(ValueLevel, n))]
  BY <1>3 DEF ValueLevel, Inner
<1> QED BY <1>4, Zenon

LEMMA ValueSteps ==
  /\ ValueLevel[0] = ValuesOver({})
  /\ \A n \in Nat : n + 1 \in 0..Depth => ValueLevel[n + 1] = ValuesOver(ValueLevel[n])
<1>1. 0 \in 0..Depth /\ Inner(ValueLevel, 0) = {}
  BY DepthAssumption DEF Inner
<1>2. ASSUME NEW n \in Nat, n + 1 \in 0..Depth PROVE Inner(ValueLevel, n + 1) = ValueLevel[n]
  <2>1. n + 1 # 0 /\ (n + 1) - 1 = n
    OBVIOUS
  <2> QED BY <2>1 DEF Inner
<1>3. ValueLevel[0] = ValuesOver({})
  BY <1>1, ValueLevels
<1> QED BY <1>2, <1>3, ValueLevels

LEMMA ValuesNested ==
  /\ \A n \in 0..Depth : ValueLevel[n] \subseteq Value
  /\ \A n \in Nat : n + 1 \in 0..Depth => ValueLevel[n] \subseteq ValueLevel[n + 1]
<1>1. \A A, B : A \subseteq B => ValuesOver(A) \subseteq ValuesOver(B)
  BY SeqsGrow DEF ValuesOver
<1> DEFINE T == {d \in Nat : d + 1 \in 0..Depth => ValueLevel[d] \subseteq ValueLevel[d + 1]}
<1>2. 0 \in T
  <2> SUFFICES ASSUME 0 + 1 \in 0..Depth PROVE ValueLevel[0] \subseteq ValueLevel[0 + 1]
    OBVIOUS
  <2>1. ValueLevel[0] = ValuesOver({}) /\ ValueLevel[0 + 1] = ValuesOver(ValueLevel[0])
    BY ValueSteps
  <2>2. ValuesOver({}) \subseteq ValuesOver(ValueLevel[0])
    BY <1>1
  <2> QED BY <2>1, <2>2
<1>3. ASSUME NEW d \in Nat, d \in T PROVE d + 1 \in T
  <2> SUFFICES ASSUME (d + 1) + 1 \in 0..Depth
               PROVE  ValueLevel[d + 1] \subseteq ValueLevel[(d + 1) + 1]
    OBVIOUS
  <2>1. /\ ValueLevel[d + 1] = ValuesOver(ValueLevel[d])
        /\ ValueLevel[(d + 1) + 1] = ValuesOver(ValueLevel[d + 1])
    BY ValueSteps, DepthAssumption
  <2>2. ValueLevel[d] \subseteq ValueLevel[d + 1]
    BY <1>3, DepthAssumption
  <2>3. ValuesOver(ValueLevel[d]) \subseteq ValuesOver(ValueLevel[d + 1])
    BY <2>2, <1>1
  <2> QED BY <2>1, <2>3
<1>4. \A n \in Nat : n + 1 \in 0..Depth => ValueLevel[n] \subseteq ValueLevel[n + 1]
  <2> HIDE DEF T
  <2>1. Nat \subseteq T
    BY <1>2, <1>3, Induction
  <2> QED BY <2>1 DEF T
<1>5. \A n \in 0..Depth : ValueLevel[n] \subseteq ValueLevel[Depth]
  <2> HIDE DEF T
  <2> QED BY <1>4, Climb
<1> QED BY <1>4, <1>5 DEF Value

\* The levels of arguments: each is made of the one below, and holds it.
LEMMA ArgLevels == \A n \in 0..Depth : ArgLevel[n] = ArgsOver(Inner(ArgLevel, n))
<1> DEFINE T == {d \in Nat : \E f : f = [n \in 0..d |-> ArgsOver(Inner(f, n))]}
<1>1. 0 \in T
  <2> DEFINE f == [n \in 0..0 |-> ArgsOver({})]
  <2>1. f = [n \in 0..0 |-> ArgsOver(Inner(f, n))]
    BY DEF Inner
  <2> QED BY <2>1
<1>2. ASSUME NEW d \in Nat, d \in T PROVE d + 1 \in T
  <2>1. PICK f : f = [n \in 0..d |-> ArgsOver(Inner(f, n))]
    BY <1>2
  <2> DEFINE h == [n \in 0..d+1 |-> ArgsOver(Inner(f, n))]
  <2>2. \A n \in 0..d : h[n] = f[n]
    BY <2>1
  <2>3. ASSUME NEW n \in 0..d+1 PROVE Inner(h, n) = Inner(f, n)
    <3> HIDE DEF h
    <3>1. n # 0 => n - 1 \in 0..d
      OBVIOUS
    <3> QED BY <2>2, <3>1 DEF Inner
  <2>4. h = [n \in 0..d+1 |-> ArgsOver(Inner(h, n))]
    <3>1. \A n \in 0..d+1 : h[n] = ArgsOver(Inner(h, n))
      BY <2>3
    <3> QED BY <3>1, Zenon
  <2> HIDE DEF h
  <2> QED BY <2>4
<1>3. Depth \in T
  <2> HIDE DEF T
  <2> QED BY <1>1, <1>2, Induction, DepthAssumption
<1>4. ArgLevel = [n \in 0..Depth |-> ArgsOver(Inner(ArgLevel, n))]
  BY <1>3 DEF ArgLevel, Inner
<1> QED BY <1>4, Zenon

LEMMA ArgSteps ==
  /\ ArgLevel[0] = ArgsOver({})
  /\ \A n \in Nat : n + 1 \in 0..Depth => ArgLevel[n + 1] = ArgsOver(ArgLevel[n])
<1>1. 0 \in 0..Depth /\ Inner(ArgLevel, 0) = {}
  BY DepthAssumption DEF Inner
<1>2. ASSUME NEW n \in Nat, n + 1 \in 0..Depth PROVE Inner(ArgLevel, n + 1) = ArgLevel[n]
  <2>1. n + 1 # 0 /\ (n + 1) - 1 = n
    OBVIOUS
  <2> QED BY <2>1 DEF Inner
<1>3. ArgLevel[0] = ArgsOver({})
  BY <1>1, ArgLevels
<1> QED BY <1>2, <1>3, ArgLevels

LEMMA ArgsNested ==
  /\ \A n \in 0..Depth : ArgLevel[n] \subseteq Arg
  /\ \A n \in Nat : n + 1 \in 0..Depth => ArgLevel[n] \subseteq ArgLevel[n + 1]
<1>1. \A A, B : A \subseteq B => ArgsOver(A) \subseteq ArgsOver(B)
  BY SeqsGrow DEF ArgsOver
<1> DEFINE T == {d \in Nat : d + 1 \in 0..Depth => ArgLevel[d] \subseteq ArgLevel[d + 1]}
<1>2. 0 \in T
  <2> SUFFICES ASSUME 0 + 1 \in 0..Depth PROVE ArgLevel[0] \subseteq ArgLevel[0 + 1]
    OBVIOUS
  <2>1. ArgLevel[0] = ArgsOver({}) /\ ArgLevel[0 + 1] = ArgsOver(ArgLevel[0])
    BY ArgSteps
  <2>2. ArgsOver({}) \subseteq ArgsOver(ArgLevel[0])
    BY <1>1
  <2> QED BY <2>1, <2>2
<1>3. ASSUME NEW d \in Nat, d \in T PROVE d + 1 \in T
  <2> SUFFICES ASSUME (d + 1) + 1 \in 0..Depth
               PROVE  ArgLevel[d + 1] \subseteq ArgLevel[(d + 1) + 1]
    OBVIOUS
  <2>1. /\ ArgLevel[d + 1] = ArgsOver(ArgLevel[d])
        /\ ArgLevel[(d + 1) + 1] = ArgsOver(ArgLevel[d + 1])
    BY ArgSteps, DepthAssumption
  <2>2. ArgLevel[d] \subseteq ArgLevel[d + 1]
    BY <1>3, DepthAssumption
  <2>3. ArgsOver(ArgLevel[d]) \subseteq ArgsOver(ArgLevel[d + 1])
    BY <2>2, <1>1
  <2> QED BY <2>1, <2>3
<1>4. \A n \in Nat : n + 1 \in 0..Depth => ArgLevel[n] \subseteq ArgLevel[n + 1]
  <2> HIDE DEF T
  <2>1. Nat \subseteq T
    BY <1>2, <1>3, Induction
  <2> QED BY <2>1 DEF T
<1>5. \A n \in 0..Depth : ArgLevel[n] \subseteq ArgLevel[Depth]
  <2> HIDE DEF T
  <2> QED BY <1>4, Climb
<1> QED BY <1>4, <1>5 DEF Arg

(***************************************************************************)
(* The recursive functions over types                                      *)
(***************************************************************************)

LEMMA OneElement ==
  ASSUME NEW S, NEW s \in Seq(S), Len(s) = 1
  PROVE  s # << >> /\ 1 \in DOMAIN s
OBVIOUS

\* What f makes of the elements of v, which is given for a vector of type g.
EntryElements(f, g, v) == AllOf([i \in DOMAIN Elements(v) |-> f[g.of][Elements(v)[i]]])

ArrayElements(f, g, v) == AllOf([i \in DOMAIN v.of |-> f[g.of][v.of[i]]])

SomeElement(f, g, v) == v.js = "array" /\ \E i \in DOMAIN v.of : f[g.of][v.of[i]]

NotAscii(v) == \E i \in DOMAIN v.chars : v.chars[i] >= 128

EntryAt(f, g, v) ==
    CASE IsSimple(g) -> Simple(v, g)
      [] g.k = "vector" ->
           IF ~HasElements(v, g) THEN Refused ELSE EntryElements(f, g, v)
      [] g = StringTag -> Str(v)
      [] Is(g, "option", "Option") ->
           Optional(v, IF g.args = << >> THEN Refused
                       ELSE f[g.args[1]][v])
      [] Is(g, "object", "Object") -> EnsureAddress(v)
      [] Is(g, "fixed_point32", "FixedPoint32") -> ParsedNumber(v, "u64")
      [] Is(g, "fixed_point64", "FixedPoint64") -> ParsedNumber(v, "u128")
      [] OTHER -> IF g.k = "struct" THEN EmptyStruct(g) ELSE Refused

EntryOf(f, g) == [v \in Value |-> EntryAt(f, g, v)]

SerializedAt(f, g, v) ==
    CASE IsSimple(g) -> Written(Simple(v, g))
      [] IsBytes(g) /\ v.js = "bytes" -> ByteVec(v.bytes)
      [] IsBytes(g) /\ HasForm(v, {"text"}) -> ByteVec(Utf8(v.chars))
      [] g.k = "vector" /\ v.js = "array" -> ArrayElements(f, g, v)
      [] g = StringTag /\ IsString(v) -> Str(v)
      [] OTHER -> Refused

SerializedOf(f, g) == [v \in Value |-> SerializedAt(f, g, v)]

MeantAt(f, g, v) ==
    CASE g.k \in DOMAIN Limit -> Meant(v, g.k)
      [] g.k \in {"bool", "address"} -> Simple(v, g)
      [] g.k = "vector" -> IF v.js = "array" THEN ArrayElements(f, g, v)
                           ELSE IF IsBytes(g) THEN MeantBytes(v) ELSE Refused
      [] g = StringTag -> IF IsString(v) THEN Str(v) ELSE Refused
      [] Is(g, "option", "Option") /\ Len(g.args) = 1 ->
           IF v = Null THEN None
           ELSE IF f[g.args[1]][v] = Refused THEN Refused
                ELSE Some(f[g.args[1]][v])
      [] IsObject(g) -> EnsureAddress(v)
      [] Is(g, "fixed_point32", "FixedPoint32") -> Meant(v, "u64")
      [] Is(g, "fixed_point64", "FixedPoint64") -> Meant(v, "u128")
      [] OTHER -> Refused

MeantOf(f, g) == [v \in Value |-> MeantAt(f, g, v)]

MisreadAt(f, g, v) ==
    CASE g.k \in SmallWidths -> \/ HasForm(v, {"suffixed"})
                                \/ HasForm(v, {"hex"}) /\ v.n # 0
      [] g.k \in DOMAIN Limit \ SmallWidths -> Blank(v)
      [] g.k = "vector" -> SomeElement(f, g, v)
      [] g = StringTag -> ~IsString(v)
      [] IsObject(g) -> FALSE
      [] Is(g, "option", "Option") /\ Len(g.args) = 1 -> v # Null /\ f[g.args[1]][v]
      [] Is(g, "fixed_point32", "FixedPoint32") \/ Is(g, "fixed_point64", "FixedPoint64") ->
           Blank(v)
      [] OTHER -> g.k = "struct"

MisreadOf(f, g) == [v \in Value |-> MisreadAt(f, g, v)]

UnicodeElement(f, g, v) ==
    \/ SomeElement(f, g, v)
    \/ IsBytes(g) /\ HasForm(v, {"text"}) /\ NotAscii(v)

UnicodeAt(f, g, v) ==
    CASE g.k = "vector" -> UnicodeElement(f, g, v)
      [] Is(g, "option", "Option") /\ Len(g.args) = 1 -> v # Null /\ f[g.args[1]][v]
      [] OTHER -> FALSE

UnicodeOf(f, g) == [v \in Value |-> UnicodeAt(f, g, v)]

LEMMA EntryLocal ==
  ASSUME NEW f, NEW h, NEW g \in Tag, \A c \in Children(g) : f[c] = h[c]
  PROVE  EntryOf(f, g) = EntryOf(h, g)
BY DEF Children, EntryOf, EntryAt, EntryElements, Is, IsObject

LEMMA EntryIs == \A g \in Tag : ToEntryFunctionArgument[g] = EntryOf(ToEntryFunctionArgument, g)
<1> DEFINE T == {n \in Nat : n \in 0..Depth => \E f : f = [g \in TagLevel[n] |-> EntryOf(f, g)]}
<1>1. ASSUME NEW n \in 0..Depth,
             \E f : \A g \in TagLevel[n] : \A c \in Children(g) : f[c] = EntryOf(f, c)
      PROVE  \E f : f = [g \in TagLevel[n] |-> EntryOf(f, g)]
  <2>1. PICK f : \A g \in TagLevel[n] : \A c \in Children(g) : f[c] = EntryOf(f, c)
    BY <1>1
  <2> DEFINE h == [g \in TagLevel[n] |-> EntryOf(f, g)]
  <2>2. ASSUME NEW g \in TagLevel[n] PROVE h[g] = EntryOf(h, g)
    <3>1. \A c \in Children(g) : c \in TagLevel[n]
      BY TagShape
    <3>2. \A c \in Children(g) : f[c] = h[c]
      BY <3>1, <2>1
    <3>3. g \in Tag
      BY TagsNested
    <3> HIDE DEF h
    <3>4. EntryOf(f, g) = EntryOf(h, g)
      BY <3>2, <3>3, EntryLocal
    <3> QED BY <3>4 DEF h
  <2>3. h = [g \in TagLevel[n] |-> EntryOf(h, g)]
    BY <2>2, Zenon
  <2> HIDE DEF h
  <2> QED BY <2>3
<1>2. 0 \in T
  <2>1. \A g \in TagLevel[0] : Children(g) = {}
    BY TagShape, DepthAssumption
  <2> QED BY <2>1, <1>1
<1>3. ASSUME NEW n \in Nat, n \in T PROVE n + 1 \in T
  <2> SUFFICES ASSUME n + 1 \in 0..Depth
               PROVE  \E f : f = [g \in TagLevel[n + 1] |-> EntryOf(f, g)]
    OBVIOUS
  <2>1. n \in 0..Depth
    BY DepthAssumption
  <2>2. PICK f : f = [g \in TagLevel[n] |-> EntryOf(f, g)]
    BY <2>1, <1>3
  <2>3. ASSUME NEW g \in TagLevel[n + 1], NEW c \in Children(g) PROVE c \in TagLevel[n]
    <3>1. c \in TagLevel[(n + 1) - 1]
      BY TagShape
    <3>2. (n + 1) - 1 = n
      OBVIOUS
    <3> QED BY <3>1, <3>2
  <2>4. \A c \in TagLevel[n] : f[c] = EntryOf(f, c)
    BY <2>2
  <2> QED BY <2>3, <2>4, <1>1
<1>4. Depth \in T
  <2> HIDE DEF T
  <2> QED BY <1>2, <1>3, Induction, DepthAssumption
<1>5. \E f : f = [g \in Tag |-> EntryOf(f, g)]
  BY <1>4, DepthAssumption DEF Tag
<1>6. ToEntryFunctionArgument = [g \in Tag |-> EntryOf(ToEntryFunctionArgument, g)]
  BY <1>5 DEF ToEntryFunctionArgument, EntryOf, EntryAt, EntryElements
<1> QED BY <1>6, Zenon

LEMMA SerializedLocal ==
  ASSUME NEW f, NEW h, NEW g \in Tag, \A c \in Children(g) : f[c] = h[c]
  PROVE  SerializedOf(f, g) = SerializedOf(h, g)
BY DEF Children, SerializedOf, SerializedAt, ArrayElements, Is, IsObject

LEMMA SerializedIs == \A g \in Tag : SerializeArg[g] = SerializedOf(SerializeArg, g)
<1> DEFINE T == {n \in Nat : n \in 0..Depth => \E f : f = [g \in TagLevel[n] |-> SerializedOf(f, g)]}
<1>1. ASSUME NEW n \in 0..Depth,
             \E f : \A g \in TagLevel[n] : \A c \in Children(g) : f[c] = SerializedOf(f, c)
      PROVE  \E f : f = [g \in TagLevel[n] |-> SerializedOf(f, g)]
  <2>1. PICK f : \A g \in TagLevel[n] : \A c \in Children(g) : f[c] = SerializedOf(f, c)
    BY <1>1
  <2> DEFINE h == [g \in TagLevel[n] |-> SerializedOf(f, g)]
  <2>2. ASSUME NEW g \in TagLevel[n] PROVE h[g] = SerializedOf(h, g)
    <3>1. \A c \in Children(g) : c \in TagLevel[n]
      BY TagShape
    <3>2. \A c \in Children(g) : f[c] = h[c]
      BY <3>1, <2>1
    <3>3. g \in Tag
      BY TagsNested
    <3> HIDE DEF h
    <3>4. SerializedOf(f, g) = SerializedOf(h, g)
      BY <3>2, <3>3, SerializedLocal
    <3> QED BY <3>4 DEF h
  <2>3. h = [g \in TagLevel[n] |-> SerializedOf(h, g)]
    BY <2>2, Zenon
  <2> HIDE DEF h
  <2> QED BY <2>3
<1>2. 0 \in T
  <2>1. \A g \in TagLevel[0] : Children(g) = {}
    BY TagShape, DepthAssumption
  <2> QED BY <2>1, <1>1
<1>3. ASSUME NEW n \in Nat, n \in T PROVE n + 1 \in T
  <2> SUFFICES ASSUME n + 1 \in 0..Depth
               PROVE  \E f : f = [g \in TagLevel[n + 1] |-> SerializedOf(f, g)]
    OBVIOUS
  <2>1. n \in 0..Depth
    BY DepthAssumption
  <2>2. PICK f : f = [g \in TagLevel[n] |-> SerializedOf(f, g)]
    BY <2>1, <1>3
  <2>3. ASSUME NEW g \in TagLevel[n + 1], NEW c \in Children(g) PROVE c \in TagLevel[n]
    <3>1. c \in TagLevel[(n + 1) - 1]
      BY TagShape
    <3>2. (n + 1) - 1 = n
      OBVIOUS
    <3> QED BY <3>1, <3>2
  <2>4. \A c \in TagLevel[n] : f[c] = SerializedOf(f, c)
    BY <2>2
  <2> QED BY <2>3, <2>4, <1>1
<1>4. Depth \in T
  <2> HIDE DEF T
  <2> QED BY <1>2, <1>3, Induction, DepthAssumption
<1>5. \E f : f = [g \in Tag |-> SerializedOf(f, g)]
  BY <1>4, DepthAssumption DEF Tag
<1>6. SerializeArg = [g \in Tag |-> SerializedOf(SerializeArg, g)]
  BY <1>5 DEF SerializeArg, SerializedOf, SerializedAt, ArrayElements
<1> QED BY <1>6, Zenon

LEMMA MeantLocal ==
  ASSUME NEW f, NEW h, NEW g \in Tag, \A c \in Children(g) : f[c] = h[c]
  PROVE  MeantOf(f, g) = MeantOf(h, g)
BY DEF Children, MeantOf, MeantAt, ArrayElements, Is, IsObject

LEMMA MeantIs == \A g \in Tag : MeantArgument[g] = MeantOf(MeantArgument, g)
<1> DEFINE T == {n \in Nat : n \in 0..Depth => \E f : f = [g \in TagLevel[n] |-> MeantOf(f, g)]}
<1>1. ASSUME NEW n \in 0..Depth,
             \E f : \A g \in TagLevel[n] : \A c \in Children(g) : f[c] = MeantOf(f, c)
      PROVE  \E f : f = [g \in TagLevel[n] |-> MeantOf(f, g)]
  <2>1. PICK f : \A g \in TagLevel[n] : \A c \in Children(g) : f[c] = MeantOf(f, c)
    BY <1>1
  <2> DEFINE h == [g \in TagLevel[n] |-> MeantOf(f, g)]
  <2>2. ASSUME NEW g \in TagLevel[n] PROVE h[g] = MeantOf(h, g)
    <3>1. \A c \in Children(g) : c \in TagLevel[n]
      BY TagShape
    <3>2. \A c \in Children(g) : f[c] = h[c]
      BY <3>1, <2>1
    <3>3. g \in Tag
      BY TagsNested
    <3> HIDE DEF h
    <3>4. MeantOf(f, g) = MeantOf(h, g)
      BY <3>2, <3>3, MeantLocal
    <3> QED BY <3>4 DEF h
  <2>3. h = [g \in TagLevel[n] |-> MeantOf(h, g)]
    BY <2>2, Zenon
  <2> HIDE DEF h
  <2> QED BY <2>3
<1>2. 0 \in T
  <2>1. \A g \in TagLevel[0] : Children(g) = {}
    BY TagShape, DepthAssumption
  <2> QED BY <2>1, <1>1
<1>3. ASSUME NEW n \in Nat, n \in T PROVE n + 1 \in T
  <2> SUFFICES ASSUME n + 1 \in 0..Depth
               PROVE  \E f : f = [g \in TagLevel[n + 1] |-> MeantOf(f, g)]
    OBVIOUS
  <2>1. n \in 0..Depth
    BY DepthAssumption
  <2>2. PICK f : f = [g \in TagLevel[n] |-> MeantOf(f, g)]
    BY <2>1, <1>3
  <2>3. ASSUME NEW g \in TagLevel[n + 1], NEW c \in Children(g) PROVE c \in TagLevel[n]
    <3>1. c \in TagLevel[(n + 1) - 1]
      BY TagShape
    <3>2. (n + 1) - 1 = n
      OBVIOUS
    <3> QED BY <3>1, <3>2
  <2>4. \A c \in TagLevel[n] : f[c] = MeantOf(f, c)
    BY <2>2
  <2> QED BY <2>3, <2>4, <1>1
<1>4. Depth \in T
  <2> HIDE DEF T
  <2> QED BY <1>2, <1>3, Induction, DepthAssumption
<1>5. \E f : f = [g \in Tag |-> MeantOf(f, g)]
  BY <1>4, DepthAssumption DEF Tag
<1>6. MeantArgument = [g \in Tag |-> MeantOf(MeantArgument, g)]
  BY <1>5 DEF MeantArgument, MeantOf, MeantAt, ArrayElements
<1> QED BY <1>6, Zenon

LEMMA MisreadLocal ==
  ASSUME NEW f, NEW h, NEW g \in Tag, \A c \in Children(g) : f[c] = h[c]
  PROVE  MisreadOf(f, g) = MisreadOf(h, g)
BY DEF Children, MisreadOf, MisreadAt, SomeElement, Is, IsObject

LEMMA MisreadIs == \A g \in Tag : Misread[g] = MisreadOf(Misread, g)
<1> DEFINE T == {n \in Nat : n \in 0..Depth => \E f : f = [g \in TagLevel[n] |-> MisreadOf(f, g)]}
<1>1. ASSUME NEW n \in 0..Depth,
             \E f : \A g \in TagLevel[n] : \A c \in Children(g) : f[c] = MisreadOf(f, c)
      PROVE  \E f : f = [g \in TagLevel[n] |-> MisreadOf(f, g)]
  <2>1. PICK f : \A g \in TagLevel[n] : \A c \in Children(g) : f[c] = MisreadOf(f, c)
    BY <1>1
  <2> DEFINE h == [g \in TagLevel[n] |-> MisreadOf(f, g)]
  <2>2. ASSUME NEW g \in TagLevel[n] PROVE h[g] = MisreadOf(h, g)
    <3>1. \A c \in Children(g) : c \in TagLevel[n]
      BY TagShape
    <3>2. \A c \in Children(g) : f[c] = h[c]
      BY <3>1, <2>1
    <3>3. g \in Tag
      BY TagsNested
    <3> HIDE DEF h
    <3>4. MisreadOf(f, g) = MisreadOf(h, g)
      BY <3>2, <3>3, MisreadLocal
    <3> QED BY <3>4 DEF h
  <2>3. h = [g \in TagLevel[n] |-> MisreadOf(h, g)]
    BY <2>2, Zenon
  <2> HIDE DEF h
  <2> QED BY <2>3
<1>2. 0 \in T
  <2>1. \A g \in TagLevel[0] : Children(g) = {}
    BY TagShape, DepthAssumption
  <2> QED BY <2>1, <1>1
<1>3. ASSUME NEW n \in Nat, n \in T PROVE n + 1 \in T
  <2> SUFFICES ASSUME n + 1 \in 0..Depth
               PROVE  \E f : f = [g \in TagLevel[n + 1] |-> MisreadOf(f, g)]
    OBVIOUS
  <2>1. n \in 0..Depth
    BY DepthAssumption
  <2>2. PICK f : f = [g \in TagLevel[n] |-> MisreadOf(f, g)]
    BY <2>1, <1>3
  <2>3. ASSUME NEW g \in TagLevel[n + 1], NEW c \in Children(g) PROVE c \in TagLevel[n]
    <3>1. c \in TagLevel[(n + 1) - 1]
      BY TagShape
    <3>2. (n + 1) - 1 = n
      OBVIOUS
    <3> QED BY <3>1, <3>2
  <2>4. \A c \in TagLevel[n] : f[c] = MisreadOf(f, c)
    BY <2>2
  <2> QED BY <2>3, <2>4, <1>1
<1>4. Depth \in T
  <2> HIDE DEF T
  <2> QED BY <1>2, <1>3, Induction, DepthAssumption
<1>5. \E f : f = [g \in Tag |-> MisreadOf(f, g)]
  BY <1>4, DepthAssumption DEF Tag
<1>6. Misread = [g \in Tag |-> MisreadOf(Misread, g)]
  BY <1>5 DEF Misread, MisreadOf, MisreadAt, SomeElement
<1> QED BY <1>6, Zenon

LEMMA UnicodeLocal ==
  ASSUME NEW f, NEW h, NEW g \in Tag, \A c \in Children(g) : f[c] = h[c]
  PROVE  UnicodeOf(f, g) = UnicodeOf(h, g)
<1>1. ASSUME NEW v \in Value PROVE UnicodeAt(f, g, v) = UnicodeAt(h, g, v)
  <2>1. CASE g.k = "vector"
    <3>1. f[g.of] = h[g.of]
      BY <2>1 DEF Children
    <3>2. UnicodeElement(f, g, v) = UnicodeElement(h, g, v)
      BY <3>1, Zenon DEF UnicodeElement, SomeElement
    <3>3. ~Is(g, "option", "Option")
      BY <2>1 DEF Is
    <3> QED BY <2>1, <3>2, <3>3 DEF UnicodeAt
  <2>2. CASE g.k # "vector"
    <3>1. CASE Is(g, "option", "Option") /\ Len(g.args) = 1
      <4>0. Depth \in 0..Depth /\ g \in TagLevel[Depth]
        BY DepthAssumption DEF Tag
      <4>1. g.k = "struct" /\ g.args \in Seq(Tag)
        BY <4>0, <3>1, TagShape DEF Is
      <4>2. f[g.args[1]] = h[g.args[1]]
        BY <4>1, <3>1, OneElement DEF Children
      <4> QED BY <4>2, <3>1, <2>2 DEF UnicodeAt
    <3>2. CASE ~(Is(g, "option", "Option") /\ Len(g.args) = 1)
      BY <2>2, <3>2 DEF UnicodeAt
    <3> QED BY <3>1, <3>2
  <2> QED BY <2>1, <2>2
<1> QED BY <1>1, Zenon DEF UnicodeOf

LEMMA UnicodeIs == \A g \in Tag : Unicode[g] = UnicodeOf(Unicode, g)
<1> DEFINE T == {n \in Nat : n \in 0..Depth => \E f : f = [g \in TagLevel[n] |-> UnicodeOf(f, g)]}
<1>1. ASSUME NEW n \in 0..Depth,
             \E f : \A g \in TagLevel[n] : \A c \in Children(g) : f[c] = UnicodeOf(f, c)
      PROVE  \E f : f = [g \in TagLevel[n] |-> UnicodeOf(f, g)]
  <2>1. PICK f : \A g \in TagLevel[n] : \A c \in Children(g) : f[c] = UnicodeOf(f, c)
    BY <1>1
  <2> DEFINE h == [g \in TagLevel[n] |-> UnicodeOf(f, g)]
  <2>2. ASSUME NEW g \in TagLevel[n] PROVE h[g] = UnicodeOf(h, g)
    <3>1. \A c \in Children(g) : c \in TagLevel[n]
      BY TagShape
    <3>2. \A c \in Children(g) : f[c] = h[c]
      BY <3>1, <2>1
    <3>3. g \in Tag
      BY TagsNested
    <3> HIDE DEF h
    <3>4. UnicodeOf(f, g) = UnicodeOf(h, g)
      BY <3>2, <3>3, UnicodeLocal
    <3> QED BY <3>4 DEF h
  <2>3. h = [g \in TagLevel[n] |-> UnicodeOf(h, g)]
    BY <2>2, Zenon
  <2> HIDE DEF h
  <2> QED BY <2>3
<1>2. 0 \in T
  <2>1. \A g \in TagLevel[0] : Children(g) = {}
    BY TagShape, DepthAssumption
  <2> QED BY <2>1, <1>1
<1>3. ASSUME NEW n \in Nat, n \in T PROVE n + 1 \in T
  <2> SUFFICES ASSUME n + 1 \in 0..Depth
               PROVE  \E f : f = [g \in TagLevel[n + 1] |-> UnicodeOf(f, g)]
    OBVIOUS
  <2>1. n \in 0..Depth
    BY DepthAssumption
  <2>2. PICK f : f = [g \in TagLevel[n] |-> UnicodeOf(f, g)]
    BY <2>1, <1>3
  <2>3. ASSUME NEW g \in TagLevel[n + 1], NEW c \in Children(g) PROVE c \in TagLevel[n]
    <3>1. c \in TagLevel[(n + 1) - 1]
      BY TagShape
    <3>2. (n + 1) - 1 = n
      OBVIOUS
    <3> QED BY <3>1, <3>2
  <2>4. \A c \in TagLevel[n] : f[c] = UnicodeOf(f, c)
    BY <2>2
  <2> QED BY <2>3, <2>4, <1>1
<1>4. Depth \in T
  <2> HIDE DEF T
  <2> QED BY <1>2, <1>3, Induction, DepthAssumption
<1>5. \E f : f = [g \in Tag |-> UnicodeOf(f, g)]
  BY <1>4, DepthAssumption DEF Tag
<1>6. Unicode = [g \in Tag |-> UnicodeOf(Unicode, g)]
  BY <1>5 DEF Unicode, UnicodeOf, UnicodeAt, UnicodeElement, SomeElement, NotAscii
<1> QED BY <1>6, Zenon

(***************************************************************************)
(* The range checks                                                        *)
(***************************************************************************)

Parts(m) == IF m.t = "vec" THEN {m.of[i] : i \in DOMAIN m.of}
            ELSE IF m.t = "some" THEN {m.of} ELSE {}

LEMMA ArgShape ==
  ASSUME NEW n \in 0..Depth, NEW m \in ArgLevel[n]
  PROVE  /\ \A c \in Parts(m) : n - 1 \in 0..Depth /\ c \in ArgLevel[n - 1] /\ c \in ArgLevel[n]
         /\ m.t = "vec" => m.of \in Seq(Arg)
<1> DEFINE inner == Inner(ArgLevel, n)
<1>1. m \in ArgsOver(inner)
  BY ArgLevels
<1>2. \A c \in inner : n - 1 \in 0..Depth /\ c \in ArgLevel[n - 1] /\ c \in ArgLevel[n]
  <2> SUFFICES ASSUME NEW c \in inner
               PROVE  n - 1 \in 0..Depth /\ c \in ArgLevel[n - 1] /\ c \in ArgLevel[n]
    OBVIOUS
  <2>1. n # 0 /\ c \in ArgLevel[n - 1]
    BY DEF Inner
  <2>2. n - 1 \in Nat /\ (n - 1) + 1 = n
    BY <2>1, DepthAssumption
  <2> QED BY <2>1, <2>2, ArgsNested, DepthAssumption
<1>3. inner \subseteq Arg
  BY <1>2, ArgsNested
<1> HIDE DEF inner
<1>4. CASE m \in [t : {"vec"}, of : Seq(inner)]
  <2>1. m.t = "vec" /\ m.of \in Seq(inner)
    BY <1>4
  <2>2. m.of \in Seq(Arg)
    BY <2>1, <1>3, SeqsGrow
  <2>3. \A c \in Parts(m) : c \in inner
    BY <2>1 DEF Parts
  <2> QED BY <2>2, <2>3, <1>2
<1>5. CASE m \in [t : {"some"}, of : inner]
  <2>1. m.t = "some" /\ m.of \in inner
    BY <1>5
  <2>2. \A c \in Parts(m) : c \in inner
    BY <2>1 DEF Parts
  <2> QED BY <2>1, <2>2, <1>2
<1>6. CASE m.t \notin {"vec", "some"}
  <2>1. Parts(m) = {}
    BY <1>6 DEF Parts
  <2> QED BY <2>1, <1>6
<1> QED BY <1>1, <1>4, <1>5, <1>6 DEF ArgsOver, Refused, None

InRangeOf(f, m) ==
    CASE m.t = "num" -> m.n \in 0..Limit[m.w]
      [] m.t = "vec" -> \A i \in DOMAIN m.of : f[m.of[i]]
      [] m.t = "some" -> f[m.of]
      [] m.t = "refused" -> FALSE
      [] OTHER -> TRUE

LEMMA InRangeLocal ==
  ASSUME NEW f, NEW h, NEW m \in Arg, \A c \in Parts(m) : f[c] = h[c]
  PROVE  InRangeOf(f, m) = InRangeOf(h, m)
BY DEF Parts, InRangeOf

LEMMA InRangeIs == \A m \in Arg : InRange[m] = InRangeOf(InRange, m)
<1> DEFINE T == {n \in Nat : n \in 0..Depth => \E f : f = [m \in ArgLevel[n] |-> InRangeOf(f, m)]}
<1>1. ASSUME NEW n \in 0..Depth,
             \E f : \A m \in ArgLevel[n] : \A c \in Parts(m) : f[c] = InRangeOf(f, c)
      PROVE  \E f : f = [m \in ArgLevel[n] |-> InRangeOf(f, m)]
  <2>1. PICK f : \A m \in ArgLevel[n] : \A c \in Parts(m) : f[c] = InRangeOf(f, c)
    BY <1>1
  <2> DEFINE h == [m \in ArgLevel[n] |-> InRangeOf(f, m)]
  <2>2. ASSUME NEW m \in ArgLevel[n] PROVE h[m] = InRangeOf(h, m)
    <3>1. \A c \in Parts(m) : c \in ArgLevel[n]
      BY ArgShape
    <3>2. \A c \in Parts(m) : f[c] = h[c]
      BY <3>1, <2>1
    <3>3. m \in Arg
      BY ArgsNested
    <3> HIDE DEF h
    <3>4. InRangeOf(f, m) = InRangeOf(h, m)
      BY <3>2, <3>3, InRangeLocal
    <3> QED BY <3>4 DEF h
  <2>3. h = [m \in ArgLevel[n] |-> InRangeOf(h, m)]
    BY <2>2, Zenon
  <2> HIDE DEF h
  <2> QED BY <2>3
<1>2. 0 \in T
  <2>1. \A m \in ArgLevel[0] : Parts(m) = {}
    BY ArgShape, DepthAssumption
  <2> QED BY <2>1, <1>1
<1>3. ASSUME NEW n \in Nat, n \in T PROVE n + 1 \in T
  <2> SUFFICES ASSUME n + 1 \in 0..Depth
               PROVE  \E f : f = [m \in ArgLevel[n + 1] |-> InRangeOf(f, m)]
    OBVIOUS
  <2>1. n \in 0..Depth
    BY DepthAssumption
  <2>2. PICK f : f = [m \in ArgLevel[n] |-> InRangeOf(f, m)]
    BY <2>1, <1>3
  <2>3. ASSUME NEW m \in ArgLevel[n + 1], NEW c \in Parts(m) PROVE c \in ArgLevel[n]
    <3>1. c \in ArgLevel[(n + 1) - 1]
      BY ArgShape
    <3>2. (n + 1) - 1 = n
      OBVIOUS
    <3> QED BY <3>1, <3>2
  <2>4. \A c \in ArgLevel[n] : f[c] = InRangeOf(f, c)
    BY <2>2
  <2> QED BY <2>3, <2>4, <1>1
<1>4. Depth \in T
  <2> HIDE DEF T
  <2> QED BY <1>2, <1>3, Induction, DepthAssumption
<1>5. \E f : f = [m \in Arg |-> InRangeOf(f, m)]
  BY <1>4, DepthAssumption DEF Arg
<1>6. InRange = [m \in Arg |-> InRangeOf(InRange, m)]
  BY <1>5 DEF InRange, InRangeOf
<1> QED BY <1>6, Zenon

(***************************************************************************)
(* Values, and the numbers they are taken for                              *)
(***************************************************************************)

LEMMA ValueShape ==
  /\ Scalars \subseteq Value
  /\ \A v \in Value : v \in Scalars \/ v \in [js : {"array"}, of : Seq(Value)]
<1> DEFINE inner == Inner(ValueLevel, Depth)
<1>1. Value = ValuesOver(inner)
  BY ValueLevels, DepthAssumption DEF Value
<1>2. inner \subseteq Value
  <2> SUFFICES ASSUME NEW v \in inner PROVE v \in Value
    OBVIOUS
  <2>1. Depth # 0 /\ v \in ValueLevel[Depth - 1]
    BY DEF Inner
  <2>2. Depth - 1 \in 0..Depth
    BY <2>1, DepthAssumption
  <2> QED BY <2>1, <2>2, ValuesNested
<1> HIDE DEF inner
<1>3. Seq(inner) \subseteq Seq(Value)
  BY <1>2, SeqsGrow
<1> QED BY <1>1, <1>3 DEF ValuesOver

\* A value is of one of these forms, and of one only.
Arrays == Seq(Value)

IsText(v) == v = Text(v.chars)

KindOf(v) == \/ v.js \in {"number", "bigint"} /\ v.n \in Int
             \/ v.js = "string" /\ v.form \in {"decimal", "hex", "suffixed"} /\ v.n \in Int
             \/ v.js = "string" /\ v.form = "truth" /\ v.b \in BOOLEAN
             \/ v.js = "string" /\ v.form = "address" /\ v.a \in STRING
             \/ v.js = "string" /\ v.form = "text" /\ v.chars \in CodeUnits /\ IsText(v)
             \/ v.js = "boolean" /\ v.b \in BOOLEAN
             \/ v.js = "bytes" /\ v.bytes \in Bytes
             \/ v.js = "AccountAddress" /\ v.a \in STRING
             \/ v.js = "array" /\ v.of \in Arrays
             \/ v = Null

LEMMA ValueKinds == ASSUME NEW v \in Value PROVE KindOf(v)
<1> DEFINE Numeral == [js : {"number", "bigint"}, n : Int]
<1> DEFINE Digits == [js : {"string"}, form : {"decimal", "hex", "suffixed"}, n : Int]
<1> DEFINE Truths == [js : {"string"}, form : {"truth"}, b : BOOLEAN]
<1> DEFINE Hexes == [js : {"string"}, form : {"address"}, a : STRING]
<1> DEFINE Strings == [js : {"string"}, form : {"text"}, chars : CodeUnits]
<1> DEFINE Bools == [js : {"boolean"}, b : BOOLEAN]
<1> DEFINE Binary == [js : {"bytes"}, bytes : Bytes]
<1> DEFINE Accounts == [js : {"AccountAddress"}, a : STRING]
<1> DEFINE Lists == [js : {"array"}, of : Arrays]
<1>1. v \in Numeral => v.js \in {"number", "bigint"} /\ v.n \in Int
  OBVIOUS
<1>2. v \in Digits => v.js = "string" /\ v.form \in {"decimal", "hex", "suffixed"} /\ v.n \in Int
  OBVIOUS
<1>3. v \in Truths => v.js = "string" /\ v.form = "truth" /\ v.b \in BOOLEAN
  OBVIOUS
<1>4. v \in Hexes => v.js = "string" /\ v.form = "address" /\ v.a \in STRING
  OBVIOUS
<1>5. v \in Strings => v.js = "string" /\ v.form = "text" /\ v.chars \in CodeUnits /\ IsText(v)
  BY DEF IsText, Text
<1>6. v \in Bools => v.js = "boolean" /\ v.b \in BOOLEAN
  OBVIOUS
<1>7. v \in Binary => v.js = "bytes" /\ v.bytes \in Bytes
  OBVIOUS
<1>8. v \in Accounts => v.js = "AccountAddress" /\ v.a \in STRING
  OBVIOUS
<1>9. v \in Lists => v.js = "array" /\ v.of \in Arrays
  OBVIOUS
<1>10. Scalars = Numeral \cup Digits \cup Truths \cup Hexes \cup Strings \cup Bools \cup Binary \cup Accounts \cup {Null}
  BY Zenon DEF Scalars
<1>11. v \in Scalars \/ v \in Lists
  BY ValueShape DEF Arrays
<1> HIDE DEF Numeral, Digits, Truths, Hexes, Strings, Bools, Binary, Accounts, Lists
<1>12. v \in Numeral \/ v \in Digits \/ v \in Truths \/ v \in Hexes \/ v \in Strings \/ v \in Bools \/ v \in Binary \/ v \in Accounts \/ v \in Lists \/ v = Null
  BY <1>10, <1>11
<1> QED BY <1>1, <1>2, <1>3, <1>4, <1>5, <1>6, <1>7, <1>8, <1>9, <1>12, Zenon DEF KindOf

LEMMA Forms ==
  ASSUME NEW v \in Value
  PROVE  /\ v.js \in {"number", "bigint"} \/ HasForm(v, {"decimal", "hex", "suffixed"}) => v.n \in Int
         /\ v.js = "boolean" \/ HasForm(v, {"truth"}) => v.b \in BOOLEAN
         /\ v.js = "AccountAddress" \/ HasForm(v, {"address"}) => v.a \in STRING
         /\ HasForm(v, {"text"}) => v.chars \in CodeUnits
         /\ v.js = "bytes" => v.bytes \in Bytes
         /\ v.js = "array" => v.of \in Seq(Value)
<1>0. KindOf(v)
  BY ValueKinds
<1>1. v.js \in {"number", "bigint"} \/ HasForm(v, {"decimal", "hex", "suffixed"}) => v.n \in Int
  BY <1>0 DEF KindOf, HasForm, IsString, Null
<1>2. v.js = "boolean" \/ HasForm(v, {"truth"}) => v.b \in BOOLEAN
  BY <1>0 DEF KindOf, HasForm, IsString, Null
<1>3. v.js = "AccountAddress" \/ HasForm(v, {"address"}) => v.a \in STRING
  BY <1>0 DEF KindOf, HasForm, IsString, Null
<1>4. HasForm(v, {"text"}) => v.chars \in CodeUnits
  BY <1>0 DEF KindOf, HasForm, IsString, Null
<1>5. v.js = "bytes" => v.bytes \in Bytes
  BY <1>0 DEF KindOf, HasForm, IsString, Null
<1>6. v.js = "array" => v.of \in Seq(Value)
  <2>1. v.js = "array" => v.of \in Arrays
    BY <1>0 DEF KindOf, Null
  <2> QED BY <2>1 DEF Arrays
<1> QED BY <1>1, <1>2, <1>3, <1>4, <1>5, <1>6

\* Two values are told from all others by their form alone.
LEMMA Singular ==
  ASSUME NEW v \in Value
  PROVE  /\ v.js = "null" => v = Null
         /\ HasForm(v, {"text"}) => v = Text(v.chars)
<1>1. v.js = "null" => v = Null
  BY ValueKinds DEF KindOf
<1>2. HasForm(v, {"text"}) => IsText(v)
  BY ValueKinds DEF KindOf, HasForm, IsString, Null
<1> QED BY <1>1, <1>2 DEF IsText

Flat == {Refused} \cup [t : {"num"}, w : DOMAIN Limit, n : Int]
        \cup [t : {"bool"}, b : BOOLEAN] \cup [t : {"address"}, a : STRING]

LEMMA FlatArgs == \A n \in 0..Depth : Flat \subseteq ArgLevel[n]
BY ArgLevels DEF Flat, ArgsOver

LEMMA Points ==
  /\ \A n \in Int : Double(n) \in Int
  /\ \A n \in Int : n <= U32Max \/ Double(n) <= U32Max => Double(n) = n
  /\ Limit["u8"] = 255 /\ Limit["u16"] = 65535 /\ Limit["u32"] = U32Max
  /\ \A w \in DOMAIN Limit : Limit[w] \in Nat
  /\ \A w \in SmallWidths : Limit[w] <= U32Max
  /\ DOMAIN Limit = {"u8", "u16", "u32", "u64", "u128", "u256"}
<1> USE DEF U32Max, TwoTo32, SafeMax, TwoTo53, TwoTo53Plus1, U64Max, TwoTo64, U128Max,
            TwoTo128, U256Max, TwoTo256
<1>1. \A n \in Int : Double(n) \in Int
  BY DEF Double
<1>2. \A n \in Int : n <= U32Max \/ Double(n) <= U32Max => Double(n) = n
  BY DEF Double
<1>3. DOMAIN Limit = {"u8", "u16", "u32", "u64", "u128", "u256"}
  BY DEF Limit
<1>4. /\ Limit["u8"] = 255 /\ Limit["u16"] = 65535 /\ Limit["u32"] = U32Max
      /\ Limit["u64"] = U64Max /\ Limit["u128"] = U128Max /\ Limit["u256"] = U256Max
  BY DEF Limit
<1> QED BY <1>1, <1>2, <1>3, <1>4 DEF SmallWidths

LEMMA WrittenFlat ==
  /\ Written(Refused) = Refused
  /\ \A w \in DOMAIN Limit, n \in Int :
       Written(Num(w, n)) = IF n \in 0..Limit[w] THEN Num(w, n) ELSE Refused
  /\ \A b \in BOOLEAN : Written(Bool(b)) = Bool(b)
  /\ \A a \in STRING : Written(Addr(a)) = Addr(a)
<1>1. Flat \subseteq Arg
  BY FlatArgs, DepthAssumption DEF Arg
<1>2. ~InRange[Refused]
  BY <1>1, InRangeIs DEF InRangeOf, Flat, Refused
<1>3. ASSUME NEW w \in DOMAIN Limit, NEW n \in Int
      PROVE  InRange[Num(w, n)] <=> n \in 0..Limit[w]
  <2>1. Num(w, n) \in Arg
    BY <1>1 DEF Flat, Num
  <2>2. Num(w, n).t = "num" /\ Num(w, n).n = n /\ Num(w, n).w = w
    BY DEF Num
  <2> QED BY <2>1, <2>2, InRangeIs DEF InRangeOf
<1>4. ASSUME NEW b \in BOOLEAN PROVE InRange[Bool(b)]
  <2>1. Bool(b) \in Arg
    BY <1>1 DEF Flat, Bool
  <2> QED BY <2>1, InRangeIs DEF InRangeOf, Bool
<1>5. ASSUME NEW a \in STRING PROVE InRange[Addr(a)]
  <2>1. Addr(a) \in Arg
    BY <1>1 DEF Flat, Addr
  <2> QED BY <2>1, InRangeIs DEF InRangeOf, Addr
<1> QED BY <1>2, <1>3, <1>4, <1>5 DEF Written

\* A value that is taken for another number than the one it is meant for.
Misnumbered(v, w) ==
  IF w \in SmallWidths THEN HasForm(v, {"suffixed"}) \/ (HasForm(v, {"hex"}) /\ v.n # 0)
  ELSE Blank(v)

\* A number keeps its value through parseInt, BigInt and the range checks.
LEMMA NumberMeant ==
  ASSUME NEW v \in Value, NEW w \in DOMAIN Limit
  PROVE  /\ ParsedNumber(v, w) \in Flat
         /\ ~Misnumbered(v, w) => Written(ParsedNumber(v, w)) = Meant(v, w)
<1>1. CASE w \in SmallWidths
  <2>1. ParsedNumber(v, w) = IF EnsureNumber(v) = NoNumber THEN Refused
                             ELSE Num(w, EnsureNumber(v))
    BY <1>1 DEF ParsedNumber, SmallWidths
  <2>2. CASE v.js = "number"
    <3>1. EnsureNumber(v) = v.n
      BY <2>2 DEF EnsureNumber, HasForm, IsString
    <3>3. v.n \in Int
      BY <2>2, Forms
    <3>2. Meant(v, w) = IF v.n \in 0..Limit[w] THEN Num(w, v.n) ELSE Refused
      BY <2>2 DEF Meant
    <3> QED BY <2>1, <3>1, <3>2, <3>3, WrittenFlat DEF Flat, Num, NoNumber
  <2>3. CASE HasForm(v, {"decimal"})
    <3>1. EnsureNumber(v) = Double(v.n) /\ v.n \in Int
      BY <2>3, Forms DEF EnsureNumber, HasForm, IsString
    <3>2. Meant(v, w) = IF v.n \in 0..Limit[w] THEN Num(w, v.n) ELSE Refused
      BY <2>3 DEF Meant, HasForm
    <3>3. Double(v.n) \in Int /\ (Double(v.n) \in 0..Limit[w] \/ v.n \in 0..Limit[w] => Double(v.n) = v.n)
      BY <3>1, <1>1, Points
    <3> QED BY <2>1, <3>1, <3>2, <3>3, WrittenFlat DEF Flat, Num, NoNumber
  <2>4. CASE HasForm(v, {"hex"})
    <3>1. EnsureNumber(v) = 0
      BY <2>4 DEF EnsureNumber, HasForm, IsString
    <3>2. Meant(v, w) = IF v.n \in 0..Limit[w] THEN Num(w, v.n) ELSE Refused
      BY <2>4 DEF Meant, HasForm
    <3>3. ~Misnumbered(v, w) => v.n = 0
      BY <2>4, <1>1 DEF Misnumbered
    <3> QED BY <2>1, <3>1, <3>2, <3>3, WrittenFlat DEF Flat, Num, NoNumber
  <2>5. CASE HasForm(v, {"suffixed"})
    <3>1. EnsureNumber(v) = Double(v.n) /\ Double(v.n) \in Int
      BY <2>5, Forms, Points DEF EnsureNumber, HasForm, IsString
    <3>2. Misnumbered(v, w)
      BY <2>5, <1>1 DEF Misnumbered
    <3> QED BY <2>1, <3>1, <3>2 DEF Flat, Num
  <2>6. CASE v.js # "number" /\ ~HasForm(v, {"decimal", "hex", "suffixed"})
    <3>1. EnsureNumber(v) = NoNumber
      BY <2>6 DEF EnsureNumber, HasForm
    <3>2. Meant(v, w) = Refused
      BY <2>6, <1>1 DEF Meant, HasForm
    <3> QED BY <2>1, <3>1, <3>2, WrittenFlat DEF Flat
  <2> QED BY <2>2, <2>3, <2>4, <2>5, <2>6 DEF HasForm
<1>2. CASE w \notin SmallWidths
  <2>1. ParsedNumber(v, w) = IF EnsureBigInt(v) = NoNumber THEN Refused
                             ELSE Num(w, EnsureBigInt(v))
    BY <1>2 DEF ParsedNumber, SmallWidths
  <2>2. CASE v.js \in {"number", "bigint"} \/ HasForm(v, {"decimal", "hex"})
    <3>1. EnsureBigInt(v) = v.n
      <4>1. ~Blank(v)
        BY <2>2 DEF Blank, HasForm, IsString
      <4> QED BY <2>2, <4>1 DEF EnsureBigInt
    <3>3. v.n \in Int
      BY <2>2, Forms DEF HasForm
    <3>2. Meant(v, w) = IF v.n \in 0..Limit[w] THEN Num(w, v.n) ELSE Refused
      BY <2>2, <1>2 DEF Meant
    <3> QED BY <2>1, <3>1, <3>2, <3>3, WrittenFlat DEF Flat, Num, NoNumber
  <2>3. CASE Blank(v)
    <3>1. EnsureBigInt(v) = 0
      BY <2>3 DEF EnsureBigInt, HasForm, IsString, Blank
    <3>2. Misnumbered(v, w)
      BY <2>3, <1>2 DEF Misnumbered
    <3> QED BY <2>1, <3>1, <3>2 DEF Flat, Num
  <2>4. CASE ~(v.js \in {"number", "bigint"} \/ HasForm(v, {"decimal", "hex"}) \/ Blank(v))
    <3>1. EnsureBigInt(v) = NoNumber
      BY <2>4 DEF EnsureBigInt
    <3>2. Meant(v, w) = Refused
      BY <2>4 DEF Meant
    <3> QED BY <2>1, <3>1, <3>2, WrittenFlat DEF Flat
  <2> QED BY <2>2, <2>3, <2>4
<1> QED BY <1>1, <1>2

(***************************************************************************)
(* What the functions are for each kind of type                            *)
(***************************************************************************)

Framework(g) == \/ g = StringTag \/ Is(g, "option", "Option") \/ Is(g, "object", "Object")
                \/ Is(g, "fixed_point32", "FixedPoint32") \/ Is(g, "fixed_point64", "FixedPoint64")

Fixed(g) == Is(g, "fixed_point32", "FixedPoint32") \/ Is(g, "fixed_point64", "FixedPoint64")

FixedWidth(g) == IF Is(g, "fixed_point32", "FixedPoint32") THEN "u64" ELSE "u128"

\* The kinds of types exclude one another.
LEMMA KindsOfTypes ==
  ASSUME NEW g
  PROVE  /\ IsSimple(g) => g.k # "vector" /\ g.k # "struct"
         /\ Framework(g) => g.k = "struct"
         /\ g = StringTag => g.module = "string"
         /\ Is(g, "option", "Option") => g.module = "option"
         /\ Is(g, "object", "Object") => g.module = "object"
         /\ Is(g, "fixed_point32", "FixedPoint32") => g.module = "fixed_point32"
         /\ Is(g, "fixed_point64", "FixedPoint64") => g.module = "fixed_point64"
<1>1. g = StringTag => g.k = "struct" /\ g.module = "string"
  BY DEF StringTag, Struct
<1>2. IsSimple(g) => g.k # "vector" /\ g.k # "struct"
  BY DEF IsSimple, Primitives
<1> QED BY <1>1, <1>2 DEF Is, Framework

LEMMA EntryEquations ==
  ASSUME NEW g \in Tag, NEW v \in Value
  PROVE  LET E == ToEntryFunctionArgument IN
         /\ IsSimple(g) => E[g][v] = Simple(v, g)
         /\ g.k = "vector" =>
              E[g][v] = IF ~HasElements(v, g) THEN Refused
                        ELSE EntryElements(E, g, v)
         /\ g = StringTag => E[g][v] = Str(v)
         /\ Is(g, "option", "Option") =>
              E[g][v] = Optional(v, IF g.args = << >> THEN Refused ELSE E[g.args[1]][v])
         /\ Is(g, "object", "Object") => E[g][v] = EnsureAddress(v)
         /\ Fixed(g) => E[g][v] = ParsedNumber(v, FixedWidth(g))
         /\ g.k = "struct" /\ ~Framework(g) => E[g][v] = EmptyStruct(g)
         /\ ~IsSimple(g) /\ g.k \notin {"vector", "struct"} => E[g][v] = Refused
<1> DEFINE E == ToEntryFunctionArgument
<1> HIDE DEF E
<1>0. E[g][v] = EntryAt(E, g, v)
  BY EntryIs DEF EntryOf, E
<1>1. IsSimple(g) => E[g][v] = Simple(v, g)
  BY <1>0, KindsOfTypes DEF EntryAt, Framework
<1>2. g.k = "vector" =>
        E[g][v] = IF ~HasElements(v, g) THEN Refused
                  ELSE EntryElements(E, g, v)
  BY <1>0, KindsOfTypes DEF EntryAt, Framework
<1>3. g = StringTag => E[g][v] = Str(v)
  BY <1>0, KindsOfTypes DEF EntryAt, Framework
<1>4. Is(g, "option", "Option") =>
        E[g][v] = Optional(v, IF g.args = << >> THEN Refused ELSE E[g.args[1]][v])
  BY <1>0, KindsOfTypes DEF EntryAt, Framework
<1>5. Is(g, "object", "Object") => E[g][v] = EnsureAddress(v)
  BY <1>0, KindsOfTypes DEF EntryAt, Framework
<1>6. Is(g, "fixed_point32", "FixedPoint32") => E[g][v] = ParsedNumber(v, "u64")
  BY <1>0, KindsOfTypes DEF EntryAt, Framework
<1>7. Is(g, "fixed_point64", "FixedPoint64") => E[g][v] = ParsedNumber(v, "u128")
  BY <1>0, KindsOfTypes DEF EntryAt, Framework
<1>8. g.k = "struct" /\ ~Framework(g) => E[g][v] = EmptyStruct(g)
  BY <1>0, KindsOfTypes DEF EntryAt, Framework
<1>9. ~IsSimple(g) /\ g.k \notin {"vector", "struct"} => E[g][v] = Refused
  BY <1>0, KindsOfTypes DEF EntryAt, Framework
<1>10. Fixed(g) => E[g][v] = ParsedNumber(v, FixedWidth(g))
  BY <1>6, <1>7, KindsOfTypes DEF Fixed, FixedWidth
<1> QED BY <1>1, <1>2, <1>3, <1>4, <1>5, <1>8, <1>9, <1>10 DEF E

LEMMA MeantEquations ==
  ASSUME NEW g \in Tag, NEW v \in Value
  PROVE  LET M == MeantArgument IN
         /\ g.k \in DOMAIN Limit => M[g][v] = Meant(v, g.k)
         /\ g.k \in {"bool", "address"} => M[g][v] = Simple(v, g)
         /\ g.k = "vector" =>
              M[g][v] = IF v.js = "array" THEN ArrayElements(M, g, v)
                        ELSE IF IsBytes(g) THEN MeantBytes(v) ELSE Refused
         /\ g = StringTag => M[g][v] = IF IsString(v) THEN Str(v) ELSE Refused
         /\ Is(g, "option", "Option") /\ Len(g.args) = 1 =>
              M[g][v] = IF v = Null THEN None
                        ELSE IF M[g.args[1]][v] = Refused THEN Refused ELSE Some(M[g.args[1]][v])
         /\ Is(g, "object", "Object") => M[g][v] = EnsureAddress(v)
         /\ Fixed(g) => M[g][v] = Meant(v, FixedWidth(g))
         /\ ~IsSimple(g) /\ g.k \notin {"vector", "struct"} => M[g][v] = Refused
<1> DEFINE M == MeantArgument
<1> HIDE DEF M
<1>0. M[g][v] = MeantAt(M, g, v)
  BY MeantIs DEF MeantOf, M
<1>1. /\ g.k \in DOMAIN Limit <=> g.k \in {"u8", "u16", "u32", "u64", "u128", "u256"}
      /\ IsSimple(g) <=> g.k \in DOMAIN Limit \/ g.k \in {"bool", "address"}
  BY Points DEF IsSimple, Primitives
<1>2. g.k \in DOMAIN Limit => M[g][v] = Meant(v, g.k)
  BY <1>0, <1>1, KindsOfTypes DEF MeantAt, Framework, IsObject
<1>3. g.k \in {"bool", "address"} => M[g][v] = Simple(v, g)
  BY <1>0, <1>1, KindsOfTypes DEF MeantAt, Framework, IsObject
<1>4. g.k = "vector" =>
        M[g][v] = IF v.js = "array" THEN ArrayElements(M, g, v)
                  ELSE IF IsBytes(g) THEN MeantBytes(v) ELSE Refused
  BY <1>0, <1>1, KindsOfTypes DEF MeantAt, Framework, IsObject
<1>5. g = StringTag => M[g][v] = IF IsString(v) THEN Str(v) ELSE Refused
  BY <1>0, <1>1, KindsOfTypes DEF MeantAt, Framework, IsObject
<1>6. Is(g, "option", "Option") /\ Len(g.args) = 1 =>
        M[g][v] = IF v = Null THEN None
                  ELSE IF M[g.args[1]][v] = Refused THEN Refused ELSE Some(M[g.args[1]][v])
  BY <1>0, <1>1, KindsOfTypes DEF MeantAt, Framework, IsObject
<1>7. Is(g, "object", "Object") => M[g][v] = EnsureAddress(v)
  BY <1>0, <1>1, KindsOfTypes DEF MeantAt, Framework, IsObject
<1>8. Is(g, "fixed_point32", "FixedPoint32") => M[g][v] = Meant(v, "u64")
  BY <1>0, <1>1, KindsOfTypes DEF MeantAt, Framework, IsObject
<1>9. Is(g, "fixed_point64", "FixedPoint64") => M[g][v] = Meant(v, "u128")
  BY <1>0, <1>1, KindsOfTypes DEF MeantAt, Framework, IsObject
<1>10. ~IsSimple(g) /\ g.k \notin {"vector", "struct"} => M[g][v] = Refused
  BY <1>0, <1>1, KindsOfTypes DEF MeantAt, Framework, IsObject
<1>11. Fixed(g) => M[g][v] = Meant(v, FixedWidth(g))
  BY <1>8, <1>9, KindsOfTypes DEF Fixed, FixedWidth
<1> QED BY <1>2, <1>3, <1>4, <1>5, <1>6, <1>7, <1>10, <1>11 DEF M

LEMMA MisreadEquations ==
  ASSUME NEW g \in Tag, NEW v \in Value
  PROVE  LET W == Misread IN
         /\ g.k \in DOMAIN Limit => (W[g][v] <=> Misnumbered(v, g.k))
         /\ g.k \in {"bool", "address"} => ~W[g][v]
         /\ g.k = "vector" =>
              (W[g][v] <=> SomeElement(W, g, v))
         /\ g = StringTag => (W[g][v] <=> ~IsString(v))
         /\ Is(g, "option", "Option") =>
              (W[g][v] <=> IF Len(g.args) = 1 THEN v # Null /\ W[g.args[1]][v] ELSE TRUE)
         /\ Is(g, "object", "Object") => ~W[g][v]
         /\ Fixed(g) => (W[g][v] <=> Blank(v))
         /\ g.k = "struct" /\ ~Framework(g) => W[g][v]
<1> DEFINE W == Misread
<1> HIDE DEF W
<1>0. W[g][v] = MisreadAt(W, g, v)
  BY MisreadIs DEF MisreadOf, W
<1>1. /\ g.k \in DOMAIN Limit <=> g.k \in {"u8", "u16", "u32", "u64", "u128", "u256"}
      /\ g.k \in SmallWidths <=> g.k \in {"u8", "u16", "u32"}
  BY Points DEF SmallWidths
<1>2. g.k \in DOMAIN Limit => (W[g][v] <=> Misnumbered(v, g.k))
  BY <1>0, <1>1, KindsOfTypes DEF MisreadAt, Misnumbered, Framework, IsObject
<1>3. g.k \in {"bool", "address"} => ~W[g][v]
  BY <1>0, <1>1, KindsOfTypes DEF MisreadAt, Framework, IsObject
<1>4. g.k = "vector" =>
        (W[g][v] <=> SomeElement(W, g, v))
  BY <1>0, <1>1, KindsOfTypes DEF MisreadAt, Framework, IsObject
<1>5. g = StringTag => (W[g][v] <=> ~IsString(v))
  BY <1>0, <1>1, KindsOfTypes DEF MisreadAt, Framework, IsObject
<1>6. Is(g, "option", "Option") =>
        (W[g][v] <=> IF Len(g.args) = 1 THEN v # Null /\ W[g.args[1]][v] ELSE TRUE)
  BY <1>0, <1>1, KindsOfTypes DEF MisreadAt, Framework, IsObject
<1>7. Is(g, "object", "Object") => ~W[g][v]
  BY <1>0, <1>1, KindsOfTypes DEF MisreadAt, Framework, IsObject
<1>8. Fixed(g) => (W[g][v] <=> Blank(v))
  BY <1>0, <1>1, KindsOfTypes DEF MisreadAt, Framework, IsObject, Fixed
<1>9. g.k = "struct" /\ ~Framework(g) => W[g][v]
  BY <1>0, <1>1, KindsOfTypes DEF MisreadAt, Framework, IsObject
<1> QED BY <1>2, <1>3, <1>4, <1>5, <1>6, <1>7, <1>8, <1>9 DEF W

LEMMA UnicodeEquations ==
  ASSUME NEW g \in Tag, NEW v \in Value
  PROVE  /\ g.k = "vector" =>
              (Unicode[g][v] <=> UnicodeElement(Unicode, g, v))
         /\ Is(g, "option", "Option") =>
              (Unicode[g][v] <=> Len(g.args) = 1 /\ v # Null /\ Unicode[g.args[1]][v])
         /\ g.k # "vector" /\ ~Is(g, "option", "Option") => ~Unicode[g][v]
<1>1. Unicode[g][v] = UnicodeAt(Unicode, g, v)
  BY UnicodeIs DEF UnicodeOf
<1>2. Is(g, "option", "Option") => g.k # "vector"
  BY DEF Is
<1>3. CASE g.k = "vector"
  BY <1>1, <1>2, <1>3 DEF UnicodeAt
<1>4. CASE Is(g, "option", "Option")
  BY <1>1, <1>2, <1>4 DEF UnicodeAt
<1>5. CASE g.k # "vector" /\ ~Is(g, "option", "Option")
  BY <1>1, <1>5 DEF UnicodeAt
<1> QED BY <1>2, <1>3, <1>4, <1>5

LEMMA SerializedEquations ==
  ASSUME NEW g \in Tag, NEW v \in Value
  PROVE  LET S == SerializeArg IN
         /\ IsSimple(g) => S[g][v] = Written(Simple(v, g))
         /\ g.k = "vector" =>
              S[g][v] = IF v.js = "array" THEN ArrayElements(S, g, v)
                        ELSE IF IsBytes(g) THEN MeantBytes(v) ELSE Refused
         /\ g = StringTag => S[g][v] = IF IsString(v) THEN Str(v) ELSE Refused
         /\ ~IsSimple(g) /\ g.k # "vector" /\ g # StringTag => S[g][v] = Refused
<1> DEFINE S == SerializeArg
<1> HIDE DEF S
<1>0. S[g][v] = SerializedAt(S, g, v)
  BY SerializedIs DEF SerializedOf, S
<1>1. IsBytes(g) => g.k = "vector"
  BY DEF IsBytes, Vector
<1>2. IsSimple(g) => S[g][v] = Written(Simple(v, g))
  BY <1>0, <1>1, KindsOfTypes DEF SerializedAt, Framework
<1>3. HasForm(v, {"text"}) => v.js = "string"
  BY DEF HasForm, IsString
<1>4. g.k = "vector" =>
        S[g][v] = IF v.js = "array" THEN ArrayElements(S, g, v)
                  ELSE IF IsBytes(g) THEN MeantBytes(v) ELSE Refused
  BY <1>0, <1>1, <1>3, KindsOfTypes DEF SerializedAt, MeantBytes, Framework
<1>5. g = StringTag => S[g][v] = IF IsString(v) THEN Str(v) ELSE Refused
  BY <1>0, <1>1, KindsOfTypes DEF SerializedAt, Framework
<1>6. ~IsSimple(g) /\ g.k # "vector" /\ g # StringTag => S[g][v] = Refused
  BY <1>0, <1>1 DEF SerializedAt
<1> QED BY <1>2, <1>4, <1>5, <1>6 DEF S

(***************************************************************************)
(* What an entry function is given                                         *)
(***************************************************************************)

LEMMA AddressMeant ==
  ASSUME NEW v \in Value
  PROVE  /\ EnsureAddress(v) \in Flat
         /\ Written(EnsureAddress(v)) = EnsureAddress(v)
<1>2. v.js = "AccountAddress" \/ HasForm(v, {"address"}) => v.a \in STRING
  BY Forms
<1>3. EnsureAddress(v) = Refused \/ \E a \in STRING : EnsureAddress(v) = Addr(a)
  BY <1>2, StringAssumption DEF EnsureAddress
<1>4. \A a \in STRING : Addr(a) \in Flat
  BY DEF Addr, Flat
<1>5. Refused \in Flat
  BY DEF Flat
<1> QED BY <1>3, <1>4, <1>5, WrittenFlat

LEMMA SimpleMeant ==
  ASSUME NEW g, g.k \in Primitives, NEW v \in Value
  PROVE  /\ Simple(v, g) \in Flat
         /\ g.k \in {"bool", "address"} => Written(Simple(v, g)) = Simple(v, g)
<1>1. g.k \in {"bool", "address"} \/ g.k \in DOMAIN Limit
  BY Points DEF Primitives
<1>2. CASE g.k = "bool"
  <2>1. Simple(v, g) = EnsureBoolean(v)
    BY <1>2 DEF Simple
  <2>2. EnsureBoolean(v) = Refused \/ \E b \in BOOLEAN : EnsureBoolean(v) = Bool(b)
    <3>1. v.js = "boolean" \/ HasForm(v, {"truth"}) => v.b \in BOOLEAN
      BY Forms
    <3> QED BY <3>1 DEF EnsureBoolean
  <2>3. \A b \in BOOLEAN : Bool(b) \in Flat
    BY DEF Bool, Flat
  <2>4. Refused \in Flat
    BY DEF Flat
  <2> QED BY <2>1, <2>2, <2>3, <2>4, WrittenFlat
<1>3. CASE g.k = "address"
  <2>1. Simple(v, g) = EnsureAddress(v)
    BY <1>3 DEF Simple
  <2> QED BY <2>1, AddressMeant
<1>4. CASE g.k \in DOMAIN Limit
  <2>1. g.k # "bool" /\ g.k # "address"
    BY <1>4, Points
  <2>2. Simple(v, g) = ParsedNumber(v, g.k)
    BY <2>1 DEF Simple
  <2> QED BY <2>1, <2>2, <1>4, NumberMeant
<1> QED BY <1>1, <1>2, <1>3, <1>4

LEMMA NumbersMade ==
  ASSUME NEW s \in Seq(CodeUnit)
  PROVE  [i \in DOMAIN s |-> Number(s[i])] \in Seq(Value)
<1>0. \A b \in CodeUnit : b \in Int
  BY SMTT(30) DEF CodeUnit
<1>1. \A b \in CodeUnit : Number(b) \in Value
  BY <1>0, ValueShape DEF Number, Scalars
<1>2. DOMAIN s = 1..Len(s) /\ Len(s) \in Nat
  OBVIOUS
<1>3. \A i \in 1..Len(s) : s[i] \in CodeUnit
  OBVIOUS
<1>4. \A i \in 1..Len(s) : Number(s[i]) \in Value
  BY <1>1, <1>3
<1>5. [i \in 1..Len(s) |-> Number(s[i])] \in Seq(Value)
  BY <1>2, <1>4
<1> QED BY <1>2, <1>5, SMTT(30)

LEMMA ElementValues ==
  ASSUME NEW v \in Value, NEW g, HasElements(v, g)
  PROVE  Elements(v) \in Seq(Value)
<1>1. CASE v.js = "array"
  <2>1. Elements(v) = v.of
    BY <1>1 DEF Elements
  <2> QED BY <2>1, <1>1, Forms
<1>2. CASE v.js = "bytes"
  <2>1. v.bytes \in Bytes
    BY <1>2, Forms
  <2>2. Bytes \subseteq Seq(CodeUnit)
    <3>1. \A b \in 0..255 : b \in CodeUnit
      BY DEF CodeUnit
    <3> QED BY <3>1, SeqsGrow DEF Bytes
  <2>3. Elements(v) = [i \in DOMAIN v.bytes |-> Number(v.bytes[i])]
    BY <1>2 DEF Elements
  <2> QED BY <2>1, <2>2, <2>3, NumbersMade
<1>3. CASE HasForm(v, {"text"})
  <2>1. v.chars \in CodeUnits
    BY <1>3, Forms
  <2>2. v.chars \in Seq(CodeUnit)
    BY <2>1, Zenon DEF CodeUnits
  <2>3. Elements(v) = [i \in DOMAIN v.chars |-> Number(v.chars[i])]
    BY <1>3 DEF Elements, HasForm, IsString
  <2>4. [i \in DOMAIN v.chars |-> Number(v.chars[i])] \in Seq(Value)
    BY <2>2, NumbersMade, Zenon
  <2> QED BY <2>3, <2>4, Zenon
<1> QED BY <1>1, <1>2, <1>3 DEF HasElements

LEMMA ArgsMade ==
  ASSUME NEW n \in 0..Depth
  PROVE  /\ Flat \subseteq ArgLevel[n] /\ None \in ArgLevel[n] /\ Refused \in ArgLevel[n]
         /\ \A v \in Value : Str(v) \in ArgLevel[n]
         /\ \A g \in Tag : EmptyStruct(g) \in ArgLevel[n]
         /\ n > 0 => /\ \A x \in ArgLevel[n - 1] : Some(x) \in ArgLevel[n]
                     /\ \A p \in Seq(ArgLevel[n - 1]) : Vec(p) \in ArgLevel[n]
                     /\ \A p \in Seq(ArgLevel[n - 1]) : AllOf(p) \in ArgLevel[n]
<1> DEFINE inner == Inner(ArgLevel, n)
<1>1. ArgLevel[n] = ArgsOver(inner)
  BY ArgLevels
<1>2. n > 0 => inner = ArgLevel[n - 1]
  BY DEF Inner
<1> HIDE DEF inner
<1>3. Flat \subseteq ArgLevel[n] /\ Refused \in ArgLevel[n]
  BY FlatArgs DEF Flat
<1>4. None \in ArgLevel[n]
  BY <1>1 DEF ArgsOver
<1>5. \A v \in Value : Str(v) \in ArgLevel[n]
  BY <1>1 DEF ArgsOver, Str
<1>6. \A g \in Tag : EmptyStruct(g) \in ArgLevel[n]
  BY <1>1 DEF ArgsOver, EmptyStruct
<1>7. \A x \in inner : Some(x) \in ArgLevel[n]
  BY <1>1 DEF ArgsOver, Some
<1>8. \A p \in Seq(inner) : Vec(p) \in ArgLevel[n]
  <2> DEFINE P == Seq(inner)
  <2>1. \A p \in P : Vec(p) \in [t : {"vec"}, of : P]
    BY DEF Vec
  <2>2. [t : {"vec"}, of : P] \subseteq ArgLevel[n]
    BY <1>1 DEF ArgsOver
  <2> QED BY <2>1, <2>2
<1>9. \A p \in Seq(inner) : AllOf(p) \in ArgLevel[n]
  BY <1>3, <1>8 DEF AllOf
<1> QED BY <1>2, <1>3, <1>4, <1>5, <1>6, <1>7, <1>8, <1>9

\* What a type is.
LEMMA TagKinds ==
  ASSUME NEW g \in Tag
  PROVE  \/ IsSimple(g)
         \/ g.k = "vector"
         \/ g = StringTag
         \/ Is(g, "option", "Option")
         \/ Is(g, "object", "Object")
         \/ Fixed(g)
         \/ g.k = "struct" /\ ~Framework(g)
         \/ ~IsSimple(g) /\ g.k \notin {"vector", "struct"}
BY DEF Framework, Fixed

\* The argument of an entry function is nested as deep as its type.
LEMMA EntryTyped ==
  \A n \in 0..Depth : \A g \in TagLevel[n] : \A v \in Value :
    ToEntryFunctionArgument[g][v] \in ArgLevel[n]
<1> DEFINE E == ToEntryFunctionArgument
<1> DEFINE T == {n \in Nat : n \in 0..Depth => \A g \in TagLevel[n] : \A v \in Value : E[g][v] \in ArgLevel[n]}
<1>1. ASSUME NEW n \in 0..Depth, NEW g \in TagLevel[n], NEW v \in Value,
             \A c \in Children(g) : \A u \in Value : E[c][u] \in ArgLevel[n - 1]
      PROVE  E[g][v] \in ArgLevel[n]
  <2>1. g \in Tag
    BY TagsNested
  <2>2. CASE IsSimple(g)
    <3>1. E[g][v] = Simple(v, g)
      BY <2>1, <2>2, EntryEquations
    <3>2. Simple(v, g) \in Flat
      BY <2>2, SimpleMeant DEF IsSimple
    <3> QED BY <3>1, <3>2, ArgsMade
  <2>3. CASE g.k = "vector"
    <3>1. E[g][v] = IF ~HasElements(v, g) THEN Refused ELSE EntryElements(E, g, v)
      BY <2>1, <2>3, EntryEquations
    <3>2. g.of \in Children(g)
      BY <2>3 DEF Children
    <3>3. n > 0
      BY <3>2, TagShape
    <3>4. ASSUME HasElements(v, g) PROVE EntryElements(E, g, v) \in ArgLevel[n]
      <4>1. Elements(v) \in Seq(Value)
        BY <3>4, ElementValues
      <4> DEFINE f == E[g.of]
      <4>2. \A u \in Value : f[u] \in ArgLevel[n - 1]
        BY <3>2, <1>1
      <4> HIDE DEF f
      <4>3. [i \in DOMAIN Elements(v) |-> f[Elements(v)[i]]] \in Seq(ArgLevel[n - 1])
        BY <4>1, <4>2, SequenceMade
      <4>4. AllOf([i \in DOMAIN Elements(v) |-> f[Elements(v)[i]]]) \in ArgLevel[n]
        BY <4>3, <3>3, ArgsMade
      <4> QED BY <4>4, Zenon DEF EntryElements, f
    <3> QED BY <3>1, <3>4, ArgsMade
  <2>4. CASE g = StringTag
    <3>1. E[g][v] = Str(v)
      BY <2>1, <2>4, EntryEquations
    <3> QED BY <3>1, ArgsMade
  <2>5. CASE Is(g, "option", "Option")
    <3>1. E[g][v] = Optional(v, IF g.args = << >> THEN Refused ELSE E[g.args[1]][v])
      BY <2>1, <2>5, EntryEquations
    <3>2. ASSUME g.args # << >> PROVE n > 0 /\ E[g.args[1]][v] \in ArgLevel[n - 1]
      <4>1. g.k = "struct" /\ g.args \in Seq(Tag)
        BY <2>5, TagShape DEF Is
      <4>2. g.args[1] \in Children(g)
        BY <4>1, <3>2 DEF Children
      <4> QED BY <4>2, <1>1, TagShape
    <3> QED BY <3>1, <3>2, ArgsMade DEF Optional
  <2>6. CASE Is(g, "object", "Object")
    <3>1. E[g][v] = EnsureAddress(v)
      BY <2>1, <2>6, EntryEquations
    <3> QED BY <3>1, AddressMeant, ArgsMade
  <2>7. CASE Fixed(g)
    <3>1. E[g][v] = ParsedNumber(v, FixedWidth(g))
      BY <2>1, <2>7, EntryEquations
    <3>2. FixedWidth(g) \in DOMAIN Limit
      BY Points DEF FixedWidth
    <3> QED BY <3>1, <3>2, NumberMeant, ArgsMade
  <2>8. CASE g.k = "struct" /\ ~Framework(g)
    <3>1. E[g][v] = EmptyStruct(g)
      BY <2>1, <2>8, EntryEquations
    <3> QED BY <3>1, <2>1, ArgsMade
  <2>9. CASE ~IsSimple(g) /\ g.k \notin {"vector", "struct"}
    <3>1. E[g][v] = Refused
      BY <2>1, <2>9, EntryEquations
    <3> QED BY <3>1, ArgsMade
  <2> QED BY <2>1, <2>2, <2>3, <2>4, <2>5, <2>6, <2>7, <2>8, <2>9, TagKinds
<1> HIDE DEF E
<1>2. 0 \in T
  <2>1. \A g \in TagLevel[0] : Children(g) = {}
    BY TagShape, DepthAssumption
  <2> QED BY <2>1, <1>1
<1>3. ASSUME NEW n \in Nat, n \in T PROVE n + 1 \in T
  <2> SUFFICES ASSUME n + 1 \in 0..Depth, NEW g \in TagLevel[n + 1], NEW v \in Value
               PROVE  E[g][v] \in ArgLevel[n + 1]
    OBVIOUS
  <2>1. n \in 0..Depth /\ (n + 1) - 1 = n
    BY DepthAssumption
  <2>2. \A c \in Children(g) : c \in TagLevel[n]
    BY <2>1, TagShape
  <2>3. \A c \in Children(g) : \A u \in Value : E[c][u] \in ArgLevel[(n + 1) - 1]
    BY <2>1, <2>2, <1>3
  <2> QED BY <2>3, <1>1
<1>4. Nat \subseteq T
  <2> HIDE DEF T
  <2> QED BY <1>2, <1>3, Induction
<1> QED BY <1>4, DepthAssumption DEF E

(***************************************************************************)
(* Texts                                                                   *)
(***************************************************************************)

\* The sequences of one element each of s, one after the other, are s.
LEMMA FlattenSingle ==
  ASSUME NEW S, NEW s \in Seq(S)
  PROVE  FlattenSeq([i \in DOMAIN s |-> <<s[i]>>]) = s
<1> DEFINE seqs == [i \in DOMAIN s |-> <<s[i]>>]
<1>0. /\ Len(s) \in Nat /\ DOMAIN s = 1..Len(s)
      /\ \A i \in 1..Len(s) : s[i] \in S
      /\ s = [j \in 1..Len(s) |-> s[j]]
  OBVIOUS
<1>1. seqs = [i \in 1..Len(s) |-> <<s[i]>>] /\ Len(seqs) = Len(s)
  BY <1>0
<1>2. CASE Len(s) = 0
  <2>1. s = << >> /\ seqs = << >>
    BY <1>0, <1>1, <1>2
  <2> HIDE DEF seqs
  <2>2. FlattenSeq(seqs) = seqs
    BY <1>1, <1>2 DEF FlattenSeq
  <2> QED BY <2>1, <2>2 DEF seqs
<1>3. CASE Len(s) # 0
  <2> DEFINE Step(f, i) == IF i = 1 THEN seqs[i] ELSE f[i - 1] \o seqs[i]
  <2> DEFINE flatten == CHOOSE f : f = [i \in 1..Len(seqs) |-> Step(f, i)]
  <2> DEFINE prefix == [i \in 1..Len(s) |-> [j \in 1..i |-> s[j]]]
  <2>1. ASSUME NEW i \in 1..Len(s) PROVE prefix[i] = Step(prefix, i)
    <3>1. prefix[i] = [j \in 1..i |-> s[j]] /\ seqs[i] = <<s[i]>>
      BY <1>1
    <3>2. CASE i = 1
      <4>1. [j \in 1..1 |-> s[j]] = <<s[1]>>
        OBVIOUS
      <4> QED BY <4>1, <3>1, <3>2
    <3>3. CASE i # 1
      <4>1. i - 1 \in 1..Len(s) /\ i - 1 \in Nat /\ i \in Nat
        BY <3>3, <1>0
      <4>2. prefix[i - 1] = [j \in 1..(i - 1) |-> s[j]]
        BY <4>1
      <4>3. [j \in 1..(i - 1) |-> s[j]] \in Seq(S) /\ Len([j \in 1..(i - 1) |-> s[j]]) = i - 1
        <5>1. \A j \in 1..(i - 1) : s[j] \in S
          BY <1>0
        <5> QED BY <5>1, <4>1
      <4> DEFINE p == [j \in 1..(i - 1) |-> s[j]]
      <4>4. p \in Seq(S) /\ Len(p) = i - 1 /\ \A j \in 1..(i - 1) : p[j] = s[j]
        BY <4>3
      <4> HIDE DEF p
      <4>5. p \o <<s[i]>> = [j \in 1..i |-> s[j]]
        <5>1. s[i] \in S
          BY <1>0
        <5>2. <<s[i]>> \in Seq(S) /\ Len(<<s[i]>>) = 1 /\ <<s[i]>>[1] = s[i]
          BY <5>1
        <5>3. p \o <<s[i]>> \in Seq(S) /\ Len(p \o <<s[i]>>) = i
          BY <5>2, <4>4, <4>1
        <5>4. \A j \in 1..i : (p \o <<s[i]>>)[j] = s[j]
          BY <5>2, <4>4, <4>1
        <5> QED BY <5>3, <5>4
      <4>6. prefix[i - 1] = p
        BY <4>2 DEF p
      <4> HIDE DEF prefix, seqs
      <4> QED BY <3>1, <3>3, <4>5, <4>6
    <3> QED BY <3>2, <3>3
  <2>2. prefix = [i \in 1..Len(seqs) |-> Step(prefix, i)]
    <3>1. \A i \in 1..Len(s) : prefix[i] = Step(prefix, i)
      BY <2>1
    <3> HIDE DEF Step
    <3> QED BY <3>1, <1>1
  <2>3. flatten = [i \in 1..Len(seqs) |-> Step(flatten, i)]
    <3> HIDE DEF Step, prefix, seqs
    <3>1. \E f : f = [i \in 1..Len(seqs) |-> Step(f, i)]
      BY <2>2
    <3> QED BY <3>1
  <2>4. \A i \in 1..Len(s) : flatten[i] = Step(flatten, i)
    <3> HIDE DEF Step, flatten
    <3> QED BY <2>3, <1>1
  <2> HIDE DEF flatten, prefix, seqs
  <2> DEFINE T == {n \in Nat : n + 1 \in 1..Len(s) => flatten[n + 1] = prefix[n + 1]}
  <2>5. 0 \in T
    <3>1. 1 \in 1..Len(s)
      BY <1>0, <1>3
    <3> QED BY <3>1, <2>1, <2>4
  <2>6. ASSUME NEW n \in Nat, n \in T PROVE n + 1 \in T
    <3> SUFFICES ASSUME (n + 1) + 1 \in 1..Len(s)
                 PROVE  flatten[(n + 1) + 1] = prefix[(n + 1) + 1]
      OBVIOUS
    <3>1. n + 1 \in 1..Len(s)
      BY <1>0
    <3>2. flatten[n + 1] = prefix[n + 1]
      BY <3>1, <2>6
    <3>3. (n + 1) + 1 # 1 /\ ((n + 1) + 1) - 1 = n + 1
      OBVIOUS
    <3> QED BY <3>2, <3>3, <2>1, <2>4
  <2>7. Len(s) - 1 \in T
    <3> HIDE DEF T
    <3>1. Nat \subseteq T
      BY <2>5, <2>6, Induction
    <3> QED BY <3>1, <1>0, <1>3
  <2>8. flatten[Len(s)] = prefix[Len(s)]
    <3>1. (Len(s) - 1) + 1 = Len(s) /\ Len(s) \in 1..Len(s)
      BY <1>0, <1>3
    <3> QED BY <3>1, <2>7
  <2>9. prefix[Len(s)] = s
    BY <1>0, <1>3 DEF prefix
  <2>10. FlattenSeq(seqs) = flatten[Len(seqs)]
    BY <1>1, <1>3 DEF FlattenSeq, flatten
  <2> QED BY <1>1, <2>8, <2>9, <2>10 DEF seqs
<1> QED BY <1>2, <1>3

LEMMA CodeUnitsAreNumbers == \A c \in CodeUnit : c \in Int
BY DEF CodeUnit

\* The UTF-8 bytes of an ASCII text are its characters.
LEMMA Ascii ==
  ASSUME NEW s \in CodeUnits, \A i \in DOMAIN s : ~(s[i] >= 128)
  PROVE  Utf8(s) = s
<1>1. s \in Seq(CodeUnit)
  BY Zenon DEF CodeUnits
<1>2. \A i \in DOMAIN s : s[i] \in Int
  <2>1. \A i \in DOMAIN s : s[i] \in CodeUnit
    BY <1>1
  <2> QED BY <2>1, CodeUnitsAreNumbers
<1>3. \A i \in DOMAIN s : Utf8Char(s[i]) = <<s[i]>>
  BY <1>2 DEF Utf8Char
<1>4. [i \in DOMAIN s |-> Utf8Char(s[i])] = [i \in DOMAIN s |-> <<s[i]>>]
  BY <1>3
<1> QED BY <1>1, <1>4, FlattenSingle DEF Utf8

(***************************************************************************)
(* Writing what an entry function is given                                 *)
(***************************************************************************)

LEMMA WrittenOthers ==
  /\ \A v \in Value : Written(Str(v)) = Str(v)
  /\ Written(None) = None
  /\ \A x : Some(x) \in Arg => Written(Some(x)) = IF InRange[x] THEN Some(x) ELSE Refused
<1>1. ASSUME NEW v \in Value PROVE InRange[Str(v)]
  <2>1. Str(v) \in Arg
    BY ArgsMade, DepthAssumption DEF Arg
  <2> QED BY <2>1, InRangeIs DEF InRangeOf, Str
<1>2. InRange[None]
  <2>1. None \in Arg
    BY ArgsMade, DepthAssumption DEF Arg
  <2> QED BY <2>1, InRangeIs DEF InRangeOf, None
<1>3. ASSUME NEW x, Some(x) \in Arg PROVE InRange[Some(x)] = InRange[x]
  BY <1>3, InRangeIs DEF InRangeOf, Some
<1> QED BY <1>1, <1>2, <1>3 DEF Written

\* A vector is written if each of its elements is.
LEMMA AllOfWritten ==
  ASSUME NEW D, NEW p, NEW q, p = [i \in D |-> p[i]], q = [i \in D |-> q[i]],
         Vec(p) \in Arg, \A i \in D : Written(p[i]) = q[i]
  PROVE  Written(AllOf(p)) = AllOf(q)
<1>1. InRange[Vec(p)] <=> \A i \in D : InRange[p[i]]
  <2>1. InRange[Vec(p)] = InRangeOf(InRange, Vec(p))
    BY InRangeIs
  <2>2. Vec(p).t = "vec" /\ Vec(p).of = p
    BY DEF Vec
  <2> QED BY <2>1, <2>2 DEF InRangeOf
<1>2. /\ Refused \in Range(p) <=> \E i \in D : p[i] = Refused
      /\ Refused \in Range(q) <=> \E i \in D : q[i] = Refused
  BY DEF Range
<1>3. CASE \E i \in D : p[i] = Refused
  <2>1. AllOf(p) = Refused
    BY <1>2, <1>3 DEF AllOf
  <2>2. AllOf(q) = Refused
    BY <1>2, <1>3, WrittenFlat DEF AllOf
  <2> QED BY <2>1, <2>2, WrittenFlat
<1>4. CASE (\A i \in D : p[i] # Refused) /\ \E i \in D : ~InRange[p[i]]
  <2>1. AllOf(p) = Vec(p)
    BY <1>2, <1>4 DEF AllOf
  <2>2. Written(Vec(p)) = Refused
    BY <1>1, <1>4 DEF Written
  <2>3. AllOf(q) = Refused
    BY <1>2, <1>4 DEF AllOf, Written
  <2> QED BY <2>1, <2>2, <2>3
<1>5. CASE (\A i \in D : p[i] # Refused) /\ \A i \in D : InRange[p[i]]
  <2>1. AllOf(p) = Vec(p)
    BY <1>2, <1>5 DEF AllOf
  <2>2. Written(Vec(p)) = Vec(p)
    BY <1>1, <1>5 DEF Written
  <2>3. \A i \in D : q[i] = p[i]
    BY <1>5 DEF Written
  <2>4. p = q
    BY <2>3
  <2> QED BY <2>1, <2>2, <2>4
<1> QED BY <1>3, <1>4, <1>5

LEMMA VectorsOf ==
  ASSUME NEW g \in Tag, g.k = "vector"
  PROVE  g.of \in Tag /\ Depth > 0
<1>1. g.of \in Children(g)
  BY DEF Children
<1>2. g \in TagLevel[Depth] /\ Depth \in 0..Depth
  BY DepthAssumption DEF Tag
<1>3. Depth - 1 \in 0..Depth /\ g.of \in TagLevel[Depth]
  BY <1>1, <1>2, TagShape
<1> QED BY <1>3, DepthAssumption DEF Tag

\* A number below 256 is an element of a vector<u8>.
LEMMA ByteMeant ==
  ASSUME NEW g \in Tag, IsBytes(g), NEW b \in 0..255
  PROVE  /\ ToEntryFunctionArgument[g.of][Number(b)] = Num("u8", b)
         /\ Written(Num("u8", b)) = Num("u8", b)
         /\ Num("u8", b) \in Flat /\ Num("u8", b) # Refused
<1>1. g.k = "vector" /\ g.of = Prim("u8")
  BY DEF IsBytes, Vector
<1>2. g.of \in Tag
  BY <1>1, VectorsOf
<1>3. Number(b) \in Value
  <2>1. b \in Int
    OBVIOUS
  <2> QED BY <2>1, ValueShape DEF Number, Scalars
<1>4. IsSimple(g.of) /\ g.of.k = "u8"
  BY <1>1 DEF IsSimple, Primitives, Prim
<1>5. ToEntryFunctionArgument[g.of][Number(b)] = Simple(Number(b), g.of)
  BY <1>2, <1>3, <1>4, EntryEquations
<1>6. Simple(Number(b), g.of) = ParsedNumber(Number(b), "u8")
  BY <1>4 DEF Simple
<1>7. EnsureNumber(Number(b)) = b /\ b # NoNumber
  BY DEF EnsureNumber, Number, NoNumber, HasForm, IsString
<1>8. ParsedNumber(Number(b), "u8") = Num("u8", b)
  BY <1>7 DEF ParsedNumber
<1>9. b \in Int /\ "u8" \in DOMAIN Limit /\ b \in 0..Limit["u8"]
  BY Points
<1>10. Written(Num("u8", b)) = Num("u8", b)
  BY <1>9, WrittenFlat
<1>11. Num("u8", b) \in Flat /\ Num("u8", b) # Refused
  BY <1>9 DEF Num, Flat, Refused
<1> QED BY <1>5, <1>6, <1>8, <1>10, <1>11

\* Bytes are the elements of a vector<u8>.
LEMMA BytesMeant ==
  ASSUME NEW g \in Tag, IsBytes(g), NEW s \in Bytes
  PROVE  Written(AllOf([i \in DOMAIN s |-> ToEntryFunctionArgument[g.of][Number(s[i])]]))
           = ByteVec(s)
<1> DEFINE E == ToEntryFunctionArgument
<1> DEFINE D == DOMAIN s
<1> DEFINE p == [i \in D |-> E[g.of][Number(s[i])]]
<1> DEFINE q == [i \in D |-> Num("u8", s[i])]
<1>1. Depth > 0
  BY VectorsOf DEF IsBytes, Vector
<1>2. D = 1..Len(s) /\ Len(s) \in Nat /\ \A i \in D : s[i] \in 0..255
  <2>1. s \in Seq(0..255)
    BY Zenon DEF Bytes
  <2>2. DOMAIN s = 1..Len(s) /\ Len(s) \in Nat
    BY <2>1
  <2>3. \A i \in 1..Len(s) : s[i] \in 0..255
    BY <2>1, ElementOfSeq
  <2> QED BY <2>2, <2>3
<1>3. \A i \in D : /\ p[i] = q[i] /\ Written(q[i]) = q[i]
                   /\ q[i] \in Flat /\ q[i] # Refused
  BY <1>2, ByteMeant
<1>4. p = [i \in D |-> p[i]] /\ q = [i \in D |-> q[i]] /\ ByteVec(s) = Vec(q)
  BY DEF ByteVec
<1> HIDE DEF p, q, D
<1>5. p = q
  <2>1. [i \in D |-> p[i]] = [i \in D |-> q[i]]
    BY <1>3
  <2> QED BY <1>4, <2>1
<1>6. Vec(q) \in Arg
  <2>1. Depth - 1 \in 0..Depth /\ Depth \in 0..Depth
    BY <1>1, DepthAssumption
  <2>2. Flat \subseteq ArgLevel[Depth - 1]
    BY <2>1, ArgsMade
  <2>3. q \in Seq(ArgLevel[Depth - 1])
    <3>1. \A i \in 1..Len(s) : q[i] \in ArgLevel[Depth - 1]
      BY <1>2, <1>3, <2>2
    <3>2. q = [i \in 1..Len(s) |-> q[i]]
      BY <1>2, <1>4
    <3>3. [i \in 1..Len(s) |-> q[i]] \in Seq(ArgLevel[Depth - 1])
      BY <3>1, <1>2
    <3> QED BY <3>2, <3>3
  <2>4. Vec(q) \in ArgLevel[Depth]
    BY <2>1, <2>3, <1>1, ArgsMade
  <2> QED BY <2>4 DEF Arg
<1>7. AllOf(q) = Vec(q)
  <2>1. Refused \notin Range(q)
    <3>1. Range(q) = {q[i] : i \in D}
      BY <1>4 DEF Range
    <3> QED BY <3>1, <1>3
  <2> QED BY <2>1 DEF AllOf
<1>8. Written(AllOf(q)) = AllOf(q)
  <2>1. \A i \in D : Written(q[i]) = q[i]
    BY <1>3
  <2> QED BY <1>4, <1>6, <2>1, AllOfWritten
<1>9. Written(AllOf(p)) = ByteVec(s)
  BY <1>4, <1>5, <1>7, <1>8
<1> QED BY <1>9, Zenon DEF p, E, D

LEMMA AsciiCodes == \A c \in CodeUnit : ~(c >= 128) => c \in 0..255
<1>1. \A c \in CodeUnit : c \in Int /\ c >= 0
  BY DEF CodeUnit
<1> QED BY <1>1

LEMMA AsciiBytes ==
  ASSUME NEW s \in CodeUnits, ~NotAscii([chars |-> s])
  PROVE  s \in Bytes /\ Utf8(s) = s
<1>1. \A i \in DOMAIN s : ~(s[i] >= 128)
  BY DEF NotAscii
<1>2. Utf8(s) = s
  BY <1>1, Ascii
<1>3. s \in Seq(CodeUnit)
  BY Zenon DEF CodeUnits
<1>4. DOMAIN s = 1..Len(s) /\ Len(s) \in Nat /\ s = [i \in 1..Len(s) |-> s[i]]
  BY <1>3
<1>5. \A i \in 1..Len(s) : s[i] \in CodeUnit
  BY <1>3, ElementOfSeq
<1>6. \A c \in CodeUnit : ~(c >= 128) => c \in 0..255
  BY AsciiCodes
<1>7. \A i \in 1..Len(s) : s[i] \in 0..255
  BY <1>1, <1>4, <1>5, <1>6
<1>8. [i \in 1..Len(s) |-> s[i]] \in Seq(0..255)
  BY <1>4, <1>7
<1> QED BY <1>2, <1>4, <1>8 DEF Bytes

\* What an entry function is given for a vector is what was meant by its elements.
LEMMA VectorMeant ==
  ASSUME NEW n \in 0..Depth, NEW g \in TagLevel[n], NEW v \in Value, g.k = "vector",
         \A u \in Value : \/ Misread[g.of][u] \/ Unicode[g.of][u]
                          \/ Written(ToEntryFunctionArgument[g.of][u]) = MeantArgument[g.of][u]
  PROVE  \/ Misread[g][v] \/ Unicode[g][v]
         \/ Written(ToEntryFunctionArgument[g][v]) = MeantArgument[g][v]
<1> DEFINE E == ToEntryFunctionArgument
<1> DEFINE M == MeantArgument
<1> DEFINE W == Misread
<1> DEFINE U == Unicode
<1> SUFFICES ASSUME ~W[g][v], ~U[g][v] PROVE Written(E[g][v]) = M[g][v]
  BY Zenon
<1>1. g \in Tag
  BY TagsNested
<1>2. E[g][v] = IF ~HasElements(v, g) THEN Refused ELSE EntryElements(E, g, v)
  BY <1>1, EntryEquations
<1>3. M[g][v] = IF v.js = "array" THEN ArrayElements(M, g, v)
                ELSE IF IsBytes(g) THEN MeantBytes(v) ELSE Refused
  BY <1>1, MeantEquations
<1>4. /\ ~SomeElement(W, g, v) /\ ~SomeElement(U, g, v)
      /\ ~(IsBytes(g) /\ HasForm(v, {"text"}) /\ NotAscii(v))
  <2>1. ~SomeElement(W, g, v)
    BY <1>1, MisreadEquations
  <2>2. ~UnicodeElement(U, g, v)
    BY <1>1, UnicodeEquations
  <2> QED BY <2>1, <2>2 DEF UnicodeElement
<1>5. E[g][v] \in ArgLevel[n]
  BY EntryTyped
<1>6. CASE v.js = "array"
  <2> DEFINE e == E[g.of]
  <2> DEFINE m == M[g.of]
  <2> DEFINE D == DOMAIN v.of
  <2> DEFINE p == [i \in D |-> e[v.of[i]]]
  <2> DEFINE q == [i \in D |-> m[v.of[i]]]
  <2>1. HasElements(v, g) /\ Elements(v) = v.of
    BY <1>6 DEF HasElements, Elements
  <2>2. E[g][v] = AllOf(p)
    BY <1>2, <2>1, Zenon DEF EntryElements
  <2>3. M[g][v] = AllOf(q)
    BY <1>3, <1>6, Zenon DEF ArrayElements
  <2>4. v.of \in Seq(Value) /\ \A i \in D : v.of[i] \in Value
    <3>1. v.of \in Seq(Value)
      BY <1>6, Forms
    <3> QED BY <3>1
  <2>5. \A i \in D : Written(e[v.of[i]]) = m[v.of[i]]
    BY <2>4, <1>4, <1>6 DEF SomeElement
  <2>6. \A i \in D : Written(p[i]) = q[i]
    BY <2>5
  <2>7. p = [i \in D |-> p[i]] /\ q = [i \in D |-> q[i]]
    OBVIOUS
  <2>8. Vec(p) \in Arg
    <3>1. g.of \in Children(g)
      BY DEF Children
    <3>2. n - 1 \in 0..Depth /\ g.of \in TagLevel[n - 1] /\ n > 0
      BY <3>1, TagShape, DepthAssumption
    <3>3. \A u \in Value : e[u] \in ArgLevel[n - 1]
      BY <3>2, EntryTyped
    <3> HIDE DEF e
    <3>4. p \in Seq(ArgLevel[n - 1])
      BY <2>4, <3>3, SequenceMade
    <3> HIDE DEF p
    <3> QED BY <3>2, <3>4, ArgsMade, ArgsNested
  <2> HIDE DEF p, q, D, e, m
  <2> QED BY <2>2, <2>3, <2>6, <2>7, <2>8, AllOfWritten
<1>7. CASE IsBytes(g) /\ v.js = "bytes"
  <2>1. HasElements(v, g) /\ Elements(v) = [i \in DOMAIN v.bytes |-> Number(v.bytes[i])]
    BY <1>7 DEF HasElements, Elements
  <2>2. v.bytes \in Bytes
    BY <1>7, Forms
  <2>3. M[g][v] = ByteVec(v.bytes)
    BY <1>3, <1>7 DEF MeantBytes, HasForm, IsString
  <2>4. EntryElements(E, g, v) = AllOf([i \in DOMAIN v.bytes |-> E[g.of][Number(v.bytes[i])]])
    BY <2>1 DEF EntryElements
  <2>5. Written(EntryElements(E, g, v)) = ByteVec(v.bytes)
    BY <2>2, <2>4, <1>1, <1>7, BytesMeant
  <2> QED BY <1>2, <2>1, <2>3, <2>5
<1>8. CASE IsBytes(g) /\ HasForm(v, {"text"})
  <2>1. HasElements(v, g) /\ Elements(v) = [i \in DOMAIN v.chars |-> Number(v.chars[i])]
    BY <1>8 DEF HasElements, Elements, HasForm, IsString
  <2>2. v.chars \in CodeUnits
    BY <1>8, Forms
  <2>3. ~NotAscii([chars |-> v.chars])
    BY <1>4, <1>8 DEF NotAscii
  <2>4. v.chars \in Bytes /\ Utf8(v.chars) = v.chars
    BY <2>2, <2>3, AsciiBytes
  <2>5. M[g][v] = ByteVec(v.chars)
    BY <1>3, <1>8, <2>4 DEF MeantBytes, HasForm, IsString
  <2>6. EntryElements(E, g, v) = AllOf([i \in DOMAIN v.chars |-> E[g.of][Number(v.chars[i])]])
    BY <2>1 DEF EntryElements
  <2>7. Written(EntryElements(E, g, v)) = ByteVec(v.chars)
    BY <2>4, <2>6, <1>1, <1>8, BytesMeant
  <2> QED BY <1>2, <2>1, <2>5, <2>7
<1>9. CASE v.js # "array" /\ ~(IsBytes(g) /\ (v.js = "bytes" \/ HasForm(v, {"text"})))
  <2>1. E[g][v] = Refused
    BY <1>2, <1>9 DEF HasElements
  <2>2. M[g][v] = Refused
    BY <1>3, <1>9 DEF MeantBytes
  <2> QED BY <2>1, <2>2, WrittenFlat
<1> QED BY <1>6, <1>7, <1>8, <1>9

\* An entry function is given what the caller means, unless the value is misread.
LEMMA EntryMeant ==
  \A g \in Tag : \A v \in Value :
    \/ Misread[g][v] \/ Unicode[g][v]
    \/ Written(ToEntryFunctionArgument[g][v]) = MeantArgument[g][v]
<1> DEFINE E == ToEntryFunctionArgument
<1> DEFINE M == MeantArgument
<1> DEFINE W == Misread
<1> DEFINE U == Unicode
<1> DEFINE Fine(g) == \A v \in Value : W[g][v] \/ U[g][v] \/ Written(E[g][v]) = M[g][v]
<1> DEFINE T == {n \in Nat : n \in 0..Depth => \A g \in TagLevel[n] : Fine(g)}
<1>1. ASSUME NEW n \in 0..Depth, NEW g \in TagLevel[n], \A c \in Children(g) : Fine(c)
      PROVE  Fine(g)
  <2> SUFFICES ASSUME NEW v \in Value, ~W[g][v], ~U[g][v] PROVE Written(E[g][v]) = M[g][v]
    BY Zenon
  <2>1. g \in Tag
    BY TagsNested
  <2>2. CASE IsSimple(g)
    <3>1. E[g][v] = Simple(v, g)
      BY <2>1, <2>2, EntryEquations
    <3>2. g.k \in DOMAIN Limit \/ g.k \in {"bool", "address"}
      BY <2>2, Points DEF IsSimple, Primitives
    <3>3. CASE g.k \in DOMAIN Limit
      <4>1. M[g][v] = Meant(v, g.k) /\ ~Misnumbered(v, g.k)
        BY <2>1, <3>3, MeantEquations, MisreadEquations
      <4>2. Simple(v, g) = ParsedNumber(v, g.k)
        BY <3>3, Points DEF Simple
      <4> QED BY <3>1, <4>1, <4>2, <3>3, NumberMeant
    <3>4. CASE g.k \in {"bool", "address"}
      <4>1. M[g][v] = Simple(v, g)
        BY <2>1, <3>4, MeantEquations
      <4>2. g.k \in Primitives
        BY <3>4 DEF Primitives
      <4>3. Written(Simple(v, g)) = Simple(v, g)
        BY <4>2, <3>4, SimpleMeant
      <4> QED BY <3>1, <4>1, <4>3
    <3> QED BY <3>2, <3>3, <3>4
  <2>3. CASE g.k = "vector"
    <3>1. g.of \in Children(g)
      BY <2>3 DEF Children
    <3>2. Fine(g.of)
      BY <3>1, <1>1
    <3> QED BY <3>2, <2>3, VectorMeant
  <2>4. CASE g = StringTag
    <3>1. E[g][v] = Str(v) /\ IsString(v)
      BY <2>1, <2>4, EntryEquations, MisreadEquations
    <3>2. M[g][v] = Str(v)
      BY <2>1, <2>4, <3>1, MeantEquations
    <3> QED BY <3>1, <3>2, WrittenOthers
  <2>5. CASE Is(g, "option", "Option")
    <3>1. Len(g.args) = 1 /\ (v # Null => ~W[g.args[1]][v] /\ ~U[g.args[1]][v])
      BY <2>1, <2>5, MisreadEquations, UnicodeEquations
    <3>2. g.k = "struct" /\ g.args \in Seq(Tag)
      BY <2>5, TagShape DEF Is
    <3>3. g.args # << >> /\ g.args[1] \in Children(g)
      <4>1. g.args # << >> /\ 1 \in DOMAIN g.args
        BY <3>1, <3>2, OneElement
      <4> QED BY <4>1, <3>2 DEF Children
    <3> DEFINE x == E[g.args[1]][v]
    <3> DEFINE y == M[g.args[1]][v]
    <3>4. E[g][v] = Optional(v, x)
      BY <2>1, <2>5, <3>3, EntryEquations
    <3>5. M[g][v] = IF v = Null THEN None ELSE IF y = Refused THEN Refused ELSE Some(y)
      BY <2>1, <2>5, <3>1, MeantEquations
    <3>6. v # Null => Written(x) = y
      BY <3>1, <3>3, <1>1
    <3>7. Some(x) \in Arg
      <4>1. n - 1 \in 0..Depth /\ g.args[1] \in TagLevel[n - 1] /\ n > 0
        BY <3>3, TagShape, DepthAssumption
      <4>2. x \in ArgLevel[n - 1]
        BY <4>1, EntryTyped
      <4> QED BY <4>1, <4>2, ArgsMade, ArgsNested
    <3> HIDE DEF x, y
    <3>8. CASE v = Null
      BY <3>4, <3>5, <3>8, WrittenOthers DEF Optional
    <3>9. CASE v # Null /\ x = Refused
      <4>1. y = Refused
        BY <3>6, <3>9, WrittenFlat
      <4> QED BY <4>1, <3>4, <3>5, <3>9, WrittenFlat DEF Optional
    <3>10. CASE v # Null /\ x # Refused
      <4>1. Written(E[g][v]) = IF InRange[x] THEN Some(x) ELSE Refused
        BY <3>4, <3>7, <3>10, WrittenOthers DEF Optional
      <4>2. y = IF InRange[x] THEN x ELSE Refused
        BY <3>6, <3>10 DEF Written
      <4> QED BY <4>1, <4>2, <3>5, <3>10
    <3> QED BY <3>8, <3>9, <3>10
  <2>6. CASE Is(g, "object", "Object")
    <3>1. E[g][v] = EnsureAddress(v) /\ M[g][v] = EnsureAddress(v)
      BY <2>1, <2>6, EntryEquations, MeantEquations
    <3> QED BY <3>1, AddressMeant
  <2>7. CASE Fixed(g)
    <3>1. /\ E[g][v] = ParsedNumber(v, FixedWidth(g))
          /\ M[g][v] = Meant(v, FixedWidth(g)) /\ ~Blank(v)
      BY <2>1, <2>7, EntryEquations, MeantEquations, MisreadEquations
    <3>2. FixedWidth(g) \in DOMAIN Limit /\ FixedWidth(g) \notin SmallWidths
      BY Points DEF FixedWidth, SmallWidths
    <3>3. ~Misnumbered(v, FixedWidth(g))
      BY <3>1, <3>2 DEF Misnumbered
    <3> QED BY <3>1, <3>2, <3>3, NumberMeant
  <2>8. CASE g.k = "struct" /\ ~Framework(g)
    BY <2>1, <2>8, MisreadEquations
  <2>9. CASE ~IsSimple(g) /\ g.k \notin {"vector", "struct"}
    <3>1. E[g][v] = Refused /\ M[g][v] = Refused
      BY <2>1, <2>9, EntryEquations, MeantEquations
    <3> QED BY <3>1, WrittenFlat
  <2> QED BY <2>1, <2>2, <2>3, <2>4, <2>5, <2>6, <2>7, <2>8, <2>9, TagKinds
<1> HIDE DEF Fine
<1>2. 0 \in T
  <2>1. \A g \in TagLevel[0] : Children(g) = {}
    BY TagShape, DepthAssumption
  <2> QED BY <2>1, <1>1
<1>3. ASSUME NEW n \in Nat, n \in T PROVE n + 1 \in T
  <2> SUFFICES ASSUME n + 1 \in 0..Depth, NEW g \in TagLevel[n + 1] PROVE Fine(g)
    OBVIOUS
  <2>1. n \in 0..Depth /\ (n + 1) - 1 = n
    BY DepthAssumption
  <2>2. \A c \in Children(g) : c \in TagLevel[n]
    BY <2>1, TagShape
  <2>3. \A c \in Children(g) : Fine(c)
    BY <2>1, <2>2, <1>3
  <2> QED BY <2>3, <1>1
<1>4. Nat \subseteq T
  <2> HIDE DEF T
  <2> QED BY <1>2, <1>3, Induction
<1>5. \A g \in Tag : Fine(g)
  BY <1>4, DepthAssumption DEF Tag
<1> QED BY <1>5, Zenon DEF Fine, E, M, W, U

(***************************************************************************)
(* What the other converters make of the same value                        *)
(***************************************************************************)

LEMMA ScriptMeant ==
  ASSUME NEW g \in Tag, NEW v \in Value, Written(ToTransactionArgument(v, g)) # Refused
  PROVE  Written(ToTransactionArgument(v, g)) = Written(ToEntryFunctionArgument[g][v])
<1>1. CASE IsSimple(g)
  <2>1. ~IsBytes(g)
    BY <1>1 DEF IsBytes, IsSimple, Primitives, Vector
  <2>2. ToTransactionArgument(v, g) = Simple(v, g)
    BY <1>1, <2>1 DEF ToTransactionArgument
  <2> QED BY <2>2, <1>1, EntryEquations
<1>2. CASE IsBytes(g) /\ v.js = "bytes"
  <2>1. ~IsSimple(g) /\ g.k = "vector"
    BY <1>2 DEF IsBytes, IsSimple, Primitives, Vector
  <2>2. ToTransactionArgument(v, g) = ByteVec(v.bytes)
    BY <1>2, <2>1 DEF ToTransactionArgument
  <2>3. HasElements(v, g) /\ Elements(v) = [i \in DOMAIN v.bytes |-> Number(v.bytes[i])]
    BY <1>2 DEF HasElements, Elements
  <2>4. ToEntryFunctionArgument[g][v]
          = AllOf([i \in DOMAIN v.bytes |-> ToEntryFunctionArgument[g.of][Number(v.bytes[i])]])
    <3>1. ToEntryFunctionArgument[g][v] = EntryElements(ToEntryFunctionArgument, g, v)
      BY <2>1, <2>3, EntryEquations
    <3> QED BY <3>1, <2>3 DEF EntryElements
  <2>5. v.bytes \in Bytes
    BY <1>2, Forms
  <2>6. Written(ToEntryFunctionArgument[g][v]) = ByteVec(v.bytes)
    BY <1>2, <2>4, <2>5, BytesMeant
  <2> QED BY <2>2, <2>6 DEF Written
<1>3. CASE ~IsSimple(g) /\ ~(IsBytes(g) /\ v.js = "bytes")
  <2>1. ToTransactionArgument(v, g) = Refused
    BY <1>3 DEF ToTransactionArgument
  <2> QED BY <2>1, WrittenFlat
<1> QED BY <1>1, <1>2, <1>3

\* The bytes or the ASCII text given for a vector<u8> reach an entry function unchanged.
LEMMA RawBytesMeant ==
  ASSUME NEW g \in Tag, NEW v \in Value, IsBytes(g), ~Unicode[g][v],
         v.js = "bytes" \/ HasForm(v, {"text"})
  PROVE  /\ SerializeArg[g][v] = MeantBytes(v) /\ MeantArgument[g][v] = MeantBytes(v)
         /\ Written(ToEntryFunctionArgument[g][v]) = MeantBytes(v)
<1>1. g.k = "vector" /\ v.js # "array"
  BY DEF IsBytes, Vector, HasForm, IsString
<1>2. SerializeArg[g][v] = MeantBytes(v) /\ MeantArgument[g][v] = MeantBytes(v)
  BY <1>1, SerializedEquations, MeantEquations
<1>3. ~Misread[g][v]
  <2>1. Misread[g][v] <=> SomeElement(Misread, g, v)
    BY <1>1, MisreadEquations
  <2> QED BY <2>1, <1>1 DEF SomeElement
<1>4. Written(ToEntryFunctionArgument[g][v]) = MeantArgument[g][v]
  BY <1>3, EntryMeant
<1> QED BY <1>2, <1>4

\* What serializeArg writes is what an entry function is given, and what was meant.
LEMMA SerializedMeant ==
  \A g \in Tag : \A v \in Value : SerializeArg[g][v] # Refused =>
    /\ Unicode[g][v] \/ SerializeArg[g][v] = Written(ToEntryFunctionArgument[g][v])
    /\ Misread[g][v] \/ SerializeArg[g][v] = MeantArgument[g][v]
<1> DEFINE E == ToEntryFunctionArgument
<1> DEFINE M == MeantArgument
<1> DEFINE S == SerializeArg
<1> DEFINE W == Misread
<1> DEFINE U == Unicode
<1> DEFINE Alike(g, v) == U[g][v] \/ S[g][v] = Written(E[g][v])
<1> DEFINE Right(g, v) == W[g][v] \/ S[g][v] = M[g][v]
<1> DEFINE Fine(g) == \A v \in Value : S[g][v] # Refused => Alike(g, v) /\ Right(g, v)
<1> DEFINE T == {n \in Nat : n \in 0..Depth => \A g \in TagLevel[n] : Fine(g)}
<1>1. ASSUME NEW n \in 0..Depth, NEW g \in TagLevel[n], \A c \in Children(g) : Fine(c)
      PROVE  Fine(g)
  <2> SUFFICES ASSUME NEW v \in Value, S[g][v] # Refused PROVE Alike(g, v) /\ Right(g, v)
    BY Zenon
  <2>1. g \in Tag
    BY TagsNested
  <2>2. CASE IsSimple(g)
    <3>1. S[g][v] = Written(E[g][v])
      BY <2>1, <2>2, EntryEquations, SerializedEquations
    <3>2. ~U[g][v]
      BY <2>1, <2>2, KindsOfTypes, UnicodeEquations DEF Framework
    <3>3. W[g][v] \/ U[g][v] \/ Written(E[g][v]) = M[g][v]
      BY <2>1, EntryMeant
    <3> QED BY <3>1, <3>2, <3>3
  <2>3. CASE g.k = "vector" /\ v.js = "array"
    <3> DEFINE D == DOMAIN v.of
    <3> DEFINE e == [i \in D |-> E[g.of][v.of[i]]]
    <3> DEFINE m == [i \in D |-> M[g.of][v.of[i]]]
    <3> DEFINE s == [i \in D |-> S[g.of][v.of[i]]]
    <3>1. \A i \in D : v.of[i] \in Value
      <4>1. v.of \in Seq(Value)
        BY <2>3, Forms
      <4> QED BY <4>1
    <3>2. S[g][v] = AllOf(s)
      <4>1. S[g][v] = ArrayElements(S, g, v)
        BY <2>1, <2>3, SerializedEquations
      <4> QED BY <4>1, Zenon DEF ArrayElements
    <3>3. M[g][v] = AllOf(m)
      <4>1. M[g][v] = ArrayElements(M, g, v)
        BY <2>1, <2>3, MeantEquations
      <4> QED BY <4>1, Zenon DEF ArrayElements
    <3>4. E[g][v] = AllOf(e)
      <4>1. HasElements(v, g) /\ Elements(v) = v.of
        BY <2>3 DEF HasElements, Elements
      <4>2. E[g][v] = EntryElements(E, g, v)
        BY <2>1, <2>3, <4>1, EntryEquations
      <4> QED BY <4>1, <4>2, Zenon DEF EntryElements
    <3>5. \A i \in D : S[g.of][v.of[i]] # Refused
      <4>1. Refused \notin Range(s)
        <5> HIDE DEF s
        <5> QED BY <3>2 DEF AllOf
      <4>2. DOMAIN s = D /\ \A i \in D : s[i] = S[g.of][v.of[i]]
        OBVIOUS
      <4> HIDE DEF s
      <4>3. \A i \in D : s[i] # Refused
        BY <4>1, <4>2 DEF Range
      <4> QED BY <4>2, <4>3
    <3>6. Fine(g.of)
      <4>1. g.of \in Children(g)
        BY <2>3 DEF Children
      <4> QED BY <4>1, <1>1
    <3>7. \A i \in D : Alike(g.of, v.of[i]) /\ Right(g.of, v.of[i])
      BY <3>1, <3>5, <3>6
    <3>8. ASSUME ~U[g][v] PROVE S[g][v] = Written(E[g][v])
      <4>1. ~SomeElement(U, g, v)
        <5>1. ~UnicodeElement(U, g, v)
          BY <2>1, <2>3, <3>8, UnicodeEquations
        <5> QED BY <5>1 DEF UnicodeElement
      <4>2. \A i \in D : ~U[g.of][v.of[i]]
        BY <4>1, <2>3 DEF SomeElement
      <4>3. \A i \in D : Written(e[i]) = s[i]
        BY <4>2, <3>7
      <4>4. e = [i \in D |-> e[i]] /\ s = [i \in D |-> s[i]]
        OBVIOUS
      <4>5. Vec(e) \in Arg
        <5>1. E[g][v] \in ArgLevel[n]
          BY EntryTyped
        <5>2. Refused \notin Range(e)
          <6>1. DOMAIN e = D
            OBVIOUS
          <6> HIDE DEF e
          <6> SUFFICES ASSUME NEW i \in D, e[i] = Refused PROVE FALSE
            BY <6>1 DEF Range
          <6>2. s[i] = Refused
            BY <4>3, WrittenFlat
          <6> QED BY <6>2, <3>5
        <5>3. E[g][v] = Vec(e)
          <6> HIDE DEF e
          <6> QED BY <3>4, <5>2 DEF AllOf
        <5> QED BY <5>1, <5>3, ArgsNested
      <4> HIDE DEF e, s, D
      <4>6. Written(AllOf(e)) = AllOf(s)
        BY <4>3, <4>4, <4>5, AllOfWritten
      <4> QED BY <4>6, <3>2, <3>4
    <3>9. ASSUME ~W[g][v] PROVE S[g][v] = M[g][v]
      <4>1. ~SomeElement(W, g, v)
        BY <2>1, <2>3, <3>9, MisreadEquations
      <4>2. \A i \in D : ~W[g.of][v.of[i]]
        BY <4>1, <2>3 DEF SomeElement
      <4>3. s = m
        BY <4>2, <3>7
      <4> QED BY <4>3, <3>2, <3>3
    <3> QED BY <3>8, <3>9
  <2>4. CASE g.k = "vector" /\ v.js # "array"
    <3>1. S[g][v] = IF IsBytes(g) THEN MeantBytes(v) ELSE Refused
      BY <2>1, <2>4, SerializedEquations
    <3>2. IsBytes(g) /\ (v.js = "bytes" \/ HasForm(v, {"text"}))
      BY <3>1 DEF MeantBytes
    <3>3. M[g][v] = MeantBytes(v)
      BY <2>1, <2>4, <3>2, MeantEquations
    <3>4. ~U[g][v] => Written(E[g][v]) = MeantBytes(v)
      BY <2>1, <3>2, RawBytesMeant
    <3> QED BY <3>1, <3>2, <3>3, <3>4
  <2>5. CASE g = StringTag
    <3>1. S[g][v] = Str(v) /\ IsString(v)
      BY <2>1, <2>5, SerializedEquations
    <3>2. M[g][v] = Str(v) /\ E[g][v] = Str(v)
      BY <2>1, <2>5, <3>1, MeantEquations, EntryEquations
    <3> QED BY <3>1, <3>2, WrittenOthers
  <2>6. CASE ~IsSimple(g) /\ g.k # "vector" /\ g # StringTag
    BY <2>1, <2>6, SerializedEquations
  <2> QED BY <2>2, <2>3, <2>4, <2>5, <2>6
<1> HIDE DEF Fine
<1>2. 0 \in T
  <2>1. \A g \in TagLevel[0] : Children(g) = {}
    BY TagShape, DepthAssumption
  <2> QED BY <2>1, <1>1
<1>3. ASSUME NEW n \in Nat, n \in T PROVE n + 1 \in T
  <2> SUFFICES ASSUME n + 1 \in 0..Depth, NEW g \in TagLevel[n + 1] PROVE Fine(g)
    OBVIOUS
  <2>1. n \in 0..Depth /\ (n + 1) - 1 = n
    BY DepthAssumption
  <2>2. \A c \in Children(g) : c \in TagLevel[n]
    BY <2>1, TagShape
  <2>3. \A c \in Children(g) : Fine(c)
    BY <2>1, <2>2, <1>3
  <2> QED BY <2>3, <1>1
<1>4. Nat \subseteq T
  <2> HIDE DEF T
  <2> QED BY <1>2, <1>3, Induction
<1>5. \A g \in Tag : Fine(g)
  BY <1>4, DepthAssumption DEF Tag
<1> QED BY <1>5, Zenon DEF Fine, E, M, W, S, U

(***************************************************************************)
(* Properties of a token                                                   *)
(***************************************************************************)

\* The texts, by their forms.
LEMMA TextShape ==
  ASSUME NEW v \in Scalars, v.js = "string"
  PROVE  /\ v \in Value
         /\ \/ v.form \in {"decimal", "hex", "suffixed"} /\ v.n \in Int
            \/ v.form = "truth" /\ v.b \in BOOLEAN /\ v = Truth(v.b)
            \/ v.form = "address" /\ v = Hexadecimal(v.a)
            \/ v.form = "text" /\ IsText(v)
<1> DEFINE Digits == [js : {"string"}, form : {"decimal", "hex", "suffixed"}, n : Int]
<1> DEFINE Truths == [js : {"string"}, form : {"truth"}, b : BOOLEAN]
<1> DEFINE Hexes == [js : {"string"}, form : {"address"}, a : STRING]
<1> DEFINE Strings == [js : {"string"}, form : {"text"}, chars : CodeUnits]
<1>1. v \in Digits => v.form \in {"decimal", "hex", "suffixed"} /\ v.n \in Int
  OBVIOUS
<1>2. v \in Truths => v.form = "truth" /\ v.b \in BOOLEAN /\ v = Truth(v.b)
  BY DEF Truth
<1>3. v \in Hexes => v.form = "address" /\ v = Hexadecimal(v.a)
  BY DEF Hexadecimal
<1>4. v \in Strings => v.form = "text" /\ IsText(v)
  BY DEF IsText, Text
<1>5. v \in Digits \/ v \in Truths \/ v \in Hexes \/ v \in Strings
  BY DEF Scalars, Null
<1>6. v \in Value
  BY ValueShape
<1> HIDE DEF Digits, Truths, Hexes, Strings
<1> QED BY <1>1, <1>2, <1>3, <1>4, <1>5, <1>6, Zenon

\* What is not decoded is not taken for a text that somebody wrote.
LEMMA Illegible ==
  ASSUME NEW v \in Scalars, v.js = "string"
  PROVE  /\ \A m : ~SameValue(HexOf(m), v)
         /\ ~SameValue(Garbled, v)
         /\ ~SameValue(Unreadable, v)
<1>1. v.form \in {"decimal", "hex", "suffixed", "truth", "address", "text"}
  BY TextShape
<1>2. \A m : HexOf(m).form = "hexOf" /\ HexOf(m) # v
  BY <1>1 DEF HexOf
<1>3. Garbled.form = "garbled" /\ Garbled # v
  BY <1>1 DEF Garbled
<1>4. Unreadable.js = "thrown" /\ Unreadable # v
  BY DEF Unreadable
<1> QED BY <1>2, <1>3, <1>4 DEF SameValue, HasForm, IsString

LEMMA RawLost ==
  ASSUME NEW v \in Scalars, v.js = "string", NEW g
  PROVE  ~SameValue(DeserializeValue(Raw(v), g), v)
<1>1. DeserializeValue(Raw(v), g) = ReadRaw(v, g)
  BY DEF DeserializeValue, Raw
<1>2. \/ ReadRaw(v, g) = Garbled
      \/ ReadRaw(v, g) = Unreadable
      \/ ReadRaw(v, g) = HexOf(Raw(v))
  BY DEF ReadRaw
<1> QED BY <1>1, <1>2, Illegible

\* A number that is written and read is the one that was meant.
LEMMA NumberSurvives ==
  ASSUME NEW v \in Scalars, v.js = "string", NEW g \in Tag, g.k \in {"u8", "u64", "u128"},
         SerializeArg[g][v] # Refused
  PROVE  /\ SameValue(DeserializeValue(SerializeArg[g][v], g), v) <=> ~Misread[g][v]
         /\ v = Text(<< >>) => Misread[g][v]
<1>1. v \in Value
  BY TextShape
<1>2. IsSimple(g) /\ g.k \in DOMAIN Limit
  BY Points DEF IsSimple, Primitives
<1>3. SerializeArg[g][v] = Written(ParsedNumber(v, g.k))
  BY <1>1, <1>2, SerializedEquations DEF Simple
<1>4. Misread[g][v] <=> Misnumbered(v, g.k)
  BY <1>1, <1>2, MisreadEquations
<1>5. ASSUME NEW n \in Int, ParsedNumber(v, g.k) = Num(g.k, n)
      PROVE  DeserializeValue(SerializeArg[g][v], g) = Decimal(n) /\ n \in 0..Limit[g.k]
  <2>1. SerializeArg[g][v] = Num(g.k, n) /\ n \in 0..Limit[g.k]
    BY <1>2, <1>3, <1>5, WrittenFlat
  <2>2. DeserializeValue(Num(g.k, n), g) = Decimal(n)
    <3>1. g # StringTag
      BY DEF StringTag, Struct
    <3> QED BY <3>1 DEF DeserializeValue, Num, Read
  <2> QED BY <2>1, <2>2
<1>6. ParsedNumber(v, g.k) # Refused
  BY <1>3, WrittenFlat
<1>7. \A n : Decimal(n).js = "string" /\ Decimal(n).form = "decimal" /\ Decimal(n).n = n
  BY DEF Decimal
<1>8. \A n : SameValue(Decimal(n), v) <=>
               Decimal(n) = v \/ (v.form \in {"decimal", "hex"} /\ v.n = n)
  BY <1>7 DEF SameValue, HasForm, IsString
<1>9. v = Text(<< >>) => v.form = "text" /\ v.chars = << >>
  BY DEF Text
<1>10. CASE g.k = "u8"
  <2>1. ParsedNumber(v, g.k) = IF EnsureNumber(v) = NoNumber THEN Refused
                               ELSE Num(g.k, EnsureNumber(v))
    BY <1>10 DEF ParsedNumber
  <2>2. Misnumbered(v, g.k) <=> v.form = "suffixed" \/ (v.form = "hex" /\ v.n # 0)
    BY <1>10 DEF Misnumbered, SmallWidths, HasForm, IsString
  <2>3. CASE v.form \in {"decimal", "suffixed"}
    <3>1. EnsureNumber(v) = Double(v.n) /\ v.n \in Int
      BY <2>3, TextShape DEF EnsureNumber, HasForm, IsString
    <3>2. Double(v.n) \in Int /\ (Double(v.n) <= U32Max => Double(v.n) = v.n)
      BY <3>1, Points
    <3>3. DeserializeValue(SerializeArg[g][v], g) = Decimal(Double(v.n)) /\ Double(v.n) \in 0..255
      <4>1. ParsedNumber(v, g.k) = Num(g.k, Double(v.n))
        BY <1>6, <2>1, <3>1
      <4>2. /\ DeserializeValue(SerializeArg[g][v], g) = Decimal(Double(v.n))
            /\ Double(v.n) \in 0..Limit[g.k]
        BY <4>1, <3>2, <1>5
      <4>3. Limit[g.k] = 255
        BY <1>10, Points
      <4> QED BY <4>2, <4>3
    <3>4. Double(v.n) = v.n
      BY <3>2, <3>3 DEF U32Max
    <3> QED BY <1>4, <1>7, <1>8, <1>9, <2>2, <2>3, <3>3, <3>4
  <2>4. CASE v.form = "hex"
    <3>1. EnsureNumber(v) = 0
      BY <2>4 DEF EnsureNumber, HasForm, IsString
    <3>2. DeserializeValue(SerializeArg[g][v], g) = Decimal(0)
      BY <1>5, <1>6, <2>1, <3>1
    <3> QED BY <1>4, <1>7, <1>8, <1>9, <2>2, <2>4, <3>2
  <2>5. CASE v.form \notin {"decimal", "suffixed", "hex"}
    <3>1. EnsureNumber(v) = NoNumber
      BY <2>5 DEF EnsureNumber, HasForm, IsString
    <3> QED BY <1>6, <2>1, <3>1
  <2> QED BY <2>3, <2>4, <2>5
<1>11. CASE g.k \in {"u64", "u128"}
  <2>1. ParsedNumber(v, g.k) = IF EnsureBigInt(v) = NoNumber THEN Refused
                               ELSE Num(g.k, EnsureBigInt(v))
    BY <1>11 DEF ParsedNumber
  <2>2. Misnumbered(v, g.k) <=> Blank(v)
    BY <1>11 DEF Misnumbered, SmallWidths
  <2>3. CASE v.form \in {"decimal", "hex"}
    <3>1. ~Blank(v)
      BY <2>3 DEF Blank, HasForm
    <3>2. EnsureBigInt(v) = v.n /\ v.n \in Int
      BY <2>3, <3>1, TextShape DEF EnsureBigInt, HasForm, IsString
    <3>3. DeserializeValue(SerializeArg[g][v], g) = Decimal(v.n)
      BY <1>5, <1>6, <2>1, <3>2
    <3> QED BY <1>4, <1>8, <1>9, <2>2, <2>3, <3>1, <3>3
  <2>4. CASE Blank(v)
    <3>1. v.form = "text"
      BY <2>4 DEF Blank, HasForm
    <3>2. EnsureBigInt(v) = 0
      BY <2>4, <3>1 DEF EnsureBigInt, HasForm, IsString
    <3>3. DeserializeValue(SerializeArg[g][v], g) = Decimal(0)
      BY <1>5, <1>6, <2>1, <3>2
    <3> QED BY <1>4, <1>7, <1>8, <2>2, <2>4, <3>1, <3>3
  <2>5. CASE v.form \notin {"decimal", "hex"} /\ ~Blank(v)
    <3>1. EnsureBigInt(v) = NoNumber
      BY <2>5 DEF EnsureBigInt, HasForm, IsString
    <3> QED BY <1>6, <2>1, <3>1
  <2> QED BY <2>3, <2>4, <2>5
<1> QED BY <1>10, <1>11

\* A value is read as it was written exactly if its type is one that is decoded and it is a
\* value of that type.
LEMMA ValueSurvives ==
  ASSUME NEW v \in Scalars, v.js = "string", NEW g \in Tag, SerializeArg[g][v] # Refused
  PROVE  SameValue(DeserializeValue(SerializeArg[g][v], g), v) <=>
           /\ g.k \in Decoded \/ g = StringTag
           /\ ~Misread[g][v] /\ (v = Text(<< >>) => g = StringTag)
<1> DEFINE m == SerializeArg[g][v]
<1>1. v \in Value
  BY TextShape
<1>2. StringTag.k = "struct"
  BY DEF StringTag, Struct
<1>3. CASE g.k \in {"u8", "u64", "u128"}
  BY <1>2, <1>3, NumberSurvives DEF Decoded
<1>4. CASE g.k = "bool"
  <2>1. ~Misread[g][v]
    BY <1>1, <1>4, MisreadEquations
  <2>2. IsSimple(g) /\ Simple(v, g) = EnsureBoolean(v)
    BY <1>4 DEF Simple, IsSimple, Primitives
  <2>3. m = Written(EnsureBoolean(v))
    BY <1>1, <2>2, SerializedEquations
  <2>4. EnsureBoolean(v) # Refused
    BY <2>3, WrittenFlat
  <2>5. v.form = "truth" /\ EnsureBoolean(v) = Bool(v.b)
    BY <2>4 DEF EnsureBoolean, HasForm
  <2>6. v = Truth(v.b) /\ v.b \in BOOLEAN
    BY <2>5, TextShape
  <2>7. m = Bool(v.b)
    BY <2>3, <2>5, <2>6, WrittenFlat
  <2>8. DeserializeValue(Bool(v.b), g) = Truth(v.b)
    BY <1>2, <1>4 DEF DeserializeValue, Bool, Read
  <2>9. v # Text(<< >>)
    BY <2>5 DEF Text
  <2>10. SameValue(DeserializeValue(m, g), v)
    BY <2>6, <2>7, <2>8 DEF SameValue
  <2> QED BY <2>1, <2>9, <2>10, <1>4 DEF Decoded
<1>5. CASE g.k = "address"
  <2>1. ~Misread[g][v]
    BY <1>1, <1>5, MisreadEquations
  <2>2. IsSimple(g) /\ Simple(v, g) = EnsureAddress(v)
    BY <1>5 DEF Simple, IsSimple, Primitives
  <2>3. m = EnsureAddress(v)
    BY <1>1, <2>2, SerializedEquations, AddressMeant
  <2>4. CASE v.form = "address"
    <3>1. m = Addr(v.a)
      BY <2>3, <2>4 DEF EnsureAddress, HasForm, IsString
    <3>2. DeserializeValue(m, g) = Hexadecimal(v.a)
      BY <1>2, <1>5, <3>1 DEF DeserializeValue, Addr, Read
    <3>3. v = Hexadecimal(v.a)
      BY <2>4, TextShape
    <3>4. v # Text(<< >>)
      BY <2>4 DEF Text
    <3> QED BY <2>1, <3>2, <3>3, <3>4, <1>5 DEF SameValue, Decoded
  <2>5. CASE v.form # "address"
    <3>1. v = Text(<< >>) /\ m = Addr("0x0")
      BY <2>3, <2>5 DEF EnsureAddress, HasForm, IsString
    <3>2. DeserializeValue(m, g) = Hexadecimal("0x0")
      BY <1>2, <1>5, <3>1 DEF DeserializeValue, Addr, Read
    <3>3. ~SameValue(Hexadecimal("0x0"), v)
      BY <2>5, <3>1 DEF SameValue, Hexadecimal, HasForm, IsString, Text
    <3> QED BY <3>1, <3>2, <3>3, <1>2, <1>5
  <2> QED BY <2>4, <2>5
<1>6. CASE g = StringTag
  <2>1. m = Str(v)
    BY <1>1, <1>6, SerializedEquations DEF IsString
  <2>2. DeserializeValue(m, g) = v
    BY <1>2, <1>6, <2>1 DEF DeserializeValue, Str, Read
  <2>3. ~Misread[g][v]
    BY <1>1, <1>6, MisreadEquations DEF IsString
  <2> QED BY <2>2, <2>3, <1>6 DEF SameValue
<1>7. CASE g.k \notin Decoded /\ g # StringTag
  <2>1. m.t # "raw"
    <3>1. CASE IsSimple(g)
      <4>1. m = Written(Simple(v, g)) /\ Simple(v, g) \in Flat
        BY <1>1, <3>1, SerializedEquations, SimpleMeant DEF IsSimple
      <4>2. m = Simple(v, g)
        BY <4>1 DEF Written
      <4>3. \A x \in Flat : x.t # "raw"
        BY DEF Flat, Refused
      <4> QED BY <4>1, <4>2, <4>3
    <3>2. CASE g.k = "vector"
      <4>1. m = IF IsBytes(g) THEN MeantBytes(v) ELSE Refused
        BY <1>1, <3>2, SerializedEquations
      <4>2. \A x : ByteVec(x).t = "vec"
        BY DEF ByteVec, Vec
      <4> QED BY <4>1, <4>2 DEF MeantBytes
    <3>3. CASE ~IsSimple(g) /\ g.k # "vector"
      BY <1>1, <1>7, <3>3, SerializedEquations
    <3> QED BY <3>1, <3>2, <3>3
  <2>2. DeserializeValue(m, g) = HexOf(m)
    BY <1>7, <2>1 DEF DeserializeValue, Read, Decoded
  <2> QED BY <1>7, <2>2, Illegible
<1> QED BY <1>3, <1>4, <1>5, <1>6, <1>7 DEF Decoded

(***************************************************************************)
(* The invariant, and the theorems                                         *)
(***************************************************************************)

HasTag == stage \in {"parsed", "builder", "built", "refused", "signed"}

HasProperty == stage \in {"stored", "read"}

\* Where each thing came from: the type from its text, the value from those offered for the
\* type, the property from its text.
Traced ==
  /\ \E c \in Calls : typ = c.text /\ tyArgs = c.tyArgs
  /\ HasTag => parsed = ParseTypeTag(typ, Texts(tyArgs)) /\ parsed.ok
  /\ stage \in {"built", "refused", "signed"} => val \in ValuesOf(parsed.tag)
  /\ HasProperty => /\ tyArgs = << >> /\ val \in PropertyTexts
                    /\ stored = GetPropertyValueRaw(val, typ)
  /\ stage = "read" => read = ReadProperty(stored, typ)

\* The trace of each thing is kept by every step of the builder and of the property map.
LEMMA TracedInvariant == Spec => []Traced
<1>1. Init => Traced
  BY DEF Init, Traced, HasTag, HasProperty
<1>2. ASSUME Traced, [Next]_vars PROVE Traced'
  <2> USE <1>2 DEF HasTag, HasProperty
  <2>1. CASE Parse
    BY <2>1 DEF Parse, Traced
  <2>2. ASSUME NEW names \in NameLists, Construct(names) PROVE Traced'
    BY <2>2 DEF Construct, Traced
  <2>3. ASSUME NEW kind \in Kinds, NEW v \in Offered, NEW o \in Variations,
               Build(kind, "f", [i \in 1..o.args |-> v], o.gas, o.agents)
        PROVE  Traced'
    <3> DEFINE args == [i \in 1..o.args |-> v]
    <3>1. args[1] = v
      BY PayloadsAssumption
    <3>2. stage = "builder" /\ v \in ValuesOf(parsed.tag)
      BY <2>3 DEF Build, Offered
    <3>3. /\ val' = args[1] /\ stage' \in {"refused", "built"}
          /\ UNCHANGED <<typ, tyArgs, parsed, stored, read>>
      <4> HIDE DEF args
      <4> QED BY <2>3, Zenon DEF Build, args
    <3> HIDE DEF args
    <3> QED BY <3>1, <3>2, <3>3 DEF Traced
  <2>4. ASSUME NEW v, NEW types, BuildRival(v, types) PROVE Traced'
    <3>1. /\ stage = "built" /\ stage' = "signed"
          /\ UNCHANGED <<typ, tyArgs, parsed, val, stored, read>>
      BY <2>4 DEF BuildRival
    <3> QED BY <3>1 DEF Traced
  <2>5. ASSUME NEW v \in PropertyTexts, WriteProperty(v) PROVE Traced'
    BY <2>5 DEF WriteProperty, Traced
  <2>6. CASE ReadBack
    BY <2>6 DEF ReadBack, Traced
  <2>7. CASE UNCHANGED vars
    BY <2>7 DEF vars, Traced
  <2> QED BY <2>1, <2>2, <2>3, <2>4, <2>5, <2>6, <2>7 DEF Next
<1> QED BY <1>1, <1>2, PTL DEF Spec

\* What is converted is a value of those the model offers, and its type is a type.
LEMMA Typed ==
  Traced /\ HasValue => parsed.tag \in Tag /\ val \in Value
<1> SUFFICES ASSUME Traced, HasValue PROVE parsed.tag \in Tag /\ val \in Value
  OBVIOUS
<1>1. PICK c \in Calls : typ = c.text /\ tyArgs = c.tyArgs
  BY DEF Traced
<1>2. /\ parsed = ParseTypeTag(c.text, Texts(c.tyArgs)) /\ parsed.ok
      /\ val \in ValuesOf(parsed.tag)
  BY <1>1 DEF Traced, HasValue, HasTag
<1>3. parsed.tag \in Tag /\ ValuesOf(parsed.tag) \subseteq Value
  BY <1>2, PayloadsAssumption
<1> QED BY <1>2, <1>3

\* For types and values nested to any depth: an entry function is given what the caller
\* means by a value, or the value is refused (toEntryFunctionArgument, builder_utils.ts).
THEOREM ArgumentsMeant == Spec => []ArgumentMeant
<1>1. Traced => ArgumentMeant
  <2> SUFFICES ASSUME Traced, HasValue,
                      ~(Misread[parsed.tag][val] \/ Unicode[parsed.tag][val])
               PROVE  AsEntryArgument(val) = MeantArgument[parsed.tag][val]
    BY DEF ArgumentMeant
  <2>1. parsed.tag \in Tag /\ val \in Value
    BY Typed
  <2> QED BY <2>1, EntryMeant DEF AsEntryArgument
<1> QED BY <1>1, TracedInvariant, PTL

\* For types and values nested to any depth: the three converters agree on what more than
\* one of them accepts (builder_utils.ts), up to the texts that are not ASCII.
THEOREM OneMeaning == Spec => []ConvertersAgree
<1>1. Traced => ConvertersAgree
  <2> SUFFICES ASSUME Traced, HasValue PROVE ConvertersAgree
    BY DEF ConvertersAgree
  <2>1. parsed.tag \in Tag /\ val \in Value
    BY Typed
  <2>2. Written(ToTransactionArgument(val, parsed.tag)) # Refused =>
          Written(ToTransactionArgument(val, parsed.tag)) = AsEntryArgument(val)
    BY <2>1, ScriptMeant DEF AsEntryArgument
  <2>3. SerializeArg[parsed.tag][val] # Refused =>
          /\ Unicode[parsed.tag][val] \/ SerializeArg[parsed.tag][val] = AsEntryArgument(val)
          /\ Misread[parsed.tag][val]
             \/ SerializeArg[parsed.tag][val] = MeantArgument[parsed.tag][val]
    BY <2>1, SerializedMeant DEF AsEntryArgument
  <2> QED BY <2>2, <2>3 DEF ConvertersAgree
<1> QED BY <1>1, TracedInvariant, PTL

LEMMA StringIsTag == StringTag \in Tag
<1>1. Tag = TagsOver(Inner(TagLevel, Depth))
  BY TagLevels, DepthAssumption DEF Tag
<1>2. << >> \in Seq(Inner(TagLevel, Depth)) /\ "0x1" \in Addresses
  BY DEF Addresses
<1> QED BY <1>1, <1>2, StringAssumption DEF StringTag, Struct, TagsOver

\* A property of a token is read as it was written exactly if its type is one of those that
\* deserializeValueBasedOnTypeTag decodes (property_map_serde.ts) and its value is one of
\* that type.
THEOREM PropertiesSurvive == Spec => []PropertySurvives
<1>1. Traced => PropertySurvives
  <2> SUFFICES ASSUME Traced, stage = "read" PROVE PropertySurvives
    BY DEF PropertySurvives
  <2> DEFINE type == GetPropertyType(typ)
  <2> DEFINE g == type.tag
  <2>1. /\ tyArgs = << >> /\ val \in PropertyTexts
        /\ stored = GetPropertyValueRaw(val, typ) /\ read = ReadProperty(stored, typ)
    BY DEF Traced, HasProperty
  <2>2. val \in Scalars /\ val.js = "string"
    BY <2>1, PayloadsAssumption
  <2>3. type.ok => g \in Tag
    <3>1. PICK c \in Calls : typ = c.text /\ tyArgs = c.tyArgs
      BY DEF Traced
    <3>2. Texts(tyArgs) = << >>
      BY <2>1 DEF Texts
    <3>3. ParseTypeTag(typ, << >>).ok => ParseTypeTag(typ, << >>).tag \in Tag
      BY <3>1, <3>2, PayloadsAssumption
    <3>4. type = Parsed(StringTag, << >>) \/ type = ParseTypeTag(typ, << >>)
      BY DEF GetPropertyType
    <3>5. Parsed(StringTag, << >>).tag = StringTag
      BY DEF Parsed
    <3> QED BY <3>3, <3>4, <3>5, StringIsTag
  <2> HIDE DEF type
  <2>4. CASE ~type.ok
    <3>1. read = Unreadable
      BY <2>1, <2>4 DEF ReadProperty, type
    <3>2. ~SameValue(read, val)
      BY <2>2, <3>1, Illegible
    <3> QED BY <2>4, <3>2 DEF PropertySurvives, type
  <2>5. CASE type.ok /\ SerializeArg[g][val] = Refused
    <3>1. stored = Raw(val)
      BY <2>1, <2>5 DEF GetPropertyValueRaw, type
    <3>2. read = DeserializeValue(Raw(val), g)
      BY <2>1, <2>5, <3>1 DEF ReadProperty, type
    <3>3. ~SameValue(read, val)
      BY <2>2, <3>2, RawLost
    <3> QED BY <2>5, <3>3 DEF PropertySurvives, type
  <2>6. CASE type.ok /\ SerializeArg[g][val] # Refused
    <3>1. stored = SerializeArg[g][val]
      BY <2>1, <2>6 DEF GetPropertyValueRaw, type
    <3>2. read = DeserializeValue(SerializeArg[g][val], g)
      BY <2>1, <2>6, <3>1 DEF ReadProperty, type
    <3>3. SameValue(read, val) <=>
            /\ g.k \in Decoded \/ g = StringTag
            /\ ~Misread[g][val] /\ (val = Text(<< >>) => g = StringTag)
      BY <2>2, <2>3, <2>6, <3>2, ValueSurvives
    <3> QED BY <2>6, <3>3 DEF PropertySurvives, type
  <2> QED BY <2>4, <2>5, <2>6
<1> QED BY <1>1, TracedInvariant, PTL

(***************************************************************************)
(* The recursive functions over arguments, and over what is hashed         *)
(***************************************************************************)

LEMMA NoParts == \A m \in ArgLevel[0] : Parts(m) = {}
<1> SUFFICES ASSUME NEW m \in ArgLevel[0] PROVE Parts(m) = {}
  OBVIOUS
<1>1. 0 \in 0..Depth /\ 0 - 1 \notin 0..Depth
  BY DepthAssumption
<1>2. \A c \in Parts(m) : 0 - 1 \in 0..Depth
  BY <1>1, ArgShape
<1> QED BY <1>1, <1>2

EipOf(f, m) ==
    CASE m.t = "num" -> Eip(m.w)
      [] m.t \in {"bool", "address"} -> Eip(m.t)
      [] m.t = "vec" /\ m.of # << >> -> ArrayOf(f[m.of[1]])
      [] m.t = "some" -> ArrayOf(f[m.of])
      [] OTHER -> Eip("string")

LEMMA EipLocal ==
  ASSUME NEW f, NEW h, NEW m \in Arg, \A c \in Parts(m) : f[c] = h[c]
  PROVE  EipOf(f, m) = EipOf(h, m)
<1>1. m.t = "vec" => m.of \in Seq(Arg)
  BY ArgShape, DepthAssumption DEF Arg
<1> QED BY <1>1 DEF Parts, EipOf

LEMMA EipIs == \A m \in Arg : Eip712Type[m] = EipOf(Eip712Type, m)
<1> DEFINE T == {n \in Nat : n \in 0..Depth => \E f : f = [m \in ArgLevel[n] |-> EipOf(f, m)]}
<1>1. ASSUME NEW n \in 0..Depth,
             \E f : \A m \in ArgLevel[n] : \A c \in Parts(m) : f[c] = EipOf(f, c)
      PROVE  \E f : f = [m \in ArgLevel[n] |-> EipOf(f, m)]
  <2>1. PICK f : \A m \in ArgLevel[n] : \A c \in Parts(m) : f[c] = EipOf(f, c)
    BY <1>1
  <2> DEFINE h == [m \in ArgLevel[n] |-> EipOf(f, m)]
  <2>2. ASSUME NEW m \in ArgLevel[n] PROVE h[m] = EipOf(h, m)
    <3>1. \A c \in Parts(m) : c \in ArgLevel[n]
      BY ArgShape
    <3>2. \A c \in Parts(m) : f[c] = h[c]
      BY <3>1, <2>1
    <3>3. m \in Arg
      BY ArgsNested
    <3> HIDE DEF h
    <3>4. EipOf(f, m) = EipOf(h, m)
      BY <3>2, <3>3, EipLocal
    <3> QED BY <3>4 DEF h
  <2>3. h = [m \in ArgLevel[n] |-> EipOf(h, m)]
    BY <2>2, Zenon
  <2> HIDE DEF h
  <2> QED BY <2>3
<1>2. 0 \in T
  <2> QED BY NoParts, <1>1, DepthAssumption
<1>3. ASSUME NEW n \in Nat, n \in T PROVE n + 1 \in T
  <2> SUFFICES ASSUME n + 1 \in 0..Depth
               PROVE  \E f : f = [m \in ArgLevel[n + 1] |-> EipOf(f, m)]
    OBVIOUS
  <2>1. n \in 0..Depth
    BY DepthAssumption
  <2>2. PICK f : f = [m \in ArgLevel[n] |-> EipOf(f, m)]
    BY <2>1, <1>3
  <2>3. ASSUME NEW m \in ArgLevel[n + 1], NEW c \in Parts(m) PROVE c \in ArgLevel[n]
    <3>1. c \in ArgLevel[(n + 1) - 1]
      BY ArgShape
    <3>2. (n + 1) - 1 = n
      OBVIOUS
    <3> QED BY <3>1, <3>2
  <2>4. \A c \in ArgLevel[n] : f[c] = EipOf(f, c)
    BY <2>2
  <2> QED BY <2>3, <2>4, <1>1
<1>4. Depth \in T
  <2> HIDE DEF T
  <2> QED BY <1>2, <1>3, Induction, DepthAssumption
<1>5. \E f : f = [m \in Arg |-> EipOf(f, m)]
  BY <1>4, DepthAssumption DEF Arg
<1>6. Eip712Type = [m \in Arg |-> EipOf(Eip712Type, m)]
  BY <1>5 DEF Eip712Type, EipOf
<1> QED BY <1>6, Zenon

AllPushed(f, m) == VectorToString([i \in DOMAIN m.of |-> f[m.of[i]]])

PushedOf(f, m) ==
    CASE m.t = "num" -> <<NumberOf(m.n)>>
      [] m.t \in {"bool", "address"} -> <<m>>
      [] m.t = "text" -> IF TextValue(m.v) = TextOf(<< >>) THEN << >> ELSE <<TextValue(m.v)>>
      [] m.t = "vec" -> <<AllPushed(f, m)>>
      [] m.t = "some" -> <<VectorToString(<<f[m.of]>>)>>
      [] m.t = "none" -> <<ListOf(<< >>)>>
      [] OTHER -> << >>

LEMMA PushedLocal ==
  ASSUME NEW f, NEW h, NEW m \in Arg, \A c \in Parts(m) : f[c] = h[c]
  PROVE  PushedOf(f, m) = PushedOf(h, m)
<1>1. m.t = "vec" => AllPushed(f, m) = AllPushed(h, m)
  BY DEF Parts, AllPushed
<1>2. m.t = "some" => f[m.of] = h[m.of]
  BY DEF Parts
<1> QED BY <1>1, <1>2 DEF PushedOf

LEMMA PushedIs == \A m \in Arg : Pushed[m] = PushedOf(Pushed, m)
<1> DEFINE T == {n \in Nat : n \in 0..Depth => \E f : f = [m \in ArgLevel[n] |-> PushedOf(f, m)]}
<1>1. ASSUME NEW n \in 0..Depth,
             \E f : \A m \in ArgLevel[n] : \A c \in Parts(m) : f[c] = PushedOf(f, c)
      PROVE  \E f : f = [m \in ArgLevel[n] |-> PushedOf(f, m)]
  <2>1. PICK f : \A m \in ArgLevel[n] : \A c \in Parts(m) : f[c] = PushedOf(f, c)
    BY <1>1
  <2> DEFINE h == [m \in ArgLevel[n] |-> PushedOf(f, m)]
  <2>2. ASSUME NEW m \in ArgLevel[n] PROVE h[m] = PushedOf(h, m)
    <3>1. \A c \in Parts(m) : c \in ArgLevel[n]
      BY ArgShape
    <3>2. \A c \in Parts(m) : f[c] = h[c]
      BY <3>1, <2>1
    <3>3. m \in Arg
      BY ArgsNested
    <3> HIDE DEF h
    <3>4. PushedOf(f, m) = PushedOf(h, m)
      BY <3>2, <3>3, PushedLocal
    <3> QED BY <3>4 DEF h
  <2>3. h = [m \in ArgLevel[n] |-> PushedOf(h, m)]
    BY <2>2, Zenon
  <2> HIDE DEF h
  <2> QED BY <2>3
<1>2. 0 \in T
  <2> QED BY NoParts, <1>1, DepthAssumption
<1>3. ASSUME NEW n \in Nat, n \in T PROVE n + 1 \in T
  <2> SUFFICES ASSUME n + 1 \in 0..Depth
               PROVE  \E f : f = [m \in ArgLevel[n + 1] |-> PushedOf(f, m)]
    OBVIOUS
  <2>1. n \in 0..Depth
    BY DepthAssumption
  <2>2. PICK f : f = [m \in ArgLevel[n] |-> PushedOf(f, m)]
    BY <2>1, <1>3
  <2>3. ASSUME NEW m \in ArgLevel[n + 1], NEW c \in Parts(m) PROVE c \in ArgLevel[n]
    <3>1. c \in ArgLevel[(n + 1) - 1]
      BY ArgShape
    <3>2. (n + 1) - 1 = n
      OBVIOUS
    <3> QED BY <3>1, <3>2
  <2>4. \A c \in ArgLevel[n] : f[c] = PushedOf(f, c)
    BY <2>2
  <2> QED BY <2>3, <2>4, <1>1
<1>4. Depth \in T
  <2> HIDE DEF T
  <2> QED BY <1>2, <1>3, Induction, DepthAssumption
<1>5. \E f : f = [m \in Arg |-> PushedOf(f, m)]
  BY <1>4, DepthAssumption DEF Arg
<1>6. Pushed = [m \in Arg |-> PushedOf(Pushed, m)]
  BY <1>5 DEF Pushed, PushedOf, AllPushed
<1> QED BY <1>6, Zenon

SignableAt(f, m, first) ==
    CASE m.t = "num" -> m.n <= SafeMax
      [] m.t = "vec" -> first.t = "vec" /\ first.of # << >> =>
           m.of # << >> /\ \A i \in DOMAIN m.of : f[m.of[i]][first.of[1]]
      [] m.t = "some" -> first.t = "some" => f[m.of][first.of]
      [] OTHER -> TRUE

SignableOf(f, m) == [first \in Arg |-> SignableAt(f, m, first)]

LEMMA SignableLocal ==
  ASSUME NEW f, NEW h, NEW m \in Arg, \A c \in Parts(m) : f[c] = h[c]
  PROVE  SignableOf(f, m) = SignableOf(h, m)
<1>1. \A first \in Arg : SignableAt(f, m, first) = SignableAt(h, m, first)
  BY DEF Parts, SignableAt
<1> QED BY <1>1, Zenon DEF SignableOf

LEMMA SignableIs == \A m \in Arg : Signable[m] = SignableOf(Signable, m)
<1> DEFINE T == {n \in Nat : n \in 0..Depth => \E f : f = [m \in ArgLevel[n] |-> SignableOf(f, m)]}
<1>1. ASSUME NEW n \in 0..Depth,
             \E f : \A m \in ArgLevel[n] : \A c \in Parts(m) : f[c] = SignableOf(f, c)
      PROVE  \E f : f = [m \in ArgLevel[n] |-> SignableOf(f, m)]
  <2>1. PICK f : \A m \in ArgLevel[n] : \A c \in Parts(m) : f[c] = SignableOf(f, c)
    BY <1>1
  <2> DEFINE h == [m \in ArgLevel[n] |-> SignableOf(f, m)]
  <2>2. ASSUME NEW m \in ArgLevel[n] PROVE h[m] = SignableOf(h, m)
    <3>1. \A c \in Parts(m) : c \in ArgLevel[n]
      BY ArgShape
    <3>2. \A c \in Parts(m) : f[c] = h[c]
      BY <3>1, <2>1
    <3>3. m \in Arg
      BY ArgsNested
    <3> HIDE DEF h
    <3>4. SignableOf(f, m) = SignableOf(h, m)
      BY <3>2, <3>3, SignableLocal
    <3> QED BY <3>4 DEF h
  <2>3. h = [m \in ArgLevel[n] |-> SignableOf(h, m)]
    BY <2>2, Zenon
  <2> HIDE DEF h
  <2> QED BY <2>3
<1>2. 0 \in T
  <2> QED BY NoParts, <1>1, DepthAssumption
<1>3. ASSUME NEW n \in Nat, n \in T PROVE n + 1 \in T
  <2> SUFFICES ASSUME n + 1 \in 0..Depth
               PROVE  \E f : f = [m \in ArgLevel[n + 1] |-> SignableOf(f, m)]
    OBVIOUS
  <2>1. n \in 0..Depth
    BY DepthAssumption
  <2>2. PICK f : f = [m \in ArgLevel[n] |-> SignableOf(f, m)]
    BY <2>1, <1>3
  <2>3. ASSUME NEW m \in ArgLevel[n + 1], NEW c \in Parts(m) PROVE c \in ArgLevel[n]
    <3>1. c \in ArgLevel[(n + 1) - 1]
      BY ArgShape
    <3>2. (n + 1) - 1 = n
      OBVIOUS
    <3> QED BY <3>1, <3>2
  <2>4. \A c \in ArgLevel[n] : f[c] = SignableOf(f, c)
    BY <2>2
  <2> QED BY <2>3, <2>4, <1>1
<1>4. Depth \in T
  <2> HIDE DEF T
  <2> QED BY <1>2, <1>3, Induction, DepthAssumption
<1>5. \E f : f = [m \in Arg |-> SignableOf(f, m)]
  BY <1>4, DepthAssumption DEF Arg
<1>6. Signable = [m \in Arg |-> SignableOf(Signable, m)]
  BY <1>5 DEF Signable, SignableOf, SignableAt
<1> QED BY <1>6, Zenon

\* The levels of what is hashed: each is made of the one below, and holds it.
LEMMA DataLevels == \A n \in 0..Depth : DataLevel[n] = DataOver(Inner(DataLevel, n))
<1> DEFINE T == {d \in Nat : \E f : f = [n \in 0..d |-> DataOver(Inner(f, n))]}
<1>1. 0 \in T
  <2> DEFINE f == [n \in 0..0 |-> DataOver({})]
  <2>1. f = [n \in 0..0 |-> DataOver(Inner(f, n))]
    BY DEF Inner
  <2> QED BY <2>1
<1>2. ASSUME NEW d \in Nat, d \in T PROVE d + 1 \in T
  <2>1. PICK f : f = [n \in 0..d |-> DataOver(Inner(f, n))]
    BY <1>2
  <2> DEFINE h == [n \in 0..d+1 |-> DataOver(Inner(f, n))]
  <2>2. \A n \in 0..d : h[n] = f[n]
    BY <2>1
  <2>3. ASSUME NEW n \in 0..d+1 PROVE Inner(h, n) = Inner(f, n)
    <3> HIDE DEF h
    <3>1. n # 0 => n - 1 \in 0..d
      OBVIOUS
    <3> QED BY <2>2, <3>1 DEF Inner
  <2>4. h = [n \in 0..d+1 |-> DataOver(Inner(h, n))]
    <3>1. \A n \in 0..d+1 : h[n] = DataOver(Inner(h, n))
      BY <2>3
    <3> QED BY <3>1, Zenon
  <2> HIDE DEF h
  <2> QED BY <2>4
<1>3. Depth \in T
  <2> HIDE DEF T
  <2> QED BY <1>1, <1>2, Induction, DepthAssumption
<1>4. DataLevel = [n \in 0..Depth |-> DataOver(Inner(DataLevel, n))]
  BY <1>3 DEF DataLevel, Inner
<1> QED BY <1>4, Zenon

LEMMA DataSteps ==
  /\ DataLevel[0] = DataOver({})
  /\ \A n \in Nat : n + 1 \in 0..Depth => DataLevel[n + 1] = DataOver(DataLevel[n])
<1>1. 0 \in 0..Depth /\ Inner(DataLevel, 0) = {}
  BY DepthAssumption DEF Inner
<1>2. ASSUME NEW n \in Nat, n + 1 \in 0..Depth PROVE Inner(DataLevel, n + 1) = DataLevel[n]
  <2>1. n + 1 # 0 /\ (n + 1) - 1 = n
    OBVIOUS
  <2> QED BY <2>1 DEF Inner
<1>3. DataLevel[0] = DataOver({})
  BY <1>1, DataLevels
<1> QED BY <1>2, <1>3, DataLevels

LEMMA DataNested ==
  /\ \A n \in 0..Depth : DataLevel[n] \subseteq Data
  /\ \A n \in Nat : n + 1 \in 0..Depth => DataLevel[n] \subseteq DataLevel[n + 1]
<1>1. \A A, B : A \subseteq B => DataOver(A) \subseteq DataOver(B)
  BY SeqsGrow DEF DataOver
<1> DEFINE T == {d \in Nat : d + 1 \in 0..Depth => DataLevel[d] \subseteq DataLevel[d + 1]}
<1>2. 0 \in T
  <2> SUFFICES ASSUME 0 + 1 \in 0..Depth PROVE DataLevel[0] \subseteq DataLevel[0 + 1]
    OBVIOUS
  <2>1. DataLevel[0] = DataOver({}) /\ DataLevel[0 + 1] = DataOver(DataLevel[0])
    BY DataSteps
  <2>2. DataOver({}) \subseteq DataOver(DataLevel[0])
    BY <1>1
  <2> QED BY <2>1, <2>2
<1>3. ASSUME NEW d \in Nat, d \in T PROVE d + 1 \in T
  <2> SUFFICES ASSUME (d + 1) + 1 \in 0..Depth
               PROVE  DataLevel[d + 1] \subseteq DataLevel[(d + 1) + 1]
    OBVIOUS
  <2>1. /\ DataLevel[d + 1] = DataOver(DataLevel[d])
        /\ DataLevel[(d + 1) + 1] = DataOver(DataLevel[d + 1])
    BY DataSteps, DepthAssumption
  <2>2. DataLevel[d] \subseteq DataLevel[d + 1]
    BY <1>3, DepthAssumption
  <2>3. DataOver(DataLevel[d]) \subseteq DataOver(DataLevel[d + 1])
    BY <2>2, <1>1
  <2> QED BY <2>1, <2>3
<1>4. \A n \in Nat : n + 1 \in 0..Depth => DataLevel[n] \subseteq DataLevel[n + 1]
  <2> HIDE DEF T
  <2>1. Nat \subseteq T
    BY <1>2, <1>3, Induction
  <2> QED BY <2>1 DEF T
<1>5. \A n \in 0..Depth : DataLevel[n] \subseteq DataLevel[Depth]
  <2> HIDE DEF T
  <2> QED BY <1>4, Climb
<1> QED BY <1>4, <1>5 DEF Data

Items(x) == IF "xs" \in DOMAIN x THEN {x.xs[i] : i \in DOMAIN x.xs} ELSE {}

Numerals == [v : {"number"}, n : Int]

Truths == [t : {"bool"}, b : BOOLEAN]

Accounts == [t : {"address"}, a : STRING]

TextsOf == [v : {"text"}, x : Bytes]

OtherStrings == [v : {"string"}, of : Value]

TagTexts == [v : {"tag"}, words : Words]

Lists(S) == [v : {"list"}, xs : S]

LEMMA DataForms ==
  \A inner : DataOver(inner) = Numerals \cup Truths \cup Accounts \cup TextsOf \cup OtherStrings
                               \cup TagTexts \cup Lists(Seq(inner))
BY Zenon DEF DataOver, Numerals, Truths, Accounts, TextsOf, OtherStrings, TagTexts, Lists, Words

\* What is hashed is a list or not, a number or not, and none of it is CannotHash.
LEMMA FormShape ==
  /\ \A x \in Numerals : "xs" \notin DOMAIN x /\ "n" \in DOMAIN x /\ x.n \in Int /\ x # CannotHash
  /\ \A x \in Truths \cup Accounts \cup TextsOf \cup OtherStrings \cup TagTexts :
       "xs" \notin DOMAIN x /\ "n" \notin DOMAIN x /\ x # CannotHash
  /\ \A S : \A x \in Lists(S) : /\ "xs" \in DOMAIN x /\ "n" \notin DOMAIN x /\ x # CannotHash
                               /\ x.xs \in S /\ x = ListOf(x.xs)
<1>1. \A x \in Numerals : "xs" \notin DOMAIN x /\ "n" \in DOMAIN x /\ x.n \in Int /\ x # CannotHash
  BY DEF Numerals, CannotHash
<1>2. \A x \in Truths : "xs" \notin DOMAIN x /\ "n" \notin DOMAIN x /\ x # CannotHash
  BY DEF Truths, CannotHash
<1>3. \A x \in Accounts : "xs" \notin DOMAIN x /\ "n" \notin DOMAIN x /\ x # CannotHash
  BY DEF Accounts, CannotHash
<1>4. \A x \in TextsOf : "xs" \notin DOMAIN x /\ "n" \notin DOMAIN x /\ x # CannotHash
  BY DEF TextsOf, CannotHash
<1>5. \A x \in OtherStrings : "xs" \notin DOMAIN x /\ "n" \notin DOMAIN x /\ x # CannotHash
  BY DEF OtherStrings, CannotHash
<1>6. \A x \in TagTexts : "xs" \notin DOMAIN x /\ "n" \notin DOMAIN x /\ x # CannotHash
  BY DEF TagTexts, CannotHash
<1>7. \A S : \A x \in Lists(S) : /\ "xs" \in DOMAIN x /\ "n" \notin DOMAIN x /\ x # CannotHash
                                /\ x.xs \in S /\ x = ListOf(x.xs)
  BY DEF Lists, CannotHash, ListOf
<1> QED BY <1>1, <1>2, <1>3, <1>4, <1>5, <1>6, <1>7

LEMMA DataShape ==
  ASSUME NEW n \in 0..Depth, NEW x \in DataLevel[n]
  PROVE  /\ \A c \in Items(x) : n - 1 \in 0..Depth /\ c \in DataLevel[n - 1] /\ c \in DataLevel[n]
         /\ x # CannotHash
         /\ "xs" \in DOMAIN x => x.xs \in Seq(Data)
         /\ "n" \in DOMAIN x => x.n \in Int
<1> DEFINE inner == Inner(DataLevel, n)
<1>1. x \in DataOver(inner)
  BY DataLevels
<1>2. \A c \in inner : n - 1 \in 0..Depth /\ c \in DataLevel[n - 1] /\ c \in DataLevel[n]
  <2> SUFFICES ASSUME NEW c \in inner
               PROVE  n - 1 \in 0..Depth /\ c \in DataLevel[n - 1] /\ c \in DataLevel[n]
    OBVIOUS
  <2>1. n # 0 /\ c \in DataLevel[n - 1]
    BY DEF Inner
  <2>2. n - 1 \in Nat /\ (n - 1) + 1 = n
    BY <2>1, DepthAssumption
  <2> QED BY <2>1, <2>2, DataNested, DepthAssumption
<1>3. inner \subseteq Data
  BY <1>2, DataNested
<1> HIDE DEF inner
<1>4. CASE x \in Lists(Seq(inner))
  <2>1. /\ "xs" \in DOMAIN x /\ "n" \notin DOMAIN x /\ x # CannotHash
        /\ x.xs \in Seq(inner)
    BY <1>4, FormShape, Zenon
  <2>2. x.xs \in Seq(Data)
    BY <2>1, <1>3, SeqsGrow
  <2>3. \A c \in Items(x) : c \in inner
    BY <2>1 DEF Items
  <2> QED BY <2>1, <2>2, <2>3, <1>2
<1>5. CASE x \in Numerals
  <2>1. "xs" \notin DOMAIN x /\ x.n \in Int /\ x # CannotHash
    BY <1>5, FormShape, Zenon
  <2> QED BY <2>1, Zenon DEF Items
<1>6. CASE x \in Truths \cup Accounts \cup TextsOf \cup OtherStrings \cup TagTexts
  <2>1. "xs" \notin DOMAIN x /\ "n" \notin DOMAIN x /\ x # CannotHash
    BY <1>6, FormShape, Zenon
  <2> QED BY <2>1, Zenon DEF Items
<1>7. x \in Numerals \/ x \in Truths \cup Accounts \cup TextsOf \cup OtherStrings \cup TagTexts
      \/ x \in Lists(Seq(inner))
  BY <1>1, DataForms
<1> QED BY <1>4, <1>5, <1>6, <1>7

Shorter(type) == [type EXCEPT !.dims = @ - 1]

EncodedItems(f, x, type) == [i \in DOMAIN x.xs |-> f[x.xs[i]][Shorter(type)]]

EncodedAt(f, x, type) ==
    IF type.dims = 0 THEN EncodedAtom(x, type.base)
    ELSE IF "xs" \notin DOMAIN x THEN CannotHash
    ELSE IF Hashable(EncodedItems(f, x, type)) THEN ListOf(EncodedItems(f, x, type)) ELSE CannotHash

EncodedOf(f, x) == [type \in EipTypes |-> EncodedAt(f, x, type)]

LEMMA EncodedLocal ==
  ASSUME NEW f, NEW h, NEW x \in Data, \A c \in Items(x) : f[c] = h[c]
  PROVE  EncodedOf(f, x) = EncodedOf(h, x)
<1>1. \A type \in EipTypes : "xs" \in DOMAIN x => EncodedItems(f, x, type) = EncodedItems(h, x, type)
  BY DEF Items, EncodedItems
<1>2. \A type \in EipTypes : EncodedAt(f, x, type) = EncodedAt(h, x, type)
  BY <1>1, Zenon DEF EncodedAt
<1> QED BY <1>2, Zenon DEF EncodedOf

LEMMA EncodedIs == \A m \in Data : Encoded[m] = EncodedOf(Encoded, m)
<1> DEFINE T == {n \in Nat : n \in 0..Depth => \E f : f = [m \in DataLevel[n] |-> EncodedOf(f, m)]}
<1>1. ASSUME NEW n \in 0..Depth,
             \E f : \A m \in DataLevel[n] : \A c \in Items(m) : f[c] = EncodedOf(f, c)
      PROVE  \E f : f = [m \in DataLevel[n] |-> EncodedOf(f, m)]
  <2>1. PICK f : \A m \in DataLevel[n] : \A c \in Items(m) : f[c] = EncodedOf(f, c)
    BY <1>1
  <2> DEFINE h == [m \in DataLevel[n] |-> EncodedOf(f, m)]
  <2>2. ASSUME NEW m \in DataLevel[n] PROVE h[m] = EncodedOf(h, m)
    <3>1. \A c \in Items(m) : c \in DataLevel[n]
      BY DataShape
    <3>2. \A c \in Items(m) : f[c] = h[c]
      BY <3>1, <2>1
    <3>3. m \in Data
      BY DataNested
    <3> HIDE DEF h
    <3>4. EncodedOf(f, m) = EncodedOf(h, m)
      BY <3>2, <3>3, EncodedLocal
    <3> QED BY <3>4 DEF h
  <2>3. h = [m \in DataLevel[n] |-> EncodedOf(h, m)]
    BY <2>2, Zenon
  <2> HIDE DEF h
  <2> QED BY <2>3
<1>2. 0 \in T
  <2>1. \A m \in DataLevel[0] : Items(m) = {}
    BY DataShape, DepthAssumption
  <2> QED BY <2>1, <1>1
<1>3. ASSUME NEW n \in Nat, n \in T PROVE n + 1 \in T
  <2> SUFFICES ASSUME n + 1 \in 0..Depth
               PROVE  \E f : f = [m \in DataLevel[n + 1] |-> EncodedOf(f, m)]
    OBVIOUS
  <2>1. n \in 0..Depth
    BY DepthAssumption
  <2>2. PICK f : f = [m \in DataLevel[n] |-> EncodedOf(f, m)]
    BY <2>1, <1>3
  <2>3. ASSUME NEW m \in DataLevel[n + 1], NEW c \in Items(m) PROVE c \in DataLevel[n]
    <3>1. c \in DataLevel[(n + 1) - 1]
      BY DataShape, SMTT(30)
    <3>2. (n + 1) - 1 = n
      OBVIOUS
    <3> QED BY <3>1, <3>2
  <2>4. \A c \in DataLevel[n] : f[c] = EncodedOf(f, c)
    BY <2>2
  <2> QED BY <2>3, <2>4, <1>1
<1>4. Depth \in T
  <2> HIDE DEF T
  <2> QED BY <1>2, <1>3, Induction, DepthAssumption
<1>5. \E f : f = [m \in Data |-> EncodedOf(f, m)]
  BY <1>4, DepthAssumption DEF Data
<1>6. Encoded = [m \in Data |-> EncodedOf(Encoded, m)]
  BY <1>5 DEF Encoded, EncodedOf, EncodedAt, EncodedItems, Shorter
<1> QED BY <1>6, Zenon

(***************************************************************************)
(* What is pushed is data that can be hashed                               *)
(***************************************************************************)

\* The bytes of a text are bytes.
LEMMA TextBytes ==
  ASSUME NEW s \in CodeUnits
  PROVE  Utf8(s) \in Bytes
<1> DEFINE B == 0..255
<1>1. ASSUME NEW c \in CodeUnit PROVE Utf8Char(c) \in Seq(B)
  <2> DEFINE high == c \div 4096
  <2> DEFINE mid == c \div 64
  <2>1. c \in Nat /\ c < 65536
    BY DEF CodeUnit
  <2>2. high \in Nat /\ high < 16
    BY <2>1
  <2>3. mid \in Nat /\ c < 2048 => mid < 32
    BY <2>1
  <2>4. mid \in Nat /\ c % 64 \in 0..63
    BY <2>1
  <2>5. mid % 64 \in 0..63
    <3> HIDE DEF mid
    <3> QED BY <2>4
  <2> DEFINE low == c % 64
  <2> DEFINE next == mid % 64
  <2>6. c < 128 => c \in B
    BY <2>1
  <2>7. Utf8Char(c) = IF c < 128 THEN <<c>> ELSE IF c < 2048 THEN <<192 + mid, 128 + low>>
                      ELSE <<224 + high, 128 + next, 128 + low>>
    BY DEF Utf8Char
  <2> HIDE DEF high, mid, low, next
  <2>8. c < 2048 => 192 + mid \in B
    BY <2>3, <2>4 DEF low
  <2>9. 224 + high \in B
    BY <2>2
  <2>10. 128 + next \in B
    BY <2>5 DEF next
  <2>11. 128 + low \in B
    BY <2>4 DEF low
  <2> HIDE DEF B
  <2> QED BY <2>6, <2>7, <2>8, <2>9, <2>10, <2>11, ShortSequences
<1> DEFINE X == Seq(B)
<1> DEFINE f == [c \in CodeUnit |-> Utf8Char(c)]
<1>2. \A c \in CodeUnit : f[c] \in X
  <2> HIDE DEF X
  <2>1. \A c \in CodeUnit : Utf8Char(c) \in X
    BY <1>1 DEF X
  <2> QED BY <2>1
<1>3. s \in Seq(CodeUnit)
  BY Zenon DEF CodeUnits
<1>4. \A i \in DOMAIN s : f[s[i]] = Utf8Char(s[i])
  BY <1>3, ElementOfSeq
<1>5. [i \in DOMAIN s |-> f[s[i]]] \in Seq(X)
  <2> HIDE DEF f, X
  <2> QED BY <1>2, <1>3, SequenceMade
<1>6. [i \in DOMAIN s |-> f[s[i]]] = [i \in DOMAIN s |-> Utf8Char(s[i])]
  BY <1>4
<1>7. Bytes = X
  BY DEF Bytes
<1> DEFINE chars == [i \in DOMAIN s |-> Utf8Char(s[i])]
<1>8. chars \in Seq(X) /\ Utf8(s) = FlattenSeq(chars)
  BY <1>5, <1>6 DEF Utf8
<1> HIDE DEF B, chars
<1> QED BY <1>7, <1>8, Flattened

AtMostOne(s, S) == s = << >> \/ \E x \in S : s = <<x>>

\* The forms of an argument.
LEMMA ArgKinds ==
  ASSUME NEW n \in 0..Depth, NEW m \in ArgLevel[n]
  PROVE  /\ m.t \in {"refused", "none", "num", "bool", "address", "text", "struct", "vec", "some"}
         /\ m.t = "num" => m.w \in DOMAIN Limit /\ m.n \in Int
         /\ m.t = "bool" => m \in Truths
         /\ m.t = "address" => m \in Accounts
         /\ m.t = "text" => m.v \in Value
         /\ m.t = "struct" => m.tag \in Tag
         /\ m.t = "vec" => m.of \in Seq(Inner(ArgLevel, n))
         /\ m.t = "some" => m.of \in Inner(ArgLevel, n)
<1> DEFINE inner == Inner(ArgLevel, n)
<1> DEFINE seqs == Seq(inner)
<1> DEFINE nums == [t : {"num"}, w : DOMAIN Limit, n : Int]
<1> DEFINE texts == [t : {"text"}, v : Value]
<1> DEFINE structs == [t : {"struct"}, tag : Tag]
<1> DEFINE vecs == [t : {"vec"}, of : seqs]
<1> DEFINE somes == [t : {"some"}, of : inner]
<1>1. m \in {Refused, None} \/ m \in nums \/ m \in Truths \/ m \in Accounts \/ m \in texts
      \/ m \in structs \/ m \in vecs \/ m \in somes
  <2>1. m \in ArgsOver(inner)
    BY ArgLevels
  <2> QED BY <2>1, Zenon DEF ArgsOver, Truths, Accounts
<1> HIDE DEF inner
<1>2. CASE m \in {Refused, None}
  BY <1>2 DEF Refused, None
<1>3. CASE m \in nums
  BY <1>3
<1>4. CASE m \in Truths
  <2>1. m.t = "bool"
    BY <1>4 DEF Truths
  <2> QED BY <2>1, <1>4
<1>5. CASE m \in Accounts
  <2>1. m.t = "address"
    BY <1>5 DEF Accounts
  <2> QED BY <2>1, <1>5
<1>6. CASE m \in texts
  BY <1>6
<1>7. CASE m \in structs
  BY <1>7
<1>8. CASE m \in vecs
  <2> HIDE DEF seqs
  <2>1. m.t = "vec" /\ m.of \in seqs
    BY <1>8
  <2> QED BY <2>1 DEF seqs, inner
<1>9. CASE m \in somes
  <2>1. m.t = "some" /\ m.of \in inner
    BY <1>9
  <2> QED BY <2>1 DEF inner
<1> QED BY <1>1, <1>2, <1>3, <1>4, <1>5, <1>6, <1>7, <1>8, <1>9

\* What is hashed has the forms that the texts of arguments take.
LEMMA DataMade ==
  ASSUME NEW n \in 0..Depth
  PROVE  /\ \A k \in Int : NumberOf(k) \in DataLevel[n]
         /\ Truths \subseteq DataLevel[n] /\ Accounts \subseteq DataLevel[n]
         /\ \A v \in Value : TextValue(v) \in DataLevel[n]
         /\ Brackets \in DataLevel[n]
         /\ \A words \in Words : TagText(words) \in DataLevel[n]
         /\ \A s \in Seq(Inner(DataLevel, n)) : ListOf(s) \in DataLevel[n]
<1> DEFINE inner == Inner(DataLevel, n)
<1>1. DataLevel[n] = Numerals \cup Truths \cup Accounts \cup TextsOf \cup OtherStrings
                     \cup TagTexts \cup Lists(Seq(inner))
  BY DataLevels, DataForms
<1>2. \A k \in Int : NumberOf(k) \in Numerals
  BY Points DEF NumberOf, Numerals
<1>3. ASSUME NEW v \in Value PROVE TextValue(v) \in TextsOf \cup OtherStrings
  <2>1. HasForm(v, {"text"}) => Utf8(v.chars) \in Bytes
    BY Forms, TextBytes
  <2>2. HasForm(v, {"text"}) => TextOf(Utf8(v.chars)) \in TextsOf
    BY <2>1 DEF TextOf, TextsOf
  <2>3. [v |-> "string", of |-> v] \in OtherStrings
    BY DEF OtherStrings
  <2> QED BY <2>2, <2>3 DEF TextValue
<1>4. Brackets \in TextsOf
  <2> DEFINE s == <<91, 93>>
  <2>1. s \in CodeUnits
    <3> DEFINE C == CodeUnit
    <3>1. 91 \in C /\ 93 \in C
      BY DEF CodeUnit
    <3> HIDE DEF C
    <3>2. s \in Seq(C)
      BY <3>1
    <3> QED BY <3>2 DEF C, CodeUnits
  <2> HIDE DEF s
  <2>2. Utf8(s) \in Bytes
    BY <2>1, TextBytes
  <2>3. TextOf(Utf8(s)) \in TextsOf
    BY <2>2 DEF TextOf, TextsOf
  <2> QED BY <2>3 DEF s, Brackets
<1>5. \A words \in Words : TagText(words) \in TagTexts
  BY DEF TagText, TagTexts
<1>6. \A s \in Seq(inner) : ListOf(s) \in Lists(Seq(inner))
  BY DEF ListOf, Lists
<1> HIDE DEF inner
<1>7. \A s \in Seq(inner) : ListOf(s) \in DataLevel[n]
  BY <1>1, <1>6
<1> QED BY <1>1, <1>2, <1>3, <1>4, <1>5, <1>7 DEF inner

LEMMA OneIsSequence ==
  ASSUME NEW S, NEW s, AtMostOne(s, S)
  PROVE  s \in Seq(S)
<1>1. << >> \in Seq(S)
  OBVIOUS
<1>2. \A x \in S : <<x>> \in Seq(S)
  OBVIOUS
<1> QED BY <1>1, <1>2 DEF AtMostOne

LEMMA ListMade ==
  ASSUME NEW S, NEW ss \in Seq(Seq(S))
  PROVE  /\ ss = << >> => VectorToString(ss) = Brackets
         /\ ss # << >> => VectorToString(ss) = ListOf(FlattenSeq(ss)) /\ FlattenSeq(ss) \in Seq(S)
BY Flattened DEF VectorToString

\* What is pushed for an argument, as far as its form goes.
LEMMA PushedEquations ==
  ASSUME NEW n \in 0..Depth, NEW m \in ArgLevel[n],
         \A c \in Inner(ArgLevel, n) : AtMostOne(Pushed[c], Inner(DataLevel, n))
  PROVE  /\ m.t = "num" => Pushed[m] = <<NumberOf(m.n)>>
         /\ m.t \in {"bool", "address"} => Pushed[m] = <<m>>
         /\ m.t = "text" => \/ Pushed[m] = << >>
                            \/ Pushed[m] = <<TextValue(m.v)>>
         /\ m.t = "vec" =>
              /\ Pushed[m] = <<AllPushed(Pushed, m)>>
              /\ m.of = << >> => AllPushed(Pushed, m) = Brackets
              /\ m.of # << >> =>
                   \E s \in Seq(Inner(DataLevel, n)) :
                     /\ AllPushed(Pushed, m) = ListOf(s)
                     /\ \A x : x \in Range(s) <=> \E i \in DOMAIN m.of : Pushed[m.of[i]] = <<x>>
         /\ m.t = "some" => Pushed[m] = <<ListOf(Pushed[m.of])>>
         /\ m.t = "none" => Pushed[m] = <<ListOf(<< >>)>>
         /\ m.t \in {"struct", "refused"} => Pushed[m] = << >>
<1>1. Pushed[m] = PushedOf(Pushed, m)
  BY ArgsNested, PushedIs
<1> DEFINE inner == Inner(DataLevel, n)
<1> DEFINE args == Inner(ArgLevel, n)
<1> DEFINE seqs == Seq(inner)
<1> DEFINE P == Pushed
<1>2. \A c \in args : P[c] \in seqs
  BY OneIsSequence
<1>3. \A c \in args : AtMostOne(P[c], inner)
  OBVIOUS
<1>4. ASSUME m.t = "some" PROVE VectorToString(<<Pushed[m.of]>>) = ListOf(Pushed[m.of])
  <2>1. P[m.of] \in seqs
    BY <1>2, <1>4, ArgKinds
  <2>2. FlattenSeq(<<P[m.of]>>) = P[m.of]
    BY <2>1, FlattenOne
  <2>3. <<P[m.of]>> # << >>
    OBVIOUS
  <2> QED BY <2>2, <2>3 DEF VectorToString
<1>5. ASSUME m.t = "vec"
      PROVE  /\ m.of = << >> => AllPushed(Pushed, m) = Brackets
             /\ m.of # << >> =>
                  \E s \in Seq(Inner(DataLevel, n)) :
                    /\ AllPushed(Pushed, m) = ListOf(s)
                    /\ \A x : x \in Range(s) <=> \E i \in DOMAIN m.of : Pushed[m.of[i]] = <<x>>
  <2> DEFINE p == m.of
  <2> DEFINE ss == [i \in DOMAIN p |-> P[p[i]]]
  <2>1. p \in Seq(args)
    BY <1>5, ArgKinds
  <2> HIDE DEF p, P, args, inner
  <2>2. ss \in Seq(seqs)
    <3> HIDE DEF seqs
    <3> QED BY <2>1, <1>2, SequenceMade
  <2>3. /\ \A i \in DOMAIN ss : i \in DOMAIN p /\ ss[i] = P[p[i]]
        /\ DOMAIN ss = DOMAIN p
    OBVIOUS
  <2>4. ss = << >> <=> p = << >>
    <3>1. Len(ss) = Len(p)
      <4>1. DOMAIN ss = 1..Len(ss) /\ DOMAIN p = 1..Len(p) /\ Len(ss) \in Nat /\ Len(p) \in Nat
        <5> HIDE DEF ss
        <5> QED BY <2>1, <2>2
      <4> QED BY <4>1, <2>3
    <3>2. ss = << >> <=> Len(ss) = 0
      <4> HIDE DEF ss
      <4> QED BY <2>2
    <3>3. p = << >> <=> Len(p) = 0
      BY <2>1
    <3> QED BY <3>1, <3>2, <3>3
  <2> DEFINE s == FlattenSeq(ss)
  <2>5. /\ s \in seqs
        /\ \A x : x \in Range(s) <=> \E i \in DOMAIN ss : x \in Range(ss[i])
    <3> HIDE DEF ss
    <3> QED BY <2>2, Flattened
  <2>6. \A i \in DOMAIN p : AtMostOne(P[p[i]], inner)
    <3>1. \A i \in DOMAIN p : p[i] \in args
      BY <2>1
    <3> QED BY <3>1, <1>3
  <2>7. ASSUME NEW x, NEW i \in DOMAIN p PROVE x \in Range(P[p[i]]) <=> P[p[i]] = <<x>>
    <3>1. P[p[i]] = << >> \/ \E y \in inner : P[p[i]] = <<y>>
      BY <2>6 DEF AtMostOne
    <3>2. Range(<< >>) = {} /\ << >> # <<x>>
      BY DEF Range
    <3>3. ASSUME NEW y PROVE Range(<<y>>) = {y} /\ (<<y>> = <<x>> <=> x = y)
      BY DEF Range
    <3> QED BY <3>1, <3>2, <3>3
  <2> HIDE DEF ss, s
  <2>8. \A x : x \in Range(s) <=> \E i \in DOMAIN p : P[p[i]] = <<x>>
    BY <2>3, <2>5, <2>7
  <2>9. AllPushed(P, m) = VectorToString(ss)
    BY DEF AllPushed, ss, p
  <2>10. ss # << >> => VectorToString(ss) = ListOf(s)
    BY DEF VectorToString, s
  <2>11. ss = << >> => VectorToString(ss) = Brackets
    BY DEF VectorToString
  <2> QED BY <2>4, <2>5, <2>8, <2>9, <2>10, <2>11 DEF p, P, inner
<1> HIDE DEF P, inner, args
<1>6. m.t \in {"refused", "none", "num", "bool", "address", "text", "struct", "vec", "some"}
  BY ArgKinds
<1>7. /\ m.t = "num" => Pushed[m] = <<NumberOf(m.n)>>
      /\ m.t \in {"bool", "address"} => Pushed[m] = <<m>>
      /\ m.t = "vec" => Pushed[m] = <<AllPushed(Pushed, m)>>
      /\ m.t = "some" => Pushed[m] = <<VectorToString(<<Pushed[m.of]>>)>>
      /\ m.t = "none" => Pushed[m] = <<ListOf(<< >>)>>
      /\ m.t \in {"struct", "refused"} => Pushed[m] = << >>
  BY <1>1, <1>6 DEF PushedOf
<1>8. m.t = "text" => Pushed[m] = << >> \/ Pushed[m] = <<TextValue(m.v)>>
  BY <1>1 DEF PushedOf
<1> QED BY <1>4, <1>5, <1>7, <1>8

\* At most one thing is pushed for an argument, nested no deeper than the argument is.
LEMMA PushedTyped ==
  \A n \in 0..Depth : \A m \in ArgLevel[n] : AtMostOne(Pushed[m], DataLevel[n])
<1> DEFINE Typd(n) == \A m \in ArgLevel[n] : AtMostOne(Pushed[m], DataLevel[n])
<1>1. ASSUME NEW n \in 0..Depth,
             \A c \in Inner(ArgLevel, n) : AtMostOne(Pushed[c], Inner(DataLevel, n))
      PROVE  Typd(n)
  <2> SUFFICES ASSUME NEW m \in ArgLevel[n] PROVE AtMostOne(Pushed[m], DataLevel[n])
    OBVIOUS
  <2>1. m.t \in {"refused", "none", "num", "bool", "address", "text", "struct", "vec", "some"}
    BY ArgKinds
  <2> DEFINE lists == Seq(Inner(DataLevel, n))
  <2>2. \A s \in lists : ListOf(s) \in DataLevel[n]
    BY DataMade
  <2>3. << >> \in lists
    OBVIOUS
  <2> HIDE DEF lists
  <2>4. CASE m.t = "num"
    <3>1. Pushed[m] = <<NumberOf(m.n)>> /\ NumberOf(m.n) \in DataLevel[n]
      BY <2>4, <1>1, PushedEquations, ArgKinds, DataMade
    <3> QED BY <3>1 DEF AtMostOne
  <2>5. CASE m.t \in {"bool", "address"}
    <3>1. Pushed[m] = <<m>> /\ m \in DataLevel[n]
      BY <2>5, <1>1, PushedEquations, ArgKinds, DataMade
    <3> QED BY <3>1 DEF AtMostOne
  <2>6. CASE m.t = "text"
    <3>1. /\ Pushed[m] = << >> \/ Pushed[m] = <<TextValue(m.v)>>
          /\ TextValue(m.v) \in DataLevel[n]
      BY <2>6, <1>1, PushedEquations, ArgKinds, DataMade
    <3> QED BY <3>1 DEF AtMostOne
  <2>7. CASE m.t = "vec"
    <3>1. /\ Pushed[m] = <<AllPushed(Pushed, m)>>
          /\ m.of = << >> => AllPushed(Pushed, m) = Brackets
          /\ m.of # << >> => \E s \in lists : AllPushed(Pushed, m) = ListOf(s)
      BY <2>7, <1>1, PushedEquations DEF lists
    <3>2. Brackets \in DataLevel[n]
      BY DataMade
    <3>3. AllPushed(Pushed, m) \in DataLevel[n]
      BY <3>1, <3>2, <2>2
    <3> QED BY <3>1, <3>3 DEF AtMostOne
  <2>8. CASE m.t = "some"
    <3>1. Pushed[m] = <<ListOf(Pushed[m.of])>>
      BY <2>8, <1>1, PushedEquations
    <3>2. AtMostOne(Pushed[m.of], Inner(DataLevel, n))
      BY <2>8, <1>1, ArgKinds
    <3>3. Pushed[m.of] \in lists
      BY <3>2, OneIsSequence DEF lists
    <3> QED BY <3>1, <3>3, <2>2 DEF AtMostOne
  <2>9. CASE m.t = "none"
    <3>1. Pushed[m] = <<ListOf(<< >>)>>
      BY <2>9, <1>1, PushedEquations
    <3> QED BY <3>1, <2>2, <2>3 DEF AtMostOne
  <2>10. CASE m.t \in {"struct", "refused"}
    <3>1. Pushed[m] = << >>
      BY <2>10, <1>1, PushedEquations
    <3> QED BY <3>1 DEF AtMostOne
  <2> QED BY <2>1, <2>4, <2>5, <2>6, <2>7, <2>8, <2>9, <2>10
<1> DEFINE T == {n \in Nat : n \in 0..Depth => Typd(n)}
<1>2. 0 \in T
  <2> HIDE DEF Typd
  <2>1. Inner(ArgLevel, 0) = {}
    BY DEF Inner
  <2>2. 0 \in 0..Depth => Typd(0)
    BY <2>1, <1>1
  <2> QED BY <2>2
<1>3. ASSUME NEW n \in Nat, n \in T PROVE n + 1 \in T
  <2> SUFFICES ASSUME n + 1 \in 0..Depth PROVE Typd(n + 1)
    OBVIOUS
  <2>1. n \in 0..Depth /\ n + 1 # 0 /\ (n + 1) - 1 = n
    BY DepthAssumption
  <2>2. Inner(ArgLevel, n + 1) = ArgLevel[n] /\ Inner(DataLevel, n + 1) = DataLevel[n]
    BY <2>1 DEF Inner
  <2>3. \A c \in ArgLevel[n] : AtMostOne(Pushed[c], DataLevel[n])
    BY <2>1, <1>3
  <2> HIDE DEF Typd
  <2> QED BY <2>2, <2>3, <1>1
<1>4. Nat \subseteq T
  <2> HIDE DEF T
  <2> QED BY <1>2, <1>3, Induction
<1> QED BY <1>4, DepthAssumption

Bases == DOMAIN Limit \cup {"bool", "address", "string"}

LEMMA Dimensions ==
  /\ \A base \in Bases : Eip(base) \in EipTypes /\ Eip(base).dims = 0 /\ Eip(base).base = base
  /\ \A type \in EipTypes : /\ ArrayOf(type) \in EipTypes /\ ArrayOf(type).dims # 0
                           /\ Shorter(ArrayOf(type)) = type
<1> DEFINE bases == Bases
<1>1. EipTypes = [base : bases, dims : Nat]
  BY DEF EipTypes, Bases
<1> HIDE DEF bases
<1>2. ASSUME NEW type \in EipTypes
      PROVE  /\ ArrayOf(type) \in EipTypes /\ ArrayOf(type).dims # 0
             /\ Shorter(ArrayOf(type)) = type
  <2>1. type = [base |-> type.base, dims |-> type.dims] /\ type.base \in bases /\ type.dims \in Nat
    BY <1>1
  <2>2. ArrayOf(type) = [base |-> type.base, dims |-> type.dims + 1]
    BY <2>1 DEF ArrayOf
  <2>3. Shorter(ArrayOf(type)) = [base |-> type.base, dims |-> (type.dims + 1) - 1]
    BY <2>2 DEF Shorter
  <2>4. type.dims + 1 \in Nat /\ type.dims + 1 # 0 /\ (type.dims + 1) - 1 = type.dims
    BY <2>1
  <2> QED BY <1>1, <2>1, <2>2, <2>3, <2>4
<1>3. \A base \in Bases : Eip(base) \in EipTypes /\ Eip(base).dims = 0 /\ Eip(base).base = base
  BY <1>1 DEF Eip, bases
<1> QED BY <1>2, <1>3

\* The types of the message, as far as the form of the argument goes.
LEMMA EipEquations ==
  ASSUME NEW m \in Arg
  PROVE  /\ m.t = "num" => Eip712Type[m] = Eip(m.w)
         /\ m.t \in {"bool", "address"} => Eip712Type[m] = Eip(m.t)
         /\ m.t = "vec" => Eip712Type[m] = IF m.of = << >> THEN Eip("string")
                                           ELSE ArrayOf(Eip712Type[m.of[1]])
         /\ m.t = "some" => Eip712Type[m] = ArrayOf(Eip712Type[m.of])
         /\ m.t \in {"none", "text", "struct", "refused"} => Eip712Type[m] = Eip("string")
<1>1. Eip712Type[m] = EipOf(Eip712Type, m)
  BY EipIs
<1>2. m.t \in {"refused", "none", "num", "bool", "address", "text", "struct", "vec", "some"}
  BY ArgKinds, DepthAssumption DEF Arg
<1> QED BY <1>1, <1>2 DEF EipOf

LEMMA FirstElement ==
  ASSUME NEW S, NEW s \in Seq(S), s # << >>
  PROVE  s[1] \in S /\ 1 \in DOMAIN s
OBVIOUS

LEMMA EipTyped == \A m \in Arg : Eip712Type[m] \in EipTypes
<1> DEFINE Typd(n) == \A m \in ArgLevel[n] : Eip712Type[m] \in EipTypes
<1>1. ASSUME NEW n \in 0..Depth, \A c \in Inner(ArgLevel, n) : Eip712Type[c] \in EipTypes
      PROVE  Typd(n)
  <2> SUFFICES ASSUME NEW m \in ArgLevel[n] PROVE Eip712Type[m] \in EipTypes
    OBVIOUS
  <2>1. m.t \in {"refused", "none", "num", "bool", "address", "text", "struct", "vec", "some"}
    BY ArgKinds
  <2>2. m \in Arg
    BY ArgsNested
  <2>3. \A base \in Bases : Eip(base) \in EipTypes
    BY Dimensions
  <2>4. \A type \in EipTypes : ArrayOf(type) \in EipTypes
    BY Dimensions
  <2>5. CASE m.t = "num"
    BY <2>2, <2>3, <2>5, ArgKinds, EipEquations DEF Bases
  <2>6. CASE m.t \in {"bool", "address"}
    BY <2>2, <2>3, <2>6, EipEquations DEF Bases
  <2>7. CASE m.t = "vec"
    <3>1. m.of \in Seq(Inner(ArgLevel, n))
      BY <2>7, ArgKinds
    <3>2. m.of # << >> => m.of[1] \in Inner(ArgLevel, n)
      BY <3>1, FirstElement
    <3>3. m.of # << >> => ArrayOf(Eip712Type[m.of[1]]) \in EipTypes
      BY <3>2, <1>1, <2>4
    <3>4. Eip("string") \in EipTypes
      BY <2>3 DEF Bases
    <3> QED BY <3>3, <3>4, <2>2, <2>7, EipEquations
  <2>8. CASE m.t = "some"
    <3>1. m.of \in Inner(ArgLevel, n)
      BY <2>8, ArgKinds
    <3> QED BY <3>1, <1>1, <2>4, <2>2, <2>8, EipEquations
  <2>9. CASE m.t \in {"none", "text", "struct", "refused"}
    BY <2>2, <2>3, <2>9, EipEquations DEF Bases
  <2> QED BY <2>1, <2>5, <2>6, <2>7, <2>8, <2>9
<1> DEFINE T == {n \in Nat : n \in 0..Depth => Typd(n)}
<1>2. 0 \in T
  <2> HIDE DEF Typd
  <2>1. Inner(ArgLevel, 0) = {}
    BY DEF Inner
  <2>2. 0 \in 0..Depth => Typd(0)
    BY <2>1, <1>1
  <2> QED BY <2>2
<1>3. ASSUME NEW n \in Nat, n \in T PROVE n + 1 \in T
  <2> SUFFICES ASSUME n + 1 \in 0..Depth PROVE Typd(n + 1)
    OBVIOUS
  <2>1. n \in 0..Depth /\ n + 1 # 0 /\ (n + 1) - 1 = n
    BY DepthAssumption
  <2>2. Inner(ArgLevel, n + 1) = ArgLevel[n]
    BY <2>1 DEF Inner
  <2>3. \A c \in ArgLevel[n] : Eip712Type[c] \in EipTypes
    BY <2>1, <1>3
  <2> HIDE DEF Typd
  <2> QED BY <2>2, <2>3, <1>1
<1>4. Nat \subseteq T
  <2> HIDE DEF T
  <2> QED BY <1>2, <1>3, Induction
<1> QED BY <1>4, DepthAssumption DEF Arg

\* What is hashed of data: an atom for a type without brackets, else the elements.
LEMMA EncodedEquations ==
  ASSUME NEW x \in Data
  PROVE  /\ \A base \in Bases : Encoded[x][Eip(base)] = EncodedAtom(x, base)
         /\ \A type \in EipTypes :
              "xs" \notin DOMAIN x => Encoded[x][ArrayOf(type)] = CannotHash
         /\ \A type \in EipTypes : \A s :
              x = ListOf(s) => (Encoded[x][ArrayOf(type)] # CannotHash
                                <=> \A y \in Range(s) : Encoded[y][type] # CannotHash)
<1> DEFINE E == Encoded
<1>1. \A type \in EipTypes : E[x][type] = EncodedAt(E, x, type)
  <2>1. E[x] = EncodedOf(E, x)
    BY EncodedIs
  <2> HIDE DEF E
  <2> QED BY <2>1 DEF EncodedOf
<1> HIDE DEF E
<1>2. \A base \in Bases : E[x][Eip(base)] = EncodedAtom(x, base)
  BY <1>1, Dimensions DEF EncodedAt
<1>3. \A type \in EipTypes : "xs" \notin DOMAIN x => E[x][ArrayOf(type)] = CannotHash
  BY <1>1, Dimensions DEF EncodedAt
<1>4. ASSUME NEW type \in EipTypes, NEW s, x = ListOf(s)
      PROVE  E[x][ArrayOf(type)] # CannotHash <=> \A y \in Range(s) : E[y][type] # CannotHash
  <2> DEFINE items == EncodedItems(E, x, ArrayOf(type))
  <2>1. "xs" \in DOMAIN x /\ x.xs = s
    BY <1>4 DEF ListOf
  <2>2. E[x][ArrayOf(type)] = IF Hashable(items) THEN ListOf(items) ELSE CannotHash
    BY <1>1, <2>1, Dimensions DEF EncodedAt
  <2>3. items = [i \in DOMAIN s |-> E[s[i]][type]]
    <3>1. Shorter(ArrayOf(type)) = type
      BY Dimensions
    <3> QED BY <2>1, <3>1 DEF EncodedItems
  <2>4. ListOf(items) # CannotHash
    <3> HIDE DEF items
    <3> QED BY DEF ListOf, CannotHash
  <2>5. Hashable(items) <=> \A y \in Range(s) : E[y][type] # CannotHash
    BY <2>3 DEF Hashable, Range
  <2> HIDE DEF items
  <2> QED BY <2>2, <2>4, <2>5
<1> QED BY <1>2, <1>3, <1>4 DEF E

\* No atom other than a number is refused, whatever it is.
LEMMA AtomsHashed ==
  ASSUME NEW x \in Data
  PROVE  /\ \A base \in {"bool", "address", "string"} : Encoded[x][Eip(base)] # CannotHash
         /\ \A base \in DOMAIN Limit : \A n :
              x = NumberOf(n) => (Encoded[x][Eip(base)] # CannotHash
                                  <=> Double(n) \in 0..Limit[base] /\ Double(n) < TwoTo53)
<1>1. x # CannotHash
  <2>1. Depth \in 0..Depth /\ x \in DataLevel[Depth]
    BY DepthAssumption DEF Data
  <2> QED BY <2>1, DataShape
<1>2. DOMAIN Limit = {"u8", "u16", "u32", "u64", "u128", "u256"}
  BY Points
<1>3. ASSUME NEW base \in {"bool", "address", "string"} PROVE EncodedAtom(x, base) # CannotHash
  <2>1. \A b : TextOf(b) # CannotHash
    BY DEF TextOf, CannotHash
  <2>2. base # "string" => EncodedAtom(x, base) = x
    BY <1>2, <1>3 DEF EncodedAtom
  <2>3. base = "string" => \/ EncodedAtom(x, base) = x
                           \/ \E b : EncodedAtom(x, base) = TextOf(b)
    <3> DEFINE bytes == [i \in DOMAIN x.xs |-> BufferByte(x.xs[i])]
    <3>1. base = "string" =>
            EncodedAtom(x, base) = IF "xs" \in DOMAIN x THEN TextOf(bytes) ELSE x
      BY <1>2 DEF EncodedAtom
    <3> HIDE DEF bytes
    <3> QED BY <3>1
  <2> QED BY <1>1, <2>1, <2>2, <2>3
<1>4. ASSUME NEW base \in DOMAIN Limit, NEW n, x = NumberOf(n)
      PROVE  EncodedAtom(x, base) # CannotHash
             <=> Double(n) \in 0..Limit[base] /\ Double(n) < TwoTo53
  <2>1. "n" \in DOMAIN x /\ x.n = Double(n)
    BY <1>4 DEF NumberOf
  <2>2. base # "string"
    BY <1>2
  <2>3. EncodedAtom(x, base)
          = IF x.n \in 0..Limit[base] /\ x.n < TwoTo53 THEN x ELSE CannotHash
    BY <2>1, <2>2 DEF EncodedAtom
  <2> QED BY <1>1, <2>1, <2>3
<1> QED BY <1>3, <1>4, EncodedEquations DEF Bases

\* A number in its range is hashed exactly if it is below 2^53.
LEMMA NumbersHashed ==
  ASSUME NEW w \in DOMAIN Limit, NEW n \in 0..Limit[w]
  PROVE  Encoded[NumberOf(n)][Eip(w)] # CannotHash <=> n <= SafeMax
<1>1. Limit[w] \in Nat
  BY Points
<1>2. n \in Nat /\ n <= Limit[w]
  BY <1>1
<1>3. NumberOf(n) \in Data
  BY <1>2, DataMade, DepthAssumption DEF Data
<1> DEFINE max == Limit[w]
<1> HIDE DEF max
<1>4. Double(n) \in 0..max /\ Double(n) < TwoTo53 <=> n <= SafeMax
  <2>1. n \in Nat /\ max \in Nat /\ n <= max
    BY <1>1, <1>2 DEF max
  <2>2. CASE n <= SafeMax
    <3>1. Double(n) = n
      BY <2>1, <2>2 DEF Double, SafeMax, TwoTo53Plus1, U64Max, U128Max, U256Max
    <3> QED BY <2>1, <2>2, <3>1 DEF SafeMax, TwoTo53
  <2>3. CASE ~(n <= SafeMax)
    <3>1. ~(Double(n) < TwoTo53)
      BY <2>1, <2>3 DEF Double, SafeMax, TwoTo53, TwoTo53Plus1, U64Max, U128Max, U256Max,
                        TwoTo64, TwoTo128, TwoTo256
    <3> QED BY <2>3, <3>1
  <2> QED BY <2>2, <2>3
<1> QED BY <1>3, <1>4, AtomsHashed DEF max

LEMMA SignableEquations ==
  ASSUME NEW m \in Arg, NEW f \in Arg
  PROVE  /\ m.t = "num" => (Signable[m][f] <=> m.n <= SafeMax)
         /\ m.t = "vec" =>
              (Signable[m][f] <=>
                 (f.t = "vec" /\ f.of # << >> =>
                    m.of # << >> /\ \A i \in DOMAIN m.of : Signable[m.of[i]][f.of[1]]))
         /\ m.t = "some" => (Signable[m][f] <=> (f.t = "some" => Signable[m.of][f.of]))
         /\ m.t \notin {"num", "vec", "some"} => Signable[m][f]
<1> DEFINE S == Signable
<1>1. S[m][f] = SignableAt(S, m, f)
  <2>1. S[m] = SignableOf(S, m)
    BY SignableIs
  <2> HIDE DEF S
  <2> QED BY <2>1 DEF SignableOf
<1> HIDE DEF S
<1>2. /\ m.t = "num" => (S[m][f] <=> m.n <= SafeMax)
      /\ m.t = "vec" =>
           (S[m][f] <=>
              (f.t = "vec" /\ f.of # << >> =>
                 m.of # << >> /\ \A i \in DOMAIN m.of : S[m.of[i]][f.of[1]]))
      /\ m.t = "some" => (S[m][f] <=> (f.t = "some" => S[m.of][f.of]))
      /\ m.t \notin {"num", "vec", "some"} => S[m][f]
  BY <1>1, Zenon DEF SignableAt
<1> QED BY <1>2 DEF S

(***************************************************************************)
(* What a single key signs                                                 *)
(***************************************************************************)

\* What an entry function can be given for a parameter of type g.
Given(g) == {m \in {ToEntryFunctionArgument[g][v] : v \in Value} : m # Refused}

Numeric(g) == g.k \in DOMAIN Limit \/ Fixed(g)

Form(g) == IF Numeric(g) THEN "num"
           ELSE IF g.k \in {"bool", "address"} THEN g.k
           ELSE IF g.k = "vector" THEN "vec"
           ELSE IF g = StringTag THEN "text"
           ELSE IF Is(g, "option", "Option") THEN "option"
           ELSE IF Is(g, "object", "Object") THEN "address"
           ELSE "struct"

Width(g) == IF Fixed(g) THEN FixedWidth(g) ELSE g.k

LEMMA PushedForms ==
  ASSUME NEW m \in Arg
  PROVE  /\ AtMostOne(Pushed[m], Data)
         /\ m.t = "num" => Pushed[m] = <<NumberOf(m.n)>>
         /\ m.t \in {"bool", "address"} => Pushed[m] = <<m>>
         /\ m.t = "text" => Pushed[m] = << >> \/ Pushed[m] = <<TextValue(m.v)>>
         /\ m.t = "vec" =>
              /\ Pushed[m] = <<AllPushed(Pushed, m)>>
              /\ m.of = << >> => AllPushed(Pushed, m) = Brackets
              /\ m.of # << >> =>
                   \E s : /\ AllPushed(Pushed, m) = ListOf(s)
                          /\ \A x : x \in Range(s)
                                    <=> \E i \in DOMAIN m.of : Pushed[m.of[i]] = <<x>>
         /\ m.t = "some" => Pushed[m] = <<ListOf(Pushed[m.of])>>
         /\ m.t = "none" => Pushed[m] = <<ListOf(<< >>)>>
         /\ m.t \in {"struct", "refused"} => Pushed[m] = << >>
<1>1. Depth \in 0..Depth /\ m \in ArgLevel[Depth]
  BY DepthAssumption DEF Arg
<1>2. \A c \in Inner(ArgLevel, Depth) : AtMostOne(Pushed[c], Inner(DataLevel, Depth))
  <2>1. Depth # 0 => Depth - 1 \in 0..Depth
    BY DepthAssumption
  <2> QED BY <2>1, PushedTyped DEF Inner
<1>3. AtMostOne(Pushed[m], Data)
  BY <1>1, PushedTyped DEF Data
<1>4. /\ m.t = "num" => Pushed[m] = <<NumberOf(m.n)>>
      /\ m.t \in {"bool", "address"} => Pushed[m] = <<m>>
      /\ m.t = "text" => Pushed[m] = << >> \/ Pushed[m] = <<TextValue(m.v)>>
      /\ m.t = "some" => Pushed[m] = <<ListOf(Pushed[m.of])>>
      /\ m.t = "none" => Pushed[m] = <<ListOf(<< >>)>>
      /\ m.t \in {"struct", "refused"} => Pushed[m] = << >>
  BY <1>1, <1>2, PushedEquations
<1>5. m.t = "vec" =>
        /\ Pushed[m] = <<AllPushed(Pushed, m)>>
        /\ m.of = << >> => AllPushed(Pushed, m) = Brackets
        /\ m.of # << >> =>
             \E s : /\ AllPushed(Pushed, m) = ListOf(s)
                    /\ \A x : x \in Range(s) <=> \E i \in DOMAIN m.of : Pushed[m.of[i]] = <<x>>
  <2> DEFINE Holds(s) == /\ AllPushed(Pushed, m) = ListOf(s)
                         /\ \A x : x \in Range(s) <=> \E i \in DOMAIN m.of : Pushed[m.of[i]] = <<x>>
  <2> DEFINE lists == Seq(Inner(DataLevel, Depth))
  <2>1. m.t = "vec" =>
          /\ Pushed[m] = <<AllPushed(Pushed, m)>>
          /\ m.of = << >> => AllPushed(Pushed, m) = Brackets
          /\ m.of # << >> => \E s \in lists : Holds(s)
    BY <1>1, <1>2, PushedEquations, Zenon
  <2>2. m.t = "vec" =>
          /\ Pushed[m] = <<AllPushed(Pushed, m)>>
          /\ m.of = << >> => AllPushed(Pushed, m) = Brackets
          /\ m.of # << >> => \E s : Holds(s)
    <3> HIDE DEF Holds, lists
    <3> QED BY <2>1
  <2> QED BY <2>2
<1> QED BY <1>3, <1>4, <1>5

LEMMA InRangeEquations ==
  ASSUME NEW m \in Arg
  PROVE  /\ m.t = "num" => (InRange[m] <=> m.n \in 0..Limit[m.w])
         /\ m.t = "vec" => (InRange[m] <=> \A i \in DOMAIN m.of : InRange[m.of[i]])
         /\ m.t = "some" => (InRange[m] <=> InRange[m.of])
<1> DEFINE R == InRange
<1>1. R[m] = InRangeOf(R, m)
  BY InRangeIs
<1> HIDE DEF R
<1>2. /\ m.t = "num" => R[m] = (m.n \in 0..Limit[m.w])
      /\ m.t = "vec" => R[m] = (\A i \in DOMAIN m.of : R[m.of[i]])
      /\ m.t = "some" => R[m] = R[m.of]
  BY <1>1, Zenon DEF InRangeOf
<1> QED BY <1>2 DEF R

LEMMA NumberGiven ==
  ASSUME NEW v \in Value, NEW w \in DOMAIN Limit, ParsedNumber(v, w) # Refused
  PROVE  ParsedNumber(v, w).t = "num" /\ ParsedNumber(v, w).w = w
BY DEF ParsedNumber, Num

\* The form of what is given for a type.
LEMMA GivenShape ==
  ASSUME NEW n \in 0..Depth, NEW g \in TagLevel[n], NEW m \in Given(g)
  PROVE  /\ m \in Arg
         /\ m.t = Form(g) \/ (Form(g) = "option" /\ m.t \in {"none", "some"})
         /\ m.t = "num" => m.w = Width(g) /\ m.w \in DOMAIN Limit
         /\ m.t = "vec" => g.k = "vector" /\ m.of \in Seq(Given(g.of))
         /\ m.t = "some" => g.args[1] \in Children(g) /\ m.of \in Given(g.args[1])
<1> DEFINE E == ToEntryFunctionArgument
<1>1. PICK v \in Value : m = E[g][v] /\ m # Refused
  BY Zenon DEF Given
<1>2. m \in Arg /\ g \in Tag
  BY <1>1, EntryTyped, ArgsNested, TagsNested
<1>3. DOMAIN Limit = {"u8", "u16", "u32", "u64", "u128", "u256"}
  BY Points
<1>0. /\ IsSimple(g) <=> g.k \in DOMAIN Limit \/ g.k \in {"bool", "address"}
      /\ ~("vector" \in DOMAIN Limit) /\ ~("struct" \in DOMAIN Limit)
      /\ ~("bool" \in DOMAIN Limit) /\ ~("address" \in DOMAIN Limit)
  BY <1>3 DEF IsSimple, Primitives
<1>14. Fixed(g) => Framework(g)
  BY DEF Framework, Fixed
<1>12. /\ IsSimple(g) => g.k # "vector" /\ ~Framework(g) /\ ~Fixed(g)
       /\ Framework(g) => g.k = "struct"
  BY <1>14, KindsOfTypes
<1>13. /\ IsSimple(g) => Form(g) = IF g.k \in DOMAIN Limit THEN "num" ELSE g.k
       /\ g.k = "vector" => Form(g) = "vec"
       /\ g = StringTag => Form(g) = "text"
       /\ Is(g, "option", "Option") => Form(g) = "option"
       /\ Is(g, "object", "Object") => Form(g) = "address"
       /\ Fixed(g) => Form(g) = "num"
       /\ g.k = "struct" /\ ~Framework(g) => Form(g) = "struct"
  <2>1. g = StringTag => g.k = "struct" /\ g.module = "string"
    BY KindsOfTypes DEF Framework
  <2>2. Is(g, "option", "Option") => g.k = "struct" /\ g.module = "option"
    BY DEF Is
  <2>3. Is(g, "object", "Object") => g.k = "struct" /\ g.module = "object"
    BY DEF Is
  <2>4. Fixed(g) => g.k = "struct" /\ g.module \in {"fixed_point32", "fixed_point64"}
    BY DEF Is, Fixed
  <2>5. Framework(g) <=> \/ g = StringTag \/ Is(g, "option", "Option") \/ Is(g, "object", "Object")
                         \/ Fixed(g)
    BY DEF Framework, Fixed
  <2> QED BY <1>0, <1>12, <2>1, <2>2, <2>3, <2>4, <2>5 DEF Form, Numeric
<1>4. CASE IsSimple(g)
  <2>1. m = Simple(v, g)
    BY <1>1, <1>2, <1>4, EntryEquations
  <2>2. g.k = "bool" => m = EnsureBoolean(v)
    BY <2>1 DEF Simple
  <2>3. g.k = "bool" => m.t = "bool"
    BY <1>1, <2>2 DEF EnsureBoolean, Bool
  <2>4. g.k = "address" => m = EnsureAddress(v)
    BY <2>1 DEF Simple
  <2>5. g.k = "address" => m.t = "address"
    BY <1>1, <2>4 DEF EnsureAddress, Addr
  <2>6. g.k \notin {"bool", "address"} => m = ParsedNumber(v, g.k) /\ g.k \in DOMAIN Limit
    BY <1>3, <1>4, <2>1 DEF Simple, IsSimple, Primitives
  <2>7. ~Fixed(g)
    BY <1>4, KindsOfTypes DEF Framework, Fixed
  <2>8. g.k \notin {"bool", "address"} => m.t = "num" /\ m.w = g.k
    BY <1>1, <2>6, NumberGiven
  <2>9. g.k \notin {"bool", "address"} => m.w = Width(g) /\ m.w \in DOMAIN Limit
    BY <2>6, <2>7, <2>8 DEF Width
  <2> QED BY <1>2, <1>0, <1>4, <1>13, <2>3, <2>5, <2>6, <2>8, <2>9
<1>5. CASE g.k = "vector"
  <2> DEFINE s == Elements(v)
  <2> DEFINE p == [i \in DOMAIN s |-> E[g.of][s[i]]]
  <2>1. E[g][v] = IF ~HasElements(v, g) THEN Refused ELSE EntryElements(E, g, v)
    BY <1>2, <1>5, EntryEquations
  <2>2. HasElements(v, g) /\ m = AllOf(p)
    BY <1>1, <2>1 DEF EntryElements
  <2>3. s \in Seq(Value)
    BY <2>2, ElementValues
  <2> HIDE DEF p
  <2>4. Refused \notin Range(p) /\ m = Vec(p)
    BY <1>1, <2>2 DEF AllOf
  <2> DEFINE G == Given(g.of)
  <2>5. p \in Seq(G)
    <3> DEFINE C == {E[g.of][u] : u \in Value}
    <3> DEFINE h == E[g.of]
    <3>1. \A u \in Value : h[u] \in C
      BY Zenon
    <3> HIDE DEF s, C
    <3>2. [i \in DOMAIN s |-> h[s[i]]] \in Seq(C)
      <4> HIDE DEF h
      <4> QED BY <2>3, <3>1, SequenceMade
    <3>3. p \in Seq(C)
      BY <3>2 DEF p
    <3>4. \A i \in DOMAIN p : p[i] \in G
      <4>1. \A i \in DOMAIN p : p[i] \in C
        BY <3>3
      <4>2. \A i \in DOMAIN p : p[i] # Refused
        BY <2>4 DEF Range
      <4>3. G = {c \in C : c # Refused}
        BY Zenon DEF Given, C
      <4> QED BY <4>1, <4>2, <4>3
    <3> HIDE DEF G
    <3> QED BY <3>3, <3>4
  <2>6. m.t = "vec" /\ m.of = p
    BY <2>4 DEF Vec
  <2> QED BY <1>2, <1>5, <1>13, <2>5, <2>6
<1>6. CASE g = StringTag
  <2>1. m = Str(v)
    BY <1>1, <1>2, <1>6, EntryEquations
  <2> QED BY <1>2, <1>6, <1>13, <2>1 DEF Str
<1>7. CASE Is(g, "option", "Option")
  <2> DEFINE x == IF g.args = << >> THEN Refused ELSE E[g.args[1]][v]
  <2>1. E[g][v] = Optional(v, IF g.args = << >> THEN Refused ELSE E[g.args[1]][v])
    BY <1>2, <1>7, EntryEquations
  <2>2. m = None \/ (x # Refused /\ m = Some(x))
    <3>1. m = Optional(v, x)
      BY <1>1, <2>1
    <3> HIDE DEF x
    <3> QED BY <1>1, <3>1 DEF Optional
  <2>3. CASE m = None
    <3>1. m.t = "none"
      BY <2>3 DEF None
    <3> QED BY <1>2, <1>7, <1>13, <3>1
  <2>4. CASE x # Refused /\ m = Some(x)
    <3>1. g.args # << >> /\ x = E[g.args[1]][v]
      BY <2>4
    <3>2. x \in Given(g.args[1])
      BY <2>4, <3>1 DEF Given
    <3>3. g.args[1] \in Children(g)
      <4>1. g.k = "struct" /\ g.args \in Seq(Tag)
        BY <1>7, TagShape DEF Is
      <4>2. 1 \in DOMAIN g.args
        BY <3>1, <4>1, FirstElement
      <4> QED BY <4>1, <4>2 DEF Children
    <3> HIDE DEF x
    <3>4. m.t = "some" /\ m.of = x
      BY <2>4 DEF Some
    <3> QED BY <1>2, <1>7, <1>13, <3>2, <3>3, <3>4
  <2> QED BY <2>2, <2>3, <2>4
<1>8. CASE Is(g, "object", "Object")
  <2>1. m = EnsureAddress(v)
    BY <1>1, <1>2, <1>8, EntryEquations
  <2>2. m.t = "address"
    BY <1>1, <2>1 DEF EnsureAddress, Addr
  <2> QED BY <1>2, <1>8, <1>13, <2>2
<1>9. CASE Fixed(g)
  <2>1. m = ParsedNumber(v, FixedWidth(g))
    BY <1>1, <1>2, <1>9, EntryEquations
  <2>2. FixedWidth(g) \in DOMAIN Limit
    BY <1>3 DEF FixedWidth
  <2>3. m.t = "num" /\ m.w = FixedWidth(g)
    BY <1>1, <2>1, <2>2, NumberGiven
  <2> QED BY <1>2, <1>9, <1>13, <2>2, <2>3 DEF Width
<1>10. CASE g.k = "struct" /\ ~Framework(g)
  <2>1. m = EmptyStruct(g)
    BY <1>1, <1>2, <1>10, EntryEquations
  <2> QED BY <1>2, <1>10, <1>13, <2>1 DEF EmptyStruct
<1>11. CASE ~IsSimple(g) /\ g.k \notin {"vector", "struct"}
  BY <1>1, <1>2, <1>11, EntryEquations
<1> QED BY <1>2, <1>4, <1>5, <1>6, <1>7, <1>8, <1>9, <1>10, <1>11, TagKinds

\* What is pushed for m is hashed, in a vector that starts with f, exactly if m is signable.
HashedAs(m, f) ==
  /\ Pushed[m] = << >> => Signable[m][f]
  /\ \A x : Pushed[m] = <<x>> => (Encoded[x][Eip712Type[f]] # CannotHash <=> Signable[m][f])

HashedAll(g) == \A m, f \in Given(g) : InRange[m] => HashedAs(m, f)

LEMMA AtomHashed ==
  ASSUME NEW x \in Data, NEW m, Pushed[m] = <<x>>, NEW f,
         Encoded[x][Eip712Type[f]] # CannotHash, Signable[m][f]
  PROVE  HashedAs(m, f)
BY DEF HashedAs

\* What is hashed for a list, by what is hashed for its elements.
LEMMA VectorHashed ==
  ASSUME NEW m \in Arg, m.t = "vec", NEW f \in Arg, f.t = "vec", f.of # << >>, m.of # << >>,
         f.of[1] \in Arg,
         \A i \in DOMAIN m.of : HashedAs(m.of[i], f.of[1]) /\ m.of[i] \in Arg
  PROVE  HashedAs(m, f)
<1> DEFINE x == AllPushed(Pushed, m)
<1> DEFINE type == Eip712Type[f.of[1]]
<1> DEFINE D == DOMAIN m.of
<1> DEFINE Passes(i) == Signable[m.of[i]][f.of[1]]
<1> DEFINE P(i) == Pushed[m.of[i]]
<1> DEFINE Hashed(y) == Encoded[y][type] # CannotHash
<1>1. Pushed[m] = <<x>>
  BY PushedForms
<1>2. PICK s : x = ListOf(s) /\ \A y : y \in Range(s) <=> \E i \in D : P(i) = <<y>>
  BY PushedForms
<1>3. x \in Data
  <2>1. AtMostOne(Pushed[m], Data)
    BY PushedForms
  <2> HIDE DEF x
  <2> QED BY <1>1, <2>1 DEF AtMostOne
<1>4. Eip712Type[f] = ArrayOf(type) /\ type \in EipTypes
  BY EipEquations, EipTyped
<1>5. Encoded[x][ArrayOf(type)] # CannotHash <=> \A y \in Range(s) : Hashed(y)
  BY <1>2, <1>3, <1>4, EncodedEquations
<1>6. Signable[m][f] <=> \A i \in D : Passes(i)
  BY SignableEquations
<1>7. \A i \in D : P(i) = << >> => Passes(i)
  BY DEF HashedAs
<1>8. \A i \in D : \A y : P(i) = <<y>> => (Hashed(y) <=> Passes(i))
  BY DEF HashedAs
<1>9. \A i \in D : P(i) = << >> \/ \E y : P(i) = <<y>>
  <2> SUFFICES ASSUME NEW i \in D PROVE P(i) = << >> \/ \E y : P(i) = <<y>>
    OBVIOUS
  <2>1. AtMostOne(Pushed[m.of[i]], Data)
    BY PushedForms
  <2> QED BY <2>1 DEF AtMostOne
<1>10. (\A y \in Range(s) : Hashed(y)) <=> \A i \in D : Passes(i)
  <2> HIDE DEF P, Passes, Hashed, D
  <2> QED BY <1>2, <1>7, <1>8, <1>9
<1> HIDE DEF x
<1>11. Encoded[x][Eip712Type[f]] # CannotHash <=> Signable[m][f]
  BY <1>4, <1>5, <1>6, <1>10
<1>12. <<x>> # << >> /\ \A y : <<x>> = <<y>> => x = y
  OBVIOUS
<1> QED BY <1>1, <1>11, <1>12 DEF HashedAs

LEMMA SomeHashed ==
  ASSUME NEW m \in Arg, m.t = "some", NEW f \in Arg, f.t = "some",
         m.of \in Arg, f.of \in Arg, HashedAs(m.of, f.of)
  PROVE  HashedAs(m, f)
<1> DEFINE s == Pushed[m.of]
<1> DEFINE x == ListOf(s)
<1> DEFINE type == Eip712Type[f.of]
<1>1. Pushed[m] = <<x>>
  BY PushedForms
<1>3. x \in Data
  <2>1. AtMostOne(Pushed[m], Data)
    BY PushedForms
  <2> HIDE DEF x
  <2> QED BY <1>1, <2>1 DEF AtMostOne
<1>4. Eip712Type[f] = ArrayOf(type) /\ type \in EipTypes
  BY EipEquations, EipTyped
<1>5. Encoded[x][ArrayOf(type)] # CannotHash <=> \A y \in Range(s) : Encoded[y][type] # CannotHash
  <2> HIDE DEF type
  <2> QED BY <1>3, <1>4, EncodedEquations
<1>6. Signable[m][f] <=> Signable[m.of][f.of]
  BY SignableEquations
<1>7. (\A y \in Range(s) : Encoded[y][type] # CannotHash) <=> Signable[m.of][f.of]
  <2>1. s = << >> \/ \E y \in Data : s = <<y>>
    BY PushedForms DEF AtMostOne
  <2>2. CASE s = << >>
    <3>1. Range(s) = {}
      BY <2>2 DEF Range
    <3> QED BY <2>2, <3>1 DEF HashedAs
  <2>3. CASE \E y \in Data : s = <<y>>
    <3>1. PICK y : s = <<y>>
      BY <2>3
    <3>2. Range(<<y>>) = {y}
      BY DEF Range
    <3> QED BY <3>1, <3>2 DEF HashedAs
  <2> QED BY <2>1, <2>2, <2>3
<1> HIDE DEF x, type
<1>11. Encoded[x][Eip712Type[f]] # CannotHash <=> Signable[m][f]
  BY <1>4, <1>5, <1>6, <1>7
<1>12. <<x>> # << >> /\ \A y : <<x>> = <<y>> => x = y
  OBVIOUS
<1> QED BY <1>1, <1>11, <1>12 DEF HashedAs

\* A vector or an option of a type, by what its elements do.
LEMMA HashedStep ==
  ASSUME NEW n \in 0..Depth, NEW g \in TagLevel[n], \A c \in Children(g) : HashedAll(c)
  PROVE  HashedAll(g)
<1> SUFFICES ASSUME NEW m \in Given(g), NEW f \in Given(g), InRange[m] PROVE HashedAs(m, f)
  BY DEF HashedAll
<1>1. /\ m \in Arg /\ f \in Arg
      /\ m.t = Form(g) \/ (Form(g) = "option" /\ m.t \in {"none", "some"})
      /\ f.t = Form(g) \/ (Form(g) = "option" /\ f.t \in {"none", "some"})
      /\ m.t = "num" => m.w = Width(g) /\ m.w \in DOMAIN Limit
      /\ f.t = "num" => f.w = Width(g)
      /\ m.t = "vec" => g.k = "vector" /\ m.of \in Seq(Given(g.of))
      /\ f.t = "vec" => f.of \in Seq(Given(g.of))
      /\ m.t = "some" => g.args[1] \in Children(g) /\ m.of \in Given(g.args[1])
      /\ f.t = "some" => g.args[1] \in Children(g) /\ f.of \in Given(g.args[1])
  BY GivenShape
<1>2. Form(g) \in {"num", "bool", "address", "vec", "text", "option", "struct"}
  BY DEF Form
<1>3. m.t \in {"refused", "none", "num", "bool", "address", "text", "struct", "vec", "some"}
      /\ f.t \in {"refused", "none", "num", "bool", "address", "text", "struct", "vec", "some"}
  <2>1. Depth \in 0..Depth /\ m \in ArgLevel[Depth] /\ f \in ArgLevel[Depth]
    BY <1>1, DepthAssumption DEF Arg
  <2> QED BY <2>1, ArgKinds
<1>4. \A c \in Children(g) : c \in Tag
  BY TagShape, TagsNested
<1>5. \A c \in Children(g) : \A k \in Given(c) : k \in Arg
  <2> SUFFICES ASSUME NEW c \in Children(g), NEW k \in Given(c) PROVE k \in Arg
    OBVIOUS
  <2>1. Depth \in 0..Depth /\ c \in TagLevel[Depth]
    BY <1>4, DepthAssumption DEF Tag
  <2> QED BY <2>1, GivenShape
<1>6. /\ AtMostOne(Pushed[m], Data)
      /\ \A x : Pushed[m] = <<x>> => x \in Data
  <2>1. AtMostOne(Pushed[m], Data)
    BY <1>1, PushedForms
  <2>2. \A x, y : <<x>> # << >> /\ (<<x>> = <<y>> => x = y)
    OBVIOUS
  <2> QED BY <2>1, <2>2 DEF AtMostOne
<1>7. \A x \in Data : \A base \in {"bool", "address", "string"} : Encoded[x][Eip(base)] # CannotHash
  BY AtomsHashed
<1>8. ASSUME NEW base \in {"bool", "address", "string"}, Eip712Type[f] = Eip(base), Signable[m][f]
      PROVE  HashedAs(m, f)
  BY <1>6, <1>7, <1>8 DEF HashedAs
<1>9. CASE Form(g) = "num"
  <2>1. m.t = "num" /\ f.t = "num" /\ m.w = f.w /\ m.w \in DOMAIN Limit
    BY <1>1, <1>9
  <2>2. m.n \in 0..Limit[m.w]
    BY <1>1, <2>1, InRangeEquations
  <2>3. Pushed[m] = <<NumberOf(m.n)>>
    BY <1>1, <2>1, PushedForms
  <2>4. Eip712Type[f] = Eip(m.w)
    BY <1>1, <2>1, EipEquations
  <2>5. Encoded[NumberOf(m.n)][Eip(m.w)] # CannotHash <=> m.n <= SafeMax
    BY <2>1, <2>2, NumbersHashed
  <2>6. Signable[m][f] <=> m.n <= SafeMax
    BY <1>1, <2>1, SignableEquations
  <2> DEFINE x == NumberOf(m.n)
  <2> HIDE DEF x
  <2>7. <<x>> # << >> /\ \A y : <<x>> = <<y>> => x = y
    OBVIOUS
  <2>8. Pushed[m] = <<x>> /\ (Encoded[x][Eip712Type[f]] # CannotHash <=> Signable[m][f])
    BY <2>3, <2>4, <2>5, <2>6 DEF x
  <2> QED BY <2>7, <2>8 DEF HashedAs
<1>10. CASE Form(g) \in {"bool", "address"}
  <2>1. m.t = Form(g) /\ f.t = Form(g)
    BY <1>1, <1>10
  <2>2. Eip712Type[f] = Eip(f.t) /\ Signable[m][f]
    BY <1>1, <1>10, <2>1, EipEquations, SignableEquations
  <2> QED BY <1>8, <1>10, <2>1, <2>2
<1>11. CASE Form(g) \in {"text", "struct"}
  <2>1. m.t = Form(g) /\ f.t = Form(g)
    BY <1>1, <1>11
  <2>2. Eip712Type[f] = Eip("string") /\ Signable[m][f]
    BY <1>1, <1>11, <2>1, EipEquations, SignableEquations
  <2> QED BY <1>8, <2>2
<1>12. CASE Form(g) = "vec"
  <2>1. m.t = "vec" /\ f.t = "vec" /\ g.k = "vector"
    BY <1>1, <1>12
  <2>2. g.of \in Children(g)
    BY <2>1 DEF Children
  <2>3. HashedAll(g.of) /\ \A k \in Given(g.of) : k \in Arg
    BY <1>5, <2>2
  <2>4. m.of \in Seq(Given(g.of)) /\ f.of \in Seq(Given(g.of))
    BY <1>1, <2>1
  <2>5. CASE f.of = << >>
    <3>1. Eip712Type[f] = Eip("string") /\ Signable[m][f]
      BY <1>1, <2>1, <2>5, EipEquations, SignableEquations
    <3> QED BY <1>8, <3>1
  <2>6. CASE f.of # << >> /\ m.of = << >>
    <3>1. f.of[1] \in Arg
      BY <2>3, <2>4, <2>6, FirstElement
    <3>2. Eip712Type[f] = ArrayOf(Eip712Type[f.of[1]]) /\ Eip712Type[f.of[1]] \in EipTypes
      BY <1>1, <2>1, <2>6, <3>1, EipEquations, EipTyped
    <3>3. Pushed[m] = <<Brackets>>
      BY <1>1, <2>1, <2>6, PushedForms
    <3>4. Brackets \in Data /\ "xs" \notin DOMAIN Brackets
      <4>1. Brackets \in Data
        BY <1>6, <3>3
      <4>2. "xs" \notin DOMAIN TextOf(Utf8(<<91, 93>>))
        BY DEF TextOf
      <4> QED BY <4>1, <4>2 DEF Brackets
    <3>5. Encoded[Brackets][Eip712Type[f]] = CannotHash
      BY <3>2, <3>4, EncodedEquations
    <3>6. ~Signable[m][f]
      BY <1>1, <2>1, <2>6, SignableEquations
    <3>7. <<Brackets>> # << >> /\ \A y : <<Brackets>> = <<y>> => Brackets = y
      OBVIOUS
    <3> QED BY <3>3, <3>5, <3>6, <3>7 DEF HashedAs
  <2>7. CASE f.of # << >> /\ m.of # << >>
    <3>1. f.of[1] \in Given(g.of)
      BY <2>4, <2>7, FirstElement
    <3>2. \A i \in DOMAIN m.of : InRange[m.of[i]]
      BY <1>1, <2>1, InRangeEquations
    <3>3. \A i \in DOMAIN m.of : m.of[i] \in Given(g.of)
      BY <2>4
    <3>4. \A i \in DOMAIN m.of : HashedAs(m.of[i], f.of[1]) /\ m.of[i] \in Arg
      BY <2>3, <3>1, <3>2, <3>3 DEF HashedAll
    <3>5. f.of[1] \in Arg
      BY <2>3, <3>1
    <3> QED BY <1>1, <2>1, <2>7, <3>4, <3>5, VectorHashed
  <2> QED BY <2>5, <2>6, <2>7
<1>13. CASE Form(g) = "option"
  <2>1. m.t \in {"none", "some"} /\ f.t \in {"none", "some"}
    BY <1>1, <1>3, <1>13
  <2>2. CASE f.t = "none"
    <3>1. Eip712Type[f] = Eip("string") /\ Signable[m][f]
      BY <1>1, <2>1, <2>2, EipEquations, SignableEquations
    <3> QED BY <1>8, <3>1
  <2>3. CASE f.t = "some" /\ m.t = "none"
    <3>1. f.of \in Arg
      BY <2>3, <1>1, <1>5
    <3>2. Eip712Type[f] = ArrayOf(Eip712Type[f.of]) /\ Eip712Type[f.of] \in EipTypes
      BY <1>1, <2>3, <3>1, EipEquations, EipTyped
    <3>3. Pushed[m] = <<ListOf(<< >>)>>
      BY <1>1, <2>3, PushedForms
    <3>4. ListOf(<< >>) \in Data /\ Range(<< >>) = {}
      BY <1>6, <3>3 DEF Range
    <3>5. Encoded[ListOf(<< >>)][Eip712Type[f]] # CannotHash
      BY <3>2, <3>4, EncodedEquations
    <3>6. Signable[m][f]
      BY <1>1, <2>3, SignableEquations
    <3> DEFINE x == ListOf(<< >>)
    <3> HIDE DEF x
    <3>7. <<x>> # << >> /\ \A y : <<x>> = <<y>> => x = y
      OBVIOUS
    <3>8. Pushed[m] = <<x>> /\ Encoded[x][Eip712Type[f]] # CannotHash
      BY <3>3, <3>5 DEF x
    <3> QED BY <3>6, <3>7, <3>8 DEF HashedAs
  <2>4. CASE f.t = "some" /\ m.t = "some"
    <3>1. /\ HashedAll(g.args[1]) /\ g.args[1] \in Children(g)
          /\ m.of \in Given(g.args[1]) /\ f.of \in Given(g.args[1])
      BY <1>1, <2>4
    <3>2. m.of \in Arg /\ f.of \in Arg
      BY <1>5, <3>1
    <3>3. InRange[m.of]
      BY <1>1, <2>4, InRangeEquations
    <3>4. HashedAs(m.of, f.of)
      BY <3>1, <3>3 DEF HashedAll
    <3> QED BY <1>1, <2>4, <3>2, <3>4, SomeHashed
  <2> QED BY <2>1, <2>2, <2>3, <2>4
<1> QED BY <1>2, <1>9, <1>10, <1>11, <1>12, <1>13

LEMMA EverythingHashed == \A g \in Tag : HashedAll(g)
<1> DEFINE T == {n \in Nat : n \in 0..Depth => \A g \in TagLevel[n] : HashedAll(g)}
<1>1. 0 \in T
  <2>1. \A g \in TagLevel[0] : Children(g) = {}
    BY TagShape, DepthAssumption
  <2> QED BY <2>1, HashedStep
<1>2. ASSUME NEW n \in Nat, n \in T PROVE n + 1 \in T
  <2> SUFFICES ASSUME n + 1 \in 0..Depth, NEW g \in TagLevel[n + 1] PROVE HashedAll(g)
    OBVIOUS
  <2>1. n \in 0..Depth /\ (n + 1) - 1 = n
    BY DepthAssumption
  <2>2. \A c \in Children(g) : c \in TagLevel[n]
    BY <2>1, TagShape
  <2>3. \A c \in Children(g) : HashedAll(c)
    BY <2>1, <2>2, <1>2
  <2> QED BY <2>3, HashedStep
<1>3. Nat \subseteq T
  <2> HIDE DEF T
  <2> QED BY <1>1, <1>2, Induction
<1> QED BY <1>3, DepthAssumption DEF Tag

\* The value of an argument in the message is hashed exactly if the argument is signable.
LEMMA ValueHashed ==
  ASSUME NEW g \in Tag, NEW m \in Given(g), InRange[m]
  PROVE  Encoded[Eip712Value(m)][Eip712Type[m]] # CannotHash <=> Signable[m][m]
<1>1. HashedAs(m, m)
  BY EverythingHashed DEF HashedAll
<1>2. Depth \in 0..Depth /\ g \in TagLevel[Depth]
  BY DepthAssumption DEF Tag
<1>3. /\ m \in Arg
      /\ m.t = Form(g) \/ (Form(g) = "option" /\ m.t \in {"none", "some"})
  BY <1>2, GivenShape
<1>4. Form(g) \in {"num", "bool", "address", "vec", "text", "option", "struct"}
  BY DEF Form
<1>5. /\ m.t \in {"refused", "none", "num", "bool", "address", "text", "struct", "vec", "some"}
      /\ m.t = "text" => m.v \in Value
      /\ m.t = "struct" => m.tag \in Tag
  <2>1. m \in ArgLevel[Depth]
    BY <1>3 DEF Arg
  <2> QED BY <1>2, <2>1, ArgKinds
<1>6. m.t \in {"num", "bool", "address", "vec", "some"} => Pushed[m] = <<Eip712Value(m)>>
  <2>1. Pushed[m] = PushedOf(Pushed, m)
    BY <1>3, PushedIs
  <2>2. m.t = "num" => Eip712Value(m) = NumberOf(m.n) /\ PushedOf(Pushed, m) = <<NumberOf(m.n)>>
    BY DEF Eip712Value, PushedOf
  <2>3. m.t \in {"bool", "address"} => Eip712Value(m) = m /\ PushedOf(Pushed, m) = <<m>>
    BY DEF Eip712Value, PushedOf
  <2>4. m.t = "vec" => Eip712Value(m) = AllPushed(Pushed, m)
                       /\ PushedOf(Pushed, m) = <<AllPushed(Pushed, m)>>
    BY DEF Eip712Value, PushedOf, AllPushed
  <2>5. m.t = "some" => Eip712Value(m) = VectorToString(<<Pushed[m.of]>>)
                        /\ PushedOf(Pushed, m) = <<VectorToString(<<Pushed[m.of]>>)>>
    BY DEF Eip712Value, PushedOf
  <2> QED BY <2>1, <2>2, <2>3, <2>4, <2>5
<1>7. CASE m.t \in {"num", "bool", "address", "vec", "some"}
  BY <1>1, <1>6, <1>7 DEF HashedAs
<1>8. CASE m.t \in {"text", "struct", "none"}
  <2>1. Eip712Type[m] = Eip("string") /\ Signable[m][m]
    BY <1>3, <1>8, EipEquations, SignableEquations
  <2>2. /\ m.t = "text" => Eip712Value(m) = TextValue(m.v)
        /\ m.t = "none" => Eip712Value(m) = Brackets
        /\ m.t = "struct" => Eip712Value(m) = TagText(TypeTagToString[m.tag])
    BY DEF Eip712Value
  <2>3. m.t = "struct" => TypeTagToString[m.tag] \in Words
    BY <1>5, TextTyped
  <2>4. Eip712Value(m) \in DataLevel[Depth]
    BY <1>2, <1>5, <1>8, <2>2, <2>3, DataMade
  <2>5. Encoded[Eip712Value(m)][Eip("string")] # CannotHash
    BY <2>4, AtomsHashed DEF Data
  <2> QED BY <2>1, <2>5
<1> QED BY <1>3, <1>4, <1>5, <1>7, <1>8

\* A message can be hashed if its payload and its numbers can.
LEMMA MessageHashed ==
  ASSUME NEW t
  PROVE  SigningMessage(t) # CannotHash
         <=> /\ ~t.agents /\ PayloadMessage(t.payload) # CannotHash
             /\ Encoded[NumberOf(t.max_gas_amount)][Eip("u256")] # CannotHash
<1> DEFINE payload == PayloadMessage(t.payload)
<1> DEFINE gas == Encoded[NumberOf(t.max_gas_amount)][Eip("u256")]
<1> DEFINE whole == [v |-> "message", payload |-> payload, max_gas_amount |-> gas]
<1>1. SigningMessage(t) = IF t.agents \/ payload = CannotHash \/ gas = CannotHash
                          THEN CannotHash ELSE whole
  BY DEF SigningMessage
<1> HIDE DEF payload, gas
<1>2. whole # CannotHash
  BY DEF CannotHash
<1> HIDE DEF whole
<1> QED BY <1>1, <1>2 DEF payload, gas

\* The payload of one argument can be hashed if the argument can.
LEMMA PayloadHashed ==
  ASSUME NEW p, p.kind \in {"entry", "script", "multisig"}
  PROVE  /\ p.kind # "entry" => PayloadMessage(p) # CannotHash
         /\ \A c : p.kind = "entry" /\ p.args = <<c>> =>
              (PayloadMessage(p) # CannotHash
               <=> Encoded[Eip712Value(c)][Eip712Type[c]] # CannotHash)
<1>1. CASE p.kind = "script"
  <2>1. PayloadMessage(p) = ScriptMessage(p)
    BY <1>1 DEF PayloadMessage
  <2> DEFINE texts == Texts(p.ty_args)
  <2>2. ScriptMessage(p) = [v |-> "script", code |-> p.function, tyArgs |-> texts, args |-> p.args]
    BY DEF ScriptMessage
  <2> HIDE DEF texts
  <2>3. ScriptMessage(p) # CannotHash
    BY <2>2 DEF CannotHash
  <2> QED BY <1>1, <2>1, <2>3
<1>2. CASE p.kind = "multisig"
  BY <1>2 DEF PayloadMessage, Zeros, CannotHash
<1>3. ASSUME NEW c, p.kind = "entry", p.args = <<c>>
      PROVE  PayloadMessage(p) # CannotHash
             <=> Encoded[Eip712Value(c)][Eip712Type[c]] # CannotHash
  <2> DEFINE types == [i \in DOMAIN p.args |-> Eip712Type[p.args[i]]]
  <2> DEFINE values == [i \in DOMAIN p.args |-> Encoded[Eip712Value(p.args[i])][types[i]]]
  <2> DEFINE texts == Texts(p.ty_args)
  <2> DEFINE whole == [v |-> "entry", function |-> p.function, tyArgs |-> texts,
                       types |-> types, args |-> values]
  <2> DEFINE only == Encoded[Eip712Value(c)][Eip712Type[c]]
  <2>1. PayloadMessage(p) = EntryMessage(p)
    BY <1>3 DEF PayloadMessage
  <2>2. EntryMessage(p) = IF Hashable(values) THEN whole ELSE CannotHash
    BY DEF EntryMessage
  <2>3. DOMAIN p.args = {1} /\ p.args[1] = c
    BY <1>3
  <2>4. DOMAIN values = {1} /\ values[1] = only
    BY <2>3
  <2> HIDE DEF types, values, texts, only
  <2>5. whole # CannotHash
    BY DEF CannotHash
  <2> HIDE DEF whole
  <2>6. Hashable(values) <=> only # CannotHash
    BY <2>4 DEF Hashable, Range
  <2> QED BY <2>1, <2>2, <2>5, <2>6 DEF only
<1> QED BY <1>1, <1>2, <1>3

\* What the transaction of a builder is made of.
Authored ==
  stage \in {"built", "signed"} =>
    /\ txn.agents \in BOOLEAN /\ txn.max_gas_amount \in Nat
    /\ txn.payload.kind \in {"entry", "script", "multisig"}
    /\ txn.payload.kind = "entry" =>
         parsed.tag \in Tag /\ \E c \in Given(parsed.tag) : txn.payload.args = <<c>>

\* What a payload is made of, if it is not refused.
LEMMA PayloadMade ==
  ASSUME NEW kind \in Kinds, NEW func, NEW types, NEW args, NEW v \in Value,
         args = <<v>> \/ Len(args) # 1, Payload(kind, func, types, args) # Refused
  PROVE  /\ Payload(kind, func, types, args).kind = kind
         /\ kind = "entry" =>
              \E c \in Given(parsed.tag) : Payload(kind, func, types, args).args = <<c>>
<1> DEFINE p == Payload(kind, func, types, args)
<1> DEFINE converted == Converted(kind, args)
<1> DEFINE ty_args == [i \in DOMAIN types |-> ParseTypeTag(Texts(types)[i], << >>)]
<1> DEFINE tags == [i \in DOMAIN types |-> ty_args[i].tag]
<1> DEFINE bad == \/ func \notin abiMap \/ Refused \in Range(converted)
                  \/ \E i \in DOMAIN types : ~ty_args[i].ok
<1>1. kind \in {"entry", "script", "multisig"}
  BY PayloadsAssumption
<1>2. p = IF bad THEN Refused
          ELSE IF kind = "script" THEN ScriptPayload(func, tags, converted)
          ELSE IF kind = "entry" THEN EntryPayload(func, tags, converted)
          ELSE MultisigPayload(EntryPayload(func, tags, converted))
  BY DEF Payload
<1>3. bad => p = Refused
  <2> HIDE DEF bad, tags, converted
  <2> QED BY <1>2
<1>4. Refused \notin Range(converted)
  BY <1>3
<1>5. p = IF kind = "script" THEN ScriptPayload(func, tags, converted)
          ELSE IF kind = "entry" THEN EntryPayload(func, tags, converted)
          ELSE MultisigPayload(EntryPayload(func, tags, converted))
  <2> HIDE DEF bad, tags, converted
  <2>1. ~bad
    BY <1>3
  <2> QED BY <1>2, <2>1
<1> HIDE DEF tags
<1>6. p.kind = kind
  <2> HIDE DEF converted
  <2> QED BY <1>1, <1>5 DEF ScriptPayload, EntryPayload, MultisigPayload
<1>7. ASSUME kind = "entry" PROVE \E c \in Given(parsed.tag) : p.args = <<c>>
  <2> DEFINE c == ToEntryFunctionArgument[parsed.tag][v]
  <2>1. Range(<<Refused>>) = {Refused}
    BY DEF Range
  <2>2. Len(args) = 1
    BY <1>4, <2>1 DEF Converted
  <2>3. args = <<v>>
    BY <2>2
  <2>4. converted = <<c>>
    BY <1>7, <2>3 DEF Converted
  <2> HIDE DEF c
  <2>5. Range(<<c>>) = {c}
    BY DEF Range
  <2>6. c # Refused
    BY <1>4, <2>4, <2>5
  <2>7. c \in Given(parsed.tag)
    BY <2>6 DEF Given, c
  <2>8. p.args = <<c>>
    BY <1>5, <1>7, <2>4 DEF EntryPayload
  <2> QED BY <2>7, <2>8
<1> HIDE DEF p
<1> QED BY <1>6, <1>7 DEF p

\* A transaction stays what its builder made it.
LEMMA AuthoredInvariant == Spec => []Authored
<1>1. Init => Authored
  BY DEF Init, Authored
<1>2. ASSUME Traced, Authored, [Next]_vars PROVE Authored'
  <2>1. CASE Parse
    BY <2>1 DEF Parse, Authored
  <2>2. ASSUME NEW names \in NameLists, Construct(names) PROVE Authored'
    BY <2>2 DEF Construct, Authored
  <2>3. ASSUME NEW kind \in Kinds, NEW v \in Offered, NEW o \in Variations,
               Build(kind, "f", [i \in 1..o.args |-> v], o.gas, o.agents)
        PROVE  Authored'
    <3> SUFFICES ASSUME stage' \in {"built", "signed"} PROVE Authored'
      BY DEF Authored
    <3> DEFINE args == [i \in 1..o.args |-> v]
    <3> DEFINE p == Payload(kind, "f", tyArgs, args)
    <3>1. o.args \in {1, 2} /\ o.gas \in Nat /\ o.agents \in BOOLEAN
      BY PayloadsAssumption
    <3>2. args = <<v>> \/ Len(args) # 1
      BY <3>1
    <3> HIDE DEF args
    <3>3. /\ stage = "builder" /\ parsed' = parsed
          /\ txn' = Transaction(p, o.gas, o.agents)
          /\ stage' = IF txn' = Refused THEN "refused" ELSE "built"
      BY <2>3, Zenon DEF Build, args
    <3>4. parsed.tag \in Tag /\ v \in Value
      <4>1. PICK c \in Calls : typ = c.text /\ tyArgs = c.tyArgs
        BY <1>2 DEF Traced
      <4>2. parsed = ParseTypeTag(c.text, Texts(c.tyArgs)) /\ parsed.ok
        BY <1>2, <3>3, <4>1 DEF Traced, HasTag
      <4>3. ValuesOf(parsed.tag) \subseteq Value /\ parsed.tag \in Tag
        BY <4>2, PayloadsAssumption
      <4> QED BY <3>3, <4>3 DEF Offered
    <3> HIDE DEF p
    <3>5. p # Refused /\ txn' = [payload |-> p, max_gas_amount |-> o.gas, agents |-> o.agents]
      BY <3>3 DEF Transaction
    <3>6. /\ p.kind = kind
          /\ kind = "entry" => \E c \in Given(parsed.tag) : p.args = <<c>>
      BY <3>2, <3>4, <3>5, PayloadMade DEF p
    <3>7. kind \in {"entry", "script", "multisig"}
      BY PayloadsAssumption
    <3>8. txn'.payload = p /\ txn'.max_gas_amount = o.gas /\ txn'.agents = o.agents
      BY <3>5
    <3>9. Given(parsed'.tag) = Given(parsed.tag) /\ parsed'.tag = parsed.tag
      BY <3>3
    <3> QED BY <3>1, <3>4, <3>6, <3>7, <3>8, <3>9 DEF Authored, Given
  <2>4. ASSUME NEW v, NEW types, BuildRival(v, types) PROVE Authored'
    BY <1>2, <2>4 DEF BuildRival, Authored, Given
  <2>5. ASSUME NEW v \in PropertyTexts, WriteProperty(v) PROVE Authored'
    BY <2>5 DEF WriteProperty, Authored
  <2>6. CASE ReadBack
    BY <2>6 DEF ReadBack, Authored
  <2>7. CASE UNCHANGED vars
    BY <1>2, <2>7 DEF vars, Authored, Given
  <2> QED BY <1>2, <2>1, <2>2, <2>3, <2>4, <2>5, <2>6, <2>7 DEF Next
<1> QED BY <1>1, <1>2, TracedInvariant, PTL DEF Spec

\* For types and values nested to any depth: which transactions a single key signs
\* (getEip712SigningMessage and rawToSigned, builder.ts).
THEOREM SignedIff == Spec => []SignedExactly
<1>1. Authored => SignedExactly
  <2> SUFFICES ASSUME Authored, stage \in {"built", "signed"} PROVE SignedExactly
    BY DEF SignedExactly
  <2> DEFINE p == txn.payload
  <2> DEFINE gas == txn.max_gas_amount
  <2>1. /\ gas \in Nat /\ p.kind \in {"entry", "script", "multisig"}
        /\ p.kind = "entry" =>
             parsed.tag \in Tag /\ \E c \in Given(parsed.tag) : p.args = <<c>>
    BY DEF Authored
  <2>2. Signed(txn) # CannotHash <=> SigningMessage(txn) # CannotHash /\ Serializable(txn)
    BY DEF Signed
  <2>3. Serializable(txn) =>
          (Encoded[NumberOf(gas)][Eip("u256")] # CannotHash <=> gas <= SafeMax)
    <3> SUFFICES ASSUME Serializable(txn)
                 PROVE  Encoded[NumberOf(gas)][Eip("u256")] # CannotHash <=> gas <= SafeMax
      OBVIOUS
    <3>1. gas \in 0..U64Max
      BY DEF Serializable
    <3>2. "u256" \in DOMAIN Limit /\ Limit["u256"] = U256Max
      BY SMTT(30) DEF Limit
    <3>3. gas \in 0..Limit["u256"]
      <4> HIDE DEF gas
      <4>1. U64Max \in Nat /\ U256Max \in Nat /\ U64Max <= U256Max
        BY DEF U64Max, U256Max
      <4>2. gas \in 0..U256Max
        BY <3>1, <4>1
      <4> QED BY <3>2, <4>2, Zenon
    <3> QED BY <3>2, <3>3, NumbersHashed
  <2>4. p.kind # "entry" => PayloadMessage(p) # CannotHash
    BY <2>1, PayloadHashed
  <2>5. ASSUME p.kind = "entry", Serializable(txn)
        PROVE  PayloadMessage(p) # CannotHash
               <=> \A i \in DOMAIN p.args : Signable[p.args[i]][p.args[i]]
    <3>1. PICK c \in Given(parsed.tag) : p.args = <<c>>
      BY <2>1, <2>5
    <3>2. DOMAIN p.args = {1} /\ p.args[1] = c
      BY <3>1
    <3>3. InRange[c]
      BY <2>5, <3>2 DEF Serializable
    <3>4. Encoded[Eip712Value(c)][Eip712Type[c]] # CannotHash <=> Signable[c][c]
      BY <2>1, <2>5, <3>3, ValueHashed
    <3>5. PayloadMessage(p) # CannotHash <=> Signable[c][c]
      BY <2>1, <2>5, <3>1, <3>4, PayloadHashed
    <3> QED BY <3>2, <3>5
  <2>6. SigningMessage(txn) # CannotHash
        <=> /\ ~txn.agents /\ PayloadMessage(p) # CannotHash
            /\ Encoded[NumberOf(gas)][Eip("u256")] # CannotHash
    BY MessageHashed
  <2> QED BY <2>2, <2>3, <2>4, <2>5, <2>6 DEF SignedExactly
<1> QED BY <1>1, AuthoredInvariant, PTL

(***************************************************************************)
(* The recursive functions over the types the node writes                  *)
(***************************************************************************)

VisibleInside(f, g) == UNION {f[a] : a \in Range(g.args)}

VisibleOf(f, g) ==
    {g} \cup CASE g.k = "vector" -> f[g.of]
               [] g.k = "struct" /\ ~NamedObject(g) -> VisibleInside(f, g)
               [] OTHER -> {}

LEMMA VisibleLocal ==
  ASSUME NEW f, NEW h, NEW g \in Tag, \A c \in Children(g) : f[c] = h[c]
  PROVE  VisibleOf(f, g) = VisibleOf(h, g)
<1>1. g.k = "struct" => VisibleInside(f, g) = VisibleInside(h, g)
  BY DEF Children, VisibleInside, Range
<1>2. g.k = "vector" => f[g.of] = h[g.of]
  BY DEF Children
<1> QED BY <1>1, <1>2 DEF VisibleOf

LEMMA VisibleIs == \A g \in Tag : Visible[g] = VisibleOf(Visible, g)
<1> DEFINE T == {n \in Nat : n \in 0..Depth => \E f : f = [g \in TagLevel[n] |-> VisibleOf(f, g)]}
<1>1. ASSUME NEW n \in 0..Depth,
             \E f : \A g \in TagLevel[n] : \A c \in Children(g) : f[c] = VisibleOf(f, c)
      PROVE  \E f : f = [g \in TagLevel[n] |-> VisibleOf(f, g)]
  <2>1. PICK f : \A g \in TagLevel[n] : \A c \in Children(g) : f[c] = VisibleOf(f, c)
    BY <1>1
  <2> DEFINE h == [g \in TagLevel[n] |-> VisibleOf(f, g)]
  <2>2. ASSUME NEW g \in TagLevel[n] PROVE h[g] = VisibleOf(h, g)
    <3>1. \A c \in Children(g) : c \in TagLevel[n]
      BY TagShape
    <3>2. \A c \in Children(g) : f[c] = h[c]
      BY <3>1, <2>1
    <3>3. g \in Tag
      BY TagsNested
    <3> HIDE DEF h
    <3>4. VisibleOf(f, g) = VisibleOf(h, g)
      BY <3>2, <3>3, VisibleLocal
    <3> QED BY <3>4 DEF h
  <2>3. h = [g \in TagLevel[n] |-> VisibleOf(h, g)]
    BY <2>2, Zenon
  <2> HIDE DEF h
  <2> QED BY <2>3
<1>2. 0 \in T
  <2>1. \A g \in TagLevel[0] : Children(g) = {}
    BY TagShape, DepthAssumption
  <2> QED BY <2>1, <1>1
<1>3. ASSUME NEW n \in Nat, n \in T PROVE n + 1 \in T
  <2> SUFFICES ASSUME n + 1 \in 0..Depth
               PROVE  \E f : f = [g \in TagLevel[n + 1] |-> VisibleOf(f, g)]
    OBVIOUS
  <2>1. n \in 0..Depth
    BY DepthAssumption
  <2>2. PICK f : f = [g \in TagLevel[n] |-> VisibleOf(f, g)]
    BY <2>1, <1>3
  <2>3. ASSUME NEW g \in TagLevel[n + 1], NEW c \in Children(g) PROVE c \in TagLevel[n]
    <3>1. c \in TagLevel[(n + 1) - 1]
      BY TagShape
    <3>2. (n + 1) - 1 = n
      OBVIOUS
    <3> QED BY <3>1, <3>2
  <2>4. \A c \in TagLevel[n] : f[c] = VisibleOf(f, c)
    BY <2>2
  <2> QED BY <2>3, <2>4, <1>1
<1>4. Depth \in T
  <2> HIDE DEF T
  <2> QED BY <1>2, <1>3, Induction, DepthAssumption
<1>5. \E f : f = [g \in Tag |-> VisibleOf(f, g)]
  BY <1>4, DepthAssumption DEF Tag
<1>6. Visible = [g \in Tag |-> VisibleOf(Visible, g)]
  BY <1>5 DEF Visible, VisibleOf, VisibleInside
<1> QED BY <1>6, Zenon

(***************************************************************************)
(* The texts of the node                                                   *)
(***************************************************************************)

\* What the parser makes of the name of a struct, and of what follows it.
LEMMA StructRead ==
  ASSUME NEW given, NEW g \in Tag, g.k = "struct", {g.module, g.name} \cap Punctuation = {},
         NEW u \in Words
  PROVE  LET p == Parser(given)[<<g.address, "::", g.module, "::", g.name>> \o u]["tag"]
             args == StructArguments(Parser(given), SkipObjectArgument(g.module, g.name, u))
         IN /\ ~Readable(g) => p = Invalid
            /\ Readable(g) => p = IF args.ok THEN Parsed([g EXCEPT !.args = args.tags], args.rest)
                                  ELSE Invalid
<1> DEFINE R == Parser(given)
<1> DEFINE m == g.module
<1> DEFINE c == g.name
<1> DEFINE w == g.address
<1> DEFINE t == <<w, "::", m, "::", c>> \o u
<1> DEFINE rest == Tail(t)
<1> DEFINE args == StructArguments(R, SkipObjectArgument(m, c, u))
<1>1. /\ w \in Addresses /\ w \in STRING /\ m \in STRING /\ c \in STRING
      /\ g = [k |-> "struct", address |-> w, module |-> m, name |-> c, args |-> g.args]
  BY WholeTag
<1>2. /\ t \in Words /\ t # << >> /\ Head(t) = w /\ rest \in Words
      /\ Len(rest) >= 4 /\ rest[1] = "::" /\ rest[2] = m /\ rest[3] = "::" /\ rest[4] = c
      /\ SubSeq(rest, 5, Len(rest)) = u
  <2>1. "::" \in STRING
    BY SomeWords
  <2> HIDE DEF m, c, w
  <2> QED BY <1>1, <2>1, FiveWords
<1>3. R[t]["tag"] = ParseStruct(R, w, rest)
  <2>1. R[t]["tag"] = ParseTag(R, given, t)
    BY <1>2, ParserMeets
  <2> HIDE DEF R, t, w
  <2> QED BY <2>1, <1>1, <1>2, TagEquations
<1>4. Readable(g) <=> Kind(m) = "IDENT" /\ Kind(c) = "IDENT"
  <2>1. Readable(g) <=> m \notin DOMAIN GenericIndex /\ c \notin DOMAIN GenericIndex
    BY DEF Readable
  <2>2. m \notin Punctuation /\ c \notin Punctuation
    OBVIOUS
  <2> HIDE DEF m, c
  <2> QED BY <2>1, <2>2 DEF Kind
<1> HIDE DEF rest, t, m, c, w
<1> DEFINE name == StructName(rest)
<1>5. IF Readable(g) THEN name = Parsed(<<m, c>>, u) ELSE name = Invalid
  BY <1>2, <1>4 DEF StructName
<1>6. CASE ~Readable(g)
  <2>1. ~name.ok
    BY <1>5, <1>6, Outcomes
  <2>2. ParseStruct(R, w, rest) = Invalid
    BY <2>1 DEF ParseStruct
  <2> QED BY <1>3, <1>6, <2>2 DEF t, w, m, c
<1>7. CASE Readable(g)
  <2>1. name.ok /\ name.tag = <<m, c>> /\ name.rest = u
    <3>1. name = Parsed(<<m, c>>, u)
      BY <1>5, <1>7
    <3> HIDE DEF name
    <3> QED BY <3>1, Outcomes
  <2>2. name.tag[1] = m /\ name.tag[2] = c
    <3> HIDE DEF name
    <3> QED BY <2>1
  <2> DEFINE made(a) == [Struct(m, c, a) EXCEPT !.address = w]
  <2>3. ParseStruct(R, w, rest) = IF args.ok THEN Parsed(made(args.tags), args.rest) ELSE Invalid
    <3> DEFINE A == StructArguments(R, SkipObjectArgument(name.tag[1], name.tag[2], name.rest))
    <3>1. A = args
      BY <2>1, <2>2
    <3>2. ParseStruct(R, w, rest)
            = IF name.ok /\ A.ok
              THEN Parsed([Struct(name.tag[1], name.tag[2], A.tags) EXCEPT !.address = w], A.rest)
              ELSE Invalid
      BY DEF ParseStruct
    <3> HIDE DEF name, A, args
    <3> QED BY <2>1, <2>2, <3>1, <3>2
  <2>4. \A a : made(a) = [g EXCEPT !.args = a]
    <3> TAKE a
    <3>1. made(a) = [k |-> "struct", address |-> w, module |-> m, name |-> c, args |-> a]
      BY DEF Struct
    <3>2. [g EXCEPT !.args = a] = [k |-> "struct", address |-> w, module |-> m, name |-> c, args |-> a]
      <4> DEFINE h == [k |-> "struct", address |-> w, module |-> m, name |-> c, args |-> g.args]
      <4>1. g = h
        BY <1>1 DEF w, m, c
      <4>2. [h EXCEPT !.args = a] = [k |-> "struct", address |-> w, module |-> m, name |-> c, args |-> a]
        OBVIOUS
      <4> HIDE DEF h
      <4> QED BY <4>1, <4>2
    <3> QED BY <3>1, <3>2
  <2> HIDE DEF made, args, R
  <2>5. R[t]["tag"] = IF args.ok THEN Parsed([g EXCEPT !.args = args.tags], args.rest) ELSE Invalid
    BY <1>3, <2>3, <2>4
  <2> QED BY <1>7, <2>5 DEF t, w, m, c, args, R
<1> QED BY <1>6, <1>7

\* All that is visible in a type can be read where it stands inside another.
Inside(g) == \A h \in Visible[g] :
               Readable(h) /\ (NamedObject(h) => Len(NodeText[h.args[1]]) = 1)

LEMMA InsideIs ==
  ASSUME NEW g \in Tag
  PROVE  /\ g.k = "vector" => (Inside(g) <=> Inside(g.of)) /\ (Parsable(g) <=> Inside(g))
         /\ g.k = "struct" /\ ~NamedObject(g) =>
              /\ Inside(g) <=> Readable(g) /\ \A i \in DOMAIN g.args : Inside(g.args[i])
              /\ Parsable(g) <=> Inside(g)
         /\ NamedObject(g) => /\ Inside(g) <=> Readable(g) /\ Len(NodeText[g.args[1]]) = 1
                              /\ Parsable(g) <=> Readable(g)
         /\ g.k \notin {"struct", "vector"} => /\ Inside(g) <=> g.k # "signer"
                                               /\ Parsable(g) <=> Inside(g)
<1>1. Visible[g] = VisibleOf(Visible, g)
  BY VisibleIs
<1>2. NamedObject(g) => g.k = "struct"
  BY DEF NamedObject
<1>3. ~NamedObject(g) => (Parsable(g) <=> Inside(g))
  BY DEF Parsable, Inside
<1>4. CASE g.k = "vector"
  <2>1. Visible[g] = {g} \cup Visible[g.of]
    BY <1>1, <1>4 DEF VisibleOf
  <2>2. Readable(g) /\ ~NamedObject(g)
    BY <1>4 DEF Readable, NamedObject
  <2> QED BY <1>2, <1>3, <1>4, <2>1, <2>2 DEF Inside
<1>5. CASE g.k = "struct" /\ ~NamedObject(g)
  <2>1. Visible[g] = {g} \cup UNION {Visible[a] : a \in Range(g.args)}
    BY <1>1, <1>5 DEF VisibleOf, VisibleInside
  <2>2. Range(g.args) = {g.args[i] : i \in DOMAIN g.args}
    BY DEF Range
  <2>3. \A h : h \in Visible[g] <=> h = g \/ \E i \in DOMAIN g.args : h \in Visible[g.args[i]]
    BY <2>1, <2>2
  <2>4. Inside(g) <=> Readable(g) /\ \A i \in DOMAIN g.args : Inside(g.args[i])
    BY <2>3, <1>5 DEF Inside
  <2> QED BY <1>3, <1>5, <2>4
<1>6. CASE NamedObject(g)
  <2>1. Visible[g] = {g}
    BY <1>1, <1>2, <1>6 DEF VisibleOf
  <2>2. g.k = "struct"
    BY <1>2, <1>6
  <2> QED BY <1>6, <2>1, <2>2 DEF Inside, Parsable
<1>7. CASE g.k \notin {"struct", "vector"}
  <2>1. Visible[g] = {g}
    BY <1>1, <1>7 DEF VisibleOf
  <2>2. ~NamedObject(g) /\ (Readable(g) <=> g.k # "signer")
    BY <1>7 DEF NamedObject, Readable
  <2> QED BY <1>3, <1>7, <2>1, <2>2 DEF Inside
<1> QED BY <1>2, <1>4, <1>5, <1>6, <1>7

\* What the parser makes of the text of a type, before anything that ends it.
NodeReads(R, g, r) ==
  LET p == R[NodeText[g] \o r]["tag"]
  IN /\ Inside(g) => p = Parsed(Erased[g], r)
     /\ ~Inside(g) => Misses(p)
     /\ ~Inside(g) /\ ~NamedObject(g) => ~p.ok
     /\ NamedObject(g) => (p.ok <=> Readable(g)) /\ (p.ok => p.tag = Erased[g])

LEMMA LeafRead ==
  ASSUME NEW given, NEW g \in Tag, OnChain[g], g.k \notin {"struct", "vector"}, NEW r \in Words
  PROVE  NodeReads(Parser(given), g, r)
<1> DEFINE R == Parser(given)
<1> DEFINE t == <<g.k>> \o r
<1> DEFINE p == R[t]["tag"]
<1>1. g.k \in STRING /\ g.k \in Primitives \cup {"signer"}
  <2>1. OnChain[g] = OnChainOf(OnChain, g)
    BY OnChainIs
  <2> QED BY <2>1, WholeTag DEF OnChainOf
<1>2. NodeText[g] = <<g.k>>
  <2>1. NodeText[g] = NodeOf(NodeText, g)
    BY NodeIs
  <2> QED BY <2>1 DEF NodeOf
<1>3. Erased[g] = g
  <2>1. Erased[g] = ErasedOf(Erased, g)
    BY ErasedIs
  <2> QED BY <2>1 DEF ErasedOf
<1>4. t \in Words /\ t # << >> /\ Head(t) = g.k /\ Tail(t) = r
  BY <1>1, FirstWord
<1>5. p = ParseTag(R, given, t)
  BY <1>4, ParserMeets
<1>6. Inside(g) <=> g.k # "signer"
  <2>1. g.k \notin {"struct", "vector"} => (Inside(g) <=> g.k # "signer")
    BY InsideIs, Zenon
  <2> QED BY <2>1
<1>7. ~NamedObject(g)
  BY DEF NamedObject
<1> HIDE DEF R, t
<1>8. CASE g.k \in Primitives
  <2>1. p = Parsed(Prim(g.k), r)
    BY <1>4, <1>5, <1>8, TagEquations
  <2>2. Prim(g.k) = g
    <3>1. g \in TagLevel[Depth]
      BY DEF Tag
    <3>2. g = [k |-> g.k]
      <4>1. Depth \in 0..Depth
        BY DepthAssumption
      <4>2. g \in TagsOver(Inner(TagLevel, Depth))
        BY <3>1, <4>1, TagLevels
      <4> DEFINE inner == Inner(TagLevel, Depth)
      <4> DEFINE args == Seq(inner)
      <4> HIDE DEF inner
      <4>3. TagsOver(inner) = [k : STRING \ {"vector", "struct"}] \cup [k : {"vector"}, of : inner]
        \cup [k : {"struct"}, address : Addresses, module : STRING, name : STRING, args : args]
        BY Zenon DEF TagsOver, args
      <4> HIDE DEF args
      <4>4. g \in [k : STRING \ {"vector", "struct"}]
        BY <4>2, <4>3 DEF inner
      <4> QED BY <4>4
    <3> QED BY <3>2, Zenon DEF Prim
  <2>3. g.k # "signer"
    BY <1>8 DEF Primitives
  <2> QED BY <1>2, <1>3, <1>6, <1>7, <2>1, <2>2, <2>3 DEF NodeReads, t, R
<1>9. CASE g.k = "signer"
  <2>1. /\ g.k \notin Primitives /\ g.k # "vector" /\ g.k # "string" /\ g.k \notin Addresses
        /\ Kind(g.k) # "GENERIC"
    <3>1. g.k \notin DOMAIN GenericIndex
      BY <1>9, GenericAssumption
    <3>2. g.k \notin Primitives /\ g.k # "vector" /\ g.k # "string" /\ g.k \notin Addresses
      BY <1>9 DEF Primitives, Addresses
    <3> QED BY <3>1, <3>2 DEF Kind
  <2>2. p = Invalid
    BY <1>4, <1>5, <2>1, TagEquations
  <2>3. ~p.ok /\ Misses(p)
    BY <2>2, Outcomes DEF Misses
  <2> QED BY <1>2, <1>6, <1>7, <1>9, <2>3 DEF NodeReads, t, R
<1> QED BY <1>1, <1>8, <1>9

LEMMA VectorRead ==
  ASSUME NEW given, NEW g \in Tag, g.k = "vector", NEW r \in Words,
         NodeReads(Parser(given), g.of, <<">">> \o r)
  PROVE  NodeReads(Parser(given), g, r)
<1> DEFINE R == Parser(given)
<1> DEFINE x == NodeText[g.of]
<1> DEFINE close == <<">">> \o r
<1> DEFINE p == R[NodeText[g] \o r]["tag"]
<1> DEFINE q == R[x \o close]["tag"]
<1> DEFINE of == Erased[g.of]
<1>1. x \in Words
  BY WholeTag, NodeTyped
<1>2. NodeText[g] = (<<"vector", "<">> \o x) \o <<">">>
  <2>1. NodeText[g] = NodeOf(NodeText, g)
    BY NodeIs
  <2> QED BY <2>1 DEF NodeOf
<1>3. /\ Inside(g.of) => q = Parsed(of, close)
      /\ ~Inside(g.of) => Misses(q)
  BY DEF NodeReads
<1>4. Erased[g] = Vector(of)
  <2>1. Erased[g] = ErasedOf(Erased, g)
    BY ErasedIs
  <2> QED BY <2>1 DEF ErasedOf
<1>5. /\ q = Parsed(of, close) => p = Parsed(Vector(of), r)
      /\ Misses(q) => p = Invalid
  <2> HIDE DEF x, of
  <2> QED BY <1>1, <1>2, VectorParsed
<1>6. Inside(g) <=> Inside(g.of)
  BY InsideIs
<1>7. ~NamedObject(g)
  BY DEF NamedObject
<1> HIDE DEF p, q, of, close
<1>8. /\ Inside(g) => p = Parsed(Erased[g], r)
      /\ ~Inside(g) => ~p.ok /\ Misses(p)
  BY <1>3, <1>4, <1>5, <1>6, Outcomes DEF Misses
<1> QED BY <1>7, <1>8 DEF NodeReads, p, R

\* A struct that is no Object, with its arguments.
LEMMA StructCase ==
  ASSUME NEW given, NEW g \in Tag, g.k = "struct", {g.module, g.name} \cap Punctuation = {},
         ~NamedObject(g), NEW r \in Words, Ends(r), NEW S, NEW es \in Seq(S), NEW n, n = Len(es),
         NEW good, NEW u, Follows(Parser(given), u, r, n, es, good)
  PROVE  LET p == Parser(given)[<<g.address, "::", g.module, "::", g.name>> \o u]["tag"]
         IN p = IF Readable(g) /\ 1..n \subseteq good THEN Parsed([g EXCEPT !.args = es], r) ELSE Invalid
<1> DEFINE R == Parser(given)
<1> DEFINE a == StructArguments(R, u)
<1> DEFINE five == <<g.address, "::", g.module, "::", g.name>>
<1> DEFINE p == R[five \o u]["tag"]
<1>1. u \in Words /\ IF 1..n \subseteq good THEN a = ParsedList(es, r) ELSE ~a.ok
  BY ArgumentsRead
<1>2. SkipObjectArgument(g.module, g.name, u) = u
  BY DEF SkipObjectArgument, NamedObject
<1> DEFINE b == StructArguments(R, SkipObjectArgument(g.module, g.name, u))
<1>3. /\ ~Readable(g) => p = Invalid
      /\ Readable(g) => p = IF b.ok THEN Parsed([g EXCEPT !.args = b.tags], b.rest) ELSE Invalid
  BY <1>1, StructRead
<1>4. b = a
  BY <1>2
<1> HIDE DEF b, a, p
<1>5. CASE 1..n \subseteq good
  <2>1. a.ok /\ a.tags = es /\ a.rest = r
    BY <1>1, <1>5, Outcomes
  <2>2. Readable(g) => p = Parsed([g EXCEPT !.args = es], r)
    BY <1>3, <1>4, <2>1
  <2> QED BY <1>3, <1>5, <2>2 DEF p, R, five
<1>6. CASE ~(1..n \subseteq good)
  <2>1. ~a.ok
    BY <1>1, <1>6
  <2>2. p = Invalid
    BY <1>3, <1>4, <2>1
  <2> QED BY <1>6, <2>2 DEF p, R, five
<1> QED BY <1>5, <1>6

LEMMA StructNodeRead ==
  ASSUME NEW given, NEW g \in Tag, g.k = "struct", ~NamedObject(g), OnChain[g],
         NEW r \in Words, Ends(r),
         \A i \in DOMAIN g.args : \A q \in Words : Ends(q) => NodeReads(Parser(given), g.args[i], q)
  PROVE  NodeReads(Parser(given), g, r)
<1> DEFINE R == Parser(given)
<1> DEFINE n == Len(g.args)
<1> DEFINE u == NodeArguments(NodeText, g) \o r
<1> DEFINE five == <<g.address, "::", g.module, "::", g.name>>
<1> DEFINE S == {Erased[h] : h \in Tag}
<1> DEFINE es == [i \in DOMAIN g.args |-> Erased[g.args[i]]]
<1> DEFINE good == {i \in 1..n : Inside(g.args[i])}
<1> DEFINE x == [i \in 1..n |-> NodeText[g.args[i]]]
<1>1. g.args \in Seq(Tag)
  BY WholeTag
<1>2. n \in Nat /\ DOMAIN g.args = 1..n
  BY <1>1
<1>3. es \in Seq(S) /\ Len(es) = n /\ \A i \in 1..n : es[i] = Erased[g.args[i]]
  <2>1. es \in Seq(S)
    BY <1>1, SequenceMade
  <2>2. Len(es) = n
    BY <1>2
  <2> QED BY <1>2, <2>1, <2>2
<1>4. /\ {g.module, g.name} \cap Punctuation = {}
      /\ \A i \in 1..n : OnChain[g.args[i]] /\ g.args[i] \in Tag
  <2>1. /\ {g.module, g.name} \cap Punctuation = {}
        /\ \A i \in DOMAIN g.args : OnChain[g.args[i]] /\ g.args[i] \in Tag
    BY OnChainParts
  <2> QED BY <1>2, <2>1
<1>5. \A i \in 1..n : x[i] \in Words /\ x[i] # << >> /\ ~Starts(x[i], ">")
  <2> SUFFICES ASSUME NEW i \in 1..n PROVE x[i] \in Words /\ x[i] # << >> /\ ~Starts(x[i], ">")
    OBVIOUS
  <2> DEFINE t == NodeText[g.args[i]]
  <2>1. t \in Words /\ t # << >> /\ Head(t) \notin Punctuation
    BY <1>4, NodeHead
  <2> HIDE DEF t
  <2>2. x[i] = t
    BY DEF t
  <2> QED BY <2>1, <2>2 DEF Starts, Punctuation
<1>6. Follows(R, u, r, n, es, good)
  <2>1. CASE g.args = << >>
    <3>1. n = 0 /\ NodeArguments(NodeText, g) = << >>
      BY <2>1 DEF NodeArguments
    <3>2. u = r
      BY <3>1, Concatenated
    <3> QED BY <3>1, <3>2 DEF Follows
  <2>2. CASE g.args # << >>
    <3> HIDE DEF x, es, R, n
    <3>1. ArgumentTexts(n, x, NodeText, g)
      <4>1. \A i \in 1..n : x[i] = NodeText[g.args[i]]
        BY DEF x
      <4>2. x = [i \in 1..n |-> x[i]]
        BY DEF x
      <4>3. x \in [1..n -> Words]
        <5> HIDE DEF Words
        <5> QED BY <4>2, <1>5
      <4>4. n = Len(g.args)
        BY DEF n
      <4> QED BY <4>1, <4>3, <4>4, <2>2, <1>1, <1>5 DEF ArgumentTexts
    <3>2. PICK s : /\ Listed(n, x, s, <<">">> \o r) /\ u = <<"<">> \o (x[1] \o s[1])
      <4>1. Spelled(n, x, u, r)
        BY <3>1, NodeListed
      <4> HIDE DEF u
      <4> QED BY <4>1 DEF Spelled
    <3>3. ASSUME NEW i \in 1..n
          PROVE  LET p == R[x[i] \o s[i]]["tag"]
                 IN IF i \in good THEN p = Parsed(es[i], s[i]) ELSE Misses(p)
      <4>1. s[i] \in Words /\ Ends(s[i])
        BY <3>2, ListedEnds
      <4>2. NodeReads(R, g.args[i], s[i])
        BY <4>1, <1>2 DEF R
      <4>3. x[i] = NodeText[g.args[i]] /\ es[i] = Erased[g.args[i]]
        BY <3>1, <1>3 DEF ArgumentTexts
      <4>4. i \in good <=> Inside(g.args[i])
        OBVIOUS
      <4> HIDE DEF good
      <4> QED BY <4>2, <4>3, <4>4 DEF NodeReads
    <3>4. ReadAs(R, n, x, s, es, good)
      BY <3>3 DEF ReadAs
    <3> QED BY <3>2, <3>4 DEF Follows
  <2> QED BY <2>1, <2>2
<1>7. NodeText[g] \o r = five \o u
  <2>1. u = NodeArguments(NodeText, g) \o r
    OBVIOUS
  <2> HIDE DEF u
  <2> QED BY <2>1, StructSpelled
<1> DEFINE p == R[five \o u]["tag"]
<1>8. p = IF Readable(g) /\ 1..n \subseteq good THEN Parsed([g EXCEPT !.args = es], r) ELSE Invalid
  <2> HIDE DEF es, good, u, S
  <2>1. n = Len(es)
    BY <1>3
  <2> HIDE DEF n
  <2> QED BY <1>3, <1>4, <1>6, <2>1, StructCase
<1>9. Erased[g] = [g EXCEPT !.args = es]
  <2>1. Erased[g] = ErasedOf(Erased, g)
    BY ErasedIs
  <2> QED BY <2>1 DEF ErasedOf, ErasedStruct
<1>10. Inside(g) <=> Readable(g) /\ 1..n \subseteq good
  <2>1. Inside(g) <=> Readable(g) /\ \A i \in DOMAIN g.args : Inside(g.args[i])
    BY InsideIs
  <2> QED BY <1>2, <2>1
<1> HIDE DEF p, es, good, n
<1>11. /\ Inside(g) => p = Parsed(Erased[g], r)
       /\ ~Inside(g) => ~p.ok /\ Misses(p)
  <2>1. Inside(g) => p = Parsed(Erased[g], r)
    BY <1>8, <1>9, <1>10
  <2>2. ~Inside(g) => p = Invalid
    BY <1>8, <1>10
  <2> QED BY <2>1, <2>2, Outcomes DEF Misses
<1>12. p = R[NodeText[g] \o r]["tag"]
  BY <1>7 DEF p
<1> HIDE DEF R
<1>13. NodeReads(R, g, r)
  BY <1>11, <1>12 DEF NodeReads
<1> QED BY <1>13 DEF R

LEMMA ObjectRead ==
  ASSUME NEW given, NEW g \in Tag, NamedObject(g), OnChain[g], NEW r \in Words, Ends(r)
  PROVE  NodeReads(Parser(given), g, r)
<1> DEFINE R == Parser(given)
<1> DEFINE u == NodeArguments(NodeText, g) \o r
<1> DEFINE v == SubSeq(u, 4, Len(u))
<1> DEFINE five == <<g.address, "::", g.module, "::", g.name>>
<1> DEFINE p == R[five \o u]["tag"]
<1> DEFINE long == Len(NodeText[g.args[1]]) # 1
<1>1. g.k = "struct" /\ g.module = "object" /\ g.name = "Object"
  BY DEF NamedObject
<1>2. {g.module, g.name} \cap Punctuation = {} /\ Len(g.args) = 1
  BY <1>1, OnChainParts
<1>3. NodeText[g] \o r = five \o u /\ u \in Words
  <2>1. u = NodeArguments(NodeText, g) \o r
    OBVIOUS
  <2> HIDE DEF u
  <2> QED BY <1>1, <2>1, StructSpelled
<1>4. v \in Words /\ (~long => v = r) /\ (long => v # << >> /\ Head(v) \notin Punctuation)
  <2>1. u = NodeArguments(NodeText, g) \o r
    OBVIOUS
  <2> HIDE DEF u
  <2> QED BY <1>1, <1>2, <2>1, ObjectRest
<1>5. SkipObjectArgument(g.module, g.name, u) = v
  BY <1>1 DEF SkipObjectArgument
<1> DEFINE a == StructArguments(R, SkipObjectArgument(g.module, g.name, u))
<1>6. /\ ~Readable(g) => p = Invalid
      /\ Readable(g) => p = IF a.ok THEN Parsed([g EXCEPT !.args = a.tags], a.rest) ELSE Invalid
  <2> HIDE DEF u
  <2> QED BY <1>1, <1>2, <1>3, StructRead
<1> HIDE DEF v, p, long
<1>7. a = ParsedList(<< >>, v)
  <2>1. ~Starts(v, "<")
    <3>1. CASE long
      BY <1>4, <3>1 DEF Starts, Punctuation
    <3>2. CASE ~long
      BY <1>4, <3>2, EndsOtherwise
    <3> QED BY <3>1, <3>2
  <2>2. a = StructArguments(R, v)
    BY <1>5
  <2> HIDE DEF a
  <2> QED BY <2>1, <2>2 DEF StructArguments
<1>8. Erased[g] = [g EXCEPT !.args = << >>]
  <2>1. Erased[g] = ErasedOf(Erased, g)
    BY ErasedIs
  <2> QED BY <2>1, <1>1 DEF ErasedOf, ErasedStruct
<1> HIDE DEF a
<1>9. p = IF Readable(g) THEN Parsed(Erased[g], v) ELSE Invalid
  <2>1. a.ok /\ a.tags = << >> /\ a.rest = v
    BY <1>7, Outcomes
  <2> QED BY <1>6, <1>8, <2>1
<1>10. Inside(g) <=> Readable(g) /\ ~long
  <2>1. Inside(g) <=> Readable(g) /\ Len(NodeText[g.args[1]]) = 1
    BY InsideIs
  <2> QED BY <2>1 DEF long
<1>11. long => ~Ends(v)
  BY <1>4 DEF Ends, Starts, Punctuation
<1>12. /\ Inside(g) => p = Parsed(Erased[g], r)
       /\ ~Inside(g) => Misses(p)
       /\ p.ok <=> Readable(g)
       /\ p.ok => p.tag = Erased[g]
  <2>1. CASE Readable(g)
    <3>1. p.ok /\ p.tag = Erased[g] /\ p.rest = v
      BY <1>9, <2>1, Outcomes
    <3> QED BY <1>4, <1>9, <1>10, <1>11, <2>1, <3>1 DEF Misses
  <2>2. CASE ~Readable(g)
    BY <1>9, <1>10, <2>2, Outcomes DEF Misses
  <2> QED BY <2>1, <2>2
<1>13. p = R[NodeText[g] \o r]["tag"]
  BY <1>3 DEF p
<1> HIDE DEF R
<1>14. NodeReads(R, g, r)
  BY <1>12, <1>13 DEF NodeReads
<1> QED BY <1>14 DEF R

\* The parser reads what the node writes, up to the arguments of Objects, and refuses what
\* it does not read.
LEMMA NodeRead ==
  ASSUME NEW given
  PROVE  \A g \in Tag : OnChain[g] =>
           \A r \in Words : Ends(r) => NodeReads(Parser(given), g, r)
<1> DEFINE R == Parser(given)
<1> DEFINE Holds(g) == OnChain[g] => \A r \in Words : Ends(r) => NodeReads(R, g, r)
<1> DEFINE T == {n \in Nat : n \in 0..Depth => \A g \in TagLevel[n] : Holds(g)}
<1>1. ASSUME NEW n \in 0..Depth, NEW g \in TagLevel[n], \A c \in Children(g) : Holds(c)
      PROVE  Holds(g)
  <2> SUFFICES ASSUME OnChain[g], NEW r \in Words, Ends(r) PROVE NodeReads(R, g, r)
    OBVIOUS
  <2>1. g \in Tag
    BY TagsNested
  <2>2. CASE NamedObject(g)
    BY <2>1, <2>2, ObjectRead
  <2>3. CASE g.k = "struct" /\ ~NamedObject(g)
    <3>1. \A i \in DOMAIN g.args : Holds(g.args[i])
      BY <1>1, <2>3 DEF Children
    <3>2. \A i \in DOMAIN g.args : OnChain[g.args[i]]
      BY <2>1, <2>3, OnChainParts
    <3>3. \A i \in DOMAIN g.args : \A q \in Words : Ends(q) => NodeReads(R, g.args[i], q)
      BY <3>1, <3>2
    <3> QED BY <2>1, <2>3, <3>3, StructNodeRead
  <2>4. CASE g.k = "vector"
    <3> DEFINE close == <<">">> \o r
    <3>1. Holds(g.of) /\ OnChain[g.of]
      BY <1>1, <2>1, <2>4, OnChainParts DEF Children
    <3>2. close \in Words /\ Ends(close)
      BY EndsAre
    <3> HIDE DEF close
    <3>3. NodeReads(R, g.of, close)
      BY <3>1, <3>2
    <3> QED BY <2>1, <2>4, <3>3, VectorRead DEF close
  <2>5. CASE g.k \notin {"struct", "vector"}
    BY <2>1, <2>5, LeafRead
  <2> QED BY <2>2, <2>3, <2>4, <2>5
<1> HIDE DEF Holds
<1>2. 0 \in T
  <2>1. \A g \in TagLevel[0] : Children(g) = {}
    BY TagShape, DepthAssumption
  <2> QED BY <2>1, <1>1
<1>3. ASSUME NEW n \in Nat, n \in T PROVE n + 1 \in T
  <2> SUFFICES ASSUME n + 1 \in 0..Depth, NEW g \in TagLevel[n + 1] PROVE Holds(g)
    OBVIOUS
  <2>1. n \in 0..Depth /\ (n + 1) - 1 = n
    BY DepthAssumption
  <2>2. \A c \in Children(g) : c \in TagLevel[n]
    BY <2>1, TagShape
  <2>3. \A c \in Children(g) : Holds(c)
    BY <2>1, <2>2, <1>3
  <2> QED BY <2>3, <1>1
<1>4. Nat \subseteq T
  <2> HIDE DEF T
  <2> QED BY <1>2, <1>3, Induction
<1>5. \A g \in Tag : Holds(g)
  BY <1>4, DepthAssumption DEF Tag
<1> QED BY <1>5 DEF Holds

(***************************************************************************)
(* The texts of the printer                                                *)
(***************************************************************************)

\* A type that can be read, with no Object in it.
Plain(g) == Inside(g) /\ \A h \in Visible[g] : ~NamedObject(h)

LEMMA PlainParts ==
  ASSUME NEW g \in Tag, Plain(g)
  PROVE  /\ ~NamedObject(g)
         /\ g.k = "vector" => Plain(g.of)
         /\ g.k = "struct" => Readable(g) /\ \A i \in DOMAIN g.args : Plain(g.args[i])
<1>1. Visible[g] = VisibleOf(Visible, g)
  BY VisibleIs
<1>2. g \in Visible[g]
  BY <1>1 DEF VisibleOf
<1>3. ~NamedObject(g) /\ Inside(g) /\ \A h \in Visible[g] : ~NamedObject(h)
  BY <1>2 DEF Plain
<1>4. CASE g.k = "vector"
  <2>1. Visible[g.of] \subseteq Visible[g]
    BY <1>1, <1>4 DEF VisibleOf
  <2>2. Inside(g.of)
    BY <1>3, <1>4, InsideIs
  <2> QED BY <1>3, <1>4, <2>1, <2>2 DEF Plain
<1>5. CASE g.k = "struct"
  <2>1. \A i \in DOMAIN g.args : Visible[g.args[i]] \subseteq Visible[g]
    <3>1. Visible[g] = {g} \cup UNION {Visible[a] : a \in Range(g.args)}
      BY <1>1, <1>3, <1>5 DEF VisibleOf, VisibleInside
    <3>2. Range(g.args) = {g.args[i] : i \in DOMAIN g.args}
      BY DEF Range
    <3> QED BY <3>1, <3>2
  <2>2. Readable(g) /\ \A i \in DOMAIN g.args : Inside(g.args[i])
    BY <1>3, <1>5, InsideIs
  <2> QED BY <1>3, <1>5, <2>1, <2>2 DEF Plain
<1>6. CASE g.k \notin {"struct", "vector"}
  BY <1>3, <1>6
<1> QED BY <1>4, <1>5, <1>6

LEMMA PrintedLeaf ==
  ASSUME NEW given, NEW g \in Tag, OnChain[g], Plain(g), g.k \notin {"struct", "vector"}
  PROVE  Reads(Parser(given), g)
<1> DEFINE R == Parser(given)
<1> SUFFICES ASSUME NEW r \in Words, Ends(r)
             PROVE  R[TypeTagToString[g] \o r]["tag"] = Parsed(g, r)
  BY DEF Reads
<1>1. TypeTagToString[g] = NodeText[g]
  <2>1. TypeTagToString[g] = PrintOf(TypeTagToString, g) /\ NodeText[g] = NodeOf(NodeText, g)
    BY PrintIs, NodeIs
  <2> QED BY <2>1 DEF PrintOf, NodeOf
<1>2. Erased[g] = g
  <2>1. Erased[g] = ErasedOf(Erased, g)
    BY ErasedIs
  <2> QED BY <2>1 DEF ErasedOf
<1>3. NodeReads(R, g, r)
  BY LeafRead
<1> HIDE DEF R
<1> QED BY <1>1, <1>2, <1>3 DEF NodeReads, Plain

LEMMA PrintedStruct ==
  ASSUME NEW given, NEW g \in Tag, g.k = "struct", OnChain[g], Plain(g),
         \A i \in DOMAIN g.args : Reads(Parser(given), g.args[i])
  PROVE  Reads(Parser(given), g)
<1> DEFINE R == Parser(given)
<1> SUFFICES ASSUME NEW r \in Words, Ends(r)
             PROVE  R[TypeTagToString[g] \o r]["tag"] = Parsed(g, r)
  BY DEF Reads
<1> DEFINE n == Len(g.args)
<1> DEFINE a == PrintArguments(TypeTagToString, g)
<1> DEFINE u == a \o r
<1> DEFINE five == <<g.address, "::", g.module, "::", g.name>>
<1> DEFINE es == g.args
<1> DEFINE good == 1..n
<1> DEFINE x == [i \in 1..n |-> TypeTagToString[g.args[i]]]
<1>1. es \in Seq(Tag) /\ ~NamedObject(g) /\ Readable(g)
  BY WholeTag, PlainParts
<1>2. n \in Nat /\ DOMAIN g.args = 1..n
  BY <1>1
<1>3. /\ {g.module, g.name} \cap Punctuation = {}
      /\ \A i \in 1..n : OnChain[g.args[i]] /\ g.args[i] \in Tag
  <2>1. /\ {g.module, g.name} \cap Punctuation = {}
        /\ \A i \in DOMAIN g.args : OnChain[g.args[i]] /\ g.args[i] \in Tag
    BY OnChainParts
  <2> QED BY <1>2, <2>1
<1>4. \A i \in 1..n : x[i] \in Words /\ x[i] # << >> /\ ~Starts(x[i], ">")
  <2> SUFFICES ASSUME NEW i \in 1..n PROVE x[i] \in Words /\ x[i] # << >> /\ ~Starts(x[i], ">")
    OBVIOUS
  <2> DEFINE t == TypeTagToString[g.args[i]]
  <2>1. t \in Words /\ t # << >> /\ Head(t) \notin Punctuation
    BY <1>3, PrintHead
  <2> HIDE DEF t
  <2>2. x[i] = t
    BY DEF t
  <2> QED BY <2>1, <2>2 DEF Starts, Punctuation
<1>5. Follows(R, u, r, n, es, good)
  <2>1. CASE g.args = << >>
    <3>1. n = 0
      BY <2>1
    <3>2. a = << >>
      BY <2>1, <1>1, PrintArgumentsAre
    <3>3. u = r
      BY <3>2, Concatenated
    <3> QED BY <3>1, <3>3 DEF Follows
  <2>2. CASE g.args # << >>
    <3> HIDE DEF x, R, n
    <3>1. ArgumentTexts(n, x, TypeTagToString, g)
      <4>1. \A i \in 1..n : x[i] = TypeTagToString[g.args[i]]
        BY DEF x
      <4>2. x = [i \in 1..n |-> x[i]]
        BY DEF x
      <4>3. x \in [1..n -> Words]
        <5> HIDE DEF Words
        <5> QED BY <4>2, <1>4
      <4>4. n = Len(g.args)
        BY DEF n
      <4> QED BY <4>1, <4>3, <4>4, <2>2, <1>1, <1>4 DEF ArgumentTexts
    <3>2. PICK s : /\ Listed(n, x, s, <<">">> \o r) /\ u = <<"<">> \o (x[1] \o s[1])
      <4>1. Spelled(n, x, u, r)
        BY <3>1, PrintListed
      <4> HIDE DEF u
      <4> QED BY <4>1 DEF Spelled
    <3>3. ASSUME NEW i \in 1..n
          PROVE  LET p == R[x[i] \o s[i]]["tag"]
                 IN IF i \in good THEN p = Parsed(es[i], s[i]) ELSE Misses(p)
      <4>1. s[i] \in Words /\ Ends(s[i])
        BY <3>2, ListedEnds
      <4>2. Reads(R, g.args[i])
        BY <1>2 DEF R
      <4>3. x[i] = TypeTagToString[g.args[i]]
        BY <3>1 DEF ArgumentTexts
      <4> QED BY <4>1, <4>2, <4>3 DEF Reads
    <3>4. ReadAs(R, n, x, s, es, good)
      BY <3>3 DEF ReadAs
    <3> QED BY <3>2, <3>4 DEF Follows
  <2> QED BY <2>1, <2>2
<1>6. TypeTagToString[g] \o r = five \o u
  <2>1. TypeTagToString[g] = five \o a
    <3>1. TypeTagToString[g] = PrintOf(TypeTagToString, g)
      BY PrintIs
    <3> QED BY <3>1 DEF PrintOf, StructText, PrintArguments
  <2>2. five \in Words
    <3>1. g.address \in STRING /\ g.module \in STRING /\ g.name \in STRING /\ "::" \in STRING
      BY WholeTag, SomeWords
    <3> QED BY <3>1, FewWords
  <2>3. a \in Words
    BY PrintArgumentsTyped
  <2> HIDE DEF five, a
  <2>4. (five \o a) \o r = five \o (a \o r)
    BY <2>2, <2>3, Concatenated, ZenonT(40)
  <2> QED BY <2>1, <2>4
<1> DEFINE p == R[five \o u]["tag"]
<1>7. p = IF Readable(g) /\ 1..n \subseteq good THEN Parsed([g EXCEPT !.args = es], r) ELSE Invalid
  <2> HIDE DEF good, u
  <2>1. n = Len(es)
    OBVIOUS
  <2> HIDE DEF es, n
  <2> QED BY <1>1, <1>3, <1>5, <2>1, StructCase
<1>8. [g EXCEPT !.args = es] = g
  <2> DEFINE h == [k |-> "struct", address |-> g.address, module |-> g.module,
                   name |-> g.name, args |-> g.args]
  <2>1. g = h
    BY WholeTag
  <2>2. [h EXCEPT !.args = h.args] = h
    OBVIOUS
  <2> HIDE DEF h
  <2> QED BY <2>1, <2>2
<1>9. p = Parsed(g, r)
  BY <1>1, <1>7, <1>8
<1> HIDE DEF p
<1> QED BY <1>6, <1>9 DEF p

LEMMA PrintRead ==
  ASSUME NEW given
  PROVE  \A g \in Tag : OnChain[g] /\ Plain(g) => Reads(Parser(given), g)
<1> DEFINE R == Parser(given)
<1> DEFINE Holds(g) == OnChain[g] /\ Plain(g) => Reads(R, g)
<1> DEFINE T == {n \in Nat : n \in 0..Depth => \A g \in TagLevel[n] : Holds(g)}
<1>1. ASSUME NEW n \in 0..Depth, NEW g \in TagLevel[n], \A c \in Children(g) : Holds(c)
      PROVE  Holds(g)
  <2> SUFFICES ASSUME OnChain[g], Plain(g) PROVE Reads(R, g)
    OBVIOUS
  <2>1. g \in Tag
    BY TagsNested
  <2>2. CASE g.k = "struct"
    <3>1. \A i \in DOMAIN g.args : Holds(g.args[i])
      BY <1>1, <2>2 DEF Children
    <3>2. \A i \in DOMAIN g.args : OnChain[g.args[i]]
      BY <2>1, <2>2, OnChainParts
    <3>3. \A i \in DOMAIN g.args : Plain(g.args[i])
      BY <2>1, <2>2, PlainParts
    <3>4. \A i \in DOMAIN g.args : Reads(R, g.args[i])
      BY <3>1, <3>2, <3>3
    <3> QED BY <2>1, <2>2, <3>4, PrintedStruct
  <2>3. CASE g.k = "vector"
    <3>1. Holds(g.of) /\ OnChain[g.of] /\ Plain(g.of)
      BY <1>1, <2>1, <2>3, OnChainParts, PlainParts DEF Children
    <3> QED BY <2>1, <2>3, <3>1, PrintedVector
  <2>4. CASE g.k \notin {"struct", "vector"}
    BY <2>1, <2>4, PrintedLeaf
  <2> QED BY <2>2, <2>3, <2>4
<1> HIDE DEF Holds
<1>2. 0 \in T
  <2>1. \A g \in TagLevel[0] : Children(g) = {}
    BY TagShape, DepthAssumption
  <2> QED BY <2>1, <1>1
<1>3. ASSUME NEW n \in Nat, n \in T PROVE n + 1 \in T
  <2> SUFFICES ASSUME n + 1 \in 0..Depth, NEW g \in TagLevel[n + 1] PROVE Holds(g)
    OBVIOUS
  <2>1. n \in 0..Depth /\ (n + 1) - 1 = n
    BY DepthAssumption
  <2>2. \A c \in Children(g) : c \in TagLevel[n]
    BY <2>1, TagShape
  <2>3. \A c \in Children(g) : Holds(c)
    BY <2>1, <2>2, <1>3
  <2> QED BY <2>3, <1>1
<1>4. Nat \subseteq T
  <2> HIDE DEF T
  <2> QED BY <1>2, <1>3, Induction
<1>5. \A g \in Tag : Holds(g)
  BY <1>4, DepthAssumption DEF Tag
<1> QED BY <1>5 DEF Holds

\* The type meant and its text are those of a call, and stay; what was parsed is that text.
Parses ==
  /\ \E c \in Calls : tag = c.tag /\ typ = c.text
  /\ stage \notin {"type", "stored", "read"} => parsed = ParseTypeTag(typ, Texts(tyArgs))

LEMMA ParsesInvariant == Spec => []Parses
<1>1. Init => Parses
  BY DEF Init, Parses
<1>2. ASSUME Parses, [Next]_vars PROVE Parses'
  <2> USE <1>2 DEF Parses
  <2>1. CASE Parse
    BY <2>1 DEF Parse
  <2>2. ASSUME NEW names \in NameLists, Construct(names) PROVE Parses'
    BY <2>2 DEF Construct
  <2>3. ASSUME NEW kind \in Kinds, NEW v \in Offered, NEW o \in Variations,
               Build(kind, "f", [i \in 1..o.args |-> v], o.gas, o.agents)
        PROVE  Parses'
    <3>1. /\ stage = "builder" /\ stage' \in {"refused", "built"}
          /\ UNCHANGED <<tag, typ, tyArgs, parsed>>
      BY <2>3, Zenon DEF Build
    <3> QED BY <3>1
  <2>4. ASSUME NEW v, NEW types, BuildRival(v, types) PROVE Parses'
    <3>1. stage = "built" /\ UNCHANGED <<tag, typ, tyArgs, parsed>>
      BY <2>4 DEF BuildRival
    <3> QED BY <3>1
  <2>5. ASSUME NEW v \in PropertyTexts, WriteProperty(v) PROVE Parses'
    BY <2>5 DEF WriteProperty
  <2>6. CASE ReadBack
    BY <2>6 DEF ReadBack
  <2>7. CASE UNCHANGED vars
    BY <2>7 DEF vars
  <2> QED BY <2>1, <2>2, <2>3, <2>4, <2>5, <2>6, <2>7 DEF Next
<1> QED BY <1>1, <1>2, PTL DEF Spec

\* The parser on the whole text of a type, with any type arguments.
LEMMA WholeText ==
  ASSUME NEW g \in Tag, OnChain[g], NEW given
  PROVE  LET p == Parser(given)[NodeText[g]]["tag"] IN
         /\ p.ok <=> Parsable(g)
         /\ p.ok => p.tag = Erased[g]
         /\ p.ok /\ ~(\E h \in Visible[g] : NamedObject(h)) =>
              Parser(<< >>)[TypeTagToString[g]]["tag"] = Parsed(g, << >>)
<1> DEFINE R == Parser(given)
<1> DEFINE p == R[NodeText[g]]["tag"]
<1>1. << >> \in Words /\ Ends(<< >>)
  BY Signs DEF Ends
<1>2. NodeReads(R, g, << >>)
  BY <1>1, NodeRead
<1>3. NodeText[g] \o << >> = NodeText[g] /\ TypeTagToString[g] \o << >> = TypeTagToString[g]
  BY NodeTyped, TextTyped, Concatenated
<1> HIDE DEF R
<1>4. /\ Inside(g) => p = Parsed(Erased[g], << >>)
      /\ ~Inside(g) /\ ~NamedObject(g) => ~p.ok
      /\ NamedObject(g) => (p.ok <=> Readable(g)) /\ (p.ok => p.tag = Erased[g])
  BY <1>2, <1>3 DEF NodeReads
<1> HIDE DEF p
<1>5. /\ NamedObject(g) => (Parsable(g) <=> Readable(g))
      /\ ~NamedObject(g) => (Parsable(g) <=> Inside(g))
  <2>1. NamedObject(g) => (Parsable(g) <=> Readable(g))
    BY InsideIs
  <2>2. ~NamedObject(g) => (Parsable(g) <=> Inside(g))
    BY DEF Parsable, Inside
  <2> QED BY <2>1, <2>2
<1>6. (p.ok <=> Parsable(g)) /\ (p.ok => p.tag = Erased[g])
  <2>1. CASE NamedObject(g)
    BY <1>4, <1>5, <2>1
  <2>2. CASE ~NamedObject(g)
    BY <1>4, <1>5, <2>2, Outcomes
  <2> QED BY <2>1, <2>2
<1>7. ASSUME p.ok, ~(\E h \in Visible[g] : NamedObject(h))
      PROVE  Parser(<< >>)[TypeTagToString[g]]["tag"] = Parsed(g, << >>)
  <2>1. g \in Visible[g]
    <3>1. Visible[g] = VisibleOf(Visible, g)
      BY VisibleIs
    <3> QED BY <3>1 DEF VisibleOf
  <2>2. Plain(g)
    BY <1>5, <1>6, <1>7, <2>1 DEF Plain
  <2>3. Reads(Parser(<< >>), g)
    BY <2>2, PrintRead
  <2> QED BY <1>1, <1>3, <2>3 DEF Reads
<1> QED BY <1>6, <1>7 DEF p, R

\* For types nested to any depth, with structs of any number of arguments: the parser reads
\* every type the node writes up to the arguments of Objects, refuses exactly those that it
\* cannot name, and reads what TypeTagToString prints as what it was (type_tag.ts).
THEOREM TypesRead == Spec => []TextsRead
<1>1. Parses => TextsRead
  <2> SUFFICES ASSUME Parses, stage \notin {"type", "stored", "read"}, tag # NoTag
               PROVE  TextsRead
    BY DEF TextsRead
  <2>1. tag \in Tag /\ OnChain[tag] /\ typ = NodeText[tag]
    BY NodeAssumption DEF Parses
  <2> DEFINE given == [i \in DOMAIN Texts(tyArgs) |-> Parser(<< >>)[Texts(tyArgs)[i]]["tag"]]
  <2>2. parsed = Parser(given)[NodeText[tag]]["tag"]
    BY <2>1 DEF Parses, ParseTypeTag
  <2>3. ParseTypeTag(TypeTagToString[tag], << >>) = Parser(<< >>)[TypeTagToString[tag]]["tag"]
    <3>1. [i \in DOMAIN << >> |-> Parser(<< >>)[<< >>[i]]["tag"]] = << >>
      OBVIOUS
    <3> QED BY <3>1 DEF ParseTypeTag
  <2> HIDE DEF given
  <2>4. /\ parsed.ok <=> Parsable(tag)
        /\ parsed.ok => parsed.tag = Erased[tag]
        /\ parsed.ok /\ ~(\E h \in Visible[tag] : NamedObject(h)) =>
             Parser(<< >>)[TypeTagToString[tag]]["tag"] = Parsed(tag, << >>)
    BY <2>1, <2>2, WholeText
  <2> QED BY <2>3, <2>4 DEF TextsRead
<1> QED BY <1>1, ParsesInvariant, PTL

(***************************************************************************)
(* A text is told by its bytes                                             *)
(***************************************************************************)

\* The bytes of a text.
Byte == 0..255

\* A character is one byte below 128, or two of which the first is below 224, or three.
LEMMA CharBytes ==
  ASSUME NEW c \in CodeUnit
  PROVE  LET high == c \div 4096  mid == c \div 64  next == mid % 64  low == c % 64 IN
         /\ Utf8Char(c) = IF c < 128 THEN <<c>> ELSE IF c < 2048 THEN <<192 + mid, 128 + low>>
                          ELSE <<224 + high, 128 + next, 128 + low>>
         /\ c \in Nat /\ mid \in Nat /\ high \in Nat /\ next \in Nat /\ low \in Nat
         /\ c = 64 * mid + low /\ mid = 64 * high + next
         /\ Utf8Char(c) \in Over(Byte)
         /\ c < 2048 => 192 + mid < 224
<1> DEFINE high == c \div 4096
<1> DEFINE mid == c \div 64
<1> DEFINE next == mid % 64
<1> DEFINE low == c % 64
<1>1. c \in Nat /\ c < 65536
  BY DEF CodeUnit
<1>2. high \in Nat /\ high < 16
  BY <1>1
<1>3. mid \in Nat /\ (c < 2048 => mid < 32) /\ low \in 0..63 /\ c = 64 * mid + low
  BY <1>1
<1>4. high = mid \div 64
  BY <1>1
<1>5. next \in 0..63 /\ mid = 64 * high + next
  <2> HIDE DEF mid, high
  <2> QED BY <1>3, <1>4
<1>6. Utf8Char(c) = IF c < 128 THEN <<c>> ELSE IF c < 2048 THEN <<192 + mid, 128 + low>>
                    ELSE <<224 + high, 128 + next, 128 + low>>
  BY DEF Utf8Char
<1> HIDE DEF high, mid, low, next
<1> DEFINE B == Byte
<1>7. Utf8Char(c) \in Over(Byte)
  <2>1. (c < 128 => c \in B) /\ (c < 2048 => 192 + mid \in B) /\ 224 + high \in B
        /\ 128 + next \in B /\ 128 + low \in B
    BY <1>1, <1>2, <1>3, <1>5 DEF Byte
  <2> HIDE DEF B
  <2> QED BY <1>6, <2>1, ShortSequences DEF B, Over
<1> QED BY <1>1, <1>2, <1>3, <1>5, <1>6, <1>7 DEF high, mid, low, next

\* The first members of two sequences one after the other are those of the first.
LEMMA OverFirst ==
  ASSUME NEW S, NEW s \in Over(S), NEW u \in Over(S), NEW k \in 1..Len(s)
  PROVE  (s \o u)[k] = s[k]
BY DEF Over

\* The first bytes of a text that starts with c.
StartsWith(t, c, u) == t = Utf8Char(c) \o u

\* The first bytes of a text that starts with a character.
LEMMA FirstBytes ==
  ASSUME NEW c \in CodeUnit, NEW u \in Over(Byte), NEW t, StartsWith(t, c, u)
  PROVE  /\ c < 128 => t[1] = c
         /\ 128 <= c /\ c < 2048 => t[1] = 192 + (c \div 64) /\ t[2] = 128 + (c % 64)
         /\ 2048 <= c => /\ t[1] = 224 + (c \div 4096) /\ t[2] = 128 + ((c \div 64) % 64)
                         /\ t[3] = 128 + (c % 64)
<1> DEFINE s == Utf8Char(c)
<1> DEFINE high == 224 + (c \div 4096)
<1> DEFINE mid == 192 + (c \div 64)
<1> DEFINE next == 128 + ((c \div 64) % 64)
<1> DEFINE low == 128 + (c % 64)
<1>1. s \in Over(Byte) /\ c \in Nat
  BY CharBytes
<1>2. s = IF c < 128 THEN <<c>> ELSE IF c < 2048 THEN <<mid, low>> ELSE <<high, next, low>>
  BY DEF Utf8Char
<1> HIDE DEF s, high, mid, next, low
<1>3. \A k \in 1..Len(s) : t[k] = s[k]
  <2>1. t = s \o u
    BY DEF s, StartsWith
  <2>2. \A k \in 1..Len(s) : (s \o u)[k] = s[k]
    BY <1>1, OverFirst
  <2> QED BY <2>1, <2>2, Zenon
<1>4. c < 128 => t[1] = c
  <2> SUFFICES ASSUME c < 128 PROVE t[1] = c
    OBVIOUS
  <2>1. s = <<c>>
    BY <1>2
  <2>2. 1 \in 1..Len(s) /\ s[1] = c
    BY <2>1
  <2> QED BY <2>2, <1>3
<1>5. 128 <= c /\ c < 2048 => t[1] = mid /\ t[2] = low
  <2> SUFFICES ASSUME 128 <= c, c < 2048 PROVE t[1] = mid /\ t[2] = low
    OBVIOUS
  <2>1. s = <<mid, low>>
    BY <1>1, <1>2
  <2>2. 1 \in 1..Len(s) /\ 2 \in 1..Len(s) /\ s[1] = mid /\ s[2] = low
    BY <2>1
  <2> QED BY <2>2, <1>3
<1>6. 2048 <= c => t[1] = high /\ t[2] = next /\ t[3] = low
  <2> SUFFICES ASSUME 2048 <= c PROVE t[1] = high /\ t[2] = next /\ t[3] = low
    OBVIOUS
  <2>1. s = <<high, next, low>>
    BY <1>1, <1>2
  <2>2. /\ 1 \in 1..Len(s) /\ 2 \in 1..Len(s) /\ 3 \in 1..Len(s)
        /\ s[1] = high /\ s[2] = next /\ s[3] = low
    BY <2>1
  <2> QED BY <2>2, <1>3
<1> QED BY <1>4, <1>5, <1>6 DEF high, mid, next, low

\* A character is told by the bytes of a text that starts with it, and so is what follows.
LEMMA CharTold ==
  ASSUME NEW a \in CodeUnit, NEW b \in CodeUnit
  PROVE  a # b => \A u, v \in Over(Byte) : Utf8Char(a) \o u # Utf8Char(b) \o v
<1> SUFFICES ASSUME NEW u \in Over(Byte), NEW v \in Over(Byte),
                    Utf8Char(a) \o u = Utf8Char(b) \o v
             PROVE  a = b
  OBVIOUS
<1> DEFINE ha == a \div 4096
<1> DEFINE ma == a \div 64
<1> DEFINE na == ma % 64
<1> DEFINE la == a % 64
<1> DEFINE hb == b \div 4096
<1> DEFINE mb == b \div 64
<1> DEFINE nb == mb % 64
<1> DEFINE lb == b % 64
<1> DEFINE t == Utf8Char(a) \o u
<1>1. /\ a \in Nat /\ ma \in Nat /\ ha \in Nat /\ na \in Nat /\ la \in Nat
      /\ a = 64 * ma + la /\ ma = 64 * ha + na /\ (a < 2048 => 192 + ma < 224)
  BY CharBytes
<1>2. /\ b \in Nat /\ mb \in Nat /\ hb \in Nat /\ nb \in Nat /\ lb \in Nat
      /\ b = 64 * mb + lb /\ mb = 64 * hb + nb /\ (b < 2048 => 192 + mb < 224)
  BY CharBytes
<1>3. /\ a < 128 => t[1] = a
      /\ 128 <= a /\ a < 2048 => t[1] = 192 + ma /\ t[2] = 128 + la
      /\ 2048 <= a => t[1] = 224 + ha /\ t[2] = 128 + na /\ t[3] = 128 + la
  <2>1. StartsWith(t, a, u)
    BY DEF StartsWith
  <2> HIDE DEF t
  <2> QED BY <2>1, FirstBytes DEF ha, ma, na, la, hb, mb, nb, lb
<1>4. /\ b < 128 => t[1] = b
      /\ 128 <= b /\ b < 2048 => t[1] = 192 + mb /\ t[2] = 128 + lb
      /\ 2048 <= b => t[1] = 224 + hb /\ t[2] = 128 + nb /\ t[3] = 128 + lb
  <2>1. StartsWith(t, b, v)
    BY DEF StartsWith
  <2> HIDE DEF t
  <2> QED BY <2>1, FirstBytes DEF ha, ma, na, la, hb, mb, nb, lb
<1> HIDE DEF t, ha, ma, na, la, hb, mb, nb, lb
<1>5. CASE a < 128
  <2>1. b < 128
    BY <1>1, <1>2, <1>3, <1>4, <1>5
  <2> QED BY <2>1, <1>3, <1>4, <1>5
<1>6. CASE 128 <= a /\ a < 2048
  <2>1. 128 <= b /\ b < 2048
    BY <1>1, <1>2, <1>3, <1>4, <1>6
  <2>2. ma = mb /\ la = lb
    BY <2>1, <1>1, <1>2, <1>3, <1>4, <1>6
  <2> QED BY <2>2, <1>1, <1>2
<1>7. CASE 2048 <= a
  <2>1. 2048 <= b
    BY <1>1, <1>2, <1>3, <1>4, <1>7
  <2>2. ha = hb /\ na = nb /\ la = lb
    BY <2>1, <1>1, <1>2, <1>3, <1>4, <1>7
  <2> QED BY <2>2, <1>1, <1>2
<1> QED BY <1>1, <1>5, <1>6, <1>7

\* The bytes of each character.
Chars(s) == [i \in DOMAIN s |-> Utf8Char(s[i])]

\* The bytes of each character of a text.
LEMMA CharsTyped ==
  ASSUME NEW s \in CodeUnits
  PROVE  Chars(s) \in Seq(Over(Byte)) /\ Utf8(s) = FlattenSeq(Chars(s))
<1> DEFINE X == Over(Byte)
<1> DEFINE f == [c \in CodeUnit |-> Utf8Char(c)]
<1>1. \A c \in CodeUnit : f[c] \in X /\ f[c] = Utf8Char(c)
  <2>1. \A c \in CodeUnit : Utf8Char(c) \in X
    BY CharBytes
  <2> HIDE DEF X
  <2> QED BY <2>1
<1>2. s \in Seq(CodeUnit)
  BY Zenon DEF CodeUnits
<1>3. \A i \in DOMAIN s : f[s[i]] = Utf8Char(s[i])
  <2> HIDE DEF f
  <2> QED BY <1>1, <1>2, ElementOfSeq
<1>4. [i \in DOMAIN s |-> f[s[i]]] \in Seq(X)
  <2> HIDE DEF f, X
  <2> QED BY <1>1, <1>2, SequenceMade
<1>5. [i \in DOMAIN s |-> f[s[i]]] = Chars(s)
  <2> HIDE DEF f
  <2> QED BY <1>3, Zenon DEF Chars
<1> QED BY <1>4, <1>5 DEF Utf8, Chars

\* A sequence that has members has them before any other.
LEMMA EmptyOver ==
  ASSUME NEW S, NEW s \in Over(S), NEW t \in Over(S), s # << >>
  PROVE  s \o t # << >>
BY DEF Over

\* Two texts with the same bytes are the same.
LEMMA BytesTell ==
  ASSUME NEW s \in CodeUnits, NEW r \in CodeUnits, Utf8(s) = Utf8(r)
  PROVE  s = r
<1>1. /\ Chars(s) \in Seq(Over(Byte)) /\ Chars(r) \in Seq(Over(Byte))
      /\ FlattenSeq(Chars(s)) = FlattenSeq(Chars(r))
  BY CharsTyped
<1>2. /\ s \in Seq(CodeUnit) /\ r \in Seq(CodeUnit)
      /\ \A i \in DOMAIN s : s[i] \in CodeUnit
      /\ \A i \in DOMAIN r : r[i] \in CodeUnit
  BY ElementOfSeq DEF CodeUnits
<1>3. DOMAIN Chars(s) = DOMAIN s /\ DOMAIN Chars(r) = DOMAIN r
  BY DEF Chars
<1>4. /\ \A i \in DOMAIN s : Chars(s)[i] = Utf8Char(s[i])
      /\ \A i \in DOMAIN r : Chars(r)[i] = Utf8Char(r[i])
  BY DEF Chars
<1>5. \A c \in CodeUnit : Utf8Char(c) \in Over(Byte) /\ Utf8Char(c) # << >>
  <2> SUFFICES ASSUME NEW c \in CodeUnit PROVE Utf8Char(c) \in Over(Byte) /\ Utf8Char(c) # << >>
    OBVIOUS
  <2>1. Utf8Char(c) # << >>
    BY DEF Utf8Char
  <2> QED BY <2>1, CharBytes
<1> DEFINE none == << >>
<1>6. none \in Over(Byte)
  BY DEF Over
<1>7. \A t \in Over(Byte) : t \o none = t
  BY OverJoined
<1>8. Decodable(Chars(s), Chars(r), Byte)
  <2> SUFFICES ASSUME NEW i \in DOMAIN s, NEW j \in DOMAIN r
               PROVE  Told(Chars(s)[i], Chars(r)[j], Byte)
    BY <1>3 DEF Decodable
  <2> DEFINE a == s[i]
  <2> DEFINE b == r[j]
  <2>1. a \in CodeUnit /\ b \in CodeUnit /\ Chars(s)[i] = Utf8Char(a) /\ Chars(r)[j] = Utf8Char(b)
    BY <1>2, <1>4
  <2> HIDE DEF a, b
  <2>2. ASSUME NEW u \in Over(Byte), NEW v \in Over(Byte), Utf8Char(a) \o u = Utf8Char(b) \o v
        PROVE  Utf8Char(a) = Utf8Char(b) /\ u = v
    <3>1. a = b
      BY <2>1, <2>2, CharTold
    <3>2. Utf8Char(a) \in Over(Byte) /\ Utf8Char(a) \o u = Utf8Char(a) \o v
      BY <2>1, <2>2, <3>1, <1>5
    <3>3. u = v
      BY <3>2, OverCancelled
    <3> QED BY <3>1, <3>3
  <2> QED BY <2>1, <2>2 DEF Told
<1>9. Apart(Chars(s), none, Byte) /\ Apart(Chars(r), none, Byte)
  <2>1. \A i \in DOMAIN s : Chars(s)[i] \in Over(Byte) /\ Chars(s)[i] # << >>
    BY <1>2, <1>4, <1>5
  <2>2. \A i \in DOMAIN r : Chars(r)[i] \in Over(Byte) /\ Chars(r)[i] # << >>
    BY <1>2, <1>4, <1>5
  <2>3. \A a, u \in Over(Byte) : a # << >> => a \o u # << >>
    BY EmptyOver
  <2> QED BY <1>3, <2>1, <2>2, <2>3 DEF Apart
<1>10. FlattenSeq(Chars(s)) \o none = FlattenSeq(Chars(r)) \o none
  BY <1>1
<1> HIDE DEF none
<1>11. Chars(s) = Chars(r)
  BY <1>1, <1>6, <1>8, <1>9, <1>10, Decoding
<1>12. Len(s) = Len(r) /\ DOMAIN s = DOMAIN r
  <2>1. DOMAIN s = DOMAIN r
    BY <1>3, <1>11
  <2>2. Len(s) \in Nat /\ DOMAIN s = 1..Len(s) /\ Len(r) \in Nat /\ DOMAIN r = 1..Len(r)
    BY <1>2
  <2>3. \A p, q \in Nat : 1..p = 1..q => p = q
    <3> SUFFICES ASSUME NEW p \in Nat, NEW q \in Nat, 1..p = 1..q, p < q PROVE FALSE
      OBVIOUS
    <3>1. q \in 1..q /\ ~(q \in 1..p)
      OBVIOUS
    <3> QED BY <3>1
  <2> QED BY <2>1, <2>2, <2>3
<1>13. \A i \in DOMAIN s : s[i] = r[i]
  <2> SUFFICES ASSUME NEW i \in DOMAIN s PROVE s[i] = r[i]
    OBVIOUS
  <2> DEFINE a == s[i]
  <2> DEFINE b == r[i]
  <2>1. a \in CodeUnit /\ b \in CodeUnit /\ Utf8Char(a) = Utf8Char(b)
    BY <1>2, <1>4, <1>11, <1>12
  <2> HIDE DEF a, b
  <2>2. Utf8Char(a) \o none = Utf8Char(b) \o none
    BY <2>1
  <2>3. a = b
    BY <2>1, <2>2, <1>6, CharTold
  <2> QED BY <2>3 DEF a, b
<1> QED BY <1>2, <1>12, <1>13

\* A string value is told by what is hashed for it.
LEMMA TextTells ==
  /\ \A v, w \in Value : TextValue(v) = TextValue(w) => v = w
  /\ \A v \in Value : TextValue(v) = TextOf(<< >>) <=> v = Text(<< >>)
<1>1. Text(<< >>) \in Value /\ TextValue(Text(<< >>)) = TextOf(<< >>)
  <2>1. HasForm(Text(<< >>), {"text"}) /\ Text(<< >>).chars = << >>
    BY DEF HasForm, IsString, Text
  <2>2. Utf8(<< >>) = << >>
    BY DEF Utf8, FlattenSeq
  <2>3. TextValue(Text(<< >>)) = TextOf(<< >>)
    BY <2>1, <2>2 DEF TextValue
  <2>4. Text(<< >>) \in Scalars
    <3>1. << >> \in CodeUnits
      BY DEF CodeUnits
    <3>2. Text(<< >>) \in [js : {"string"}, form : {"text"}, chars : CodeUnits]
      BY <3>1 DEF Text
    <3> QED BY <3>2 DEF Scalars
  <2>5. Scalars \subseteq Value
    BY ValueLevels, DepthAssumption DEF Value, ValuesOver
  <2> QED BY <2>3, <2>4, <2>5
<1>2. ASSUME NEW v \in Value, NEW w \in Value, TextValue(v) = TextValue(w) PROVE v = w
  <2>1. \A x : TextOf(x).v = "text" /\ TextOf(x).x = x
    BY DEF TextOf
  <2>2. HasForm(v, {"text"}) <=> HasForm(w, {"text"})
    BY <1>2, <2>1 DEF TextValue
  <2>3. CASE HasForm(v, {"text"})
    <3>1. TextOf(Utf8(v.chars)) = TextOf(Utf8(w.chars))
      BY <1>2, <2>2, <2>3 DEF TextValue
    <3>2. Utf8(v.chars) = Utf8(w.chars)
      BY <3>1, <2>1
    <3>3. v.chars \in CodeUnits /\ w.chars \in CodeUnits
      BY <2>2, <2>3, Forms
    <3>4. v.chars = w.chars
      BY <3>2, <3>3, BytesTell
    <3> QED BY <3>4, <2>2, <2>3, Singular
  <2>4. CASE ~HasForm(v, {"text"})
    <3>1. [v |-> "string", of |-> v] = [v |-> "string", of |-> w]
      BY <1>2, <2>2, <2>4 DEF TextValue
    <3> QED BY <3>1
  <2> QED BY <2>3, <2>4
<1> QED BY <1>1, <1>2

(***************************************************************************)
(* What the text of an argument leaves out                                 *)
(***************************************************************************)

\* One level of Blurred.
BlurredParts(f, m) ==
  FlattenSeq([i \in DOMAIN m.of |-> IF LeftOut(m.of[i]) THEN << >> ELSE <<f[m.of[i]]>>])

BlurredOf(f, m) ==
    CASE m.t = "vec" -> Vec(BlurredParts(f, m))
      [] m.t = "some" -> IF LeftOut(m.of) THEN None ELSE Some(f[m.of])
      [] OTHER -> m

\* It depends on the parts alone.
LEMMA BlurredLocal ==
  ASSUME NEW f, NEW h, NEW m \in Arg, \A c \in Parts(m) : f[c] = h[c]
  PROVE  BlurredOf(f, m) = BlurredOf(h, m)
<1>1. m.t = "vec" => BlurredParts(f, m) = BlurredParts(h, m)
  <2> SUFFICES ASSUME m.t = "vec" PROVE BlurredParts(f, m) = BlurredParts(h, m)
    OBVIOUS
  <2>1. \A i \in DOMAIN m.of : f[m.of[i]] = h[m.of[i]]
    BY DEF Parts
  <2>2. [i \in DOMAIN m.of |-> IF LeftOut(m.of[i]) THEN << >> ELSE <<f[m.of[i]]>>]
          = [i \in DOMAIN m.of |-> IF LeftOut(m.of[i]) THEN << >> ELSE <<h[m.of[i]]>>]
    BY <2>1
  <2> QED BY <2>2 DEF BlurredParts
<1>2. m.t = "some" => f[m.of] = h[m.of]
  BY DEF Parts
<1> QED BY <1>1, <1>2 DEF BlurredOf

\* Blurred meets its definition.
LEMMA BlurredIs == \A m \in Arg : Blurred[m] = BlurredOf(Blurred, m)
<1> DEFINE T == {n \in Nat : n \in 0..Depth => \E f : f = [m \in ArgLevel[n] |-> BlurredOf(f, m)]}
<1>1. ASSUME NEW n \in 0..Depth,
             \E f : \A m \in ArgLevel[n] : \A c \in Parts(m) : f[c] = BlurredOf(f, c)
      PROVE  \E f : f = [m \in ArgLevel[n] |-> BlurredOf(f, m)]
  <2>1. PICK f : \A m \in ArgLevel[n] : \A c \in Parts(m) : f[c] = BlurredOf(f, c)
    BY <1>1
  <2> DEFINE h == [m \in ArgLevel[n] |-> BlurredOf(f, m)]
  <2>2. ASSUME NEW m \in ArgLevel[n] PROVE h[m] = BlurredOf(h, m)
    <3>1. \A c \in Parts(m) : c \in ArgLevel[n]
      BY ArgShape
    <3>2. \A c \in Parts(m) : f[c] = h[c]
      BY <3>1, <2>1
    <3>3. m \in Arg
      BY ArgsNested
    <3> HIDE DEF h
    <3>4. BlurredOf(f, m) = BlurredOf(h, m)
      BY <3>2, <3>3, BlurredLocal
    <3> QED BY <3>4 DEF h
  <2>3. h = [m \in ArgLevel[n] |-> BlurredOf(h, m)]
    BY <2>2, Zenon
  <2> HIDE DEF h
  <2> QED BY <2>3
<1>2. 0 \in T
  <2> QED BY NoParts, <1>1, DepthAssumption
<1>3. ASSUME NEW n \in Nat, n \in T PROVE n + 1 \in T
  <2> SUFFICES ASSUME n + 1 \in 0..Depth
               PROVE  \E f : f = [m \in ArgLevel[n + 1] |-> BlurredOf(f, m)]
    OBVIOUS
  <2>1. n \in 0..Depth
    BY DepthAssumption
  <2>2. PICK f : f = [m \in ArgLevel[n] |-> BlurredOf(f, m)]
    BY <2>1, <1>3
  <2>3. ASSUME NEW m \in ArgLevel[n + 1], NEW c \in Parts(m) PROVE c \in ArgLevel[n]
    <3>1. c \in ArgLevel[(n + 1) - 1]
      BY ArgShape
    <3>2. (n + 1) - 1 = n
      OBVIOUS
    <3> QED BY <3>1, <3>2
  <2>4. \A c \in ArgLevel[n] : f[c] = BlurredOf(f, c)
    BY <2>2
  <2> QED BY <2>3, <2>4, <1>1
<1>4. Depth \in T
  <2> HIDE DEF T
  <2> QED BY <1>2, <1>3, Induction, DepthAssumption
<1>5. \E f : f = [m \in Arg |-> BlurredOf(f, m)]
  BY <1>4, DepthAssumption DEF Arg
<1>6. Blurred = [m \in Arg |-> BlurredOf(Blurred, m)]
  BY <1>5 DEF Blurred, BlurredOf, BlurredParts
<1> QED BY <1>6, Zenon

\* One level of StartsEmpty.
EmptyOf(f, m) ==
    CASE m.t = "vec" -> m.of = << >> \/ f[m.of[1]]
      [] m.t = "some" -> f[m.of]
      [] OTHER -> m = None

\* It depends on the parts alone.
LEMMA EmptyLocal ==
  ASSUME NEW f, NEW h, NEW m \in Arg, \A c \in Parts(m) : f[c] = h[c]
  PROVE  EmptyOf(f, m) = EmptyOf(h, m)
<1>1. CASE m.t = "vec"
  <2>1. m.of \in Seq(Arg)
    BY <1>1, ArgShape, DepthAssumption DEF Arg
  <2>2. CASE m.of = << >>
    BY <1>1, <2>2 DEF EmptyOf
  <2>3. CASE m.of # << >>
    <3>1. 1 \in DOMAIN m.of
      BY <2>1, <2>3
    <3>2. f[m.of[1]] = h[m.of[1]]
      BY <3>1, <1>1 DEF Parts
    <3> QED BY <1>1, <3>2 DEF EmptyOf
  <2> QED BY <2>2, <2>3
<1>2. CASE m.t = "some"
  <2>1. f[m.of] = h[m.of]
    BY <1>2 DEF Parts
  <2> QED BY <1>2, <2>1 DEF EmptyOf
<1>3. CASE m.t \notin {"vec", "some"}
  BY <1>3 DEF EmptyOf
<1> QED BY <1>1, <1>2, <1>3

\* StartsEmpty meets its definition.
LEMMA EmptyIs == \A m \in Arg : StartsEmpty[m] = EmptyOf(StartsEmpty, m)
<1> DEFINE T == {n \in Nat : n \in 0..Depth => \E f : f = [m \in ArgLevel[n] |-> EmptyOf(f, m)]}
<1>1. ASSUME NEW n \in 0..Depth,
             \E f : \A m \in ArgLevel[n] : \A c \in Parts(m) : f[c] = EmptyOf(f, c)
      PROVE  \E f : f = [m \in ArgLevel[n] |-> EmptyOf(f, m)]
  <2>1. PICK f : \A m \in ArgLevel[n] : \A c \in Parts(m) : f[c] = EmptyOf(f, c)
    BY <1>1
  <2> DEFINE h == [m \in ArgLevel[n] |-> EmptyOf(f, m)]
  <2>2. ASSUME NEW m \in ArgLevel[n] PROVE h[m] = EmptyOf(h, m)
    <3>1. \A c \in Parts(m) : c \in ArgLevel[n]
      BY ArgShape
    <3>2. \A c \in Parts(m) : f[c] = h[c]
      BY <3>1, <2>1
    <3>3. m \in Arg
      BY ArgsNested
    <3> HIDE DEF h
    <3>4. EmptyOf(f, m) = EmptyOf(h, m)
      BY <3>2, <3>3, EmptyLocal
    <3> QED BY <3>4 DEF h
  <2>3. h = [m \in ArgLevel[n] |-> EmptyOf(h, m)]
    BY <2>2, Zenon
  <2> HIDE DEF h
  <2> QED BY <2>3
<1>2. 0 \in T
  <2> QED BY NoParts, <1>1, DepthAssumption
<1>3. ASSUME NEW n \in Nat, n \in T PROVE n + 1 \in T
  <2> SUFFICES ASSUME n + 1 \in 0..Depth
               PROVE  \E f : f = [m \in ArgLevel[n + 1] |-> EmptyOf(f, m)]
    OBVIOUS
  <2>1. n \in 0..Depth
    BY DepthAssumption
  <2>2. PICK f : f = [m \in ArgLevel[n] |-> EmptyOf(f, m)]
    BY <2>1, <1>3
  <2>3. ASSUME NEW m \in ArgLevel[n + 1], NEW c \in Parts(m) PROVE c \in ArgLevel[n]
    <3>1. c \in ArgLevel[(n + 1) - 1]
      BY ArgShape
    <3>2. (n + 1) - 1 = n
      OBVIOUS
    <3> QED BY <3>1, <3>2
  <2>4. \A c \in ArgLevel[n] : f[c] = EmptyOf(f, c)
    BY <2>2
  <2> QED BY <2>3, <2>4, <1>1
<1>4. Depth \in T
  <2> HIDE DEF T
  <2> QED BY <1>2, <1>3, Induction, DepthAssumption
<1>5. \E f : f = [m \in Arg |-> EmptyOf(f, m)]
  BY <1>4, DepthAssumption DEF Arg
<1>6. StartsEmpty = [m \in Arg |-> EmptyOf(StartsEmpty, m)]
  BY <1>5 DEF StartsEmpty, EmptyOf
<1> QED BY <1>6, Zenon

\* Which arguments start empty, by their form.
LEMMA EmptyEquations ==
  ASSUME NEW m \in Arg
  PROVE  /\ m.t = "vec" => (StartsEmpty[m] <=> m.of = << >> \/ StartsEmpty[m.of[1]])
         /\ m.t = "some" => (StartsEmpty[m] <=> StartsEmpty[m.of])
         /\ m = None => StartsEmpty[m]
<1> DEFINE S == StartsEmpty
<1>1. S[m] = EmptyOf(S, m)
  BY EmptyIs
<1> HIDE DEF S
<1>2. /\ m.t = "vec" => S[m] = (m.of = << >> \/ S[m.of[1]])
      /\ m.t = "some" => S[m] = S[m.of]
      /\ m.t \notin {"vec", "some"} => S[m] = (m = None)
  BY <1>1, Zenon DEF EmptyOf
<1>3. None.t \notin {"vec", "some"}
  BY DEF None
<1>4. m.t = "vec" => (S[m] <=> m.of = << >> \/ S[m.of[1]])
  BY <1>2, Zenon
<1>5. m.t = "some" => (S[m] <=> S[m.of])
  BY <1>2, Zenon
<1>6. m = None => S[m]
  BY <1>2, <1>3, Zenon
<1> QED BY <1>4, <1>5, <1>6 DEF S

(***************************************************************************)
(* The elements of a list that are kept                                    *)
(***************************************************************************)

\* The members of x at the places of Q, each in a list of its own; and those places.
Keep(k, Q, x) == [i \in 1..k |-> IF i \in Q THEN <<x[i]>> ELSE << >>]

Itself(k) == [i \in 1..k |-> i]

Indices(k, Q) == FlattenSeq(Keep(k, Q, Itself(k)))

\* The elements are at the same places whatever they are.
Placed(a, b, x, Q) == a \in Seq(Q) /\ b = [j \in 1..Len(a) |-> x[a[j]]]

\* One more place, or none.
LEMMA PlacedJoined ==
  ASSUME NEW Q, NEW x, NEW a, NEW b, Placed(a, b, x, Q)
  PROVE  /\ Placed(a \o << >>, b \o << >>, x, Q)
         /\ \A i \in Q : Placed(a \o <<i>>, b \o <<x[i]>>, x, Q)
<1>1. a \in Seq(Q) /\ b = [j \in 1..Len(a) |-> x[a[j]]] /\ Len(a) \in Nat
  BY DEF Placed
<1>2. \A j \in 1..Len(a) : a[j] \in Q /\ x[a[j]] \in {x[q] : q \in Q}
  BY <1>1
<1> DEFINE V == {x[q] : q \in Q}
<1>3. b \in Seq(V) /\ Len(b) = Len(a)
  <2> HIDE DEF V
  <2>1. \A j \in 1..Len(a) : x[a[j]] \in V
    BY <1>2 DEF V
  <2> QED BY <1>1, <2>1
<1>4. a \o << >> = a /\ b \o << >> = b
  <2> HIDE DEF V
  <2> QED BY <1>1, <1>3
<1>5. ASSUME NEW i \in Q PROVE Placed(a \o <<i>>, b \o <<x[i]>>, x, Q)
  <2> DEFINE c == a \o <<i>>
  <2> DEFINE y == x[i]
  <2> DEFINE d == b \o <<y>>
  <2>1. /\ c \in Seq(Q) /\ Len(c) = Len(a) + 1 /\ c[Len(a) + 1] = i
        /\ \A j \in 1..Len(a) : c[j] = a[j]
    BY <1>1
  <2>2. y \in V
    OBVIOUS
  <2> HIDE DEF y, V
  <2>3. /\ d \in Seq(V) /\ Len(d) = Len(a) + 1 /\ d[Len(a) + 1] = y
        /\ \A j \in 1..Len(a) : d[j] = b[j]
    BY <1>1, <1>3, <2>2
  <2> HIDE DEF c, d
  <2>4. \A j \in 1..Len(c) : d[j] = x[c[j]]
    <3> SUFFICES ASSUME NEW j \in 1..Len(c) PROVE d[j] = x[c[j]]
      OBVIOUS
    <3>1. CASE j \in 1..Len(a)
      BY <1>1, <2>1, <2>3, <3>1
    <3>2. CASE j = Len(a) + 1
      BY <2>1, <2>3, <3>2 DEF y
    <3>3. j \in 1..Len(a) \/ j = Len(a) + 1
      BY <1>1, <2>1
    <3> QED BY <3>1, <3>2, <3>3
  <2>5. d = [j \in 1..Len(c) |-> x[c[j]]]
    <3>1. d = [j \in 1..Len(c) |-> d[j]]
      BY <2>1, <2>3
    <3> QED BY <2>4, <3>1
  <2> QED BY <2>1, <2>5 DEF Placed, c, d, y
<1> QED BY <1>1, <1>4, <1>5 DEF Placed

\* What is kept of x is what x has at the places that are kept.
LEMMA Kept ==
  ASSUME NEW k \in Nat, NEW Q, Q \subseteq 1..k, NEW x
  PROVE  Placed(Indices(k, Q), FlattenSeq(Keep(k, Q, x)), x, Q)
<1> DEFINE ss == Keep(k, Q, Itself(k))
<1> DEFINE tt == Keep(k, Q, x)
<1>1. /\ DOMAIN ss = 1..k /\ DOMAIN tt = 1..k
      /\ \A i \in 1..k : /\ i \in Q => ss[i] = <<i>> /\ tt[i] = <<x[i]>>
                         /\ i \notin Q => ss[i] = << >> /\ tt[i] = << >>
  BY DEF Keep, Itself
<1>2. Len(ss) = k /\ Len(tt) = k
  BY DEF Keep
<1> HIDE DEF ss, tt
<1>3. Placed(<< >>, << >>, x, Q)
  BY DEF Placed
<1>4. \A i \in Q : Placed(<<i>>, <<x[i]>>, x, Q)
  <2> SUFFICES ASSUME NEW i \in Q PROVE Placed(<<i>>, <<x[i]>>, x, Q)
    OBVIOUS
  <2> DEFINE a == <<i>>
  <2> DEFINE b == <<x[i]>>
  <2>1. << >> \o a = a /\ << >> \o b = b
    OBVIOUS
  <2>2. Placed(<< >> \o a, << >> \o b, x, Q)
    BY <1>3, PlacedJoined
  <2> HIDE DEF a, b
  <2>3. Placed(a, b, x, Q)
    BY <2>1, <2>2
  <2> QED BY <2>3 DEF a, b
<1>5. CASE k = 0
  <2>1. ss = << >> /\ tt = << >>
    BY <1>5 DEF ss, tt, Keep
  <2>2. FlattenSeq(ss) = << >> /\ FlattenSeq(tt) = << >>
    BY <2>1 DEF FlattenSeq
  <2> QED BY <1>3, <2>2 DEF Indices, ss, tt
<1>6. CASE k # 0
  <2>1. PICK a : Steps(a, ss) /\ FlattenSeq(ss) = a[k]
    BY <1>1, <1>2, <1>6, FlattenSteps
  <2>2. PICK b : Steps(b, tt) /\ FlattenSeq(tt) = b[k]
    BY <1>1, <1>2, <1>6, FlattenSteps
  <2>3. /\ a[1] = ss[1] /\ \A i \in 2..k : a[i] = a[i - 1] \o ss[i]
        /\ b[1] = tt[1] /\ \A i \in 2..k : b[i] = b[i - 1] \o tt[i]
    BY <1>2, <2>1, <2>2 DEF Steps
  <2> DEFINE T == {n \in Nat : n + 1 \in 1..k => Placed(a[n + 1], b[n + 1], x, Q)}
  <2>4. 0 \in T
    <3>1. 1 \in 1..k
      BY <1>6
    <3>2. Placed(a[1], b[1], x, Q)
      <4>1. CASE 1 \in Q
        <5>1. a[1] = <<1>> /\ b[1] = <<x[1]>>
          BY <1>1, <2>3, <3>1, <4>1, Zenon
        <5> QED BY <1>4, <4>1, <5>1
      <4>2. CASE 1 \notin Q
        <5>1. a[1] = << >> /\ b[1] = << >>
          BY <1>1, <2>3, <3>1, <4>2, Zenon
        <5> QED BY <1>3, <5>1
      <4> QED BY <4>1, <4>2
    <3> QED BY <3>2
  <2>5. ASSUME NEW n \in Nat, n \in T PROVE n + 1 \in T
    <3> SUFFICES ASSUME (n + 1) + 1 \in 1..k PROVE Placed(a[(n + 1) + 1], b[(n + 1) + 1], x, Q)
      OBVIOUS
    <3> DEFINE i == (n + 1) + 1
    <3>1. n + 1 \in 1..k /\ i \in 2..k /\ i - 1 = n + 1 /\ i \in 1..k
      OBVIOUS
    <3>2. Placed(a[n + 1], b[n + 1], x, Q)
      BY <3>1, <2>5
    <3>3. a[i] = a[n + 1] \o ss[i] /\ b[i] = b[n + 1] \o tt[i]
      BY <2>3, <3>1
    <3> HIDE DEF i
    <3> DEFINE c == a[n + 1]
    <3> DEFINE d == b[n + 1]
    <3>6. Placed(c \o << >>, d \o << >>, x, Q) /\ \A q \in Q : Placed(c \o <<q>>, d \o <<x[q]>>, x, Q)
      BY <3>2, PlacedJoined
    <3>7. a[i] = c \o ss[i] /\ b[i] = d \o tt[i]
      BY <3>3
    <3> HIDE DEF c, d
    <3>4. ASSUME i \in Q PROVE Placed(a[i], b[i], x, Q)
      <4>1. ss[i] = <<i>> /\ tt[i] = <<x[i]>>
        BY <1>1, <3>1, <3>4, Zenon
      <4>2. Placed(c \o ss[i], d \o tt[i], x, Q)
        BY <3>4, <3>6, <4>1
      <4> QED BY <3>7, <4>2, Zenon
    <3>5. ASSUME i \notin Q PROVE Placed(a[i], b[i], x, Q)
      <4>1. ss[i] = << >> /\ tt[i] = << >>
        BY <1>1, <3>1, <3>5, Zenon
      <4>2. Placed(c \o ss[i], d \o tt[i], x, Q)
        BY <3>6, <4>1
      <4> QED BY <3>7, <4>2, Zenon
    <3>8. Placed(a[i], b[i], x, Q)
      BY <3>4, <3>5
    <3> QED BY <3>8 DEF i
  <2>6. Nat \subseteq T
    <3> HIDE DEF T
    <3> QED BY <2>4, <2>5, Induction
  <2>7. k - 1 \in Nat /\ (k - 1) + 1 = k /\ k \in 1..k
    BY <1>6
  <2>8. Placed(a[k], b[k], x, Q)
    BY <2>6, <2>7
  <2> QED BY <2>1, <2>2, <2>8 DEF Indices, ss, tt
<1> QED BY <1>5, <1>6

(***************************************************************************)
(* The forms of arguments                                                  *)
(***************************************************************************)

\* The forms of arguments.
LEMMA ArgForms ==
  ASSUME NEW m \in Arg
  PROVE  /\ m.t = "num" => m = Num(m.w, m.n)
         /\ m.t = "text" => m = Str(m.v)
         /\ m.t = "vec" => m = Vec(m.of)
         /\ m.t = "some" => m = Some(m.of)
         /\ m.t = "none" => m = None
<1> DEFINE inner == Inner(ArgLevel, Depth)
<1>1. m \in ArgsOver(inner)
  BY ArgLevels, DepthAssumption DEF Arg
<1> HIDE DEF inner
<1> DEFINE seqs == Seq(inner)
<1> DEFINE nums == [t : {"num"}, w : DOMAIN Limit, n : Int]
<1> DEFINE bools == [t : {"bool"}, b : BOOLEAN]
<1> DEFINE addrs == [t : {"address"}, a : STRING]
<1> DEFINE texts == [t : {"text"}, v : Value]
<1> DEFINE structs == [t : {"struct"}, tag : Tag]
<1> DEFINE vecs == [t : {"vec"}, of : seqs]
<1> DEFINE somes == [t : {"some"}, of : inner]
<1> HIDE DEF seqs
<1>2. \/ m \in {Refused, None} \/ m \in nums \/ m \in bools \/ m \in addrs \/ m \in texts
      \/ m \in structs \/ m \in vecs \/ m \in somes
  BY <1>1, Zenon DEF ArgsOver, seqs
<1>3. CASE m \in {Refused, None}
  BY <1>3 DEF Refused, None
<1>4. CASE m \in nums
  BY <1>4 DEF Num
<1>5. CASE m \in bools \/ m \in addrs \/ m \in structs
  BY <1>5
<1>6. CASE m \in texts
  BY <1>6 DEF Str
<1>7. CASE m \in vecs
  BY <1>7 DEF Vec
<1>8. CASE m \in somes
  BY <1>8 DEF Some
<1> QED BY <1>2, <1>3, <1>4, <1>5, <1>6, <1>7, <1>8

\* What is left out is what pushes nothing.
LEMMA LeftOutIff ==
  ASSUME NEW m \in Arg, m.t # "refused"
  PROVE  LeftOut(m) <=> Pushed[m] = << >>
<1>1. /\ m.t \in {"refused", "none", "num", "bool", "address", "text", "struct", "vec", "some"}
      /\ m.t = "text" => m.v \in Value
  BY ArgKinds, DepthAssumption DEF Arg
<1>2. Pushed[m] = PushedOf(Pushed, m)
  BY PushedIs
<1>3. CASE m.t = "text"
  <2>1. m = Str(m.v) /\ m.v \in Value
    BY <1>1, <1>3, ArgForms
  <2>2. Pushed[m] = << >> <=> TextValue(m.v) = TextOf(<< >>)
    <3> DEFINE x == TextValue(m.v)
    <3> DEFINE e == TextOf(<< >>)
    <3>1. Pushed[m] = IF x = e THEN << >> ELSE <<x>>
      BY <1>2, <1>3 DEF PushedOf
    <3> HIDE DEF x, e
    <3>2. <<x>> # << >>
      OBVIOUS
    <3>3. Pushed[m] = << >> <=> x = e
      BY <3>1, <3>2
    <3> QED BY <3>3 DEF x, e
  <2>3. Pushed[m] = << >> <=> m.v = Text(<< >>)
    BY <2>1, <2>2, TextTells
  <2>4. m = Str(Text(<< >>)) <=> m.v = Text(<< >>)
    BY <2>1 DEF Str
  <2> QED BY <1>3, <2>3, <2>4 DEF LeftOut
<1>4. CASE m.t = "struct"
  BY <1>4, PushedForms DEF LeftOut
<1>5. CASE m.t \in {"none", "num", "bool", "address", "vec", "some"}
  <2>1. m # Str(Text(<< >>))
    BY <1>5 DEF Str
  <2>2. Pushed[m] # << >>
    BY <1>5, PushedForms
  <2> QED BY <1>5, <2>1, <2>2 DEF LeftOut
<1> QED BY <1>1, <1>3, <1>4, <1>5

(***************************************************************************)
(* What the hash of an argument determines                                 *)
(***************************************************************************)

\* What is hashed of a list, if it can be hashed.
LEMMA EncodedList ==
  ASSUME NEW x \in Data, NEW type \in EipTypes, NEW s, x = ListOf(s),
         Encoded[x][ArrayOf(type)] # CannotHash
  PROVE  /\ Encoded[x][ArrayOf(type)] = ListOf([i \in DOMAIN s |-> Encoded[s[i]][type]])
         /\ \A i \in DOMAIN s : Encoded[s[i]][type] # CannotHash
<1> DEFINE E == Encoded
<1>1. \A t \in EipTypes : E[x][t] = EncodedAt(E, x, t)
  <2>1. E[x] = EncodedOf(E, x)
    BY EncodedIs
  <2> HIDE DEF E
  <2> QED BY <2>1 DEF EncodedOf
<1>5. E[x][ArrayOf(type)] # CannotHash
  OBVIOUS
<1> HIDE DEF E
<1> DEFINE items == EncodedItems(E, x, ArrayOf(type))
<1>2. "xs" \in DOMAIN x /\ x.xs = s
  BY DEF ListOf
<1>3. E[x][ArrayOf(type)] = IF Hashable(items) THEN ListOf(items) ELSE CannotHash
  BY <1>1, <1>2, Dimensions DEF EncodedAt
<1>4. items = [i \in DOMAIN s |-> E[s[i]][type]]
  <2>1. Shorter(ArrayOf(type)) = type
    BY Dimensions
  <2> QED BY <1>2, <2>1 DEF EncodedItems
<1>6. Hashable(items) /\ E[x][ArrayOf(type)] = ListOf(items)
  <2> HIDE DEF items
  <2> QED BY <1>3, <1>5
<1>7. \A i \in DOMAIN s : E[s[i]][type] # CannotHash
  <2> HIDE DEF items
  <2> QED BY <1>4, <1>6 DEF Hashable, Range
<1>8. E[x][ArrayOf(type)] = ListOf([i \in DOMAIN s |-> E[s[i]][type]])
  BY <1>4, <1>6
<1> QED BY <1>7, <1>8 DEF E

\* What is hashed of an atom is the atom.
LEMMA AtomsKept ==
  ASSUME NEW x \in Data
  PROVE  /\ \A base \in {"bool", "address"} : Encoded[x][Eip(base)] = x
         /\ "xs" \notin DOMAIN x => Encoded[x][Eip("string")] = x
         /\ \A base \in DOMAIN Limit : \A k :
              x = NumberOf(k) /\ Encoded[x][Eip(base)] # CannotHash =>
                Encoded[x][Eip(base)] = x /\ Double(k) \in 0..Limit[base] /\ Double(k) < TwoTo53
<1>2. DOMAIN Limit = {"u8", "u16", "u32", "u64", "u128", "u256"}
  BY Points
<1>3. \A base \in Bases : Encoded[x][Eip(base)] = EncodedAtom(x, base)
  BY EncodedEquations
<1>4. ASSUME NEW base \in {"bool", "address"} PROVE EncodedAtom(x, base) = x
  BY <1>2, <1>4 DEF EncodedAtom
<1>5. "xs" \notin DOMAIN x => EncodedAtom(x, "string") = x
  BY <1>2 DEF EncodedAtom
<1>6. ASSUME NEW base \in DOMAIN Limit, NEW k, x = NumberOf(k), EncodedAtom(x, base) # CannotHash
      PROVE  EncodedAtom(x, base) = x /\ Double(k) \in 0..Limit[base] /\ Double(k) < TwoTo53
  <2>1. "n" \in DOMAIN x /\ x.n = Double(k)
    BY <1>6 DEF NumberOf
  <2>2. base # "string"
    BY <1>2
  <2>3. EncodedAtom(x, base)
          = IF x.n \in 0..Limit[base] /\ x.n < TwoTo53 THEN x ELSE CannotHash
    BY <2>1, <2>2 DEF EncodedAtom
  <2> QED BY <1>6, <2>1, <2>3
<1> QED BY <1>3, <1>4, <1>5, <1>6 DEF Bases

\* A number below 2^53 is the double that it is converted to.
LEMMA DoublesTell ==
  ASSUME NEW k \in Int, NEW l \in Int, NumberOf(k) = NumberOf(l), Double(k) < TwoTo53
  PROVE  k = l
<1>1. Double(k) = Double(l)
  BY DEF NumberOf
<1>2. \A i \in Int : Double(i) < TwoTo53 => Double(i) = i
  BY SMTT(30) DEF Double, TwoTo53, TwoTo53Plus1, U64Max, U128Max, U256Max, TwoTo64, TwoTo128, TwoTo256
<1> QED BY <1>1, <1>2

\* What Blurred leaves, by the form of the argument.
LEMMA BlurredEquations ==
  ASSUME NEW m \in Arg
  PROVE  /\ m.t = "vec" => Blurred[m] = Vec(BlurredParts(Blurred, m))
         /\ m.t = "some" => Blurred[m] = IF LeftOut(m.of) THEN None ELSE Some(Blurred[m.of])
         /\ m.t \notin {"vec", "some"} => Blurred[m] = m
<1> DEFINE B == Blurred
<1>1. B[m] = BlurredOf(B, m)
  BY BlurredIs
<1> HIDE DEF B
<1>2. /\ m.t = "vec" => B[m] = Vec(BlurredParts(B, m))
      /\ m.t = "some" => B[m] = IF LeftOut(m.of) THEN None ELSE Some(B[m.of])
      /\ m.t \notin {"vec", "some"} => B[m] = m
  BY <1>1 DEF BlurredOf
<1> QED BY <1>2 DEF B

\* What the elements of a vector push, and what is left of them.
PushedAt(m) == [i \in DOMAIN m.of |-> Pushed[m.of[i]][1]]

BlurredAt(m) == [i \in DOMAIN m.of |-> Blurred[m.of[i]]]

\* The elements at the places a are those that are pushed.
KeptAs(m, a) ==
  /\ a \in Seq(DOMAIN m.of)
  /\ AllPushed(Pushed, m) = ListOf([j \in 1..Len(a) |-> PushedAt(m)[a[j]]])
  /\ Blurred[m] = Vec([j \in 1..Len(a) |-> BlurredAt(m)[a[j]]])
  /\ \A j \in 1..Len(a) : Pushed[m.of[a[j]]] = <<PushedAt(m)[a[j]]>>

\* The elements of a vector are arguments.
Elementary(m) == \A i \in DOMAIN m.of : m.of[i] \in Arg /\ m.of[i].t # "refused"

\* A vector pushes its elements, and Blurred leaves them, at the same places.
LEMMA ElementsKept ==
  ASSUME NEW m \in Arg, m.t = "vec", m.of # << >>, Elementary(m)
  PROVE  \E a : KeptAs(m, a)
<1> DEFINE k == Len(m.of)
<1> DEFINE Q == {i \in DOMAIN m.of : Pushed[m.of[i]] # << >>}
<1> DEFINE X == PushedAt(m)
<1> DEFINE B == BlurredAt(m)
<1> DEFINE a == Indices(k, Q)
<1>1. m.of \in Seq(Arg) /\ k \in Nat /\ DOMAIN m.of = 1..k /\ Q \subseteq 1..k
  <2>1. m.of \in Seq(Arg)
    BY ArgShape, DepthAssumption DEF Arg
  <2> QED BY <2>1
<1>2. \A i \in 1..k : /\ m.of[i] \in Arg /\ (LeftOut(m.of[i]) <=> Pushed[m.of[i]] = << >>)
                      /\ Pushed[m.of[i]] # << >> => Pushed[m.of[i]] = <<X[i]>>
  <2> SUFFICES ASSUME NEW i \in 1..k
               PROVE  /\ m.of[i] \in Arg /\ (LeftOut(m.of[i]) <=> Pushed[m.of[i]] = << >>)
                      /\ Pushed[m.of[i]] # << >> => Pushed[m.of[i]] = <<X[i]>>
    OBVIOUS
  <2>1. m.of[i] \in Arg /\ m.of[i].t # "refused" /\ i \in DOMAIN m.of
    BY <1>1 DEF Elementary
  <2>2. AtMostOne(Pushed[m.of[i]], Data)
    BY <2>1, PushedForms
  <2>3. Pushed[m.of[i]] # << >> => Pushed[m.of[i]] = <<Pushed[m.of[i]][1]>>
    BY <2>2 DEF AtMostOne
  <2>4. X[i] = Pushed[m.of[i]][1]
    BY <2>1 DEF PushedAt
  <2> QED BY <2>1, <2>3, <2>4, LeftOutIff
<1>3. Keep(k, Q, X) = [i \in DOMAIN m.of |-> Pushed[m.of[i]]]
  <2> HIDE DEF X, k
  <2>1. \A i \in 1..k : (IF i \in Q THEN <<X[i]>> ELSE << >>) = Pushed[m.of[i]]
    <3>1. \A i \in 1..k : i \in Q <=> Pushed[m.of[i]] # << >>
      BY <1>1
    <3> HIDE DEF Q
    <3> QED BY <1>2, <3>1
  <2> HIDE DEF Q
  <2> QED BY <1>1, <2>1 DEF Keep
<1>4. Keep(k, Q, B) = [i \in DOMAIN m.of |-> IF LeftOut(m.of[i]) THEN << >> ELSE <<Blurred[m.of[i]]>>]
  <2>0. \A i \in 1..k : B[i] = Blurred[m.of[i]]
    BY <1>1 DEF BlurredAt
  <2> HIDE DEF B, k
  <2>1. \A i \in 1..k : (IF i \in Q THEN <<B[i]>> ELSE << >>)
                          = (IF LeftOut(m.of[i]) THEN << >> ELSE <<Blurred[m.of[i]]>>)
    <3>1. \A i \in 1..k : i \in Q <=> ~LeftOut(m.of[i])
      BY <1>1, <1>2
    <3> HIDE DEF Q
    <3> QED BY <2>0, <3>1
  <2> HIDE DEF Q
  <2> QED BY <1>1, <2>1 DEF Keep
<1>5. Placed(a, FlattenSeq(Keep(k, Q, X)), X, Q) /\ Placed(a, FlattenSeq(Keep(k, Q, B)), B, Q)
  <2> HIDE DEF X, B, k, Q
  <2> QED BY <1>1, Kept
<1> HIDE DEF a
<1>6. /\ a \in Seq(Q)
      /\ FlattenSeq([i \in DOMAIN m.of |-> Pushed[m.of[i]]]) = [j \in 1..Len(a) |-> X[a[j]]]
      /\ BlurredParts(Blurred, m) = [j \in 1..Len(a) |-> B[a[j]]]
  <2> HIDE DEF X, B, k, Q
  <2> QED BY <1>3, <1>4, <1>5 DEF Placed, BlurredParts
<1>7. a \in Seq(DOMAIN m.of) /\ \A j \in 1..Len(a) : a[j] \in Q /\ a[j] \in 1..k
  <2>1. Q \subseteq DOMAIN m.of
    OBVIOUS
  <2> HIDE DEF Q
  <2>2. a \in Seq(Q)
    BY <1>6
  <2>3. a \in Seq(DOMAIN m.of)
    BY <2>1, <2>2, SeqsGrow
  <2> QED BY <1>1, <2>2, <2>3
<1>8. \A j \in 1..Len(a) : Pushed[m.of[a[j]]] = <<X[a[j]]>>
  BY <1>2, <1>7
<1>9. AllPushed(Pushed, m) = ListOf([j \in 1..Len(a) |-> X[a[j]]])
  <2> DEFINE ss == [i \in DOMAIN m.of |-> Pushed[m.of[i]]]
  <2>1. ss # << >>
    BY <1>1
  <2>2. AllPushed(Pushed, m) = IF ss = << >> THEN Brackets ELSE ListOf(FlattenSeq(ss))
    BY DEF AllPushed, VectorToString
  <2>3. FlattenSeq(ss) = [j \in 1..Len(a) |-> X[a[j]]]
    BY <1>6
  <2> HIDE DEF ss, X
  <2> QED BY <2>1, <2>2, <2>3
<1>10. Blurred[m] = Vec([j \in 1..Len(a) |-> B[a[j]]])
  <2>1. Blurred[m] = Vec(BlurredParts(Blurred, m))
    BY BlurredEquations
  <2> HIDE DEF B
  <2> QED BY <2>1, <1>6
<1>11. KeptAs(m, a)
  <2> HIDE DEF X, B
  <2> QED BY <1>7, <1>8, <1>9, <1>10 DEF KeptAs, X, B
<1> QED BY <1>11

\* Two arguments of which the same is hashed, in a vector that starts with f.
Determined(m, n, f) ==
  \A x, y : /\ Pushed[m] = <<x>> /\ Pushed[n] = <<y>>
            /\ Encoded[x][Eip712Type[f]] = Encoded[y][Eip712Type[f]]
            /\ Encoded[x][Eip712Type[f]] # CannotHash
            => Blurred[m] = Blurred[n]

DeterminedAll(g) == \A m, n, f \in Given(g) : ~StartsEmpty[f] => Determined(m, n, f)

\* The hash of a vector determines it if those of its elements do.
LEMMA VectorDetermined ==
  ASSUME NEW m \in Arg, m.t = "vec", m.of # << >>, Elementary(m),
         NEW n \in Arg, n.t = "vec", n.of # << >>, Elementary(n),
         NEW f \in Arg, f.t = "vec", f.of # << >>, f.of[1] \in Arg,
         \A i \in DOMAIN m.of, j \in DOMAIN n.of : Determined(m.of[i], n.of[j], f.of[1])
  PROVE  Determined(m, n, f)
<1> DEFINE type == Eip712Type[f.of[1]]
<1> DEFINE x == AllPushed(Pushed, m)
<1> DEFINE y == AllPushed(Pushed, n)
<1>1. Pushed[m] = <<x>> /\ Pushed[n] = <<y>>
  BY PushedForms
<1>2. x \in Data /\ y \in Data
  <2>1. AtMostOne(Pushed[m], Data) /\ AtMostOne(Pushed[n], Data)
    BY PushedForms
  <2> HIDE DEF x, y
  <2> QED BY <1>1, <2>1 DEF AtMostOne
<1>3. Eip712Type[f] = ArrayOf(type) /\ type \in EipTypes
  BY EipEquations, EipTyped
<1> DEFINE X == PushedAt(m)
<1> DEFINE Y == PushedAt(n)
<1>4. PICK a : KeptAs(m, a)
  BY ElementsKept
<1>5. PICK b : KeptAs(n, b)
  BY ElementsKept
<1> DEFINE s == [j \in 1..Len(a) |-> X[a[j]]]
<1> DEFINE t == [j \in 1..Len(b) |-> Y[b[j]]]
<1>6. /\ x = ListOf(s) /\ DOMAIN s = 1..Len(a) /\ Len(a) \in Nat
      /\ \A j \in 1..Len(a) : a[j] \in DOMAIN m.of /\ Pushed[m.of[a[j]]] = <<s[j]>>
      /\ Blurred[m] = Vec([j \in 1..Len(a) |-> BlurredAt(m)[a[j]]])
  <2>1. a \in Seq(DOMAIN m.of)
    BY <1>4 DEF KeptAs
  <2> QED BY <1>4, <2>1 DEF KeptAs
<1>7. /\ y = ListOf(t) /\ DOMAIN t = 1..Len(b) /\ Len(b) \in Nat
      /\ \A j \in 1..Len(b) : b[j] \in DOMAIN n.of /\ Pushed[n.of[b[j]]] = <<t[j]>>
      /\ Blurred[n] = Vec([j \in 1..Len(b) |-> BlurredAt(n)[b[j]]])
  <2>1. b \in Seq(DOMAIN n.of)
    BY <1>5 DEF KeptAs
  <2> QED BY <1>5, <2>1 DEF KeptAs
<1> HIDE DEF x, y, s, t, X, Y, type
<1> SUFFICES ASSUME Encoded[x][ArrayOf(type)] = Encoded[y][ArrayOf(type)],
                    Encoded[x][ArrayOf(type)] # CannotHash
             PROVE  Blurred[m] = Blurred[n]
  <2>1. \A z, w : <<z>> = <<w>> => z = w
    OBVIOUS
  <2> QED BY <1>1, <1>3, <2>1 DEF Determined
<1> DEFINE u == [j \in 1..Len(a) |-> Encoded[s[j]][type]]
<1> DEFINE v == [j \in 1..Len(b) |-> Encoded[t[j]][type]]
<1>8. /\ Encoded[x][ArrayOf(type)] = ListOf(u)
      /\ \A j \in 1..Len(a) : Encoded[s[j]][type] # CannotHash
  BY <1>2, <1>3, <1>6, EncodedList
<1>9. Encoded[y][ArrayOf(type)] = ListOf(v)
  BY <1>2, <1>3, <1>7, EncodedList
<1>10. u = v
  <2> HIDE DEF u, v
  <2>1. \A p, q : ListOf(p) = ListOf(q) => p = q
    BY DEF ListOf
  <2>2. ListOf(u) = ListOf(v)
    BY <1>8, <1>9
  <2> QED BY <2>1, <2>2, Zenon
<1>11. Len(a) = Len(b) /\ \A j \in 1..Len(a) : Encoded[s[j]][type] = Encoded[t[j]][type]
  <2> DEFINE p == [j \in 1..Len(a) |-> Encoded[s[j]][type]]
  <2>1. DOMAIN u = 1..Len(a) /\ DOMAIN v = 1..Len(b)
    OBVIOUS
  <2>2. Len(a) = Len(b)
    <3> HIDE DEF u, v
    <3> QED BY <1>6, <1>7, <1>10, <2>1
  <2>3. \A j \in 1..Len(a) : u[j] = Encoded[s[j]][type] /\ v[j] = Encoded[t[j]][type]
    BY <2>2
  <2> HIDE DEF u, v
  <2> QED BY <1>10, <2>2, <2>3
<1>12. ASSUME NEW j \in 1..Len(a) PROVE BlurredAt(m)[a[j]] = BlurredAt(n)[b[j]]
  <2>1. a[j] \in DOMAIN m.of /\ b[j] \in DOMAIN n.of
    BY <1>6, <1>7, <1>11
  <2>2. Determined(m.of[a[j]], n.of[b[j]], f.of[1])
    BY <2>1
  <2>3. Pushed[m.of[a[j]]] = <<s[j]>> /\ Pushed[n.of[b[j]]] = <<t[j]>>
    BY <1>6, <1>7, <1>11
  <2>4. Blurred[m.of[a[j]]] = Blurred[n.of[b[j]]]
    BY <2>2, <2>3, <1>8, <1>11, Zenon DEF Determined, type
  <2> QED BY <2>1, <2>4 DEF BlurredAt
<1>13. [j \in 1..Len(a) |-> BlurredAt(m)[a[j]]] = [j \in 1..Len(b) |-> BlurredAt(n)[b[j]]]
  BY <1>11, <1>12
<1> QED BY <1>6, <1>7, <1>13

\* The hash of an option determines it if that of its value does.
LEMMA SomeDetermined ==
  ASSUME NEW m \in Arg, NEW n \in Arg, NEW f \in Arg, f.t = "some", f.of \in Arg,
         m.t = "some" \/ m = None, n.t = "some" \/ n = None,
         m.t = "some" => m.of \in Arg /\ m.of.t # "refused",
         n.t = "some" => n.of \in Arg /\ n.of.t # "refused",
         m.t = "some" /\ n.t = "some" => Determined(m.of, n.of, f.of)
  PROVE  Determined(m, n, f)
<1> DEFINE type == Eip712Type[f.of]
<1>1. Eip712Type[f] = ArrayOf(type) /\ type \in EipTypes
  BY EipEquations, EipTyped
<1> DEFINE list(k) == IF k.t = "some" THEN Pushed[k.of] ELSE << >>
<1> DEFINE s == list(m)
<1> DEFINE t == list(n)
<1>2. ASSUME NEW k \in Arg, k.t = "some" \/ k = None,
             k.t = "some" => k.of \in Arg /\ k.of.t # "refused"
      PROVE  /\ Pushed[k] = <<ListOf(list(k))>> /\ ListOf(list(k)) \in Data
             /\ list(k) = << >> => Blurred[k] = None
             /\ list(k) # << >> => k.t = "some" /\ Pushed[k.of] = list(k)
                                   /\ Blurred[k] = Some(Blurred[k.of])
             /\ list(k) = << >> \/ \E z : list(k) = <<z>>
  <2>1. Pushed[k] = <<ListOf(list(k))>>
    <3>1. CASE k.t = "some"
      BY <1>2, <3>1, PushedForms
    <3>2. CASE k = None
      <4>1. k.t = "none"
        BY <3>2 DEF None
      <4> QED BY <4>1, PushedForms
    <3> QED BY <1>2, <3>1, <3>2
  <2>2. ListOf(list(k)) \in Data
    <3> DEFINE z == ListOf(list(k))
    <3>1. AtMostOne(Pushed[k], Data)
      BY PushedForms
    <3> HIDE DEF z
    <3>2. z \in Data
      BY <2>1, <3>1 DEF AtMostOne, z
    <3> QED BY <3>2 DEF z
  <2>3. CASE k.t = "some"
    <3>1. k.of \in Arg /\ k.of.t # "refused" /\ list(k) = Pushed[k.of]
      BY <1>2, <2>3
    <3>2. LeftOut(k.of) <=> list(k) = << >>
      BY <3>1, LeftOutIff
    <3>3. Blurred[k] = IF LeftOut(k.of) THEN None ELSE Some(Blurred[k.of])
      BY <2>3, BlurredEquations
    <3>4. list(k) = << >> \/ \E z : list(k) = <<z>>
      BY <3>1, PushedForms DEF AtMostOne
    <3> HIDE DEF list
    <3> QED BY <2>1, <2>2, <2>3, <3>1, <3>2, <3>3, <3>4
  <2>4. CASE k = None
    <3>1. k.t = "none" /\ list(k) = << >>
      BY <2>4 DEF None
    <3>2. Blurred[k] = None
      BY <2>4, <3>1, BlurredEquations
    <3> HIDE DEF list
    <3> QED BY <2>1, <2>2, <3>1, <3>2
  <2> QED BY <1>2, <2>3, <2>4
<1>3. /\ Pushed[m] = <<ListOf(s)>> /\ ListOf(s) \in Data
      /\ s = << >> => Blurred[m] = None
      /\ s # << >> => m.t = "some" /\ Pushed[m.of] = s /\ Blurred[m] = Some(Blurred[m.of])
      /\ s = << >> \/ \E z : s = <<z>>
  <2> HIDE DEF list
  <2> QED BY <1>2
<1>4. /\ Pushed[n] = <<ListOf(t)>> /\ ListOf(t) \in Data
      /\ t = << >> => Blurred[n] = None
      /\ t # << >> => n.t = "some" /\ Pushed[n.of] = t /\ Blurred[n] = Some(Blurred[n.of])
      /\ t = << >> \/ \E z : t = <<z>>
  <2> HIDE DEF list
  <2> QED BY <1>2
<1> DEFINE x == ListOf(s)
<1> DEFINE y == ListOf(t)
<1> HIDE DEF s, t, type
<1> SUFFICES ASSUME Encoded[x][ArrayOf(type)] = Encoded[y][ArrayOf(type)],
                    Encoded[x][ArrayOf(type)] # CannotHash
             PROVE  Blurred[m] = Blurred[n]
  <2> HIDE DEF x, y
  <2>1. \A z, w : <<z>> = <<w>> => z = w
    OBVIOUS
  <2>2. Pushed[m] = <<x>> /\ Pushed[n] = <<y>>
    BY <1>3, <1>4 DEF x, y
  <2> QED BY <1>1, <2>1, <2>2 DEF Determined
<1> DEFINE u == [j \in DOMAIN s |-> Encoded[s[j]][type]]
<1> DEFINE v == [j \in DOMAIN t |-> Encoded[t[j]][type]]
<1>5. Encoded[x][ArrayOf(type)] = ListOf(u) /\ \A j \in DOMAIN s : Encoded[s[j]][type] # CannotHash
  <2> HIDE DEF type
  <2> QED BY <1>1, <1>3, EncodedList
<1>6. Encoded[y][ArrayOf(type)] = ListOf(v)
  <2> HIDE DEF type
  <2> QED BY <1>1, <1>4, EncodedList
<1>7. u = v
  <2> HIDE DEF u, v
  <2>1. \A p, q : ListOf(p) = ListOf(q) => p = q
    BY DEF ListOf
  <2>2. ListOf(u) = ListOf(v)
    BY <1>5, <1>6
  <2> QED BY <2>1, <2>2, Zenon
<1>8. DOMAIN s = DOMAIN t /\ \A j \in DOMAIN s : Encoded[s[j]][type] = Encoded[t[j]][type]
  <2>1. DOMAIN u = DOMAIN s /\ DOMAIN v = DOMAIN t
    OBVIOUS
  <2>2. DOMAIN s = DOMAIN t
    <3> HIDE DEF u, v
    <3> QED BY <1>7, <2>1
  <2>3. \A j \in DOMAIN s : u[j] = Encoded[s[j]][type] /\ v[j] = Encoded[t[j]][type]
    BY <2>2
  <2> HIDE DEF u, v
  <2> QED BY <1>7, <2>2, <2>3
<1>9. CASE s = << >>
  <2>1. t = << >>
    <3>1. \A z : DOMAIN <<z>> # DOMAIN << >>
      OBVIOUS
    <3> QED BY <1>4, <1>8, <1>9, <3>1
  <2> QED BY <1>3, <1>4, <1>9, <2>1
<1>10. CASE s # << >>
  <2>1. PICK z : s = <<z>>
    BY <1>3, <1>10
  <2>2. t # << >>
    <3>1. DOMAIN <<z>> # DOMAIN << >>
      OBVIOUS
    <3> QED BY <1>8, <2>1, <3>1
  <2>3. PICK w : t = <<w>>
    BY <1>4, <2>2
  <2>4. 1 \in DOMAIN s /\ s[1] = z /\ t[1] = w
    BY <2>1, <2>3
  <2>5. Encoded[z][type] = Encoded[w][type] /\ Encoded[z][type] # CannotHash
    BY <1>5, <1>8, <2>4
  <2>6. m.t = "some" /\ n.t = "some" /\ Pushed[m.of] = <<z>> /\ Pushed[n.of] = <<w>>
    BY <1>3, <1>4, <1>10, <2>1, <2>2, <2>3
  <2>7. Determined(m.of, n.of, f.of)
    BY <2>6
  <2>8. Blurred[m.of] = Blurred[n.of]
    BY <2>5, <2>6, <2>7, Zenon DEF Determined, type
  <2> QED BY <1>3, <1>4, <1>10, <2>2, <2>8
<1> QED BY <1>9, <1>10

\* What is given for a type is an argument.
LEMMA GivenIsArg == \A g \in Tag : \A m \in Given(g) : m \in Arg /\ m.t # "refused"
<1> SUFFICES ASSUME NEW g \in Tag, NEW m \in Given(g) PROVE m \in Arg /\ m.t # "refused"
  OBVIOUS
<1>1. Depth \in 0..Depth /\ g \in TagLevel[Depth]
  BY DepthAssumption DEF Tag
<1>2. m \in Arg /\ (m.t = Form(g) \/ (Form(g) = "option" /\ m.t \in {"none", "some"}))
  BY <1>1, GivenShape
<1>3. Form(g) \in {"num", "bool", "address", "vec", "text", "option", "struct"}
  BY DEF Form
<1> QED BY <1>2, <1>3

\* The hash determines what is given for a type if it does for its parts,
LEMMA DeterminedStep ==
  ASSUME NEW k \in 0..Depth, NEW g \in TagLevel[k], \A c \in Children(g) : DeterminedAll(c)
  PROVE  DeterminedAll(g)
<1> SUFFICES ASSUME NEW m \in Given(g), NEW n \in Given(g), NEW f \in Given(g), ~StartsEmpty[f]
             PROVE  Determined(m, n, f)
  BY DEF DeterminedAll
<1>0. \A a \in Given(g) :
        /\ a \in Arg
        /\ a.t = Form(g) \/ (Form(g) = "option" /\ a.t \in {"none", "some"})
        /\ a.t = "num" => a.w = Width(g) /\ a.w \in DOMAIN Limit
        /\ a.t = "vec" => g.k = "vector" /\ a.of \in Seq(Given(g.of))
        /\ a.t = "some" => g.args[1] \in Children(g) /\ a.of \in Given(g.args[1])
  BY GivenShape
<1>1. /\ m \in Arg /\ n \in Arg /\ f \in Arg
      /\ m.t = Form(g) \/ (Form(g) = "option" /\ m.t \in {"none", "some"})
      /\ n.t = Form(g) \/ (Form(g) = "option" /\ n.t \in {"none", "some"})
      /\ f.t = Form(g) \/ (Form(g) = "option" /\ f.t \in {"none", "some"})
  BY <1>0
<1>2. Form(g) \in {"num", "bool", "address", "vec", "text", "option", "struct"}
  BY DEF Form
<1>4. \A c \in Children(g) : c \in Tag
  BY TagShape, TagsNested
<1>5. \A c \in Children(g) : \A a \in Given(c) : a \in Arg /\ a.t # "refused"
  BY <1>4, GivenIsArg
<1>6. ASSUME NEW a \in Arg, NEW x, Pushed[a] = <<x>>
      PROVE  x \in Data
  <2>1. AtMostOne(Pushed[a], Data)
    BY PushedForms
  <2>2. \A z, y : <<z>> # << >> /\ (<<z>> = <<y>> => z = y)
    OBVIOUS
  <2> QED BY <1>6, <2>1, <2>2 DEF AtMostOne
<1>7. \A z, y : <<z>> # << >> /\ (<<z>> = <<y>> => z = y)
  OBVIOUS
<1>8. ASSUME NEW x, NEW y, Pushed[m] = <<x>>, Pushed[n] = <<y>>,
             Encoded[x][Eip712Type[f]] = Encoded[y][Eip712Type[f]],
             Encoded[x][Eip712Type[f]] # CannotHash, Form(g) \notin {"vec", "option"}
      PROVE  Blurred[m] = Blurred[n]
  <2>1. m.t = Form(g) /\ n.t = Form(g) /\ f.t = Form(g)
    BY <1>1, <1>8
  <2>2. x \in Data /\ y \in Data
    BY <1>1, <1>6, <1>8
  <2>3. Blurred[m] = m /\ Blurred[n] = n
    BY <1>1, <1>2, <1>8, <2>1, BlurredEquations
  <2>4. CASE Form(g) = "num"
    <3>1. m = Num(m.w, m.n) /\ n = Num(n.w, n.n) /\ m.w = n.w /\ f.w = m.w /\ m.w \in DOMAIN Limit
      BY <1>0, <1>1, <2>1, <2>4, ArgForms
    <3>2. m.n \in Int /\ n.n \in Int
      BY <1>1, <2>1, <2>4, ArgKinds, DepthAssumption DEF Arg
    <3>3. Pushed[m] = <<NumberOf(m.n)>> /\ Pushed[n] = <<NumberOf(n.n)>>
      BY <1>1, <2>1, <2>4, PushedForms
    <3>4. x = NumberOf(m.n) /\ y = NumberOf(n.n)
      BY <1>7, <1>8, <3>3
    <3>5. Eip712Type[f] = Eip(m.w)
      BY <1>1, <2>1, <2>4, <3>1, EipEquations
    <3>6. Encoded[x][Eip(m.w)] = x /\ Double(m.n) < TwoTo53
      BY <2>2, <3>1, <3>4, <3>5, <1>8, AtomsKept
    <3>7. Encoded[y][Eip(m.w)] = y
      BY <2>2, <3>1, <3>4, <3>5, <1>8, AtomsKept
    <3>8. NumberOf(m.n) = NumberOf(n.n)
      BY <3>4, <3>5, <3>6, <3>7, <1>8
    <3>9. m.n = n.n
      BY <3>2, <3>6, <3>8, DoublesTell
    <3> QED BY <2>3, <3>1, <3>9
  <2>5. CASE Form(g) \in {"bool", "address"}
    <3>1. Pushed[m] = <<m>> /\ Pushed[n] = <<n>>
      BY <1>1, <2>1, <2>5, PushedForms
    <3>2. x = m /\ y = n
      BY <1>7, <1>8, <3>1
    <3>3. Eip712Type[f] = Eip(f.t) /\ f.t \in {"bool", "address"}
      BY <1>1, <2>1, <2>5, EipEquations
    <3>4. Encoded[x][Eip(f.t)] = x /\ Encoded[y][Eip(f.t)] = y
      BY <2>2, <3>3, AtomsKept
    <3> QED BY <2>3, <3>2, <3>3, <3>4, <1>8
  <2>6. CASE Form(g) = "text"
    <3>1. m = Str(m.v) /\ n = Str(n.v)
      BY <1>1, <2>1, <2>6, ArgForms
    <3>2. m.v \in Value /\ n.v \in Value
      BY <1>1, <2>1, <2>6, ArgKinds, DepthAssumption DEF Arg
    <3>3. /\ Pushed[m] = << >> \/ Pushed[m] = <<TextValue(m.v)>>
          /\ Pushed[n] = << >> \/ Pushed[n] = <<TextValue(n.v)>>
      BY <1>1, <2>1, <2>6, PushedForms
    <3>4. x = TextValue(m.v) /\ y = TextValue(n.v)
      BY <1>7, <1>8, <3>3
    <3>5. Eip712Type[f] = Eip("string")
      BY <1>1, <2>1, <2>6, EipEquations
    <3>6. \A v : "xs" \notin DOMAIN TextValue(v)
      BY DEF TextValue, TextOf
    <3>7. Encoded[x][Eip("string")] = x /\ Encoded[y][Eip("string")] = y
      BY <2>2, <3>4, <3>6, AtomsKept
    <3>8. m.v = n.v
      BY <1>8, <3>2, <3>4, <3>5, <3>7, TextTells
    <3> QED BY <2>3, <3>1, <3>8
  <2>7. CASE Form(g) = "struct"
    <3>1. Pushed[m] = << >>
      BY <1>1, <2>1, <2>7, PushedForms
    <3> QED BY <1>7, <1>8, <3>1
  <2> QED BY <1>2, <1>8, <2>4, <2>5, <2>6, <2>7
<1>9. CASE Form(g) \notin {"vec", "option"}
  BY <1>8, <1>9, Zenon DEF Determined
<1>10. CASE Form(g) = "vec"
  <2>1. m.t = "vec" /\ n.t = "vec" /\ f.t = "vec" /\ g.k = "vector"
    BY <1>0, <1>1, <1>10
  <2>2. g.of \in Children(g)
    BY <2>1 DEF Children
  <2>3. DeterminedAll(g.of) /\ \A a \in Given(g.of) : a \in Arg /\ a.t # "refused"
    BY <1>5, <2>2
  <2>4. m.of \in Seq(Given(g.of)) /\ n.of \in Seq(Given(g.of)) /\ f.of \in Seq(Given(g.of))
    BY <1>0, <2>1
  <2>5. f.of # << >> /\ ~StartsEmpty[f.of[1]]
    BY <1>1, <2>1, EmptyEquations
  <2>6. f.of[1] \in Given(g.of)
    BY <2>4, <2>5, FirstElement
  <2>7. Eip712Type[f] = ArrayOf(Eip712Type[f.of[1]]) /\ Eip712Type[f.of[1]] \in EipTypes
    BY <1>1, <2>1, <2>3, <2>5, <2>6, EipEquations, EipTyped
  <2>8. ASSUME NEW a \in Given(g), a.t = "vec", a.of = << >>
        PROVE  \A x : Pushed[a] = <<x>> => Encoded[x][Eip712Type[f]] = CannotHash
    <3>1. Pushed[a] = <<Brackets>>
      BY <1>0, <2>8, PushedForms
    <3>2. Brackets \in Data /\ "xs" \notin DOMAIN Brackets
      <4>1. Brackets \in Data
        BY <1>0, <1>6, <3>1
      <4>2. "xs" \notin DOMAIN TextOf(Utf8(<<91, 93>>))
        BY DEF TextOf
      <4> QED BY <4>1, <4>2 DEF Brackets
    <3>3. Encoded[Brackets][Eip712Type[f]] = CannotHash
      BY <2>7, <3>2, EncodedEquations
    <3>4. \A x : <<Brackets>> = <<x>> => x = Brackets
      OBVIOUS
    <3> QED BY <3>1, <3>3, <3>4
  <2>9. CASE m.of = << >>
    BY <2>1, <2>8, <2>9 DEF Determined
  <2>10. CASE n.of = << >>
    BY <2>1, <2>8, <2>10 DEF Determined
  <2>11. CASE m.of # << >> /\ n.of # << >>
    <3>1. Elementary(m) /\ Elementary(n)
      BY <2>3, <2>4 DEF Elementary
    <3>2. \A i \in DOMAIN m.of, j \in DOMAIN n.of : Determined(m.of[i], n.of[j], f.of[1])
      <4>1. \A i \in DOMAIN m.of : m.of[i] \in Given(g.of)
        BY <2>4
      <4>2. \A j \in DOMAIN n.of : n.of[j] \in Given(g.of)
        BY <2>4
      <4> QED BY <4>1, <4>2, <2>3, <2>5, <2>6 DEF DeterminedAll
    <3> QED BY <1>1, <2>1, <2>3, <2>5, <2>6, <2>11, <3>1, <3>2, VectorDetermined
  <2> QED BY <2>9, <2>10, <2>11
<1>11. CASE Form(g) = "option"
  <2>1. \A a \in Given(g) : a.t = "some" \/ a = None
    <3> SUFFICES ASSUME NEW a \in Given(g) PROVE a.t = "some" \/ a = None
      OBVIOUS
    <3>1. a \in Arg /\ a.t \in {"option", "none", "some"}
      BY <1>0, <1>11
    <3>2. a.t # "option"
      BY <3>1, ArgKinds, DepthAssumption DEF Arg
    <3> QED BY <3>1, <3>2, ArgForms
  <2>2. f.t = "some" /\ ~StartsEmpty[f.of]
    BY <1>1, <2>1, EmptyEquations
  <2>3. /\ g.args[1] \in Children(g) /\ f.of \in Given(g.args[1])
        /\ m.t = "some" => m.of \in Given(g.args[1])
        /\ n.t = "some" => n.of \in Given(g.args[1])
    BY <1>0, <2>2
  <2>4. DeterminedAll(g.args[1]) /\ \A a \in Given(g.args[1]) : a \in Arg /\ a.t # "refused"
    BY <1>5, <2>3
  <2>5. m.t = "some" /\ n.t = "some" => Determined(m.of, n.of, f.of)
    BY <2>2, <2>3, <2>4 DEF DeterminedAll
  <2> QED BY <1>1, <2>1, <2>2, <2>3, <2>4, <2>5, SomeDetermined
<1> QED BY <1>9, <1>10, <1>11

\* and so for every type.
LEMMA EverythingDetermined == \A g \in Tag : DeterminedAll(g)
<1> DEFINE T == {n \in Nat : n \in 0..Depth => \A g \in TagLevel[n] : DeterminedAll(g)}
<1>1. 0 \in T
  <2>1. \A g \in TagLevel[0] : Children(g) = {}
    BY TagShape, DepthAssumption
  <2> QED BY <2>1, DeterminedStep
<1>2. ASSUME NEW n \in Nat, n \in T PROVE n + 1 \in T
  <2> SUFFICES ASSUME n + 1 \in 0..Depth, NEW g \in TagLevel[n + 1] PROVE DeterminedAll(g)
    OBVIOUS
  <2>1. n \in 0..Depth /\ (n + 1) - 1 = n
    BY DepthAssumption
  <2>2. \A c \in Children(g) : c \in TagLevel[n]
    BY <2>1, TagShape
  <2>3. \A c \in Children(g) : DeterminedAll(c)
    BY <2>1, <2>2, <1>2
  <2> QED BY <2>3, DeterminedStep
<1>3. Nat \subseteq T
  <2> HIDE DEF T
  <2> QED BY <1>1, <1>2, Induction
<1> QED BY <1>3, DepthAssumption DEF Tag

\* For a parameter that is a struct nothing but its type is given.
LEMMA StructGiven ==
  ASSUME NEW g \in Tag, NEW m \in Given(g), m.t = "struct"
  PROVE  m = EmptyStruct(g)
<1> DEFINE E == ToEntryFunctionArgument
<1>1. PICK v \in Value : m = E[g][v] /\ m # Refused
  BY Zenon DEF Given
<1>2. m \in Arg /\ Depth \in 0..Depth /\ g \in TagLevel[Depth]
  BY GivenIsArg, DepthAssumption DEF Tag
<1>3. Form(g) = "struct"
  BY <1>2, GivenShape
<1>4. ~Framework(g) /\ ~IsSimple(g) /\ g.k # "vector"
  <2>1. DOMAIN Limit = {"u8", "u16", "u32", "u64", "u128", "u256"}
    BY Points
  <2>2. Framework(g) <=> \/ g = StringTag \/ Is(g, "option", "Option") \/ Is(g, "object", "Object")
                         \/ Fixed(g)
    BY DEF Framework, Fixed
  <2>3. ~Numeric(g) /\ g.k \notin {"bool", "address", "vector"} /\ g # StringTag
        /\ ~Is(g, "option", "Option") /\ ~Is(g, "object", "Object")
    BY <1>3, <2>1 DEF Form, Numeric
  <2>4. g.k \notin DOMAIN Limit /\ ~Fixed(g)
    BY <2>3 DEF Numeric
  <2> QED BY <2>1, <2>2, <2>3, <2>4 DEF IsSimple, Primitives
<1>5. g.k = "struct"
  BY <1>1, <1>4, EntryEquations
<1> QED BY <1>1, <1>4, <1>5, EntryEquations

\* The value and the type of an argument in the message determine it, up to what is left out,
\* unless it starts with an empty one.
LEMMA ValueDetermined ==
  ASSUME NEW g \in Tag, NEW m \in Given(g), NEW n \in Given(g),
         Eip712Type[m] = Eip712Type[n],
         Encoded[Eip712Value(m)][Eip712Type[m]] = Encoded[Eip712Value(n)][Eip712Type[n]],
         Encoded[Eip712Value(m)][Eip712Type[m]] # CannotHash
  PROVE  Blurred[m] = Blurred[n] \/ (StartsEmpty[m] /\ StartsEmpty[n])
<1> SUFFICES ASSUME ~StartsEmpty[m] \/ ~StartsEmpty[n] PROVE Blurred[m] = Blurred[n]
  OBVIOUS
<1>1. Depth \in 0..Depth /\ g \in TagLevel[Depth]
  BY DepthAssumption DEF Tag
<1>2. /\ m \in Arg /\ n \in Arg
      /\ m.t = Form(g) \/ (Form(g) = "option" /\ m.t \in {"none", "some"})
      /\ n.t = Form(g) \/ (Form(g) = "option" /\ n.t \in {"none", "some"})
  BY <1>1, GivenShape
<1>3. Form(g) \in {"num", "bool", "address", "vec", "text", "option", "struct"}
  BY DEF Form
<1>4. m.t # "option" /\ n.t # "option"
  BY <1>2, ArgKinds, DepthAssumption DEF Arg
<1>5. ASSUME NEW k \in Arg, k.t \in {"num", "bool", "address", "vec", "some"}
      PROVE  Pushed[k] = <<Eip712Value(k)>>
  <2>1. Pushed[k] = PushedOf(Pushed, k)
    BY PushedIs
  <2>2. k.t = "num" => Eip712Value(k) = NumberOf(k.n) /\ PushedOf(Pushed, k) = <<NumberOf(k.n)>>
    BY DEF Eip712Value, PushedOf
  <2>3. k.t \in {"bool", "address"} => Eip712Value(k) = k /\ PushedOf(Pushed, k) = <<k>>
    BY DEF Eip712Value, PushedOf
  <2>4. k.t = "vec" => Eip712Value(k) = AllPushed(Pushed, k)
                       /\ PushedOf(Pushed, k) = <<AllPushed(Pushed, k)>>
    BY DEF Eip712Value, PushedOf, AllPushed
  <2>5. k.t = "some" => Eip712Value(k) = VectorToString(<<Pushed[k.of]>>)
                        /\ PushedOf(Pushed, k) = <<VectorToString(<<Pushed[k.of]>>)>>
    BY DEF Eip712Value, PushedOf
  <2> QED BY <1>5, <2>1, <2>2, <2>3, <2>4, <2>5
<1>6. CASE m.t \in {"num", "bool", "address", "vec", "some"} /\ n.t \in {"num", "bool", "address", "vec", "some"}
  <2>1. Pushed[m] = <<Eip712Value(m)>> /\ Pushed[n] = <<Eip712Value(n)>>
    BY <1>2, <1>5, <1>6
  <2>2. \A f \in {m, n} : ~StartsEmpty[f] => Determined(m, n, f)
    BY EverythingDetermined DEF DeterminedAll
  <2>3. ASSUME NEW f \in {m, n}, Determined(m, n, f) PROVE Blurred[m] = Blurred[n]
    <3>1. /\ Encoded[Eip712Value(m)][Eip712Type[f]] = Encoded[Eip712Value(n)][Eip712Type[f]]
          /\ Encoded[Eip712Value(m)][Eip712Type[f]] # CannotHash
      OBVIOUS
    <3> QED BY <2>1, <2>3, <3>1, Zenon DEF Determined
  <2> QED BY <2>2, <2>3
<1>7. CASE m.t = "text" \/ n.t = "text"
  <2>1. m.t = "text" /\ n.t = "text"
    BY <1>2, <1>3, <1>7
  <2>2. m = Str(m.v) /\ n = Str(n.v) /\ m.v \in Value /\ n.v \in Value
    BY <1>2, <2>1, ArgForms, ArgKinds, DepthAssumption DEF Arg
  <2>3. Eip712Type[m] = Eip("string") /\ Eip712Type[n] = Eip("string")
    BY <1>2, <2>1, EipEquations
  <2>4. Eip712Value(m) = TextValue(m.v) /\ Eip712Value(n) = TextValue(n.v)
    BY <2>1 DEF Eip712Value
  <2>5. \A v : "xs" \notin DOMAIN TextValue(v)
    BY DEF TextValue, TextOf
  <2>6. TextValue(m.v) \in Data /\ TextValue(n.v) \in Data
    BY <1>1, <2>2, DataMade DEF Data
  <2>7. TextValue(m.v) = TextValue(n.v)
    <3>1. \A v \in Value : TextValue(v) \in Data => Encoded[TextValue(v)][Eip("string")] = TextValue(v)
      BY <2>5, AtomsKept
    <3> QED BY <2>2, <2>3, <2>4, <2>6, <3>1
  <2>8. m.v = n.v
    BY <2>2, <2>7, TextTells
  <2> QED BY <2>2, <2>8
<1>8. CASE m.t = "struct" \/ n.t = "struct"
  <2>1. m.t = "struct" /\ n.t = "struct"
    BY <1>2, <1>3, <1>8
  <2> QED BY <2>1, StructGiven
<1>9. CASE m.t = "none" \/ n.t = "none"
  <2>1. m.t \in {"none", "some"} /\ n.t \in {"none", "some"}
    BY <1>2, <1>3, <1>4, <1>9
  <2>2. ASSUME NEW a \in Arg, NEW b \in Arg, a.t = "none", b.t = "some", Eip712Type[a] = Eip712Type[b],
               b.of \in Arg
        PROVE  FALSE
    <3>1. Eip712Type[a] = Eip("string") /\ Eip712Type[b] = ArrayOf(Eip712Type[b.of])
      BY <2>2, EipEquations
    <3>2. Eip("string").dims = 0
      BY Dimensions DEF Bases
    <3>3. ArrayOf(Eip712Type[b.of]).dims # 0
      BY <2>2, EipTyped, Dimensions
    <3> QED BY <2>2, <3>1, <3>2, <3>3
  <2>3. (m.t = "some" => m.of \in Arg) /\ (n.t = "some" => n.of \in Arg)
    <3>1. \A a \in Arg : a.t = "some" => a.of \in Arg
      <4> SUFFICES ASSUME NEW a \in Arg, a.t = "some" PROVE a.of \in Arg
        OBVIOUS
      <4>1. a.of \in Parts(a)
        BY DEF Parts
      <4>2. Depth \in 0..Depth /\ a \in ArgLevel[Depth]
        BY DepthAssumption DEF Arg
      <4>3. a.of \in ArgLevel[Depth]
        BY <4>1, <4>2, ArgShape
      <4> QED BY <4>3 DEF Arg
    <3> QED BY <1>2, <3>1
  <2>4. m.t = "none" /\ n.t = "none"
    BY <1>2, <1>9, <2>1, <2>2, <2>3
  <2>5. StartsEmpty[m] /\ StartsEmpty[n]
    BY <1>2, <2>4, ArgForms, EmptyEquations
  <2> QED BY <2>5
<1> QED BY <1>2, <1>3, <1>4, <1>6, <1>7, <1>8, <1>9

(***************************************************************************)
(* Two transactions of one builder                                         *)
(***************************************************************************)

\* The type arguments of a payload are types that the parser gives.
LEMMA TagsSound ==
  ASSUME NEW types \in TypeArguments \cup {c.tyArgs : c \in Calls},
         \A i \in DOMAIN types : ParseTypeTag(Texts(types)[i], << >>).ok
  PROVE  [i \in DOMAIN types |-> ParseTypeTag(Texts(types)[i], << >>).tag] \in Seq(Sound)
<1>1. types \in Seq(Tag)
  BY RivalsAssumption
<1>2. ASSUME NEW i \in DOMAIN types PROVE ParseTypeTag(Texts(types)[i], << >>).tag \in Sound
  <2> DEFINE text == TypeTagToString[types[i]]
  <2> DEFINE p == ParseTypeTag(text, << >>)
  <2>1. Texts(types)[i] = text
    BY DEF Texts
  <2>2. p.ok
    BY <1>2, <2>1
  <2>3. p.ok => p.tag \in Tag
    BY <1>2, RivalsAssumption
  <2>4. types[i] \in Tag
    BY <1>1, <1>2
  <2>5. text \in Words
    BY <2>4, TextTyped
  <2>6. p = Parser(<< >>)[text]["tag"]
    <3>1. [j \in DOMAIN << >> |-> Parser(<< >>)[<< >>[j]]["tag"]] = << >>
      OBVIOUS
    <3> QED BY <3>1 DEF ParseTypeTag
  <2> HIDE DEF text
  <2>7. LET q == Parser(<< >>)[text]["tag"] IN q.ok /\ q.tag \in Tag => q.tag \in Sound
    BY <2>5, ParserSound
  <2> HIDE DEF p
  <2>8. p.tag \in Sound
    BY <2>2, <2>3, <2>6, <2>7
  <2> QED BY <2>1, <2>8 DEF p
<1>3. DOMAIN types = 1..Len(types) /\ Len(types) \in Nat
  BY <1>1
<1> QED BY <1>2, <1>3

\* The payload of a transaction, for a parameter of type g.
Composed(g, p) ==
  /\ p.kind \in Kinds
  /\ p.kind # "multisig" => p.ty_args \in Seq(Sound)
  /\ p.kind = "script" => p = ScriptPayload(p.function, p.ty_args, p.args)
  /\ p.kind = "entry" => /\ p = EntryPayload(p.function, p.ty_args, p.args)
                         /\ g \in Tag /\ \E c \in Given(g) : p.args = <<c>>

\* A payload that is not refused is made of sound types and of what the type is given.
LEMMA PayloadComposed ==
  ASSUME NEW kind \in Kinds, NEW func, NEW types \in TypeArguments \cup {c.tyArgs : c \in Calls},
         NEW args, NEW v \in Value, args = <<v>> \/ Len(args) # 1,
         Payload(kind, func, types, args) # Refused, parsed.tag \in Tag
  PROVE  /\ Composed(parsed.tag, Payload(kind, func, types, args))
         /\ Payload(kind, func, types, args).kind = kind
<1> DEFINE p == Payload(kind, func, types, args)
<1> DEFINE converted == Converted(kind, args)
<1> DEFINE ty_args == [i \in DOMAIN types |-> ParseTypeTag(Texts(types)[i], << >>)]
<1> DEFINE tags == [i \in DOMAIN types |-> ty_args[i].tag]
<1> DEFINE bad == \/ func \notin abiMap \/ Refused \in Range(converted)
                  \/ \E i \in DOMAIN types : ~ty_args[i].ok
<1>1. kind \in {"entry", "script", "multisig"}
  BY PayloadsAssumption
<1>2. p = IF bad THEN Refused
          ELSE IF kind = "script" THEN ScriptPayload(func, tags, converted)
          ELSE IF kind = "entry" THEN EntryPayload(func, tags, converted)
          ELSE MultisigPayload(EntryPayload(func, tags, converted))
  BY DEF Payload
<1>3. ~bad
  <2> HIDE DEF bad, tags, converted
  <2> QED BY <1>2
<1>4. p = IF kind = "script" THEN ScriptPayload(func, tags, converted)
          ELSE IF kind = "entry" THEN EntryPayload(func, tags, converted)
          ELSE MultisigPayload(EntryPayload(func, tags, converted))
  <2> HIDE DEF bad, tags, converted
  <2> QED BY <1>2, <1>3
<1>5. tags \in Seq(Sound)
  <2>1. \A i \in DOMAIN types : ParseTypeTag(Texts(types)[i], << >>).ok
    BY <1>3
  <2>2. tags = [i \in DOMAIN types |-> ParseTypeTag(Texts(types)[i], << >>).tag]
    OBVIOUS
  <2> QED BY <2>1, <2>2, TagsSound
<1>6. /\ p.kind = kind
      /\ kind = "entry" => \E c \in Given(parsed.tag) : p.args = <<c>>
  BY PayloadMade
<1> HIDE DEF tags, converted
<1>7. kind = "script" => p.ty_args = tags /\ p = ScriptPayload(p.function, p.ty_args, p.args)
  BY <1>4 DEF ScriptPayload
<1>8. kind = "entry" => p.ty_args = tags /\ p = EntryPayload(p.function, p.ty_args, p.args)
  BY <1>4 DEF EntryPayload
<1> HIDE DEF p
<1> QED BY <1>1, <1>5, <1>6, <1>7, <1>8 DEF Composed, p

\* What the two transactions of a builder are made of.
Compared ==
  /\ stage \in {"built", "signed"} => Composed(parsed.tag, txn.payload)
  /\ stage = "signed" => /\ Composed(parsed.tag, rival.payload)
                         /\ rival.payload.kind = txn.payload.kind

\* Both transactions stay what their builder made them.
LEMMA ComparedInvariant == Spec => []Compared
<1>1. Init => Compared
  BY DEF Init, Compared
<1>2. ASSUME Traced, Compared, [Next]_vars PROVE Compared'
  <2>0. stage \in {"builder", "built"} =>
          /\ parsed.tag \in Tag /\ tyArgs \in {c.tyArgs : c \in Calls}
          /\ ValuesOf(parsed.tag) \subseteq Value /\ RivalsOf(parsed.tag) \subseteq Value
    <3> SUFFICES ASSUME stage \in {"builder", "built"}
                 PROVE  /\ parsed.tag \in Tag /\ tyArgs \in {c.tyArgs : c \in Calls}
                        /\ ValuesOf(parsed.tag) \subseteq Value
                        /\ RivalsOf(parsed.tag) \subseteq Value
      OBVIOUS
    <3>1. PICK c \in Calls : typ = c.text /\ tyArgs = c.tyArgs
      BY <1>2 DEF Traced
    <3>2. parsed = ParseTypeTag(c.text, Texts(c.tyArgs)) /\ parsed.ok
      BY <1>2, <3>1 DEF Traced, HasTag
    <3>3. ValuesOf(parsed.tag) \subseteq Value /\ parsed.tag \in Tag
      BY <3>2, PayloadsAssumption
    <3>4. RivalsOf(parsed.tag) \subseteq Value
      BY <3>2, RivalsAssumption
    <3> QED BY <3>1, <3>3, <3>4
  <2>1. CASE Parse
    BY <2>1 DEF Parse, Compared
  <2>2. ASSUME NEW names \in NameLists, Construct(names) PROVE Compared'
    BY <2>2 DEF Construct, Compared
  <2>3. ASSUME NEW kind \in Kinds, NEW v \in Offered, NEW o \in Variations,
               Build(kind, "f", [i \in 1..o.args |-> v], o.gas, o.agents)
        PROVE  Compared'
    <3> DEFINE args == [i \in 1..o.args |-> v]
    <3> DEFINE p == Payload(kind, "f", tyArgs, args)
    <3>1. o.args \in {1, 2}
      BY PayloadsAssumption
    <3>2. args = <<v>> \/ Len(args) # 1
      BY <3>1
    <3> HIDE DEF args
    <3>3. /\ stage = "builder" /\ parsed' = parsed
          /\ txn' = Transaction(p, o.gas, o.agents)
          /\ stage' = IF txn' = Refused THEN "refused" ELSE "built"
      BY <2>3, Zenon DEF Build, args
    <3>4. /\ parsed.tag \in Tag /\ v \in Value
          /\ tyArgs \in TypeArguments \cup {c.tyArgs : c \in Calls}
      BY <2>0, <3>3 DEF Offered
    <3> SUFFICES ASSUME stage' = "built" PROVE Compared'
      BY <3>3 DEF Compared
    <3> HIDE DEF p
    <3>5. p # Refused /\ txn'.payload = p
      BY <3>3 DEF Transaction
    <3>6. Composed(parsed.tag, p)
      BY <3>2, <3>4, <3>5, PayloadComposed DEF p
    <3>7. Composed(parsed.tag, txn.payload)'
      BY <3>3, <3>5, <3>6 DEF Composed, Given
    <3> QED BY <3>7 DEF Compared
  <2>4. ASSUME NEW v \in Value, NEW types \in TypeArguments \cup {c.tyArgs : c \in Calls},
               BuildRival(v, types)
        PROVE  Compared'
    <3> DEFINE kind == txn.payload.kind
    <3> DEFINE f == CHOOSE f \in abiMap : TRUE
    <3> DEFINE p == Payload(kind, f, types, <<v>>)
    <3>1. /\ stage = "built" /\ stage' = "signed" /\ parsed' = parsed /\ txn' = txn
          /\ rival' = Transaction(p, txn.max_gas_amount, txn.agents) /\ rival' # Refused
      BY <2>4 DEF BuildRival
    <3>2. parsed.tag \in Tag /\ Composed(parsed.tag, txn.payload)
      BY <1>2, <2>0, <3>1 DEF Compared
    <3>3. kind \in Kinds
      BY <3>2 DEF Composed
    <3> HIDE DEF kind, f, p
    <3>4. p # Refused /\ rival'.payload = p
      BY <3>1 DEF Transaction
    <3>5. Composed(parsed.tag, p) /\ p.kind = kind
      BY <3>2, <3>3, <3>4, PayloadComposed DEF p
    <3>6. Composed(parsed.tag, rival.payload)' /\ Composed(parsed.tag, txn.payload)'
      BY <3>1, <3>2, <3>4, <3>5 DEF Composed, Given
    <3> QED BY <3>1, <3>4, <3>5, <3>6 DEF Compared, kind
  <2>5. ASSUME NEW v \in Rivals, BuildRival(v, tyArgs) PROVE Compared'
    BY <2>0, <2>4, <2>5 DEF Rivals, BuildRival
  <2>6. ASSUME NEW types \in TypeArguments, BuildRival(val, types) PROVE Compared'
    BY <1>2, <2>0, <2>4, <2>6 DEF Traced, BuildRival
  <2>7. ASSUME NEW v \in PropertyTexts, WriteProperty(v) PROVE Compared'
    BY <2>7 DEF WriteProperty, Compared
  <2>8. CASE ReadBack
    BY <2>8 DEF ReadBack, Compared
  <2>9. CASE UNCHANGED vars
    BY <1>2, <2>9 DEF vars, Compared, Composed, Given
  <2> QED BY <1>2, <2>1, <2>2, <2>3, <2>5, <2>6, <2>7, <2>8, <2>9 DEF Next
<1> QED BY <1>1, <1>2, TracedInvariant, PTL DEF Spec

\* Type arguments are told by their texts.
LEMMA ListsOfTypesTold ==
  ASSUME NEW a \in Seq(Sound), NEW b \in Seq(Sound), Texts(a) = Texts(b)
  PROVE  a = b
<1>1. DOMAIN Texts(a) = DOMAIN a /\ DOMAIN Texts(b) = DOMAIN b
  BY DEF Texts
<1>2. ASSUME NEW i \in DOMAIN a PROVE a[i] = b[i]
  <2>1. i \in DOMAIN b
    BY <1>1
  <2>2. Texts(a)[i] = TypeTagToString[a[i]] /\ Texts(b)[i] = TypeTagToString[b[i]]
    BY <2>1 DEF Texts
  <2>3. a[i] \in Sound /\ b[i] \in Sound
    BY <2>1
  <2> QED BY <2>2, <2>3, TypesTold
<1>3. DOMAIN a = DOMAIN b
  BY <1>1
<1> QED BY <1>2, <1>3

\* Messages that are the same are those of the same payload.
LEMMA PayloadsCompared ==
  ASSUME NEW t, NEW u, Signed(t) = Signed(u), Signed(t) # CannotHash
  PROVE  /\ PayloadMessage(t.payload) = PayloadMessage(u.payload)
         /\ PayloadMessage(t.payload) # CannotHash
<1> DEFINE payload(x) == PayloadMessage(x.payload)
<1> DEFINE gas(x) == Encoded[NumberOf(x.max_gas_amount)][Eip("u256")]
<1> DEFINE whole(x) == [v |-> "message", payload |-> payload(x), max_gas_amount |-> gas(x)]
<1>1. ASSUME NEW x
      PROVE  SigningMessage(x) = IF x.agents \/ payload(x) = CannotHash \/ gas(x) = CannotHash
                                 THEN CannotHash ELSE whole(x)
  BY DEF SigningMessage
<1>2. SigningMessage(t) = SigningMessage(u) /\ SigningMessage(t) # CannotHash
  <2> DEFINE a == SigningMessage(t)
  <2> DEFINE b == SigningMessage(u)
  <2>1. Signed(t) \in {a, CannotHash} /\ Signed(u) \in {b, CannotHash}
    BY DEF Signed
  <2> HIDE DEF a, b
  <2>2. a = b /\ a # CannotHash
    BY <2>1
  <2> QED BY <2>2 DEF a, b
<1> HIDE DEF payload, gas, whole
<1>3. /\ SigningMessage(t) = whole(t) /\ SigningMessage(u) = whole(u)
      /\ payload(t) # CannotHash
  BY <1>1, <1>2
<1>4. whole(t).payload = payload(t) /\ whole(u).payload = payload(u)
  BY DEF whole
<1>5. payload(t) = payload(u)
  BY <1>2, <1>3, <1>4
<1> QED BY <1>3, <1>5 DEF payload

\* Two scripts of one message are the same.
LEMMA ScriptsDetermined ==
  ASSUME NEW g, NEW p, NEW q, Composed(g, p), Composed(g, q),
         p.kind = "script", q.kind = "script", PayloadMessage(p) = PayloadMessage(q)
  PROVE  p = q
<1> DEFINE texts(x) == Texts(x.ty_args)
<1>1. ASSUME NEW x, x.kind = "script"
      PROVE  PayloadMessage(x) = [v |-> "script", code |-> x.function, tyArgs |-> texts(x),
                                  args |-> x.args]
  <2>1. PayloadMessage(x) = ScriptMessage(x)
    BY <1>1 DEF PayloadMessage
  <2>2. ScriptMessage(x) = [v |-> "script", code |-> x.function, tyArgs |-> texts(x),
                            args |-> x.args]
    BY DEF ScriptMessage
  <2> QED BY <2>1, <2>2
<1> HIDE DEF texts
<1> DEFINE a == PayloadMessage(p)
<1> DEFINE b == PayloadMessage(q)
<1>2. /\ a.code = p.function /\ a.tyArgs = texts(p) /\ a.args = p.args
      /\ b.code = q.function /\ b.tyArgs = texts(q) /\ b.args = q.args
  BY <1>1
<1> HIDE DEF a, b
<1>3. a = b
  BY DEF a, b
<1>4. p.function = q.function /\ texts(p) = texts(q) /\ p.args = q.args
  BY <1>2, <1>3
<1>5. p.ty_args \in Seq(Sound) /\ q.ty_args \in Seq(Sound)
  BY DEF Composed
<1>6. p.ty_args = q.ty_args
  BY <1>4, <1>5, ListsOfTypesTold DEF texts
<1>7. /\ p = ScriptPayload(p.function, p.ty_args, p.args)
      /\ q = ScriptPayload(q.function, q.ty_args, q.args)
  BY DEF Composed
<1> QED BY <1>4, <1>6, <1>7, Zenon

\* The message of an entry function of one argument.
LEMMA EntryTold ==
  ASSUME NEW p, NEW c, p.kind = "entry", p.args = <<c>>, PayloadMessage(p) # CannotHash
  PROVE  LET a == PayloadMessage(p) IN
         /\ a.function = p.function /\ a.tyArgs = Texts(p.ty_args)
         /\ a.types[1] = Eip712Type[c]
         /\ a.args[1] = Encoded[Eip712Value(c)][Eip712Type[c]]
         /\ a.args[1] # CannotHash
<1> DEFINE types == [i \in DOMAIN p.args |-> Eip712Type[p.args[i]]]
<1> DEFINE values == [i \in DOMAIN p.args |-> Encoded[Eip712Value(p.args[i])][types[i]]]
<1> DEFINE texts == Texts(p.ty_args)
<1> DEFINE whole == [v |-> "entry", function |-> p.function, tyArgs |-> texts,
                     types |-> types, args |-> values]
<1> DEFINE a == PayloadMessage(p)
<1>1. a = EntryMessage(p)
  BY DEF PayloadMessage
<1>2. EntryMessage(p) = IF Hashable(values) THEN whole ELSE CannotHash
  BY DEF EntryMessage
<1>3. DOMAIN p.args = {1} /\ p.args[1] = c
  OBVIOUS
<1>4. /\ DOMAIN values = {1} /\ values[1] = Encoded[Eip712Value(c)][Eip712Type[c]]
      /\ types[1] = Eip712Type[c]
  BY <1>3
<1> HIDE DEF types, values, texts
<1>5. /\ whole.function = p.function /\ whole.tyArgs = texts
      /\ whole.types = types /\ whole.args = values
  OBVIOUS
<1> HIDE DEF whole
<1>6. a = whole /\ Hashable(values)
  BY <1>1, <1>2
<1> HIDE DEF a
<1>7. values[1] # CannotHash
  BY <1>4, <1>6 DEF Hashable, Range
<1>8. /\ a.function = p.function /\ a.tyArgs = texts /\ a.types[1] = Eip712Type[c]
      /\ a.args[1] = Encoded[Eip712Value(c)][Eip712Type[c]] /\ a.args[1] # CannotHash
  BY <1>4, <1>5, <1>6, <1>7
<1> QED BY <1>8 DEF a, texts

\* Two calls of entry functions with one message are the same, up to what is left out.
LEMMA EntriesDetermined ==
  ASSUME NEW g, NEW p, NEW q, Composed(g, p), Composed(g, q),
         p.kind = "entry", q.kind = "entry", PayloadMessage(p) = PayloadMessage(q),
         PayloadMessage(p) # CannotHash
  PROVE  \/ StripArgs(p) = StripArgs(q)
         \/ StartsEmpty[p.args[1]] /\ StartsEmpty[q.args[1]] /\ p.ty_args = q.ty_args
<1>1. PICK c \in Given(g) : p.args = <<c>>
  BY DEF Composed
<1>2. PICK d \in Given(g) : q.args = <<d>>
  BY DEF Composed
<1> DEFINE a == PayloadMessage(p)
<1> DEFINE b == PayloadMessage(q)
<1>3. /\ a.function = p.function /\ a.tyArgs = Texts(p.ty_args)
      /\ a.types[1] = Eip712Type[c]
      /\ a.args[1] = Encoded[Eip712Value(c)][Eip712Type[c]]
      /\ a.args[1] # CannotHash
  BY <1>1, EntryTold
<1>4. /\ b.function = q.function /\ b.tyArgs = Texts(q.ty_args)
      /\ b.types[1] = Eip712Type[d]
      /\ b.args[1] = Encoded[Eip712Value(d)][Eip712Type[d]]
  BY <1>2, EntryTold
<1>5. a = b
  OBVIOUS
<1> HIDE DEF a, b
<1>6. p.function = q.function /\ Texts(p.ty_args) = Texts(q.ty_args)
  BY <1>3, <1>4, <1>5
<1>7. /\ Eip712Type[c] = Eip712Type[d]
      /\ Encoded[Eip712Value(c)][Eip712Type[c]] = Encoded[Eip712Value(d)][Eip712Type[d]]
      /\ Encoded[Eip712Value(c)][Eip712Type[c]] # CannotHash
  BY <1>3, <1>4, <1>5
<1>8. g \in Tag /\ p.ty_args \in Seq(Sound) /\ q.ty_args \in Seq(Sound)
  BY DEF Composed
<1>9. p.ty_args = q.ty_args
  BY <1>6, <1>8, ListsOfTypesTold
<1>10. Blurred[c] = Blurred[d] \/ (StartsEmpty[c] /\ StartsEmpty[d])
  BY <1>7, <1>8, ValueDetermined
<1>11. p.args[1] = c /\ q.args[1] = d
  BY <1>1, <1>2
<1>12. ASSUME Blurred[c] = Blurred[d] PROVE StripArgs(p) = StripArgs(q)
  <2>1. /\ p = EntryPayload(p.function, p.ty_args, p.args)
        /\ q = EntryPayload(q.function, q.ty_args, q.args)
    BY DEF Composed
  <2>2. \A f, tys, e : StripArgs(EntryPayload(f, tys, <<e>>)) = EntryPayload(f, tys, <<Blurred[e]>>)
    BY DEF StripArgs, EntryPayload
  <2>3. p = EntryPayload(p.function, p.ty_args, <<c>>)
    BY <1>1, <2>1
  <2>4. q = EntryPayload(p.function, p.ty_args, <<d>>)
    BY <1>2, <1>6, <1>9, <2>1
  <2>5. StripArgs(p) = EntryPayload(p.function, p.ty_args, <<Blurred[c]>>)
    BY <2>2, <2>3, Zenon
  <2>6. StripArgs(q) = EntryPayload(p.function, p.ty_args, <<Blurred[d]>>)
    BY <2>2, <2>4, Zenon
  <2> QED BY <1>12, <2>5, <2>6
<1> QED BY <1>9, <1>10, <1>11, <1>12

\* For types and values nested to any depth, and type arguments of any form: two transactions
\* of one builder are signed with the same message only if they are the same, up to what the
\* message leaves out (getEip712SigningMessage and rawToSigned, builder.ts).
THEOREM MessagesApart == Spec => []MessageDetermines
<1>1. Compared => MessageDetermines
  <2> SUFFICES ASSUME Compared, stage = "signed", Signed(txn) = Signed(rival),
                      Signed(txn) # CannotHash
               PROVE  MessageDetermines
    BY DEF MessageDetermines
  <2> DEFINE p == txn.payload
  <2> DEFINE q == rival.payload
  <2>1. /\ PayloadMessage(p) = PayloadMessage(q) /\ PayloadMessage(p) # CannotHash
    BY PayloadsCompared
  <2>2. Composed(parsed.tag, p) /\ Composed(parsed.tag, q) /\ q.kind = p.kind
    BY DEF Compared
  <2> HIDE DEF p, q
  <2>3. p.kind \in {"entry", "script", "multisig"}
    BY <2>2, PayloadsAssumption DEF Composed
  <2>4. p.kind = "script" => p = q
    BY <2>1, <2>2, ScriptsDetermined
  <2>5. p.kind = "entry" =>
          \/ StripArgs(p) = StripArgs(q)
          \/ StartsEmpty[p.args[1]] /\ StartsEmpty[q.args[1]] /\ p.ty_args = q.ty_args
    BY <2>1, <2>2, EntriesDetermined
  <2>6. \/ p = q \/ p.kind = "multisig"
        \/ p.kind = "entry" /\ StripArgs(p) = StripArgs(q)
        \/ StartsEmpty[p.args[1]] /\ StartsEmpty[q.args[1]] /\ p.ty_args = q.ty_args
    BY <2>3, <2>4, <2>5
  <2> QED BY <2>6 DEF MessageDetermines, p, q
<1> QED BY <1>1, ComparedInvariant, PTL
=============================================================================
