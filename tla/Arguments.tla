----------------------------- MODULE Arguments -----------------------------
(***************************************************************************)
(* What the SDK makes of the JavaScript values a caller passes: the three  *)
(* converters of src/src/transaction_builder/builder_utils.ts, the range   *)
(* checks of src/src/bcs when the result is written, and the property maps *)
(* of src/src/utils/property_map_serde.ts.                                 *)
(*                                                                         *)
(* TLC's integers have 32 bits.  The numbers up to 65536 stand for         *)
(* themselves; larger ones are the boundary points named below, in order.  *)
(***************************************************************************)
EXTENDS TypeTags

U32Max == 100001
TwoTo32 == 100002
SafeMax == 100003
TwoTo53 == 100004
TwoTo53Plus1 == 100005
U64Max == 100006
TwoTo64 == 100007
U128Max == 100008
TwoTo128 == 100009
U256Max == 100010
TwoTo256 == 100011

Limit == [ u8 |-> 255, u16 |-> 65535, u32 |-> U32Max, u64 |-> U64Max, u128 |-> U128Max,
           u256 |-> U256Max ]
\* Number(n): the nearest double.
Double(n) == CASE n = TwoTo53Plus1 -> TwoTo53 [] n = U64Max -> TwoTo64
               [] n = U128Max -> TwoTo128 [] n = U256Max -> TwoTo256 [] OTHER -> n
\* The decimal digits of n.
DigitCount(n) == CASE n = -1 -> 2 [] n \in 0..9 -> 1 [] n \in 10..99 -> 2
                   [] n \in 100..999 -> 3 [] n \in 1000..9999 -> 4 [] n \in 10000..65536 -> 5
                   [] n \in {U32Max, TwoTo32} -> 10 [] n \in SafeMax..TwoTo53Plus1 -> 16
                   [] n \in {U64Max, TwoTo64} -> 20 [] n \in {U128Max, TwoTo128} -> 39
                   [] OTHER -> 78
-----------------------------------------------------------------------------
(* JavaScript values.  A string that is read as a number, a truth value or   *)
(* an address has a form of its own; any other is a text.                   *)

Number(n)      == [js |-> "number", n |-> n]
BigInt(n)      == [js |-> "bigint", n |-> n]
Decimal(n)     == [js |-> "string", form |-> "decimal", n |-> n]    \* "12"
Hex(n)         == [js |-> "string", form |-> "hex", n |-> n]        \* "0xc"
Suffixed(n)    == [js |-> "string", form |-> "suffixed", n |-> n]   \* "12 coins"
Truth(b)       == [js |-> "string", form |-> "truth", b |-> b]      \* "true", "false"
Hexadecimal(a) == [js |-> "string", form |-> "address", a |-> a]    \* "0xcafe"
Text(chars)    == [js |-> "string", form |-> "text", chars |-> chars]
Boolean(b)     == [js |-> "boolean", b |-> b]
Array(of)      == [js |-> "array", of |-> of]
Uint8Array(bytes) == [js |-> "bytes", bytes |-> bytes]
Address(a)     == [js |-> "AccountAddress", a |-> a]
Null           == [js |-> "null"]
Garbled        == [js |-> "string", form |-> "garbled"]   \* some text that nobody wrote

\* The values with at most n arrays one inside the other.
CodeUnit == (0..55295) \cup (57344..65535)   \* no surrogates
CodeUnits == Seq(CodeUnit)
Bytes == Seq(0..255)
Scalars == [js : {"number", "bigint"}, n : Int]
           \cup [js : {"string"}, form : {"decimal", "hex", "suffixed"}, n : Int]
           \cup [js : {"string"}, form : {"truth"}, b : BOOLEAN]
           \cup [js : {"string"}, form : {"address"}, a : STRING]
           \cup [js : {"string"}, form : {"text"}, chars : CodeUnits]
           \cup [js : {"boolean"}, b : BOOLEAN]
           \cup [js : {"bytes"}, bytes : Bytes]
           \cup [js : {"AccountAddress"}, a : STRING]
           \cup {Null}
ValuesOver(inner) == Scalars \cup [js : {"array"}, of : Seq(inner)]
ValueLevel[n \in 0..Depth] == ValuesOver(IF n = 0 THEN {} ELSE ValueLevel[n - 1])
Value == ValueLevel[Depth]

IsString(v) == v.js = "string"
HasForm(v, forms) == IsString(v) /\ v.form \in forms
WhiteSpace == (9..13) \cup {32, 160, 5760} \cup (8192..8202)
              \cup {8232, 8233, 8239, 8287, 12288, 65279}
\* White space only, or nothing.
Blank(v) == HasForm(v, {"text"}) /\ Range(v.chars) \subseteq WhiteSpace

Utf8Char(c) == IF c < 128 THEN <<c>>
               ELSE IF c < 2048 THEN <<192 + (c \div 64), 128 + (c % 64)>>
               ELSE <<224 + (c \div 4096), 128 + ((c \div 64) % 64), 128 + (c % 64)>>
Utf8(chars) == FlattenSeq([i \in DOMAIN chars |-> Utf8Char(chars[i])])
-----------------------------------------------------------------------------
(* What a value is converted to. *)

Refused  == [t |-> "refused"]   \* the code throws
Num(w, n) == [t |-> "num", w |-> w, n |-> n]
Bool(b)  == [t |-> "bool", b |-> b]
Addr(a)  == [t |-> "address", a |-> a]
Str(v)   == [t |-> "text", v |-> v]
Vec(of)  == [t |-> "vec", of |-> of]
Some(of) == [t |-> "some", of |-> of]
None     == [t |-> "none"]
EmptyStruct(tag) == [t |-> "struct", tag |-> tag]   \* a struct with no field
ByteVec(bytes) == Vec([i \in DOMAIN bytes |-> Num("u8", bytes[i])])

\* What is converted from tags with at most n tags one inside the other.
ArgsOver(inner) ==
    {Refused, None} \cup [t : {"num"}, w : DOMAIN Limit, n : Int]
    \cup [t : {"bool"}, b : BOOLEAN] \cup [t : {"address"}, a : STRING]
    \cup [t : {"text"}, v : Value] \cup [t : {"struct"}, tag : Tag]
    \cup [t : {"vec"}, of : Seq(inner)] \cup [t : {"some"}, of : inner]
ArgLevel[n \in 0..Depth] == ArgsOver(IF n = 0 THEN {} ELSE ArgLevel[n - 1])
Arg == ArgLevel[Depth]

NoNumber == -2
EnsureNumber(v) ==
    CASE v.js = "number" -> v.n
      [] HasForm(v, {"decimal", "suffixed"}) -> Double(v.n)   \* parseInt(val, 10) ...
      [] HasForm(v, {"hex"}) -> 0                             \* ... stops at the "x"
      [] OTHER -> NoNumber
EnsureBigInt(v) ==
    CASE v.js \in {"number", "bigint"} \/ HasForm(v, {"decimal", "hex"}) -> v.n
      [] Blank(v) -> 0   \* BigInt("") is 0n
      [] OTHER -> NoNumber
EnsureBoolean(v) == IF v.js = "boolean" \/ HasForm(v, {"truth"}) THEN Bool(v.b) ELSE Refused
\* fromHex; no other string offered for an address consists of hexadecimal digits,
\* and "" is padded to the address zero.
EnsureAddress(v) ==
    IF v.js = "AccountAddress" \/ HasForm(v, {"address"}) THEN Addr(v.a)
    ELSE IF v = Text(<< >>) THEN Addr("0x0") ELSE Refused

ParsedNumber(v, w) == LET n == IF w \in {"u8", "u16", "u32"} THEN EnsureNumber(v)
                               ELSE EnsureBigInt(v)
                      IN IF n = NoNumber THEN Refused ELSE Num(w, n)
Simple(v, tag) == IF tag.k = "bool" THEN EnsureBoolean(v)
                  ELSE IF tag.k = "address" THEN EnsureAddress(v) ELSE ParsedNumber(v, tag.k)
IsSimple(tag) == tag.k \in Primitives
IsBytes(tag) == tag = Vector(Prim("u8"))

AllOf(parts) == IF Refused \in Range(parts) THEN Refused ELSE Vec(parts)

InRange[m \in Arg] ==
    CASE m.t = "num" -> m.n \in 0..Limit[m.w]
      [] m.t = "vec" -> \A i \in DOMAIN m.of : InRange[m.of[i]]
      [] m.t = "some" -> InRange[m.of]
      [] m.t = "refused" -> FALSE
      [] OTHER -> TRUE
WrittenUnchecked(m) == m   \* mutation: the range decorators are gone
\* serialize: the range of each number is checked when it is written.
Written(m) == IF InRange[m] THEN m ELSE Refused

SerializeArg[tag \in Tag] == [v \in Value |->
    CASE IsSimple(tag) -> Written(Simple(v, tag))
      [] IsBytes(tag) /\ v.js = "bytes" -> ByteVec(v.bytes)
      [] IsBytes(tag) /\ HasForm(v, {"text"}) -> ByteVec(Utf8(v.chars))   \* serializeStr
      [] tag.k = "vector" /\ v.js = "array" ->
           AllOf([i \in DOMAIN v.of |-> SerializeArg[tag.of][v.of[i]]])
      [] tag = StringTag /\ IsString(v) -> Str(v)
      [] OTHER -> Refused]

\* mutation: ensureNumber for every width
ToTransactionArgumentNarrow(v, tag) ==
    CASE tag.k \in DOMAIN Limit ->
           IF EnsureNumber(v) = NoNumber THEN Refused ELSE Num(tag.k, EnsureNumber(v))
      [] IsSimple(tag) -> Simple(v, tag)
      [] IsBytes(tag) /\ v.js = "bytes" -> ByteVec(v.bytes)
      [] OTHER -> Refused
ToTransactionArgument(v, tag) ==
    CASE IsSimple(tag) -> Simple(v, tag)
      [] IsBytes(tag) /\ v.js = "bytes" -> ByteVec(v.bytes)
      [] OTHER -> Refused

\* The elements of what is given for a vector; charCodeAt for a text.
HasElements(v, tag) == \/ v.js = "array"
                       \/ IsBytes(tag) /\ (v.js = "bytes" \/ HasForm(v, {"text"}))
Elements(v) ==
    CASE v.js = "array" -> v.of
      [] v.js = "bytes" -> [i \in DOMAIN v.bytes |-> Number(v.bytes[i])]
      [] v.js = "string" -> [i \in DOMAIN v.chars |-> Number(v.chars[i])]
Optional(v, some) == IF v = Null THEN None ELSE IF some = Refused THEN Refused ELSE Some(some)

ToEntryFunctionArgument[tag \in Tag] == [v \in Value |->
    CASE IsSimple(tag) -> Simple(v, tag)
      [] tag.k = "vector" ->
           IF ~HasElements(v, tag) THEN Refused
           ELSE AllOf([i \in DOMAIN Elements(v) |->
                         ToEntryFunctionArgument[tag.of][Elements(v)[i]]])
      [] tag = StringTag -> Str(v)
      [] Is(tag, "option", "Option") ->
           Optional(v, IF tag.args = << >> THEN Refused
                       ELSE ToEntryFunctionArgument[tag.args[1]][v])
      [] Is(tag, "object", "Object") -> EnsureAddress(v)
      [] Is(tag, "fixed_point32", "FixedPoint32") -> ParsedNumber(v, "u64")
      [] Is(tag, "fixed_point64", "FixedPoint64") -> ParsedNumber(v, "u128")
      [] OTHER -> IF tag.k = "struct" THEN EmptyStruct(tag) ELSE Refused]
-----------------------------------------------------------------------------
(* Property maps. *)

\* getPropertyType: "string" and "String" are the tag of 0x1::string::String.
GetPropertyType(typ) == IF typ \in {<<"string">>, <<"String">>} THEN Parsed(StringTag, << >>)
                        ELSE ParseTypeTag(typ, << >>)

Raw(v) == [t |-> "raw", v |-> v]   \* the bytes of the text itself
\* getPropertyValueRaw, and getSinglePropertyValueRaw where it does not throw at ""
GetPropertyValueRaw(v, typ) ==
    LET tag == GetPropertyType(typ)
        m   == IF tag.ok THEN SerializeArg[tag.tag][v] ELSE Refused
    IN IF m = Refused THEN Raw(v) ELSE m

Unreadable == [js |-> "thrown"]
HexOf(m) == [js |-> "string", form |-> "hexOf", m |-> m]
ByteCount(v) == CASE HasForm(v, {"text"}) -> Len(Utf8(v.chars))
                  [] HasForm(v, {"decimal", "suffixed"}) -> DigitCount(v.n)
                  [] OTHER -> 4   \* "true", "0xff"
\* The bytes of a text read as something else; no text starts with a byte 0 or 1.
ReadRaw(v, tag) ==
    CASE tag.k = "u8"      -> IF ByteCount(v) >= 1 THEN Garbled ELSE Unreadable
      [] tag.k = "u64"     -> IF ByteCount(v) >= 8 THEN Garbled ELSE Unreadable
      [] tag.k = "u128"    -> IF ByteCount(v) >= 16 THEN Garbled ELSE Unreadable
      [] tag.k = "address" -> IF ByteCount(v) >= 20 THEN Garbled ELSE Unreadable
      [] tag.k = "bool"    -> Unreadable
      [] OTHER -> HexOf(Raw(v))
Decoded == {"u8", "u64", "u128", "bool", "address"}
Read(m, tag, numbers) ==
    CASE tag.k = "bool" -> Truth(m.b)
      [] tag.k = "address" -> Hexadecimal(m.a)
      [] tag.k \in numbers -> Decimal(m.n)
      [] tag = StringTag -> m.v
      [] OTHER -> HexOf(m)
\* mutation: a u128 is not decoded
DeserializeValueNoU128(m, tag) ==
    IF m.t = "raw" THEN ReadRaw(m.v, tag) ELSE Read(m, tag, {"u8", "u64"})
\* deserializeValueBasedOnTypeTag
DeserializeValue(m, tag) ==
    IF m.t = "raw" THEN ReadRaw(m.v, tag) ELSE Read(m, tag, {"u8", "u64", "u128"})
\* deserializePropertyMap: the type of the entry is parsed again, outside any try.
ReadProperty(m, typ) == LET tag == GetPropertyType(typ)
                        IN IF tag.ok THEN DeserializeValue(m, tag.tag) ELSE Unreadable
=============================================================================
