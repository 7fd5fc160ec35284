------------------------------ MODULE TypeTags ------------------------------
(***************************************************************************)
(* The texts of type tags: TypeTagParser and TypeTagToString of            *)
(* src/src/moveup_types/type_tag.ts.  A text is the sequence of its tokens *)
(* (white space never reaches the parser); the parser consumes it from the *)
(* left, and a function of the parser returns the tag with the tokens that *)
(* are left, or Invalid where the code throws.                             *)
(***************************************************************************)
EXTENDS Integers, Sequences, SequencesExt

CONSTANTS GenericIndex,  \* the words that match /T\d+/, with the number that
                         \* parseInt(word.substring(1)) gives, or NaN
          Depth          \* how deep types and values are nested

NaN == -1
Primitives == {"u8", "u16", "u32", "u64", "u128", "u256", "bool", "address"}
Punctuation == {"::", "<", ">", ","}
Addresses == {"0x1", "0x2"}   \* the words that start with 0x

ASSUME GenericAssumption ==
    /\ \A w \in DOMAIN GenericIndex : GenericIndex[w] \in Nat \cup {NaN}
    /\ DOMAIN GenericIndex \cap (Primitives \cup Punctuation \cup Addresses
                                 \cup {"vector", "string", "signer"}) = {}

ASSUME DepthAssumption == Depth \in Nat

\* Literals are strings, which the provers are not told by TLA+ itself.
ASSUME StringAssumption ==
    Primitives \cup Punctuation \cup Addresses \cup {"0x0", "vector", "string", "String",
                                             "signer"} \subseteq STRING

Prim(name) == [k |-> name]
Vector(of) == [k |-> "vector", of |-> of]
Struct(module, name, args) == [k |-> "struct", address |-> "0x1", module |-> module,
                               name |-> name, args |-> args]
\* What "string" gives: a StructTag that is not wrapped in a TypeTagStruct.
BareString == [k |-> "StructTag"]
StringTag == Struct("string", "String", << >>)

\* The tags with at most n tags one inside the other above a leaf.
TagsOver(inner) ==
    [k : STRING \ {"vector", "struct"}]
    \cup [k : {"vector"}, of : inner]
    \cup [k : {"struct"}, address : Addresses, module : STRING, name : STRING,
          args : Seq(inner)]
TagLevel[n \in 0..Depth] == TagsOver(IF n = 0 THEN {} ELSE TagLevel[n - 1])
Tag == TagLevel[Depth]

Is(tag, module, name) == tag.k = "struct" /\ tag.address = "0x1"
                         /\ tag.module = module /\ tag.name = name
-----------------------------------------------------------------------------
(* The parser. *)

Invalid == [ok |-> FALSE, rest |-> << >>]
Parsed(tag, rest) == [ok |-> TRUE, tag |-> tag, rest |-> rest]
ParsedList(tags, rest) == [ok |-> TRUE, tags |-> tags, rest |-> rest]

Kind(w) == IF w \in Punctuation THEN "punctuation"
           ELSE IF w \in DOMAIN GenericIndex THEN "GENERIC" ELSE "IDENT"
Starts(text, w) == text # << >> /\ Head(text) = w

\* consume
Consume(text, w) == IF Starts(text, w) THEN [ok |-> TRUE, rest |-> Tail(text)] ELSE Invalid

\* 0x..::module::name, without the address: what is left after it
StructName(text) ==
    IF /\ Len(text) >= 4 /\ text[1] = "::" /\ Kind(text[2]) = "IDENT"
       /\ text[3] = "::" /\ Kind(text[4]) = "IDENT"
    THEN Parsed(<<text[2], text[4]>>, SubSeq(text, 5, Len(text)))
    ELSE Invalid

SkipNothing(module, name, text) == text   \* mutation: the argument of Object is parsed
\* The three tokens after 0x1::object::Object are dropped, whatever they are.
SkipObjectArgument(module, name, text) ==
    IF module = "object" /\ name = "Object" THEN SubSeq(text, 4, Len(text)) ELSE text

(* "read" is the parser itself: read[text]["tag"] is parseTypeTag, and       *)
(* read[text]["list"] is parseCommaList(">", true) at one of its elements.   *)

ParseList(read, one) ==
    LET next == Consume(one.rest, ",")
        more == read[next.rest]["list"]
    IN IF ~one.ok THEN Invalid
       ELSE IF Starts(one.rest, ">") THEN ParsedList(<<one.tag>>, one.rest)
       ELSE IF ~next.ok \/ next.rest = << >> THEN Invalid
       ELSE IF Starts(next.rest, ">") THEN ParsedList(<<one.tag>>, next.rest)
       ELSE IF more.ok THEN ParsedList(<<one.tag>> \o more.tags, more.rest) ELSE Invalid

StructArguments(read, text) ==
    LET list == read[Tail(text)]["list"]
    IN IF ~Starts(text, "<") THEN ParsedList(<< >>, text)
       ELSE IF Starts(Tail(text), ">") THEN ParsedList(<< >>, Tail(Tail(text)))
       ELSE IF list.ok THEN ParsedList(list.tags, Tail(list.rest)) ELSE Invalid

ParseVector(read, text) ==
    LET of  == IF Starts(text, "<") THEN read[Tail(text)]["tag"] ELSE Invalid
        end == Consume(of.rest, ">")
    IN IF of.ok /\ end.ok THEN Parsed(Vector(of.tag), end.rest) ELSE Invalid

ParseStruct(read, address, text) ==
    LET name == StructName(text)
        args == StructArguments(read,
                  SkipObjectArgument(name.tag[1], name.tag[2], name.rest))
    IN IF name.ok /\ args.ok
       THEN Parsed([Struct(name.tag[1], name.tag[2], args.tags) EXCEPT !.address = address],
                   args.rest)
       ELSE Invalid

\* "given" holds what the parser makes of the type tags; T0 is the first of them.
ParseTag(read, given, text) ==
    LET w == Head(text)  rest == Tail(text)
    IN IF text = << >> THEN Invalid
       ELSE CASE w \in Primitives -> Parsed(Prim(w), rest)
              [] w = "vector" -> ParseVector(read, rest)
              [] w = "string" -> Parsed(BareString, rest)
              [] w \in Addresses -> ParseStruct(read, w, rest)
              [] Kind(w) = "GENERIC" ->
                   IF GenericIndex[w] \notin 0..(Len(given) - 1) THEN Invalid
                   ELSE IF given[GenericIndex[w] + 1].ok
                        THEN Parsed(given[GenericIndex[w] + 1].tag, rest) ELSE Invalid
              [] OTHER -> Invalid

Parser(given) ==
    LET read[text \in Seq(STRING)] ==
          [what \in {"tag", "list"} |->
             IF what = "tag" THEN ParseTag(read, given, text)
             ELSE ParseList(read, ParseTag(read, given, text))]
    IN read
\* The type tags are parsed on their own, without type tags.
ParseTypeTag(text, typeTags) ==
    Parser([i \in DOMAIN typeTags |-> Parser(<< >>)[typeTags[i]]["tag"]])[text]["tag"]
-----------------------------------------------------------------------------
(* The printer. *)

\* mutation: only the first argument of a struct is printed
PrintedFirstArgument(texts) ==
    IF texts = << >> THEN << >> ELSE <<"<">> \o texts[1] \o <<",", ">">>
\* Each argument is followed by a comma, the last one too.
PrintedArguments(texts) ==
    IF texts = << >> THEN << >>
    ELSE <<"<">> \o FlattenSeq([i \in DOMAIN texts |-> Append(texts[i], ",")]) \o <<">">>

TypeTagToString[tag \in Tag] ==
    CASE tag.k = "struct" -> <<tag.address, "::", tag.module, "::", tag.name>>
           \o PrintedArguments([i \in DOMAIN tag.args |-> TypeTagToString[tag.args[i]]])
      [] tag.k = "vector" -> <<"vector", "<">> \o TypeTagToString[tag.of] \o <<">">>
      [] OTHER -> <<tag.k>>
-----------------------------------------------------------------------------
(* The texts of the node: the arguments of a struct are separated by commas. *)

NodeText[tag \in Tag] ==
    CASE tag.k = "struct" ->
           <<tag.address, "::", tag.module, "::", tag.name>>
           \o (IF tag.args = << >> THEN << >>
               ELSE <<"<">> \o FlattenSeq([i \in DOMAIN tag.args |->
                      (IF i = 1 THEN << >> ELSE <<",">>) \o NodeText[tag.args[i]]])
                    \o <<">">>)
      [] tag.k = "vector" -> <<"vector", "<">> \o NodeText[tag.of] \o <<">">>
      [] OTHER -> <<tag.k>>

\* A struct that the parser takes for an Object, whatever its address.
NamedObject(tag) == tag.k = "struct" /\ tag.module = "object" /\ tag.name = "Object"

\* The tag without the arguments of what the parser takes for Objects.
Erased[tag \in Tag] ==
    CASE tag.k = "vector" -> Vector(Erased[tag.of])
      [] tag.k = "struct" ->
           [tag EXCEPT !.args = IF NamedObject(tag) THEN << >>
                                ELSE [i \in DOMAIN tag.args |-> Erased[tag.args[i]]]]
      [] OTHER -> tag

\* The types the node can write: names are no punctuation, an Object holds one type.
OnChain[tag \in Tag] ==
    CASE tag.k = "vector" -> OnChain[tag.of]
      [] tag.k = "struct" -> /\ {tag.module, tag.name} \cap Punctuation = {}
                             /\ NamedObject(tag) => Len(tag.args) = 1
                             /\ \A i \in DOMAIN tag.args : OnChain[tag.args[i]]
      [] OTHER -> tag.k \in Primitives \cup {"signer"}
=============================================================================
