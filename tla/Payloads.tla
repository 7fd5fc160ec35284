------------------------------ MODULE Payloads ------------------------------
(***************************************************************************)
(* From the values a caller passes to what is signed, and to a property of *)
(* a token: TransactionBuilderABI and TransactionBuilder.rawToSigned of    *)
(* src/src/transaction_builder/builder.ts over the conversions of          *)
(* Arguments and the messages of Signing, and the property maps.           *)
(*                                                                         *)
(* A behaviour takes one type, as the node writes it, and values of it     *)
(* through the calls of the SDK; "rival" is a second transaction, which    *)
(* differs from "txn" in its argument or in its type arguments.            *)
(***************************************************************************)
EXTENDS Signing

CONSTANTS Calls,         \* the type of a parameter with the type arguments of a call
          TypeArguments, \* other lists of type arguments, as tags
          ValuesOf(_),   \* the values offered for a parameter of a type ...
          RivalsOf(_),   \* ... and for that of the other transaction
          PropertyTexts, \* the strings offered as values of properties
          Variations,    \* max_gas_amount, secondary signers, and the number of arguments
          Kinds          \* of payload: entry, script, multisig

NoTag == Prim("no tag")

ASSUME PayloadsAssumption ==
    /\ \A o \in Variations : o.gas \in Nat /\ o.agents \in BOOLEAN /\ o.args \in {1, 2}
    /\ Kinds \subseteq {"entry", "script", "multisig"}
    /\ \A c \in Calls : /\ c.text \in Seq(STRING) /\ c.tyArgs \in Seq(Tag)
                       /\ LET p == ParseTypeTag(c.text, Texts(c.tyArgs))
                          IN p.ok => p.tag \in Tag /\ ValuesOf(p.tag) \subseteq Value
    /\ PropertyTexts \subseteq {v \in Scalars : v.js = "string"}

\* The other transaction is made of values too, and of type arguments that are read as tags.
ASSUME RivalsAssumption ==
    /\ \A c \in Calls : LET p == ParseTypeTag(c.text, Texts(c.tyArgs))
                       IN p.ok => RivalsOf(p.tag) \subseteq Value
    /\ \A types \in TypeArguments \cup {c.tyArgs : c \in Calls} :
         /\ types \in Seq(Tag)
         /\ \A i \in DOMAIN types : LET p == ParseTypeTag(TypeTagToString[types[i]], << >>)
                                    IN p.ok => p.tag \in Tag

\* Where a type is meant, its text is the one the node writes.
ASSUME NodeAssumption ==
    \A c \in Calls : c.tag # NoTag => c.tag \in Tag /\ OnChain[c.tag] /\ c.text = NodeText[c.tag]

VARIABLES stage,
          tag,       \* the type meant, or NoTag if the text is that of no type
          typ, tyArgs, \* its text, and the type arguments of the call
          parsed,    \* what TypeTagParser made of it
          abiMap,    \* the names of the functions of the builder
          val,       \* the value passed
          txn, rival, \* the two transactions, as signed by their builders
          stored, read \* a property as it is written, and as it is read

vars == <<stage, tag, typ, tyArgs, parsed, abiMap, val, txn, rival, stored, read>>
Nothing == [t |-> "nothing"]

Init ==
    /\ stage = "type"
    /\ \E c \in Calls : tag = c.tag /\ typ = c.text /\ tyArgs = c.tyArgs
    /\ parsed = Invalid /\ abiMap = {} /\ val = Null
    /\ txn = Nothing /\ rival = Nothing /\ stored = Nothing /\ read = Null

\* new TypeTagParser(typ, ty_tags).parseTypeTag()
Parse ==
    /\ stage = "type"
    /\ parsed' = ParseTypeTag(typ, Texts(tyArgs))
    /\ stage' = IF parsed'.ok THEN "parsed" ELSE "failed"
    /\ UNCHANGED <<tag, typ, tyArgs, abiMap, val, txn, rival, stored, read>>

\* The constructor of TransactionBuilderABI; two ABIs of one name are refused.
Construct(names) ==
    /\ stage = "parsed"
    /\ abiMap' = Range(names)
    /\ stage' = IF IsInjective(names) THEN "builder" ELSE "failed"
    /\ UNCHANGED <<tag, typ, tyArgs, parsed, val, txn, rival, stored, read>>

\* toEntryFunctionArguments and toTransactionArguments, for a function of one parameter
Converted(kind, args) ==
    IF Len(args) # 1 THEN <<Refused>>
    ELSE IF kind = "script" THEN <<ToTransactionArgument(args[1], parsed.tag)>>
    ELSE <<ToEntryFunctionArgument[parsed.tag][args[1]]>>
\* buildTransactionPayload; the type tags are parsed from their texts.
Payload(kind, func, types, args) ==
    LET ty_args == [i \in DOMAIN types |-> ParseTypeTag(Texts(types)[i], << >>)]
        converted == Converted(kind, args)
        tags == [i \in DOMAIN types |-> ty_args[i].tag]
    IN IF \/ func \notin abiMap \/ Refused \in Range(converted)
          \/ \E i \in DOMAIN types : ~ty_args[i].ok THEN Refused
       ELSE IF kind = "script" THEN ScriptPayload(func, tags, converted)
       ELSE IF kind = "entry" THEN EntryPayload(func, tags, converted)
       ELSE MultisigPayload(EntryPayload(func, tags, converted))

\* TransactionBuilderABI.build, which needs a gasUnitPrice; with secondary signers the
\* RawTransaction is wrapped in a MultiAgentRawTransaction.
Transaction(payload, gas, agents) ==
    IF payload = Refused THEN Refused
    ELSE [payload |-> payload, max_gas_amount |-> gas, agents |-> agents]
Build(kind, func, args, gas, agents) ==
    /\ stage = "builder" /\ args # << >>
    /\ val' = args[1]
    /\ txn' = Transaction(Payload(kind, func, tyArgs, args), gas, agents)
    /\ stage' = IF txn' = Refused THEN "refused" ELSE "built"
    /\ UNCHANGED <<tag, typ, tyArgs, parsed, abiMap, rival, stored, read>>

\* Another transaction of the builder, with another value or other type arguments.
BuildRival(v, types) ==
    /\ stage = "built"
    /\ rival' = Transaction(Payload(txn.payload.kind, CHOOSE f \in abiMap : TRUE, types, <<v>>),
                            txn.max_gas_amount, txn.agents)
    /\ rival' # Refused
    /\ stage' = "signed"
    /\ UNCHANGED <<tag, typ, tyArgs, parsed, abiMap, val, txn, stored, read>>

\* A property of a token is written, then read with the others of its map.
WriteProperty(v) ==
    /\ stage = "type" /\ tyArgs = << >>
    /\ val' = v /\ stored' = GetPropertyValueRaw(v, typ)
    /\ stage' = "stored"
    /\ UNCHANGED <<tag, typ, tyArgs, parsed, abiMap, txn, rival, read>>
ReadBack ==
    /\ stage = "stored"
    /\ read' = ReadProperty(stored, typ)
    /\ stage' = "read"
    /\ UNCHANGED <<tag, typ, tyArgs, parsed, abiMap, val, txn, rival, stored>>

Offered == IF stage = "builder" THEN ValuesOf(parsed.tag) ELSE {}
Rivals == IF stage = "built" THEN RivalsOf(parsed.tag) ELSE {}
NameLists == {<<"f">>, <<"f", "f">>}
Next ==
    \/ Parse
    \/ \E names \in NameLists : Construct(names)
    \/ \E kind \in Kinds, v \in Offered, o \in Variations :
         Build(kind, "f", [i \in 1..o.args |-> v], o.gas, o.agents)
    \/ \E v \in Rivals : BuildRival(v, tyArgs)
    \/ \E types \in TypeArguments : BuildRival(val, types)
    \/ \E v \in PropertyTexts : WriteProperty(v)
    \/ ReadBack

Spec == Init /\ [][Next]_vars
-----------------------------------------------------------------------------
(* Properties *)

(* What is sound, in terms of the values and not of the conversions. *)

\* The tags of a tag that the parser has to see: not those inside an Object.
Visible[g \in Tag] ==
    {g} \cup CASE g.k = "vector" -> Visible[g.of]
               [] g.k = "struct" /\ ~NamedObject(g) ->
                    UNION {Visible[a] : a \in Range(g.args)}
               [] OTHER -> {}
IsObject(g) == Is(g, "object", "Object")
Readable(g) == /\ g.k # "signer"
               /\ g.k = "struct" => {g.module, g.name} \cap DOMAIN GenericIndex = {}
\* An Object inside another tag is read if its argument is a single word.
Parsable(g) == \A h \in Visible[g] :
    Readable(h) /\ (NamedObject(h) /\ h # g => Len(NodeText[h.args[1]]) = 1)

\* The parser reads every type the node writes, up to the argument of an Object, except
\* one that names signer, one with a name that looks like T1, and one with an Object of a
\* type of several words inside (splice(0, 3), type_tag.ts:419); these it refuses, and
\* never reads as another type.  What TypeTagToString prints is read as what it was.  For
\* this a struct object::Object of any other account is an Object too (type_tag.ts:416).
TextsRead ==
    stage \notin {"type", "stored", "read"} /\ tag # NoTag =>
        /\ parsed.ok <=> Parsable(tag)
        /\ parsed.ok => parsed.tag = Erased[tag]
        /\ parsed.ok /\ Erased[tag] = tag /\ ~(\E h \in Visible[tag] : NamedObject(h)) =>
             ParseTypeTag(TypeTagToString[tag], << >>) = Parsed(tag, << >>)

SmallWidths == {"u8", "u16", "u32"}
Meant(v, w) == IF \/ v.js = "number" \/ HasForm(v, {"decimal", "hex"})
                  \/ v.js = "bigint" /\ w \notin SmallWidths
               THEN IF v.n \in 0..Limit[w] THEN Num(w, v.n) ELSE Refused
               ELSE Refused
MeantBytes(v) == CASE v.js = "bytes" -> ByteVec(v.bytes)
                   [] HasForm(v, {"text"}) -> ByteVec(Utf8(v.chars))
                   [] OTHER -> Refused
\* What a caller means by v where a value of type g is expected.
MeantArgument[g \in Tag] == [v \in Value |->
    CASE g.k \in DOMAIN Limit -> Meant(v, g.k)
      [] g.k \in {"bool", "address"} -> Simple(v, g)
      [] g.k = "vector" -> IF v.js = "array"
                           THEN AllOf([i \in DOMAIN v.of |-> MeantArgument[g.of][v.of[i]]])
                           ELSE IF IsBytes(g) THEN MeantBytes(v) ELSE Refused
      [] g = StringTag -> IF IsString(v) THEN Str(v) ELSE Refused
      [] Is(g, "option", "Option") /\ Len(g.args) = 1 ->
           IF v = Null THEN None
           ELSE IF MeantArgument[g.args[1]][v] = Refused THEN Refused
                ELSE Some(MeantArgument[g.args[1]][v])
      [] IsObject(g) -> EnsureAddress(v)
      [] Is(g, "fixed_point32", "FixedPoint32") -> Meant(v, "u64")
      [] Is(g, "fixed_point64", "FixedPoint64") -> Meant(v, "u128")
      [] OTHER -> Refused]

\* The values that are not taken for what they are: a hexadecimal or a suffixed text for a
\* narrow number, which parseInt reads up to its first letter; "" for a wide number, which
\* BigInt reads as 0; anything but a string for a String; any struct but those of the
\* framework, of which nothing but the type is sent.
Misread[g \in Tag] == [v \in Value |->
    CASE g.k \in SmallWidths -> \/ HasForm(v, {"suffixed"})
                                \/ HasForm(v, {"hex"}) /\ v.n # 0
      [] g.k \in DOMAIN Limit \ SmallWidths -> Blank(v)
      [] g.k = "vector" -> v.js = "array" /\ \E i \in DOMAIN v.of : Misread[g.of][v.of[i]]
      [] g = StringTag -> ~IsString(v)
      [] IsObject(g) -> FALSE
      [] Is(g, "option", "Option") /\ Len(g.args) = 1 -> v # Null /\ Misread[g.args[1]][v]
      [] Is(g, "fixed_point32", "FixedPoint32") \/ Is(g, "fixed_point64", "FixedPoint64") ->
           Blank(v)
      [] OTHER -> g.k = "struct"]
\* The values with a text for a vector<u8> that is not ASCII: an entry function is given
\* its character codes, serializeArg writes its UTF-8 bytes.
Unicode[g \in Tag] == [v \in Value |->
    CASE g.k = "vector" ->
           \/ v.js = "array" /\ \E i \in DOMAIN v.of : Unicode[g.of][v.of[i]]
           \/ IsBytes(g) /\ HasForm(v, {"text"}) /\ \E i \in DOMAIN v.chars : v.chars[i] >= 128
      [] Is(g, "option", "Option") /\ Len(g.args) = 1 -> v # Null /\ Unicode[g.args[1]][v]
      [] OTHER -> FALSE]

AsEntryArgument(v) == Written(ToEntryFunctionArgument[parsed.tag][v])
HasValue == stage \in {"built", "refused"}

\* The argument of an entry function is what the caller meant, or refused if it means
\* nothing: a number keeps its value through parseInt, BigInt and the range checks.
ArgumentMeant == HasValue =>
    \/ Misread[parsed.tag][val] \/ Unicode[parsed.tag][val]
    \/ AsEntryArgument(val) = MeantArgument[parsed.tag][val]

\* The three converters agree on what more than one of them accepts, but for the texts that
\* are not ASCII; of these too serializeArg writes what the caller meant.
ConvertersAgree == HasValue =>
    LET script == Written(ToTransactionArgument(val, parsed.tag))
        bcs == SerializeArg[parsed.tag][val]
    IN /\ script # Refused => script = AsEntryArgument(val)
       /\ bcs # Refused => /\ Unicode[parsed.tag][val] \/ bcs = AsEntryArgument(val)
                           /\ Misread[parsed.tag][val]
                              \/ bcs = MeantArgument[parsed.tag][val]

SameValue(a, b) == \/ a = b
                   \/ /\ HasForm(a, {"decimal", "hex"}) /\ HasForm(b, {"decimal", "hex"})
                      /\ a.n = b.n
\* A property of a token is read as it was written exactly if its type is one of those that
\* deserializeValueBasedOnTypeTag decodes and its value is a value of that type.  Any other
\* is written as the bytes of its text, and read as something else or not at all, with all
\* properties of the token.
PropertySurvives == stage = "read" =>
    LET type == GetPropertyType(typ)
        decoded == type.ok /\ (type.tag.k \in Decoded \/ type.tag = StringTag)
    IN SameValue(read, val) <=> /\ decoded /\ SerializeArg[type.tag][val] # Refused
                                /\ ~Misread[type.tag][val] /\ (val = Text(<< >>) => type.tag = StringTag)

\* An argument without what the text of a vector or an option leaves out: "" and structs.
LeftOut(m) == m.t = "struct" \/ m = Str(Text(<< >>))
Blurred[m \in Arg] ==
    CASE m.t = "vec" -> Vec(FlattenSeq([i \in DOMAIN m.of |->
                              IF LeftOut(m.of[i]) THEN << >> ELSE <<Blurred[m.of[i]]>>]))
      [] m.t = "some" -> IF LeftOut(m.of) THEN None ELSE Some(Blurred[m.of])
      [] OTHER -> m
\* The first of the elements, or of the elements of the first and so on, is empty, so
\* that all elements there are taken for texts.
StartsEmpty[m \in Arg] ==
    CASE m.t = "vec" -> m.of = << >> \/ StartsEmpty[m.of[1]]
      [] m.t = "some" -> StartsEmpty[m.of]
      [] OTHER -> m = None
StripArgs(p) == [p EXCEPT !.args = [i \in DOMAIN p.args |-> Blurred[p.args[i]]]]

\* Two transactions of one function are signed with the same message only if they are the
\* same, up to the empty strings and the structs in a vector, the elements of a vector that
\* starts with an empty one, and the payload of a multisig account, which is left out.
MessageDetermines ==
    stage = "signed" /\ Signed(txn) = Signed(rival) /\ Signed(txn) # CannotHash =>
        LET p == txn.payload  q == rival.payload
        IN \/ p = q \/ p.kind = "multisig"
           \/ p.kind = "entry" /\ StripArgs(p) = StripArgs(q)
           \/ StartsEmpty[p.args[1]] /\ StartsEmpty[q.args[1]] /\ p.ty_args = q.ty_args

\* An element m can be hashed in a vector whose first element is "first", which gives the
\* elements their type: every number is one that a double holds exactly, and no vector is
\* empty where the first has elements.  Below an empty vector or option anything can.
Signable[m \in Arg] == [first \in Arg |->
    CASE m.t = "num" -> m.n <= SafeMax
      [] m.t = "vec" -> first.t = "vec" /\ first.of # << >> =>
           m.of # << >> /\ \A i \in DOMAIN m.of : Signable[m.of[i]][first.of[1]]
      [] m.t = "some" -> first.t = "some" => Signable[m.of][first.of]
      [] OTHER -> TRUE]

\* A single key signs a transaction exactly if it can be serialized, has no secondary
\* signers, and every number of its message, also a u64 or a u256, is below 2^53: a limit
\* that neither the types nor the range checks state; and if the lists within a list are
\* empty only where the first of them is.
SignedExactly == stage \in {"built", "signed"} =>
    (Signed(txn) # CannotHash <=>
        /\ ~txn.agents /\ Serializable(txn) /\ txn.max_gas_amount <= SafeMax
        /\ txn.payload.kind = "entry" =>
             \A i \in DOMAIN txn.payload.args :
               Signable[txn.payload.args[i]][txn.payload.args[i]])

\* "Function that takes in a Signing Message (serialized raw transaction) and returns a
\* signature" (builder.ts:53): what is signed is the transaction.  Of a multisig payload
\* nothing is signed, not even the address of the account: its branch of
\* getEip712TypedData declares the types and never assigns "payload", and message.payload
\* is undefined (builder.ts:255-306, 316).
PayloadSigned ==
    stage = "signed" /\ Signed(txn) = Signed(rival) /\ Signed(txn) # CannotHash => txn = rival
=============================================================================
