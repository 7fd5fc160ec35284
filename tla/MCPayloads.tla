----------------------------- MODULE MCPayloads -----------------------------
(* Instances of Payloads for TLC. *)
EXTENDS Payloads

\* "USDT2" and "T0" match /T\d+/; the number of the first is that of "SDT2".
MCGenerics == [w \in {"T0", "T1", "USDT2"} |->
                 CASE w = "T0" -> 0 [] w = "T1" -> 1 [] OTHER -> NaN]

S == Struct("m", "S", << >>)
U8 == Prim("u8")
Option(g) == Struct("option", "Option", <<g>>)
Object(g) == Struct("object", "Object", <<g>>)
Elsewhere == [Object(U8) EXCEPT !.address = "0x2"]   \* an Object of another account
W(args) == Struct("m", "W", args)
Word(w) == Prim(w)   \* one word of a text

\* The types whose values are taken through the builder ...
ArgumentTags ==
    {Prim(p) : p \in Primitives}
    \cup {Vector(Prim(p)) : p \in {"u8", "u64", "bool", "address"}}
    \cup {StringTag, Vector(StringTag), Vector(Vector(U8)), Vector(Vector(StringTag)), S,
          Vector(S), Option(U8), Option(StringTag), Vector(Option(U8)), Object(S),
          Vector(Vector(Prim("u64"))), Vector(Option(Vector(U8))), Vector(Option(S)),
          Struct("fixed_point32", "FixedPoint32", << >>),
          Struct("fixed_point64", "FixedPoint64", << >>),
          Struct("option", "Option", << >>)}
\* ... and those that are only parsed and printed.
Inner == {U8, S, Word("signer"), StringTag, Object(S), Object(U8), Option(U8),
          Struct("m", "USDT2", << >>), W(<<U8>>)}
ParsedTags == {Vector(g) : g \in Inner} \cup {W(<<g, h>>) : g \in Inner, h \in Inner}
              \cup {Vector(Vector(g)) : g \in Inner} \cup {Object(g) : g \in Inner}
              \cup {Vector(Object(W(<<U8>>))), W(<<W(<<U8, S>>), Vector(U8), U8>>)}
              \cup {Struct("USDT2", "S", << >>), Word("signer")}
              \cup {Elsewhere, Vector(Elsewhere), W(<<Elsewhere, U8>>)}

OtherTexts == { <<"string">>, <<"String">>, <<"T0">>, <<"T1">>, <<"USDT2">>, <<"number">>, << >>,
             <<"vector", "<", "T0", ">">>, <<"vector", "<", "u8">>, <<"vector", "u8">>,
             <<"0x1", "::", "m">>, <<"0x2", "::", "m", "::", "S", "<", ">">>,
             <<"0x1", "::", "m", "::", "W", "<", "u8", "u8", ">">>,
             <<"0x1", "::", "m", "::", "W", "<", "u8", ",">>,
             <<"0x1", "::", "m", "::", "W", "<", "u8", ",", ">">>,
             <<"0x1", "::", "m", "::", "W", "<", "u8", ",", ",", ">">> }

\* An instance for every type and every text; some with each list of type arguments.
CallOf(g, types) == [tag |-> g, text |-> NodeText[g], tyArgs |-> types]
TextCall(w, types) == [tag |-> NoTag, text |-> w, tyArgs |-> types]
MCTypeArguments == { << >>, <<U8>>, <<W(<<U8, Prim("u64")>>)>>, <<W(<<U8, U8>>)>>,
                     <<Vector(U8)>>, <<U8, S>> }
MCCalls == {CallOf(g, << >>) : g \in ArgumentTags \cup ParsedTags}
           \cup {CallOf(U8, types) : types \in MCTypeArguments}
           \cup {TextCall(w, types) : w \in OtherTexts, types \in MCTypeArguments}
MultisigCalls == {CallOf(U8, << >>)}

Variation(gas, agents, args) == [gas |-> gas, agents |-> agents, args |-> args]
MCVariations == {Variation(1, FALSE, 1), Variation(SafeMax, FALSE, 1), Variation(TwoTo53, FALSE, 1),
                 Variation(1, TRUE, 1), Variation(1, FALSE, 2)}
-----------------------------------------------------------------------------
Points == {0, 1, 255, 256, 65535, 65536, U32Max, TwoTo32, SafeMax, TwoTo53, TwoTo53Plus1,
           U64Max, TwoTo64, U128Max, TwoTo128, U256Max, TwoTo256, -1}
Z == 122   \* "z"
Texts1 == {Text(<< >>), Text(<<32>>), Text(<<Z>>), Text(<<91, 93>>), Text(<<233>>), Text(<<Z, 20013>>)}
NumberTexts == {Decimal(n) : n \in Points} \cup {Hex(n) : n \in {0, 1, 256}}
               \cup {Suffixed(n) : n \in {1, 256}}
Oddities == {Null, Boolean(TRUE), Truth(FALSE), Number(1), Text(<<Z>>), Array(<< >>)}
Numbers == {Number(n) : n \in {p \in Points : Double(p) = p}} \cup {BigInt(n) : n \in Points}
           \cup NumberTexts \cup Oddities \cup {Text(<< >>), Text(<<32>>)}
AddressValues == {Hexadecimal("0xcafe"), Hexadecimal("0x1"), Address("0xcafe")}
                 \cup Oddities \cup {Text(<< >>)}
Seqs(set, n) == UNION {[1..k -> set] : k \in 0..n}
Arrays(set, n) == {Array(s) : s \in Seqs(set, n)}
Small == {Number(91), Number(93), Decimal(0)}

MCValuesOf(g) ==
    CASE g \in {Prim(w) : w \in DOMAIN Limit} -> Numbers
      [] g = Prim("bool") -> Oddities \cup {Truth(TRUE), Boolean(FALSE)}
      [] g = Prim("address") \/ g = Struct("object", "Object", << >>) -> AddressValues
      [] g = Vector(U8) -> Texts1 \cup {Uint8Array(<< >>), Uint8Array(<<1, 255>>)} \cup {Null}
                           \cup Arrays({Number(1), Number(256), Hex(1)}, 2)
      [] g = Vector(Prim("u64")) -> Arrays({Number(1), BigInt(TwoTo53), BigInt(TwoTo53Plus1)}, 2)
      [] g \in {Vector(Prim("bool")), Vector(Prim("address"))} ->
           Arrays({Boolean(TRUE), Hexadecimal("0xcafe"), Text(<<Z>>)}, 2)
      [] g = StringTag -> Texts1
      [] g = Vector(StringTag) -> Arrays({Text(<< >>), Text(<<Z>>), Text(<<91, 93>>)}, 2)
      [] g = Vector(Vector(U8)) -> Arrays(Arrays(Small, 2), 2) \cup {Array(<<Text(<<233>>)>>)}
                                   \cup {Array(<<Array(<<Hex(1)>>), Text(<<233>>)>>)}
      [] g = Vector(Vector(StringTag)) -> Arrays(Arrays({Text(<< >>), Text(<<Z>>)}, 2), 2)
      [] g = S -> {Number(1), Null}
      [] g = Vector(S) -> Arrays({Number(1)}, 2)
      [] g = Option(U8) -> {Null, Number(1), Number(256), Hex(1), Text(<<Z>>)}
      [] g = Option(StringTag) -> {Null} \cup Texts1
      [] g = Vector(Vector(Prim("u64"))) ->
           Arrays(Arrays({Number(1), BigInt(TwoTo53)}, 1), 2)
      [] g = Vector(Option(Vector(U8))) ->
           Arrays({Null, Uint8Array(<< >>), Uint8Array(<<91, 93>>), Uint8Array(<<1>>)}, 2)
      [] g = Vector(Option(S)) -> Arrays({Null, Number(1)}, 2)
      [] g = Vector(Option(U8)) -> Arrays({Null, Number(1), Number(2)}, 2)
      [] g.k = "struct" /\ g.module \in {"fixed_point32", "fixed_point64"} -> Numbers
      [] g = Struct("option", "Option", << >>) -> {Null, Number(1)}
      [] g = BareString -> Texts1
      [] OTHER -> {}
RivalNumbers == {Number(1), BigInt(256), Decimal(255), Decimal(TwoTo53Plus1), BigInt(U64Max)}
MCRivalsOf(g) == IF MCValuesOf(g) = Numbers THEN RivalNumbers ELSE MCValuesOf(g)
MCPropertyTexts == NumberTexts \cup Texts1
                   \cup {Truth(TRUE), Truth(FALSE), Hexadecimal("0xcafe")}
=============================================================================
