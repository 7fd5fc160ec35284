------------------------------ MODULE Layouts ------------------------------
(***************************************************************************)
(* The wire format of the SDK: the serialize methods of                    *)
(* src/src/moveup_types and, from tables of their own, its deserialize and *)
(* load methods, over the primitives of src/src/bcs.                       *)
(*                                                                         *)
(* One value of a root class is built and serialized, field by field, as   *)
(* the nested serialize calls do; the bytes, whole or cut short, are then  *)
(* read back as the nested deserialize calls do.  "stack" is the call      *)
(* stack: the classes and fields still to be written or read.  The logs    *)
(* "written" and "got" list, in order, every object and field with its     *)
(* value, where it ends and what is left to do after it, so that they are  *)
(* equal exactly when the object read is the one written and lies in the   *)
(* same bytes.                                                             *)
(*                                                                         *)
(* A class is a record: its variant index, when it is a variant of an      *)
(* abstract class, the fields its serialize writes and the fields its      *)
(* deserialize or load reads, each in the order of the source.  A field of *)
(* a primitive type has an entry in Width (fixed size) or Lengths (length  *)
(* prefix), a vector one in ElementOf, and a field of a class type is      *)
(* named by the class: a plain one has an entry in Plains, an abstract one *)
(* in Variants.  Numbers and texts are byte strings here; the arithmetic   *)
(* of their encoding and the range checks are not part of this module.     *)
(***************************************************************************)
EXTENDS Integers, Sequences

CONSTANTS
  Fuel,           \* the classes whose encodings are explored, each with a bound on
                  \* the vector elements, options, structs and nested tags of a value
  Cuts,           \* by how many bytes an encoding may be cut short; 0 leaves it whole
  TextLengths,    \* the lengths of the texts and of the byte strings of a value
  KeyCounts,      \* the numbers of keys in a multi-key, of signatures in another
  Samples(_, _)   \* the contents a value of n bytes may have as the i-th logged

Roots == DOMAIN Fuel

Unknown == "Unknown variant"
Class(index, writes, reads) == [index |-> index, writes |-> writes, reads |-> reads]
Plain(writes, reads) == [writes |-> writes, reads |-> reads]

-----------------------------------------------------------------------------
(* Type tags *)

TypeTagSwitch ==
  << "TypeTagBool", "TypeTagU8", "TypeTagU64", "TypeTagU128", "TypeTagAddress",
     "TypeTagSigner", "TypeTagVector", "TypeTagStruct", "TypeTagU16", "TypeTagU32",
     "TypeTagU256" >>

TypeTagClasses ==
  [ TypeTagBool    |-> Class(0, << >>, << >>),
    TypeTagU8      |-> Class(1, << >>, << >>),
    TypeTagU16     |-> Class(1, << >>, << >>),
    TypeTagU32     |-> Class(1, << >>, << >>),
    TypeTagU64     |-> Class(2, << >>, << >>),
    TypeTagU128    |-> Class(3, << >>, << >>),
    TypeTagU256    |-> Class(1, << >>, << >>),
    TypeTagAddress |-> Class(4, << >>, << >>),
    TypeTagSigner  |-> Class(5, << >>, << >>),
    TypeTagVector  |-> Class(6, <<"TypeTag">>, <<"TypeTag">>),
    TypeTagStruct  |-> Class(7, <<"StructTag">>, <<"StructTag">>) ]

StructTagClass ==
  Plain(<<"address", "module_name", "name", "type_args">>,
        <<"address", "module_name", "name", "type_args">>)

-----------------------------------------------------------------------------
(* Transactions and payloads *)

\* mutation: deserialize takes the gas price for the maximum
RawTransactionGasSwapped ==
  Plain(<<"sender", "sequence_number", "TransactionPayload", "max_gas_amount",
          "gas_unit_price", "expiration_timestamp_secs", "chain_id">>,
        <<"sender", "sequence_number", "TransactionPayload", "gas_unit_price",
          "max_gas_amount", "expiration_timestamp_secs", "chain_id">>)

RawTransactionClass ==
  Plain(<<"sender", "sequence_number", "TransactionPayload", "max_gas_amount",
          "gas_unit_price", "expiration_timestamp_secs", "chain_id">>,
        <<"sender", "sequence_number", "TransactionPayload", "max_gas_amount",
          "gas_unit_price", "expiration_timestamp_secs", "chain_id">>)

ScriptClass == Plain(<<"code", "ty_args", "script_args">>, <<"code", "ty_args", "script_args">>)

EntryFunctionClass ==
  Plain(<<"ModuleId", "function_name", "ty_args", "args">>,
        <<"ModuleId", "function_name", "ty_args", "args">>)

\* A multisig payload carries the variant index of its kind, which the reader skips.
MultiSigClass ==
  Plain(<<"multisig_address", "payloadPresent">>, <<"multisig_address", "payloadPresent">>)
MultiSigPayloadClasses ==
  [ InnerEntryFunction |-> Class(0, <<"EntryFunction">>, <<"EntryFunction">>) ]
PayloadPresentClasses ==
  [ NoPayload   |-> Class(0, << >>, << >>),
    SomePayload |-> Class(1, <<"MultiSigTransactionPayload">>,
                             <<"MultiSigTransactionPayload">>) ]
PayloadPresentSwitch == <<"NoPayload", "SomePayload">>

ModuleClass == Plain(<<"code">>, <<"code">>)
ModuleIdClass == Plain(<<"address", "module_name">>, <<"address", "module_name">>)

SignedTransactionClass ==
  Plain(<<"RawTransaction", "TransactionAuthenticator">>,
        <<"RawTransaction", "TransactionAuthenticator">>)
RawTransactionWithDataClasses ==
  [ MultiAgentRawTransaction |-> Class(0,
      <<"RawTransaction", "secondary_signer_addresses">>,
      <<"RawTransaction", "secondary_signer_addresses">>) ]
RawTransactionWithDataSwitch == <<"MultiAgentRawTransaction">>

TransactionPayloadClasses ==
  [ TransactionPayloadScript        |-> Class(0, <<"Script">>, <<"Script">>),
    TransactionPayloadEntryFunction |-> Class(2, <<"EntryFunction">>, <<"EntryFunction">>),
    TransactionPayloadMultisig      |-> Class(3, <<"MultiSig">>, <<"MultiSig">>) ]
TransactionPayloadSwitch ==
  << "TransactionPayloadScript", Unknown, "TransactionPayloadEntryFunction",
     "TransactionPayloadMultisig" >>

UserTransactionClasses ==
  [ UserTransaction |-> Class(0, <<"SignedTransaction">>, <<"SignedTransaction">>) ]
TransactionSwitch == <<"UserTransaction">>

-----------------------------------------------------------------------------
(* Arguments of scripts and of entry functions *)

TransactionArgumentSwitch ==
  << "TransactionArgumentU8", "TransactionArgumentU64", "TransactionArgumentU128",
     "TransactionArgumentAddress", "TransactionArgumentU8Vector",
     "TransactionArgumentBool", "TransactionArgumentU16", "TransactionArgumentU32",
     "TransactionArgumentU256" >>

TransactionArgumentClasses ==
  [ TransactionArgumentU8       |-> Class(0, <<"u8">>, <<"u8">>),
    TransactionArgumentU16      |-> Class(6, <<"u16">>, <<"u16">>),
    TransactionArgumentU32      |-> Class(7, <<"u32">>, <<"u32">>),
    TransactionArgumentU64      |-> Class(1, <<"u64">>, <<"u64">>),
    TransactionArgumentU128     |-> Class(2, <<"u128">>, <<"u128">>),
    TransactionArgumentU256     |-> Class(8, <<"u256">>, <<"u256">>),
    TransactionArgumentAddress  |-> Class(3, <<"address">>, <<"address">>),
    TransactionArgumentU8Vector |-> Class(4, <<"bytes">>, <<"bytes">>),
    TransactionArgumentBool     |-> Class(5, <<"bool">>, <<"bool">>) ]

EntryFunctionArgumentSwitch ==
  << "EntryFunctionArgumentU8", "EntryFunctionArgumentU16", "EntryFunctionArgumentU32",
     "EntryFunctionArgumentU64", "EntryFunctionArgumentU128", "EntryFunctionArgumentU256",
     "EntryFunctionArgumentBool", "EntryFunctionArgumentAddress",
     "EntryFunctionArgumentString", "EntryFunctionArgumentOption",
     "EntryFunctionArgumentObject", "EntryFunctionArgumentFixedPoint32",
     "EntryFunctionArgumentFixedPoint64", "EntryFunctionArgumentVector",
     "EntryFunctionArgumentStruct", "EntryFunctionArgumentBcsBytes" >>

NumberArgumentClasses ==
  [ EntryFunctionArgumentU8      |-> Class(0, <<"u8">>, <<"u8">>),
    EntryFunctionArgumentU16     |-> Class(1, <<"u16">>, <<"u16">>),
    EntryFunctionArgumentU32     |-> Class(2, <<"u32">>, <<"u32">>),
    EntryFunctionArgumentU64     |-> Class(3, <<"u64">>, <<"u64">>),
    EntryFunctionArgumentU128    |-> Class(4, <<"u128">>, <<"u128">>),
    EntryFunctionArgumentU256    |-> Class(5, <<"u256">>, <<"u256">>),
    EntryFunctionArgumentAddress |-> Class(7, <<"address">>, <<"address">>) ]

ValueArgumentClasses ==
  [ EntryFunctionArgumentBool         |-> Class(6, <<"bool">>, <<"bool">>),
    EntryFunctionArgumentString       |-> Class(8, <<"str">>, <<"str">>),
    EntryFunctionArgumentOption       |-> Class(9, <<"isSome">>, <<"isSome">>),
    EntryFunctionArgumentObject       |-> Class(10, <<"address">>, <<"address">>),
    EntryFunctionArgumentFixedPoint32 |-> Class(11, <<"u64">>, <<"u64">>),
    EntryFunctionArgumentFixedPoint64 |-> Class(12, <<"u128">>, <<"u128">>) ]
OptionClasses ==
  [ None |-> Class(0, << >>, << >>),
    Some |-> Class(1, <<"EntryFunctionArgument">>, <<"EntryFunctionArgument">>) ]

\* A struct argument with its tag and with named fields, as load expects it.
CompoundArgumentClasses ==
  [ EntryFunctionArgumentVector   |-> Class(13, <<"elements">>, <<"elements">>),
    EntryFunctionArgumentStruct   |-> Class(14, <<"StructTag", "fields">>,
                                                <<"StructTag", "fields">>),
    EntryFunctionArgumentBcsBytes |-> Class(15, <<"bytes">>, <<"bytes">>) ]
FieldClass == Plain(<<"name", "EntryFunctionArgument">>, <<"name", "EntryFunctionArgument">>)

-----------------------------------------------------------------------------
(* Authenticators and ABIs *)

TransactionAuthenticatorSwitch ==
  << Unknown, Unknown, "TransactionAuthenticatorMultiAgent",
     "TransactionAuthenticatorSecp256k1", "TransactionAuthenticatorMultiSecp256k1" >>

TransactionAuthenticatorClasses ==
  [ TransactionAuthenticatorSecp256k1 |-> Class(3,
      <<"Secp256k1PublicKey", "Secp256k1Signature">>,
      <<"Secp256k1PublicKey", "Secp256k1Signature">>),
    TransactionAuthenticatorMultiSecp256k1 |-> Class(4,
      <<"MultiSecp256k1PublicKey", "MultiSecp256k1Signature">>,
      <<"MultiSecp256k1PublicKey", "MultiSecp256k1Signature">>),
    TransactionAuthenticatorMultiAgent |-> Class(2,
      <<"AccountAuthenticator", "secondary_signer_addresses", "secondary_signers">>,
      <<"AccountAuthenticator", "secondary_signer_addresses", "secondary_signers">>) ]

\* mutation: the cases count from zero
AccountAuthenticatorFromZero ==
  << "AccountAuthenticatorSecp256k1", "AccountAuthenticatorMultiSecp256k1" >>

AccountAuthenticatorSwitch ==
  << Unknown, Unknown, Unknown, "AccountAuthenticatorSecp256k1",
     "AccountAuthenticatorMultiSecp256k1" >>

AccountAuthenticatorClasses ==
  [ AccountAuthenticatorSecp256k1 |-> Class(3,
      <<"Secp256k1PublicKey", "Secp256k1Signature">>,
      <<"Secp256k1PublicKey", "Secp256k1Signature">>),
    AccountAuthenticatorMultiSecp256k1 |-> Class(4,
      <<"MultiSecp256k1PublicKey", "MultiSecp256k1Signature">>,
      <<"MultiSecp256k1PublicKey", "MultiSecp256k1Signature">>) ]

TypeArgumentABIClass == Plain(<<"name">>, <<"name">>)
ArgumentABIClass == Plain(<<"name", "TypeTag">>, <<"name", "TypeTag">>)

ScriptABIClasses ==
  [ TransactionScriptABI |-> Class(0, <<"name", "doc", "code", "abi_ty_args", "abi_args">>,
                                      <<"name", "doc", "code", "abi_ty_args", "abi_args">>),
    EntryFunctionABI |-> Class(1, <<"name", "ModuleId", "doc", "abi_ty_args", "abi_args">>,
                                  <<"name", "ModuleId", "doc", "abi_ty_args", "abi_args">>) ]
ScriptABISwitch == <<"TransactionScriptABI", "EntryFunctionABI">>

-----------------------------------------------------------------------------
(* The tables together *)

Plains ==
  [ StructTag |-> StructTagClass, RawTransaction |-> RawTransactionClass,
    Script |-> ScriptClass, EntryFunction |-> EntryFunctionClass,
    MultiSig |-> MultiSigClass, Module |-> ModuleClass, ModuleId |-> ModuleIdClass,
    SignedTransaction |-> SignedTransactionClass, Field |-> FieldClass,
    TypeArgumentABI |-> TypeArgumentABIClass, ArgumentABI |-> ArgumentABIClass ]

EntryFunctionArgumentClasses ==
  [ v \in DOMAIN NumberArgumentClasses \cup DOMAIN ValueArgumentClasses
         \cup DOMAIN CompoundArgumentClasses |->
      IF v \in DOMAIN NumberArgumentClasses THEN NumberArgumentClasses[v]
      ELSE IF v \in DOMAIN ValueArgumentClasses THEN ValueArgumentClasses[v]
      ELSE CompoundArgumentClasses[v] ]

\* The variants an object of an abstract class may have when it is written.
Variants ==
  [ TypeTag |-> TypeTagClasses,
    RawTransactionWithData |-> RawTransactionWithDataClasses,
    TransactionPayload |-> TransactionPayloadClasses,
    MultiSigTransactionPayload |-> MultiSigPayloadClasses,
    payloadPresent |-> PayloadPresentClasses,
    Transaction |-> UserTransactionClasses,
    TransactionArgument |-> TransactionArgumentClasses,
    EntryFunctionArgument |-> EntryFunctionArgumentClasses,
    isSome |-> OptionClasses,
    TransactionAuthenticator |-> TransactionAuthenticatorClasses,
    AccountAuthenticator |-> AccountAuthenticatorClasses,
    ScriptABI |-> ScriptABIClasses ]

\* What deserialize makes of a variant index.
Switch ==
  [ TypeTag |-> TypeTagSwitch,
    RawTransactionWithData |-> RawTransactionWithDataSwitch,
    TransactionPayload |-> TransactionPayloadSwitch,
    payloadPresent |-> PayloadPresentSwitch,
    Transaction |-> TransactionSwitch,
    TransactionArgument |-> TransactionArgumentSwitch,
    EntryFunctionArgument |-> EntryFunctionArgumentSwitch,
    TransactionAuthenticator |-> TransactionAuthenticatorSwitch,
    AccountAuthenticator |-> AccountAuthenticatorSwitch,
    ScriptABI |-> ScriptABISwitch ]
Case(class, i) == IF i + 1 \in DOMAIN Switch[class] THEN Switch[class][i + 1] ELSE Unknown

AddressLength == 20
Width ==
  [ u8 |-> 1, u16 |-> 2, u32 |-> 4, u64 |-> 8, u128 |-> 16, u256 |-> 32, bool |-> 1,
    address |-> AddressLength, sender |-> AddressLength,
    multisig_address |-> AddressLength, sequence_number |-> 8, max_gas_amount |-> 8,
    gas_unit_price |-> 8, expiration_timestamp_secs |-> 8, chain_id |-> 8 ]

PublicKeyLength == 65
SignatureLength == 64
BitmapLength == 4
MaxSignatures == 32
KeyLengths ==
  [ Secp256k1PublicKey |-> {PublicKeyLength}, Secp256k1Signature |-> {SignatureLength},
    MultiSecp256k1PublicKey |-> {k * PublicKeyLength + 1 : k \in KeyCounts},
    MultiSecp256k1Signature |-> {k * SignatureLength + BitmapLength : k \in KeyCounts} ]

Texts == {"str", "name", "module_name", "function_name", "doc", "bytes", "code"}
Lengths ==
  [ t \in Texts \cup DOMAIN KeyLengths |->
      IF t \in Texts THEN TextLengths[t] ELSE KeyLengths[t] ]

ElementOf ==
  [ type_args |-> "TypeTag", ty_args |-> "TypeTag", script_args |-> "TransactionArgument",
    args |-> "EntryFunctionArgument", elements |-> "EntryFunctionArgument",
    fields |-> "Field", secondary_signer_addresses |-> "address",
    secondary_signers |-> "AccountAuthenticator",
    abi_ty_args |-> "TypeArgumentABI", abi_args |-> "ArgumentABI" ]

Items == DOMAIN Width \cup DOMAIN Lengths \cup DOMAIN ElementOf \cup DOMAIN Variants
         \cup DOMAIN Plains

ASSUME LayoutsAssumption ==
  /\ Roots \subseteq Items /\ Fuel \in [Roots -> Nat] /\ Cuts \subseteq Nat
  /\ TextLengths \in [Texts -> SUBSET Nat] /\ KeyCounts \subseteq Nat

\* The choices that make a value larger, each paid for with fuel.
Enlarging == {"TypeTagVector", "TypeTagStruct", "Some", "EntryFunctionArgumentStruct",
              "SomePayload", "TransactionAuthenticatorMultiAgent"}
Cost(variant) == IF variant \in Enlarging THEN 1 ELSE 0

-----------------------------------------------------------------------------
VARIABLES
  phase,    \* "write", "read", "done" or "threw"
  root,     \* the class serialized and deserialized
  stack,    \* what is still to be written or read, the next one first
  bytes,    \* the serializer's buffer, then the deserializer's
  pos,      \* the deserializer's offset
  written,  \* the log of the object serialized
  got,      \* the log of the object read so far
  cut,      \* by how many bytes the encoding was cut short
  fuel      \* what is left of the root's Fuel

vars == <<phase, root, stack, bytes, pos, written, got, cut, fuel>>

Init ==
  /\ phase = "write" /\ root \in Roots /\ stack = <<root>>
  /\ bytes = << >> /\ pos = 0 /\ written = << >> /\ got = << >> /\ cut = 0
  /\ fuel = Fuel[root]

Top == Head(stack)
Entry(what, value, end, rest) ==
  [what |-> what, value |-> value, end |-> end, rest |-> rest]
Turn(p) == phase = p /\ stack # << >>

(***************************************************************************)
(* Writing                                                                 *)
(***************************************************************************)

\* serializeU32AsUleb128; no length here is so large that it is refused.
Uleb[n \in Nat] ==
  IF n < 128 THEN <<n>> ELSE <<128 + (n % 128)>> \o Uleb[n \div 128]

Contents(n) == {s \in Samples(n, Len(written)) : s \in [1..n -> 0..255]}

Put(encoding, what, value, fields, cost) ==
  /\ bytes' = bytes \o encoding
  /\ stack' = fields \o Tail(stack)
  /\ written' = Append(written, Entry(what, value, Len(bytes'), stack'))
  /\ fuel' = fuel - cost
  /\ UNCHANGED <<phase, root, pos, got, cut>>

\* A number or an address.
WriteFixed ==
  /\ Turn("write") /\ Top \in DOMAIN Width \ {"bool"}
  /\ \E s \in Contents(Width[Top]) : Put(s, Top, s, << >>, 0)

WriteBool ==
  /\ Turn("write") /\ Top = "bool"
  /\ \E b \in 0..1 : Put(<<b>>, Top, <<b>>, << >>, 0)

\* serializeBytes and serializeStr: a length, then the content.  The last byte
\* of a multi-key is its threshold, which the constructor bounds.
WriteBytes ==
  /\ Turn("write") /\ Top \in DOMAIN Lengths
  /\ \E n \in Lengths[Top] : \E s \in Contents(n) :
       /\ Top = "MultiSecp256k1PublicKey" => s[n] <= MaxSignatures
       /\ Put(Uleb[n] \o s, Top, s, << >>, 0)

\* serializeVector: a length, then the elements.
WriteVector ==
  /\ Turn("write") /\ Top \in DOMAIN ElementOf
  /\ \E n \in 0..fuel : Put(Uleb[n], Top, <<n>>, [i \in 1..n |-> ElementOf[Top]], n)

\* The serialize of a variant: its index, then its fields.
WriteVariant ==
  /\ Turn("write") /\ Top \in DOMAIN Variants
  /\ \E v \in DOMAIN Variants[Top] :
       /\ Cost(v) <= fuel
       /\ Put(Uleb[Variants[Top][v].index], v, << >>, Variants[Top][v].writes, Cost(v))

\* The serialize of a plain class calls those of its fields.
WritePlain ==
  /\ Turn("write") /\ Top \in DOMAIN Plains
  /\ Put(<< >>, Top, << >>, Plains[Top].writes, 0)

\* getBytes; the bytes reach the reader whole or cut short.
Hand ==
  /\ phase = "write" /\ stack = << >>
  /\ \E k \in Cuts :
       /\ k <= Len(bytes) /\ cut' = k
       /\ bytes' = SubSeq(bytes, 1, Len(bytes) - k)
  /\ phase' = "read" /\ stack' = <<root>>
  /\ UNCHANGED <<root, pos, written, got, fuel>>

(***************************************************************************)
(* Reading                                                                 *)
(***************************************************************************)

\* mutation: a bound that is off by one
HasOneFewer(p, n) == p + n <= Len(bytes) + 1

\* Deserializer.read: are there n more bytes at offset p?
Has(p, n) == p + n <= Len(bytes)
\* ... and which (ArrayBuffer.slice ends at the end of the buffer).
Slice(p, n) == SubSeq(bytes, p + 1, IF p + n <= Len(bytes) THEN p + n ELSE Len(bytes))

\* deserializeUleb128AsU32: bytes up to the first below 128.  Its overflow
\* branch needs a length of 2^32 - 1 or more, which no writer here emits.
HasUleb == ~ \A p \in pos + 1 .. Len(bytes) : bytes[p] >= 128
UlebEnd ==
  CHOOSE p \in pos + 1 .. Len(bytes) :
    bytes[p] < 128 /\ \A q \in pos + 1 .. p - 1 : bytes[q] >= 128
UlebLast[k \in 0..UlebEnd] ==   \* the number in the last k of its bytes
  IF k = 0 THEN 0 ELSE (bytes[UlebEnd - k + 1] % 128) + 128 * UlebLast[k - 1]
UlebValue == UlebLast[UlebEnd - pos]

\* What the constructors of the keys and signatures accept; a multi-key and a
\* multi-signature are cut into parts from the front, each of a full length.
Accepts(what, value) ==
  LET n == Len(value) IN
  CASE what = "Secp256k1PublicKey" -> n = PublicKeyLength
    [] what = "Secp256k1Signature" -> n = SignatureLength
    [] what = "MultiSecp256k1PublicKey" ->
         n % PublicKeyLength \in 0..1 /\ (n > 0 => value[n] <= MaxSignatures)
    [] what = "MultiSecp256k1Signature" ->
         n >= BitmapLength /\ n % SignatureLength \in 0..BitmapLength
    [] OTHER -> TRUE

\* The variant an index stands for: any index of a multisig payload is skipped,
\* any other than 0 makes an option present, the rest are the cases of a switch.
Chosen(class, i) ==
  CASE class = "MultiSigTransactionPayload" -> "InnerEntryFunction"
    [] class = "isSome" -> IF i = 0 THEN "None" ELSE "Some"
    [] OTHER -> Case(class, i)

\* Can the reader take the next item, or does it throw?
Readable ==
  \/ Top \in DOMAIN Width /\ Has(pos, Width[Top])
     /\ (Top = "bool" => Slice(pos, 1) \in {<<0>>, <<1>>})
  \/ Top \in DOMAIN Lengths /\ HasUleb /\ Has(UlebEnd, UlebValue)
     /\ Accepts(Top, Slice(UlebEnd, UlebValue))
  \/ Top \in DOMAIN ElementOf /\ HasUleb
  \/ Top \in DOMAIN Variants /\ HasUleb /\ Chosen(Top, UlebValue) # Unknown
  \/ Top \in DOMAIN Plains

Take(end, what, value, fields) ==
  /\ pos' = end
  /\ stack' = fields \o Tail(stack)
  /\ got' = Append(got, Entry(what, value, end, stack'))
  /\ UNCHANGED <<phase, root, bytes, written, cut, fuel>>

ReadFixed ==
  /\ Turn("read") /\ Top \in DOMAIN Width /\ Readable
  /\ Take(pos + Width[Top], Top, Slice(pos, Width[Top]), << >>)

ReadBytes ==
  /\ Turn("read") /\ Top \in DOMAIN Lengths /\ Readable
  /\ Take(UlebEnd + UlebValue, Top, Slice(UlebEnd, UlebValue), << >>)

\* deserializeVector.
ReadVector ==
  /\ Turn("read") /\ Top \in DOMAIN ElementOf /\ Readable
  /\ Take(UlebEnd, Top, <<UlebValue>>, [i \in 1..UlebValue |-> ElementOf[Top]])

\* deserialize of an abstract class, then load of the variant.
ReadVariant ==
  /\ Turn("read") /\ Top \in DOMAIN Variants /\ Readable
  /\ LET v == Chosen(Top, UlebValue) IN Take(UlebEnd, v, << >>, Variants[Top][v].reads)

ReadPlain ==
  /\ Turn("read") /\ Top \in DOMAIN Plains
  /\ Take(pos, Top, << >>, Plains[Top].reads)

\* The end of the buffer, an unknown index, or a length or value refused.
Throw ==
  /\ Turn("read") /\ ~Readable
  /\ phase' = "threw"
  /\ UNCHANGED <<root, stack, bytes, pos, written, got, cut, fuel>>

\* The outermost deserialize returns; bytes left over are not looked at.
Return ==
  /\ phase = "read" /\ stack = << >>
  /\ phase' = "done"
  /\ UNCHANGED <<root, stack, bytes, pos, written, got, cut, fuel>>

Next ==
  \/ WriteFixed \/ WriteBool \/ WriteBytes \/ WriteVector \/ WriteVariant \/ WritePlain
  \/ Hand
  \/ ReadFixed \/ ReadBytes \/ ReadVector \/ ReadVariant \/ ReadPlain
  \/ Throw \/ Return

Spec == Init /\ [][Next]_vars

-----------------------------------------------------------------------------
(* Properties *)

\* The names of an entry: those of the items and of the variants.
Names == Items \cup UNION {DOMAIN Variants[c] : c \in DOMAIN Variants}
Entries == [what : Names, value : Seq(Nat), end : Nat, rest : Seq(Items)]

\* The state is made of the classes of the tables and of bytes.
TypeOK ==
  /\ phase \in {"write", "read", "done", "threw"} /\ root \in Roots
  /\ stack \in Seq(Items) /\ bytes \in Seq(0..255)
  /\ pos \in 0..Len(bytes) /\ cut \in Cuts \cup {0} /\ fuel \in 0..Fuel[root]
  /\ written \in Seq(Entries) /\ got \in Seq(Entries)

\* The tags that share the index of TypeTagU8 on the wire.
Misnumbered == {"TypeTagU16", "TypeTagU32", "TypeTagU256"}
Wrote(variants) == \E i \in DOMAIN written : written[i].what \in variants

\* An object without a u16, u32 or u256 tag is read back as it was written:
\* every field in its place, every variant the same, and every byte used.
RoundTrip ==
  phase = "done" /\ cut = 0 /\ ~Wrote(Misnumbered) => got = written /\ pos = Len(bytes)

\* An encoding is refused exactly if it was cut short: no proper prefix of one is taken
\* for an object, and no deserializer refuses what the serializer of its class has written.
PrefixRefused == /\ phase = "done" => cut = 0
                 /\ phase = "threw" => cut > 0

\* Every tag the builder's documentation lists is read back as it was written.
TagsSurvive == phase = "done" /\ cut = 0 => got = written

-----------------------------------------------------------------------------
(* The inductive invariant *)

\* Where an entry of the log of the writer begins, and its stack there.
Start(i) == IF i = 1 THEN 0 ELSE written[i - 1].end
Before(i) == IF i = 1 THEN <<root>> ELSE written[i - 1].rest

\* Entry i stands for the code in the bytes, as far as they are not cut off.
Coded(i, code, fields) ==
  /\ written[i].end = Start(i) + Len(code)
  /\ written[i].rest = fields \o Tail(Before(i))
  /\ \A j \in 1..Len(code) : Start(i) + j <= Len(bytes) => bytes[Start(i) + j] = code[j]

\* Entry i is what one write of the item on top of the stack has logged.
WellWritten(i) ==
  LET e == written[i]
      item == Head(Before(i)) IN
  /\ Before(i) # << >>
  /\ e.end <= Len(bytes) + cut
  /\ \/ item \in DOMAIN Width /\ e.what = item
        /\ e.value \in [1..Width[item] -> 0..255]
        /\ (item = "bool" => e.value \in {<<0>>, <<1>>})
        /\ Coded(i, e.value, << >>)
     \/ item \in DOMAIN Lengths /\ e.what = item
        /\ e.value \in Seq(0..255) /\ Accepts(item, e.value)
        /\ Coded(i, Uleb[Len(e.value)] \o e.value, << >>)
     \/ item \in DOMAIN ElementOf /\ e.what = item
        /\ e.value \in [1..1 -> Nat]
        /\ Coded(i, Uleb[e.value[1]], [k \in 1..e.value[1] |-> ElementOf[item]])
     \/ item \in DOMAIN Variants /\ e.what \in DOMAIN Variants[item] /\ e.value = << >>
        /\ Coded(i, Uleb[Variants[item][e.what].index], Variants[item][e.what].writes)
     \/ item \in DOMAIN Plains /\ e.what = item /\ e.value = << >>
        /\ Coded(i, << >>, Plains[item].writes)

\* What the reader makes of an entry: a misnumbered tag is a TypeTagU8 to it.
AsRead(e) == [e EXCEPT !.what = IF e.what \in Misnumbered THEN "TypeTagU8" ELSE e.what]

\* The reader stands where the writer stood after as many entries.
Follows ==
  /\ Len(got) <= Len(written)
  /\ \A i \in 1..Len(got) : got[i] = AsRead(written[i])
  /\ pos = Start(Len(got) + 1) /\ stack = Before(Len(got) + 1)

\* The log of the writer explains every byte of the buffer and every item of
\* the stack, and the reader, however far it is, has retraced it.
IInv ==
  /\ TypeOK
  /\ \A i \in 1..Len(written) : WellWritten(i)
  /\ Len(bytes) + cut = Start(Len(written) + 1)
  /\ IF phase = "write"
     THEN stack = Before(Len(written) + 1) /\ cut = 0 /\ pos = 0 /\ got = << >>
     ELSE Before(Len(written) + 1) = << >> /\ Follows
  /\ phase = "done" => stack = << >>
  /\ phase = "threw" => cut > 0
=============================================================================
