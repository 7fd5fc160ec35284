------------------------------ MODULE Signing ------------------------------
(***************************************************************************)
(* What is signed: the EIP-712 message that TransactionBuilder of          *)
(* src/src/transaction_builder/builder.ts makes of a transaction, from the *)
(* texts and types of src/src/moveup_types/transaction.ts, and the part of *)
(* it that eth-sig-util hashes (external).                                 *)
(*                                                                         *)
(* An argument is what Arguments!ToEntryFunctionArgument gives.  A type of *)
(* EIP-712 is its base with the number of its "[]".  Texts are bytes.      *)
(***************************************************************************)
EXTENDS Arguments

EipTypes == [base : DOMAIN Limit \cup {"bool", "address", "string"}, dims : Nat]
Eip(base) == [base |-> base, dims |-> 0]
ArrayOf(type) == [type EXCEPT !.dims = @ + 1]
TextOf(x) == [v |-> "text", x |-> x]
TagText(words) == [v |-> "tag", words |-> words]
ListOf(xs) == [v |-> "list", xs |-> xs]
NumberOf(n) == [v |-> "number", n |-> Double(n)]   \* Number(...)
Brackets == TextOf(Utf8(<<91, 93>>))               \* "[]"

\* A string value; one that is not of form "text" is not empty and stands for itself.
TextValue(v) == IF HasForm(v, {"text"}) THEN TextOf(Utf8(v.chars)) ELSE [v |-> "string", of |-> v]

\* EntryFunctionArgumentToEip712String
Eip712Type[m \in Arg] ==
    CASE m.t = "num" -> Eip(m.w)     \* "uint8" .. "uint256"
      [] m.t \in {"bool", "address"} -> Eip(m.t)
      [] m.t = "vec" /\ m.of # << >> -> ArrayOf(Eip712Type[m.of[1]])
      [] m.t = "some" -> ArrayOf(Eip712Type[m.of])
      [] OTHER -> Eip("string")

\* What a vector pushes for one element: nothing for "" and for a struct.
VectorToString(pushed) == IF pushed = << >> THEN Brackets ELSE ListOf(FlattenSeq(pushed))
Pushed[m \in Arg] ==
    CASE m.t = "num" -> <<NumberOf(m.n)>>
      [] m.t \in {"bool", "address"} -> <<m>>
      [] m.t = "text" -> IF TextValue(m.v) = TextOf(<< >>) THEN << >> ELSE <<TextValue(m.v)>>
      [] m.t = "vec" -> <<VectorToString([i \in DOMAIN m.of |-> Pushed[m.of[i]]])>>
      [] m.t = "some" -> <<VectorToString(<<Pushed[m.of]>>)>>
      [] m.t = "none" -> <<ListOf(<< >>)>>      \* [undefined], which has one element
      [] OTHER -> << >>

\* EntryFunctionArgumentToString
Eip712Value(m) ==
    CASE m.t = "num" -> NumberOf(m.n)
      [] m.t \in {"bool", "address"} -> m
      [] m.t = "text" -> TextValue(m.v)
      [] m.t = "vec" -> VectorToString([i \in DOMAIN m.of |-> Pushed[m.of[i]]])
      [] m.t = "some" -> VectorToString(<<Pushed[m.of]>>)
      [] m.t = "none" -> Brackets
      [] m.t = "struct" -> TagText(TypeTagToString[m.tag])
-----------------------------------------------------------------------------
(* eth-sig-util, version V4 (external). *)

CannotHash == [v |-> "thrown"]
Hashable(xs) == CannotHash \notin Range(xs)
\* Buffer.from of an array: each number modulo 256, anything else 0.
BufferByte(x) == IF "n" \in DOMAIN x THEN x.n % 256 ELSE 0

\* What EntryFunctionArgumentToString gives, with at most n lists one inside the other.
DataOver(inner) ==
    [v : {"number"}, n : Int] \cup [t : {"bool"}, b : BOOLEAN] \cup [t : {"address"}, a : STRING]
    \cup [v : {"text"}, x : Bytes] \cup [v : {"string"}, of : Value]
    \cup [v : {"tag"}, words : Seq(STRING)] \cup [v : {"list"}, xs : Seq(inner)]
DataLevel[n \in 0..Depth] == DataOver(IF n = 0 THEN {} ELSE DataLevel[n - 1])
Data == DataLevel[Depth]

EncodedAtom(x, base) ==
    CASE base = "string" ->
           IF "xs" \in DOMAIN x THEN TextOf([i \in DOMAIN x.xs |-> BufferByte(x.xs[i])]) ELSE x
      [] base \in DOMAIN Limit ->
           \* bn.js takes no number of 2^53 or more.
           IF "n" \in DOMAIN x
           THEN IF x.n \in 0..Limit[base] /\ x.n < TwoTo53 THEN x ELSE CannotHash
           ELSE CannotHash
      [] OTHER -> x
Encoded[x \in Data] == [type \in EipTypes |->
    IF type.dims = 0 THEN EncodedAtom(x, type.base)
    ELSE IF "xs" \notin DOMAIN x THEN CannotHash    \* value.map
    ELSE LET of == [i \in DOMAIN x.xs |-> Encoded[x.xs[i]][[type EXCEPT !.dims = @ - 1]]]
         IN IF Hashable(of) THEN ListOf(of) ELSE CannotHash]

Zeros == [v |-> "zeros"]   \* a field whose value is undefined
-----------------------------------------------------------------------------
(* Transactions.  Of the fields that are numbers max_gas_amount stands for   *)
(* all of type u64, which are treated alike.                                *)

EntryPayload(function, ty_args, args) ==
    [kind |-> "entry", function |-> function, ty_args |-> ty_args, args |-> args]
ScriptPayload(code, ty_args, args) ==
    [kind |-> "script", function |-> code, ty_args |-> ty_args, args |-> args]
MultisigPayload(payload) == [kind |-> "multisig", inner |-> payload]

Texts(tags) == [i \in DOMAIN tags |-> TypeTagToString[tags[i]]]

\* mutation: the type arguments are left out of the message
EntryMessageNoTypes(p) ==
    LET types == [i \in DOMAIN p.args |-> Eip712Type[p.args[i]]]
        values == [i \in DOMAIN p.args |-> Encoded[Eip712Value(p.args[i])][types[i]]]
    IN IF Hashable(values)
       THEN [v |-> "entry", function |-> p.function, tyArgs |-> << >>,
             types |-> types, args |-> values]
       ELSE CannotHash
EntryMessage(p) ==
    LET types == [i \in DOMAIN p.args |-> Eip712Type[p.args[i]]]
        values == [i \in DOMAIN p.args |-> Encoded[Eip712Value(p.args[i])][types[i]]]
    IN IF Hashable(values)
       THEN [v |-> "entry", function |-> p.function, tyArgs |-> Texts(p.ty_args),
             types |-> types, args |-> values]
       ELSE CannotHash
\* TransactionArgumentToString: the value with its type, as decimal text
ScriptMessage(p) == [v |-> "script", code |-> p.function, tyArgs |-> Texts(p.ty_args),
                     args |-> p.args]
\* getEip712TypedData: the branch of a multisig payload leaves "payload" undefined.
PayloadMessage(p) == CASE p.kind = "entry" -> EntryMessage(p)
                       [] p.kind = "script" -> ScriptMessage(p)
                       [] p.kind = "multisig" -> Zeros

\* getEip712SigningMessage; "sender" of a MultiAgentRawTransaction is undefined, and throws.
SigningMessage(txn) ==
    LET payload == PayloadMessage(txn.payload)
        gas == Encoded[NumberOf(txn.max_gas_amount)][Eip("u256")]
    IN IF txn.agents \/ payload = CannotHash \/ gas = CannotHash THEN CannotHash
       ELSE [v |-> "message", payload |-> payload, max_gas_amount |-> gas]

\* bcsToBytes(rawTxn): every number is checked against its range when it is written.
Serializable(txn) ==
    LET args == IF txn.payload.kind = "multisig" THEN txn.payload.inner.args
                ELSE txn.payload.args
    IN txn.max_gas_amount \in 0..U64Max /\ \A i \in DOMAIN args : InRange[args[i]]
SignedUnchecked(txn) == SigningMessage(txn)   \* mutation: the range checks are gone
\* rawToSigned, then bcsToBytes of the result
Signed(txn) == IF SigningMessage(txn) # CannotHash /\ Serializable(txn)
               THEN SigningMessage(txn) ELSE CannotHash
=============================================================================
