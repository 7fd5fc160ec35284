----------------------------- MODULE MCLayouts -----------------------------
(* Instances of Layouts for TLC. *)
EXTENDS Layouts

\* Every root of the wire format; nested values are explored deeper on their own.
AllRoots ==
  [ Transaction |-> 2, RawTransactionWithData |-> 1, ScriptABI |-> 2, Module |-> 0,
    TypeTag |-> 4, EntryFunctionArgument |-> 3 ]

\* The lengths explored; 130, and those of multi-keys and multi-signatures, need
\* a length prefix of two bytes.
MCTextLengths ==
  [ str |-> {2}, name |-> {2}, module_name |-> {1}, function_name |-> {1}, doc |-> {0},
    bytes |-> {0}, code |-> {130} ]

\* One content for each place: it differs from place to place and from byte to
\* byte, and any of its bytes is a threshold a multi-key may have.
ByPlace(n, i) == {[j \in 1..n |-> 1 + ((i + j) % (MaxSignatures - 1))]}

\* What the remote ABI builder writes and reads back.
AbiRoots == [ ScriptABI |-> 2 ]
=============================================================================
