----------------------------- MODULE MCClients -----------------------------
(* Instances of Clients for TLC. *)
EXTENDS ClientPlans

CONSTANTS c1, c2

\* With and without the store; its table is empty.
MCLedger(store) == [item \in Items |->
    CASE item \in {"account", "nonce"} -> 0 [] item = "store" -> store
      [] item = "entry" -> Absent [] OTHER -> 1]

\* Every plan alone; one that submits beside another transaction of the account;
\* two deposits of one L1 account.
Nobody == Plan(<< >>)
MCPlans == AllPlans \cup {Nobody}
Pair(p, q) == [c \in Calls |-> IF c = c1 THEN p ELSE q]
MCSettings ==
    {[ledger |-> MCLedger(store), plans |-> Pair(p, Nobody)] : store \in {1, Absent}, p \in AllPlans}
    \cup {[ledger |-> MCLedger(1), plans |-> Pair(p, q)] :
             p \in GenerateSignSubmit, q \in SubmitSignedBCSTransaction}
    \cup {[ledger |-> MCLedger(1), plans |-> Pair(p, q)] : p \in DepositETH, q \in DepositERC20}

\* A token looked up.
TokenSettings == {[ledger |-> MCLedger(1), plans |-> Pair(p, Nobody)] : p \in GetTokenForAccount}
=============================================================================
