------------------------------ MODULE TxnBuild ------------------------------
(***************************************************************************)
(* How a raw transaction gets its sequence number and its expiration:      *)
(* MoveupClient.generateTransaction and CoinClient.transfer through        *)
(* TransactionBuilderRemoteABI, and rotateAuthKeySecp256k1 through         *)
(* generateRawTransaction.  The calls are of one account, run concurrently *)
(* and read clock and chain at different moments.  Time is in seconds.     *)
(***************************************************************************)
EXTENDS Integers

CONSTANTS Generated,  \* calls of generateTransaction
          Coin,       \* calls of CoinClient.transfer
          Rotations,  \* calls of rotateAuthKeySecp256k1
          Asks,       \* calls with an expiration: expiration_timestamp_secs or expireTimestamp, ...
          Asked,      \* ... which is this
          SeqGiven,   \* calls of generateTransaction with options.sequence_number, ...
          GivenSeq,   \* ... which is this
          ExpSecs,    \* DEFAULT_TXN_EXP_SEC_FROM_NOW
          MaxTime, MaxSeq,  \* bounds of the clock and of the account's sequence number
          Unset

Calls == Generated \cup Coin \cup Rotations

ASSUME KindAssumption == /\ Generated \cap Rotations = {} /\ Coin \cap Rotations = {}
                         /\ Generated \cap Coin = {} /\ SeqGiven \subseteq Generated
                         /\ Asks \subseteq Calls
ASSUME NumberAssumption == /\ Asked \in Nat /\ GivenSeq \in Nat /\ ExpSecs \in Nat
                           /\ MaxTime \in Nat /\ MaxSeq \in Nat
ASSUME NoTransaction == Unset \notin Int /\ Unset \notin [seq : Nat, exp : Int]

VARIABLES now, chainSeq,
          stage,    \* where each call stands
          fromNow,  \* builderConfig.expSecFromNow
          got,      \* the reads of Promise.all that have resolved
          seqRead,  \* the sequence number the last getAccount gave
          proof,    \* the sequence number in the signed RotationProofChallenge
          tx,       \* the raw transaction, once built
          began, built,  \* history: when the call began, when it built its transaction
          moved,    \* history: the account moved on between the two reads of a rotation
          result    \* of the execution of the transaction

buildVars ==
    <<now, chainSeq, stage, fromNow, got, seqRead, proof, tx, began, built, moved, result>>
call == <<fromNow, got, seqRead, proof, tx, began, built>>

Reads(b) == {"chainId", "gas"} \cup IF b \in SeqGiven THEN {} ELSE {"account"}

BuildTypeOK ==
    /\ now \in Nat /\ chainSeq \in Nat
    /\ stage \in [Calls -> {"start", "proof", "abi", "gather", "built", "failed", "committed"}]
    /\ fromNow \in [Calls -> Int]
    /\ got \in [Calls -> SUBSET {"account", "chainId", "gas"}]
    /\ seqRead \in [Calls -> Nat]
    /\ proof \in [Calls -> Nat \cup {Unset}]
    /\ tx \in [Calls -> [seq : Nat, exp : Int] \cup {Unset}]
    /\ began \in [Calls -> Nat] /\ built \in [Calls -> Nat]
    /\ moved \in [Calls -> BOOLEAN]
    /\ result \in [Calls -> {"none", "ok", "fail"}]

BuildInit ==
    /\ now = 0 /\ chainSeq = 0
    /\ stage = [b \in Calls |-> "start"]
    /\ fromNow = [b \in Calls |-> ExpSecs]
    /\ got = [b \in Calls |-> {}]
    /\ seqRead = [b \in Calls |-> 0]
    /\ proof = [b \in Calls |-> Unset]
    /\ tx = [b \in Calls |-> Unset]
    /\ began = [b \in Calls |-> 0] /\ built = [b \in Calls |-> 0]
    /\ moved = [b \in Calls |-> FALSE]
    /\ result = [b \in Calls |-> "none"]
-----------------------------------------------------------------------------
(* The client. *)

SpreadFirst(b) == ExpSecs   \* mutation: the default is spread over the caller's config
\* The expSecFromNow the builder is given, or its default; an expireTimestamp is
\* spread into the config of a transfer too, where nothing reads it.
ConfiguredFromNow(b) == IF b \in Generated \cap Asks THEN Asked - now ELSE ExpSecs

\* The call of generateTransaction, transfer or rotateAuthKeySecp256k1.
Begin(b) ==
    /\ stage[b] = "start"
    /\ stage' = [stage EXCEPT ![b] = IF b \in Rotations THEN "proof" ELSE "abi"]
    /\ fromNow' = [fromNow EXCEPT ![b] = ConfiguredFromNow(b)]
    /\ began' = [began EXCEPT ![b] = now]
    /\ UNCHANGED <<now, chainSeq, got, seqRead, proof, tx, built, moved, result>>

\* fetchABI resolves and knows the function.
AbiArrives(b) ==
    /\ stage[b] = "abi"
    /\ stage' = [stage EXCEPT ![b] = "gather"]
    /\ UNCHANGED <<now, chainSeq, call, moved, result>>

ProofNext(b) ==   \* mutation: the proof is for the number after the account's
    /\ stage[b] = "proof"
    /\ stage' = [stage EXCEPT ![b] = "gather"]
    /\ proof' = [proof EXCEPT ![b] = chainSeq + 1]
    /\ UNCHANGED <<now, chainSeq, fromNow, got, seqRead, tx, began, built, moved, result>>

\* The account is there: the challenge is signed with its sequence number.
ProofRead(b) ==
    /\ stage[b] = "proof"
    /\ stage' = [stage EXCEPT ![b] = "gather"]
    /\ proof' = [proof EXCEPT ![b] = chainSeq]
    /\ UNCHANGED <<now, chainSeq, fromNow, got, seqRead, tx, began, built, moved, result>>

\* A read of Promise.all resolves.
ReadResolves(b, r) ==
    /\ stage[b] = "gather" /\ r \in Reads(b) \ got[b]
    /\ got' = [got EXCEPT ![b] = @ \cup {r}]
    /\ seqRead' = [seqRead EXCEPT ![b] = IF r = "account" THEN chainSeq ELSE @]
    /\ UNCHANGED <<now, chainSeq, stage, fromNow, proof, tx, began, built, moved, result>>

\* A request is rejected, the function does not exist, or the builder throws: the
\* gas price is 0, or an argument does not fit the ABI.
Rejects(b) ==
    /\ \/ stage[b] \in {"proof", "abi"}
       \/ stage[b] = "gather" /\ (got[b] # Reads(b) \/ b \notin Rotations)
    /\ stage' = [stage EXCEPT ![b] = "failed"]
    /\ UNCHANGED <<now, chainSeq, call, moved, result>>

Expiration(b) == CASE b \notin Rotations -> now + fromNow[b]
                   [] b \in Rotations \cap Asks -> Asked
                   [] OTHER -> now + ExpSecs

\* Mutation: a rotation reuses the sequence number its proof was made with.
BuildReusesProof(b) ==
    /\ stage[b] = "gather" /\ got[b] = Reads(b)
    /\ stage' = [stage EXCEPT ![b] = "built"]
    /\ tx' = [tx EXCEPT ![b] = [seq |-> IF b \in Rotations THEN proof[b] ELSE seqRead[b],
                                exp |-> Expiration(b)]]
    /\ built' = [built EXCEPT ![b] = now]
    /\ UNCHANGED <<now, chainSeq, fromNow, got, seqRead, proof, began, moved, result>>

\* All have resolved: the transaction is made, signed and posted.
Build(b) ==
    /\ stage[b] = "gather" /\ got[b] = Reads(b)
    /\ stage' = [stage EXCEPT ![b] = "built"]
    /\ tx' = [tx EXCEPT ![b] = [seq |-> IF b \in SeqGiven THEN GivenSeq ELSE seqRead[b],
                                exp |-> Expiration(b)]]
    /\ built' = [built EXCEPT ![b] = now]
    /\ UNCHANGED <<now, chainSeq, fromNow, got, seqRead, proof, began, moved, result>>
-----------------------------------------------------------------------------
(* The chain. *)

\* The account's sequence number grows; a rotation between its two reads misses it.
Advance == /\ chainSeq < MaxSeq
           /\ chainSeq' = chainSeq + 1
           /\ moved' = [b \in Calls |-> moved[b] \/ (/\ b \in Rotations /\ stage[b] = "gather"
                                                   /\ "account" \notin got[b])]

\* A block takes the transaction. A rotation can only succeed if its proof is
\* for the sequence number it is executed at.
Commit(b) ==
    /\ stage[b] = "built" /\ tx[b].seq = chainSeq /\ now < tx[b].exp
    /\ Advance
    /\ stage' = [stage EXCEPT ![b] = "committed"]
    /\ \E r \in {"ok", "fail"} :
         /\ b \in Rotations /\ r = "ok" => proof[b] = tx[b].seq
         /\ result' = [result EXCEPT ![b] = r]
    /\ UNCHANGED <<now, call>>

\* A transaction of the account from elsewhere.
Elsewhere == Advance /\ UNCHANGED <<now, stage, call, result>>

Tick == /\ now < MaxTime
        /\ now' = now + 1
        /\ UNCHANGED <<chainSeq, stage, call, moved, result>>

BuildNext == \/ \E b \in Calls : \/ Begin(b) \/ AbiArrives(b) \/ ProofRead(b) \/ Rejects(b)
                            \/ (\E r \in Reads(b) : ReadResolves(b, r))
                            \/ Build(b) \/ Commit(b)
        \/ Elsewhere \/ Tick

BuildSpec == BuildInit /\ [][BuildNext]_buildVars
-----------------------------------------------------------------------------
(* Properties. *)

\* generateTransaction and rotateAuthKeySecp256k1 keep to the expiration they are
\* asked for: the transaction does not expire before it, and after it by no more
\* than the time the reads took.  A transaction for which none is asked expires
\* ExpSecs after it was built, not after the call
\* (moveup_client.ts:304-307 and 729, builder.ts:448 and 555).
ExpirationBounded == \A b \in Calls : tx[b] # Unset =>
    /\ b \in Asks \cap (Generated \cup Rotations) =>
         Asked <= tx[b].exp /\ tx[b].exp <= Asked + (built[b] - began[b])
    /\ b \notin Asks => tx[b].exp = built[b] + ExpSecs

\* "Extra args for building the transaction" (coin_client.ts:39) may have an
\* expireTimestamp (moveup_client.ts:42): no call, a transfer neither, is given a
\* transaction that expires before the moment it asked for.
ExpirationKept == \A b \in Asks : tx[b] # Unset => Asked <= tx[b].exp

\* The proof of a rotation fits its transaction exactly when the account did not
\* move on between the read for the proof and the read for the sequence number,
\* and a rotation that lost that race does not succeed (moveup_client.ts:855, 897).
RotationRace == \A b \in Rotations :
    /\ tx[b] # Unset => (proof[b] = tx[b].seq <=> ~moved[b])
    /\ result[b] = "ok" => ~moved[b]
-----------------------------------------------------------------------------
(* The inductive strengthening of the safety properties. *)

ConfigOK == \A b \in Calls :
    /\ stage[b] # "start" => /\ began[b] <= now
                          /\ fromNow[b] = IF b \in Generated \cap Asks THEN Asked - began[b]
                                                                       ELSE ExpSecs
    /\ tx[b] # Unset <=> stage[b] \in {"built", "committed"}
    /\ tx[b] # Unset => /\ began[b] <= built[b]
                       /\ tx[b].exp = CASE b \notin Rotations -> built[b] + fromNow[b]
                                        [] b \in Rotations \cap Asks -> Asked
                                        [] OTHER -> built[b] + ExpSecs

ProofOK == \A b \in Rotations :
    /\ stage[b] \in {"gather", "built", "committed"} => proof[b] \in Nat
    /\ stage[b] \in {"start", "proof"} => ~moved[b]
    /\ stage[b] = "gather" /\ "account" \notin got[b] =>
         proof[b] <= chainSeq /\ (proof[b] = chainSeq <=> ~moved[b])
    /\ stage[b] = "gather" /\ "account" \in got[b] => (proof[b] = seqRead[b] <=> ~moved[b])
    /\ stage[b] \in {"start", "proof", "abi"} => got[b] = {}
    /\ stage[b] # "abi"
    /\ result[b] # "none" => tx[b] # Unset

BuildInv == BuildTypeOK /\ ConfigOK /\ ProofOK /\ RotationRace
=============================================================================
