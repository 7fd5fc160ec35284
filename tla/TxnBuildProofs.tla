--------------------------- MODULE TxnBuildProofs ---------------------------
(* Proofs about the expiration and the rotation proof of raw transactions. *)
EXTENDS TxnBuild, TLAPS

LEMMA BuildInitInv == BuildInit => BuildInv
<1> SUFFICES ASSUME BuildInit PROVE BuildInv
  OBVIOUS
<1>1. BuildTypeOK
  BY NumberAssumption DEF BuildInit, BuildTypeOK
<1>2. ConfigOK /\ ProofOK /\ RotationRace
  BY KindAssumption DEF BuildInit, ConfigOK, ProofOK, RotationRace, Calls
<1> QED BY <1>1, <1>2 DEF BuildInv

LEMMA TypeNext == BuildTypeOK /\ [BuildNext]_buildVars => BuildTypeOK'
<1> SUFFICES ASSUME BuildTypeOK, [BuildNext]_buildVars PROVE BuildTypeOK'
  OBVIOUS
<1> USE NumberAssumption DEF BuildTypeOK
<1>1. ASSUME NEW b \in Calls, Begin(b) PROVE BuildTypeOK'
  <2>1. ConfiguredFromNow(b) \in Int
    BY DEF ConfiguredFromNow
  <2> QED BY <1>1, <2>1 DEF Begin
<1>2. ASSUME NEW b \in Calls, AbiArrives(b) \/ ProofRead(b) \/ Rejects(b) PROVE BuildTypeOK'
  BY <1>2 DEF AbiArrives, ProofRead, Rejects, call
<1>3. ASSUME NEW b \in Calls, NEW r \in Reads(b), ReadResolves(b, r) PROVE BuildTypeOK'
  <2>1. r \in {"account", "chainId", "gas"}
    BY DEF Reads
  <2> QED BY <1>3, <2>1 DEF ReadResolves
<1>4. ASSUME NEW b \in Calls, Build(b) PROVE BuildTypeOK'
  <2>1. Expiration(b) \in Int
    BY DEF Expiration
  <2>2. (IF b \in SeqGiven THEN GivenSeq ELSE seqRead[b]) \in Nat
    OBVIOUS
  <2> QED BY <1>4, <2>1, <2>2 DEF Build
<1>5. ASSUME NEW b \in Calls, Commit(b) PROVE BuildTypeOK'
  <2>1. moved' \in [Calls -> BOOLEAN]
    BY <1>5, Zenon DEF Commit, Advance
  <2> QED BY <1>5, <2>1 DEF Commit, Advance, call
<1>6. CASE Elsewhere
  <2>1. moved' \in [Calls -> BOOLEAN]
    BY <1>6, Zenon DEF Elsewhere, Advance
  <2> QED BY <1>6, <2>1 DEF Elsewhere, Advance, call
<1>7. CASE Tick
  BY <1>7 DEF Tick, call
<1>8. CASE UNCHANGED buildVars
  BY <1>8 DEF buildVars
<1> QED BY <1>1, <1>2, <1>3, <1>4, <1>5, <1>6, <1>7, <1>8 DEF BuildNext

LEMMA ConfigNext == BuildInv /\ [BuildNext]_buildVars => ConfigOK'
<1> SUFFICES ASSUME BuildInv, [BuildNext]_buildVars PROVE ConfigOK'
  OBVIOUS
<1> USE NumberAssumption, NoTransaction DEF BuildInv, BuildTypeOK, ConfigOK
<1>1. ASSUME NEW b \in Calls, Begin(b) PROVE ConfigOK'
  BY <1>1 DEF Begin, ConfiguredFromNow
<1>2. ASSUME NEW b \in Calls, AbiArrives(b) \/ ProofRead(b) \/ Rejects(b) PROVE ConfigOK'
  BY <1>2 DEF AbiArrives, ProofRead, Rejects, call
<1>3. ASSUME NEW b \in Calls, NEW r \in Reads(b), ReadResolves(b, r) PROVE ConfigOK'
  BY <1>3 DEF ReadResolves
<1>4. ASSUME NEW b \in Calls, Build(b) PROVE ConfigOK'
  <2> DEFINE t == [seq |-> IF b \in SeqGiven THEN GivenSeq ELSE seqRead[b], exp |-> Expiration(b)]
  <2>1. t \in [seq : Nat, exp : Int]
    BY DEF Expiration
  <2>2. t # Unset
    BY <2>1
  <2>3. t.exp = CASE b \notin Rotations -> now + fromNow[b]
                  [] b \in Rotations \cap Asks -> Asked
                  [] OTHER -> now + ExpSecs
    BY DEF Expiration
  <2>4. tx' = [tx EXCEPT ![b] = t]
    BY <1>4 DEF Build
  <2> HIDE DEF t
  <2> QED BY <1>4, <2>2, <2>3, <2>4 DEF Build
<1>5. ASSUME NEW b \in Calls, Commit(b) PROVE ConfigOK'
  BY <1>5 DEF Commit, call
<1>6. CASE Elsewhere
  BY <1>6 DEF Elsewhere, call
<1>7. CASE Tick
  BY <1>7 DEF Tick, call
<1>8. CASE UNCHANGED buildVars
  BY <1>8 DEF buildVars
<1> QED BY <1>1, <1>2, <1>3, <1>4, <1>5, <1>6, <1>7, <1>8 DEF BuildNext

\* What ProofOK and RotationRace say of one rotation.
ProofOf(b) ==
    /\ stage[b] \in {"gather", "built", "committed"} => proof[b] \in Nat
    /\ stage[b] \in {"start", "proof"} => ~moved[b]
    /\ stage[b] = "gather" /\ "account" \notin got[b] =>
         proof[b] <= chainSeq /\ (proof[b] = chainSeq <=> ~moved[b])
    /\ stage[b] = "gather" /\ "account" \in got[b] => (proof[b] = seqRead[b] <=> ~moved[b])
    /\ stage[b] \in {"start", "proof", "abi"} => got[b] = {}
    /\ stage[b] # "abi"
    /\ result[b] # "none" => tx[b] # Unset

RaceOf(b) == /\ tx[b] # Unset => (proof[b] = tx[b].seq <=> ~moved[b])
             /\ result[b] = "ok" => ~moved[b]

\* What the growth of the sequence number does to a rotation.
LEMMA AdvanceOf == ASSUME Advance, NEW c \in Rotations
                   PROVE  /\ stage[c] = "gather" /\ "account" \notin got[c] => moved'[c] = TRUE
                          /\ stage[c] # "gather" \/ "account" \in got[c] =>
                                (moved'[c] = TRUE <=> moved[c])
<1>1. c \in Calls
  BY DEF Calls
<1>2. moved'[c] = (moved[c] \/ (c \in Rotations /\ stage[c] = "gather" /\ "account" \notin got[c]))
  BY <1>1, Zenon DEF Advance
<1> QED BY <1>2

LEMMA ProofNext1 == BuildInv /\ [BuildNext]_buildVars => (ProofOK /\ RotationRace)'
<1> SUFFICES ASSUME BuildInv, [BuildNext]_buildVars PROVE (ProofOK /\ RotationRace)'
  OBVIOUS
<1> USE NumberAssumption, NoTransaction, KindAssumption
    DEF BuildInv, BuildTypeOK, ConfigOK, ProofOK, RotationRace, Calls
<1>1. ASSUME NEW b \in Calls, Begin(b) PROVE (ProofOK /\ RotationRace)'
  BY <1>1 DEF Begin
<1>2. ASSUME NEW b \in Calls, AbiArrives(b) PROVE (ProofOK /\ RotationRace)'
  BY <1>2 DEF AbiArrives, call
<1>3. ASSUME NEW b \in Calls, ProofRead(b) PROVE (ProofOK /\ RotationRace)'
  BY <1>3 DEF ProofRead
<1>4. ASSUME NEW b \in Calls, Rejects(b) PROVE (ProofOK /\ RotationRace)'
  BY <1>4 DEF Rejects, call
<1>5. ASSUME NEW b \in Calls, NEW r \in Reads(b), ReadResolves(b, r) PROVE (ProofOK /\ RotationRace)'
  BY <1>5 DEF ReadResolves
<1>6. ASSUME NEW b \in Calls, Build(b) PROVE (ProofOK /\ RotationRace)'
  BY <1>6 DEF Build, Reads
<1>7. ASSUME NEW b \in Calls, Commit(b) PROVE (ProofOK /\ RotationRace)'
  <2>1. /\ stage[b] = "built" /\ tx[b].seq = chainSeq /\ Advance
        /\ stage' = [stage EXCEPT ![b] = "committed"]
        /\ UNCHANGED <<got, seqRead, proof, tx>>
    BY <1>7 DEF Commit, call
  <2>2. PICK r \in {"ok", "fail"} : /\ b \in Rotations /\ r = "ok" => proof[b] = tx[b].seq
                                   /\ result' = [result EXCEPT ![b] = r]
    BY <1>7 DEF Commit
  <2>3. ASSUME NEW c \in Rotations PROVE ProofOf(c)' /\ RaceOf(c)'
    <3>1. ProofOf(c) /\ RaceOf(c) /\ c \in Calls
      BY DEF ProofOf, RaceOf
    <3>2. /\ stage[c] = "gather" /\ "account" \notin got[c] => moved'[c] = TRUE
          /\ stage[c] # "gather" \/ "account" \in got[c] => (moved'[c] = TRUE <=> moved[c])
      BY <2>1, AdvanceOf
    <3>3. c # b => stage'[c] = stage[c] /\ result'[c] = result[c]
      BY <2>1, <2>2
    <3>4. c = b => stage[c] = "built" /\ stage'[c] = "committed" /\ result'[c] = r
                   /\ (r = "ok" => proof[c] = tx[c].seq)
      BY <2>1, <2>2
    <3>5. UNCHANGED <<got[c], seqRead[c], proof[c], tx[c]>>
      BY <2>1
    <3>6. chainSeq' = chainSeq + 1
      BY <2>1 DEF Advance
    <3> QED BY <3>1, <3>2, <3>3, <3>4, <3>5, <3>6 DEF ProofOf, RaceOf
  <2> QED BY <2>3 DEF ProofOf, RaceOf
<1>8. CASE Elsewhere
  <2>1. ASSUME NEW c \in Rotations PROVE ProofOf(c)' /\ RaceOf(c)'
    <3>1. ProofOf(c) /\ RaceOf(c) /\ c \in Calls
      BY DEF ProofOf, RaceOf
    <3>2. /\ stage[c] = "gather" /\ "account" \notin got[c] => moved'[c] = TRUE
          /\ stage[c] # "gather" \/ "account" \in got[c] => (moved'[c] = TRUE <=> moved[c])
      BY <1>8, AdvanceOf DEF Elsewhere
    <3>3. UNCHANGED <<stage[c], got[c], seqRead[c], proof[c], tx[c], result[c]>>
      BY <1>8 DEF Elsewhere, call
    <3>4. chainSeq' = chainSeq + 1
      BY <1>8 DEF Elsewhere, Advance
    <3> QED BY <3>1, <3>2, <3>3, <3>4 DEF ProofOf, RaceOf
  <2> QED BY <2>1 DEF ProofOf, RaceOf
<1>9. CASE Tick
  BY <1>9 DEF Tick, call
<1>10. CASE UNCHANGED buildVars
  BY <1>10 DEF buildVars
<1> QED BY <1>1, <1>2, <1>3, <1>4, <1>5, <1>6, <1>7, <1>8, <1>9, <1>10 DEF BuildNext

\* Every state has the invariant, for any number of calls of each kind.
THEOREM Invariance == BuildSpec => []BuildInv
<1>1. BuildInv /\ [BuildNext]_buildVars => BuildInv'
  BY TypeNext, ConfigNext, ProofNext1 DEF BuildInv
<1> QED BY BuildInitInv, <1>1, PTL DEF BuildSpec

\* The expiration asked of generateTransaction or of a rotation is kept, or passed
\* by no more than the reads took, and a default one is counted from the moment of
\* building (ExpirationBounded; a transfer drops the one it is asked for).
THEOREM Expirations == BuildSpec => []ExpirationBounded
<1>1. BuildInv => ExpirationBounded
  BY KindAssumption, NumberAssumption
  DEF BuildInv, BuildTypeOK, ConfigOK, ExpirationBounded, Calls
<1> QED BY Invariance, <1>1, PTL

\* The proof of a rotation is stale exactly if the account moved on between the
\* two reads, and then the rotation does not succeed (RotationRace).
THEOREM Rotation == BuildSpec => []RotationRace
<1>1. BuildInv => RotationRace
  BY DEF BuildInv
<1> QED BY Invariance, <1>1, PTL
=============================================================================
