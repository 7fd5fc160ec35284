---------------------------- MODULE TxnFlowProofs ----------------------------
(***************************************************************************)
(* Proofs about TxnFlow, for every set of concurrent calls, every time     *)
(* bound and every pair of defaults with TimeoutSecs >= ExpSecs: what a    *)
(* call reports is what the chain did, a timeout is final, and the calls   *)
(* implement TxnOutcome.  The invariant is a conjunction over the calls;   *)
(* a step of one call leaves the others' conjuncts alone (Frame).          *)
(***************************************************************************)
EXTENDS TxnFlow, TLAPS

\* The part of the invariant that is about one call.
FlowOK(f) ==
    /\ AnswerOK(f) /\ StageOK(f) /\ ElapsedOK(f)
    /\ outcome[f] \in {"resolved", "failed"} => status[f] \in Committed
    /\ outcome[f] = "failed" => status[f] = "fail"
    /\ outcome[f] = "resolved" /\ f \in CheckSuccess => status[f] = "ok"
    /\ f \notin CustomExpiry /\ outcome[f] \in TimedOut => now >= tx[f].exp

\* The variables of one call, none of them shared.
Same(f) == /\ pc'[f] = pc[f] /\ tx'[f] = tx[f] /\ answer'[f] = answer[f]
           /\ count'[f] = count[f] /\ wake'[f] = wake[f] /\ last'[f] = last[f]
           /\ outcome'[f] = outcome[f] /\ status'[f] = status[f]

LEMMA ByFlow == IInv <=> TypeOK /\ SequenceOK /\ \A f \in Flows : FlowOK(f)
  BY DEF IInv, FlowOK, OutcomeSound, TimeoutIsFinal

\* Time and the account's sequence number only grow, so a call whose own state
\* does not change keeps its part of the invariant.
LEMMA Frame ==
  ASSUME TypeOK, NEW g \in Flows, FlowOK(g), Same(g), now' \in Nat, chainSeq' \in Nat,
         now' >= now, chainSeq' >= chainSeq
  PROVE  FlowOK(g)'
  <1>t. /\ now \in Nat /\ chainSeq \in Nat /\ count[g] \in Nat /\ wake[g] \in Nat
        /\ tx[g] \in [seq : Nat, exp : Nat] \cup {None}
    BY DEF TypeOK
  <1>1. AnswerOK(g)'
    BY DEF FlowOK, AnswerOK, Same
  <1>2. StageOK(g)'
    BY <1>t DEF FlowOK, StageOK, Same, Committed
  <1>3. ElapsedOK(g)'
    <2>1. pc[g] \in {"submit", "poll", "sleep"} => tx[g].exp \in Nat
      BY <1>t DEF FlowOK, StageOK
    <2> QED
      BY <1>t, <2>1, ExpiryAssumption DEF FlowOK, ElapsedOK, Same
  <1>4. outcome[g] \in TimedOut => tx[g].exp \in Nat
    BY <1>t DEF FlowOK, StageOK
  <1> QED
    BY <1>1, <1>2, <1>3, <1>4, <1>t DEF FlowOK, Same

\* A step of call f preserves the invariant if it preserves the part about f.
LEMMA Combine ==
  ASSUME IInv, TypeOK', SequenceOK', NEW f \in Flows, FlowOK(f)',
         \A g \in Flows \ {f} : Same(g), now' >= now, chainSeq' >= chainSeq
  PROVE  IInv'
  <1>1. TypeOK /\ \A g \in Flows : FlowOK(g)
    BY ByFlow
  <1>2. now' \in Nat /\ chainSeq' \in Nat
    BY DEF TypeOK
  <1>3. \A g \in Flows \ {f} : FlowOK(g)'
    BY <1>1, <1>2, Frame
  <1>4. \A g \in Flows : FlowOK(g)'
    BY <1>3
  <1> QED
    BY <1>4 DEF IInv, FlowOK, OutcomeSound, TimeoutIsFinal

LEMMA InitInv == Init => IInv
  BY DEF Init, IInv, TypeOK, SequenceOK, OutcomeSound, TimeoutIsFinal, AnswerOK, StageOK, ElapsedOK,
         Committed, TimedOut, Answers, PollAnswers, Outcomes

\* The end of the loop: the transaction of a default call has expired.
LEMMA LoopHeadType ==
  ASSUME TypeOK, NEW f \in Flows, NEW n \in Nat, LoopHead(f, n)
  PROVE  /\ pc' = [pc EXCEPT ![f] = IF n >= TimeoutSecs THEN "done" ELSE "poll"]
         /\ n < TimeoutSecs => outcome' = outcome
         /\ n >= TimeoutSecs => \E o \in TimedOut : outcome' = [outcome EXCEPT ![f] = o]
  BY TimeoutAssumption DEF TypeOK, LoopHead, Expire, End, TimedOut

\* Before the transaction is built.
LEMMA GatherInv ==
  ASSUME IInv, NEW f \in Flows, Start(f) \/ (\E r \in Reads(f) : ReadResolves(f, r)) \/ ReadRejects(f)
  PROVE  IInv'
  <1>1. TypeOK'
    BY DEF IInv, TypeOK, Start, ReadResolves, ReadRejects, End, client, node, Outcomes, Reads
  <1>2. \A g \in Flows \ {f} : Same(g)
    BY DEF IInv, TypeOK, Start, ReadResolves, ReadRejects, End, client, node, Same
  <1>3. now' = now /\ chainSeq' = chainSeq /\ status' = status /\ tx' = tx
    BY DEF Start, ReadResolves, ReadRejects, node
  <1>4. FlowOK(f)'
    BY <1>3 DEF IInv, TypeOK, Start, ReadResolves, ReadRejects, End, client, node, FlowOK, AnswerOK, StageOK,
                ElapsedOK, TimedOut, Committed, Outcomes
  <1>5. SequenceOK'
    BY <1>3 DEF IInv, SequenceOK
  <1> QED
    BY <1>1, <1>2, <1>3, <1>4, <1>5, Combine DEF IInv, TypeOK

\* The transaction is built: it expires ExpSecs from now, or when the caller said.
LEMMA BuildInv ==
  ASSUME IInv, NEW f \in Flows, BuildAndSubmit(f)
  PROVE  IInv'
  <1> DEFINE t == [seq |-> seqRead[f], exp |-> IF f \in CustomExpiry THEN ExpireAt ELSE now + ExpSecs]
  <1>1. /\ t \in [seq : Nat, exp : Nat] /\ tx' = [tx EXCEPT ![f] = t]
        /\ pc' = [pc EXCEPT ![f] = "submit"] /\ pc[f] = "gather"
        /\ UNCHANGED <<now, got, seqRead, answer, count, last, wake, outcome, chainSeq, status>>
    BY ExpiryAssumption DEF IInv, TypeOK, BuildAndSubmit, node
  <1>2. t # None /\ (f \notin CustomExpiry => t.exp = now + ExpSecs)
    BY <1>1, NoneAssumption
  <1> HIDE DEF t
  <1>3. TypeOK'
    BY <1>1 DEF IInv, TypeOK
  <1>4. \A g \in Flows \ {f} : Same(g)
    BY <1>1 DEF IInv, TypeOK, Same
  <1>5. status[f] = "unsent"
    BY <1>1 DEF IInv, StageOK
  <1>6. SequenceOK'
    BY <1>1, <1>5 DEF IInv, TypeOK, SequenceOK, Committed
  <1>7. /\ pc'[f] = "submit" /\ tx'[f] = t /\ count'[f] = 0 /\ answer'[f] = "none"
        /\ outcome'[f] = "none" /\ status'[f] = "unsent" /\ now' = now
    BY <1>1, <1>5 DEF IInv, TypeOK, AnswerOK, StageOK, ElapsedOK
  <1>8. FlowOK(f)'
    BY <1>2, <1>7, ExpiryAssumption DEF IInv, TypeOK, FlowOK, AnswerOK, StageOK, ElapsedOK,
                                         Committed, TimedOut
  <1> QED
    BY <1>1, <1>3, <1>4, <1>6, <1>8, Combine DEF IInv, TypeOK

\* The wait reaches the head of its loop with n sleeps behind it.  Either it polls, or
\* its polls are used up, and then a default transaction is past its expiration.
LEMMA LoopHeadOK ==
  ASSUME TypeOK, NEW f \in Flows, FlowOK(f), NEW n \in Nat, LoopHead(f, n),
         pc[f] \in {"submit", "sleep"}, tx[f] # None,
         count' = [count EXCEPT ![f] = n], answer'[f] = "none",
         UNCHANGED <<now, tx, wake, last, chainSeq, status>>,
         f \notin CustomExpiry => now + ExpSecs >= tx[f].exp + n
  PROVE  FlowOK(f)'
  <1>t. /\ now \in Nat /\ tx[f].exp \in Nat /\ count'[f] = n /\ outcome[f] = "none"
    BY DEF TypeOK, FlowOK, StageOK
  <1>1. CASE n >= TimeoutSecs
    <2>1. pc'[f] = "done" /\ outcome'[f] \in TimedOut
      BY <1>1, LoopHeadType DEF TypeOK
    <2>2. f \notin CustomExpiry => now >= tx[f].exp
      BY <1>1, <1>t, TimeoutAssumption, ExpiryAssumption
    <2> QED
      BY <2>1, <2>2 DEF FlowOK, AnswerOK, StageOK, ElapsedOK, TimedOut
  <1>2. CASE n < TimeoutSecs
    <2>1. pc'[f] = "poll" /\ outcome'[f] = "none"
      BY <1>2, <1>t, LoopHeadType, TimeoutAssumption DEF TypeOK
    <2> QED
      BY <2>1, <1>t DEF FlowOK, AnswerOK, StageOK, ElapsedOK, TimedOut, Committed
  <1> QED
    BY <1>1, <1>2, TimeoutAssumption

\* The frame of a loop head: only the call's own pc and outcome can change.
LEMMA LoopHeadFrame ==
  ASSUME TypeOK, NEW f \in Flows, NEW n \in Nat, LoopHead(f, n)
  PROVE  /\ pc' \in [Flows -> {"start", "gather", "submit", "poll", "sleep", "done"}]
         /\ outcome' \in [Flows -> Outcomes]
         /\ \A g \in Flows \ {f} : pc'[g] = pc[g] /\ outcome'[g] = outcome[g]
  BY LoopHeadType, TimeoutAssumption DEF TypeOK, Outcomes, TimedOut

\* The answer to the post arrives.
LEMMA SubmitReturnsInv ==
  ASSUME IInv, NEW f \in Flows, SubmitReturns(f)
  PROVE  IInv'
  <1>t. TypeOK /\ FlowOK(f)
    BY ByFlow
  <1>0. /\ pc[f] = "submit" /\ answer' = [answer EXCEPT ![f] = "none"]
        /\ UNCHANGED <<now, got, seqRead, tx, count, last, wake, chainSeq, status>>
    BY DEF SubmitReturns, node
  <1>1. \/ LoopHead(f, 0)
        \/ End(f, "apiError") \/ End(f, "error")
    BY DEF SubmitReturns
  <1>2. /\ pc' \in [Flows -> {"start", "gather", "submit", "poll", "sleep", "done"}]
        /\ outcome' \in [Flows -> Outcomes]
        /\ \A g \in Flows \ {f} : pc'[g] = pc[g] /\ outcome'[g] = outcome[g]
    <2>1. CASE LoopHead(f, 0)
      BY <2>1, <1>t, LoopHeadFrame
    <2>2. CASE End(f, "apiError") \/ End(f, "error")
      BY <2>2, <1>t DEF End, TypeOK, Outcomes
    <2> QED
      BY <1>1, <2>1, <2>2
  <1>3. TypeOK'
    BY <1>0, <1>2, <1>t DEF TypeOK, Answers
  <1>4. \A g \in Flows \ {f} : Same(g)
    BY <1>0, <1>2, <1>t DEF TypeOK, Same
  <1>5. SequenceOK'
    BY <1>0 DEF IInv, SequenceOK
  <1>6. FlowOK(f)'
    <2>1. CASE LoopHead(f, 0)
      <3>1. count[f] = 0 /\ tx[f] # None
        BY <1>0, <1>t DEF FlowOK, ElapsedOK, StageOK
      <3>2. count' = [count EXCEPT ![f] = 0] /\ answer'[f] = "none"
        BY <3>1, <1>0, <1>t DEF TypeOK
      <3>3. f \notin CustomExpiry => now + ExpSecs >= tx[f].exp + 0
        BY <3>1, <1>0, <1>t DEF FlowOK, ElapsedOK
      <3> QED
        <4>1. /\ 0 \in Nat /\ pc[f] \in {"submit", "sleep"} /\ LoopHead(f, 0)
              /\ UNCHANGED <<now, tx, wake, last, chainSeq, status>>
          BY <1>0, <2>1
        <4> QED
          BY ONLY <1>t, <3>1, <3>2, <3>3, <4>1, LoopHeadOK
    <2>2. CASE End(f, "apiError") \/ End(f, "error")
      BY <2>2, <1>0, <1>t DEF End, TypeOK, FlowOK, AnswerOK, StageOK, ElapsedOK, TimedOut, Committed
    <2> QED
      BY <1>1, <2>1, <2>2
  <1> QED
    BY <1>0, <1>3, <1>4, <1>5, <1>6, <1>t, Combine DEF TypeOK

\* A second of sleep is over.
LEMMA WakeInv ==
  ASSUME IInv, NEW f \in Flows, Wake(f)
  PROVE  IInv'
  <1> DEFINE n == count[f] + 1
  <1>t. TypeOK /\ FlowOK(f) /\ n \in Nat
    BY ByFlow DEF TypeOK
  <1>0. /\ pc[f] = "sleep" /\ now >= wake[f] /\ count' = [count EXCEPT ![f] = n] /\ LoopHead(f, n)
        /\ UNCHANGED <<now, got, seqRead, tx, answer, last, wake, chainSeq, status>>
    BY <1>t DEF Wake, node, TypeOK
  <1>1. f \notin CustomExpiry => now + ExpSecs >= tx[f].exp + n
    <2>1. now \in Nat /\ wake[f] \in Nat /\ count[f] \in Nat /\ tx[f] # None /\ tx[f].exp \in Nat
      BY <1>0, <1>t DEF FlowOK, StageOK, TypeOK
    <2>2. f \notin CustomExpiry => wake[f] + ExpSecs >= tx[f].exp + count[f] + 1
      BY <1>0, <1>t DEF FlowOK, ElapsedOK
    <2> QED
      BY <1>0, <2>1, <2>2, ExpiryAssumption
  <1>2. tx[f] # None /\ answer'[f] = "none"
    BY <1>0, <1>t DEF FlowOK, StageOK, AnswerOK
  <1> HIDE DEF n
  <1>3. /\ pc' \in [Flows -> {"start", "gather", "submit", "poll", "sleep", "done"}]
        /\ outcome' \in [Flows -> Outcomes]
        /\ \A g \in Flows \ {f} : pc'[g] = pc[g] /\ outcome'[g] = outcome[g]
    BY ONLY <1>0, <1>t, LoopHeadFrame
  <1>4. TypeOK'
    BY <1>0, <1>3, <1>t DEF TypeOK
  <1>5. \A g \in Flows \ {f} : Same(g)
    BY <1>0, <1>3, <1>t DEF TypeOK, Same
  <1>6. SequenceOK'
    BY <1>0 DEF IInv, SequenceOK
  <1>7. FlowOK(f)'
    <2>1. pc[f] \in {"submit", "sleep"} /\ UNCHANGED <<now, tx, wake, last, chainSeq, status>>
      BY <1>0
    <2> QED
      BY ONLY <1>0, <1>1, <1>2, <1>t, <2>1, LoopHeadOK
  <1> QED
    BY <1>0, <1>4, <1>5, <1>6, <1>7, <1>t, Combine DEF TypeOK

\* The answer to a poll arrives.
LEMMA PollReturnsInv ==
  ASSUME IInv, NEW f \in Flows, PollReturns(f)
  PROVE  IInv'
  <1> DEFINE a == answer[f]
  <1>t. TypeOK /\ FlowOK(f)
    BY ByFlow
  <1>0. /\ pc[f] = "poll" /\ answer' = [answer EXCEPT ![f] = "none"]
        /\ UNCHANGED <<now, got, seqRead, tx, count, chainSeq, status>>
    BY DEF PollReturns, node
  <1>1. CASE /\ a \in Committed /\ End(f, PollOutcome(f, a))
             /\ last' = [last EXCEPT ![f] = a] /\ wake' = wake
    <2>1. TypeOK'
      BY <1>0, <1>1, <1>t DEF TypeOK, End, PollOutcome, Outcomes, Answers, Committed
    <2>2. \A g \in Flows \ {f} : Same(g)
      BY <1>0, <1>1, <1>t DEF TypeOK, End, Same
    <2>3. status[f] = a /\ tx[f] # None
      BY <1>0, <1>1, <1>t DEF FlowOK, AnswerOK, StageOK
    <2>4. FlowOK(f)'
      BY <1>0, <1>1, <1>t, <2>3 DEF TypeOK, End, PollOutcome, FlowOK, AnswerOK, StageOK, ElapsedOK,
                                    TimedOut, Committed
    <2>5. SequenceOK'
      BY <1>0 DEF IInv, SequenceOK
    <2> QED
      BY <1>0, <1>t, <2>1, <2>2, <2>4, <2>5, Combine DEF TypeOK
  <1>2. CASE End(f, IF a = "clientError" THEN "apiError" ELSE "error") /\ UNCHANGED <<last, wake>>
    <2>1. TypeOK'
      BY <1>0, <1>2, <1>t DEF TypeOK, End, Outcomes, Answers
    <2>2. \A g \in Flows \ {f} : Same(g)
      BY <1>0, <1>2, <1>t DEF TypeOK, End, Same
    <2>3. outcome'[f] \in {"apiError", "error"} /\ pc'[f] = "done"
      BY <1>0, <1>2, <1>t DEF TypeOK, End
    <2>4. FlowOK(f)'
      BY <1>0, <1>t, <2>3 DEF TypeOK, FlowOK, AnswerOK, StageOK, ElapsedOK, TimedOut, Committed
    <2>5. SequenceOK'
      BY <1>0 DEF IInv, SequenceOK
    <2> QED
      BY <1>0, <1>t, <2>1, <2>2, <2>4, <2>5, Combine DEF TypeOK
  <1>3. CASE /\ last' = [last EXCEPT ![f] = IF a = "pending" THEN a ELSE @]
             /\ pc' = [pc EXCEPT ![f] = "sleep"] /\ wake' = [wake EXCEPT ![f] = now + 1]
             /\ outcome' = outcome
    <2>1. TypeOK'
      BY <1>0, <1>3, <1>t DEF TypeOK, Answers
    <2>2. \A g \in Flows \ {f} : Same(g)
      BY <1>0, <1>3, <1>t DEF TypeOK, Same
    <2>3. /\ pc'[f] = "sleep" /\ wake'[f] = now + 1 /\ answer'[f] = "none"
          /\ outcome'[f] = "none" /\ tx[f] # None /\ tx[f].exp \in Nat /\ now \in Nat /\ count[f] \in Nat
      BY <1>0, <1>3, <1>t DEF TypeOK, FlowOK, StageOK
    <2>4. f \notin CustomExpiry => now + ExpSecs >= tx[f].exp + count[f]
      BY <1>0, <1>t DEF FlowOK, ElapsedOK
    <2>5. ElapsedOK(f)'
      BY <1>0, <2>3, <2>4, ExpiryAssumption DEF ElapsedOK
    <2>6. FlowOK(f)'
      BY <1>0, <1>t, <2>3, <2>5 DEF FlowOK, AnswerOK, StageOK, TimedOut, Committed
    <2>7. SequenceOK'
      BY <1>0 DEF IInv, SequenceOK
    <2> QED
      BY <1>0, <1>t, <2>1, <2>2, <2>6, <2>7, Combine DEF TypeOK
  <1> QED
    BY <1>1, <1>2, <1>3 DEF PollReturns

\* The node and the network answer, rightly or not.
LEMMA AnswersInv ==
  ASSUME IInv, NEW f \in Flows, NodeAdmits(f) \/ NodeLooksUp(f) \/ ConnectionFails(f)
  PROVE  IInv'
  <1>t. TypeOK /\ FlowOK(f)
    BY ByFlow
  <1>0. /\ UNCHANGED <<now, pc, got, seqRead, tx, count, last, wake, outcome, chainSeq>>
        /\ \E b \in Answers \ {"none"} :
             /\ answer' = [answer EXCEPT ![f] = b]
             /\ b \in Committed => status[f] = b /\ pc[f] = "poll"
        /\ pc[f] \in {"submit", "poll"}
    <2>1. CASE NodeAdmits(f)
      BY <2>1 DEF NodeAdmits, Answer, client, Answers, PollAnswers, Committed
    <2>2. CASE NodeLooksUp(f)
      BY <2>2 DEF NodeLooksUp, Answer, client, node, Answers, PollAnswers, Committed
    <2>3. CASE ConnectionFails(f)
      <3>1. "netError" \in Answers \ {"none"} /\ "netError" \notin Committed
        BY DEF Answers, PollAnswers, Committed
      <3> QED
        BY <2>3, <3>1 DEF ConnectionFails, Answer, client, node
    <2> QED
      BY <2>1, <2>2, <2>3
  <1>1. \/ status' = status
        \/ pc[f] = "submit" /\ answer[f] = "none" /\ status' = [status EXCEPT ![f] = "mempool"]
    BY DEF NodeAdmits, NodeLooksUp, ConnectionFails, node
  <1>2. TypeOK'
    BY <1>0, <1>1, <1>t DEF TypeOK
  <1>3. \A g \in Flows \ {f} : Same(g)
    BY <1>0, <1>1, <1>t DEF TypeOK, Same
  <1>4. SequenceOK'
    BY <1>0, <1>1, <1>t DEF IInv, TypeOK, SequenceOK, Committed
  <1>5. FlowOK(f)'
    <2>1. CASE status' = status
      BY <1>0, <1>t, <2>1 DEF TypeOK, FlowOK, AnswerOK, StageOK, ElapsedOK, Committed
    <2>2. CASE /\ pc[f] = "submit" /\ answer[f] = "none"
               /\ status' = [status EXCEPT ![f] = "mempool"]
      <3>1. outcome[f] = "none" /\ tx[f] # None /\ status'[f] = "mempool"
        BY <1>t, <2>2 DEF TypeOK, FlowOK, StageOK
      <3> QED
        BY <1>0, <1>t, <2>2, <3>1 DEF TypeOK, FlowOK, AnswerOK, StageOK, ElapsedOK, Committed, TimedOut
    <2> QED
      BY <1>1, <2>1, <2>2
  <1> QED
    BY <1>0, <1>2, <1>3, <1>4, <1>5, <1>t, Combine DEF TypeOK

\* The chain commits a transaction, or the mempool discards it.
LEMMA ChainInv ==
  ASSUME IInv, NEW f \in Flows, Commit(f) \/ Drop(f)
  PROVE  IInv'
  <1>t. TypeOK /\ \A g \in Flows : FlowOK(g)
    BY ByFlow
  <1>0. /\ UNCHANGED <<now, pc, got, seqRead, tx, answer, count, last, wake, outcome>>
        /\ status[f] = "mempool" /\ tx[f] # None /\ tx[f].seq \in Nat
    BY <1>t DEF Commit, Drop, client, FlowOK, StageOK, TypeOK
  <1>s. PICK r \in {"dropped"} \cup Committed : status' = [status EXCEPT ![f] = r]
    BY DEF Commit, Drop
  <1>1. \/ chainSeq' = chainSeq /\ status'[f] = "dropped"
        \/ chainSeq' = chainSeq + 1 /\ tx[f].seq = chainSeq
    BY <1>t DEF Commit, Drop, TypeOK
  <1>2. TypeOK'
    BY <1>0, <1>1, <1>s, <1>t DEF TypeOK
  <1>3. \A g \in Flows \ {f} : Same(g)
    BY <1>0, <1>s, <1>t DEF TypeOK, Same
  <1>4. SequenceOK'
    <2>1. \A g \in Flows \ {f} : status'[g] = status[g]
      BY <1>s, <1>t DEF TypeOK
    <2>2. \A g \in Flows : status[g] \in Committed => tx[g].seq < chainSeq /\ tx[g].seq \in Nat
      BY <1>t DEF FlowOK, StageOK, TypeOK, Committed
    <2>3. CASE chainSeq' = chainSeq /\ status'[f] = "dropped"
      BY <1>0, <2>1, <2>3 DEF IInv, SequenceOK, Committed
    <2>4. CASE tx[f].seq = chainSeq
      BY <1>0, <1>t, <2>1, <2>2, <2>4 DEF IInv, SequenceOK, TypeOK
    <2> QED
      BY <1>1, <2>3, <2>4
  <1>5. FlowOK(f)'
    BY <1>0, <1>1, <1>s, <1>t DEF TypeOK, FlowOK, AnswerOK, StageOK, ElapsedOK, Committed, TimedOut
  <1> QED
    BY <1>0, <1>1, <1>2, <1>3, <1>4, <1>5, <1>t, Combine DEF TypeOK

\* Time passes.
LEMMA TickInv == ASSUME IInv, Tick PROVE IInv'
  <1>t. TypeOK /\ \A g \in Flows : FlowOK(g)
    BY ByFlow
  <1>0. /\ now' = now + 1 /\ now \in Nat /\ chainSeq \in Nat
        /\ UNCHANGED <<pc, got, seqRead, tx, answer, count, last, wake, outcome, chainSeq, status>>
    BY <1>t DEF Tick, client, node, TypeOK
  <1>1. TypeOK'
    BY <1>0, <1>t DEF TypeOK
  <1>2. \A g \in Flows : Same(g)
    BY <1>0 DEF Same
  <1>3. SequenceOK'
    BY <1>0 DEF IInv, SequenceOK
  <1>4. \A g \in Flows : FlowOK(g)'
    BY <1>0, <1>2, <1>t, Frame
  <1> QED
    BY <1>1, <1>3, <1>4 DEF IInv, FlowOK, OutcomeSound, TimeoutIsFinal

\* Every step preserves the invariant.
LEMMA NextInv == IInv /\ [Next]_vars => IInv'
  <1> SUFFICES ASSUME IInv, [Next]_vars PROVE IInv'
    OBVIOUS
  <1>1. ASSUME NEW f \in Flows, Client(f) PROVE IInv'
    BY <1>1, GatherInv, BuildInv, SubmitReturnsInv, PollReturnsInv, WakeInv DEF Client
  <1>2. ASSUME NEW f \in Flows, Node(f) PROVE IInv'
    BY <1>2, AnswersInv, ChainInv DEF Node
  <1>3. CASE Tick
    BY <1>3, TickInv
  <1>4. CASE UNCHANGED vars
    BY <1>4 DEF vars, client, node, IInv, TypeOK, SequenceOK, OutcomeSound, TimeoutIsFinal, AnswerOK,
                StageOK, ElapsedOK
  <1> QED
    BY <1>1, <1>2, <1>3, <1>4 DEF Next

\* The inductive invariant holds of every reachable state.
THEOREM Invariance == Spec => []IInv
  BY InitInv, NextInv, PTL DEF Spec

\* A call reports only what the chain did.
THEOREM Soundness == Spec => []OutcomeSound
  <1>1. IInv => OutcomeSound
    BY DEF IInv
  <1> QED
    BY <1>1, Invariance, PTL

\* When a call with the default expiration times out, its transaction has expired.
THEOREM FinalTimeout == Spec => []TimeoutIsFinal
  <1>1. IInv => TimeoutIsFinal
    BY DEF IInv
  <1> QED
    BY <1>1, Invariance, PTL

\* Of the calls that read one sequence number, one at most reports a commit.
THEOREM OneReport == Spec => []OneReportPerSequence
  <1>1. IInv => OneReportPerSequence
    BY DEF IInv, OutcomeSound, SequenceOK, OneReportPerSequence
  <1> QED
    BY <1>1, Invariance, PTL
-----------------------------------------------------------------------------
(* The calls implement TxnOutcome. *)

LEMMA InitPromised == Init => Promised!Init
  BY DEF Init, Promised!Init, Committed

\* A call that ends reports what TxnOutcome lets it report.
LEMMA ReportStep ==
  ASSUME IInv, NEW f \in Flows, NEW o, End(f, o), status' = status, outcome[f] = "none",
         \/ o \in {"apiError", "error"} \cup TimedOut
         \/ status[f] \in Committed /\ o = PollOutcome(f, status[f])
  PROVE  Promised!Next
  <1> DEFINE Fate == [g \in Flows |-> IF status[g] \in Committed THEN status[g] ELSE "none"]
  <1>1. outcome' = [outcome EXCEPT ![f] = o] /\ UNCHANGED Fate
    BY DEF End
  <1>2. o \in Promised!Reports(f, Fate[f]) \cup Promised!Errors \cup Promised!TimedOut
    <2>1. CASE o \in {"apiError", "error"} \cup TimedOut
      BY <2>1 DEF Promised!Errors, Promised!TimedOut, TimedOut
    <2>2. CASE status[f] = "ok" /\ o = PollOutcome(f, "ok")
      BY <2>2 DEF Promised!Reports, PollOutcome, Committed
    <2>3. CASE status[f] = "fail" /\ o = PollOutcome(f, "fail")
      BY <2>3 DEF Promised!Reports, PollOutcome, Committed
    <2> QED
      BY <2>1, <2>2, <2>3 DEF Committed
  <1>3. Promised!Report(f)
    BY <1>1, <1>2 DEF Promised!Report
  <1> QED
    BY <1>3 DEF Promised!Next

\* A loop head either goes on, or reports a timeout.
LEMMA LoopHeadStep ==
  ASSUME IInv, NEW f \in Flows, NEW n \in Nat, LoopHead(f, n), status' = status, outcome[f] = "none"
  PROVE  [Promised!Next]_(Promised!vars)
  <1>1. CASE n >= TimeoutSecs
    <2>1. \E o \in TimedOut : End(f, o)
      BY <1>1 DEF LoopHead, Expire, TimedOut
    <2> QED
      BY <2>1, ReportStep
  <1>2. CASE ~(n >= TimeoutSecs)
    BY <1>2 DEF LoopHead, Promised!vars
  <1> QED
    BY <1>1, <1>2

\* Every step of a call, of the node or of the clock is one of TxnOutcome or leaves
\* fates and outcomes unchanged.
LEMMA StepPromised == IInv /\ [Next]_vars => [Promised!Next]_(Promised!vars)
  <1> SUFFICES ASSUME IInv, [Next]_vars PROVE [Promised!Next]_(Promised!vars)
    OBVIOUS
  <1>t. TypeOK /\ \A f \in Flows : FlowOK(f)
    BY ByFlow
  <1>n. \A f \in Flows : pc[f] # "done" => outcome[f] = "none"
    BY <1>t DEF FlowOK, StageOK
  <1>0. UNCHANGED <<outcome, status>> => UNCHANGED Promised!vars
    BY DEF Promised!vars
  <1>1. ASSUME NEW f \in Flows,
               Start(f) \/ (\E r \in Reads(f) : ReadResolves(f, r)) \/ BuildAndSubmit(f)
        PROVE  UNCHANGED Promised!vars
    BY <1>0, <1>1 DEF Start, ReadResolves, BuildAndSubmit, node
  <1>2. ASSUME NEW f \in Flows, ReadRejects(f) PROVE Promised!Next
    BY <1>2, <1>n, ReportStep DEF ReadRejects, node
  <1>3. ASSUME NEW f \in Flows, SubmitReturns(f) PROVE [Promised!Next]_(Promised!vars)
    <2>1. pc[f] = "submit" /\ status' = status
          /\ (LoopHead(f, 0) \/ End(f, "apiError") \/ End(f, "error"))
      BY <1>3 DEF SubmitReturns, node
    <2>2. CASE LoopHead(f, 0)
      BY <1>n, <2>1, <2>2, LoopHeadStep
    <2>3. CASE End(f, "apiError") \/ End(f, "error")
      BY <1>n, <2>1, <2>3, ReportStep
    <2> QED
      BY <2>1, <2>2, <2>3
  <1>4. ASSUME NEW f \in Flows, PollReturns(f) PROVE [Promised!Next]_(Promised!vars)
    <2>1. pc[f] = "poll" /\ status' = status /\ outcome[f] = "none"
          /\ (answer[f] \in Committed => status[f] = answer[f])
      BY <1>4, <1>n, <1>t DEF PollReturns, node, FlowOK, AnswerOK
    <2>2. CASE answer[f] \in Committed /\ End(f, PollOutcome(f, answer[f]))
      BY <2>1, <2>2, ReportStep
    <2>3. CASE End(f, IF answer[f] = "clientError" THEN "apiError" ELSE "error")
      BY <2>1, <2>3, ReportStep
    <2>4. CASE outcome' = outcome
      BY <2>1, <2>4, <1>0
    <2> QED
      BY <1>4, <2>2, <2>3, <2>4 DEF PollReturns
  <1>5. ASSUME NEW f \in Flows, Wake(f) PROVE [Promised!Next]_(Promised!vars)
    <2>1. /\ pc[f] = "sleep" /\ status' = status /\ count[f] + 1 \in Nat
          /\ LoopHead(f, count[f] + 1)
      BY <1>5, <1>t DEF Wake, node, TypeOK
    <2> QED
      BY <2>1, <1>n, LoopHeadStep
  <1>6. ASSUME NEW f \in Flows, NodeAdmits(f) PROVE UNCHANGED Promised!vars
    <2>1. /\ outcome' = outcome /\ status[f] \notin Committed
          /\ status' = status \/ status' = [status EXCEPT ![f] = "mempool"]
      BY <1>6, <1>t DEF NodeAdmits, client, FlowOK, StageOK, Committed
    <2> QED
      BY <2>1, <1>t DEF Promised!vars, TypeOK, Committed
  <1>7. ASSUME NEW f \in Flows, NodeLooksUp(f) \/ ConnectionFails(f) PROVE UNCHANGED Promised!vars
    BY <1>0, <1>7 DEF NodeLooksUp, ConnectionFails, client, node
  <1>8. ASSUME NEW f \in Flows, Drop(f) PROVE UNCHANGED Promised!vars
    BY <1>8, <1>t DEF Drop, client, Promised!vars, TypeOK, Committed
  <1>9. ASSUME NEW f \in Flows, Commit(f) PROVE Promised!Next
    <2> DEFINE Fate == [g \in Flows |-> IF status[g] \in Committed THEN status[g] ELSE "none"]
    <2>1. PICK r \in Committed : status' = [status EXCEPT ![f] = r]
      BY <1>9 DEF Commit
    <2>2. Fate' = [Fate EXCEPT ![f] = r] /\ Fate[f] = "none"
      BY <1>9, <1>t, <2>1 DEF Commit, TypeOK, Committed
    <2>3. outcome[f] \in TimedOut => f \in CustomExpiry
      <3> SUFFICES ASSUME outcome[f] \in TimedOut, f \notin CustomExpiry PROVE FALSE
        OBVIOUS
      <3>1. now >= tx[f].exp /\ now < tx[f].exp
        BY <1>9, <1>t DEF Commit, FlowOK
      <3>2. now \in Nat /\ tx[f] \in [seq : Nat, exp : Nat]
        BY <1>t DEF TypeOK, FlowOK, StageOK
      <3> QED
        BY <3>1, <3>2
    <2>4. Promised!Decide(f)
      BY <1>9, <2>1, <2>2, <2>3 DEF Promised!Decide, Promised!TimedOut, TimedOut, Commit, client, Committed
    <2> QED
      BY <2>4 DEF Promised!Next
  <1>10. CASE Tick \/ UNCHANGED vars
    BY <1>0, <1>10 DEF Tick, vars, client, node
  <1> QED
    BY <1>1, <1>2, <1>3, <1>4, <1>5, <1>6, <1>7, <1>8, <1>9, <1>10 DEF Next, Client, Node

\* Generating, submitting and waiting for a transaction is, for its caller, the
\* TxnOutcome protocol: one fate, reported truly, final once timed out.
THEOREM Refinement == Spec => ImplementsTxnOutcome
  BY InitPromised, StepPromised, Invariance, PTL DEF Spec, ImplementsTxnOutcome, Promised!Spec
=============================================================================
