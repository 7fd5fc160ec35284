------------------------------- MODULE TxnFlow -------------------------------
(***************************************************************************)
(* providers/moveup_client.ts: generateSignSubmitWaitForTransaction, that  *)
(* is generateRawTransaction, submitSignedBCSTransaction and               *)
(* waitForTransactionWithResult, called several times concurrently for one *)
(* account, against a node that may refuse, lose or delay what it is sent. *)
(* Time is in seconds: sleep(1000) is one unit.                            *)
(*                                                                         *)
(* A request in flight is pc[f] in "submit" or "poll"; answer[f] is the    *)
(* response on its way back, computed when the node handles the request    *)
(* and acted upon when it arrives, possibly much later.                    *)
(***************************************************************************)
EXTENDS Integers

CONSTANTS Flows,         \* the concurrent calls, each with a payload of its own
          CheckSuccess,  \* calls with extraArgs.checkSuccess
          GivenGas,      \* calls with extraArgs.gasUnitPrice: no gas estimate is read
          CustomExpiry,  \* calls with extraArgs.expireTimestamp, which is ...
          ExpireAt,      \* ... this
          ExpSecs,       \* DEFAULT_TXN_EXP_SEC_FROM_NOW
          TimeoutSecs,   \* extraArgs.timeoutSecs, by default DEFAULT_TXN_TIMEOUT_SEC
          MaxTime,       \* bound of the time that passes while no call sleeps
          None

ASSUME FlowAssumption == CustomExpiry \subseteq Flows
ASSUME ExpiryAssumption == ExpSecs \in Nat /\ ExpireAt \in Nat /\ MaxTime \in Nat
ASSUME TimeoutAssumption == TimeoutSecs \in Nat /\ TimeoutSecs >= ExpSecs
ASSUME NoneAssumption == None \notin [seq : Nat, exp : Nat]

VARIABLES now,       \* seconds, the same for the client and the chain
          pc,        \* where each call stands
          got,       \* the reads of Promise.all that have resolved
          seqRead,   \* the sequence number getAccount gave
          tx,        \* the signed transaction
          answer,    \* the response to the request in flight
          count, last, wake,  \* the wait loop: count, lastTxn, when sleep() ends
          outcome,   \* how the call ended
          chainSeq,  \* the account's sequence number on chain
          status     \* what the node did with each transaction

client == <<pc, got, seqRead, tx, count, last, wake, outcome>>
node == <<chainSeq, status>>
vars == <<now, client, answer, node>>

Reads(f) == {"account", "chainId"} \cup IF f \in GivenGas THEN {} ELSE {"gas"}
Committed == {"ok", "fail"}
PollAnswers == {"pending", "notFound", "serverError"} \cup Committed
Answers == {"none", "accepted", "clientError", "netError"} \cup PollAnswers
TimedOut == {"timeout", "unknown"}
Outcomes == {"none", "resolved", "failed", "apiError", "error"} \cup TimedOut

TypeOK ==
    /\ now \in Nat /\ chainSeq \in Nat
    /\ pc \in [Flows -> {"start", "gather", "submit", "poll", "sleep", "done"}]
    /\ got \in [Flows -> SUBSET {"account", "chainId", "gas"}]
    /\ seqRead \in [Flows -> Nat]
    /\ tx \in [Flows -> [seq : Nat, exp : Nat] \cup {None}]
    /\ answer \in [Flows -> Answers]
    /\ count \in [Flows -> Nat] /\ wake \in [Flows -> Nat]
    /\ last \in [Flows -> {"none", "pending"} \cup Committed]
    /\ outcome \in [Flows -> Outcomes]
    /\ status \in [Flows -> {"unsent", "mempool", "dropped"} \cup Committed]

Init ==
    /\ now = 0 /\ chainSeq = 0
    /\ pc = [f \in Flows |-> "start"]
    /\ got = [f \in Flows |-> {}]
    /\ seqRead = [f \in Flows |-> 0]
    /\ tx = [f \in Flows |-> None]
    /\ answer = [f \in Flows |-> "none"]
    /\ count = [f \in Flows |-> 0] /\ wake = [f \in Flows |-> 0]
    /\ last = [f \in Flows |-> "none"]
    /\ outcome = [f \in Flows |-> "none"]
    /\ status = [f \in Flows |-> "unsent"]
-----------------------------------------------------------------------------
(* The client. *)

End(f, o) == /\ pc' = [pc EXCEPT ![f] = "done"]
             /\ outcome' = [outcome EXCEPT ![f] = o]

\* generateRawTransaction starts its reads together.
Start(f) == /\ pc[f] = "start"
            /\ pc' = [pc EXCEPT ![f] = "gather"]
            /\ UNCHANGED <<now, got, seqRead, tx, answer, count, last, wake, outcome, node>>

\* One of them resolves, in any order; the account's with the sequence number of that moment.
ReadResolves(f, r) ==
    /\ pc[f] = "gather" /\ r \in Reads(f) \ got[f]
    /\ got' = [got EXCEPT ![f] = @ \cup {r}]
    /\ seqRead' = [seqRead EXCEPT ![f] = IF r = "account" THEN chainSeq ELSE @]
    /\ UNCHANGED <<now, pc, tx, answer, count, last, wake, outcome, node>>

\* The first to reject rejects Promise.all.
ReadRejects(f) ==
    /\ pc[f] = "gather" /\ got[f] # Reads(f)
    /\ \E o \in {"apiError", "error"} : End(f, o)
    /\ UNCHANGED <<now, got, seqRead, tx, answer, count, last, wake, node>>

\* All have resolved: the defaults, overridden by extraArgs; then sign and post.
BuildAndSubmit(f) ==
    /\ pc[f] = "gather" /\ got[f] = Reads(f)
    /\ tx' = [tx EXCEPT ![f] = [seq |-> seqRead[f],
                                exp |-> IF f \in CustomExpiry THEN ExpireAt ELSE now + ExpSecs]]
    /\ pc' = [pc EXCEPT ![f] = "submit"]
    /\ UNCHANGED <<now, got, seqRead, answer, count, last, wake, outcome, node>>

\* After the loop, with isPending still true.
ExpireUnchecked(f) ==                  \* mutation: isPending is not looked at after the loop
    End(f, IF last[f] = "none" THEN "unknown" ELSE "resolved")
Expire(f) == End(f, IF last[f] = "none" THEN "unknown" ELSE "timeout")

\* The head of the loop, reached with n sleeps behind it.
LoopHeadEarly(f, n) == IF n + 1 >= TimeoutSecs THEN Expire(f)   \* mutation: one second short
                       ELSE pc' = [pc EXCEPT ![f] = "poll"] /\ UNCHANGED outcome
LoopHead(f, n) == IF n >= TimeoutSecs THEN Expire(f)
                                      ELSE pc' = [pc EXCEPT ![f] = "poll"] /\ UNCHANGED outcome

\* Mutation: a 5xx answer to the post is retried without end.
SubmitRetries(f) ==
    /\ pc[f] = "submit" /\ answer[f] # "none"
    /\ CASE answer[f] = "accepted" -> LoopHead(f, 0)
         [] answer[f] = "serverError" -> UNCHANGED <<pc, outcome>>
         [] OTHER -> End(f, "error")
    /\ answer' = [answer EXCEPT ![f] = "none"]
    /\ UNCHANGED <<now, got, seqRead, tx, count, last, wake, node>>

\* The response to the post arrives.
SubmitReturns(f) ==
    /\ pc[f] = "submit" /\ answer[f] # "none"
    /\ CASE answer[f] = "accepted" -> LoopHead(f, 0)
         [] answer[f] \in {"clientError", "serverError"} -> End(f, "apiError")
         [] OTHER -> End(f, "error")
    /\ answer' = [answer EXCEPT ![f] = "none"]
    /\ UNCHANGED <<now, got, seqRead, tx, count, last, wake, node>>

\* What a committed transaction means to the caller, by its success field.
PollOutcomeInverted(f, a) == IF f \in CheckSuccess /\ a = "ok" THEN "failed" ELSE "resolved"   \* mutation
PollOutcome(f, a) == IF f \in CheckSuccess /\ a = "fail" THEN "failed" ELSE "resolved"

\* The response to a poll arrives: done, thrown, or asleep for a second.
PollReturns(f) ==
    /\ pc[f] = "poll" /\ answer[f] # "none"
    /\ LET a == answer[f] IN
         \/ /\ a \in Committed
            /\ End(f, PollOutcome(f, a))
            /\ last' = [last EXCEPT ![f] = a]
            /\ UNCHANGED wake
         \/ /\ a \in {"clientError", "netError"}
            /\ End(f, IF a = "clientError" THEN "apiError" ELSE "error")
            /\ UNCHANGED <<last, wake>>
         \/ /\ a \in {"pending", "notFound", "serverError"}
            /\ last' = [last EXCEPT ![f] = IF a = "pending" THEN a ELSE @]
            /\ pc' = [pc EXCEPT ![f] = "sleep"]
            /\ wake' = [wake EXCEPT ![f] = now + 1]
            /\ UNCHANGED outcome
    /\ answer' = [answer EXCEPT ![f] = "none"]
    /\ UNCHANGED <<now, got, seqRead, tx, count, node>>

\* sleep(1000) is over: not earlier than a second after it was called.
Wake(f) == /\ pc[f] = "sleep" /\ now >= wake[f]
           /\ count' = [count EXCEPT ![f] = @ + 1]
           /\ LoopHead(f, count[f] + 1)
           /\ UNCHANGED <<now, got, seqRead, tx, answer, last, wake, node>>
-----------------------------------------------------------------------------
(* The node and the network. *)

Answer(f, a) == answer' = [answer EXCEPT ![f] = a]

\* A post reaches the node and is admitted to the mempool, or is refused.
NodeAdmits(f) ==
    /\ pc[f] = "submit" /\ answer[f] = "none"
    /\ \/ /\ tx[f].seq >= chainSeq /\ now < tx[f].exp
          /\ status' = [status EXCEPT ![f] = "mempool"]
          /\ Answer(f, "accepted")
       \/ \E a \in {"clientError", "serverError"} : Answer(f, a) /\ UNCHANGED status
    /\ UNCHANGED <<now, client, chainSeq>>

\* A poll reaches a replica, which may lag behind the chain.
NodeLooksUp(f) ==
    /\ pc[f] = "poll" /\ answer[f] = "none"
    /\ \E a \in {"notFound", "serverError", "clientError"}
                  \cup (IF status[f] \in Committed THEN {status[f], "pending"} ELSE {})
                  \cup (IF status[f] = "mempool" THEN {"pending"} ELSE {}) : Answer(f, a)
    /\ UNCHANGED <<now, client, node>>

\* The connection fails, before the request or after the response.
ConnectionFails(f) == /\ pc[f] \in {"submit", "poll"} /\ answer[f] # "netError"
                      /\ Answer(f, "netError")
                      /\ UNCHANGED <<now, client, node>>

\* A block takes the account's next transaction, unless it has expired.
Commit(f) == /\ status[f] = "mempool" /\ tx[f].seq = chainSeq /\ now < tx[f].exp
             /\ \E r \in Committed : status' = [status EXCEPT ![f] = r]
             /\ chainSeq' = chainSeq + 1
             /\ UNCHANGED <<now, client, answer>>

\* The mempool discards a transaction: expired, overtaken, or evicted.
Drop(f) == /\ status[f] = "mempool"
           /\ status' = [status EXCEPT ![f] = "dropped"]
           /\ UNCHANGED <<now, client, answer, chainSeq>>

\* Past MaxTime the clock moves only for the sake of a call that sleeps.
Tick == /\ now < MaxTime \/ \E f \in Flows : pc[f] = "sleep" /\ now < wake[f]
        /\ now' = now + 1
        /\ UNCHANGED <<client, answer, node>>

Client(f) == \/ Start(f) \/ (\E r \in Reads(f) : ReadResolves(f, r)) \/ ReadRejects(f)
             \/ BuildAndSubmit(f) \/ SubmitReturns(f) \/ PollReturns(f) \/ Wake(f)
Node(f) == NodeAdmits(f) \/ NodeLooksUp(f) \/ ConnectionFails(f) \/ Commit(f) \/ Drop(f)

Next == Tick \/ \E f \in Flows : Client(f) \/ Node(f)

Spec == Init /\ [][Next]_vars

\* Timers fire, promises that settled are acted upon, and the node answers.
FairSpec == Spec /\ WF_vars(Tick)
                 /\ \A f \in Flows : WF_vars(Client(f)) /\ WF_vars(NodeAdmits(f) \/ NodeLooksUp(f))
-----------------------------------------------------------------------------
(* Properties. *)

\* A call that resolves, or that throws FailedTransactionError, speaks of a
\* transaction the chain has committed, and FailedTransactionError only of one
\* whose execution failed (moveup_client.ts:559-581, cases 1 and 3).
OutcomeSound == \A f \in Flows :
    /\ outcome[f] \in {"resolved", "failed"} => status[f] \in Committed
    /\ outcome[f] = "failed" => status[f] = "fail"
    /\ outcome[f] = "resolved" /\ f \in CheckSuccess => status[f] = "ok"

\* Once a wait with the default expiration has timed out, its transaction has
\* expired: the chain will not commit it later, so a caller that finds it
\* uncommitted may send another.
TimeoutIsFinal == \A f \in Flows \ CustomExpiry :
    outcome[f] \in TimedOut => now >= tx[f].exp

\* Calls that read the same sequence number cannot both report a committed transaction.
OneReportPerSequence == \A f, g \in Flows :
    (/\ f # g /\ tx[f] # None /\ tx[g] # None /\ tx[f].seq = tx[g].seq
     /\ outcome[f] \in {"resolved", "failed"})
    => outcome[g] \notin {"resolved", "failed"}

Promised == INSTANCE TxnOutcome
    WITH fate <- [f \in Flows |-> IF status[f] \in Committed THEN status[f] ELSE "none"]
ImplementsTxnOutcome == Promised!Spec

\* Every call that starts ends, if the node answers every request.
CallsEnd == \A f \in Flows : pc[f] = "start" ~> pc[f] = "done"

\* "In case 4, this function throws a WaitForTransactionError" (moveup_client.ts:581),
\* case 4 being "Transaction is not processed within the specified timeout".
TimeoutThrowsWaitError == \A f \in Flows : outcome[f] # "unknown"
-----------------------------------------------------------------------------
(* The inductive strengthening of the safety properties. *)

\* A committed outcome rests on an answer that rested on the chain.
AnswerOK(f) ==
    /\ pc[f] \notin {"submit", "poll"} => answer[f] = "none"
    /\ pc[f] = "submit" => answer[f] \notin Committed
    /\ pc[f] = "poll" /\ answer[f] \in Committed => status[f] = answer[f]

\* What has been signed, sent and committed, according to where the call stands.
StageOK(f) ==
    /\ pc[f] = "done" <=> outcome[f] # "none"
    /\ pc[f] \in {"submit", "poll", "sleep"} => tx[f] # None
    /\ outcome[f] \in {"resolved", "failed"} \cup TimedOut => tx[f] # None
    /\ status[f] # "unsent" => tx[f] # None
    /\ pc[f] \in {"start", "gather"} \/ (pc[f] = "submit" /\ answer[f] = "none") => status[f] = "unsent"
    /\ status[f] \in Committed => tx[f].seq < chainSeq

\* A wait that has slept n times began n seconds ago or earlier, and the
\* transaction was built before it began.
ElapsedOK(f) ==
    /\ pc[f] \in {"start", "gather", "submit"} => count[f] = 0
    /\ f \notin CustomExpiry =>
         /\ pc[f] \in {"submit", "poll"} => now + ExpSecs >= tx[f].exp + count[f]
         /\ pc[f] = "sleep" => wake[f] + ExpSecs >= tx[f].exp + count[f] + 1

\* No sequence number is committed twice.
SequenceOK == \A f, g \in Flows :
    f # g /\ status[f] \in Committed /\ status[g] \in Committed => tx[f].seq # tx[g].seq

IInv == /\ TypeOK /\ SequenceOK /\ OutcomeSound /\ TimeoutIsFinal
        /\ \A f \in Flows : AnswerOK(f) /\ StageOK(f) /\ ElapsedOK(f)
=============================================================================
