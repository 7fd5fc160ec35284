------------------------------ MODULE MCMemoize ------------------------------
(* Instances of Memoize for TLC. *)
EXTENDS Memoize

\* A caller that calls again each time it has its answer.
RetrySpec == FairSpec /\ \A c \in Callers : WF_vars(\E o \in Objects, k \in Keys : Call(c, o, k))

\* Once the node rejects nothing any more, callers that retry get answers
\* (moveup_client.ts:684 says of getChainId "@returns Current chain id").
AnswersAfterOutage == <>[][\A p \in Promises : ~Reject(p)]_vars => []<>(result # Failed)
=============================================================================
