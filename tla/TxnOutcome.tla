----------------------------- MODULE TxnOutcome -----------------------------
(***************************************************************************)
(* What generateSignSubmitWaitForTransaction promises its caller, without  *)
(* polls, sleeps or sequence numbers.  The chain decides the fate of each  *)
(* transaction once; the call reports a fate only after the chain decided  *)
(* it, and once a call that uses the default expiration reports a timeout  *)
(* the chain decides nothing about its transaction any more.               *)
(***************************************************************************)
CONSTANTS Flows,         \* one call each
          CheckSuccess,  \* the calls made with checkSuccess: true
          CustomExpiry   \* the calls made with extraArgs.expireTimestamp

VARIABLES fate,     \* fate[f]: "none", or how the transaction of f was committed
          outcome   \* outcome[f]: how the call ended

vars == <<fate, outcome>>

Errors == {"apiError", "error"}      \* thrown before or while waiting
TimedOut == {"timeout", "unknown"}   \* thrown when the polls are used up

Init == /\ fate = [f \in Flows |-> "none"]
        /\ outcome = [f \in Flows |-> "none"]

Decide(f) == /\ fate[f] = "none"
             /\ outcome[f] \in TimedOut => f \in CustomExpiry
             /\ \E r \in {"ok", "fail"} : fate' = [fate EXCEPT ![f] = r]
             /\ UNCHANGED outcome

\* What a call may say of a transaction with fate r.
Reports(f, r) == CASE r = "none" -> {}
                   [] r = "ok" -> {"resolved"}
                   [] r = "fail" -> IF f \in CheckSuccess THEN {"failed"} ELSE {"resolved"}

Report(f) == /\ outcome[f] = "none"
             /\ \E r \in Reports(f, fate[f]) \cup Errors \cup TimedOut :
                  outcome' = [outcome EXCEPT ![f] = r]
             /\ UNCHANGED fate

Next == \E f \in Flows : Decide(f) \/ Report(f)

Spec == Init /\ [][Next]_vars
=============================================================================
