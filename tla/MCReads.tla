------------------------------ MODULE MCReads ------------------------------
(***************************************************************************)
(* Instances of Pagination, Request and TxnBuild for TLC: what the SDK     *)
(* reads across awaits.  They share no state, so a behaviour runs one of   *)
(* them and leaves the others where they start.                            *)
(***************************************************************************)
EXTENDS Pagination, Request, TxnBuild

VARIABLE part

readsVars == <<part, vars, requestVars, buildVars>>

ReadsInit ==
    /\ part \in {"pages", "request", "build"}
    /\ Init /\ RequestInit /\ BuildInit
    /\ part # "pages" => ledger = <<[k \in Keys |-> Absent]>>
    /\ part # "request" => ~fetch

ReadsNext ==
    \/ part = "pages" /\ Next /\ UNCHANGED <<part, requestVars, buildVars>>
    \/ part = "request" /\ RequestNext /\ UNCHANGED <<part, vars, buildVars>>
    \/ part = "build" /\ BuildNext /\ UNCHANGED <<part, vars, requestVars>>

\* With the fairness of FairSpec and FairRequest.
ReadsSpec == /\ ReadsInit /\ [][ReadsNext]_readsVars
             /\ WF_vars(Serve) /\ WF_vars(Receive)
             /\ WF_requestVars(Executor) /\ WF_requestVars(Answer)
=============================================================================
