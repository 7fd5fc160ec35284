------------------------------ MODULE Clients ------------------------------
(***************************************************************************)
(* The calls of MoveupClient, IndexerClient, AnsClient, TokenClient,       *)
(* MoveupToken, CoinClient, FaucetClient and rollup.ts while the ledger    *)
(* moves on under them.  A call runs a plan (ClientPlans): stages of       *)
(* requests sent together (Promise.all), each with what the code does when *)
(* the thing asked for is there, is missing (404) or the request fails.    *)
(* What is built from memoized reads, how a wait polls, how a list is      *)
(* paginated and how one request runs are the modules TxnBuild, TxnFlow,   *)
(* Pagination and Request; here each is one answer that may come or fail.  *)
(***************************************************************************)
EXTENDS Naturals, Sequences

CONSTANTS Calls,       \* the concurrent calls
          Plans,       \* the plans of the methods
          Hashes,      \* hashes of the transactions of one call
          Own,         \* the hash of the transaction a call submits itself
          Settings,    \* the ledgers a run may begin with, and the plans that run together
          Absent,      \* the value of what is not there
          MaxVersion   \* bound of the ledger's versions

Items == {"account",  \* the sequence number of the caller's account
          "nonce",    \* its transaction count on L1
          "store",    \* a resource that holds the handle of a table
          "entry",    \* an item of that table
          "chainId",  \* of the ledger info: never changes
          "other"}    \* anything else the services report

Counters == {"account", "nonce"}

Requests == [item   : Items \cup Hashes,
             from   : {"latest", "pinned", "lagging"},  \* which version is asked for
             does   : {"read", "wait", "mint", "signed", "transaction", "register", "rotate"},
             held   : {"next", "reject"},
             absent : {"reject", "empty", "next"},
             failed : {"reject", "return", "empty"}]

Posts(r) == r.does \notin {"read", "wait"}

RequestsOf(p) == UNION {p.stages[k] : k \in DOMAIN p.stages}
Pinned(p) == \E r \in RequestsOf(p) : r.from = "pinned"

PlanType == [stages  : Seq(SUBSET Requests),
             invalid : {"none", "reject", "empty"}]  \* the end of a call refused at once

Ledgers == [Items -> Nat \cup {Absent}]

\* No stage is empty; what is posted is posted alone.  The account is always
\* asked for at its latest version, and nothing is registered before its entry
\* was looked up and found missing.
ASSUME PlanAssumption ==
    /\ Plans \subseteq PlanType /\ \A s \in Settings : s.plans \in [Calls -> Plans]
    /\ \A p \in Plans :
         /\ \A k \in DOMAIN p.stages : p.stages[k] # {}
         /\ \A k \in DOMAIN p.stages : \A r \in p.stages[k] :
              /\ Posts(r) => p.stages[k] = {r}
              /\ (r.does = "read") <=> (r.item \in Items)
              /\ r.item = "account" => r.from = "latest"
              /\ r.does = "register" => \E j \in 1..(k - 1), q \in Requests :
                   /\ p.stages[j] = {q}
                   /\ q.item = "entry" /\ q.from = "latest" /\ q.held = "reject"
ASSUME LedgerAssumption ==
    /\ Absent \notin Nat /\ MaxVersion \in Nat
    /\ \A s \in Settings : /\ s.ledger \in Ledgers
                          /\ \A item \in Counters : s.ledger[item] \in Nat
    /\ Own \in Hashes /\ Items \cap Hashes = {}

VARIABLES ledger,    \* the versions of the ledger
          posted,    \* the transactions the node has taken
          executed,  \* those of them in the ledger
          plan,      \* of each call: its plan,
          pin,       \* the ledgerVersion given to it, when its plan pins one,
          began,     \* the version it began at, 0 until then,
          stage,     \* the stage it is at,
          asked,     \* the requests on their way,
          replies,   \* the replies that have come,
          seen,      \* those it has dealt with,
          outcome    \* and how it ended

vars == <<ledger, posted, executed, plan, pin, began, stage, asked, replies, seen, outcome>>
chain == <<ledger, posted, executed>>

Now == Len(ledger)
Replies == [to : Requests, stage : Nat, kind : {"held", "absent", "failed"},
            value : Nat \cup {Absent}, at : Nat]
Transactions == [by : Calls, hash : Hashes,
                 does : {"mint", "signed", "transaction", "register", "rotate"},
                 proof : Nat, number : Nat]
Outcomes == {"open", "value", "empty", "invalid", "error", "rejected"}

TypeOK == /\ ledger \in Seq(Ledgers) /\ Now >= 1
          /\ posted \subseteq Transactions /\ executed \subseteq posted
          /\ plan \in [Calls -> Plans] /\ pin \in [Calls -> Nat]
          /\ began \in [Calls -> Nat] /\ stage \in [Calls -> Nat]
          /\ asked \in [Calls -> SUBSET Requests]
          /\ replies \in [Calls -> SUBSET Replies] /\ seen \in [Calls -> SUBSET Replies]
          /\ outcome \in [Calls -> Outcomes]

Init == /\ \E s \in Settings : ledger = <<s.ledger>> /\ plan = s.plans
        /\ posted = {} /\ executed = {}
        /\ pin = [c \in Calls |-> 0] /\ began = [c \in Calls |-> 0]
        /\ stage = [c \in Calls |-> 0]
        /\ asked = [c \in Calls |-> {}] /\ replies = [c \in Calls |-> {}]
        /\ seen = [c \in Calls |-> {}]
        /\ outcome = [c \in Calls |-> "open"]
-----------------------------------------------------------------------------
(* The client. *)

\* The call is made; its first requests leave.  A call without stages is nobody's.
Start(c) == /\ began[c] = 0 /\ plan[c].stages # << >>
            /\ began' = [began EXCEPT ![c] = Now]
            /\ \E v \in 1..Now : /\ v = Now \/ Pinned(plan[c])
                               /\ pin' = [pin EXCEPT ![c] = v]
            /\ stage' = [stage EXCEPT ![c] = 1]
            /\ asked' = [asked EXCEPT ![c] = plan[c].stages[1]]
            /\ UNCHANGED <<chain, plan, replies, seen, outcome>>

\* The call is made with an argument it refuses before it asks anything.
Refuse(c) == /\ began[c] = 0 /\ plan[c].invalid # "none"
             /\ began' = [began EXCEPT ![c] = Now]
             /\ outcome' = [outcome EXCEPT ![c] =
                              IF plan[c].invalid = "empty" THEN "invalid" ELSE "rejected"]
             /\ UNCHANGED <<chain, plan, pin, stage, asked, replies, seen>>

ThenAnyErrorIsMissing(s) ==   \* mutation: the status of the error is not looked at
    CASE s.kind = "held" -> s.to.held [] OTHER -> s.to.absent
\* What the code does with a reply: go on, or end in one of these ways.
Then(s) == CASE s.kind = "held"   -> s.to.held
             [] s.kind = "absent" -> s.to.absent
             [] s.kind = "failed" -> s.to.failed
Goes(s) == Then(s) = "next"

EndQuietly(s) == IF Then(s) = "return" THEN "error" ELSE "empty"   \* mutation: errors give null
End(s) == CASE Then(s) = "empty" -> "empty" [] Then(s) = "return" -> "error"
            [] OTHER -> "rejected"

SettleNever(c, o) ==   \* mutation: the promise is not settled
    /\ asked' = [asked EXCEPT ![c] = {}] /\ replies' = [replies EXCEPT ![c] = {}]
    /\ UNCHANGED <<outcome, stage>>
\* The call ends; what is still on its way no longer matters to it.
Settle(c, o) == /\ outcome' = [outcome EXCEPT ![c] = o]
                /\ asked' = [asked EXCEPT ![c] = {}]
                /\ replies' = [replies EXCEPT ![c] = {}]
                /\ UNCHANGED stage

RaceSettled(c, s) == TRUE   \* mutation: Promise.race instead of Promise.all
\* Promise.all has resolved: s was the last reply of the stage.
StageSettled(c, s) == asked[c] = {} /\ replies[c] = {s}

\* A reply is dealt with: the call ends, waits for the stage's other replies,
\* or takes the next stage; after the last it resolves with what it read.
Receive(c) ==
    /\ outcome[c] = "open"
    /\ \E s \in replies[c] :
         /\ seen' = [seen EXCEPT ![c] = @ \cup {s}]
         /\ \/ ~Goes(s) /\ Settle(c, End(s))
            \/ /\ Goes(s) /\ ~StageSettled(c, s)
               /\ replies' = [replies EXCEPT ![c] = @ \ {s}]
               /\ UNCHANGED <<asked, stage, outcome>>
            \/ /\ Goes(s) /\ StageSettled(c, s) /\ stage[c] = Len(plan[c].stages)
               /\ Settle(c, "value")
            \/ /\ Goes(s) /\ StageSettled(c, s) /\ stage[c] < Len(plan[c].stages)
               /\ stage' = [stage EXCEPT ![c] = @ + 1]
               /\ asked' = [asked EXCEPT ![c] = plan[c].stages[stage[c] + 1]]
               /\ replies' = [replies EXCEPT ![c] = {}]
               /\ UNCHANGED outcome
    /\ UNCHANGED <<chain, plan, pin, began>>
-----------------------------------------------------------------------------
(* The services. *)

Reply(c, r, kind, value, at) ==
    /\ asked' = [asked EXCEPT ![c] = @ \ {r}]
    /\ replies' = [replies EXCEPT ![c] = @ \cup
                     {[to |-> r, stage |-> stage[c], kind |-> kind, value |-> value, at |-> at]}]
    /\ UNCHANGED <<plan, pin, began, stage, seen, outcome>>

ServedUnpinned(c, r) ==   \* mutation: ledger_version is not sent
    IF r.from = "lagging" THEN 1..Now ELSE {Now}
ServedStale(c, r) ==      \* mutation: every read is memoized
    IF r.from = "pinned" THEN {pin[c]} ELSE 1..Now
\* The node answers for its latest version or the one asked for; the indexer
\* and a cache may lag behind by any number of versions.
ServedAt(c, r) == CASE r.from = "latest"  -> {Now}
                    [] r.from = "pinned"  -> {pin[c]}
                    [] r.from = "lagging" -> 1..Now

Serve(c) == /\ \E r \in asked[c] : \E v \in ServedAt(c, r) :
                 /\ r.does = "read"
                 /\ Reply(c, r, IF ledger[v][r.item] = Absent THEN "absent" ELSE "held",
                          ledger[v][r.item], v)
            /\ UNCHANGED chain

\* A request that fails: an error status other than 404, no connection, a pruned
\* version, an answer that cannot be read, a wait that has timed out.
Fail(c) == /\ \E r \in asked[c] : Reply(c, r, "failed", 0, 0)
           /\ UNCHANGED chain

Confirmed(c, h) == \E p \in executed : p.by = c /\ p.hash = h

\* A wait sees the transaction in the ledger, whether it succeeded or not.
Confirm(c) == /\ \E r \in asked[c] : /\ r.does = "wait" /\ Confirmed(c, r.item)
                                     /\ Reply(c, r, "held", 0, 0)
              /\ UNCHANGED chain

\* The node or the faucet takes what is posted; the reply may be lost.
Take(c, r, transactions) ==
    /\ posted' = posted \cup transactions
    /\ \E kind \in {"held", "failed"} : Reply(c, r, kind, 0, 0)
    /\ UNCHANGED <<ledger, executed>>

Transaction(c, h, r, proof, number) ==
    [by |-> c, hash |-> h, does |-> r.does, proof |-> proof, number |-> number]

\* The faucet sends transactions of its own.
TakeMint(c) == \E r \in asked[c] :
    /\ r.does = "mint"
    /\ Take(c, r, {Transaction(c, h, r, 0, 0) : h \in Hashes})

\* A transaction the caller built: with the number it had then.
TakeSigned(c) == \E r \in asked[c] : \E n \in 0..ledger[Now]["account"] :
    /\ r.does = "signed"
    /\ Take(c, r, {Transaction(c, Own, r, n, n)})

\* A transaction the method built: its number is the last it read, and the
\* proof of a rotation carries the first.
Numbers(c) == {s \in seen[c] : s.to.item = "account"}
TakeBuilt(c) == \E r \in asked[c] : \E s \in Numbers(c), t \in Numbers(c) :
    /\ r.does \in {"transaction", "register", "rotate"}
    /\ \A u \in Numbers(c) : s.stage <= u.stage /\ u.stage <= t.stage
    /\ Take(c, r, {Transaction(c, Own, r, s.value, t.value)})

Service(c) == Serve(c) \/ Fail(c) \/ Confirm(c) \/ TakeMint(c) \/ TakeSigned(c) \/ TakeBuilt(c)
-----------------------------------------------------------------------------
(* The chain. *)

Append1(changed) == /\ Now < MaxVersion
                    /\ ledger' = Append(ledger, changed)
                    /\ UNCHANGED <<posted, plan, pin, began, stage, asked, replies, seen, outcome>>

\* What others may change: the counters go up, a store stays once it is there.
\* Only what a call may ask for is followed, and only while calls run.
Successors(item, value) ==
    CASE item \in Counters -> {value + 1}
      [] item = "chainId" -> {}
      [] item = "store" -> IF value = Absent THEN {1} ELSE {}
      [] OTHER -> IF value = Absent THEN {1} ELSE {Absent}

Followed == {item \in Items : \E c \in Calls : outcome[c] = "open" /\ \E r \in RequestsOf(plan[c]) :
                                 r.item = item}
Change == \E item \in Followed : \E w \in Successors(item, ledger[Now][item]) :
    /\ Append1([ledger[Now] EXCEPT ![item] = w])
    /\ UNCHANGED executed

\* A transaction of the account runs when it has the account's number; the
\* contract registers a name only if it is free.
After(p) ==
    [ledger[Now] EXCEPT
       !["account"] = IF p.does = "mint" THEN @ ELSE @ + 1,
       !["entry"]   = IF p.does = "register" /\ @ = Absent THEN 1 ELSE @]
Execute == \E p \in posted \ executed :
    /\ p.does = "mint" \/ p.number = ledger[Now]["account"]
    /\ Append1(After(p))
    /\ executed' = executed \cup {p}

Next == (\E c \in Calls : Start(c) \/ Refuse(c) \/ Receive(c) \/ Service(c)) \/ Change \/ Execute

Spec == Init /\ [][Next]_vars

\* Every request is answered or fails, and awaits resume.
FairSpec == Spec /\ \A c \in Calls : WF_vars(Service(c)) /\ WF_vars(Receive(c))
-----------------------------------------------------------------------------
(* Properties. *)

\* When the value of a reply was in the ledger.
Fresh(c, s) == /\ s.at \in 1..Now
               /\ s.to.from = "latest" => began[c] <= s.at
               /\ s.to.from = "pinned" => s.at = pin[c]
Held(c, s) == s.to.does = "read" /\ s.kind # "failed" =>
                /\ Fresh(c, s) /\ s.value = ledger[s.at][s.to.item]
                /\ (s.kind = "absent") <=> (s.value = Absent)

\* A plan that finds a table's handle and asks the table, version by version.
Composed(p) == \A k \in DOMAIN p.stages : \E r \in Requests :
    /\ p.stages[k] = {r} /\ r.does = "read" /\ r.from = "latest"
    /\ k < Len(p.stages) => r.item = "store" /\ r.absent = "reject" /\ r.failed = "reject"

\* What a call resolves with was so: each value was in the ledger during the
\* call (at the version the caller asked for; by then, if it came from the
\* indexer or a cache), and what a lookup puts together from two requests was
\* there together at one moment of the call, whatever others did in between.
AnswersHeld == \A c \in Calls : outcome[c] \in {"value", "empty"} =>
    /\ \A s \in seen[c] : Held(c, s)
    /\ Composed(plan[c]) => \E v \in began[c]..Now : \A s \in seen[c] :
         ledger[v][s.to.item] = s.value

\* A failed request is never taken for an answer: null for the address of a name,
\* the amount "0" of a token and a transaction that is pending for want of an answer
\* mean that what was asked for was missing, at a moment of the call.
NothingMeansMissing == \A c \in Calls : outcome[c] = "empty" =>
    \E s \in seen[c] : /\ s.to.absent = "empty" /\ Fresh(c, s)
                       /\ ledger[s.at][s.to.item] = Absent

\* Two deposits of one L1 account carry the same nonce only if the later one was
\* begun before anything with the nonce of the other was mined (rollup.ts:127).
Nonces(c) == {s \in seen[c] : s.to.item = "nonce" /\ s.kind = "held"}
NoncesApart == \A c, d \in Calls : \A s \in Nonces(c), t \in Nonces(d) :
    (\E v \in 1..began[d] : ledger[v]["nonce"] > s.value) => t.value > s.value

\* "@returns Token object in below format" (token_client.ts:638): a call that
\* resolves gives what it read, never the error it caught instead.
ResolvesWithValue == \A c \in Calls : outcome[c] # "error"

\* A name is only registered by a call during which it was free, though it may
\* be taken by the time the transaction runs.
MintSawFree == \A p \in posted : p.does = "register" =>
    \E v \in began[p.by]..Now : ledger[v]["entry"] = Absent

\* The numbers in a transaction a method builds (its own, and that of the proof
\* of a rotation) were the account's at moments of the call; only what was
\* executed since can have made them stale.
NumbersFresh == \A p \in posted : p.does \in {"transaction", "register", "rotate"} =>
    \A n \in {p.proof, p.number} : \E v \in began[p.by]..Now : ledger[v]["account"] = n

\* fundAccount resolves only when all the faucet's transactions are in the ledger.
Funded == \A c \in Calls :
    /\ outcome[c] = "value"
    /\ \E k \in DOMAIN plan[c].stages : \A h \in Hashes :
         \E r \in plan[c].stages[k] : r.does = "wait" /\ r.item = h
    => \A h \in Hashes : Confirmed(c, h)

\* Every call that was made ends.
CallsEnd == \A c \in Calls : began[c] # 0 ~> outcome[c] # "open"
-----------------------------------------------------------------------------
(* What plans may keep to. *)

\* Every plan tells a failed request from a thing that is missing.
TellsFailures == \A p \in Plans : \A r \in RequestsOf(p) : r.failed # "empty"

\* Every plan that asks for a nonce asks for that of the latest block.
AsksLatestNonce == \A p \in Plans : \A r \in RequestsOf(p) :
    r.item = "nonce" => r.from = "latest"
-----------------------------------------------------------------------------
(* The inductive strengthening of the safety properties. *)

Passed(c, k, r) == \E s \in seen[c] : s.stage = k /\ s.to = r /\ Goes(s)

BeganOK(c) ==
    /\ began[c] \in 0..Now /\ stage[c] \in 0..Len(plan[c].stages)
    /\ stage[c] # 0 => began[c] # 0 /\ pin[c] \in 1..Now
    /\ stage[c] = 0 => /\ seen[c] = {} /\ replies[c] = {} /\ asked[c] = {}
                       /\ outcome[c] \in {"open", "invalid", "rejected"}
    /\ began[c] = 0 => stage[c] = 0 /\ outcome[c] = "open"

\* Everything on its way belongs to the stage the call is at.
StageOK(c) ==
    /\ stage[c] # 0 => asked[c] \subseteq plan[c].stages[stage[c]]
    /\ outcome[c] # "open" => asked[c] = {} /\ replies[c] = {}
    /\ \A s \in replies[c] : s.stage = stage[c] /\ s.to \in plan[c].stages[stage[c]]
    /\ \A s \in seen[c] : s.stage \in 1..stage[c] /\ s.to \in plan[c].stages[s.stage]

\* An open call has passed the requests of the stages behind it; those of its
\* own stage are on their way, answered or passed.
PassedOK(c) ==
    /\ \A k \in 1..(stage[c] - 1) : \A r \in plan[c].stages[k] : Passed(c, k, r)
    /\ \A s \in seen[c] : s.stage < stage[c] \/ outcome[c] = "open" => Goes(s)
    /\ outcome[c] = "open" /\ stage[c] # 0 => \A r \in plan[c].stages[stage[c]] :
         \/ r \in asked[c]
         \/ \E s \in replies[c] : s.to = r
         \/ Passed(c, stage[c], r)

\* What every reply says was so, and how a call that is over ended.
RepliesOK(c) ==
    /\ \A s \in replies[c] \cup seen[c] :
         /\ Held(c, s)
         /\ s.kind = "absent" => s.to.does = "read"
         /\ s.to.does = "wait" /\ s.kind = "held" => Confirmed(c, s.to.item)
    /\ outcome[c] = "value" =>
         /\ stage[c] = Len(plan[c].stages)
         /\ \A s \in seen[c] : Goes(s)
         /\ \A r \in plan[c].stages[stage[c]] : Passed(c, stage[c], r)
    /\ outcome[c] = "empty" =>
         \E s \in seen[c] : s.stage = stage[c] /\ Then(s) = "empty"
    /\ outcome[c] = "error" => \E s \in seen[c] : s.kind = "failed" /\ s.to.failed = "return"

\* Replies of later stages are not older.
ReadLatest(s) == s.to.does = "read" /\ s.to.from = "latest" /\ s.kind # "failed"
OrderOK(c) == \A s \in seen[c], t \in replies[c] \cup seen[c] :
    s.stage < t.stage /\ ReadLatest(s) /\ ReadLatest(t) => s.at <= t.at

\* A request is answered once.
OnceOK(c) == /\ \A s \in replies[c] \cup seen[c], t \in replies[c] \cup seen[c] :
                  s.stage = t.stage /\ s.to = t.to => s = t
             /\ \A s \in replies[c] \cup seen[c] : s.stage = stage[c] => s.to \notin asked[c]

CallOK(c) == BeganOK(c) /\ StageOK(c) /\ PassedOK(c) /\ RepliesOK(c) /\ OrderOK(c) /\ OnceOK(c)

\* A store stays as it is, and a counter is a number that only grows.
LedgerOK == /\ \A v \in 1..Now : \A item \in Counters :
                 /\ ledger[v][item] \in Nat
                 /\ \A w \in v..Now : ledger[v][item] <= ledger[w][item]
            /\ \A v \in 1..Now : \A w \in v..Now :
                 ledger[v]["store"] # Absent => ledger[w]["store"] = ledger[v]["store"]

PostedOK == \A p \in posted : began[p.by] \in 1..Now

IInv == /\ TypeOK /\ LedgerOK /\ PostedOK /\ MintSawFree /\ NumbersFresh
        /\ \A c \in Calls : CallOK(c)
=============================================================================
