--------------------------- MODULE ClientsProofs ---------------------------
(***************************************************************************)
(* Proofs about Clients, for every set of calls, every table of plans that *)
(* satisfies PlanAssumption and every ledger.  The invariant is a          *)
(* conjunction over the calls and over the posted transactions; a step of  *)
(* one call, or of the chain, leaves the others' conjuncts alone.          *)
(***************************************************************************)
EXTENDS Clients, TLAPS

\* The variables of one call.
Same(c) == /\ plan'[c] = plan[c] /\ pin'[c] = pin[c] /\ began'[c] = began[c]
           /\ stage'[c] = stage[c] /\ asked'[c] = asked[c] /\ replies'[c] = replies[c]
           /\ seen'[c] = seen[c] /\ outcome'[c] = outcome[c]

\* The ledger only grows.
Grows == /\ Now' \in Nat /\ Now <= Now' /\ \A v \in 1..Now : ledger'[v] = ledger[v]
         /\ executed \subseteq executed'

\* What a call has, read off the type invariant.
LEMMA CallType ==
  ASSUME TypeOK, NEW c \in Calls
  PROVE  /\ plan[c] \in Plans /\ pin[c] \in Nat /\ began[c] \in Nat /\ stage[c] \in Nat
         /\ asked[c] \subseteq Requests /\ replies[c] \subseteq Replies /\ seen[c] \subseteq Replies
         /\ outcome[c] \in Outcomes /\ Now \in Nat /\ Now >= 1
  BY DEF TypeOK, Now

LEMMA PlanStages ==
  ASSUME NEW p \in Plans
  PROVE  /\ p.stages \in Seq(SUBSET Requests) /\ Len(p.stages) \in Nat
         /\ DOMAIN p.stages = 1..Len(p.stages)
         /\ \A k \in 1..Len(p.stages) : p.stages[k] \subseteq Requests
  BY PlanAssumption DEF PlanType

\* A reply that lets the call go on is not a failure.
LEMMA GoesKind ==
  ASSUME NEW s \in Replies, Goes(s)
  PROVE  /\ s.kind \in {"held", "absent"}
         /\ s.kind = "held" => s.to.held = "next"
         /\ s.kind = "absent" => s.to.absent = "next"
  BY DEF Goes, Then, Replies, Requests

\* What was so stays so in a ledger that grows.
LEMMA HeldStays ==
  ASSUME TypeOK, Grows, NEW c \in Calls, Same(c), NEW s \in Replies, Held(c, s)
  PROVE  Held(c, s)'
  <1>1. Now \in Nat
    BY DEF TypeOK, Now
  <1> QED BY <1>1 DEF Held, Fresh, Grows, Same

LEMMA FrameCall ==
  ASSUME TypeOK, Grows, NEW c \in Calls, Same(c), CallOK(c)
  PROVE  CallOK(c)'
  <1>t. replies[c] \subseteq Replies /\ seen[c] \subseteq Replies /\ Now \in Nat
    BY CallType
  <1>1. BeganOK(c)'
    BY <1>t DEF CallOK, BeganOK, Same, Grows
  <1>2. StageOK(c)'
    BY DEF CallOK, StageOK, Same
  <1>3. PassedOK(c)'
    BY DEF CallOK, PassedOK, Passed, Same
  <1>4. RepliesOK(c)'
    <2>1. \A s \in replies[c] \cup seen[c] : Held(c, s)'
      BY <1>t, HeldStays DEF CallOK, RepliesOK
    <2>2. \A h : Confirmed(c, h) => Confirmed(c, h)'
      BY DEF Confirmed, Grows
    <2> QED BY <2>1, <2>2 DEF CallOK, RepliesOK, Passed, Same
  <1>5. OrderOK(c)'
    BY DEF CallOK, OrderOK, Same
  <1>6. OnceOK(c)'
    BY DEF CallOK, OnceOK, Same
  <1> QED BY <1>1, <1>2, <1>3, <1>4, <1>5, <1>6 DEF CallOK

\* The part of the invariant that is about the ledger and what was posted.
PostedInv == PostedOK /\ MintSawFree /\ NumbersFresh
LEMMA FramePosted ==
  ASSUME TypeOK, Grows, PostedInv, posted' = posted, \A c \in Calls : began[c] # 0 => began'[c] = began[c]
  PROVE  PostedInv'
  <1>1. Now \in Nat /\ \A p \in posted : p.by \in Calls
    BY DEF TypeOK, Now, Transactions
  <1>2. \A p \in posted : began[p.by] \in 1..Now /\ began'[p.by] = began[p.by]
    BY <1>1 DEF PostedInv, PostedOK
  <1>3. PostedOK'
    BY <1>1, <1>2 DEF PostedOK, Grows
  <1>4. \A p \in posted : \A v \in began[p.by]..Now : v \in 1..Now /\ v \in began[p.by]..Now'
    BY <1>1, <1>2 DEF Grows
  <1>5. MintSawFree'
    BY <1>2, <1>4 DEF PostedInv, MintSawFree, Grows
  <1>6. NumbersFresh'
    BY <1>2, <1>4 DEF PostedInv, NumbersFresh, Grows
  <1> QED BY <1>3, <1>5, <1>6 DEF PostedInv

\* A step of call c that leaves the posted transactions alone.
LEMMA Combine ==
  ASSUME IInv, TypeOK', Grows, LedgerOK', posted' = posted, NEW c \in Calls, CallOK(c)',
         began[c] # 0 => began'[c] = began[c], \A d \in Calls \ {c} : Same(d)
  PROVE  IInv'
  <1>1. \A d \in Calls \ {c} : CallOK(d)'
    BY FrameCall DEF IInv
  <1>2. PostedInv'
    BY FramePosted DEF IInv, PostedInv, Same
  <1> QED BY <1>1, <1>2 DEF IInv, PostedInv

LEMMA InitInv == Init => IInv
<1> SUFFICES ASSUME Init PROVE IInv
  OBVIOUS
<1>1. PICK s \in Settings : ledger = <<s.ledger>> /\ plan = s.plans
  BY DEF Init
<1>2. /\ s.ledger \in Ledgers /\ \A item \in Counters : s.ledger[item] \in Nat
      /\ plan \in [Calls -> Plans]
  BY <1>1, LedgerAssumption, PlanAssumption
<1>3. ledger \in Seq(Ledgers) /\ Now = 1 /\ ledger[1] = s.ledger
  BY <1>1, <1>2 DEF Now
<1>4. TypeOK
  BY <1>2, <1>3 DEF Init, TypeOK, Outcomes
<1>5. LedgerOK
  BY <1>2, <1>3 DEF LedgerOK, Counters
<1>6. PostedOK /\ MintSawFree /\ NumbersFresh
  BY DEF Init, PostedOK, MintSawFree, NumbersFresh
<1>7. ASSUME NEW c \in Calls PROVE CallOK(c)
  <2>1. plan[c] \in Plans
    BY <1>4 DEF TypeOK
  <2>2. Len(plan[c].stages) \in Nat
    BY <2>1, PlanStages
  <2>3. BeganOK(c)
    BY <1>3, <2>2 DEF Init, BeganOK
  <2>4. StageOK(c) /\ PassedOK(c) /\ RepliesOK(c) /\ OrderOK(c) /\ OnceOK(c)
    BY DEF Init, StageOK, PassedOK, RepliesOK, OrderOK, OnceOK
  <2> QED BY <2>3, <2>4 DEF CallOK
<1> QED BY <1>4, <1>5, <1>6, <1>7 DEF IInv
-----------------------------------------------------------------------------
(* The chain. *)

\* The ledger gets a version; the calls stay as they are.
Extended(g) == /\ ledger' = Append(ledger, g)
               /\ UNCHANGED <<posted, plan, pin, began, stage, asked, replies, seen, outcome>>

LEMMA ExtendedInv ==
  ASSUME IInv, NEW g \in Ledgers,
         \A item \in Counters : g[item] \in Nat /\ ledger[Now][item] <= g[item],
         ledger[Now]["store"] # Absent => g["store"] = ledger[Now]["store"],
         Extended(g), executed \subseteq executed', executed' \subseteq posted
  PROVE  IInv'
  <1>1. ledger \in Seq(Ledgers) /\ Now \in Nat /\ Now >= 1
    BY DEF IInv, TypeOK, Now
  <1>2. /\ ledger' \in Seq(Ledgers) /\ Now' = Now + 1
        /\ \A v \in 1..Now : ledger'[v] = ledger[v]
        /\ ledger'[Now + 1] = g
    BY <1>1 DEF Extended, Now
  <1>3. Grows
    BY <1>1, <1>2 DEF Grows
  <1>4. TypeOK'
    BY <1>1, <1>2 DEF IInv, TypeOK, Extended
  <1>5. LedgerOK'
    <2>1. \A v \in 1..Now' : v \in 1..Now \/ v = Now + 1
      BY <1>1, <1>2
    <2>2. \A v \in 1..Now' : \A item \in Counters : ledger'[v][item] \in Nat
      BY <1>2, <2>1 DEF IInv, LedgerOK
    <2>3. ASSUME NEW v \in 1..Now', NEW w \in v..Now', ledger'[v]["store"] # Absent
          PROVE  ledger'[w]["store"] = ledger'[v]["store"]
      <3>1. CASE w = Now + 1 /\ v \in 1..Now
        BY <3>1, <1>1, <1>2, <2>3 DEF IInv, LedgerOK
      <3>2. CASE w \in 1..Now /\ v \in 1..Now
        BY <3>2, <1>1, <1>2, <2>3 DEF IInv, LedgerOK
      <3>3. CASE v = Now + 1
        BY <3>3, <1>1, <1>2, <2>3
      <3> QED BY <2>1, <3>1, <3>2, <3>3, <1>1, <1>2
    <2>4. ASSUME NEW item \in Counters, NEW v \in 1..Now', NEW w \in v..Now'
          PROVE  ledger'[v][item] <= ledger'[w][item]
      <3>1. CASE w = Now + 1 /\ v \in 1..Now
        <4>1. ledger[v][item] <= ledger[Now][item] /\ ledger[Now][item] <= g[item]
          BY <3>1, <1>1 DEF IInv, LedgerOK
        <4>2. ledger[v][item] \in Nat /\ ledger[Now][item] \in Nat /\ g[item] \in Nat
          BY <3>1, <1>1 DEF IInv, LedgerOK
        <4>3. ledger'[v][item] = ledger[v][item] /\ ledger'[w][item] = g[item]
          BY <3>1, <1>2
        <4> QED BY <4>1, <4>2, <4>3
      <3>2. CASE w \in 1..Now /\ v \in 1..Now
        BY <3>2, <1>1, <1>2 DEF IInv, LedgerOK
      <3>3. CASE v = Now + 1
        BY <3>3, <1>1, <1>2
      <3> QED BY <2>1, <3>1, <3>2, <3>3, <1>1, <1>2
    <2> QED BY <2>2, <2>3, <2>4 DEF LedgerOK
  <1>6. \A c \in Calls : Same(c) /\ CallOK(c)
    BY DEF Extended, Same, IInv
  <1>7. \A c \in Calls : CallOK(c)'
    BY <1>3, <1>6, FrameCall DEF IInv
  <1>8. PostedInv'
    BY <1>3, FramePosted DEF IInv, PostedInv, Extended
  <1> QED BY <1>4, <1>5, <1>7, <1>8 DEF IInv, PostedInv

LEMMA ChangeInv == IInv /\ Change => IInv'
<1> SUFFICES ASSUME IInv, Change PROVE IInv'
  OBVIOUS
<1>1. PICK item \in Items : \E w \in Successors(item, ledger[Now][item]) :
        Append1([ledger[Now] EXCEPT ![item] = w]) /\ UNCHANGED executed
  BY DEF Change, Followed
<1>2. PICK w \in Successors(item, ledger[Now][item]) :
        Append1([ledger[Now] EXCEPT ![item] = w]) /\ UNCHANGED executed
  BY <1>1
<1> DEFINE g == [ledger[Now] EXCEPT ![item] = w]
<1>3. Now \in Nat /\ Now >= 1 /\ ledger \in Seq(Ledgers) /\ executed \subseteq posted
  BY DEF IInv, TypeOK, Now
<1>4. ledger[Now] \in Ledgers /\ \A i \in Counters : ledger[Now][i] \in Nat
  BY <1>3 DEF IInv, LedgerOK, Now
<1>5. /\ item \in Counters => w \in Nat /\ ledger[Now][item] <= w
      /\ w \in Nat \cup {Absent}
      /\ item = "store" => ledger[Now]["store"] = Absent
  BY <1>4 DEF Successors, Counters
<1>6. g \in Ledgers /\ \A i \in Items : g[i] = IF i = item THEN w ELSE ledger[Now][i]
  BY <1>4, <1>5 DEF Ledgers
<1>7. \A i \in Counters : g[i] \in Nat /\ ledger[Now][i] <= g[i]
  BY <1>4, <1>5, <1>6 DEF Counters, Items
<1>8. ledger[Now]["store"] # Absent => g["store"] = ledger[Now]["store"]
  BY <1>5, <1>6 DEF Items
<1>9. Extended(g) /\ executed' = executed
  BY <1>2 DEF Extended, Append1
<1> HIDE DEF g
<1> QED BY <1>3, <1>6, <1>7, <1>8, <1>9, ExtendedInv

LEMMA ExecuteInv == IInv /\ Execute => IInv'
<1> SUFFICES ASSUME IInv, Execute PROVE IInv'
  OBVIOUS
<1>1. PICK p \in posted \ executed : Append1(After(p)) /\ executed' = executed \cup {p}
  BY DEF Execute
<1> DEFINE g == After(p)
<1>2. Now \in Nat /\ Now >= 1 /\ ledger \in Seq(Ledgers) /\ executed \subseteq posted
  BY DEF IInv, TypeOK, Now
<1>3. ledger[Now] \in Ledgers /\ \A i \in Counters : ledger[Now][i] \in Nat
  BY <1>2 DEF IInv, LedgerOK, Now
<1> DEFINE a == IF p.does = "mint" THEN ledger[Now]["account"] ELSE ledger[Now]["account"] + 1
           e == IF p.does = "register" /\ ledger[Now]["entry"] = Absent THEN 1
                                                                      ELSE ledger[Now]["entry"]
<1>a. a \in Nat /\ ledger[Now]["account"] <= a
  BY <1>3 DEF Counters
<1>e. e \in Nat \cup {Absent}
  BY <1>3 DEF Ledgers, Items
<1>g. g = [ledger[Now] EXCEPT !["account"] = a, !["entry"] = e]
  BY DEF After
<1> HIDE DEF a, e, g
<1>4. g \in Ledgers
  BY <1>3, <1>a, <1>e, <1>g DEF Ledgers
<1>5. \A i \in Counters : g[i] \in Nat /\ ledger[Now][i] <= g[i]
  BY <1>3, <1>a, <1>g DEF Ledgers, Counters, Items
<1>6. g["store"] = ledger[Now]["store"]
  BY <1>3, <1>g DEF Ledgers, Items
<1>7. Extended(g)
  BY <1>1 DEF Extended, Append1, g
<1> QED BY <1>1, <1>2, <1>4, <1>5, <1>6, <1>7, ExtendedInv
-----------------------------------------------------------------------------
(* A reply. *)

ReplyOf(c, r, kind, value, at) ==
    [to |-> r, stage |-> stage[c], kind |-> kind, value |-> value, at |-> at]

\* Everything a reply leaves as it is but what is posted.
Quiet == ledger' = ledger /\ executed' = executed

LEMMA QuietGrows == TypeOK /\ Quiet => Grows
  BY DEF TypeOK, Quiet, Grows, Now

LEMMA ReplyInv ==
  ASSUME IInv, Quiet, NEW c \in Calls, NEW r \in asked[c],
         NEW kind \in {"held", "absent", "failed"}, NEW value \in Nat \cup {Absent}, NEW at \in Nat,
         Reply(c, r, kind, value, at),
         Held(c, ReplyOf(c, r, kind, value, at)),
         kind = "absent" => r.does = "read",
         r.does = "wait" /\ kind = "held" => Confirmed(c, r.item),
         ReadLatest(ReplyOf(c, r, kind, value, at)) => at = Now
  PROVE  /\ asked' \in [Calls -> SUBSET Requests] /\ replies' \in [Calls -> SUBSET Replies]
         /\ UNCHANGED <<plan, pin, began, stage, seen, outcome>>
         /\ \A d \in Calls : CallOK(d)'
  <1> DEFINE q == ReplyOf(c, r, kind, value, at)
  <1>t. /\ asked \in [Calls -> SUBSET Requests] /\ replies \in [Calls -> SUBSET Replies]
        /\ seen[c] \subseteq Replies /\ replies[c] \subseteq Replies /\ stage[c] \in Nat /\ Now \in Nat
    BY CallType DEF IInv, TypeOK
  <1>1. r \in Requests
    BY <1>t
  <1>2. q \in Replies
    BY <1>t, <1>1 DEF ReplyOf, Replies
  <1>3. /\ asked' = [asked EXCEPT ![c] = @ \ {r}]
        /\ replies' = [replies EXCEPT ![c] = @ \cup {q}]
        /\ UNCHANGED <<plan, pin, began, stage, seen, outcome>>
    BY DEF Reply, ReplyOf
  <1>q. q.to = r /\ q.stage = stage[c] /\ q.kind = kind /\ q.value = value /\ q.at = at
    BY DEF ReplyOf
  <1>h. /\ Held(c, q) /\ (kind = "absent" => r.does = "read")
        /\ (r.does = "wait" /\ kind = "held" => Confirmed(c, r.item))
        /\ (ReadLatest(q) => at = Now)
    OBVIOUS
  <1> HIDE DEF q
  <1>4. asked' \in [Calls -> SUBSET Requests] /\ replies' \in [Calls -> SUBSET Replies]
    BY <1>t, <1>2, <1>3
  <1>5. asked'[c] = asked[c] \ {r} /\ replies'[c] = replies[c] \cup {q}
    BY <1>t, <1>3
  <1>6. CallOK(c)
    BY DEF IInv
  <1>s. /\ plan'[c] = plan[c] /\ pin'[c] = pin[c] /\ began'[c] = began[c] /\ stage'[c] = stage[c]
        /\ seen'[c] = seen[c] /\ outcome'[c] = outcome[c] /\ Now' = Now
    BY <1>3 DEF Quiet, Now
  <1>7. stage[c] # 0 /\ outcome[c] = "open" /\ r \in plan[c].stages[stage[c]]
    BY <1>6 DEF CallOK, BeganOK, StageOK
  <1>8. BeganOK(c)'
    BY <1>6, <1>7, <1>s DEF CallOK, BeganOK
  <1>9. StageOK(c)'
    BY <1>5, <1>6, <1>7, <1>s, <1>q DEF CallOK, StageOK
  <1>10. PassedOK(c)'
    BY <1>5, <1>6, <1>s, <1>q DEF CallOK, PassedOK, Passed
  <1>11. RepliesOK(c)'
    <2>1. \A s \in Replies : Held(c, s) => Held(c, s)'
      BY <1>s DEF Held, Fresh, Quiet
    <2>2. \A h : Confirmed(c, h) <=> Confirmed(c, h)'
      BY DEF Confirmed, Quiet
    <2>3. \A s \in replies'[c] \cup seen'[c] : s \in Replies /\ (s \in replies[c] \cup seen[c] \/ s = q)
      BY <1>t, <1>2, <1>5, <1>s
    <2>4. \A s \in replies'[c] \cup seen'[c] :
            /\ Held(c, s) /\ (s.kind = "absent" => s.to.does = "read")
            /\ (s.to.does = "wait" /\ s.kind = "held" => Confirmed(c, s.to.item))
      BY <2>3, <1>6, <1>h, <1>q DEF CallOK, RepliesOK
    <2> QED BY <2>1, <2>2, <2>3, <2>4, <1>6, <1>7, <1>s DEF CallOK, RepliesOK, Passed
  <1>12. OrderOK(c)'
    <2>1. \A s \in seen[c] : ReadLatest(s) => s.at \in 1..Now
      BY <1>6 DEF CallOK, RepliesOK, Held, Fresh, ReadLatest
    <2>2. \A s \in seen[c] : ReadLatest(s) /\ ReadLatest(q) => s.at <= q.at
      BY <2>1, <1>h, <1>q, <1>t
    <2> QED BY <2>2, <1>5, <1>6, <1>s DEF CallOK, OrderOK
  <1>13. OnceOK(c)'
    BY <1>5, <1>6, <1>7, <1>s, <1>q DEF CallOK, OnceOK
  <1>14. CallOK(c)'
    BY <1>8, <1>9, <1>10, <1>11, <1>12, <1>13 DEF CallOK
  <1>15. \A d \in Calls \ {c} : Same(d)
    BY <1>t, <1>3 DEF Same
  <1>16. \A d \in Calls \ {c} : CallOK(d)'
    BY <1>15, FrameCall, QuietGrows DEF IInv
  <1> QED BY <1>3, <1>4, <1>14, <1>16

\* A reply to a request that posts nothing.
LEMMA ReadInv ==
  ASSUME IInv, Quiet, posted' = posted, NEW c \in Calls,
         asked' \in [Calls -> SUBSET Requests], replies' \in [Calls -> SUBSET Replies],
         UNCHANGED <<plan, pin, began, stage, seen, outcome>>, \A d \in Calls : CallOK(d)'
  PROVE  IInv'
  <1>1. TypeOK' /\ LedgerOK'
    BY DEF IInv, TypeOK, LedgerOK, Quiet, Now
  <1>2. PostedInv'
    BY FramePosted, QuietGrows DEF IInv, PostedInv
  <1> QED BY <1>1, <1>2 DEF IInv, PostedInv

\* What a call that has a request on its way knows.
LEMMA AskedFacts ==
  ASSUME IInv, NEW c \in Calls, NEW r \in asked[c]
  PROVE  /\ stage[c] \in 1..Len(plan[c].stages) /\ outcome[c] = "open" /\ r \in Requests
         /\ r \in plan[c].stages[stage[c]] /\ began[c] \in 1..Now /\ pin[c] \in 1..Now
         /\ (r.does = "read") <=> (r.item \in Items)
         /\ plan[c] \in Plans /\ DOMAIN plan[c].stages = 1..Len(plan[c].stages)
         /\ \A s \in seen[c] : Goes(s) /\ s \in Replies
  <1>1. CallOK(c)
    BY DEF IInv
  <1>2. /\ asked[c] \subseteq Requests /\ plan[c] \in Plans /\ Now \in Nat /\ stage[c] \in Nat
        /\ seen[c] \subseteq Replies /\ began[c] \in Nat
    BY CallType DEF IInv
  <1>3. DOMAIN plan[c].stages = 1..Len(plan[c].stages) /\ Len(plan[c].stages) \in Nat
    BY <1>2, PlanStages
  <1>4. stage[c] \in 1..Len(plan[c].stages) /\ began[c] \in 1..Now /\ pin[c] \in 1..Now
    BY <1>1, <1>2, <1>3 DEF CallOK, BeganOK
  <1>5. outcome[c] = "open" /\ r \in plan[c].stages[stage[c]]
    BY <1>1, <1>4 DEF CallOK, StageOK
  <1>6. (r.does = "read") <=> (r.item \in Items)
    BY <1>2, <1>3, <1>4, <1>5, PlanAssumption
  <1>7. \A s \in seen[c] : Goes(s)
    BY <1>1, <1>5 DEF CallOK, PassedOK
  <1> QED BY <1>2, <1>3, <1>4, <1>5, <1>6, <1>7

LEMMA ServeInv == ASSUME NEW c \in Calls, IInv, Serve(c) PROVE IInv'
<1>1. PICK r \in asked[c] : \E v \in ServedAt(c, r) :
        /\ r.does = "read"
        /\ Reply(c, r, IF ledger[v][r.item] = Absent THEN "absent" ELSE "held", ledger[v][r.item], v)
  BY DEF Serve
<1>2. PICK v \in ServedAt(c, r) :
        /\ r.does = "read"
        /\ Reply(c, r, IF ledger[v][r.item] = Absent THEN "absent" ELSE "held", ledger[v][r.item], v)
  BY <1>1
<1> DEFINE kind == IF ledger[v][r.item] = Absent THEN "absent" ELSE "held"
           value == ledger[v][r.item]
           q == ReplyOf(c, r, kind, value, v)
<1>3. Quiet /\ posted' = posted
  BY DEF Serve, Quiet, chain
<1>4. /\ began[c] \in 1..Now /\ pin[c] \in 1..Now /\ r.item \in Items /\ r \in Requests
      /\ Now \in Nat /\ ledger \in Seq(Ledgers)
  BY <1>2, AskedFacts DEF IInv, TypeOK, Now
<1>5. v \in 1..Now /\ v \in Nat
  BY <1>4 DEF ServedAt, Requests
<1>6. value \in Nat \cup {Absent} /\ kind \in {"held", "absent", "failed"}
  BY <1>4, <1>5 DEF Ledgers, Now
<1>7. q.to = r /\ q.kind = kind /\ q.value = value /\ q.at = v
  BY DEF ReplyOf
<1>8. Fresh(c, q)
  BY <1>4, <1>5, <1>7 DEF Fresh, ServedAt
<1>9. Held(c, q) /\ (ReadLatest(q) => v = Now)
  BY <1>7, <1>8 DEF Held, ReadLatest, ServedAt
<1>10. Reply(c, r, kind, value, v)
  BY <1>2
<1> HIDE DEF kind, value
<1>11. /\ asked' \in [Calls -> SUBSET Requests] /\ replies' \in [Calls -> SUBSET Replies]
       /\ UNCHANGED <<plan, pin, began, stage, seen, outcome>> /\ \A d \in Calls : CallOK(d)'
  BY <1>2, <1>3, <1>5, <1>6, <1>9, <1>10, ReplyInv
<1> QED BY <1>3, <1>11, ReadInv

\* A reply that carries no value.
LEMMA PlainReply ==
  ASSUME IInv, Quiet, NEW c \in Calls, NEW r \in asked[c], NEW kind \in {"held", "failed"},
         Reply(c, r, kind, 0, 0), kind = "held" => r.does # "read",
         r.does = "wait" /\ kind = "held" => Confirmed(c, r.item)
  PROVE  /\ asked' \in [Calls -> SUBSET Requests] /\ replies' \in [Calls -> SUBSET Replies]
         /\ UNCHANGED <<plan, pin, began, stage, seen, outcome>>
         /\ \A d \in Calls : CallOK(d)'
  <1> DEFINE q == ReplyOf(c, r, kind, 0, 0)
  <1>1. q.to = r /\ q.kind = kind
    BY DEF ReplyOf
  <1>2. Held(c, q) /\ ~ReadLatest(q)
    BY <1>1 DEF Held, ReadLatest
  <1> QED BY <1>2, ReplyInv

LEMMA FailInv == ASSUME NEW c \in Calls, IInv, Fail(c) PROVE IInv'
<1>1. PICK r \in asked[c] : Reply(c, r, "failed", 0, 0)
  BY DEF Fail
<1>2. Quiet /\ posted' = posted
  BY DEF Fail, Quiet, chain
<1> QED BY <1>1, <1>2, PlainReply, ReadInv

LEMMA ConfirmInv == ASSUME NEW c \in Calls, IInv, Confirm(c) PROVE IInv'
<1>1. PICK r \in asked[c] : r.does = "wait" /\ Confirmed(c, r.item) /\ Reply(c, r, "held", 0, 0)
  BY DEF Confirm
<1>2. Quiet /\ posted' = posted
  BY DEF Confirm, Quiet, chain
<1> QED BY <1>1, <1>2, PlainReply, ReadInv

\* A transaction of request r of call c, and what is said of one that registers
\* or carries a number.
Truthful(c, r, p) ==
    /\ p.by = c /\ p.does = r.does
    /\ p.does = "register" => \E v \in began[c]..Now : ledger[v]["entry"] = Absent
    /\ p.does \in {"transaction", "register", "rotate"} =>
         \A n \in {p.proof, p.number} : \E v \in began[c]..Now : ledger[v]["account"] = n

\* The node takes transactions of a call that are what they should be.
LEMMA TakeInv ==
  ASSUME IInv, NEW c \in Calls, NEW r \in asked[c], r.does \notin {"read", "wait"},
         NEW transactions \in SUBSET Transactions, Take(c, r, transactions),
         \A p \in transactions : Truthful(c, r, p)
  PROVE  IInv'
  <1>1. PICK kind \in {"held", "failed"} : Reply(c, r, kind, 0, 0)
    BY DEF Take
  <1>2. Quiet /\ posted' = posted \cup transactions
    BY DEF Take, Quiet
  <1>3. /\ asked' \in [Calls -> SUBSET Requests] /\ replies' \in [Calls -> SUBSET Replies]
        /\ UNCHANGED <<plan, pin, began, stage, seen, outcome>> /\ \A d \in Calls : CallOK(d)'
    BY <1>1, <1>2, PlainReply
  <1>4. TypeOK' /\ LedgerOK'
    BY <1>2, <1>3 DEF IInv, TypeOK, LedgerOK, Quiet, Now
  <1>5. began[c] \in 1..Now
    BY AskedFacts
  <1>6. PostedOK'
    BY <1>2, <1>3, <1>5 DEF IInv, PostedOK, Quiet, Now, Truthful
  <1>7. MintSawFree'
    BY <1>2, <1>3 DEF IInv, MintSawFree, Quiet, Now, Truthful
  <1>8. NumbersFresh'
    BY <1>2, <1>3 DEF IInv, NumbersFresh, Quiet, Now, Truthful
  <1> QED BY <1>3, <1>4, <1>6, <1>7, <1>8 DEF IInv

LEMMA TakeMintInv == ASSUME NEW c \in Calls, IInv, TakeMint(c) PROVE IInv'
<1>1. PICK r \in asked[c] : /\ r.does = "mint"
                            /\ Take(c, r, {Transaction(c, h, r, 0, 0) : h \in Hashes})
  BY DEF TakeMint
<1> DEFINE T == {Transaction(c, h, r, 0, 0) : h \in Hashes}
<1>2. \A p \in T : p \in Transactions /\ p.by = c /\ p.does = r.does
  BY <1>1 DEF Transaction, Transactions
<1>3. T \in SUBSET Transactions /\ Take(c, r, T)
  BY <1>1, <1>2
<1>4. \A p \in T : Truthful(c, r, p)
  BY <1>1, <1>2 DEF Truthful
<1> HIDE DEF T
<1> QED BY <1>1, <1>3, <1>4, TakeInv

LEMMA TakeSignedInv == ASSUME NEW c \in Calls, IInv, TakeSigned(c) PROVE IInv'
<1>1. PICK r \in asked[c] : \E n \in 0..ledger[Now]["account"] :
        r.does = "signed" /\ Take(c, r, {Transaction(c, Own, r, n, n)})
  BY DEF TakeSigned
<1>2. PICK n \in 0..ledger[Now]["account"] :
        r.does = "signed" /\ Take(c, r, {Transaction(c, Own, r, n, n)})
  BY <1>1
<1>3. ledger[Now]["account"] \in Nat
  BY DEF IInv, TypeOK, LedgerOK, Now, Counters
<1>4. n \in Nat
  BY <1>3
<1> DEFINE p == Transaction(c, Own, r, n, n)
<1>5. p \in Transactions /\ p.by = c /\ p.does = r.does
  BY <1>2, <1>4, LedgerAssumption DEF Transaction, Transactions
<1> HIDE DEF p
<1>6. {p} \in SUBSET Transactions /\ \A x \in {p} : Truthful(c, r, x)
  BY <1>2, <1>5 DEF Truthful
<1>7. Take(c, r, {p})
  BY <1>2 DEF p
<1> QED BY <1>2, <1>6, <1>7, TakeInv

\* The numbers an open call has read were the account's during the call.
LEMMA NumberRead ==
  ASSUME IInv, NEW c \in Calls, NEW r \in asked[c], NEW s \in Numbers(c)
  PROVE  s.value \in Nat /\ \E v \in began[c]..Now : ledger[v]["account"] = s.value
  <1>1. CallOK(c)
    BY DEF IInv
  <1>2. s \in seen[c] /\ s.to.item = "account" /\ s \in Replies /\ Goes(s)
    BY AskedFacts DEF Numbers
  <1>3. s.stage \in 1..stage[c] /\ s.to \in plan[c].stages[s.stage]
    BY <1>1, <1>2 DEF CallOK, StageOK
  <1>4. stage[c] \in Nat /\ stage[c] <= Len(plan[c].stages) /\ Len(plan[c].stages) \in Nat
    BY <1>1, AskedFacts, PlanStages, CallType DEF IInv
  <1>5. s.stage \in DOMAIN plan[c].stages
    BY <1>3, <1>4, AskedFacts
  <1>6. s.to.from = "latest" /\ s.to.does = "read"
    BY <1>2, <1>3, <1>5, AskedFacts, PlanAssumption DEF Items
  <1>7. s.kind # "failed"
    BY <1>2, GoesKind
  <1>8. s.at \in 1..Now /\ began[c] <= s.at /\ s.value = ledger[s.at]["account"]
    BY <1>1, <1>2, <1>6, <1>7 DEF CallOK, RepliesOK, Held, Fresh
  <1>9. ledger[s.at]["account"] \in Nat /\ s.at \in began[c]..Now
    BY <1>8, AskedFacts DEF IInv, LedgerOK, Counters
  <1> QED BY <1>8, <1>9

\* The part of PlanAssumption that is about names.
LEMMA RegistersAfterLookup ==
  ASSUME NEW p \in Plans, NEW k \in DOMAIN p.stages, NEW r \in p.stages[k], r.does = "register"
  PROVE  \E j \in 1..(k - 1), q \in Requests :
           /\ p.stages[j] = {q}
           /\ q.item = "entry" /\ q.from = "latest" /\ q.held = "reject"
  <1>1. \A k1 \in DOMAIN p.stages : \A r1 \in p.stages[k1] : r1.does = "register" =>
          \E j \in 1..(k1 - 1), q \in Requests :
            /\ p.stages[j] = {q}
            /\ q.item = "entry" /\ q.from = "latest" /\ q.held = "reject"
    BY PlanAssumption, Zenon
  <1> QED BY <1>1, Zenon

\* A call about to register a name has seen it free.
LEMMA EntrySeenFree ==
  ASSUME IInv, NEW c \in Calls, NEW r \in asked[c], r.does = "register"
  PROVE  \E v \in began[c]..Now : ledger[v]["entry"] = Absent
  <1>1. CallOK(c)
    BY DEF IInv
  <1>2. /\ stage[c] \in 1..Len(plan[c].stages) /\ r \in plan[c].stages[stage[c]] /\ plan[c] \in Plans
        /\ DOMAIN plan[c].stages = 1..Len(plan[c].stages) /\ Len(plan[c].stages) \in Nat
    BY AskedFacts, PlanStages
  <1>3. PICK j \in 1..(stage[c] - 1), q \in Requests :
          /\ plan[c].stages[j] = {q}
          /\ q.item = "entry" /\ q.from = "latest" /\ q.held = "reject"
    BY <1>2, RegistersAfterLookup
  <1>4. PICK s \in seen[c] : s.stage = j /\ s.to = q /\ Goes(s)
    BY <1>1, <1>3 DEF CallOK, PassedOK, Passed
  <1>5. j \in DOMAIN plan[c].stages
    BY <1>2, <1>3
  <1>6. q.does = "read"
    BY <1>2, <1>3, <1>5, PlanAssumption DEF Items
  <1>7. s.kind = "absent"
    BY <1>3, <1>4, GoesKind, AskedFacts
  <1>8. s.at \in 1..Now /\ began[c] <= s.at /\ ledger[s.at]["entry"] = Absent
    BY <1>1, <1>3, <1>4, <1>6, <1>7 DEF CallOK, RepliesOK, Held, Fresh
  <1> QED BY <1>8, AskedFacts

LEMMA TakeBuiltInv == ASSUME NEW c \in Calls, IInv, TakeBuilt(c) PROVE IInv'
<1>1. PICK r \in asked[c] : \E s \in Numbers(c), t \in Numbers(c) :
        /\ r.does \in {"transaction", "register", "rotate"}
        /\ Take(c, r, {Transaction(c, Own, r, s.value, t.value)})
  BY DEF TakeBuilt
<1>2. PICK s \in Numbers(c), t \in Numbers(c) :
        /\ r.does \in {"transaction", "register", "rotate"}
        /\ Take(c, r, {Transaction(c, Own, r, s.value, t.value)})
  BY <1>1
<1> DEFINE p == Transaction(c, Own, r, s.value, t.value)
<1>3. s.value \in Nat /\ \E v \in began[c]..Now : ledger[v]["account"] = s.value
  BY NumberRead
<1>4. t.value \in Nat /\ \E v \in began[c]..Now : ledger[v]["account"] = t.value
  BY NumberRead
<1>5. /\ p \in Transactions /\ p.by = c /\ p.does = r.does
      /\ p.proof = s.value /\ p.number = t.value
  BY <1>2, <1>3, <1>4, LedgerAssumption DEF Transaction, Transactions
<1>6. Take(c, r, {p})
  BY <1>2
<1> HIDE DEF p
<1>7. p.does = "register" => \E v \in began[c]..Now : ledger[v]["entry"] = Absent
  BY <1>5, EntrySeenFree
<1>8. \A n \in {p.proof, p.number} : \E v \in began[c]..Now : ledger[v]["account"] = n
  BY <1>3, <1>4, <1>5
<1>9. {p} \in SUBSET Transactions
  BY <1>5
<1>10. \A x \in {p} : Truthful(c, r, x)
  BY <1>5, <1>7, <1>8 DEF Truthful
<1>11. r.does \notin {"read", "wait"}
  BY <1>2
<1> QED BY <1>6, <1>9, <1>10, <1>11, TakeInv
-----------------------------------------------------------------------------
(* The client. *)

\* A step of a client changes only what is its own.
ClientStep(c) == /\ UNCHANGED <<ledger, posted, executed, plan>>
                 /\ \A d \in Calls \ {c} : Same(d)
                 /\ began[c] # 0 => began'[c] = began[c]

LEMMA ClientInv ==
  ASSUME IInv, NEW c \in Calls, ClientStep(c), TypeOK', CallOK(c)'
  PROVE  IInv'
  <1>1. Quiet /\ posted' = posted
    BY DEF ClientStep, Quiet
  <1>2. LedgerOK'
    BY <1>1 DEF IInv, LedgerOK, Quiet, Now
  <1> QED BY <1>1, <1>2, Combine, QuietGrows DEF IInv, ClientStep

LEMMA StartInv == ASSUME NEW c \in Calls, IInv, Start(c) PROVE IInv'
<1>t. /\ plan[c] \in Plans /\ Now \in Nat /\ Now >= 1 /\ stage[c] \in Nat
      /\ pin \in [Calls -> Nat] /\ began \in [Calls -> Nat] /\ stage \in [Calls -> Nat]
      /\ asked \in [Calls -> SUBSET Requests]
  BY CallType DEF IInv, TypeOK
<1>1. PICK v \in 1..Now : pin' = [pin EXCEPT ![c] = v]
  BY DEF Start
<1>2. /\ began[c] = 0 /\ plan[c].stages # << >>
      /\ began' = [began EXCEPT ![c] = Now] /\ stage' = [stage EXCEPT ![c] = 1]
      /\ asked' = [asked EXCEPT ![c] = plan[c].stages[1]]
      /\ UNCHANGED <<ledger, posted, executed, plan, replies, seen, outcome>>
  BY DEF Start, chain
<1>3. CallOK(c)
  BY DEF IInv
<1>4. stage[c] = 0 /\ outcome[c] = "open" /\ seen[c] = {} /\ replies[c] = {}
  BY <1>2, <1>3 DEF CallOK, BeganOK
<1>5. Len(plan[c].stages) \in Nat /\ Len(plan[c].stages) >= 1 /\ plan[c].stages[1] \subseteq Requests
  BY <1>t, <1>2, PlanStages
<1>6. TypeOK'
  BY <1>t, <1>1, <1>2, <1>5 DEF IInv, TypeOK, Now
<1>7. /\ began'[c] = Now /\ stage'[c] = 1 /\ pin'[c] = v /\ asked'[c] = plan[c].stages[1]
      /\ plan'[c] = plan[c] /\ seen'[c] = {} /\ replies'[c] = {} /\ outcome'[c] = "open" /\ Now' = Now
  BY <1>t, <1>1, <1>2, <1>4 DEF Now
<1>8. BeganOK(c)'
  BY <1>t, <1>1, <1>5, <1>7 DEF BeganOK
<1>9. StageOK(c)' /\ PassedOK(c)' /\ RepliesOK(c)' /\ OrderOK(c)' /\ OnceOK(c)'
  BY <1>7 DEF StageOK, PassedOK, RepliesOK, OrderOK, OnceOK
<1>10. ClientStep(c)
  BY <1>t, <1>1, <1>2 DEF ClientStep, Same
<1> QED BY <1>6, <1>8, <1>9, <1>10, ClientInv DEF CallOK

LEMMA RefuseInv == ASSUME NEW c \in Calls, IInv, Refuse(c) PROVE IInv'
<1> DEFINE o == IF plan[c].invalid = "empty" THEN "invalid" ELSE "rejected"
<1>1. /\ began[c] = 0 /\ began' = [began EXCEPT ![c] = Now]
      /\ outcome' = [outcome EXCEPT ![c] = o]
      /\ UNCHANGED <<ledger, posted, executed, plan, pin, stage, asked, replies, seen>>
  BY DEF Refuse, chain
<1>2. o \in {"invalid", "rejected"}
  OBVIOUS
<1> HIDE DEF o
<1>t. /\ plan[c] \in Plans /\ Now \in Nat /\ Now >= 1 /\ began \in [Calls -> Nat]
      /\ outcome \in [Calls -> Outcomes]
  BY CallType DEF IInv, TypeOK
<1>3. CallOK(c)
  BY DEF IInv
<1>4. stage[c] = 0 /\ seen[c] = {} /\ replies[c] = {} /\ asked[c] = {}
  BY <1>1, <1>3 DEF CallOK, BeganOK
<1>5. Len(plan[c].stages) \in Nat
  BY <1>t, PlanStages
<1>6. TypeOK'
  BY <1>t, <1>1, <1>2 DEF IInv, TypeOK, Now, Outcomes
<1>7. /\ began'[c] = Now /\ stage'[c] = 0 /\ asked'[c] = {} /\ plan'[c] = plan[c]
      /\ seen'[c] = {} /\ replies'[c] = {} /\ outcome'[c] = o /\ Now' = Now
  BY <1>t, <1>1, <1>4 DEF Now
<1>8. BeganOK(c)'
  BY <1>t, <1>2, <1>5, <1>7 DEF BeganOK
<1>9. StageOK(c)' /\ PassedOK(c)' /\ RepliesOK(c)' /\ OrderOK(c)' /\ OnceOK(c)'
  BY <1>2, <1>7 DEF StageOK, PassedOK, RepliesOK, OrderOK, OnceOK
<1>10. ClientStep(c)
  BY <1>t, <1>1 DEF ClientStep, Same
<1> QED BY <1>6, <1>8, <1>9, <1>10, ClientInv DEF CallOK
\* What is known of the reply a call deals with.
LEMMA ReplyFacts ==
  ASSUME IInv, NEW c \in Calls, outcome[c] = "open", NEW s \in replies[c]
  PROVE  /\ s \in Replies /\ s.stage = stage[c] /\ s.to \in plan[c].stages[stage[c]] /\ Held(c, s)
         /\ stage[c] \in 1..Len(plan[c].stages) /\ Len(plan[c].stages) \in Nat
         /\ s.kind = "absent" => s.to.does = "read"
         /\ s.to.does = "wait" /\ s.kind = "held" => Confirmed(c, s.to.item)
         /\ \A q \in seen[c] : Goes(q)
  <1>1. CallOK(c) /\ replies[c] \subseteq Replies /\ plan[c] \in Plans /\ stage[c] \in Nat
    BY CallType DEF IInv
  <1>2. Len(plan[c].stages) \in Nat
    BY <1>1, PlanStages
  <1>3. stage[c] \in 1..Len(plan[c].stages)
    BY <1>1, <1>2 DEF CallOK, BeganOK
  <1> QED BY <1>1, <1>2, <1>3 DEF CallOK, StageOK, PassedOK, RepliesOK

\* A reply that has been dealt with keeps what is said of all of them.
LEMMA SeenInv ==
  ASSUME IInv, NEW c \in Calls, outcome[c] = "open", NEW s \in replies[c],
         UNCHANGED <<ledger, posted, executed, plan, pin, began>>,
         seen' = [seen EXCEPT ![c] = @ \cup {s}], replies'[c] \subseteq replies[c] \ {s}
  PROVE  /\ seen'[c] = seen[c] \cup {s} /\ seen' \in [Calls -> SUBSET Replies]
         /\ \A q \in replies'[c] \cup seen'[c] :
              /\ Held(c, q)' /\ (q.kind = "absent" => q.to.does = "read")
              /\ (q.to.does = "wait" /\ q.kind = "held" => Confirmed(c, q.to.item)')
         /\ OrderOK(c)'
         /\ \A q \in replies'[c] \cup seen'[c], t \in replies'[c] \cup seen'[c] :
              q.stage = t.stage /\ q.to = t.to => q = t
         /\ \A k \in Nat : \A r \in Requests : Passed(c, k, r) => Passed(c, k, r)'
  <1>1. CallOK(c) /\ s \in Replies /\ s.stage = stage[c] /\ stage[c] \in Nat
    BY ReplyFacts, CallType DEF IInv
  <1>2. seen'[c] = seen[c] \cup {s} /\ seen' \in [Calls -> SUBSET Replies]
    BY <1>1 DEF IInv, TypeOK
  <1>3. \A q \in replies'[c] \cup seen'[c] : q \in replies[c] \cup seen[c]
    BY <1>2
  <1>4. \A q \in replies[c] \cup seen[c] :
          /\ Held(c, q) /\ (q.kind = "absent" => q.to.does = "read")
          /\ (q.to.does = "wait" /\ q.kind = "held" => Confirmed(c, q.to.item))
    BY <1>1 DEF CallOK, RepliesOK
  <1>5. \A q : Held(c, q) => Held(c, q)'
    BY DEF Held, Fresh, Now
  <1>6. \A h : Confirmed(c, h) => Confirmed(c, h)'
    BY DEF Confirmed
  <1>7. OrderOK(c)'
    <2>1. \A t \in replies[c] \cup seen[c] : ~(s.stage < t.stage)
      BY <1>1 DEF CallOK, StageOK
    <2>2. \A q \in seen'[c], t \in replies'[c] \cup seen'[c] : q.stage < t.stage => q \in seen[c]
      BY <2>1, <1>2, <1>3
    <2> QED BY <2>2, <1>1, <1>3 DEF CallOK, OrderOK
  <1>8. \A q \in replies[c] \cup seen[c], t \in replies[c] \cup seen[c] :
          q.stage = t.stage /\ q.to = t.to => q = t
    BY <1>1 DEF CallOK, OnceOK
  <1>9. \A k \in Nat : \A r \in Requests : Passed(c, k, r) => Passed(c, k, r)'
    BY <1>2 DEF Passed
  <1> QED BY <1>2, <1>3, <1>4, <1>5, <1>6, <1>7, <1>8, <1>9

\* The call ends with the reply s.
LEMMA SettleInv ==
  ASSUME IInv, NEW c \in Calls, outcome[c] = "open", NEW s \in replies[c],
         UNCHANGED <<ledger, posted, executed, plan, pin, began>>,
         seen' = [seen EXCEPT ![c] = @ \cup {s}],
         \/ ~Goes(s) /\ Settle(c, End(s))
         \/ Goes(s) /\ StageSettled(c, s) /\ stage[c] = Len(plan[c].stages) /\ Settle(c, "value")
  PROVE  IInv'
  <1> DEFINE o == IF Goes(s) THEN "value" ELSE End(s)
  <1>1. /\ outcome' = [outcome EXCEPT ![c] = o]
        /\ asked' = [asked EXCEPT ![c] = {}] /\ replies' = [replies EXCEPT ![c] = {}]
        /\ stage' = stage
    BY DEF Settle
  <1>2. o \in {"value", "empty", "error", "rejected"}
    BY DEF End
  <1>3. Goes(s) => o = "value" /\ StageSettled(c, s) /\ stage[c] = Len(plan[c].stages)
    OBVIOUS
  <1>4. ~Goes(s) => o = End(s) /\ o # "value"
    BY DEF End
  <1> HIDE DEF o
  <1>5. CallOK(c) /\ TypeOK
    BY DEF IInv
  <1>6. /\ s \in Replies /\ s.stage = stage[c] /\ s.to \in plan[c].stages[stage[c]]
        /\ stage[c] \in 1..Len(plan[c].stages) /\ Len(plan[c].stages) \in Nat
        /\ \A q \in seen[c] : Goes(q)
    BY ReplyFacts
  <1>7. replies'[c] = {} /\ asked'[c] = {} /\ outcome'[c] = o /\ stage'[c] = stage[c]
    BY <1>1, <1>5 DEF TypeOK
  <1>8. /\ seen'[c] = seen[c] \cup {s} /\ seen' \in [Calls -> SUBSET Replies]
        /\ \A q \in replies'[c] \cup seen'[c] :
             /\ Held(c, q)' /\ (q.kind = "absent" => q.to.does = "read")
             /\ (q.to.does = "wait" /\ q.kind = "held" => Confirmed(c, q.to.item)')
        /\ OrderOK(c)'
        /\ \A q \in replies'[c] \cup seen'[c], t \in replies'[c] \cup seen'[c] :
             q.stage = t.stage /\ q.to = t.to => q = t
        /\ \A k \in Nat : \A r \in Requests : Passed(c, k, r) => Passed(c, k, r)'
    BY <1>7, SeenInv
  <1>9. TypeOK'
    BY <1>1, <1>2, <1>5, <1>8 DEF TypeOK, Now, Outcomes
  <1>10. BeganOK(c)'
    BY <1>5, <1>6, <1>7 DEF CallOK, BeganOK, Now
  <1>11. StageOK(c)'
    BY <1>5, <1>6, <1>7, <1>8 DEF CallOK, StageOK
  <1>12. PassedOK(c)'
    <2>1. \A k \in 1..(stage[c] - 1) : \A r \in plan[c].stages[k] : Passed(c, k, r)'
      BY <1>5, <1>8 DEF CallOK, PassedOK, Passed
    <2>2. \A q \in seen'[c] : q.stage < stage[c] => Goes(q)
      BY <1>6, <1>8
    <2> QED BY <2>1, <2>2, <1>2, <1>7 DEF PassedOK
  <1>13. RepliesOK(c)'
    <2>1. CASE Goes(s)
      <3>1. o = "value" /\ stage[c] = Len(plan[c].stages) /\ asked[c] = {} /\ replies[c] = {s}
        BY <2>1, <1>3 DEF StageSettled
      <3>2. \A q \in seen'[c] : Goes(q)
        BY <2>1, <1>6, <1>8
      <3>3. Passed(c, stage[c], s.to)'
        BY <2>1, <1>6, <1>7, <1>8 DEF Passed
      <3>4. \A r \in plan[c].stages[stage[c]] : Passed(c, stage[c], r)'
        BY <3>1, <3>3, <1>5, <1>6, <1>7, <1>8 DEF CallOK, PassedOK, Passed
      <3> QED BY <3>1, <3>2, <3>4, <1>7, <1>8 DEF RepliesOK
    <2>2. CASE ~Goes(s)
      <3>0. /\ s.kind \in {"held", "absent", "failed"} /\ s.to.held \in {"next", "reject"}
            /\ s.to.absent \in {"reject", "empty", "next"} /\ s.to.failed \in {"reject", "return", "empty"}
        BY <1>6 DEF Replies, Requests
      <3>k. /\ s.kind = "held" => Then(s) = s.to.held
            /\ s.kind = "absent" => Then(s) = s.to.absent
            /\ s.kind = "failed" => Then(s) = s.to.failed
        BY DEF Then
      <3>e. /\ End(s) = "empty" => Then(s) = "empty"
            /\ End(s) = "error" => Then(s) = "return"
        BY DEF End
      <3>1. o = "empty" => Then(s) = "empty"
        BY <2>2, <1>4, <3>0, <3>k, <3>e
      <3>2. o = "error" => s.kind = "failed" /\ s.to.failed = "return"
        BY <2>2, <1>4, <3>0, <3>k, <3>e
      <3>3. \A q \in seen'[c] : Goes(q) \/ q = s
        BY <1>6, <1>8
      <3> QED BY <3>1, <3>2, <3>3, <2>2, <1>4, <1>6, <1>7, <1>8 DEF RepliesOK
    <2> QED BY <2>1, <2>2
  <1>14. OnceOK(c)'
    BY <1>7, <1>8 DEF OnceOK
  <1>15. ClientStep(c)
    BY <1>1, <1>5 DEF ClientStep, Same, TypeOK
  <1> QED BY <1>8, <1>9, <1>10, <1>11, <1>12, <1>13, <1>14, <1>15, ClientInv DEF CallOK

\* The call waits for the other replies of its stage.
LEMMA WaitOthersInv ==
  ASSUME IInv, NEW c \in Calls, outcome[c] = "open", NEW s \in replies[c],
         UNCHANGED <<ledger, posted, executed, plan, pin, began, asked, stage, outcome>>,
         seen' = [seen EXCEPT ![c] = @ \cup {s}], Goes(s),
         replies' = [replies EXCEPT ![c] = @ \ {s}]
  PROVE  IInv'
  <1>1. CallOK(c) /\ TypeOK
    BY DEF IInv
  <1>2. /\ s \in Replies /\ s.stage = stage[c] /\ s.to \in plan[c].stages[stage[c]]
        /\ stage[c] \in 1..Len(plan[c].stages) /\ Len(plan[c].stages) \in Nat
        /\ \A q \in seen[c] : Goes(q)
    BY ReplyFacts
  <1>3. replies'[c] = replies[c] \ {s} /\ replies' \in [Calls -> SUBSET Replies]
    BY <1>1 DEF TypeOK
  <1>4. /\ seen'[c] = seen[c] \cup {s} /\ seen' \in [Calls -> SUBSET Replies]
        /\ \A q \in replies'[c] \cup seen'[c] :
             /\ Held(c, q)' /\ (q.kind = "absent" => q.to.does = "read")
             /\ (q.to.does = "wait" /\ q.kind = "held" => Confirmed(c, q.to.item)')
        /\ OrderOK(c)'
        /\ \A q \in replies'[c] \cup seen'[c], t \in replies'[c] \cup seen'[c] :
             q.stage = t.stage /\ q.to = t.to => q = t
        /\ \A k \in Nat : \A r \in Requests : Passed(c, k, r) => Passed(c, k, r)'
    BY <1>3, SeenInv
  <1>5. TypeOK'
    BY <1>1, <1>3, <1>4 DEF TypeOK, Now
  <1>6. BeganOK(c)'
    BY <1>1, <1>2 DEF CallOK, BeganOK, Now
  <1>7. StageOK(c)'
    BY <1>1, <1>2, <1>3, <1>4 DEF CallOK, StageOK
  <1>8. PassedOK(c)'
    <2>1. \A k \in 1..(stage[c] - 1) : \A r \in plan[c].stages[k] : Passed(c, k, r)'
      BY <1>1, <1>4 DEF CallOK, PassedOK, Passed
    <2>2. \A q \in seen'[c] : Goes(q)
      BY <1>2, <1>4
    <2>3. Passed(c, stage[c], s.to)'
      BY <1>2, <1>4 DEF Passed
    <2>4. \A r \in plan[c].stages[stage[c]] :
            r \in asked[c] \/ (\E q \in replies'[c] : q.to = r) \/ Passed(c, stage[c], r)'
      BY <2>3, <1>1, <1>2, <1>3, <1>4 DEF CallOK, PassedOK, Passed
    <2> QED BY <2>1, <2>2, <2>4 DEF PassedOK
  <1>9. RepliesOK(c)'
    BY <1>4 DEF RepliesOK
  <1>10. OnceOK(c)'
    BY <1>1, <1>3, <1>4 DEF CallOK, OnceOK
  <1>11. ClientStep(c)
    BY <1>1 DEF ClientStep, Same, TypeOK
  <1> QED BY <1>4, <1>5, <1>6, <1>7, <1>8, <1>9, <1>10, <1>11, ClientInv DEF CallOK

\* The call takes its next stage.
LEMMA NextStageInv ==
  ASSUME IInv, NEW c \in Calls, outcome[c] = "open", NEW s \in replies[c],
         UNCHANGED <<ledger, posted, executed, plan, pin, began, outcome>>,
         seen' = [seen EXCEPT ![c] = @ \cup {s}], Goes(s), StageSettled(c, s),
         stage[c] < Len(plan[c].stages),
         stage' = [stage EXCEPT ![c] = @ + 1],
         asked' = [asked EXCEPT ![c] = plan[c].stages[stage[c] + 1]],
         replies' = [replies EXCEPT ![c] = {}]
  PROVE  IInv'
  <1>1. CallOK(c) /\ TypeOK /\ plan[c] \in Plans
    BY CallType DEF IInv
  <1>2. /\ s \in Replies /\ s.stage = stage[c] /\ s.to \in plan[c].stages[stage[c]]
        /\ stage[c] \in 1..Len(plan[c].stages) /\ Len(plan[c].stages) \in Nat
        /\ \A q \in seen[c] : Goes(q)
    BY ReplyFacts
  <1>3. plan[c].stages[stage[c] + 1] \subseteq Requests
    BY <1>1, <1>2, PlanStages
  <1>4. /\ replies'[c] = {} /\ replies' \in [Calls -> SUBSET Replies]
        /\ stage'[c] = stage[c] + 1 /\ stage' \in [Calls -> Nat]
        /\ asked'[c] = plan[c].stages[stage[c] + 1] /\ asked' \in [Calls -> SUBSET Requests]
    BY <1>1, <1>2, <1>3 DEF TypeOK
  <1>5. /\ seen'[c] = seen[c] \cup {s} /\ seen' \in [Calls -> SUBSET Replies]
        /\ \A q \in replies'[c] \cup seen'[c] :
             /\ Held(c, q)' /\ (q.kind = "absent" => q.to.does = "read")
             /\ (q.to.does = "wait" /\ q.kind = "held" => Confirmed(c, q.to.item)')
        /\ OrderOK(c)'
        /\ \A q \in replies'[c] \cup seen'[c], t \in replies'[c] \cup seen'[c] :
             q.stage = t.stage /\ q.to = t.to => q = t
        /\ \A k \in Nat : \A r \in Requests : Passed(c, k, r) => Passed(c, k, r)'
    BY <1>4, SeenInv
  <1>6. TypeOK'
    BY <1>1, <1>4, <1>5 DEF TypeOK, Now
  <1>7. BeganOK(c)'
    BY <1>1, <1>2, <1>4 DEF CallOK, BeganOK, Now
  <1>8. \A q \in seen'[c] : q.stage \in 1..stage[c] /\ q.to \in plan[c].stages[q.stage] /\ Goes(q)
    BY <1>1, <1>2, <1>5 DEF CallOK, StageOK
  <1>9. StageOK(c)'
    BY <1>1, <1>2, <1>4, <1>8 DEF CallOK, StageOK
  <1>10. PassedOK(c)'
    <2>1. \A k \in {stage[c]} : Passed(c, k, s.to)'
      BY <1>2, <1>5 DEF Passed
    <2>2. asked[c] = {} /\ replies[c] = {s}
      BY DEF StageSettled
    <2>3. \A k \in {stage[c]} : \A r \in plan[c].stages[k] : Passed(c, k, r)'
      BY <2>1, <2>2, <1>1, <1>2, <1>5 DEF CallOK, PassedOK, Passed
    <2>4. \A k \in 1..(stage[c] - 1) : \A r \in plan[c].stages[k] : Passed(c, k, r)'
      BY <1>1, <1>5 DEF CallOK, PassedOK, Passed
    <2>5. \A k \in 1..stage[c] : k = stage[c] \/ k \in 1..(stage[c] - 1)
      BY <1>2
    <2>6. \A k \in 1..(stage'[c] - 1) : \A r \in plan[c].stages[k] : Passed(c, k, r)'
      BY <2>3, <2>4, <2>5, <1>2, <1>4
    <2> QED BY <2>6, <1>4, <1>8 DEF PassedOK
  <1>11. RepliesOK(c)'
    BY <1>5 DEF RepliesOK
  <1>12. OnceOK(c)'
    BY <1>2, <1>4, <1>5, <1>8 DEF OnceOK
  <1>13. ClientStep(c)
    BY <1>1 DEF ClientStep, Same, TypeOK
  <1> QED BY <1>5, <1>6, <1>7, <1>9, <1>10, <1>11, <1>12, <1>13, ClientInv DEF CallOK

LEMMA ReceiveInv == ASSUME NEW c \in Calls, IInv, Receive(c) PROVE IInv'
<1>1. PICK s \in replies[c] :
         /\ seen' = [seen EXCEPT ![c] = @ \cup {s}]
         /\ \/ ~Goes(s) /\ Settle(c, End(s))
            \/ /\ Goes(s) /\ ~StageSettled(c, s)
               /\ replies' = [replies EXCEPT ![c] = @ \ {s}]
               /\ UNCHANGED <<asked, stage, outcome>>
            \/ /\ Goes(s) /\ StageSettled(c, s) /\ stage[c] = Len(plan[c].stages)
               /\ Settle(c, "value")
            \/ /\ Goes(s) /\ StageSettled(c, s) /\ stage[c] < Len(plan[c].stages)
               /\ stage' = [stage EXCEPT ![c] = @ + 1]
               /\ asked' = [asked EXCEPT ![c] = plan[c].stages[stage[c] + 1]]
               /\ replies' = [replies EXCEPT ![c] = {}]
               /\ UNCHANGED outcome
  BY DEF Receive
<1>2. outcome[c] = "open" /\ UNCHANGED <<ledger, posted, executed, plan, pin, began>>
  BY DEF Receive, chain
<1>s. seen' = [seen EXCEPT ![c] = @ \cup {s}]
  BY <1>1
<1>3. CASE \/ ~Goes(s) /\ Settle(c, End(s))
           \/ Goes(s) /\ StageSettled(c, s) /\ stage[c] = Len(plan[c].stages) /\ Settle(c, "value")
  BY <1>s, <1>2, <1>3, SettleInv
<1>4. CASE /\ Goes(s) /\ ~StageSettled(c, s)
           /\ replies' = [replies EXCEPT ![c] = @ \ {s}]
           /\ UNCHANGED <<asked, stage, outcome>>
  BY <1>s, <1>2, <1>4, WaitOthersInv
<1>5. CASE /\ Goes(s) /\ StageSettled(c, s) /\ stage[c] < Len(plan[c].stages)
           /\ stage' = [stage EXCEPT ![c] = @ + 1]
           /\ asked' = [asked EXCEPT ![c] = plan[c].stages[stage[c] + 1]]
           /\ replies' = [replies EXCEPT ![c] = {}]
           /\ UNCHANGED outcome
  BY <1>s, <1>2, <1>5, NextStageInv
<1> QED BY <1>1, <1>3, <1>4, <1>5
-----------------------------------------------------------------------------
(* Every step. *)

LEMMA StutterInv == IInv /\ UNCHANGED vars => IInv'
<1> SUFFICES ASSUME IInv, UNCHANGED vars PROVE IInv'
  OBVIOUS
<1>1. TypeOK' /\ LedgerOK' /\ posted' = posted /\ Quiet
  BY DEF vars, IInv, TypeOK, LedgerOK, Now, Quiet
<1>2. \A c \in Calls : Same(c) /\ CallOK(c)
  BY DEF vars, Same, IInv
<1>3. \A c \in Calls : CallOK(c)'
  BY <1>1, <1>2, FrameCall, QuietGrows DEF IInv
<1>4. PostedInv'
  BY <1>1, <1>2, FramePosted, QuietGrows DEF IInv, PostedInv, Same
<1> QED BY <1>1, <1>3, <1>4 DEF IInv, PostedInv

LEMMA NextInv == IInv /\ [Next]_vars => IInv'
<1> SUFFICES ASSUME IInv, [Next]_vars PROVE IInv'
  OBVIOUS
<1>1. ASSUME NEW c \in Calls, Start(c) PROVE IInv'
  BY <1>1, StartInv
<1>2. ASSUME NEW c \in Calls, Refuse(c) PROVE IInv'
  BY <1>2, RefuseInv
<1>3. ASSUME NEW c \in Calls, Receive(c) PROVE IInv'
  BY <1>3, ReceiveInv
<1>4. ASSUME NEW c \in Calls, Service(c) PROVE IInv'
  BY <1>4, ServeInv, FailInv, ConfirmInv, TakeMintInv, TakeSignedInv, TakeBuiltInv DEF Service
<1> QED BY <1>1, <1>2, <1>3, <1>4, ChangeInv, ExecuteInv, StutterInv DEF Next

\* The invariant of the run: types, a ledger whose stores stay, and what each
\* call knows of its stage, its replies and its end.
THEOREM Invariance == Spec => []IInv
<1>1. Init => IInv
  BY InitInv
<1>2. IInv /\ [Next]_vars => IInv'
  BY NextInv
<1> QED BY <1>1, <1>2, PTL DEF Spec
\* A call that resolved passed every request of its plan.
LEMMA AllPassed ==
  ASSUME IInv, NEW c \in Calls, outcome[c] = "value",
         NEW k \in DOMAIN plan[c].stages, NEW r \in plan[c].stages[k]
  PROVE  Passed(c, k, r)
  <1>1. CallOK(c) /\ plan[c] \in Plans
    BY CallType DEF IInv
  <1>2. k \in 1..Len(plan[c].stages) /\ Len(plan[c].stages) \in Nat
    BY <1>1, PlanStages
  <1>3. stage[c] = Len(plan[c].stages) /\ \A q \in plan[c].stages[stage[c]] : Passed(c, stage[c], q)
    BY <1>1 DEF CallOK, RepliesOK
  <1>4. CASE k = stage[c]
    BY <1>3, <1>4
  <1>5. CASE k # stage[c]
    BY <1>1, <1>2, <1>3, <1>5 DEF CallOK, PassedOK
  <1> QED BY <1>4, <1>5

\* A call that gives nothing was told that what it asked for is missing.
LEMMA NothingMissed ==
  ASSUME IInv, TellsFailures, NEW c \in Calls, outcome[c] = "empty"
  PROVE  \E s \in seen[c] : s.stage = stage[c] /\ s.kind = "absent" /\ s.to.absent = "empty"
  <1>1. /\ CallOK(c) /\ plan[c] \in Plans /\ stage[c] \in Nat /\ seen[c] \subseteq Replies
    BY CallType DEF IInv
  <1>2. PICK s \in seen[c] : s.stage = stage[c] /\ Then(s) = "empty"
    BY <1>1 DEF CallOK, RepliesOK
  <1>3. s.stage \in DOMAIN plan[c].stages /\ s.to \in plan[c].stages[s.stage]
    BY <1>1, <1>2, PlanStages DEF CallOK, StageOK, BeganOK
  <1>4. s.to.failed # "empty"
    BY <1>1, <1>3 DEF TellsFailures, RequestsOf
  <1>5. s.kind \in {"held", "absent", "failed"} /\ s.to.held \in {"next", "reject"}
    BY <1>1, <1>2 DEF Replies, Requests
  <1> QED BY <1>2, <1>4, <1>5 DEF Then

\* The values a lookup in two steps puts together were there together: the
\* handle it found first is still the store's when it has the item.
LEMMA OneMoment ==
  ASSUME IInv, TellsFailures, NEW c \in Calls, outcome[c] \in {"value", "empty"}, Composed(plan[c])
  PROVE  \E v \in began[c]..Now : \A s \in seen[c] : ledger[v][s.to.item] = s.value
  <1>1. /\ CallOK(c) /\ plan[c] \in Plans /\ Now \in Nat /\ stage[c] \in Nat /\ began[c] \in Nat
        /\ seen[c] \subseteq Replies
    BY CallType DEF IInv
  <1>2. /\ DOMAIN plan[c].stages = 1..Len(plan[c].stages) /\ Len(plan[c].stages) \in Nat
    BY <1>1, PlanStages
  <1>3. stage[c] # 0
    BY <1>1 DEF CallOK, BeganOK
  <1>4. stage[c] \in DOMAIN plan[c].stages
    BY <1>1, <1>2, <1>3 DEF CallOK, BeganOK
  <1>5. PICK e \in seen[c] : e.stage = stage[c] /\ e.kind \in {"held", "absent"}
    <2>1. CASE outcome[c] = "value"
      <3>1. PICK r \in plan[c].stages[stage[c]] : TRUE
        BY <1>1, <1>4, PlanAssumption
      <3>2. Passed(c, stage[c], r)
        BY <2>1, <1>4, AllPassed
      <3> QED BY <3>2, <1>1, GoesKind DEF Passed
    <2>2. CASE outcome[c] = "empty"
      BY <2>2, NothingMissed
    <2> QED BY <2>1, <2>2
  <1>6. ASSUME NEW s \in seen[c]
        PROVE  /\ s.stage \in 1..stage[c] /\ plan[c].stages[s.stage] = {s.to}
               /\ s.to.does = "read" /\ s.to.from = "latest" /\ s.to \in Requests
               /\ s.stage < stage[c] => s.to.item = "store" /\ s.kind = "held"
    <2>1. s.stage \in 1..stage[c] /\ s.to \in plan[c].stages[s.stage]
      BY <1>1 DEF CallOK, StageOK
    <2>2. s.stage \in DOMAIN plan[c].stages /\ stage[c] <= Len(plan[c].stages)
      BY <1>1, <1>2, <1>4, <2>1
    <2>3. PICK r \in Requests : /\ plan[c].stages[s.stage] = {r} /\ r.does = "read" /\ r.from = "latest"
                                /\ s.stage < Len(plan[c].stages) =>
                                     r.item = "store" /\ r.absent = "reject" /\ r.failed = "reject"
      BY <2>2 DEF Composed
    <2>4. s.to = r
      BY <2>1, <2>3
    <2>5. s.stage < stage[c] => Goes(s) /\ s.stage < Len(plan[c].stages)
      BY <1>1, <1>2, <2>1, <2>2 DEF CallOK, PassedOK
    <2>6. s.stage < stage[c] => s.kind = "held"
      BY <1>1, <2>3, <2>4, <2>5, GoesKind
    <2> QED BY <2>1, <2>3, <2>4, <2>5, <2>6
  <1>7. ASSUME NEW s \in seen[c], s.kind # "failed"
        PROVE  /\ s.at \in 1..Now /\ began[c] <= s.at /\ s.value = ledger[s.at][s.to.item]
               /\ (s.kind = "absent") <=> (s.value = Absent)
    BY <1>1, <1>6, <1>7 DEF CallOK, RepliesOK, Held, Fresh
  <1>8. e.at \in began[c]..Now /\ e.at \in 1..Now
    BY <1>1, <1>5, <1>7
  <1>9. ASSUME NEW s \in seen[c] PROVE ledger[e.at][s.to.item] = s.value
    <2>1. CASE s.stage = stage[c]
      <3>1. s.to = e.to
        BY <2>1, <1>5, <1>6
      <3>2. s = e
        BY <3>1, <2>1, <1>1, <1>5 DEF CallOK, OnceOK
      <3> QED BY <3>2, <1>5, <1>7
    <2>2. CASE s.stage # stage[c]
      <3>1. s.stage < stage[c]
        BY <2>2, <1>1, <1>6
      <3>2. s.to.item = "store" /\ s.kind = "held"
        BY <3>1, <1>6
      <3>3. s.at \in 1..Now /\ s.value = ledger[s.at]["store"] /\ s.value # Absent
        BY <3>2, <1>7
      <3>4. s.at <= e.at
        BY <3>1, <3>2, <1>1, <1>5, <1>6 DEF CallOK, OrderOK, ReadLatest
      <3>5. e.at \in s.at..Now
        BY <3>3, <3>4, <1>1, <1>8
      <3> QED BY <3>2, <3>3, <3>5 DEF IInv, LedgerOK
    <2> QED BY <2>1, <2>2
  <1> QED BY <1>8, <1>9

\* What a call resolves with was in the ledger during the call, and what a
\* lookup in two steps puts together was there together (AnsClient, getTableItem),
\* if no plan takes a failed request for a missing thing.
THEOREM Answers == TellsFailures => (Spec => []AnswersHeld)
<1> SUFFICES ASSUME TellsFailures PROVE Spec => []AnswersHeld
  OBVIOUS
<1>1. IInv => AnswersHeld
  <2> SUFFICES ASSUME IInv, NEW c \in Calls, outcome[c] \in {"value", "empty"}
               PROVE  /\ \A s \in seen[c] : Held(c, s)
                      /\ Composed(plan[c]) => \E v \in began[c]..Now : \A s \in seen[c] :
                           ledger[v][s.to.item] = s.value
    BY DEF AnswersHeld
  <2>1. \A s \in seen[c] : Held(c, s)
    BY DEF IInv, CallOK, RepliesOK
  <2> QED BY <2>1, OneMoment
<1> QED BY <1>1, Invariance, PTL

\* A call resolves with nothing only when what it asked for was missing
\* (getAddressByName, getTokenForAccount), if no plan takes a failed request for
\* a missing thing.
THEOREM Missing == TellsFailures => (Spec => []NothingMeansMissing)
<1> SUFFICES ASSUME TellsFailures PROVE Spec => []NothingMeansMissing
  OBVIOUS
<1>1. ASSUME IInv, NEW c \in Calls, outcome[c] = "empty"
      PROVE  \E s \in seen[c] : /\ s.to.absent = "empty" /\ Fresh(c, s)
                                /\ ledger[s.at][s.to.item] = Absent
  <2>1. CallOK(c)
    BY <1>1 DEF IInv
  <2>2. PICK s \in seen[c] : s.kind = "absent" /\ s.to.absent = "empty"
    BY <1>1, NothingMissed
  <2>3. s.to.does = "read" /\ Held(c, s)
    BY <2>1, <2>2 DEF CallOK, RepliesOK
  <2> QED BY <2>2, <2>3 DEF Held
<1>2. IInv => NothingMeansMissing
  BY <1>1 DEF NothingMeansMissing
<1> QED BY <1>2, Invariance, PTL

\* A deposit begun after a transaction of its account was mined on L1 takes a
\* later nonce than that one (rollup.ts), if the nonces are asked for at the
\* latest block.
THEOREM NonceOrder == AsksLatestNonce => (Spec => []NoncesApart)
<1> SUFFICES ASSUME AsksLatestNonce PROVE Spec => []NoncesApart
  OBVIOUS
<1>1. ASSUME IInv, NEW c \in Calls, NEW t \in Nonces(c)
      PROVE  /\ t.at \in 1..Now /\ t.value = ledger[t.at]["nonce"] /\ t.value \in Nat
             /\ began[c] <= t.at /\ began[c] \in Nat
  <2>1. /\ CallOK(c) /\ plan[c] \in Plans /\ stage[c] \in Nat /\ began[c] \in Nat
        /\ seen[c] \subseteq Replies
    BY <1>1, CallType DEF IInv
  <2>2. t \in seen[c] /\ t.to.item = "nonce" /\ t.kind = "held"
    BY <1>1 DEF Nonces
  <2>3. t.stage \in DOMAIN plan[c].stages /\ t.to \in plan[c].stages[t.stage]
    BY <2>1, <2>2, PlanStages DEF CallOK, StageOK, BeganOK
  <2>4. t.to.does = "read"
    BY <2>1, <2>2, <2>3, PlanAssumption DEF Items
  <2>5. t.to.from = "latest"
    BY <1>1, <2>1, <2>2, <2>3 DEF AsksLatestNonce, RequestsOf
  <2>6. t.at \in 1..Now /\ began[c] <= t.at /\ t.value = ledger[t.at]["nonce"]
    BY <2>1, <2>2, <2>4, <2>5 DEF CallOK, RepliesOK, Held, Fresh
  <2> QED BY <1>1, <2>1, <2>6 DEF IInv, LedgerOK, Counters
<1>2. ASSUME IInv, NEW c \in Calls, NEW d \in Calls,
             NEW s \in Nonces(c), NEW t \in Nonces(d),
             NEW v \in 1..began[d], ledger[v]["nonce"] > s.value
      PROVE  t.value > s.value
  <2>1. /\ t.at \in 1..Now /\ t.value = ledger[t.at]["nonce"] /\ t.value \in Nat
        /\ began[d] <= t.at /\ began[d] \in Nat /\ s.value \in Nat
    BY <1>1, <1>2
  <2>2. v \in 1..Now /\ t.at \in v..Now
    BY <1>2, <2>1, CallType DEF IInv
  <2>3. ledger[v]["nonce"] \in Nat /\ ledger[v]["nonce"] <= ledger[t.at]["nonce"]
    BY <1>2, <2>2 DEF IInv, LedgerOK, Counters
  <2> QED BY <1>2, <2>1, <2>3
<1>3. IInv => NoncesApart
  BY <1>2 DEF NoncesApart
<1> QED BY <1>3, Invariance, PTL

\* A name is registered only by a call during which it was free (mintMoveupName).
THEOREM MintFree == Spec => []MintSawFree
<1>1. IInv => MintSawFree
  BY DEF IInv
<1> QED BY <1>1, Invariance, PTL

\* The sequence numbers a method puts into what it posts were the account's at
\* moments of the call (generateTransaction, rotateAuthKeySecp256k1).
THEOREM Numbering == Spec => []NumbersFresh
<1>1. IInv => NumbersFresh
  BY DEF IInv
<1> QED BY <1>1, Invariance, PTL

\* fundAccount resolves only when all the faucet's transactions are in the ledger.
THEOREM Funds == Spec => []Funded
<1>1. ASSUME IInv, NEW c \in Calls, outcome[c] = "value", NEW k \in DOMAIN plan[c].stages,
             NEW r \in plan[c].stages[k], r.does = "wait"
      PROVE  Confirmed(c, r.item)
  <2>1. PICK s \in seen[c] : s.to = r /\ Goes(s)
    BY <1>1, AllPassed DEF Passed
  <2>2. CallOK(c) /\ s \in Replies
    BY <1>1, CallType DEF IInv
  <2>3. s.kind = "held"
    BY <1>1, <2>1, <2>2, GoesKind DEF CallOK, RepliesOK
  <2> QED BY <1>1, <2>1, <2>2, <2>3 DEF CallOK, RepliesOK
<1>2. IInv => Funded
  BY <1>1 DEF Funded
<1> QED BY <1>2, Invariance, PTL
=============================================================================
