---------------------------- MODULE ReadsProofs ----------------------------
(***************************************************************************)
(* Proofs about how the SDK reads from a node: one request, which can be   *)
(* cancelled, and a list that comes in pages.                              *)
(***************************************************************************)
EXTENDS Request, Pagination, TLAPS

(***************************************************************************)
(* A request settles once, and soundly                                     *)
(***************************************************************************)

LEMMA RequestInitInv == RequestInit => RequestInv
<1>1. "resolved" \in {"resolved"} /\ "rejected" \in {"rejected"} /\ "cancelled" \in {"cancelled"}
  OBVIOUS
<1>2. RequestInit => OneFate
  BY <1>1 DEF RequestInit, OneFate
<1>3. RequestInit => handlers \in BOOLEAN /\ token \in BOOLEAN /\ executed \in BOOLEAN
  BY Zenon DEF RequestInit
<1>4. RequestInit => RequestTypeOK
  BY <1>3 DEF RequestInit, RequestTypeOK
<1>5. RequestInit => AbortReaches /\ StageOK /\ HandlerOK
  BY DEF RequestInit, AbortReaches, StageOK, HandlerOK
<1> QED BY <1>2, <1>4, <1>5 DEF RequestInv

LEMMA RequestNextInv == RequestInv /\ [RequestNext]_requestVars => RequestInv'
<1> SUFFICES ASSUME RequestInv, [RequestNext]_requestVars PROVE RequestInv'
  OBVIOUS
<1> USE DEF RequestInv, RequestTypeOK, OneFate, AbortReaches, StageOK, HandlerOK, Answers
<1>1. CASE Call
  BY <1>1 DEF Call
<1>2. CASE Cancel
  BY <1>2 DEF Cancel, Settle
<1>3. CASE Resolve
  BY <1>3 DEF Resolve
<1>4. CASE PrepareFails
  BY <1>4 DEF PrepareFails, OnReject, Settle
<1>5. CASE HeadersReady
  BY <1>5 DEF HeadersReady, Enqueue, OnCancel
<1>6. CASE ImportReady
  BY <1>6 DEF ImportReady, Enqueue, OnCancel
<1>7. CASE Dispatch
  BY <1>7 DEF Dispatch, OnReject, Settle
<1>8. CASE Arrive
  BY <1>8 DEF Arrive, OnResolve, OnReject, Settle
<1>9. CASE NodeExecutes
  BY <1>9 DEF NodeExecutes
<1>10. CASE Answer
  BY <1>10 DEF Answer
<1>11. CASE UNCHANGED requestVars
  BY <1>11 DEF requestVars
<1> QED BY <1>1, <1>2, <1>3, <1>4, <1>5, <1>6, <1>7, <1>8, <1>9, <1>10, <1>11 DEF RequestNext, Executor

\* Every state of a request has the invariant.
THEOREM RequestInvariance == RequestSpec => []RequestInv
<1> QED BY RequestInitInv, RequestNextInv, PTL DEF RequestSpec

\* However cancel(), the answer and the failures interleave, the promise
\* settles once, and as the flags say (OneFate).
THEOREM Fate == RequestSpec => []OneFate
<1>1. RequestInv => OneFate
  BY DEF RequestInv
<1> QED BY RequestInvariance, <1>1, PTL

\* Without the fetch adapter, cancel() reaches a request on its way (AbortReaches).
THEOREM Aborts == RequestSpec => []AbortReaches
<1>1. RequestInv => AbortReaches
  BY DEF RequestInv
<1> QED BY RequestInvariance, <1>1, PTL

\* Without the fetch adapter, a request cancelled before it was sent never is (CancelStops).
THEOREM Stops == RequestSpec => CancelStops
<1>1. ASSUME RequestInv, [RequestNext]_requestVars, ~fetch, "cancelled" \in flags, wire = "unsent"
      PROVE  wire' = "unsent"
  <2> USE <1>1 DEF RequestInv, RequestTypeOK, OneFate, AbortReaches, StageOK
  <2>1. CASE Dispatch
    BY <2>1 DEF Dispatch
  <2>2. CASE Answer
    BY <2>2 DEF Answer
  <2>3. CASE UNCHANGED requestVars
    BY <2>3 DEF requestVars
  <2>4. CASE Call \/ Cancel \/ Resolve \/ PrepareFails \/ HeadersReady \/ ImportReady
             \/ Arrive \/ NodeExecutes
    BY <2>4 DEF Call, Cancel, Resolve, PrepareFails, HeadersReady, ImportReady, Arrive, NodeExecutes
  <2> QED BY <2>1, <2>2, <2>3, <2>4 DEF RequestNext, Executor
<1>2. RequestInv /\ [RequestNext]_requestVars
        => [~fetch /\ "cancelled" \in flags /\ wire = "unsent" => wire' = "unsent"]_requestVars
  BY <1>1
<1> QED BY RequestInvariance, <1>2, PTL DEF RequestSpec, CancelStops

(***************************************************************************)
(* The pages make up the account                                           *)
(***************************************************************************)

\* The items of a page come after those collected.
LEMMA Joined ==
    ASSUME NEW s \in Seq(Item), NEW t \in Seq(Item), NEW lo \in Int, NEW hi \in Int, lo <= hi,
           TypeOK, Covers(s, 1, lo), Covers(t, lo, hi), 1 <= lo
    PROVE  Covers(s \o t, 1, hi)
<1> DEFINE u == s \o t
<1>1. /\ u \in Seq(Item) /\ Len(u) = Len(s) + Len(t)
      /\ \A i \in DOMAIN s : i \in DOMAIN u /\ u[i] = s[i]
      /\ \A i \in DOMAIN t : i + Len(s) \in DOMAIN u /\ u[i + Len(s)] = t[i]
      /\ \A i \in DOMAIN u : (i \in DOMAIN s /\ u[i] = s[i])
                              \/ (i > Len(s) /\ i - Len(s) \in DOMAIN t /\ u[i] = t[i - Len(s)])
  OBVIOUS
<1>2. \A i \in DOMAIN s : s[i] \in Item
  OBVIOUS
<1>3. \A i \in DOMAIN t : t[i] \in Item
  OBVIOUS
<1>4. Ascending(u)
  <2> SUFFICES ASSUME NEW i \in DOMAIN u, NEW j \in DOMAIN u, i < j
               PROVE  u[i].key < u[j].key
    BY DEF Ascending
  <2>1. CASE j \in DOMAIN s
    BY <1>1, <2>1 DEF Covers, Ascending
  <2>2. CASE i \in DOMAIN s /\ j \notin DOMAIN s
    <3>1. u[i].key < lo /\ u[j].key >= lo
      BY <1>1, <2>2 DEF Covers
    <3> QED BY <1>1, <1>2, <1>3, <2>2, <3>1 DEF Item, Keys
  <2>3. CASE i \notin DOMAIN s /\ j \notin DOMAIN s
    <3>1. /\ i - Len(s) \in DOMAIN t /\ u[i] = t[i - Len(s)]
          /\ j - Len(s) \in DOMAIN t /\ u[j] = t[j - Len(s)]
      BY <1>1, <2>3
    <3>2. i - Len(s) < j - Len(s)
      OBVIOUS
    <3> QED BY <3>1, <3>2 DEF Covers, Ascending
  <2> QED BY <1>1, <2>1, <2>2, <2>3
<1>5. ASSUME NEW i \in DOMAIN u
      PROVE  /\ u[i].key >= 1 /\ u[i].key < hi
             /\ \E v \in Served : ledger[v][u[i].key] = u[i].val
  <2>1. CASE i \in DOMAIN s /\ u[i] = s[i]
    <3>1. s[i].key >= 1 /\ s[i].key < lo /\ \E v \in Served : ledger[v][s[i].key] = s[i].val
      BY <2>1 DEF Covers
    <3> QED BY <1>2, <2>1, <3>1 DEF Item, Keys
  <2>2. CASE i - Len(s) \in DOMAIN t /\ u[i] = t[i - Len(s)]
    <3> DEFINE j == i - Len(s)
    <3>1. t[j].key >= lo /\ t[j].key < hi /\ \E v \in Served : ledger[v][t[j].key] = t[j].val
      BY <2>2 DEF Covers
    <3>2. t[j].key \in Int
      BY <1>3, <2>2 DEF Item, Keys
    <3> QED BY <2>2, <3>1, <3>2
  <2> QED BY <1>1, <2>1, <2>2
<1>6. ASSUME NEW k \in 1..(hi - 1), \A v \in Served : ledger[v][k] # Absent
      PROVE  \E i \in DOMAIN u : u[i].key = k
  <2>1. CASE k < lo
    <3>1. PICK i \in DOMAIN s : s[i].key = k
      BY <1>6, <2>1 DEF Covers
    <3> QED BY <1>1, <3>1
  <2>2. CASE k >= lo
    <3>1. PICK i \in DOMAIN t : t[i].key = k
      BY <1>6, <2>2 DEF Covers
    <3> QED BY <1>1, <3>1
  <2> QED BY <2>1, <2>2
<1> QED BY <1>4, <1>5, <1>6 DEF Covers

\* What was covered stays so when the ledger grows and later versions are served.
LEMMA StillCovers ==
    ASSUME TypeOK, VersionOK, UNCHANGED <<version, first>>, final' \in Nat, final <= final',
           \A v \in 1..Len(ledger) : ledger'[v] = ledger[v],
           pc # "idle",
           NEW s, NEW lo, NEW hi, Covers(s, lo, hi)
    PROVE  Covers(s, lo, hi)'
<1>1. Served \subseteq Served'
  BY DEF TypeOK, VersionOK, Served
<1>2. \A v \in Served : ledger'[v] = ledger[v]
  BY DEF TypeOK, VersionOK, Served
<1> QED BY <1>1, <1>2 DEF Covers, Ascending

\* At the end, a list that covers every key is what the properties ask for.
LEMMA Complete ==
    IInv => PinnedSnapshot /\ LatestLoosely
<1> SUFFICES ASSUME IInv, pc = "done"
             PROVE  PinnedSnapshot /\ LatestLoosely
  BY DEF PinnedSnapshot, LatestLoosely
<1>1. TypeOK /\ VersionOK /\ Covers(out, 1, NumKeys + 1)
  BY DEF IInv, PagesOK
<1>2. \A i \in DOMAIN out : out[i] \in Item /\ out[i] = [key |-> out[i].key, val |-> out[i].val]
                            /\ out[i].key \in Keys /\ out[i].val \in Values
  <2> TAKE i \in DOMAIN out
  <2>1. out \in Seq(Item)
    BY <1>1 DEF TypeOK
  <2>2. out[i] \in Item
    BY <2>1
  <2> QED BY <2>2, Zenon DEF Item
<1>3. Keys = 1..((NumKeys + 1) - 1)
  BY SizeAssumption DEF Keys
<1>4. ASSUME version # None
      PROVE  ItemsOf(out) = Contents(version, {k \in Keys : ledger[version][k] # Absent})
  <2>1. \A i \in DOMAIN out : ledger[version][out[i].key] = out[i].val
    BY <1>1, <1>4 DEF Covers, Served
  <2>2. \A k \in Keys : ledger[version][k] # Absent => \E i \in DOMAIN out : out[i].key = k
    BY <1>1, <1>3, <1>4 DEF Covers, Served
  <2>3. \A x \in ItemsOf(out) : x \in Contents(version, {k \in Keys : ledger[version][k] # Absent})
    BY <1>2, <2>1, AbsentAssumption DEF ItemsOf, Contents
  <2>4. \A x \in Contents(version, {k \in Keys : ledger[version][k] # Absent}) : x \in ItemsOf(out)
    BY <1>2, <2>1, <2>2 DEF ItemsOf, Contents
  <2> QED BY <2>3, <2>4
<1>5. PinnedSnapshot
  BY <1>1, <1>4 DEF PinnedSnapshot, Covers
<1>6. LatestLoosely
  BY <1>1, <1>3 DEF LatestLoosely, Covers, Served
<1> QED BY <1>5, <1>6

LEMMA InitInv == Init => IInv
<1> SUFFICES ASSUME Init PROVE IInv
  OBVIOUS
<1>1. TypeOK
  BY DEF Init, TypeOK
<1>2. PagesOK /\ VersionOK
  BY DEF Init, PagesOK, VersionOK
<1> QED BY <1>1, <1>2 DEF IInv

LEMMA ServePages == ASSUME IInv, Serve PROVE TypeOK' /\ PagesOK' /\ VersionOK'
<1> DEFINE v == ServedVersion
           lo == Bound(cursor, 1)
<1> USE SizeAssumption, NoneAssumption
<1>1. PICK n \in {None} \cup From(v), s \in UNION {[1..l -> Item] : l \in 0..Limit} :
        /\ Ascending(s)
        /\ ItemsOf(s) = Contents(v, {k \in From(v) : n # None => k < n})
        /\ n # None => s # <<>>
        /\ response' = [items |-> s, next |-> n]
  BY Zenon DEF Serve
<1>2. s \in Seq(Item)
  <2>1. PICK l \in 0..Limit : s \in [1..l -> Item]
    OBVIOUS
  <2> QED BY <2>1
<1>3. v \in 1..Len(ledger) /\ v \in Served'
  BY DEF IInv, TypeOK, VersionOK, ServedVersion, Served, Serve
<1>4. TypeOK' /\ VersionOK'
  <2>1. n \in Keys \cup {None}
    BY <1>1 DEF From
  <2>2. response' \in Page
    BY <1>1, <1>2, <2>1 DEF Page
  <2>3. Len(ledger) \in Nat
    BY DEF IInv, TypeOK
  <2> QED BY <2>2, <2>3 DEF IInv, TypeOK, VersionOK, Serve
<1>5. Covers(out, 1, lo)'
  <2>1. Covers(out, 1, lo)
    BY DEF IInv, PagesOK, Serve
  <2> QED BY <2>1, StillCovers DEF IInv, TypeOK, VersionOK, Serve
<1>6. \A i \in DOMAIN s : s[i].key \in From(v) /\ (n # None => s[i].key < n)
                          /\ ledger[v][s[i].key] = s[i].val
  <2> SUFFICES ASSUME NEW i \in DOMAIN s
               PROVE  /\ s[i].key \in From(v) /\ (n # None => s[i].key < n)
                      /\ ledger[v][s[i].key] = s[i].val
    OBVIOUS
  <2>1. s[i] \in ItemsOf(s)
    BY DEF ItemsOf
  <2>2. PICK k \in From(v) : (n # None => k < n) /\ s[i] = [key |-> k, val |-> ledger[v][k]]
    BY <1>1, <2>1 DEF Contents
  <2> QED BY <2>2
<1>7. \A k \in From(v) : (n # None => k < n) => \E i \in DOMAIN s : s[i].key = k
  <2> SUFFICES ASSUME NEW k \in From(v), n # None => k < n
               PROVE  \E i \in DOMAIN s : s[i].key = k
    OBVIOUS
  <2>1. [key |-> k, val |-> ledger[v][k]] \in ItemsOf(s)
    BY <1>1 DEF Contents
  <2>2. PICK i \in DOMAIN s : s[i] = [key |-> k, val |-> ledger[v][k]]
    BY <2>1 DEF ItemsOf
  <2> QED BY <2>2
<1> DEFINE hi == Bound(n, NumKeys + 1)
<1>8. Covers(s, lo, hi)'
  <2>1. UNCHANGED <<ledger, version, cursor>>
    BY DEF Serve
  <2>2. ASSUME NEW i \in DOMAIN s
        PROVE  s[i].key >= lo /\ s[i].key < hi /\ \E w \in Served' : ledger[w][s[i].key] = s[i].val
    BY <1>3, <1>6 DEF From, Keys, Bound
  <2>3. ASSUME NEW k \in lo..(hi - 1), \A w \in Served' : ledger[w][k] # Absent
        PROVE  \E i \in DOMAIN s : s[i].key = k
    <3>1. k \in From(v) /\ (n # None => k < n)
      BY <1>1, <1>3, <2>3 DEF From, Keys, Bound, IInv, TypeOK
    <3> QED BY <1>7, <3>1
  <2> QED BY <1>1, <2>1, <2>2, <2>3 DEF Covers, Ascending
<1>9. n # None => n > lo
  <2> SUFFICES ASSUME n # None PROVE n > lo
    OBVIOUS
  <2>1. 1 \in DOMAIN s
    BY <1>1, <1>2
  <2>2. s[1].key \in From(v) /\ s[1].key < n
    BY <1>6, <2>1
  <2> QED BY <2>2, <1>1 DEF From, Keys, Bound, IInv, TypeOK
<1>10. PagesOK'
  <2>1. response'.items = s /\ response'.next = n /\ response' # None
    <3>1. n \in Keys \cup {None}
      BY <1>1 DEF From
    <3>2. response' \in [items : Seq(Item), next : Keys \cup {None}]
      BY <1>1, <1>2, <3>1
    <3>3. response' # None
      BY <3>2 DEF Item, Keys
    <3> QED BY <1>1, <3>3
  <2>2. pc' = "response" /\ cursor' = cursor
    BY DEF Serve
  <2> QED BY <1>5, <1>8, <1>9, <2>1, <2>2 DEF PagesOK, Bound
<1> QED BY <1>4, <1>10

LEMMA ReceivePages == ASSUME IInv, Receive PROVE TypeOK' /\ PagesOK' /\ VersionOK'
<1> USE SizeAssumption, NoneAssumption
<1> DEFINE lo == Bound(cursor, 1)
           hi == Bound(response.next, NumKeys + 1)
<1>1. response \in Page /\ Covers(out, 1, lo) /\ Covers(response.items, lo, hi)
      /\ (response.next # None => response.next > lo)
  BY DEF IInv, TypeOK, PagesOK, Receive
<1>2. response.items \in Seq(Item) /\ response.next \in Keys \cup {None}
  BY <1>1 DEF Page
<1>3. lo \in Int /\ hi \in Int /\ lo <= hi /\ 1 <= lo
  BY <1>1, <1>2 DEF IInv, TypeOK, Keys, Bound
<1>4. Covers(out \o response.items, 1, hi)
  BY <1>1, <1>2, <1>3, Joined DEF IInv, TypeOK
<1>5. TypeOK' /\ VersionOK'
  BY <1>2 DEF IInv, TypeOK, VersionOK, Receive
<1>6. ASSUME NEW h, h = hi PROVE Covers(out, 1, h)'
  <2>1. out' = out \o response.items /\ ledger' = ledger /\ Served' = Served
    BY DEF Receive, Served
  <2> HIDE DEF hi
  <2> QED BY <1>4, <1>6, <2>1 DEF Covers, Ascending
<1>7. CASE response.next = None
  <2>1. Covers(out, 1, NumKeys + 1)'
    BY <1>6, <1>7 DEF Bound
  <2> QED BY <1>5, <1>7, <2>1 DEF PagesOK, Receive
<1>8. CASE response.next # None
  <2>1. Bound(cursor, 1)' = hi
    BY <1>8 DEF Receive, Bound
  <2>2. Covers(out, 1, Bound(cursor, 1))'
    BY <1>6, <2>1 DEF Covers, Ascending
  <2>3. pc' = "request"
    BY <1>8 DEF Receive
  <2> QED BY <1>5, <2>2, <2>3 DEF PagesOK
<1> QED BY <1>7, <1>8

LEMMA NextInv == IInv /\ [Next]_vars => IInv'
<1> SUFFICES ASSUME IInv, [Next]_vars PROVE TypeOK' /\ PagesOK' /\ VersionOK'
  BY DEF IInv
<1>1. ASSUME NEW v \in 1..Len(ledger) \cup {None}, Start(v)
      PROVE  TypeOK' /\ PagesOK' /\ VersionOK'
  <2>1. Len(ledger) \in Nat /\ Len(ledger) >= 1
    BY DEF IInv, TypeOK, VersionOK
  <2>2. TypeOK' /\ VersionOK'
    BY <1>1, <2>1 DEF IInv, TypeOK, VersionOK, Start
  <2>3. PagesOK'
    BY <1>1 DEF PagesOK, Start, Covers, Ascending, Bound
  <2> QED BY <2>2, <2>3
<1>2. CASE Receive
  BY <1>2, ReceivePages
<1>3. CASE Fail
  <2>1. TypeOK' /\ VersionOK'
    BY <1>3 DEF IInv, TypeOK, VersionOK, Fail
  <2> QED BY <1>3, <2>1 DEF PagesOK, Fail
<1>4. CASE Serve
  BY <1>4, ServePages
<1>5. CASE Write
  <2>1. PICK a \in Account : ledger' = Append(ledger, a)
    BY <1>5 DEF Write
  <2>2. /\ ledger' \in Seq(Account) /\ Len(ledger') = Len(ledger) + 1
        /\ \A v \in 1..Len(ledger) : ledger'[v] = ledger[v]
    BY <2>1 DEF IInv, TypeOK
  <2>3. TypeOK' /\ VersionOK'
    BY <1>5, <2>2 DEF IInv, TypeOK, VersionOK, Write
  <2>4. ASSUME pc # "idle", NEW s, NEW lo, NEW hi, Covers(s, lo, hi)
        PROVE  Covers(s, lo, hi)'
    BY <1>5, <2>2, <2>4, StillCovers DEF IInv, TypeOK, Write
  <2>5. PagesOK'
    <3> USE <1>5, <2>4 DEF IInv, PagesOK, Write
    <3>1. pc' = "request" => Covers(out, 1, Bound(cursor, 1))'
      BY DEF Bound
    <3>2. pc' = "response" => /\ response' # None
                              /\ Covers(out, 1, Bound(cursor, 1))'
                              /\ Covers(response.items, Bound(cursor, 1), Bound(response.next, NumKeys + 1))'
                              /\ response'.next # None => response'.next > Bound(cursor', 1)
      BY DEF Bound
    <3>3. pc' = "done" => Covers(out, 1, NumKeys + 1)'
      OBVIOUS
    <3> QED BY <3>1, <3>2, <3>3 DEF Bound
  <2> QED BY <2>3, <2>5
<1>6. CASE UNCHANGED vars
  BY <1>6, SMTT(30) DEF vars, IInv, TypeOK, PagesOK, VersionOK, Covers, Served, Ascending, Bound
<1> QED BY <1>1, <1>2, <1>3, <1>4, <1>5, <1>6 DEF Next

\* Every state of a paginated call has the invariant.
THEOREM Invariance == Spec => []IInv
<1> QED BY InitInv, NextInv, PTL DEF Spec

\* A call with a ledgerVersion that returns gives the account at that version
\* (PinnedSnapshot), for every account, page size and growth of the ledger.
THEOREM Snapshot == Spec => []PinnedSnapshot
<1> QED BY Invariance, Complete, PTL

\* A call without one gives a list that is at least in order, without
\* duplicates, and misses nothing that was there all along (LatestLoosely).
THEOREM Loosely == Spec => []LatestLoosely
<1> QED BY Invariance, Complete, PTL
============================================================================
