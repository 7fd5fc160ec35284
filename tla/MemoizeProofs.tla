---------------------------- MODULE MemoizeProofs ----------------------------
(***************************************************************************)
(* Proofs about Memoize: the inductive invariant IInv, and from it that    *)
(* calls are served fresh promises, that one request is made per window,   *)
(* and that the memoized method implements TtlRead, for every set of       *)
(* objects, keys, callers and tags, every ttl and every bound.             *)
(***************************************************************************)
EXTENDS Memoize, TLAPS

\* The starting state satisfies the inductive invariant.
LEMMA InitInv == Init => IInv
  <1> SUFFICES ASSUME Init PROVE IInv
    OBVIOUS
  <1>1. TypeOK
    BY TtlAssumption DEF Init, TypeOK, Promise, PromiseState, Entry
  <1>2. PastOK /\ EntryOK /\ RegistryOK /\ CallOK /\ LatestCached
    BY DEF Init, PastOK, EntryOK, RegistryOK, CallOK, LatestCached
  <1>3. ServedFresh /\ OneRequestPerWindow /\ FulfilledCurrent
    BY DEF Init, ServedFresh, OneRequestPerWindow, FulfilledCurrent
  <1> QED
    BY <1>1, <1>2, <1>3 DEF IInv

\* Oldest is an integer not later than now, and no fresh request is older.
LEMMA OldestBounds ==
  ASSUME TypeOK, PastOK, NEW o \in Objects
  PROVE  /\ Oldest(o) \in Int /\ Oldest(o) <= now /\ Oldest(o) >= clearedAt[o]
         /\ \A a \in Nat : a >= clearedAt[o] /\ ~(Ttl > 0 /\ now - a > Ttl) => a >= Oldest(o)
  BY TtlAssumption DEF TypeOK, PastOK, Oldest

\* A call served from the map preserves the invariant: the entry it shares was
\* requested within the caller's window.
LEMMA CallServed ==
  ASSUME IInv, NEW c \in Callers, NEW o \in Objects, NEW k \in Keys,
         call[c] = Idle, Register(o), ServeFromMap(c, o, k),
         UNCHANGED <<now, since, clearedAt, result>>
  PROVE  IInv'
  <1> DEFINE p == memo[o][k].promise
  <1>0. /\ p \in Promises /\ memo[o][k] # None /\ memo[o][k] \in Entry
        /\ call' = [call EXCEPT ![c] = [promise |-> p, from |-> Oldest(o)]]
        /\ UNCHANGED <<memo, promise, now, since, clearedAt, result>>
    BY DEF ServeFromMap, Hit, IInv, TypeOK, Entry
  <1>1. TypeOK'
    BY <1>0, OldestBounds DEF IInv, TypeOK, Register, Await
  <1>2. (PastOK /\ LatestCached /\ OneRequestPerWindow /\ FulfilledCurrent)'
    BY <1>0 DEF IInv, PastOK, LatestCached, OneRequestPerWindow, FulfilledCurrent
  <1>3. (EntryOK /\ RegistryOK)'
    BY <1>0, TagAssumption DEF IInv, TypeOK, EntryOK, RegistryOK, Register
  <1>4. promise[p].state # "unused" /\ promise[p].at = memo[o][k].stamp
        /\ promise[p].at >= clearedAt[o]
    BY <1>0 DEF IInv, EntryOK
  <1>5. promise[p].at >= Oldest(o)
    <2>1. promise[p].at \in Nat
      BY <1>0 DEF IInv, TypeOK, Promise
    <2>2. ~(Ttl > 0 /\ now - promise[p].at > Ttl)
      BY <1>4 DEF ServeFromMap, Hit, Expired
    <2> QED
      BY <1>4, <2>1, <2>2, OldestBounds DEF IInv
  <1>6. \A d \in Callers : call'[d] = IF d = c THEN [promise |-> p, from |-> Oldest(o)] ELSE call[d]
    BY <1>0 DEF IInv, TypeOK
  <1>7. (CallOK /\ ServedFresh)'
    BY <1>0, <1>4, <1>5, <1>6 DEF IInv, CallOK, ServedFresh
  <1> QED
    BY <1>1, <1>2, <1>3, <1>7 DEF IInv

\* A call that makes a request preserves the invariant.
LEMMA CallInvoked ==
  ASSUME IInv, NEW c \in Callers, NEW o \in Objects, NEW k \in Keys,
         call[c] = Idle, Register(o), Invoke(c, o, k),
         UNCHANGED <<now, since, clearedAt, result>>
  PROVE  IInv'
  <1>0. PICK p \in Promises :
          /\ Free(p)
          /\ promise' = [promise EXCEPT ![p] = [state |-> "pending", obj |-> o, key |-> k,
                                                at |-> now, val |-> 0]]
          /\ memo' = [memo EXCEPT ![o][k] = [promise |-> p, stamp |-> now]]
          /\ call' = [call EXCEPT ![c] = [promise |-> p, from |-> Oldest(o)]]
    BY DEF Invoke
  <1>a. \A q \in Promises : promise'[q] = IF q = p THEN [state |-> "pending", obj |-> o, key |-> k,
                                                         at |-> now, val |-> 0] ELSE promise[q]
    BY <1>0 DEF IInv, TypeOK
  <1>b. \A u \in Objects, v \in Keys : memo'[u][v] = IF u = o /\ v = k THEN [promise |-> p, stamp |-> now]
                                                     ELSE memo[u][v]
    BY <1>0 DEF IInv, TypeOK
  <1>c. \A d \in Callers : call'[d] = IF d = c THEN [promise |-> p, from |-> Oldest(o)] ELSE call[d]
    BY <1>0 DEF IInv, TypeOK
  <1>d. UNCHANGED <<now, since, clearedAt, result>>
    OBVIOUS
  <1>t. now \in Nat /\ clearedAt \in [Objects -> Nat] /\ promise \in [Promises -> Promise]
        /\ memo \in [Objects -> [Keys -> Entry \cup {None}]]
    BY DEF IInv, TypeOK
  <1>1. TypeOK'
    <2>1. promise' \in [Promises -> Promise]
      BY <1>0, <1>t DEF Promise, PromiseState
    <2>2. memo' \in [Objects -> [Keys -> Entry \cup {None}]]
      BY <1>0, <1>t DEF Entry
    <2>3. call' \in [Callers -> Await \cup {Idle}]
      BY <1>0, OldestBounds DEF IInv, TypeOK, Await
    <2>4. registered' \in [Tags -> SUBSET Objects]
      BY DEF IInv, TypeOK, Register
    <2> QED
      BY <2>1, <2>2, <2>3, <2>4 DEF IInv, TypeOK
  <1>2. PastOK'
    BY <1>a, <1>t DEF IInv, PastOK
  <1>3. EntryOK'
    <2> SUFFICES ASSUME NEW u \in Objects, NEW v \in Keys, memo'[u][v] # None
                 PROVE  LET q == promise'[memo'[u][v].promise] IN
                        /\ q.state # "unused" /\ q.obj = u /\ q.key = v
                        /\ q.at = memo'[u][v].stamp /\ q.at >= clearedAt'[u]
                        /\ \A t \in MethodTags : u \in registered'[t]
      BY DEF EntryOK
    <2>1. CASE u = o /\ v = k
      BY <2>1, <1>a, <1>b, <1>t, TagAssumption DEF IInv, PastOK, Register
    <2>2. CASE ~(u = o /\ v = k)
      <3>1. memo'[u][v] = memo[u][v] /\ memo[u][v].promise # p /\ memo[u][v].promise \in Promises
        BY <2>2, <1>0, <1>b, <1>t DEF Free, Entry
      <3>2. promise'[memo'[u][v].promise] = promise[memo[u][v].promise]
        BY <3>1, <1>a
      <3>3. \A t \in MethodTags : u \in registered'[t]
        BY <3>1, TagAssumption DEF IInv, EntryOK, Register
      <3> QED
        BY <3>1, <3>2, <3>3 DEF IInv, EntryOK
    <2> QED
      BY <2>1, <2>2
  <1>4. RegistryOK'
    BY DEF IInv, RegistryOK, Register
  <1>5. (CallOK /\ ServedFresh)'
    <2> SUFFICES ASSUME NEW d \in Callers, call'[d] # Idle
                 PROVE  /\ promise'[call'[d].promise].state # "unused"
                        /\ promise'[call'[d].promise].at >= call'[d].from
      BY DEF CallOK, ServedFresh
    <2>1. CASE d = c
      BY <2>1, <1>a, <1>c, <1>t, OldestBounds DEF IInv
    <2>2. CASE d # c
      <3>1. call'[d] = call[d] /\ call[d].promise # p /\ call[d].promise \in Promises
        BY <2>2, <1>0, <1>c DEF Free, IInv, TypeOK, Await
      <3> QED
        BY <3>1, <1>a DEF IInv, CallOK, ServedFresh
    <2> QED
      BY <2>1, <2>2
  <1>6. \A q \in Promises :
          promise[q].state # "unused" /\ promise[q].obj = o /\ promise[q].key = k
            /\ promise[q].at > clearedAt[o] => Ttl > 0 /\ now - promise[q].at > Ttl
    <2> SUFFICES ASSUME NEW q \in Promises, promise[q].state # "unused", promise[q].obj = o,
                        promise[q].key = k, promise[q].at > clearedAt[o]
                 PROVE  Ttl > 0 /\ now - promise[q].at > Ttl
      OBVIOUS
    <2>1. memo[o][k] # None /\ memo[o][k].stamp >= promise[q].at
      BY DEF IInv, LatestCached
    <2>2. Ttl > 0 /\ now - memo[o][k].stamp > Ttl
      BY <2>1 DEF Invoke, Hit, Expired
    <2>3. memo[o][k].stamp \in Nat /\ promise[q].at \in Nat
      BY <2>1, <1>t DEF Entry, Promise
    <2> QED
      BY <2>1, <2>2, <2>3, <1>t, TtlAssumption
  <1>7. OneRequestPerWindow'
    <2> SUFFICES ASSUME NEW q \in Promises, NEW r \in Promises, q # r,
                        promise'[q].state # "unused", promise'[r].state # "unused",
                        promise'[q].obj = promise'[r].obj, promise'[q].key = promise'[r].key,
                        promise'[q].at <= promise'[r].at,
                        promise'[q].at > clearedAt[promise'[q].obj]
                 PROVE  Ttl > 0 /\ promise'[r].at - promise'[q].at > Ttl
      BY <1>d DEF OneRequestPerWindow
    <2>1. CASE q # p /\ r # p
      <3>1. promise'[q] = promise[q] /\ promise'[r] = promise[r]
        BY <2>1, <1>a
      <3> QED
        BY <3>1 DEF IInv, OneRequestPerWindow
    <2>2. CASE r = p
      <3>1. /\ promise'[q] = promise[q] /\ promise'[r].at = now
            /\ promise'[r].obj = o /\ promise'[r].key = k
        BY <2>2, <1>a
      <3> QED
        BY <3>1, <1>6
    <2>3. CASE q = p
      <3>1. /\ promise'[r] = promise[r] /\ promise'[q].at = now
            /\ promise'[q].obj = o /\ promise'[q].key = k
        BY <2>3, <1>a
      <3>2. promise[r].at = now
        BY <3>1, <1>t DEF IInv, PastOK, Promise
      <3>3. FALSE
        BY <3>1, <3>2, <1>6, <1>t, TtlAssumption
      <3> QED
        BY <3>3
    <2> QED
      BY <2>1, <2>2, <2>3
  <1>8. LatestCached'
    <2> SUFFICES ASSUME NEW q \in Promises, promise'[q].state # "unused"
                 PROVE  /\ promise'[q].obj \in Objects /\ promise'[q].key \in Keys
                        /\ promise'[q].at > clearedAt'[promise'[q].obj] =>
                             /\ memo'[promise'[q].obj][promise'[q].key] # None
                             /\ memo'[promise'[q].obj][promise'[q].key].stamp >= promise'[q].at
      BY DEF LatestCached
    <2>1. [promise |-> p, stamp |-> now] # None
      BY <1>t, NoneAssumption
    <2>2. CASE q = p
      BY <2>1, <2>2, <1>a, <1>b, <1>t
    <2>3. CASE q # p
      <3>1. promise'[q] = promise[q]
        BY <2>3, <1>a
      <3>2. promise[q].obj \in Objects /\ promise[q].key \in Keys /\ promise[q].at <= now
        BY <3>1 DEF IInv, LatestCached, PastOK
      <3>3. CASE promise[q].obj = o /\ promise[q].key = k
        <4>1. memo'[promise[q].obj][promise[q].key] = [promise |-> p, stamp |-> now]
          BY <3>3, <1>b
        <4> QED
          BY <4>1, <3>1, <3>2, <2>1
      <3>4. CASE ~(promise[q].obj = o /\ promise[q].key = k)
        <4>1. memo'[promise[q].obj][promise[q].key] = memo[promise[q].obj][promise[q].key]
          BY <3>2, <3>4, <1>b
        <4> QED
          BY <4>1, <3>1, <1>d DEF IInv, LatestCached
      <3> QED
        BY <3>3, <3>4
    <2> QED
      BY <2>2, <2>3
  <1>9. FulfilledCurrent'
    BY <1>a DEF IInv, FulfilledCurrent
  <1> QED
    BY <1>1, <1>2, <1>3, <1>4, <1>5, <1>7, <1>8, <1>9 DEF IInv

\* The settling of a promise, by an answer or by an error, preserves the invariant.
LEMMA SettleInv ==
  ASSUME IInv, NEW p \in Promises, Fulfil(p) \/ Reject(p)
  PROVE  IInv'
  <1>t. /\ now \in Nat /\ since \in Seq(Nat) /\ promise \in [Promises -> Promise]
        /\ promise[p].state = "pending" /\ Len(since) \in Nat
    BY DEF IInv, TypeOK, Fulfil, Reject
  <1>a. /\ UNCHANGED <<now, since, memo, registered, call, clearedAt, result>>
        /\ \A q \in Promises : /\ promise'[q].at = promise[q].at /\ promise'[q].obj = promise[q].obj
                               /\ promise'[q].key = promise[q].key
                               /\ promise'[q].state # "unused" <=> promise[q].state # "unused"
    <2>1. CASE Fulfil(p)
      BY <2>1, <1>t DEF Fulfil, Promise
    <2>2. CASE Reject(p)
      BY <2>2, <1>t DEF Reject, Promise
    <2> QED
      BY <2>1, <2>2
  <1>1. TypeOK'
    <2>1. promise' \in [Promises -> Promise]
      BY <1>t DEF Fulfil, Reject, Promise, PromiseState
    <2> QED
      BY <1>a, <2>1 DEF IInv, TypeOK
  <1>2. (PastOK /\ RegistryOK /\ LatestCached)'
    BY <1>a DEF IInv, PastOK, RegistryOK, LatestCached
  <1>3. EntryOK'
    <2>1. \A o \in Objects, k \in Keys : memo[o][k] # None => memo[o][k].promise \in Promises
      BY DEF IInv, TypeOK, Entry
    <2> QED
      BY <1>a, <2>1 DEF IInv, EntryOK
  <1>4. (CallOK /\ ServedFresh)'
    <2>1. \A c \in Callers : call[c] # Idle => call[c].promise \in Promises
      BY DEF IInv, TypeOK, Await
    <2> QED
      BY <1>a, <2>1 DEF IInv, CallOK, ServedFresh
  <1>5. OneRequestPerWindow'
    BY <1>a DEF IInv, OneRequestPerWindow
  <1>6. FulfilledCurrent'
    <2> SUFFICES ASSUME NEW q \in Promises, promise'[q].state = "fulfilled"
                 PROVE  /\ promise'[q].val \in 1..Len(since)
                        /\ \/ promise'[q].val = Len(since)
                           \/ since[promise'[q].val + 1] >= promise'[q].at
      BY <1>a DEF FulfilledCurrent
    <2>1. CASE q = p
      <3>1. promise'[p].val = Len(since)
        BY <2>1, <1>t DEF Fulfil, Reject, Promise
      <3> QED
        BY <3>1, <2>1, <1>t DEF IInv, PastOK
    <2>2. CASE q # p
      <3>1. promise'[q] = promise[q]
        BY <2>2, <1>t DEF Fulfil, Reject
      <3> QED
        BY <3>1 DEF IInv, FulfilledCurrent
    <2> QED
      BY <2>1, <2>2
  <1> QED
    BY <1>1, <1>2, <1>3, <1>4, <1>5, <1>6 DEF IInv

\* The resumption of an awaiting task preserves the invariant.
LEMMA ReturnInv ==
  ASSUME IInv, NEW c \in Callers, Return(c)
  PROVE  IInv'
  <1>a. UNCHANGED <<now, since, memo, registered, promise, clearedAt>>
    BY DEF Return
  <1>b. \A d \in Callers : call'[d] = IF d = c THEN Idle ELSE call[d]
    BY DEF Return, IInv, TypeOK
  <1>1. TypeOK'
    <2>1. promise[call[c].promise] \in Promise
      BY DEF Return, IInv, TypeOK, Await
    <2>2. result' \in Nat \cup {Idle, Failed}
      BY <2>1 DEF Return, Promise
    <2>3. call' \in [Callers -> Await \cup {Idle}]
      BY DEF Return, IInv, TypeOK
    <2> QED
      BY <1>a, <2>2, <2>3 DEF IInv, TypeOK
  <1>2. (PastOK /\ EntryOK /\ RegistryOK /\ LatestCached /\ OneRequestPerWindow /\ FulfilledCurrent)'
    BY <1>a DEF IInv, PastOK, EntryOK, RegistryOK, LatestCached, OneRequestPerWindow, FulfilledCurrent
  <1>3. (CallOK /\ ServedFresh)'
    BY <1>a, <1>b DEF IInv, CallOK, ServedFresh
  <1> QED
    BY <1>1, <1>2, <1>3 DEF IInv

\* Clearing preserves the invariant: under a tag of the method it empties every
\* map that holds an entry, and under other tags it empties none.
LEMMA ClearInv ==
  ASSUME IInv, NEW ts \in SUBSET Tags, Clear(ts)
  PROVE  IInv'
  <1>t. /\ now \in Nat /\ clearedAt \in [Objects -> Nat] /\ promise \in [Promises -> Promise]
        /\ memo \in [Objects -> [Keys -> Entry \cup {None}]]
    BY DEF IInv, TypeOK
  <1>a. UNCHANGED <<now, since, registered, promise, call, result>>
    BY DEF Clear
  <1>b. CASE ts \cap MethodTags = {}
    <2>1. Listed(ts) = {}
      BY <1>b DEF Listed, IInv, RegistryOK
    <2>2. memo' = memo /\ clearedAt' = clearedAt
      BY <1>b, <2>1, <1>t DEF Clear
    <2> QED
      BY <1>a, <2>2 DEF IInv, TypeOK, PastOK, EntryOK, RegistryOK, CallOK, LatestCached,
                        ServedFresh, OneRequestPerWindow, FulfilledCurrent
  <1>c. CASE ts \cap MethodTags # {}
    <2>1. clearedAt' = [o \in Objects |-> now]
      BY <1>c DEF Clear
    <2>2. \A o \in Objects, k \in Keys : memo'[o][k] = None
      <3> SUFFICES ASSUME NEW o \in Objects, NEW k \in Keys PROVE memo'[o][k] = None
        OBVIOUS
      <3>1. CASE o \in Listed(ts)
        BY <3>1 DEF Clear
      <3>2. CASE o \notin Listed(ts)
        <4>1. PICK t \in ts : t \in MethodTags
          BY <1>c
        <4>2. memo[o][k] = None
          BY <4>1, <3>2 DEF Listed, IInv, EntryOK
        <4> QED
          BY <3>2, <4>2 DEF Clear
      <3> QED
        BY <3>1, <3>2
    <2>3. TypeOK'
      <3>1. memo' \in [Objects -> [Keys -> Entry \cup {None}]]
        BY <1>t DEF Clear
      <3> QED
        BY <1>a, <1>t, <2>1, <3>1 DEF IInv, TypeOK
    <2>4. (PastOK /\ EntryOK /\ RegistryOK /\ CallOK /\ ServedFresh /\ FulfilledCurrent)'
      BY <1>a, <1>t, <2>1, <2>2 DEF IInv, PastOK, EntryOK, RegistryOK, CallOK, ServedFresh,
                                     FulfilledCurrent
    <2>5. \A p \in Promises : promise[p].state # "unused" =>
            promise[p].obj \in Objects /\ promise[p].key \in Keys /\ ~(promise[p].at > now)
      BY <1>t DEF IInv, LatestCached, PastOK, Promise
    <2>6. (LatestCached /\ OneRequestPerWindow)'
      BY <1>a, <2>1, <2>5 DEF LatestCached, OneRequestPerWindow
    <2> QED
      BY <2>3, <2>4, <2>6 DEF IInv
  <1> QED
    BY <1>b, <1>c

\* The clock and the ledger moving on preserve the invariant.
LEMMA EnvironmentInv ==
  ASSUME IInv, Tick \/ Write
  PROVE  IInv'
  <1>t. /\ now \in Nat /\ clearedAt \in [Objects -> Nat] /\ promise \in [Promises -> Promise]
        /\ since \in Seq(Nat)
    BY DEF IInv, TypeOK
  <1>1. CASE Tick
    BY <1>1, <1>t DEF Tick, IInv, TypeOK, PastOK, EntryOK, RegistryOK, CallOK, LatestCached,
                      ServedFresh, OneRequestPerWindow, FulfilledCurrent, Promise
  <1>2. CASE Write
    <2>1. since' \in Seq(Nat) /\ Len(since') = Len(since) + 1 /\ since'[Len(since) + 1] = now
          /\ \A i \in 1..Len(since) : since'[i] = since[i]
      BY <1>2, <1>t DEF Write
    <2>2. FulfilledCurrent'
      <3> SUFFICES ASSUME NEW p \in Promises, promise[p].state = "fulfilled"
                   PROVE  /\ promise[p].val \in 1..Len(since')
                          /\ \/ promise[p].val = Len(since')
                             \/ since'[promise[p].val + 1] >= promise[p].at
        BY <1>2 DEF Write, FulfilledCurrent
      <3>1. promise[p].val \in 1..Len(since) /\ promise[p].at <= now
            /\ (promise[p].val = Len(since) \/ since[promise[p].val + 1] >= promise[p].at)
        BY DEF IInv, FulfilledCurrent, PastOK
      <3>2. promise[p].at \in Nat /\ Len(since) \in Nat
        BY <1>t DEF Promise
      <3>3. CASE promise[p].val = Len(since)
        BY <3>1, <3>2, <3>3, <2>1, <1>t
      <3>4. CASE promise[p].val # Len(since)
        <4>1. promise[p].val + 1 \in 1..Len(since)
          BY <3>1, <3>2, <3>4
        <4> QED
          BY <3>1, <3>2, <3>4, <4>1, <2>1
      <3> QED
        BY <3>3, <3>4
    <2> QED
      BY <1>2, <2>1, <2>2 DEF Write, IInv, TypeOK, PastOK, EntryOK, RegistryOK, CallOK,
                              LatestCached, ServedFresh, OneRequestPerWindow
  <1> QED
    BY <1>1, <1>2

\* Every step preserves the invariant.
LEMMA NextInv == IInv /\ [Next]_vars => IInv'
  <1> SUFFICES ASSUME IInv, [Next]_vars PROVE IInv'
    OBVIOUS
  <1>1. ASSUME NEW c \in Callers, NEW o \in Objects, NEW k \in Keys, Call(c, o, k) PROVE IInv'
    BY <1>1, CallServed, CallInvoked DEF Call
  <1>2. ASSUME NEW c \in Callers, Return(c) PROVE IInv'
    BY <1>2, ReturnInv
  <1>3. ASSUME NEW p \in Promises, Fulfil(p) \/ Reject(p) PROVE IInv'
    BY <1>3, SettleInv
  <1>4. ASSUME NEW ts \in SUBSET Tags, Clear(ts) PROVE IInv'
    BY <1>4, ClearInv
  <1>5. CASE Tick \/ Write
    BY <1>5, EnvironmentInv
  <1>6. CASE UNCHANGED vars
    BY <1>6 DEF vars, IInv, TypeOK, PastOK, EntryOK, RegistryOK, CallOK, LatestCached, ServedFresh,
                OneRequestPerWindow, FulfilledCurrent
  <1> QED
    BY <1>1, <1>2, <1>3, <1>4, <1>5, <1>6 DEF Next

\* The inductive invariant holds of every reachable state.
THEOREM Invariance == Spec => []IInv
  <1> QED
    BY InitInv, NextInv, PTL DEF Spec

\* Type correctness of the memoized maps, the registry and the promises.
THEOREM TypeCorrect == Spec => []TypeOK
  <1>1. IInv => TypeOK
    BY DEF IInv
  <1> QED
    BY <1>1, Invariance, PTL

\* No call is served a promise requested before its window, whatever the sharing,
\* the expiries and the clears between.
THEOREM Freshness == Spec => []ServedFresh
  <1>1. IInv => ServedFresh
    BY DEF IInv
  <1> QED
    BY <1>1, Invariance, PTL

\* Between two clears the requests for a key are more than a ttl apart.
THEOREM SingleFlight == Spec => []OneRequestPerWindow
  <1>1. IInv => OneRequestPerWindow
    BY DEF IInv
  <1> QED
    BY <1>1, Invariance, PTL
-----------------------------------------------------------------------------
(* The memoized method implements the read of bounded staleness. *)

\* Both sides start in the same state.
LEMMA InitReads == Init => Reads!Init
  BY DEF Init, Reads!Init

\* Every step of the code is a step of the abstract read or leaves it unchanged.
LEMMA StepReads == IInv /\ [Next]_vars => [Reads!Next]_(Reads!vars)
  <1> SUFFICES ASSUME IInv, [Next]_vars PROVE [Reads!Next]_(Reads!vars)
    OBVIOUS
  <1> DEFINE From == [c \in Callers |-> IF call[c] = Idle THEN Idle ELSE call[c].from]
  <1>0. UNCHANGED call => UNCHANGED From
    OBVIOUS
  <1>t. call \in [Callers -> Await \cup {Idle}]
    BY DEF IInv, TypeOK
  <1>1. ASSUME NEW c \in Callers, NEW o \in Objects, NEW k \in Keys, Call(c, o, k)
        PROVE  Reads!Next
    <2>1. PICK p \in Promises : call' = [call EXCEPT ![c] = [promise |-> p, from |-> Oldest(o)]]
      <3>1. CASE ServeFromMap(c, o, k)
        <4>1. memo[o][k] \in Entry
          BY <3>1 DEF ServeFromMap, Hit, IInv, TypeOK
        <4>2. memo[o][k].promise \in Promises
          BY <4>1 DEF Entry
        <4> QED
          BY <3>1, <4>2 DEF ServeFromMap
      <3>2. CASE Invoke(c, o, k)
        BY <3>2 DEF Invoke
      <3> QED
        BY <1>1, <3>1, <3>2 DEF Call
    <2>2. Oldest(o) \in Int
      BY OldestBounds DEF IInv
    <2>3. [promise |-> p, from |-> Oldest(o)] # Idle
      BY <2>2, IdleAssumption
    <2>4. From' = [From EXCEPT ![c] = Reads!Oldest(o)]
      BY <2>1, <2>3, <1>t DEF Oldest, Reads!Oldest
    <2>5. From[c] = Idle
      BY <1>1 DEF Call
    <2>6. Reads!Call(c, o)
      BY <1>1, <2>4, <2>5 DEF Call, Reads!Call
    <2> QED
      BY <2>6 DEF Reads!Next
  <1>2. ASSUME NEW c \in Callers, Return(c) PROVE Reads!Next
    <2> DEFINE q == promise[call[c].promise]
    <2>1. call[c] # Idle /\ call[c] \in Await /\ call[c].from \in Int /\ q \in Promise
      BY <1>2 DEF Return, IInv, TypeOK, Await
    <2>2. From[c] # Idle
      <3>1. From[c] = call[c].from
        BY <2>1
      <3> QED
        BY <3>1, <2>1, ResultAssumption
    <2>3. From' = [From EXCEPT ![c] = Idle]
      BY <1>2, <1>t DEF Return
    <2>4. \/ result' = Failed
          \/ \E v \in DOMAIN since : Reads!CurrentAtOrAfter(v, From[c]) /\ result' = v
      <3>1. CASE q.state = "rejected"
        BY <3>1, <1>2 DEF Return
      <3>2. CASE q.state = "fulfilled"
        <4>1. result' = q.val
          BY <3>2, <1>2 DEF Return
        <4>2. q.val \in 1..Len(since) /\ (q.val = Len(since) \/ since[q.val + 1] >= q.at)
          BY <3>2, <2>1 DEF IInv, FulfilledCurrent, Await
        <4>3. q.at >= call[c].from
          BY <2>1 DEF IInv, ServedFresh
        <4>4. since \in Seq(Nat) /\ q.at \in Nat
          BY <2>1 DEF IInv, TypeOK, Promise
        <4>5. Reads!CurrentAtOrAfter(q.val, From[c])
          BY <2>1, <4>2, <4>3, <4>4 DEF Reads!CurrentAtOrAfter
        <4> QED
          BY <4>1, <4>2, <4>4, <4>5
      <3> QED
        BY <3>1, <3>2, <1>2 DEF Return
    <2>5. Reads!Return(c)
      BY <1>2, <2>2, <2>3, <2>4 DEF Return, Reads!Return
    <2> QED
      BY <2>5 DEF Reads!Next
  <1>3. ASSUME NEW p \in Promises, Fulfil(p) \/ Reject(p) PROVE UNCHANGED Reads!vars
    BY <1>3, <1>0 DEF Fulfil, Reject, Reads!vars
  <1>4. ASSUME NEW ts \in SUBSET Tags, Clear(ts) PROVE [Reads!Next]_(Reads!vars)
    <2>1. CASE ts \cap MethodTags = {}
      BY <1>4, <2>1, <1>0 DEF Clear, Reads!vars
    <2>2. CASE ts \cap MethodTags # {}
      BY <1>4, <2>2, <1>0 DEF Clear, Reads!Clear, Reads!Next
    <2> QED
      BY <2>1, <2>2
  <1>5. CASE Tick
    BY <1>5, <1>0 DEF Tick, Reads!Tick, Reads!Next
  <1>6. CASE Write
    BY <1>6, <1>0 DEF Write, Reads!Write, Reads!Next
  <1>7. CASE UNCHANGED vars
    BY <1>7, <1>0 DEF vars, Reads!vars
  <1> QED
    BY <1>1, <1>2, <1>3, <1>4, <1>5, <1>6, <1>7 DEF Next

\* A memoized client method is a read that is stale by at most the ttl and never
\* older than the last clear of its tags.
THEOREM Refinement == Spec => ImplementsTtlRead
  <1> QED
    BY InitReads, StepReads, Invariance, PTL DEF Spec, ImplementsTtlRead, Reads!Spec
=============================================================================
