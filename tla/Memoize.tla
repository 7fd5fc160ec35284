------------------------------- MODULE Memoize -------------------------------
(***************************************************************************)
(* utils/memoize-decorator.ts: one memoized async method on a set of       *)
(* objects (MoveupClient.estimateGasPrice, MoveupClient.getChainId,        *)
(* TransactionBuilderRemoteABI.fetchABI), the tag registry, and clear().   *)
(*                                                                         *)
(* The body of the decorated method is a request: calling it creates a     *)
(* promise at once; the node settles it in a later turn of the event loop. *)
(* What is cached is the promise, so callers share a pending one, and a    *)
(* rejected one is served like any other.                                  *)
(***************************************************************************)
EXTENDS Integers, Sequences

CONSTANTS Objects,     \* values of `this`
          Keys,        \* values of args[0]
          Callers,     \* tasks that call the method and await the result
          Promises,    \* promise identities, reused once unreachable
          Tags,        \* every tag a program passes to clear()
          MethodTags,  \* the tags option of the decorator
          Ttl,         \* the ttlMs option, in clock units; 0: no expiry
          MaxTime, MaxVersion,  \* bounds of the clock and of the ledger
          None, Idle, Failed

ASSUME TtlAssumption == Ttl \in Nat
ASSUME BoundAssumption == MaxTime \in Nat /\ MaxVersion \in Nat
ASSUME TagAssumption == MethodTags \subseteq Tags
ASSUME NoneAssumption == None \notin Promises /\ None \notin [promise : Promises, stamp : Nat]
ASSUME IdleAssumption == Idle \notin [promise : Promises, from : Int]
ASSUME ResultAssumption == Idle \notin Int /\ Failed \notin Nat /\ Idle # Failed

VARIABLES now,         \* Date.now()
          since,       \* ledger history: since[v] is when version v appeared
          memo,        \* memo[o][k]: the object's map, value and timestamp
          registered,  \* clearCacheTagsMap: the objects whose map a tag lists
          promise,     \* the promises of the method's body
          call,        \* what each caller awaits
          clearedAt,   \* history: when an object's entries were last cleared
          result       \* history: what each caller's last await gave

vars == <<now, since, memo, registered, promise, call, clearedAt, result>>

Entry == [promise : Promises, stamp : Nat]
PromiseState == {"unused", "pending", "fulfilled", "rejected"}
Promise == [state : PromiseState, obj : Objects \cup {None}, key : Keys \cup {None},
            at : Nat, val : Nat]
Await == [promise : Promises, from : Int]

TypeOK == /\ now \in Nat
          /\ since \in Seq(Nat)
          /\ memo \in [Objects -> [Keys -> Entry \cup {None}]]
          /\ registered \in [Tags -> SUBSET Objects]
          /\ promise \in [Promises -> Promise]
          /\ call \in [Callers -> Await \cup {Idle}]
          /\ clearedAt \in [Objects -> Nat]
          /\ result \in Nat \cup {Idle, Failed}

Init == /\ now = 1
        /\ since = <<1>>
        /\ memo = [o \in Objects |-> [k \in Keys |-> None]]
        /\ registered = [t \in Tags |-> {}]
        /\ promise = [p \in Promises |-> [state |-> "unused", obj |-> None, key |-> None,
                                          at |-> 0, val |-> 0]]
        /\ call = [c \in Callers |-> Idle]
        /\ clearedAt = [o \in Objects |-> 0]
        /\ result = Idle
-----------------------------------------------------------------------------
\* Date.now() - timestamp > ttlMs, only looked at when the method has a ttl.
ExpiredLate(e) == Ttl > 0 /\ now - e.stamp > Ttl + 1   \* mutation: off by one
Expired(e) == Ttl > 0 /\ now - e.stamp > Ttl

HitSettled(o, k) == /\ memo[o][k] # None /\ ~Expired(memo[o][k])   \* mutation: cached once settled
                    /\ promise[memo[o][k].promise].state # "pending"
Hit(o, k) == memo[o][k] # None /\ ~Expired(memo[o][k])

\* The oldest moment a call made now may see: the contract, not the code.
Oldest(o) == IF Ttl = 0 \/ clearedAt[o] > now - Ttl THEN clearedAt[o] ELSE now - Ttl

\* No map and no task can reach p, and no response to it is outstanding.
Free(p) == /\ promise[p].state # "pending"
           /\ \A o \in Objects, k \in Keys : memo[o][k] # None => memo[o][k].promise # p
           /\ \A c \in Callers : call[c] # Idle => call[c].promise # p

RegisterLast(o) ==   \* mutation: set instead of push
    registered' = [t \in Tags |-> IF t \in MethodTags THEN {o} ELSE registered[t]]
Register(o) == registered' = [t \in Tags |-> IF t \in MethodTags THEN registered[t] \cup {o}
                                                                 ELSE registered[t]]

ServeFromMap(c, o, k) ==
    /\ Hit(o, k)
    /\ call' = [call EXCEPT ![c] = [promise |-> memo[o][k].promise, from |-> Oldest(o)]]
    /\ UNCHANGED <<memo, promise>>

\* Mutation: the entry keeps the timestamp of the promise it replaces.
InvokeKeepsStamp(c, o, k) ==
    /\ ~Hit(o, k)
    /\ \E p \in Promises :
         /\ Free(p)
         /\ promise' = [promise EXCEPT ![p] = [state |-> "pending", obj |-> o, key |-> k,
                                               at |-> now, val |-> 0]]
         /\ memo' = [memo EXCEPT ![o][k] =
                       [promise |-> p, stamp |-> IF @ = None THEN now ELSE @.stamp]]
         /\ call' = [call EXCEPT ![c] = [promise |-> p, from |-> Oldest(o)]]

\* The promise is stored, with its timestamp, before it settles.
Invoke(c, o, k) ==
    /\ ~Hit(o, k)
    /\ \E p \in Promises :
         /\ Free(p)
         /\ promise' = [promise EXCEPT ![p] = [state |-> "pending", obj |-> o, key |-> k,
                                               at |-> now, val |-> 0]]
         /\ memo' = [memo EXCEPT ![o][k] = [promise |-> p, stamp |-> now]]
         /\ call' = [call EXCEPT ![c] = [promise |-> p, from |-> Oldest(o)]]

\* A call of the memoized method: the map is registered on every call, before the lookup.
Call(c, o, k) == /\ call[c] = Idle
                 /\ Register(o)
                 /\ ServeFromMap(c, o, k) \/ Invoke(c, o, k)
                 /\ UNCHANGED <<now, since, clearedAt, result>>

\* The node answers with the ledger as it is when the answer is computed.
Fulfil(p) == /\ promise[p].state = "pending"
             /\ promise' = [promise EXCEPT ![p] = [@ EXCEPT !.state = "fulfilled", !.val = Len(since)]]
             /\ UNCHANGED <<now, since, memo, registered, call, clearedAt, result>>

\* A network error or an error status: the promise rejects and stays in the map.
Reject(p) == /\ promise[p].state = "pending"
             /\ promise' = [promise EXCEPT ![p] = [@ EXCEPT !.state = "rejected"]]
             /\ UNCHANGED <<now, since, memo, registered, call, clearedAt, result>>

\* Mutation: an answer reaches the caller only while it is the cached one.
ReturnCached(c) ==
    /\ call[c] # Idle
    /\ LET p == promise[call[c].promise] IN
         /\ p.state \in {"fulfilled", "rejected"}
         /\ memo[p.obj][p.key] # None => memo[p.obj][p.key].promise = call[c].promise
         /\ result' = IF p.state = "fulfilled" THEN p.val ELSE Failed
    /\ call' = [call EXCEPT ![c] = Idle]
    /\ UNCHANGED <<now, since, memo, registered, promise, clearedAt>>

\* The awaiting task resumes.
Return(c) == /\ call[c] # Idle
             /\ LET p == promise[call[c].promise] IN
                  /\ p.state \in {"fulfilled", "rejected"}
                  /\ result' = IF p.state = "fulfilled" THEN p.val ELSE Failed
             /\ call' = [call EXCEPT ![c] = Idle]
             /\ UNCHANGED <<now, since, memo, registered, promise, clearedAt>>

\* clear(tags): the maps listed under those tags are emptied.
Listed(ts) == UNION {registered[t] : t \in ts}

Clear(ts) ==
    /\ memo' = [o \in Objects |-> IF o \in Listed(ts) THEN [k \in Keys |-> None] ELSE memo[o]]
    /\ clearedAt' = IF ts \cap MethodTags = {} THEN clearedAt ELSE [o \in Objects |-> now]
    /\ UNCHANGED <<now, since, registered, promise, call, result>>

Tick == /\ now < MaxTime
        /\ now' = now + 1
        /\ UNCHANGED <<since, memo, registered, promise, call, clearedAt, result>>

Write == /\ Len(since) < MaxVersion
         /\ since' = Append(since, now)
         /\ UNCHANGED <<now, memo, registered, promise, call, clearedAt, result>>

Next == \/ \E c \in Callers, o \in Objects, k \in Keys : Call(c, o, k)
        \/ \E c \in Callers : Return(c)
        \/ \E p \in Promises : Fulfil(p) \/ Reject(p)
        \/ \E ts \in SUBSET Tags : Clear(ts)
        \/ Tick \/ Write

Spec == Init /\ [][Next]_vars

\* The node settles every request, one way or the other, and a settled await resumes.
FairSpec == /\ Spec
            /\ \A p \in Promises : WF_vars(Fulfil(p) \/ Reject(p))
            /\ \A c \in Callers : WF_vars(Return(c))
-----------------------------------------------------------------------------
\* A call is never served a promise whose request is older than the call's
\* window: at most Ttl before the call and not before the last clear() of the
\* method's tags, however many callers share the promise
\* (memoize-decorator.ts, isExpired and clear).
ServedFresh == \A c \in Callers :
    call[c] # Idle => promise[call[c].promise].at >= call[c].from

\* Requests of one object and key made after its last clear() are more than Ttl
\* apart: callers share one request per window, pending or settled, and a
\* response that comes late does not cause another.
OneRequestPerWindow == \A p, q \in Promises :
    LET a == promise[p]  b == promise[q] IN
    (/\ p # q /\ a.state # "unused" /\ b.state # "unused"
     /\ a.obj = b.obj /\ a.key = b.key /\ a.at <= b.at
     /\ a.at > clearedAt[a.obj])
    => Ttl > 0 /\ b.at - a.at > Ttl

\* A fulfilled promise holds a version that was current when, or after, its
\* request was made.
FulfilledCurrent == \A p \in Promises :
    promise[p].state = "fulfilled" =>
        /\ promise[p].val \in 1..Len(since)
        /\ promise[p].val = Len(since) \/ since[promise[p].val + 1] >= promise[p].at

\* The memoized method is a read of bounded staleness.
Reads == INSTANCE TtlRead WITH from <- [c \in Callers |-> IF call[c] = Idle THEN Idle
                                                          ELSE call[c].from]
ImplementsTtlRead == Reads!Spec

\* Every call returns, if the node settles every request: a promise displaced
\* from the map by expiry or by clear() still reaches the callers that hold it.
CallsReturn == \A c \in Callers : call[c] # Idle ~> call[c] = Idle

-----------------------------------------------------------------------------
(* The inductive strengthening of the safety properties. *)

\* The ledger has a version, and nothing recorded lies in the future.
PastOK == /\ Len(since) >= 1
          /\ \A p \in Promises : promise[p].at <= now
          /\ \A o \in Objects : clearedAt[o] <= now

\* An entry of a map belongs to a request for its object and key, made since
\* the last clear(), and the map is listed under every tag of the method.
EntryOK == \A o \in Objects, k \in Keys :
    memo[o][k] # None =>
        LET q == promise[memo[o][k].promise] IN
        /\ q.state # "unused" /\ q.obj = o /\ q.key = k
        /\ q.at = memo[o][k].stamp /\ q.at >= clearedAt[o]
        /\ \A t \in MethodTags : o \in registered[t]

\* No other tag lists the map.
RegistryOK == \A t \in Tags \ MethodTags : registered[t] = {}

CallOK == \A c \in Callers :
    call[c] # Idle => promise[call[c].promise].state # "unused"

\* A request made since the last clear() has an entry at least as recent.
LatestCached == \A p \in Promises :
    LET q == promise[p] IN
    q.state # "unused" =>
        /\ q.obj \in Objects /\ q.key \in Keys
        /\ q.at > clearedAt[q.obj] => /\ memo[q.obj][q.key] # None
                                     /\ memo[q.obj][q.key].stamp >= q.at

IInv == /\ TypeOK /\ PastOK /\ EntryOK /\ RegistryOK /\ CallOK /\ LatestCached
        /\ ServedFresh /\ OneRequestPerWindow /\ FulfilledCurrent
=============================================================================
