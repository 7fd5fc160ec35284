------------------------------- MODULE TtlRead -------------------------------
(***************************************************************************)
(* What a memoized client method promises its caller: a read of the remote *)
(* ledger that is stale by at most Ttl, and never staler than the last     *)
(* clearing of the cache.  A call either fails or returns a version that   *)
(* was the current one at some moment of [from, return], where from is     *)
(* fixed when the call is made.  How promises are shared is not visible.   *)
(***************************************************************************)
EXTENDS Integers, Sequences

CONSTANTS Objects,    \* the client objects that carry the method
          Callers,    \* the tasks that call it
          Ttl,        \* staleness bound; 0 means "until cleared"
          Idle, Failed

VARIABLES now,        \* wall clock
          since,      \* since[v] is when ledger version v became current
          clearedAt,  \* when the cache of an object was last cleared
          from,       \* from[c]: oldest moment the pending call of c may see
          result      \* what the last call to return gave

vars == <<now, since, clearedAt, from, result>>

Oldest(o) == IF Ttl = 0 \/ clearedAt[o] > now - Ttl THEN clearedAt[o] ELSE now - Ttl

CurrentAtOrAfter(v, t) == v = Len(since) \/ since[v + 1] >= t

Init == /\ now = 1
        /\ since = <<1>>
        /\ clearedAt = [o \in Objects |-> 0]
        /\ from = [c \in Callers |-> Idle]
        /\ result = Idle

Tick == now' = now + 1 /\ UNCHANGED <<since, clearedAt, from, result>>

Write == since' = Append(since, now) /\ UNCHANGED <<now, clearedAt, from, result>>

Clear == /\ clearedAt' = [o \in Objects |-> now]
         /\ UNCHANGED <<now, since, from, result>>

Call(c, o) == /\ from[c] = Idle
              /\ from' = [from EXCEPT ![c] = Oldest(o)]
              /\ UNCHANGED <<now, since, clearedAt, result>>

Return(c) == /\ from[c] # Idle
             /\ \/ result' = Failed
                \/ \E v \in DOMAIN since :
                     /\ CurrentAtOrAfter(v, from[c])
                     /\ result' = v
             /\ from' = [from EXCEPT ![c] = Idle]
             /\ UNCHANGED <<now, since, clearedAt>>

Next == \/ Tick \/ Write \/ Clear
        \/ \E c \in Callers : Return(c) \/ \E o \in Objects : Call(c, o)

Spec == Init /\ [][Next]_vars
=============================================================================
