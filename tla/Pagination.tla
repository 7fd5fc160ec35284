----------------------------- MODULE Pagination -----------------------------
(***************************************************************************)
(* utils/pagination_helpers.ts: paginateWithCursor, as                     *)
(* getAccountModules and getAccountResources use it, against a ledger that *)
(* grows between the pages.  Without a ledgerVersion every page is of the  *)
(* version that is the latest when the node serves that page.              *)
(***************************************************************************)
EXTENDS Integers, Sequences, FiniteSets

CONSTANTS NumKeys,     \* resources (modules) of the account, in the node's order
          Values,      \* contents of a resource
          Limit,       \* limitPerRequest
          MaxVersion,  \* bound of the ledger
          Absent, None

ASSUME SizeAssumption == NumKeys \in Nat /\ Limit \in Nat \ {0} /\ MaxVersion \in Nat \ {0}
ASSUME AbsentAssumption == Absent \notin Values
ASSUME NoneAssumption == None \notin Int /\ None \notin [items : Seq([key : 1..NumKeys, val : Values]),
                                                         next : 1..NumKeys \cup {None}]

VARIABLES ledger,    \* ledger[v]: the account at version v
          pc,        \* of the call: idle, request, response, done, failed
          version,   \* query.ledgerVersion, or None
          cursor,    \* the start parameter of the next request, or None
          response,  \* the page on its way back
          out,       \* the items collected
          first,     \* history: the latest version when the call began
          final      \* history: the latest version when its last page was served

vars == <<ledger, pc, version, cursor, response, out, first, final>>

Keys == 1..NumKeys
Item == [key : Keys, val : Values]
Account == [Keys -> Values \cup {Absent}]
Page == [items : Seq(Item), next : Keys \cup {None}]

TypeOK == /\ ledger \in Seq(Account)
          /\ pc \in {"idle", "request", "response", "done", "failed"}
          /\ version \in Nat \cup {None}
          /\ cursor \in Keys \cup {None}
          /\ response \in Page \cup {None}
          /\ out \in Seq(Item)
          /\ first \in Nat /\ final \in Nat

Init == /\ \E a \in Account : ledger = <<a>>
        /\ pc = "idle" /\ version = None /\ cursor = None
        /\ response = None /\ out = <<>>
        /\ first = 0 /\ final = 0
-----------------------------------------------------------------------------
(* The client. *)

\* The first request: the version as the caller gave it, and no cursor.
Start(v) == /\ pc = "idle"
            /\ pc' = "request" /\ version' = v /\ cursor' = None /\ out' = <<>>
            /\ first' = Len(ledger)
            /\ UNCHANGED <<ledger, response, final>>

ReceiveSkipsEmpty ==  \* mutation: an empty page starts the loop over before its cursor is read
    /\ pc = "response"
    /\ IF response.items = <<>> THEN pc' = "request" /\ UNCHANGED <<cursor, out>>
       ELSE /\ cursor' = response.next
            /\ out' = out \o response.items
            /\ pc' = IF response.next = None THEN "done" ELSE "request"
    /\ response' = None
    /\ UNCHANGED <<ledger, version, first, final>>

ReceiveStopsEarly ==  \* mutation: no third page is asked for
    /\ pc = "response"
    /\ out' = out \o response.items
    /\ cursor' = response.next
    /\ pc' = IF response.next = None \/ out # <<>> THEN "done" ELSE "request"
    /\ response' = None
    /\ UNCHANGED <<ledger, version, first, final>>

\* A page arrives: its cursor is kept, its items appended, and the loop ends
\* when there was no cursor.
Receive == /\ pc = "response"
           /\ cursor' = response.next
           /\ out' = out \o response.items
           /\ pc' = IF response.next = None THEN "done" ELSE "request"
           /\ response' = None
           /\ UNCHANGED <<ledger, version, first, final>>

\* A request that fails, on whichever page, rejects the call; nothing collected is kept.
Fail == /\ pc \in {"request", "response"}
        /\ pc' = "failed" /\ out' = <<>> /\ response' = None
        /\ UNCHANGED <<ledger, version, cursor, first, final>>
-----------------------------------------------------------------------------
(* The node. *)

ServedLatest == Len(ledger)   \* mutation: the query's version is not passed on
ServedVersion == IF version = None THEN Len(ledger) ELSE version

\* The keys a page may hold: present at that version, from the cursor on.
From(v) == {k \in Keys : ledger[v][k] # Absent /\ (cursor # None => k >= cursor)}

Ascending(s) == \A i, j \in DOMAIN s : i < j => s[i].key < s[j].key
ItemsOf(s) == {s[i] : i \in DOMAIN s}
Contents(v, ks) == {[key |-> k, val |-> ledger[v][k]] : k \in ks}

\* A page: the items before some key that remains, whose key is the cursor of
\* the next page, or all of them and no cursor.
Serve == /\ pc = "request"
         /\ LET v == ServedVersion IN
            \E n \in {None} \cup From(v), s \in UNION {[1..l -> Item] : l \in 0..Limit} :
              /\ Ascending(s)
              /\ ItemsOf(s) = Contents(v, {k \in From(v) : n # None => k < n})
              /\ n # None => s # <<>>
              /\ response' = [items |-> s, next |-> n]
         /\ pc' = "response" /\ final' = Len(ledger)
         /\ UNCHANGED <<ledger, version, cursor, out, first>>

\* A transaction that changes any of the account's resources.
Write == /\ Len(ledger) < MaxVersion
         /\ \E a \in Account : a # ledger[Len(ledger)] /\ ledger' = Append(ledger, a)
         /\ UNCHANGED <<pc, version, cursor, response, out, first, final>>

Next == \/ \E v \in 1..Len(ledger) \cup {None} : Start(v)
        \/ Receive \/ Fail \/ Serve \/ Write

Spec == Init /\ [][Next]_vars

\* The node serves every request and the response is acted upon.
FairSpec == Spec /\ WF_vars(Serve) /\ WF_vars(Receive)
-----------------------------------------------------------------------------
\* With a ledgerVersion the pages make up the account at that version, each
\* item once and in the node's order, however the ledger grew meanwhile.
PinnedSnapshot == pc = "done" /\ version # None =>
    /\ Ascending(out)
    /\ ItemsOf(out) = Contents(version, {k \in Keys : ledger[version][k] # Absent})

\* Without one, no item comes twice, an item was the latest at some version
\* between the first page and the last, and a resource that was there all the
\* time is not missed.
LatestLoosely == pc = "done" /\ version = None =>
    /\ Ascending(out)
    /\ \A i \in DOMAIN out : \E v \in first..final : ledger[v][out[i].key] = out[i].val
    /\ \A k \in Keys : (\A v \in first..final : ledger[v][k] # Absent)
                         => \E i \in DOMAIN out : out[i].key = k

\* A call ends: the cursor only moves forward.
CallEnds == pc = "request" ~> pc \in {"done", "failed"}
-----------------------------------------------------------------------------
(* The inductive strengthening of the safety properties. *)

\* The versions the pages so far may be of.
Served == IF version = None THEN first..final ELSE {version}

\* s holds the keys from lo up to hi: items of Served versions, in order, and
\* no key that was present in all of them is missing.
Covers(s, lo, hi) ==
    /\ Ascending(s)
    /\ \A i \in DOMAIN s : /\ s[i].key >= lo /\ s[i].key < hi
                           /\ \E v \in Served : ledger[v][s[i].key] = s[i].val
    /\ \A k \in lo..(hi - 1) : (\A v \in Served : ledger[v][k] # Absent)
                                 => \E i \in DOMAIN s : s[i].key = k

Bound(c, none) == IF c = None THEN none ELSE c

PagesOK ==
    /\ pc = "request" => Covers(out, 1, Bound(cursor, 1))
    /\ pc = "response" => /\ response # None
                          /\ Covers(out, 1, Bound(cursor, 1))
                          /\ Covers(response.items, Bound(cursor, 1), Bound(response.next, NumKeys + 1))
                          /\ response.next # None => response.next > Bound(cursor, 1)
    /\ pc = "done" => Covers(out, 1, NumKeys + 1)

\* The versions named exist.
VersionOK == /\ Len(ledger) >= 1
             /\ version # None => version \in 1..Len(ledger)
             /\ pc # "idle" => first \in 1..Len(ledger)
             /\ final <= Len(ledger)
             /\ pc \in {"response", "done"} => first <= final

IInv == TypeOK /\ PagesOK /\ VersionOK
=============================================================================
