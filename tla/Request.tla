------------------------------ MODULE Request ------------------------------
(***************************************************************************)
(* generated/core/request.ts and CancelablePromise.ts: one request of a    *)
(* generated service, from the call to the settled promise, with cancel()  *)
(* called at any moment.  Every await is a place where cancel(), the node  *)
(* or the network may step in.                                             *)
(***************************************************************************)
EXTENDS Naturals

VARIABLES at,        \* of the executor: the await it is at
          resolvers, \* how many of TOKEN, USERNAME, PASSWORD, HEADERS have resolved
          fetch,     \* config.USEFETCHADAPTER: the adapter is imported first
          flags,     \* which of _isResolved, _isRejected, _isCancelled are set
          handlers,  \* whether _cancelHandlers holds the handler of sendRequest
          token,     \* the axios CancelToken: whether source.cancel() was called
          wire,      \* the request on the network
          executed,  \* whether the node has acted on it
          settled    \* the promise the caller awaits

requestVars == <<at, resolvers, fetch, flags, handlers, token, wire, executed, settled>>

Answers == {"ok", "httpError", "netError"}

RequestTypeOK == /\ at \in {"idle", "headers", "import", "queued", "flight", "end"}
                 /\ resolvers \in 0..4 /\ fetch \in BOOLEAN
                 /\ flags \subseteq {"resolved", "rejected", "cancelled"}
                 /\ handlers \in BOOLEAN /\ token \in BOOLEAN /\ executed \in BOOLEAN
                 /\ wire \in {"unsent", "sent"} \cup Answers
                 /\ settled \in {"none", "value", "error", "cancelError"}

RequestInit == /\ at = "idle" /\ resolvers = 0 /\ fetch \in BOOLEAN
               /\ flags = {} /\ handlers = FALSE /\ token = FALSE
               /\ wire = "unsent" /\ executed = FALSE
               /\ settled = "none"
-----------------------------------------------------------------------------
(* CancelablePromise. *)

\* The native promise takes the first settlement and ignores the rest.
Settle(s) == settled' = IF settled = "none" THEN s ELSE settled

OnResolveUnguarded ==   \* mutation: the flags are not looked at
    flags' = flags \cup {"resolved"} /\ Settle("value")
OnResolve == IF flags # {} THEN UNCHANGED <<flags, settled>>
                           ELSE flags' = {"resolved"} /\ Settle("value")

OnReject == IF flags # {} THEN UNCHANGED <<flags, settled>>
                          ELSE flags' = flags \cup {"rejected"} /\ Settle("error")

OnCancelNever == UNCHANGED handlers   \* mutation: the handler is not kept
OnCancel == handlers' = (handlers \/ flags = {})

CancelLeavesPending ==  \* mutation: without handlers the promise is not rejected
    /\ at # "idle" /\ flags = {}
    /\ flags' = flags \cup {"cancelled"}
    /\ token' = (token \/ handlers)
    /\ IF handlers THEN Settle("cancelError") ELSE UNCHANGED settled
    /\ handlers' = FALSE
    /\ UNCHANGED <<at, resolvers, fetch, wire, executed>>

\* cancel(): runs the handlers, forgets them and rejects.
Cancel == /\ at # "idle" /\ flags = {}
          /\ flags' = flags \cup {"cancelled"}
          /\ token' = (token \/ handlers)
          /\ handlers' = FALSE
          /\ Settle("cancelError")
          /\ UNCHANGED <<at, resolvers, fetch, wire, executed>>
-----------------------------------------------------------------------------
(* request() and sendRequest(). *)

Call == /\ at = "idle"
        /\ at' = "headers"
        /\ UNCHANGED <<resolvers, fetch, flags, handlers, token, wire, executed, settled>>

\* getHeaders awaits the four resolvers of the config one after the other.
Resolve == /\ at = "headers" /\ resolvers < 4
           /\ resolvers' = resolvers + 1
           /\ UNCHANGED <<at, fetch, flags, handlers, token, wire, executed, settled>>

\* One of them rejects, or the import does.
PrepareFails == /\ \/ at = "headers" /\ resolvers < 4
                   \/ at = "import"
                /\ at' = "end" /\ OnReject
                /\ UNCHANGED <<resolvers, fetch, handlers, token, wire, executed>>

\* The handler is registered and axios.request called.
Enqueue == at' = "queued" /\ OnCancel

HeadersReadyUnchecked ==   \* mutation: isCancelled is not looked at
    /\ at = "headers" /\ resolvers = 4
    /\ IF fetch THEN at' = "import" /\ UNCHANGED handlers ELSE Enqueue
    /\ UNCHANGED <<resolvers, fetch, flags, token, wire, executed, settled>>

\* The headers are there: a request cancelled by now is not sent.
HeadersReady ==
    /\ at = "headers" /\ resolvers = 4
    /\ \/ "cancelled" \in flags /\ at' = "end" /\ UNCHANGED handlers
       \/ "cancelled" \notin flags /\ fetch /\ at' = "import" /\ UNCHANGED handlers
       \/ "cancelled" \notin flags /\ ~fetch /\ Enqueue
    /\ UNCHANGED <<resolvers, fetch, flags, token, wire, executed, settled>>

\* The import resolves; isCancelled is not looked at again.
ImportReady == /\ at = "import" /\ Enqueue
               /\ UNCHANGED <<resolvers, fetch, flags, token, wire, executed, settled>>

\* The response, the failure or the abort reaches the executor.
Arrive == /\ at = "flight" /\ (wire \in Answers \/ (token /\ ~fetch))
          /\ IF wire = "ok" /\ ~token THEN OnResolve ELSE OnReject
          /\ at' = "end"
          /\ UNCHANGED <<resolvers, fetch, handlers, token, wire, executed>>
-----------------------------------------------------------------------------
(* axios, the network and the node. *)

\* axios runs the interceptors and sends, unless the token is cancelled by then.
Dispatch == /\ at = "queued"
            /\ \/ /\ token /\ at' = "end" /\ OnReject
                  /\ UNCHANGED wire
               \/ /\ ~token /\ at' = "flight" /\ wire' = "sent"
                  /\ UNCHANGED <<flags, settled>>
            /\ UNCHANGED <<resolvers, fetch, handlers, token, executed>>

NodeExecutes == /\ wire = "sent" /\ ~executed
                /\ executed' = TRUE
                /\ UNCHANGED <<at, resolvers, fetch, flags, handlers, token, wire, settled>>

\* The answer of the node, or a connection that fails before or after it acted.
Answer == /\ wire = "sent"
          /\ \E a \in Answers : (a = "ok" => executed) /\ wire' = a
          /\ UNCHANGED <<at, resolvers, fetch, flags, handlers, token, executed, settled>>

Executor == Resolve \/ PrepareFails \/ HeadersReady \/ ImportReady \/ Dispatch \/ Arrive

RequestNext == Call \/ Cancel \/ Executor \/ NodeExecutes \/ Answer

RequestSpec == RequestInit /\ [][RequestNext]_requestVars

\* Awaits resume, and the node answers every request.
FairRequest == RequestSpec /\ WF_requestVars(Executor) /\ WF_requestVars(Answer)
-----------------------------------------------------------------------------
(* Properties. *)

\* The three flags, the settled promise and the network tell one story: at most
\* one flag is set, it says how the promise settled, and a value is only given
\* for a request the node executed and nobody cancelled, however late the
\* answer to a cancelled request comes.
OneFate == /\ settled = "none" <=> flags = {}
           /\ settled = "error" <=> flags = {"rejected"}
           /\ settled = "value" <=> flags = {"resolved"}
           /\ settled = "cancelError" <=> flags = {"cancelled"}
           /\ settled = "value" => executed /\ wire = "ok"

\* A cancelled request on its way is aborted, unless it was cancelled while the
\* fetch adapter was being imported: sendRequest registers its handler after
\* that await.
AbortReaches == "cancelled" \in flags /\ at \in {"queued", "flight"} /\ ~token => fetch

\* A request cancelled before it was sent is not sent, with the same exception.
CancelStops ==
    [][~fetch /\ "cancelled" \in flags /\ wire = "unsent" => wire' = "unsent"]_requestVars

\* A call settles: a cancelled one at once, another with its answer.
Settles == at = "headers" ~> settled # "none"
-----------------------------------------------------------------------------
(* The inductive strengthening of the safety properties. *)

\* What has happened by the time the executor stands at its await.
StageOK == /\ at = "idle" => flags = {}
           /\ at # "end" => flags \in {{}, {"cancelled"}}
           /\ at \in {"idle", "headers", "import", "queued"} => wire = "unsent"
           /\ wire = "ok" => executed
           /\ at = "import" => fetch

\* Until the request has ended or was cancelled, its handler is there to abort it.
HandlerOK == at \in {"queued", "flight"} /\ flags = {} => handlers

RequestInv == RequestTypeOK /\ OneFate /\ AbortReaches /\ StageOK /\ HandlerOK
=============================================================================
