# Verification of the MoveUp TypeScript SDK

TLA+ models of the parts of the SDK in `src/src` that have state and an order of
events, checked by TLC on small instances and, for safety, proved by TLAPS for
every value of the constants. Paths below are relative to `src/src` unless they
start with `tests`; `file.ts:n` is a line of a source file.

The SDK is a client library: it keeps little state of its own, and what is hard
about it is what happens *between* its awaits. Every `await` is a point where the
clock, the chain, another call of the same program or the network may step in.
The modules therefore have one action per stretch of code between two awaits, and
actions for the node, the chain, the network and the clock.

## 1. Inventory

| Component | Source | State | Operations | Talks to |
|---|---|---|---|---|
| Transaction life cycle | `providers/moveup_client.ts`, `utils/misc.ts` (`sleep`) | per call: the reads of `Promise.all`, the signed transaction, `isPending`, `count`, `lastTxn` | `generateRawTransaction`, `generateSignSubmitTransaction`, `submitSignedBCSTransaction`, `waitForTransaction(WithResult)`, `generateSignSubmitWaitForTransaction`, `generateTransaction`, `rotateAuthKeySecp256k1`, `transactionPending`, `simulateTransaction`, `publishPackage` | memoized reads, ABI builder, generated services |
| Memoized reads | `utils/memoize-decorator.ts`; users `moveup_client.ts:686,817`, `builder.ts:596` | a map of promises and timestamps per object; the process-wide `clearCacheTagsMap` | the decorated method, `clear(tags)` | the wrapped request |
| Pagination | `utils/pagination_helpers.ts` | `out`, `cursor` | `paginateWithCursor` | accounts service |
| HTTP request core | `generated/core/request.ts`, `CancelablePromise.ts`, `ApiError.ts` | three flags and the handler list of a promise; a cookie jar shared by all clients | `request`, `sendRequest`, `cancel`, `CookieJar` | axios, the node |
| Error wrapping | `moveup_client.ts` (`parseApiError`) | none | wraps an `ApiError` | all client methods |
| Transaction builders | `transaction_builder/builder.ts` | `abiMap`, `builderConfig`, memoized ABI | `fetchABI`, `build`, `buildTransactionPayload`, `rawToSigned`, `getEip712TypedData` | `MoveupClient`, ABI conversion, BCS, eth-sig-util |
| ABI argument conversion | `transaction_builder/builder_utils.ts`, `moveup_types/abi.ts` | none | `serializeArg`, `argToTransactionArgument`, `ensure*` | BCS, type tags |
| BCS | `bcs/*.ts` | buffer and offset of a `Serializer` / `Deserializer` | one write and one read per type | all types |
| Type tags | `moveup_types/type_tag.ts` | parser position | `TypeTagParser.parseTypeTag`, `serialize`, `deserialize` | BCS, builders |
| Transaction, authenticator and key types | `moveup_types/*.ts` | none (immutable) | `serialize`, `deserialize`, `createBitmap` | BCS |
| Accounts, key derivation, hex strings | `account/`, `utils/hd-key.ts`, `utils/hex_string.ts` | a key pair | sign, verify, derive | cryptographic libraries |
| Faucet client | `plugins/faucet_client.ts` | none | `fundAccount` | life cycle (several waits) |
| Name service client | `plugins/ans_client.ts` | none | lookup, `mintMoveupName` | builder, tables |
| Coin client | `plugins/coin_client.ts` | none | `transfer`, `checkBalance` | ABI builder |
| Token client, token property map | `plugins/token_client.ts`, `plugins/moveup_token.ts`, `utils/property_map_serde.ts` | none | one payload per method, `getTokenForAccount` | life cycle, tables, BCS |
| Rollup bridge | `utils/rollup.ts`, `utils/abi.ts` | none; the chains keep it | deposits, withdrawals, message relay | L1 provider, `MoveupClient` |
| Provider, indexer | `providers/provider.ts`, `providers/indexer.ts`, `indexer/generated` | none | delegation, GraphQL queries | `MoveupClient`, indexer |
| Generated services and models | `generated/services`, `generated/models` | none | one request each | request core |

What is hard in each, and the property that makes it correct:

* **Life cycle** – concurrent calls share a sequence number; a post may be accepted
  and its response lost; a replica may lag; the client counts sleeps while the
  chain looks at an expiration timestamp. Correct when a call reports only what the
  chain decided, a timeout is final, at most one call per sequence number reports a
  committed transaction, and every call ends.
* **Memoized reads** – the *promise* is cached, so callers share pending and
  rejected requests; time passes and `clear()` comes between call and answer.
  Correct when staleness is bounded by the ttl and by the last `clear()`, one
  request is made per window, and a displaced promise still reaches its callers.
* **Pagination** – the ledger grows between pages. Correct when a pinned call
  returns exactly the account at its version, and an unpinned one at least misses
  nothing that was there throughout and repeats nothing.
* **Request core** – `cancel()` at any await. Correct when a promise settles once and
  as its flags say, and a cancelled request is aborted or never sent.
* **ABI builder, rotation** – clock and account are read before an await and used
  after it. Correct when an expiration drifts by no more than the reads took, and a
  stale rotation proof never passes for a success.
* **BCS, type tags, types** – widths, boundaries of uleb128, symmetry of `serialize`
  and `deserialize`. Correct when reading gives what was written.
* **Arguments, type texts, property maps** – a JavaScript value of the wrong kind, at the
  edge of a width, or written as text, goes through `parseInt`, `BigInt`, a range check and
  one of three converters. Correct when what is sent is what the caller meant, or refused.
* **Signing** – a transaction is signed as a structure put together by hand, not as its bytes.
  Correct when the message determines the transaction.
* **Plugins, rollup, indexer** – several requests in a row with other actors in between; one
  of several failing. Correct when what a method reports is what the chain held, and a
  value is put together only from answers.

`PROJECT.json` lists the hazards at their lines with the properties that cover them.

## 2. Modules

| Module | Models | Role |
|---|---|---|
| `TtlRead` | – | abstract: a read of bounded staleness |
| `Memoize` | `memoize-decorator.ts` | the decorated method, the tag registry, `clear()`; implements `TtlRead` |
| `MCMemoize` | – | instances of `Memoize` for TLC, and the retrying callers of `chain_id` |
| `MemoizeProofs` | – | theorems about `Memoize` |
| `TxnOutcome` | – | abstract: what the caller of `generateSignSubmitWaitForTransaction` may rely on |
| `TxnFlow` | `moveup_client.ts:559-815` | the life cycle with node, chain, network, clock; implements `TxnOutcome` |
| `TxnFlowProofs` | – | theorems about `TxnFlow` |
| `TxnBuild` | `moveup_client.ts:286-311,850-899`, `builder.ts:589-692,547-571`, `coin_client.ts:44-76` | sequence number and expiration of transactions built across awaits |
| `TxnBuildProofs` | – | theorems about `TxnBuild` |
| `Pagination` | `pagination_helpers.ts` | paging over a growing ledger |
| `Request` | `request.ts`, `CancelablePromise.ts` | one cancelable request |
| `MCReads` | – | instances of `Pagination`, `Request` and `TxnBuild` for TLC |
| `ReadsProofs` | – | theorems about `Request` and `Pagination` |
| `Layouts` | `moveup_types/transaction.ts`, `type_tag.ts`, `authenticator.ts`, `abi.ts`, the secp256k1 keys, over `bcs/*.ts` | the wire format: every `serialize` against its `deserialize` |
| `MCLayouts` | – | the roots and bounds of `Layouts` for TLC |
| `LayoutsProofs` | – | theorems about `Layouts`, for values of any size |
| `TypeTags` | `type_tag.ts` (tokenizer, `TypeTagParser`, `TypeTagToString`) | type texts as operators |
| `Arguments` | `builder_utils.ts`, the range checks of `bcs`, `property_map_serde.ts` | the three argument converters and the property maps as operators |
| `Signing` | `builder.ts:186-375`, the texts and EIP-712 types of `transaction.ts` | the message that is signed |
| `Payloads` | `builder.ts` (`TransactionBuilder`, `TransactionBuilderABI`) | one type and its values through parser, converters, payload, message; one property through its map |
| `MCPayloads` | – | the types, values and type arguments of `Payloads` for TLC |
| `TypeTagsProofs` | – | lemmas about the parser and printer of types, and about sequences |
| `PayloadsProofs` | – | theorems about the conversions and messages, for types and values of any depth |
| `Clients` | the await structure of every client method, with node, indexer, faucet, chain | calls that run a plan of requests over a moving ledger |
| `ClientPlans` | `moveup_client.ts`, `indexer.ts`, `ans_client.ts`, `token_client.ts`, `moveup_token.ts`, `coin_client.ts`, `faucet_client.ts`, `rollup.ts`, `generated/services` | the plan of every method |
| `MCClients` | – | the plans and ledgers of `Clients` for TLC |
| `ClientsProofs` | – | theorems about `Clients`, for any plans |

`Clients` is over the others: what it calls one answer that comes or fails (a wait, a memoized
read, a request) is what `TxnFlow`, `Memoize` and `Request` have inside. `Payloads` stands on
`Signing`, `Arguments` and `TypeTags`, each of which extends the next.

### How state and actions correspond to the code

**Memoize.** `memo[o][k]` is the object's map with its timestamp map, `registered[t]`
the list `clearCacheTagsMap.get(t)` (as a set: `clear()` does the same to a map
listed twice), `promise` the promises the method body returned, `call[c]` what
caller `c` awaits. `Call` is the whole synchronous wrapper: register under every tag,
look up (`Hit`, `Expired`), serve the cached promise or invoke the method and store
its promise at once. `Fulfil` and `Reject` are the node's answer, `Return` the
resumption of an awaiting caller. The three ways of computing a key (hash function,
first argument, `this`) are one, since the key is a parameter. Promise identities
are reused when nothing refers to them (`Free`), which keeps the instance finite.

**TxnFlow.** `pc[f]` is the await at which call `f` stands: `gather` is the
`Promise.all` of line 720, `submit` the post, `poll` and `sleep` the loop of lines
606-628. `Reads(f)` are the requests made (no gas estimate when the caller gives a
price). `BuildAndSubmit` is the code from line 726 to the post; `LoopHead` the test of the
`while` with `count >= timeoutSecs`; `PollReturns` the `try` block with its three ends;
`Expire` what follows the loop with `isPending` still true; `PollOutcome` the
`checkSuccess` test. The node admits or refuses a post, answers a poll from a replica
that may lag, commits in sequence order before the expiration, and drops. A request's
effect and its response are separate (`NodeAdmits`, then `SubmitReturns`, with
`ConnectionFails` in between), so a lost response is a reachable state.

**TxnBuild.** Three kinds of call of one account: `Generated` (`generateTransaction`),
`Coin` (`CoinClient.transfer`) and `Rotations` (`rotateAuthKeySecp256k1`). `fromNow` is
`builderConfig.expSecFromNow`, computed at the call (`ConfiguredFromNow`) and added to the
clock at `Build`; `proof` is the sequence number in the signed challenge, `seqRead` the
one `Promise.all` gave. The chain executes a rotation successfully only when its proof
is for the number it is executed at.

**Pagination.** `cursor`, `out` are the function's variables; `Receive` is the loop body
after the await. The node's `Serve` gives any page that starts at the cursor, keeps the
node's order and names the next key. `ledger[v]` is the account at version `v`.

**Request.** `flags` are `_isResolved`, `_isRejected`, `_isCancelled`; `at` the await at which
the executor stands: the four resolvers of `getHeaders`, the import of the fetch
adapter, axios' queue of interceptors, the flight. `Enqueue` registers the cancel handler
and calls axios in one step, as the code does.

**Layouts.** A class is a record of its variant index, the fields its `serialize` writes and
the fields its `deserialize` or `load` reads; the `switch` of an abstract class is a sequence
indexed by the variant. Writing and reading are two interpreters over these tables: `stack` is
what the nested calls still have to do, `bytes` and `pos` the buffer and offset, `written` and
`got` the fields in the order they passed. `Put` and `Take` are `Serializer.serialize` and
`Deserializer.read`, `Throw` the three ways a read fails: the end of the buffer, an unknown
index, a value a constructor refuses. Between the two, `Hand` may cut the encoding short. Bytes are
real bytes, so lengths of two bytes and fields read at a wrong offset show. Each entry of a log
says where it ends and what is left to do after it, so that equal logs mean equal objects in the
same bytes. The constants bound a value for TLC only: the roots and their `Fuel`, the lengths of
texts and the numbers of keys, the contents tried (`Samples`), the cuts.

**TypeTags, Arguments, Signing.** Pure code, so operators: one per method, with the
method's name where there is one. A type's text is the sequence of its tokens; a parser method maps the
tokens to a tag and the tokens left over, or to `Invalid` where the code throws. Types, values and
what they are converted to are nested up to `Depth`, and a method that calls itself is a recursive
function on them (`ToEntryFunctionArgument[tag][value]`), so that it can be proved about. A
JavaScript value is a record of its `typeof` and its content; a string is a text, or a
text *that is read as* a number, a truth value or an address. TLC's integers have 32 bits, so numbers to
65 536 are themselves and the larger ones are points in order: the limit of each width, its
successor, and 2^53 with its neighbours, with `Double` the rounding of `Number()`. What
eth-sig-util does with a message (`Encoded`) is external, modelled from its use at
`builder.ts:340`.

**Payloads.** `Parse` is `new TypeTagParser(text, tyTags).parseTypeTag()`, `Construct` the
constructor of `TransactionBuilderABI`, `Build` is `build` with `buildTransactionPayload`, and
`BuildRival` a second transaction of the same function that differs from the first in its argument
or its type arguments. `WriteProperty` and `ReadBack` are `getPropertyValueRaw` and
`deserializePropertyMap`.

**Clients.** A method is a plan: a sequence of stages, one per `await`, each the set of requests sent
together (`Promise.all`). A request says what is asked for, at which version (the latest, the
one the caller pins, or any past one: the indexer, a cache), and what the code does when the
thing is there, is missing (404), or the request fails: go on, throw, give `null`, or give the error
back. `Start` sends the first stage; `Receive` is the code after an `await`, with its three ends; `Refuse` the
argument checks before the first request. `Serve`, `Fail`, `Confirm` and the three `Take…` are
the services: a post has its effect whether or not its reply arrives. `Change` is
everybody else on the ledger, `Execute` the chain with its sequence numbers. A transaction carries the
account numbers its call read (`TakeBuilt`): the last one as its own, the first one in the proof of a
rotation.

## 3. Runs

| Run | Instance | Distinct states | Question |
|---|---|---|---|
| `memoize` | 2 objects, 1 key, 2 callers, 2 promises, ttl 1, clock to 3, 2 versions | 498 431 | staleness, sharing, refinement of `TtlRead`, every call returns |
| `chain_id` (violated) | 1 object, no ttl, no tags | – | do callers that retry get over an outage? |
| `txn_flow` | 2 calls, timeout 2 = expiration 2, one with its own expiration and gas price, one with `checkSuccess` | 721 535 | soundness of outcomes, finality of timeouts, sequence numbers, refinement of `TxnOutcome`, calls end |
| `wait_error` (violated) | 1 call | – | is a timeout always a `WaitForTransactionError`? |
| `reads` | either 3 resources of 2 values, pages of up to 2, 2 versions; or one request with and without the fetch adapter; or one call of each kind of `TxnBuild`, all with an expiration, one sequence number given, clock to 2, account to 2 | 2 891 128 | pinned and unpinned lists; single fate, abort, settlement; drift of expirations, staleness of rotation proofs; calls end |
| `transfer_expiry` (violated) | the calls of `TxnBuild`, no number given | – | does a transfer keep the expiration it was asked for? |
| `layouts` | `Transaction`, `ScriptABI` with 2 units of fuel, `RawTransactionWithData` 1, `TypeTag` 4, `EntryFunctionArgument` 3, `Module`; whole, and cut by 1 or 9 bytes | 584 129 | is what is written read back, and nothing else accepted? |
| `type_tags` (violated) | `ScriptABI` | – | does every type tag come back? |
| `conversions` | 25 types with the values at their edges, some 120 more type texts, 6 lists of type arguments, 3 kinds of payload | 719 408 | is what is sent, stored and signed what was meant? |
| `multisig` (violated) | a u8, in a multisig payload | – | is the payload of a multisig account signed? |
| `clients` | every plan alone on two ledgers, two transactions of one account at once, and two deposits; 3 versions | 455 005 | does a method report what the ledger held, and nothing else? |
| `token_error` (violated) | `getTokenForAccount` | – | does it resolve with a token? |

### What they show

* `ServedFresh`, `OneRequestPerWindow`: no call is served a promise requested before its window;
  requests of one key are more than a ttl apart unless the cache was cleared.
  `ImplementsTtlRead` says the same without promises. `CallsReturn`: callers holding a
  promise displaced from the map still return.
* `OutcomeSound`, `TimeoutIsFinal`, `OneReportPerSequence`, `ImplementsTxnOutcome`, `CallsEnd`. Finality rests on
  two facts of the configuration, stated as assumptions: `TimeoutSecs >= ExpSecs`
  (both are 20 s in the code) and one clock for client and chain. With a chain clock
  behind the client's, or an expiration of the caller's own, a timeout is not final.
* `ExpirationBounded`: the expiration asked of `generateTransaction` or a rotation is kept, or passed by no more than the
  reads took; a default counts from the moment of building. `ExpirationKept`, which asks the
  first half of every call, is violated: an `expireTimestamp` given to `CoinClient.transfer`, or to any method that
  spreads its `extraArgs` into the builder's config, has no effect (`coin_client.ts:70`). `RotationRace`: proof and
  sequence number differ exactly when the account moved on between the two reads, and
  such a rotation does not succeed.
* `PinnedSnapshot`, `LatestLoosely`, `CallEnds`.
* `OneFate`, `AbortReaches`, `CancelStops`, `Settles`: with the exception the properties name, a
  request cancelled while the fetch adapter is imported is sent all the same.

* `RoundTrip`, `PrefixRefused`: of every class, for every variant, what `serialize` writes `deserialize`
  reads back to the last byte, with each field in its place, and a proper prefix of it
  throws. `RoundTrip` leaves out objects with a u16, u32 or u256 tag: these are written
  with the index of u8 (`type_tag.ts:68,78,108`), which `TagsSurvive` shows; they are
  decoded without an error, as u8.

* `TextsRead`: every type a node writes is parsed to what it is, or refused, never taken for
  another. Refused are: types that name `signer`; a struct whose name has a `T` and a digit
  (`USDT2`), which the tokenizer takes for a type parameter; an `Object<T>` inside another type when
  `T` has more than one word, since the parser skips three tokens (`type_tag.ts:419`). What counts as an `Object` is any struct
  `object::Object`, of whatever account, although the comment (`type_tag.ts:414`) speaks of `0x1`; a test relies
  on it (`type_tag.test.ts:111`).
* `ArgumentMeant`, `ConvertersAgree`: an argument is what the caller meant or is refused, whatever its
  JavaScript type, at every width's limits. `Misread` states the exceptions exactly, and they are facts about the code: a
  hexadecimal text for a u8, u16 or u32 is sent as 0 and `"12 coins"` as 12 (`parseInt`); `""` for a
  wider number, or white space, is sent as 0 (`BigInt`); a struct loses its value
  (`builder_utils.ts:322`). `Unicode` is one more: a text for a `vector<u8>` is sent as character codes by
  one converter and as UTF-8 by another, which differ outside ASCII.
* `PropertySurvives`: of a token's properties, those of six types come back. A value that does not fit its type is
  stored as the bytes of its text, and reading it may throw, which loses the whole map.
* `MessageDetermines`, `SignedExactly`: two transactions of one function with one signing message are equal, except for
  `""` and structs inside vectors and options, which are dropped from the message, and vectors whose
  first element is empty, or starts with an empty one, whose elements are hashed as texts. A single key cannot sign any number from 2^53 on,
  although u64 to u256 and their range checks admit it, nor a vector
  of lists one of which is empty and the first is not: the first element gives the type of all. The `max` that
  `createToken` takes when none is given, 2^64 - 1, is such a number, and so are those of `createTokenWithMutabilityConfig` and
  `MoveupToken.createCollection` (`token_client.ts:92,156`, `moveup_token.ts:93`): without one of the caller's these
  methods throw when they sign, of which their comments say nothing. Of a multisig payload nothing is signed,
  neither the address nor the payload to run: `PayloadSigned` shows it.
* `AnswersHeld`, `NothingMeansMissing`: each value a method resolves with was in the ledger during the
  call; a look-up in two steps (a table's handle, then its entry) is of one moment; `null`, the amount `"0"` and "pending"
  mean missing, not failed. Both depend on what each method does with an error, which is in its plan.
  `ResolvesWithValue` shows that `getTokenForAccount` resolves with an error in place of a token. What is "pending" is
  weaker than `transactionPending` documents (`moveup_client.ts:545`): a 404 counts (line 553), so a transaction nobody ever
  sent is pending, as one that was dropped is. `NoncesApart`: two deposits may carry one nonce only while neither is
  mined; one that was begun after the other was mined carries a later nonce. `MintSawFree`, `NumbersFresh`, `Funded`: a name
  was free during the call that registers it, though it may be taken when the transaction runs; sequence numbers are of
  the call; `fundAccount` resolves when all of the faucet's transactions are in the ledger.
  `CallsEnd`: every call ends.

Six runs end in a counterexample; each is a disagreement between a comment and the
code, or of the code with itself, recorded under `findings`: a rejected chain id is cached for ever; a timeout
without any answer is a plain `Error`; three type tags share the index of a fourth; the variable `payload` of the signing
message is not assigned for a multisig payload; an `expireTimestamp` is dropped by `transfer`; `getTokenForAccount` resolves
with the error it caught.

`IInv` (`RequestInv` in `Request`, `BuildInv` in `TxnBuild`) contains the type invariant of its module. Each property has a mutant
of the code it watches, a plausible slip (an off-by-one in `Expired`, a skipped `isPending`
test, a default spread over the caller's options, `Promise.race` for `Promise.all`), under which TLC finds it violated.

### Bounds, and why they are enough

* Two callers or calls: every property relates at most two of them. Two objects, since the
  tag registry is shared by objects. One key, since entries of different keys never meet
  in an action; the proofs cover any number.
* `Ttl = 1` with `MaxTime = 3` reaches an entry exactly at the ttl, one past it, and its successor's
  expiry. Two ledger versions tell stale from fresh.
* `TimeoutSecs = ExpSecs = 2`: a wait sleeps twice, so that first, middle and last polls
  differ. Past `MaxTime` the clock moves only for a call that sleeps, so `CallsEnd` is not
  cut off by the bound.
* Three keys and pages of up to two: there are first, middle and last pages, and a key
  may vanish or appear on either side of the cursor.
* `Pagination`, `Request` and `TxnBuild` share no state, so a behaviour of `reads` runs one of them while the others stay
  where they start; each is explored as if alone.
* In the calls of `TxnBuild` a clock of 2 lets the reads of a call take 0, 1 or 2 seconds; the sequence
  number may move before, between and after the two reads of a rotation.
* The fuel of a root in `layouts` pays for vector elements, present options, nested tags and structs,
  wherever they are: with 2 a transaction has any two of them anywhere, and 4 nest a tag four
  deep. Every variant of every class occurs in a root's encodings. Strings have one length; `code`
  and the multi-keys have lengths that take two bytes.
* `conversions` takes every type tag, vectors of vectors, options, objects, fixed-point numbers and structs through the
  builder, with values at, below and above every width's limit in every JavaScript form, and parses every pair of nine
  types inside a vector, a struct of two and an `Object`. Two levels take
  every recursive branch with and without an empty or a refused part below it.
* `clients`: of the methods, 32 plans differ, and each runs against both a ledger that has what it asks for
  and one that has not. Three versions let the ledger change twice under a call, before and after any of its
  reads. Others change only what a call asks for, while one is running: nothing else can be seen. The faucet's list has two hashes.
  Two calls run together where they share an account, of the chain or of L1; otherwise calls meet only in the ledger, where `Change` stands for
  the other one. The proofs cover any plans, ledgers and numbers of calls.
* `CHECK_DEADLOCK FALSE`: the clock, the ledger and the calls are finite in the instances,
  so all of them come to rest, and a value read back is the end of `Layouts` and `Payloads`.

### Fairness, and why the code justifies it

* Awaits on settled promises resume (`WF` of `Client(f)`, `Return`, `Receive`, `Receive(c)`, `Executor`): the event loop.
* Timers fire (`WF` of `Tick`): `sleep` is `setTimeout`.
* The node answers every request or the connection fails (`WF` of `Fulfil \/ Reject`, `NodeAdmits \/ NodeLooksUp`,
  `Serve`, `Answer`, `Service(c)`). This is an assumption about the environment: the SDK gives axios no
  timeout, so a request that is never answered blocks its call for ever, whatever
  `timeoutSecs` says.
* In `chain_id` only, callers call again (`RetrySpec`).

No fairness is assumed of commits, writes, errors or `clear()`.

## 4. Proofs

`Spec => []Inv` is proved from an inductive invariant, `IInv`, which the runs check too.

* **MemoizeProofs**: `Invariance`, `TypeCorrect`, `Freshness`, `SingleFlight`, `Refinement`. `ServedFresh` alone is not inductive: a hit
  must know that the entry's timestamp is its promise's request time (`EntryOK`), that a
  map with an entry is listed under every tag of the method, or `clear()` would miss it
  (`EntryOK`, `RegistryOK`), and that a request since the last `clear()` is represented by an entry at
  least as recent (`LatestCached`). Refinement adds `FulfilledCurrent`: an answer was current when or
  after its request was made. Assumptions: `Ttl` is a natural, `MethodTags` is a subset of `Tags`,
  the markers differ from the data.
* **TxnFlowProofs**: `Invariance`, `Soundness`, `FinalTimeout`, `OneReport`, `Refinement`. The strengthening ties an answer in
  flight to the chain (`AnswerOK`), the stage of a call to what was signed and sent
  (`StageOK`), and counts: a wait that slept `n` times began `n` seconds ago or earlier and after the
  transaction was built (`ElapsedOK`), whence `TimeoutIsFinal` by `TimeoutSecs >= ExpSecs`. `SequenceOK` (no number is
  committed twice) gives `OneReport`. `Frame` and `Combine` reduce a step to the one call it is about.
* **TxnBuildProofs**: `Invariance`, `Expirations`, `Rotation`. `ConfigOK` remembers when `fromNow` was computed; `ProofOK` follows the
  proof from the first read to the second, where `chainSeq` only grows.
* **ReadsProofs**, about `Pagination` and `Request`: one module extends both, so the names of `Request` carry its own
  (`RequestSpec`, `RequestInv`). `Invariance`, `Snapshot`, `Loosely`: the notion is `Covers(s, lo, hi)`: `s` is the part of a
  list between two keys. `Joined` concatenates two neighbours, which is `push(...response)` with the cursor as the
  seam; `StillCovers` says that a growing ledger only weakens what an unpinned call must hold.
  `RequestInvariance`, `Fate`, `Aborts`, `Stops`: `StageOK` says what can have happened by each await, `HandlerOK` that
  until a request ends or is cancelled its handler is there.
* **ClientsProofs**: `Invariance`, `Answers`, `Missing`, `NonceOrder`, `MintFree`, `Numbering`, `Funds`, for any set of plans with
  `PlanAssumption`: no stage is empty, a post is alone in its stage, the account is asked for at its latest version, and
  nothing is registered before a stage that looked up its entry and goes on only if it is missing. Two conditions on the plans
  are no part of that and are hypotheses of the theorems that need them: `TellsFailures` (no plan takes a failed request for
  a missing thing) of `Answers` and `Missing`, `AsksLatestNonce` of `NonceOrder`. The plans of `ClientPlans` meet both, as can
  be read off them; the mutants of two plans break them, and the properties with them. What a call ends
  with depends on all its replies, so the invariant `CallOK` follows them: they belong to the
  stage the call is at (`StageOK`); the stages behind it are passed, request by request (`PassedOK`); every
  reply says what the ledger held (`RepliesOK`); replies of later stages are not older (`OrderOK`), which
  with a store that stays (`LedgerOK`) puts a two-step look-up at one moment; counters only grow (`LedgerOK`), which orders
  the nonces; and a request is answered once
  (`OnceOK`). One lemma per action and per part; a frame lemma carries the calls a step does not touch,
  and another the growth of the ledger.

* **LayoutsProofs**: `Invariance`, `Trip`, `Prefixes`, for values of any size and nesting, contents and
  lengths, and for a cut of any length. That a reader gives back what a writer wrote says nothing of the steps between, so
  `IInv` keeps the whole log: each entry is well written (`WellWritten`), that is, it starts where the one before it ends, with the
  stack that one left, and its bytes in the buffer are the code of its value (`Coded`); the last entry ends where
  the buffer does, the part cut off included; and the reader, after `n` entries, stands where the writer stood after
  `n`, with the same stack and with the same log, a misnumbered tag apart (`Follows`). `PutKeeps` and `TakeKeeps` show
  this for any entry, so an action has only to be shown to put, or take, an entry of the right form. Three kinds of facts carry
  it. `VariantsFound` and `PlainFields` say of the tables that the reader of every class finds the variant its writer
  numbered and calls for the fields it wrote. `UlebRead` says that a uleb128 number of any size is found when all of it
  is there and that the reader runs into the end otherwise. `ReadableWhole` puts them together: an entry can be read exactly if it
  lies in the buffer, from which `PrefixRefused` follows at the entry that is cut. `Uleb` and `UlebLast` are defined
  by recursion, and the library's induction rules take operators, so the module states its own for sets: `Induction` is
  the minimal member of a well-founded relation, and `Recursion` makes from it a function that meets a recursive
  definition. Assumptions (`LayoutsAssumption`): roots are classes of the tables, lengths and numbers of keys are naturals.

* **TypeTagsProofs** has the lemmas that are about types and their texts alone, on which the next module stands: that the parser
  meets its definition (`ParserMeets`) and gives only types of its own (`ParserSound`), what the node and the printer write, that a
  printed text tells its type (`TypesTold`), and the rules for sequences and for induction over levels.
* **PayloadsProofs**: `ArgumentsMeant`, `OneMeaning`, `PropertiesSurvive`, `SignedIff`, `TypesRead`, `MessagesApart`, for any calls,
  type arguments and values, and types and values nested to any depth. The invariant `Traced` says where each thing came from: the type
  from its text, the value from those offered, the property from its value. What remains is about the converters:
  `EntryMeant`, `ScriptMeant`, `SerializedMeant` and `ValueSurvives`, for every type and every value. They are proved by
  induction over the levels of nesting (`TagLevel`, `ValueLevel`, `ArgLevel`), where `Induction` is, as above, a rule
  for sets. That the recursive functions meet their definitions is shown for each (`EntryIs`, `MeantIs`, ...): the body looks
  only at the parts of its argument (`EntryLocal`, ...), which lie one level deeper. `EntryEquations` and its like then give one
  equation per shape of type, and the induction is one step per shape. `NumberMeant` is the
  arithmetic: `parseInt` and `BigInt` followed by a range check keep the number, though `Double` rounds
  (`u8` to `u32` are far below 2^53, and the wider ones take no double). `Ascii` is the
  UTF-8 code of a text below 128. Assumptions: `Depth` is a natural; the types of the calls, where they parse, and
  the values offered for them are within it (`PayloadsAssumption`); a word like `T1` is none of the parser's own words
  (`GenericAssumption`); string literals are members of `STRING`, a fact of TLA+ that the
  provers are not told (`StringAssumption`).
  The proof corrected a property: `ConvertersAgree` had asked that what `serializeArg` writes is what an entry function is
  given or else what is meant; but of a `vector<vector<u8>>` with a hexadecimal number in one element and a text outside
  ASCII in another it writes neither. The two exceptions are separate now, and each matters
  to one conjunct only; the instance has that value.
  `SignedIff` is about the message. `Pushed`, `Eip712Type` and `Encoded` recurse over three data types, so each gets its levels
  and equations (`PushedIs`, `EipIs`, `EncodedIs`; `DataLevel` for what is hashed), and `Flattened` says what is in a
  concatenation of sequences. Of two arguments given for one Move type (`GivenShape`), what the first pushes
  is hashed under the type of the second exactly if `Signable` (`HashedStep`); a vector needs the two apart, as its first
  element gives the type of all. `Authored` traces the argument from `Build` to what is signed. This proof corrected its
  property too, and `MessageDetermines` with it: both had looked one level deep, and lists within lists
  in the instance now show what they had missed.

  `TypesRead` is about the parser and two writers, the node and `TypeTagToString`, which do not recurse over the same thing. The
  parser recurses over what is left of its text, and `ParserMeets` shows that this meets its definition: what it does with a text
  depends on shorter ones only (`BodyLocal`), and it never leaves more than it was given (`Fits`), so there is one table of results
  for the texts below each length (`LevelsExist`), and the tables agree (`LevelFits`). The writers recurse over the type. The induction
  therefore goes over its nesting, for every text that may follow: `NodeRead` and `PrintRead` say that the parser, on the text of
  a type followed by `r`, where `r` is empty or starts with a comma or `>`, gives the type and leaves `r`, or refuses. `Remains` and `Listed`
  cut the concatenation of a list of arguments into what is left after each. Assumptions: the text of a call is the
  one the node writes for its type (`NodeAssumption`); names are no punctuation, and an Object has one
  argument (`OnChain`). The proof corrected this property as well: it had taken only the structs of
  `0x1` for Objects, and the parser does not look at the address; the instance has one of another account.

  `MessagesApart` inverts the message, one layer after the other. A text is told by its UTF-8 bytes (`TextTells`): the first byte of a
  character gives its length, and sequences that are told apart with anything behind them can be cut out of their
  concatenation (`Decoding`). A type is told by its text (`TypesTold`), provided its leaves are those of the parser:
  in `Tag` any word may be a leaf, also one that starts a struct, and `ParserSound` shows that the parser, from which all type
  arguments come, gives none such (`Sound`). A number is told by its double when it is hashed, since it is below 2^53 (`DoublesTell`);
  and a vector pushes, and `Blurred` keeps, the elements at the same places (`ElementsKept`), so the hash of a vector determines
  what is kept if the hashes of its elements do (`VectorDetermined`), under the type of any first element that does not start empty.
  `EverythingDetermined` is the induction over the nesting of the type. `Compared` is the inductive
  invariant: both transactions are of one kind, with type arguments the parser gave and an argument converted for one type.
  Assumption: the values and type arguments of the second transaction, where they parse, are within the depth as
  well (`RivalsAssumption`, like `PayloadsAssumption` for the first).

Only model-checked: liveness (`CallsReturn`, `CallsEnd`, `CallEnds`, `Settles`), which is outside what the proof
system does, and the six counterexamples, which are facts about an instance.

## 5. What is abstracted

* Payloads, hashes, signatures, gas amounts and the text of errors are data that no
  property of the stateful modules looks at. `Layouts` has bytes for them, without their arithmetic: numbers
  are byte strings; the range checks of the serializer are in `Arguments`. A struct argument has its
  tag and named fields in `Layouts`, as `load` expects; the one without, which the builder makes, is in `Arguments`.
* `getAccount` answers with the account's committed state; only polls come from a lagging
  replica in `TxnFlow`. Time is in seconds, as `Math.floor(Date.now() / 1000)` makes it.
* `clearCacheTagsMap` grows by one reference on every call (`memoize-decorator.ts:98`) and releases
  none; a bounded model has no place for the growth, and its effect on `clear()` is nil.
* A cancel handler that throws (`CancelablePromise.ts:118`) leaves the promise pending; the only handler the SDK
  registers cannot throw.
* `parseApiError` changes the class of an error; the models tell API errors from others
  and no more.
* In `Clients` a method asks for one of a few items: which resource, token, name or L1 contract it is, is data. So
  `GetL2TokenWhiteList` asking for the coin type of the first token each time round its loop (`rollup.ts:66`) does not
  show; nor do the fields of the unsigned L1 transactions and of the proofs. `RelayMessage` checks its environment late, which a
  failing request stands for. A transaction whose number the caller gives is `TakeSigned`.
* In `Arguments` numbers are integers (a JavaScript number with a fraction is refused or truncated by
  `BigInt` and `setUint8`), a parameter of type String is given a string, and the words of a text that is no
  address are not hexadecimal. The type argument `"string"`, which is only meant for properties, is not one.

## 6. Not modelled, and why

* **Accounts, key derivation, hex strings** (`account/`, `utils/hd-key.ts`, `hex_string.ts`) and the ed25519 keys: calls of
  cryptographic libraries on immutable values; no authenticator of `authenticator.ts` uses ed25519.
* **`createBitmap`** (`multi_secp256k1.ts:114`) and the multi-signature builder: a bitmap is four bytes in `Layouts`; which bits
  it has is arithmetic of one line, and what is signed by many is what one signs.
* **The arithmetic of integers and the growth of the buffer** in `bcs`: shifts and masks of native 64- and
  256-bit numbers, beyond TLC's integers; the overflow branch of uleb128 needs a length of 2^32 - 1.
* **The cookie jar** (`request.ts:24-114`): shared by all clients of the process, but no request of the SDK depends on a cookie.
* **Formatting**: URLs, query strings, headers, form data, the SQL-like text of GraphQL queries.
* **`Provider`**: every method hands its call on to `MoveupClient` or `IndexerClient`; it has no code of its own
  beyond the choice of endpoints.
* **Generated types, models, schemas, `utils/abi.ts`**: declarations and data. They are most of the lines
  that no definition stands for.
* **Tests, golden files and examples** are read for intent.
