---------------------------- MODULE ClientPlans ----------------------------
(***************************************************************************)
(* What each method of the clients asks, in which order, and what it does  *)
(* with the replies, as plans of Clients.  Memoized reads (the chain id,   *)
(* the gas price) may be as old as their cache allows.                     *)
(***************************************************************************)
EXTENDS Clients

Ask(item, from, does) == [item |-> item, from |-> from, does |-> does,
                          held |-> "next", absent |-> "reject", failed |-> "reject"]
Latest(item) == Ask(item, "latest", "read")
Cached(item) == Ask(item, "lagging", "read")
Indexed(item) == Ask(item, "lagging", "read")
Wait(h) == Ask(h, "latest", "wait")
Post(does) == Ask(Own, "latest", does)

OrEmpty(r) == [r EXCEPT !.absent = "empty"]   \* a 404, or an empty body, gives null
IfFree(r) == [r EXCEPT !.held = "reject", !.absent = "next"]

Plan(stages) == [stages |-> stages, invalid |-> "none"]
Checked(p) == [p EXCEPT !.invalid = "reject"]   \* the arguments are checked first
One(r) == Plan(<<{r}>>)

\* The requests of the generated services that take a ledger_version, and those
\* that change the ledger; the others answer for the latest version.
AccountsService == [getAccount |-> TRUE, getAccountResources |-> TRUE, getAccountModules |-> TRUE,
                    getAccountResource |-> TRUE, getAccountModule |-> TRUE]
TablesService == [getTableItem |-> TRUE, getRawTableItem |-> TRUE]
ViewService == [view |-> TRUE]
EventsService == [getEventsByCreationNumber |-> FALSE, getEventsByEventHandle |-> FALSE]
BlocksService == [getBlockByHeight |-> FALSE, getBlockByVersion |-> FALSE]
GeneralService == [spec |-> FALSE, healthy |-> FALSE, getLedgerInfo |-> FALSE]
TransactionsRead == [getTransactions |-> FALSE, getTransactionByHash |-> FALSE,
                     getTransactionByVersion |-> FALSE, getAccountTransactions |-> FALSE]
TransactionsPosted == [submitTransaction |-> "signed", submitBatchTransactions |-> "signed",
                       simulateTransaction |-> "read", encodeSubmission |-> "read",
                       estimateGasPrice |-> "read"]

\* A method that hands one request of a service on, with a ledgerVersion if the
\* caller gives one and the service takes it.
Versions(service, request) == IF service[request] THEN {"latest", "pinned"} ELSE {"latest"}
Handed(service, request, item) == {One(Ask(item, from, "read")) : from \in Versions(service, request)}
-----------------------------------------------------------------------------
(* MoveupClient. *)

\* getAccount gives no ledgerVersion on.
GetAccount == {One(Latest("account"))}
AccountReads == Handed(AccountsService, "getAccountModules", "other")
                \cup Handed(AccountsService, "getAccountModule", "other")
                \cup Handed(AccountsService, "getAccountResources", "store")
                \cup Handed(AccountsService, "getAccountResource", "store")
                \cup Handed(TransactionsRead, "getAccountTransactions", "other")
EventReads == Handed(EventsService, "getEventsByCreationNumber", "other")
              \cup Handed(EventsService, "getEventsByEventHandle", "other")
TransactionReads == Handed(TransactionsRead, "getTransactions", "other")
                    \cup Handed(TransactionsRead, "getTransactionByHash", "other")
                    \cup Handed(TransactionsRead, "getTransactionByVersion", "other")
LedgerReads == Handed(GeneralService, "getLedgerInfo", "other")
GetChainId == {One(Cached("chainId"))}
GetTableItem == Handed(TablesService, "getTableItem", "entry")
BlockReads == Handed(BlocksService, "getBlockByHeight", "other")
              \cup Handed(BlocksService, "getBlockByVersion", "other")
View == Handed(ViewService, "view", "other")
EstimateGasPrice == {One(Cached("other"))}

\* transactionPending: a transaction the node does not know is pending.
TransactionPending == {One(OrEmpty(Latest("other")))}

SubmitSignedBCSTransaction == {One(Post(TransactionsPosted["submitTransaction"]))}
SubmitBCSSimulation == {One(Ask("other", "latest", TransactionsPosted["simulateTransaction"]))}
SimulateTransaction == SubmitBCSSimulation

\* The reads of generateRawTransaction, sent together.
RawTransactionReads == {Latest("account"), Cached("chainId"), Cached("other")}
GenerateRawTransaction == {Plan(<<RawTransactionReads>>)}
SignSubmit(does) == <<RawTransactionReads, {Post(does)}>>
GenerateSignSubmit == {Plan(SignSubmit("transaction"))}
PublishPackage == GenerateSignSubmit
GenerateSignSubmitWait == {Plan(SignSubmit("transaction") \o <<{Wait(Own)}>>)}

\* The price and the resources of the account; the coin store is found among them.
EstimateMaxGasAmount == {Plan(<<{Cached("other"), Latest("store")}>>)}

\* The proof is made for the number read first, the transaction for the second.
RotateAuthKey == {Plan(<<{Latest("account")}>> \o SignSubmit("rotate"))}

\* A resource that holds a table's handle, then an item of the table.
LookUp(r) == Plan(<<{Latest("store")}, {r}>>)
LookupOriginalAddress == {LookUp(Latest("entry"))}
-----------------------------------------------------------------------------
(* The remote ABI builder, and the clients that build, sign and submit. *)

\* build: the modules for the ABI, then the three reads, sent together.
RemoteBuild == <<{Latest("other")}, RawTransactionReads>>
BuildSubmit(does) == RemoteBuild \o <<{Post(does)}>>
Submits == {Plan(BuildSubmit("transaction"))}

CoinTransfer == Submits
CheckBalance == {One(Latest("store"))}

\* TokenClient.
CreateCollection == Submits
CreateToken == Submits
CreateTokenWithMutabilityConfig == Submits
OfferToken == Submits
ClaimToken == Submits
CancelTokenOffer == Submits
DirectTransferToken == Submits   \* two accounts sign; the sender's number is read
OptInTokenTransfer == Submits
TransferWithOptIn == Submits
BurnByCreator == Submits
BurnByOwner == Submits
MutateTokenProperties == Submits

\* MoveupToken: its methods differ in the function they call and its arguments.
SubmitTransaction == Submits
TokenCreations == SubmitTransaction
TokenControls == SubmitTransaction
TokenProperties == SubmitTransaction
TransferTokenOwnership == Submits

InitReverseLookupRegistry == Submits

\* The collections are searched in the resources of the account.
GetCollectionData == {LookUp(Latest("entry"))}
GetTokenData == {LookUp(Latest("entry"))}

\* A token that is not in the store has the amount "0"; the error of any other
\* failure of the second request is returned.
GetTokenForAccount == {LookUp([OrEmpty(Latest("entry")) EXCEPT !.failed = "return"])}
GetToken == GetTokenForAccount
-----------------------------------------------------------------------------
(* AnsClient. *)

GetPrimaryNameByAddress == {LookUp(OrEmpty(Latest("entry")))}

\* Only a 404 is null, other errors are thrown.  A name that does not match the
\* pattern has no address, and nothing is asked.
AddressByNameQuiet ==   \* mutation: null whatever the status of the error
    [LookUp([OrEmpty(Latest("entry")) EXCEPT !.failed = "empty"]) EXCEPT !.invalid = "empty"]
AddressByName == [LookUp(OrEmpty(Latest("entry"))) EXCEPT !.invalid = "empty"]
AddressBySubdomainName == AddressByName
GetAddressByName == {AddressByName, AddressBySubdomainName}

\* The name is checked, looked up, and registered if it had no record.
MintMoveupName ==
    {Checked(Plan(<<{Latest("store")}, {IfFree(Latest("entry"))}>> \o BuildSubmit("register")))}
-----------------------------------------------------------------------------
(* FaucetClient and IndexerClient. *)

\* The faucet's transactions are waited for together.
FundAccount == {Plan(<<{Post("mint")}, {Wait(h) : h \in Hashes}>>)}

\* The methods of IndexerClient, and whether they check an address first.
AccountQueries == [getIndexerLedgerInfo |-> FALSE, getAccountNFTs |-> TRUE, getTokenActivities |-> FALSE,
                   getAccountCoinsData |-> TRUE, getAccountTokensCount |-> TRUE,
                   getAccountTransactionsCount |-> TRUE, getAccountTransactionsData |-> TRUE]
TokenQueries == [getDelegatedStakingActivities |-> TRUE, getTokenActivitiesCount |-> FALSE,
                 getTokenData |-> FALSE, getTokenOwnersData |-> FALSE,
                 getTopUserTransactions |-> FALSE, getUserTransactions |-> FALSE,
                 getNumberOfDelegators |-> TRUE, getOwnedTokens |-> TRUE]
CollectionQueries == [getTokenOwnedFromCollectionAddress |-> TRUE, getCollectionData |-> TRUE]

QueryIndexer(validates) == IF validates THEN Checked(One(Indexed("other"))) ELSE One(Indexed("other"))
Queried(service) == {QueryIndexer(service[query]) : query \in DOMAIN service}
IndexerQueries == Queried(AccountQueries) \cup Queried(TokenQueries) \cup Queried(CollectionQueries)

\* [0] of the collections found, then the tokens of it.
GetTokenOwnedFromCollectionName == {Checked(Plan(<<{Indexed("other")}, {Indexed("other")}>>))}
-----------------------------------------------------------------------------
(* rollup.ts: transactions of L1, to be signed and sent by the caller. *)

GetL1TokenWhiteList == {Checked(One(Latest("other")))}

\* A list of two: one request after another.
GetL2TokenWhiteList == {Checked(Plan(<<{Latest("other")}, {Latest("other")}, {Latest("other")}>>))}
GetEthBalance == {One(Latest("other"))}

\* The gas of the deposit, and its price.
EstimateGas == {Checked(Plan(<<{Latest("other")}, {Latest("other")}>>))}
DepositETHEstimateGas == EstimateGas
DepositETHToEstimateGas == EstimateGas
DepositERC20EstimateGas == EstimateGas
DepositERC20ToEstimateGas == EstimateGas

L1TransactionCached ==   \* mutation: the nonce is memoized as the chain id is
    <<{Latest("other")}, {Cached("nonce")}, {Latest("other")}, {Latest("other")}>>
\* The gas price, the nonce, the network, and the gas limit of the transaction.
L1Transaction == <<{Latest("other")}, {Latest("nonce")}, {Latest("other")}, {Latest("other")}>>
DepositETH == {Checked(Plan(L1Transaction))}
DepositETHTo == {Checked(Plan(L1Transaction))}
DepositERC20 == {Checked(Plan(L1Transaction))}
DepositERC20To == {Checked(Plan(L1Transaction))}

WithdrawTokenEstimateGas ==
    {Checked(Plan(<<RawTransactionReads, {Latest("other")}, {Cached("other")}>>))}
WithdrawToken == {Checked(Plan(SignSubmit("transaction") \o <<{Wait(Own)}>>))}

\* Both proofs may have an empty body.
RelayMessage == {Plan(<<{OrEmpty(Indexed("other"))}, {OrEmpty(Latest("other"))}>> \o L1Transaction)}
-----------------------------------------------------------------------------
MoveupClientPlans ==
    GetAccount \cup AccountReads \cup EventReads \cup TransactionReads \cup LedgerReads
    \cup GetChainId \cup GetTableItem \cup BlockReads \cup View \cup EstimateGasPrice
    \cup TransactionPending \cup SubmitSignedBCSTransaction \cup SimulateTransaction
    \cup GenerateRawTransaction \cup GenerateSignSubmit \cup PublishPackage
    \cup GenerateSignSubmitWait \cup EstimateMaxGasAmount \cup RotateAuthKey \cup LookupOriginalAddress
TokenPlans ==
    CoinTransfer \cup CheckBalance \cup CreateCollection \cup CreateToken
    \cup CreateTokenWithMutabilityConfig \cup OfferToken \cup ClaimToken \cup CancelTokenOffer
    \cup DirectTransferToken \cup OptInTokenTransfer \cup TransferWithOptIn \cup BurnByCreator
    \cup BurnByOwner \cup MutateTokenProperties \cup TokenCreations \cup TokenControls
    \cup TokenProperties \cup TransferTokenOwnership \cup GetCollectionData \cup GetTokenData
    \cup GetToken
NamePlans == InitReverseLookupRegistry \cup GetPrimaryNameByAddress \cup GetAddressByName
             \cup MintMoveupName
OtherPlans ==
    FundAccount \cup IndexerQueries \cup GetTokenOwnedFromCollectionName
    \cup GetL1TokenWhiteList \cup GetL2TokenWhiteList \cup GetEthBalance
    \cup DepositETHEstimateGas \cup DepositETHToEstimateGas \cup DepositERC20EstimateGas
    \cup DepositERC20ToEstimateGas \cup DepositETH \cup DepositETHTo \cup DepositERC20
    \cup DepositERC20To \cup WithdrawTokenEstimateGas \cup WithdrawToken \cup RelayMessage
AllPlans == MoveupClientPlans \cup TokenPlans \cup NamePlans \cup OtherPlans
=============================================================================
