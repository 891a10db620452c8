# Verification of canton-middleware in TLA+

canton-middleware connects Ethereum and the Canton ledger: a relayer bridges
tokens, an indexer projects the ledger into PostgreSQL, and an API server gives
wallets an Ethereum JSON-RPC facade, transfers and registration. These modules
model the parts whose correctness depends on interleavings, crashes, retries
and lost answers, check them with TLC on small instances, and prove the main
safety properties with TLAPS for every value of the constants.

## 1. The system

| Part | State | Operations | What makes it hard |
|---|---|---|---|
| Relayer engine (`pkg/relayer`) | `transfers` rows, `chain_state` positions, two processors, a reconciler | receive event, insert row, check, submit, mark, persist position, retry, restart | three threads over the same rows, crash between any two statements, non-atomic submissions |
| Ethereum client (`pkg/ethereum`) | scan position, channel | poll a block range, emit events, emit checkpoint | failing slices, checkpoints that must not overtake events |
| Bridge client (`pkg/cantonsdk/bridge`) | ledger contracts | stream withdrawals, create pending deposit, mint, complete | idempotency check over two contracts |
| JSON-RPC facade (`pkg/ethrpc`, `pkg/token`) | `mempool`, `evm_transactions`, `evm_logs`, `evm_state` | send, drain, transfer, complete/fail, mine | several instances and workers, timeouts whose command still commits, contention for holdings |
| Indexer (`pkg/indexer`) | events, tokens, balances, holdings, transfers, offset | apply batch in one transaction, retry, resume | replayed batches, offsets ahead of what is applied |
| Streaming client (`pkg/cantonsdk/streaming`) | last offset | subscribe, reconnect | what was delivered before the break |
| Accept worker (`pkg/custodial`) | none | page through pending offers, accept | the list shrinks while it is paged |
| Transfer service (`pkg/transfer`) | cache of prepared transfers | prepare, execute, accept, withdraw | the entry leaves the cache before it is executed; expiry; limit |
| User registration (`pkg/user`, `pkg/userstore`) | users, topology cache | register, prepare external | several ledger steps and one insert, without clean-up |
| Login (`pkg/auth`) | nonce store | issue, consume, purge | two indexes, a limit, expiry |
| Access token (`pkg/cantonsdk/ledger`) | two cached copies | fetch, refresh, invalidate | use near expiry, a refused token that stays cached |
| Balance reconciler (`pkg/reconciler`) | stored bridge events | full reconciliation | run by scripts only |

What each should guarantee: the relayer delivers every event at least once and
has its effect at most once; the facade reports the true outcome of every
transaction it accepted, and reports one; the indexer applies every batch
exactly once and its tables agree with the ledger; the accept worker accepts every offer; prepared transactions and nonces
are used at most once; a registered user can be found on the ledger. `PROJECT.json` lists the hazards at the
lines where they bite.

The parts meet in three places. The relayer and the facade share nothing but
the ledger. The indexer feeds the lists that the accept worker and the transfer
service read, always a little late. The streaming client and the access token
carry the indexer.

## 2. Modules

| Module | Models |
|---|---|
| `BridgeTypes`, `SourceStream`, `Destinations`, `Relayer` | the bridge: configuration, the two sources up to the channel, the two destinations with lost answers, and the engine (start, crash, processors, hook, reconciler) |
| `TransferLifecycle` | abstract specification of the relayer: a row is recorded once, settled from pending only, its effect happens for recorded rows |
| `EthRpc` | `eth_sendRawTransaction`, submitters, ledger, miner |
| `TransactionOutcomes` | abstract specification of the facade: a transfer takes effect only when accepted, its outcome is decided once, a receipt publishes it for good |
| `FacadeReads` | `eth_getTransactionReceipt` and `eth_getLogs` while `EthRpc` works |
| `CantonLog` | what the ledger stream carries and what the decoders make of it |
| `IndexerStore` | the indexer's tables and `processBatch` |
| `AccessToken` | the token caches of the ledger client and its provider |
| `IndexerLedger` | the ledger behind the indexer (external) and what its transactions add up to: active contracts, supply, balances, which transaction the ledger allows next |
| `Indexer` | ledger, stream, processor and database together (extends the four above) |
| `IndexedLedger` | abstract specification of the indexer: the ledger's transactions take effect in order, once each |
| `OfferLedger` | holdings and offers on the ledger (external), and the indexer's delayed view of them |
| `PreparedCache` | the cache of prepared transactions |
| `Transfers` | transfer service, token client and accept worker over the two above |
| `Registration` | the registration calls, step by step, with database, topology cache and ledger |
| `NonceStore` | the login nonces |
| `SignInNonces` | abstract specification of the nonces: an address has at most one, it is new, and it admits one login while its time lasts |
| `Accounts` | registration and login in one API server that restarts |
| `RelayerProofs` | theorems about the relayer |
| `FacadeProofs` | theorems about `EthRpc` and `FacadeReads` |
| `IndexerStreamProofs` | theorems about the indexer's stream and the access token |
| `IndexerStoreProofs`, `IndexerTableProofs`, `IndexerProofs` | theorems about the indexer's tables: the store's methods and the batches, sums and counts, the specification |
| `AccountProofs`, `TransferProofs` | theorems about `Accounts` and about `Transfers` |
| `MCRelayer`, `MCEthRpc`, `MCFacade`, `MCIndexer`, `MCTransfers`, `MCAccounts` | the instances TLC checks |

A definition with the suffix `Naive`, or one like `ReceiptAt_Stale`, is a
variant of the one after it with a plausible mistake. `PROJECT.json` pairs it
with a property that TLC then finds violated.

**Relayer.** Rows and positions survive a crash, the rest is reset. Every
database statement and remote call is one step: `pc` says where each of the
three threads is, `cur` which event it submits. `ReceiveNew`, `ReceiveKnown` and
`ReceiveInsertFails` are the outcomes of `CreateTransfer` in `processEvent`;
`CheckProcessed`, `SubmitCreate`, `SubmitMint` and `SubmitSend` are the calls of
the two `SubmitTransfer`s; `ProcessorDone/Skipped/Failed`, `PostSubmit` and
`PersistOffset` follow; `SelectWithdrawals` and `SelectDeposits` are the two
queries of `runReconciliation`, and `Retry...` its attempts. `Destinations`
lets a call take effect and still report an error. The known gaps are named by
`insertFailed`, `startedPast` and two events at one position.

**EthRpc.** `status` is the column of `mempool`, `pool` the rows by id. A
submitter loads a batch (`Drain`), a free worker takes the oldest row (`Takes`)
and reads users and holdings; it then waits for the ledger (`waiting`), and
writes the outcome (`completing`, `failing`). Holdings are abstracted to a
balance and a count of spendings: a transfer selects a prefix of the active
holdings, so a spending in between invalidates it. A call that timed out, or
whose process died, leaves its command in `late`, where it may still commit.
`Rows` is a query of rows in the order of their ids with a limit: the positions
in `pool` with fewer than that many matching ones before them.
The ledger refuses a command id it has executed, without a time limit (external
assumption). `Mine` is one database transaction and hence one step. Amounts are
positive.

**FacadeReads.** A call is a query or two, with steps of `EthRpc` in between;
`reader` is the call in progress or its last answer. `ReceiptRow` and
`ReceiptLogs` are the queries of `GetTransactionReceipt`; `LogsLatest` is
`GetLogs` without a `toBlock`, which reads the latest block first, `LogsUpTo` with
one that `eth_blockNumber` reported, and `LogsQuery` the query of both. A query
gives the first `LogLimit` logs of its range. `QueryFails` ends a call without an
answer.

**Indexer.** `log` is the ledger; a transaction is kept as what it does, and
`Events` (external) expands it into created and exercised events. `Taken` is
`decodeLedgerEvent` and the decoders: events that do not change the active
contracts are dropped, so are instruments off the whitelist. `ProcessBatch`
applies `ProcessEvent` to the events of a transaction in order, as the store's
methods would; an error sets `err`, and then the database transaction does not
commit. `Total`, the sum of amounts, counts one unit of each amount at a time, as
the size of a set. `queue` stands for the
two channels and what is in hand between them. `OpenStream`, `OpenRefused`,
`Recv`, `Disconnect` and `Eof` are `runStream` and the loop of `Subscribe`;
`Apply` and `ApplyLostAck` are `processBatchWithRetry`; `ProcessorEnds` is the
`nil` that leaves the errgroup running. `Elsewhere` is what a party received in
transactions the participant never saw. One token stands for both caches:
`InvalidateToken` clears the copy of the client (`cached`), and the provider
hands the same token out until `refresh` reaches zero.

**Transfers.** A prepared transaction is in `cache`, then in the hands of one
Execute request (`running`), then in `submitted`. `Selections` is every set of
unlocked holdings `selectHoldingsForTransfer` can return, since the ledger lists
them in no particular order. The worker goes through ticks, pages and offers
one call at a time while the list it pages through changes; the rows of a page
(`worker.items`) are the offers at its places of the list, and `NextItem` is the
oldest that is left. `lag` holds the
changes of offers the indexer has still to apply. The instrument is one whose
transfers are offers; `supported` says whether the configuration knows its
issuer. A restart of the API server, which empties the cache, is not modelled
here: it only removes entries nobody has executed. A `MaxSize` of 0 is a cache
without a limit, as in `Put`. `Claimable` is `claimableTransfer`, which reads the
indexer's row of the offer and not the list of pending ones.

**Accounts.** A request begins with the look-up of the user (`Begin`), is then at
a label between two calls, and `Abort` may end it at any of them, so that
whatever it did before stays: the service undoes nothing
(the comment on `RegisterWeb3User`, `pkg/user/service/service.go:129`, speaks of
an attempt to clean up). A call the ledger executes after its request was given
up and tried again is a case of two overlapping requests: the first takes its
step late, and ends. `Overlapping` names the people who may have several
requests in progress. Party hints may coincide. `NonceStore` gives each
operation of the store as an operator from store to store, since every one holds
the mutex. `Accounts` adds the clock, the restart and a count of the logins each
nonce satisfied.

## 3. Runs

| Run | Instance | Checks |
|---|---|---|
| `relayer_lifecycle` | two deposits of one transaction in one block, database faults, a crash | `MintAtMostOnce`, refinement of `TransferLifecycle` |
| `relayer_both` | one event of each direction, a crash | `TypeOK`, `ClosedAfterSend`, refinement of `TransferLifecycle` |
| `relayer_liveness` | two deposits in blocks of their own, failing checks, overlapping submissions, a crash | `NoSilentLoss`, `CompletedHasTrace`, `EventuallyRecorded`, `EventuallySettled` |
| `ethrpc_instances` | two instances, all faults, funds that arrive meanwhile | `TypeOK`, `SuccessIsExecuted`, `BlocksWellFormed`, `DecidedOnce`, refinement of `TransactionOutcomes` (`ImplementsOutcomes`) |
| `ethrpc_liveness` | three transactions that compete, no lost answer, a wallet that reads | `AnswersFinal`, `FailedNotExecuted`, `EventuallyReceipt` |
| `indexer` | up to four transactions out of 14 operations, a breaking stream, a crash, a lost commit answer | `InSequence`, `TokensAgree`, `HoldingsAgree`, `TransfersAgree`, `BlockedByBurn`, refinement of `IndexedLedger` (`IndexedInOrder`) |
| `indexer_liveness` | tokens that live one or three units under a leeway of two, one revoked, some without a stated lifetime | `RefreshedInTime`, `EventuallyIndexed` |
| `transfers` | two clients, two prepared transactions and a cache of one, pages of one, two offers of which the first is for nobody here, a user who registers late | `TransfersTypeOK`, `SubmittedOnce`, `SubmittedInTime`, `ClaimableWhileActive`, `EventuallyAccepted`, `EventuallyRoom` |
| `accounts` | two addresses with the same party hint, a client key, a native party, two requests that may both be of the first address; a nonce store for one address | `Resolves`, `PartyOnce`, `IndexesAgree`, `UsedOnce`, `LiveNoncesKept`, refinement of `SignInNonces` (`ImplementsSignIn`) |

Three runs end in a counterexample. Each is a statement of a comment the code
does not keep, quoted in `PROJECT.json` under "findings":

| Run | What happens |
|---|---|
| `relayer_skipped` | a pending deposit whose mint failed is taken for processed |
| `ethrpc_failed` | a transfer that committed late is mined as failed (`FailureIsReal` says when this cannot happen) |
| `indexer_commit` | a batch whose commit answer was lost is processed again and credits a holding twice |

**Bounds.** They are chosen so that a slice, a full channel, a crash at every
statement and a retry all occur. *Relayer*: one or two events, at most two
effects of one call (`DupBound`), a channel of one. *EthRpc*: two or three
transactions, two of which compete for one account, one timeout, one crash; a
query gives one log (`LogLimit`), and the reported block number is one or more
ahead of the latest (`Buffer`, `MaxUptime`).
*Indexer*: four transactions (`MaxLog`) are what an issue, an offer, a
settlement and one more need; two batches in flight, one crash, one lost answer.
*Transfers*: `PageLimit` 1, `MaxSize` 1, `MaxPrepared` 2 and `MaxOffers` 2 make
every page full, and a second transaction meet a full cache. *Accounts*: two keys, topologies and mappings (`MaxKeys`,
`MaxTopologies`, `MaxMappings`) let a registration fail after its mapping and be
repeated; a capacity of one with two addresses keeps the nonce store at its
limit. Requests are symmetric there, and so are the two instances of
`ethrpc_instances`.

**Fairness.** Goroutines that can take a step take it (weak fairness of each
thread), tickers tick, the process is restarted.

- *Relayer, EthRpc*: the ledger answers every command. Faults are bounded or
  absent: the code retries but promises nothing under faults that never end.
- *Indexer*: a stream that opens again and again delivers in the end (strong
  fairness of `Recv`), because the ledger keeps what it has not delivered. The
  ledger accepts a token within its life. `EventuallyIndexed` excepts what the
  code excepts: a stream that ended in good order, and a batch that can never
  commit.
- *Transfers*: the fetch of each page, and the acceptance of each offer,
  succeeds when it is tried again and again (strong fairness of each page and
  offer: the worker retries on every tick, and the failures are those of a
  remote call). Nobody has to send, withdraw or settle anything.

`CHECK_DEADLOCK FALSE` is set where the system may come to rest with all work
done.

## 4. Proofs

Every safety property that a passing run checks is also a theorem, for any value
of the constants within the named `ASSUME`s: queues, pages and lifetimes are not
empty, bounds and amounts are natural numbers, the sets of parties and
transactions are finite, an absent party is no party, instruments on and off the
whitelist differ, and keys, party ids, addresses and namespaces do not collide.
TLC evaluates each of them on the instances above.

*Relayer* (`RelayerProofs`), for any events, block range, channel size, start
setting, crashes and faults:

- `TypeCorrect`: `Spec => []TypeOK`, with the fact that a thread that submits has
  an event.
- `NothingLostSilently`: `Spec => []NoSilentLoss`. Whether a position may be
  persisted depends on what is still in the channel and in the scan, so the
  property is not inductive. `OffsetInv` adds that the channel holds the events
  in order, that everything before the scan position is in the channel or
  covered, that a checkpoint follows the events of its slice, and that the
  position in hand is covered.
- `CompletedLeavesTrace` and `ClosesAfterSending`: `Spec => []CompletedHasTrace`
  and `Spec => []ClosedAfterSend`, overlapping submissions and failing checks
  included. Between the call and the row a thread carries the answer in its
  program counter, so `TraceInv` adds that what a thread has reached in its
  submission is on the destination, that a release was sent before, and that a
  processor has events of its own direction only.
- `MintsOnce` and `ImplementsLifecycle`: `Spec => []MintAtMostOnce` and the
  refinement `Spec => LifecycleSpec`, both assuming `~CheckFaults` and
  `~SlowSubmit` (without them the code promises neither: a check that fails is
  taken for "not processed", and a retry can overlap the first submission).
  `OnceInv` adds that no two threads have one event, that a processor has its
  event before any retry of it and its row is pending, that a row of the
  reconciler's snapshot that was retried before is still pending (so giving it
  up takes nothing back), and that a deposit is created once, by a thread that
  found nothing of it. The lemmas `NextDest`, `NextMoves`, `NextRows` and
  `NextRetries` say once what any step does to destinations, threads, rows and
  counts.

*EthRpc* (`FacadeProofs`), for any transactions, instances, workers and faults:

- `SuccessIsReal`: `Spec => []SuccessIsExecuted`; a worker that is about to
  complete a row has seen the commit.
- `OutcomesAreFinal`: `Spec => DecidedOnce`.
- `FacadeTypes`: `Spec => []TypeOK`. That balances stay natural numbers is the
  part with content: a transfer commits only while the balance covers it, now or
  late.
- `BlocksAreWellFormed`: `Spec => []BlocksWellFormed`. `Rowed` adds that a
  transaction has one row, and a receipt only when its row is mined; `Sealed`
  that no receipt is of a block above the latest. The index of a transaction is
  the number of claimed rows before its own. `PlaceGrows` and `PlacesFill` show
  that these numbers grow with the row and are exactly 0 up to the number of rows
  less one, for any finite set of rows; the same lemmas serve the rows with a log.

- `OutcomesAreImplemented`: `Spec => ImplementsOutcomes`, the refinement. The
  outcome of a transaction is read off its row, and off its receipt once the row
  is mined (`OutcomeOf`). A submission maps to `Accept`, a commit, answered or
  late, to `Execute`, the write of an outcome to `Decide`, a block to `Publish`,
  and what a second submitter of the same row does to nothing. `Requested` adds
  that a worker or a late command is for a transaction that was accepted, and
  that a mined row has its receipt. A failure may be followed by the effect, which
  is the finding of `ethrpc_failed`.
- `FailureIsReal`: `ASSUME Alone PROVE Spec => []FailedNotExecuted`, when the
  comment in `mine` does hold. `Alone` says that there is one instance, that no
  answer of Canton and no write of the database is lost, and that the instance
  does not crash; the ledger may still refuse, contend or be away. `InHand` adds
  that a row is pending as long as a worker has it, that no command is under way
  which nobody waits for, and that the row of a transfer that took place is
  completed, mined as a success, or in the hands of a worker about to complete
  it. So a retry only ever starts before the transfer took place. `ethrpc_failed`
  has all of `Alone` except that one answer is lost.

*FacadeReads* (`FacadeProofs`), for any of the above and any limit of a query:

- `AnswersAreFinal`: `ReadSpec => []AnswersFinal`. `ReadInv` adds that no receipt
  is of a block above the latest, that a receipt in hand is the stored one, and
  that the final part of a range exists. Receipts are only added, in a new block
  (`Grows`); so what precedes a log of an old block in the order of the query
  never changes, and neither does whether the limit cuts it off (`LogsStable`).

*Indexer*, for any ledger, queue size, crashes and answers. In
`IndexerStreamProofs`:

- `BatchesInSequence`: `Spec => []InSequence`. `SeqInv` adds the types of the
  stream's variables and that no more is queued than was received.
- `AppliesInOrder`: `Spec => IndexedInOrder`, the refinement. By `InSequence`
  the batch at the head of the queue is the one after the stored offset, or the
  one at it after a lost answer, so `Apply` maps to `Index`, `Transact` to
  `Grow` and the rest to stuttering.
- `TokenRefreshed`: `Spec => []RefreshedInTime`, from `RefreshBy(e) < e`.

In `IndexerProofs`:

- `TokenTablesAgree` and `OnlyBurnsBlock`: `Spec => []TokensAgree` and
  `Spec => []BlockedByBurn`. `TokenDb` says what the events, supplies, balances
  and holder counts are after the first n transactions (`TokenTables`), and
  `TokenLedger` that the ledger never let a party spend more than it had.
  `TokenAdvance` shows that the next batch brings the tables from n to n + 1,
  or sets `err` where a burn exceeds what was seen; `TokenRepeat` that the last
  batch again changes nothing, since its event is on record.
- `TransferTableAgrees`: `Spec => []TransfersAgree`. `TransferDb` gives each row
  by its offer or direct transfer and the settlement that follows; `SettleLedger`
  says that an offer is settled once, after it was made. Applied again, a batch
  finds its row, or the status it would write.
- `HoldingTableAgrees`: `Spec => []HoldingsAgree`. `HoldingDb` says that the rows
  are the unlocked holdings created and not spent (`FreeRows`) and each balance
  their sum, as long as no answer to a commit was lost; after one it fails
  (`indexer_commit`). `ActiveIsFree` and `FreeIsActive` tie these rows to the
  active contracts.

  The three rest on `IndexerStoreProofs`: what each store method, each item and
  the batch of each kind of transaction does to the tables; and on
  `IndexerTableProofs`: how a sum grows by one transaction (`TotalAdd`), that a
  balance that moves keeps the count of holders right (`MovedHolders`), and that
  the next batch brings each table from n to n + 1. A transaction has at most four events, so no
  induction over a batch is needed; the induction over the ledger is the one over
  the steps of the specification.

*Transfers* (`TransferProofs`), for any clients, offers and prepared transactions:

- `ExecutesOnce` and `ExecutesInTime`. `InOnePlace` says that an id is in the
  cache, in the hands of one request, or submitted, and in one of them only, and
  that what left the cache had not expired.
- `ClaimsMatchLedger`: `TransfersSpec => []ClaimableWhileActive`. What the indexer
  shows of an offer depends on the changes it has still to apply, so the property
  is not inductive. `Followed` adds that the indexer knows the offers in the order
  of their creation and that each one it does not know is among these changes
  (`InOrder`), and that the last it hears of an offer, or has heard when nothing
  waits, is what became of it (`Truthful`).
- `CacheAndPageBounded`: `TransfersSpec => []TransfersTypeOK`. The page of the
  worker is what a window of `PageLimit` places can hold (`WindowBounds`), and the
  list it was cut from only grows or changes in place.

*Registration* (`AccountProofs`), for any people, keys, hints, native parties and
requests, failures between any two calls, and restarts:

- `UsersResolve` and `UsersDiffer`: `AccountsSpec => []Resolves` and
  `AccountsSpec => []PartyOnce`, for any set `Overlapping`; section 5 says what
  the two except. `RegInv` adds that an allocated party is held by one request or
  one user (`Separate`), that a person outside `Overlapping` with a request in
  progress is not registered, and that the last mapping of such a person about to
  be saved is the one the request made (`Mapped`). An earlier attempt that failed leaves older
  mappings only, and the last one counts (`ResolveLast`).

*Login* (`AccountProofs`), for any addresses, capacity and lifetime:

- `MapsStayInverse`, `NonceUsedOnce`, `LiveNonceStays`. `Agree` is shown for each
  operator of the store; `NonceInv` adds that a nonce in the store was generated
  and has not been used, and that none was used before it was generated, which
  keeps a nonce that was used from coming back. `Keeps` is the step fact behind
  `LiveNonceStays`.
- `SignInIsImplemented`: `AccountsSpec => ImplementsSignIn`, the refinement.
  `LiveNonces` are the entries of the map by address that have time left, so the
  expired ones that wait for a sweep do not exist for the abstract store. Sweeps
  map to nothing, `Issue` with or without one to `Issue`, a login to `Use`, the
  clock to `Age` and a restart to `Forget`. `SignInInv` adds to `NonceInv` that
  the time left is a natural number.

Only model-checked: liveness (`EventuallyRecorded`, `EventuallySettled`,
`EventuallyReceipt`, `EventuallyIndexed`, `EventuallyAccepted`,
`EventuallyRoom`), because fairness is out of the prover's reach.

## 5. Known gaps of the code

What the models show the code does not promise, besides the three findings:

- *Relayer.* `docs/ARCHITECTURE.md:351` says "Every event is guaranteed to be
  processed at least once". Three kinds of events are not (the exceptions of
  `NoSilentLoss`): one whose `CreateTransfer` failed is passed over by the next
  checkpoint (`insertFailed`); a crash between two events of one position can
  lose the second; and a relayer that restarts before it persisted any position
  computes its start anew, past events that came in between (`startedPast`). Two
  deposits of one EVM transaction carry the same hash, which is all
  `IsDepositProcessed` looks at: once the first is on Canton, the second is
  skipped and completed without a mint of its own (`CompletedHasTrace` asks for
  something under the hash, not for each deposit). A failed `CompleteWithdrawal` is never
  repeated: the withdrawal is released and stays open on Canton.
- *Facade.* After a lost answer the ledger refuses the repeated command id, and
  the row stays pending (`EventuallyReceipt` is stated without lost answers). A
  database error during the look-up of a user is taken for a bad request and
  fails the transaction for good (`LookupFails`). `eth_blockNumber` reports a
  number ahead of the latest block, by 12 or by the uptime of the instance
  (`docs/API_DOCUMENTATION.md` says "Returns the latest block number"), so the
  logs up to it are not final, and the number can fall after a restart.
  `eth_getLogs` cuts its answer at 10000 logs without saying so.
  `eth_getTransactionCount` counts mined transactions only and nothing checks a
  nonce, so two pending transactions can carry the same one.
- *Indexer.* A burn by a party that received tokens elsewhere blocks the indexer
  for good (`BlockedByBurn`). A stream that ends in good order ends indexing
  while the process goes on serving. A revoked token is offered again until its
  refresh-by time. The comments on `FinalizeTransfer`
  (`pkg/indexer/engine/processor.go:91`, `pkg/indexer/store/pg.go:292`) say
  `"canceled" on withdraw/reject`, and so does a comment of a test
  (`processor_test.go:438`); `offerTerminalStatus`, the statuses in `types.go` and
  the tests of the store make a rejected offer `"rejected"`. The comments are out
  of date, and `TransfersAgree` follows the code.
- *Transfers.* A prepared transfer reserves nothing: when another transfer spends
  one of its inputs, the ledger refuses it at its execution.
- *Registration.* Two overlapping requests of one person, which a retry after a
  timeout is enough for, can leave a row and a mapping that name different
  parties (the exception of `Resolves`). Two overlapping requests of one native
  party both pass the look-up (`service.go:266`) and both insert a row, since
  `canton_party_id` is not unique in the table (the exception of `PartyOnce`; the
  address of the other kinds is unique). Native parties of one
  namespace share a fingerprint. An external registration that failed after its
  allocation is refused when it is tried again with the same key and hint.

## 6. Not modelled

- *Readiness of the relayer*: flags that only the health endpoint reads.
- *Balance reconciler*: no server starts it, only scripts under
  `scripts/testing`. Whoever moves it into a server should look at two places
  first. The full reconciliation resets the balances of one symbol but clears,
  and so applies again, the events of all (`reconciler.go:358`). A burn stored
  before its fingerprint has a row inserts a positive balance
  (`store/pg.go:414`).
- *Other reads of the facade* (transactions, blocks, nonces, `eth_call`, constant
  answers) *and reads of the indexer* (balances, events): they change nothing and
  answer from one query. The two lists other parts depend on are in
  `OfferLedger`; their order among offers of the same instant, which the query
  leaves open, is taken to be that of creation.
- *Two indexers on one database*: the deployment runs one.
- *Whitelist and `DeleteUser`*: single statements, the second of which nothing
  calls. Addresses are taken to be on the whitelist.
- *Mint and Burn of the token client*: operator tools.
- *Signatures, keys, JWTs, encodings, HTTP serving, logging and metrics
  wrappers, configuration*: stateless or pure input and output.
- *Generated code and scripts*: the protobuf and contract bindings and the mocks
  are about 44000 of the 94000 lines of Go outside tests, the scripts for set-up
  and testing 18000. The modules cover the stateful parts of the rest.
