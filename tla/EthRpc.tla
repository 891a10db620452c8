------------------------------- MODULE EthRpc -------------------------------
(***************************************************************************)
(* The Ethereum JSON-RPC facade: pkg/ethrpc (service, submitter, miner and *)
(* store) over pkg/token.  A signed ERC-20 transfer becomes a mempool row; *)
(* the submitter of an API server instance executes it on Canton and marks *)
(* the row completed or failed; a miner seals such rows into synthetic     *)
(* blocks, which is when a receipt exists.                                 *)
(*                                                                         *)
(* The rows, the blocks and the ledger are shared by the instances.  Every *)
(* database statement and every answer of the ledger is a step of its own. *)
(* A transfer spends the sender's unlocked holdings: spending changes the  *)
(* set of active holdings, which spent[a] counts.                          *)
(***************************************************************************)
EXTENDS Integers, Sequences, FiniteSets

CONSTANTS
    Txs,             \* signed transactions, by hash
    FromOf,          \* [Txs -> accounts]: the sender
    AmountOf,        \* [Txs -> Nat \ {0}]: the amount
    Supply,          \* [accounts -> Nat]: what each account holds at first
    Accepted,        \* SUBSET Txs: those SendRawTransaction accepts
    Instances,       \* API server processes
    BatchSize,       \* rows a drain loads; 0 is no limit
    Concurrency,     \* workers of a submitter
    MaxTxsPerBlock,  \* rows a block takes; 0 is no limit
    Retired,         \* SUBSET Txs: a restart may drop their contract from the config
    DbFaults,        \* a database statement may fail
    LedgerFaults,    \* the ledger may refuse a valid command
    MaxLost,         \* bound: Canton calls that time out
    MaxCrashes,      \* bound: crashes of instances
    MaxCredits       \* bound: units that arrive from elsewhere

Accounts == DOMAIN Supply

ASSUME EthRpcAssumption ==
    /\ IsFiniteSet(Txs)
    /\ Supply \in [Accounts -> Nat]
    /\ FromOf \in [Txs -> Accounts]
    /\ AmountOf \in [Txs -> Nat \ {0}]
    /\ Accepted \subseteq Txs
    /\ BatchSize \in Nat
    /\ Concurrency \in Nat \ {0}
    /\ MaxTxsPerBlock \in Nat
    /\ Retired \subseteq Txs
    /\ DbFaults \in BOOLEAN /\ LedgerFaults \in BOOLEAN
    /\ MaxLost \in Nat /\ MaxCrashes \in Nat /\ MaxCredits \in Nat

VARIABLES
    pool,      \* Seq(Txs): the rows of mempool, by id
    status,    \* [Txs -> Statuses]: mempool.status; "none" is no row
    receipts,  \* [Txs -> Receipt or NoReceipt]: evm_transactions and evm_logs
    latest,    \* evm_state.latest_block
    work,      \* [Instances -> [Txs -> Labels]]: what a submitter does
    seen,      \* [Instances -> [Txs -> Nat]]: spent[sender] when it read holdings
    executed,  \* SUBSET Txs: transfers committed on Canton, by command id
    balance,   \* [Accounts -> Nat]: unlocked holdings
    spent,     \* [Accounts -> Nat]
    late,      \* commands <<tx, seen>> nobody waits for any more
    lost, crashes, credits

storeVars == <<pool, status, receipts, latest>>
ledgerVars == <<executed, balance, spent>>
counters == <<lost, crashes, credits>>
vars == <<pool, status, receipts, latest, work, seen, executed, balance, spent,
          late, lost, crashes, credits>>

Statuses == {"none", "pending", "completed", "failed", "mined"}
Labels == {"none", "queued", "waiting", "completing", "failing"}
NoReceipt == [block |-> 0]
NoLog == -1

Init ==
    /\ pool = <<>>
    /\ status = [t \in Txs |-> "none"]
    /\ receipts = [t \in Txs |-> NoReceipt]
    /\ latest = 0
    /\ work = [i \in Instances |-> [t \in Txs |-> "none"]]
    /\ seen = [i \in Instances |-> [t \in Txs |-> 0]]
    /\ executed = {}
    /\ balance = Supply
    /\ spent = [a \in Accounts |-> 0]
    /\ late = {}
    /\ lost = 0 /\ crashes = 0 /\ credits = 0

\* The first n of the rows, by id, whose status is in S; n = 0 is no limit.
Rows(S, n) ==
    LET rows == {k \in DOMAIN pool : status[pool[k]] \in S} IN
    {k \in rows : n = 0 \/ Cardinality({j \in rows : j < k}) < n}

-----------------------------------------------------------------------------
(* eth_sendRawTransaction *)

\* The checks refuse or InsertMempoolEntry adds a row, unless the hash has one.
SendRawTransaction(t) ==
    /\ t \in Accepted
    /\ status[t] = "none"
    /\ status' = [status EXCEPT ![t] = "pending"]
    /\ pool' = Append(pool, t)
    /\ UNCHANGED <<receipts, latest, work, seen, ledgerVars, late, counters>>

-----------------------------------------------------------------------------
(* The submitter of instance i *)

Step(i, t, label) == work' = [work EXCEPT ![i][t] = label]

\* drain loads a batch once all workers of the last one are done.
Drain(i) ==
    /\ \A t \in Txs : work[i][t] = "none"
    /\ LET batch == Rows({"pending"}, BatchSize) IN
          /\ batch # {}
          /\ work' = [work EXCEPT ![i] =
                [t \in Txs |-> IF \E k \in batch : pool[k] = t THEN "queued" ELSE "none"]]
    /\ UNCHANGED <<storeVars, seen, ledgerVars, late, counters>>

\* A free worker takes t, the first row of the batch that has none.
Takes(i, t) ==
    /\ work[i][t] = "queued"
    /\ Cardinality({u \in Txs : work[i][u] \in {"waiting", "completing", "failing"}}) < Concurrency
    /\ \A j, k \in DOMAIN pool :
          pool[k] = t /\ j < k => work[i][pool[j]] # "queued"
    /\ UNCHANGED <<storeVars, ledgerVars, late, counters>>

\* TransferFrom reads the holdings, which cover the amount, and submits.
Submit(i, t) ==
    /\ Takes(i, t)
    /\ balance[FromOf[t]] >= AmountOf[t]
    /\ Step(i, t, "waiting")
    /\ seen' = [seen EXCEPT ![i][t] = spent[FromOf[t]]]

\* The contract is no longer configured.
Unsupported(i, t) ==
    /\ Takes(i, t)
    /\ t \in Retired /\ crashes > 0
    /\ Step(i, t, "failing")
    /\ UNCHANGED seen

\* The holdings do not cover the amount: a permanent error.
InsufficientBalance(i, t) ==
    /\ Takes(i, t)
    /\ balance[FromOf[t]] < AmountOf[t]
    /\ Step(i, t, "failing")
    /\ UNCHANGED seen

\* GetUserByEVMAddress fails: any error of it is a BadRequestError.
LookupFails(i, t) ==
    /\ DbFaults
    /\ Takes(i, t)
    /\ Step(i, t, "failing")
    /\ UNCHANGED seen

\* The ledger cannot be read: the row stays pending.
ReadFails(i, t) ==
    /\ LedgerFaults
    /\ Takes(i, t)
    /\ Step(i, t, "none")
    /\ UNCHANGED seen

\* A command commits if its id is new and the holdings it names are active.
Valid(t, n) ==
    /\ t \notin executed
    /\ spent[FromOf[t]] = n
    /\ balance[FromOf[t]] >= AmountOf[t]

Commit(t) ==
    /\ executed' = executed \cup {t}
    /\ balance' = [balance EXCEPT ![FromOf[t]] = @ - AmountOf[t]]
    /\ spent' = [spent EXCEPT ![FromOf[t]] = @ + 1]

\* The call returns nil.
Transferred(i, t) ==
    /\ work[i][t] = "waiting"
    /\ Valid(t, seen[i][t])
    /\ Commit(t)
    /\ Step(i, t, "completing")
    /\ UNCHANGED <<storeVars, seen, late, counters>>

\* Mutant: an error that is not permanent counts as success.
Rejected_AsDone(i, t) ==
    /\ work[i][t] = "waiting"
    /\ LedgerFaults \/ ~Valid(t, seen[i][t])
    /\ Step(i, t, "completing")
    /\ UNCHANGED <<storeVars, seen, ledgerVars, late, counters>>

\* Contention, a duplicate command id or an outage: a transient error, so the
\* row stays pending.
Rejected(i, t) ==
    /\ work[i][t] = "waiting"
    /\ LedgerFaults \/ ~Valid(t, seen[i][t])
    /\ Step(i, t, "none")
    /\ UNCHANGED <<storeVars, seen, ledgerVars, late, counters>>

\* cantonCallTimeout: transient as well; the command is still under way.
TimesOut(i, t) ==
    /\ work[i][t] = "waiting"
    /\ lost < MaxLost
    /\ lost' = lost + 1
    /\ late' = late \cup {<<t, seen[i][t]>>}
    /\ Step(i, t, "none")
    /\ UNCHANGED <<storeVars, seen, ledgerVars, crashes, credits>>

\* Mutant: the write runs under the spent deadline of the Canton call.
CompleteEntry_Expired(i, t) ==
    /\ work[i][t] = "completing"
    /\ Step(i, t, "none")
    /\ UNCHANGED <<storeVars, seen, ledgerVars, late, counters>>

\* CompleteMempoolEntry: only a pending row changes; an error is logged.
CompleteEntry(i, t) ==
    /\ work[i][t] = "completing"
    /\ \/ status' = [status EXCEPT ![t] = IF @ = "pending" THEN "completed" ELSE @]
       \/ DbFaults /\ UNCHANGED status
    /\ Step(i, t, "none")
    /\ UNCHANGED <<pool, receipts, latest, seen, ledgerVars, late, counters>>

\* Mutant: the update has no condition on the status.
FailEntry_Unguarded(i, t) ==
    /\ work[i][t] = "failing"
    /\ status' = [status EXCEPT ![t] = "failed"]
    /\ Step(i, t, "none")
    /\ UNCHANGED <<pool, receipts, latest, seen, ledgerVars, late, counters>>

\* Mutant: the write runs under the spent deadline of the Canton call.
FailEntry_Expired(i, t) ==
    /\ work[i][t] = "failing"
    /\ Step(i, t, "none")
    /\ UNCHANGED <<storeVars, seen, ledgerVars, late, counters>>

\* FailMempoolEntry, with the same condition.
FailEntry(i, t) ==
    /\ work[i][t] = "failing"
    /\ \/ status' = [status EXCEPT ![t] = IF @ = "pending" THEN "failed" ELSE @]
       \/ DbFaults /\ UNCHANGED status
    /\ Step(i, t, "none")
    /\ UNCHANGED <<pool, receipts, latest, seen, ledgerVars, late, counters>>

-----------------------------------------------------------------------------
(* The ledger, on its own *)

\* A command nobody waits for commits, or is rejected or lost.
LateCommit ==
    \E c \in late :
        /\ late' = late \ {c}
        /\ \/ Valid(c[1], c[2]) /\ Commit(c[1])
           \/ UNCHANGED ledgerVars
        /\ UNCHANGED <<storeVars, work, seen, counters>>

\* A unit arrives from a transfer, a deposit or an accepted offer.
Credit(a) ==
    /\ credits < MaxCredits
    /\ credits' = credits + 1
    /\ balance' = [balance EXCEPT ![a] = @ + 1]
    /\ UNCHANGED <<storeVars, work, seen, executed, spent, late, lost, crashes>>

\* An instance dies and is started again; its commands stay under way.
Crash(i) ==
    /\ crashes < MaxCrashes
    /\ crashes' = crashes + 1
    /\ late' = late \cup {<<t, seen[i][t]>> : t \in {u \in Txs : work[i][u] = "waiting"}}
    /\ work' = [work EXCEPT ![i] = [t \in Txs |-> "none"]]
    /\ UNCHANGED <<storeVars, seen, ledgerVars, lost, credits>>

-----------------------------------------------------------------------------
(* The miner *)

\* The rows of the block before row k, and those of them that have a log.
TxsBefore(claimed, k) == Cardinality({j \in claimed : j < k})

LogsBefore(claimed, k) ==
    Cardinality({j \in claimed : j < k /\ status[pool[j]] = "completed"})

\* Mutant: the log index is the transaction index.
ReceiptAt_TxIndex(claimed, k) ==
    LET ok == status[pool[k]] = "completed" IN
    [block |-> latest + 1, txIndex |-> TxsBefore(claimed, k), ok |-> ok,
     logIndex |-> IF ok THEN TxsBefore(claimed, k) ELSE NoLog]

\* Mutant: the number is the one evm_state has before Finalize.
ReceiptAt_Stale(claimed, k) ==
    LET ok == status[pool[k]] = "completed" IN
    [block |-> latest, txIndex |-> TxsBefore(claimed, k), ok |-> ok,
     logIndex |-> IF ok THEN LogsBefore(claimed, k) ELSE NoLog]

\* Mutant: the status is read after the rows became mined: none is completed.
ReceiptAt_Mined(claimed, k) ==
    [block |-> latest + 1, txIndex |-> TxsBefore(claimed, k), ok |-> FALSE, logIndex |-> NoLog]

\* The transaction of row k in the next block; a failed one has no log.
ReceiptAt(claimed, k) ==
    LET ok == status[pool[k]] = "completed" IN
    [block |-> latest + 1, txIndex |-> TxsBefore(claimed, k), ok |-> ok,
     logIndex |-> IF ok THEN LogsBefore(claimed, k) ELSE NoLog]

\* mine is one database transaction under the lock of evm_state: it takes
\* effect as a whole (Finalize) or not at all (Abort).
Mine ==
    LET claimed == Rows({"completed", "failed"}, MaxTxsPerBlock) IN
    /\ claimed # {}
    /\ latest' = latest + 1
    /\ status' = [t \in Txs |-> IF \E k \in claimed : pool[k] = t THEN "mined" ELSE status[t]]
    /\ receipts' = [t \in Txs |->
          IF receipts[t] = NoReceipt /\ \E k \in claimed : pool[k] = t
          THEN ReceiptAt(claimed, CHOOSE k \in claimed : pool[k] = t)
          ELSE receipts[t]]
    /\ UNCHANGED <<pool, work, seen, ledgerVars, late, counters>>

-----------------------------------------------------------------------------
Worker(i, t) ==
    \/ Submit(i, t)
    \/ Unsupported(i, t)
    \/ InsufficientBalance(i, t)
    \/ LookupFails(i, t)
    \/ ReadFails(i, t)
    \/ Transferred(i, t)
    \/ Rejected(i, t)
    \/ TimesOut(i, t)
    \/ CompleteEntry(i, t)
    \/ FailEntry(i, t)

Next ==
    \/ \E t \in Txs : SendRawTransaction(t)
    \/ \E i \in Instances : Drain(i) \/ Crash(i) \/ \E t \in Txs : Worker(i, t)
    \/ LateCommit
    \/ \E a \in Accounts : Credit(a)
    \/ Mine

Spec == Init /\ [][Next]_vars

\* Tickers keep ticking, workers keep running, the ledger answers every command.
Fairness ==
    /\ \A i \in Instances : WF_vars(Drain(i)) /\ \A t \in Txs : WF_vars(Worker(i, t))
    /\ WF_vars(LateCommit)
    /\ WF_vars(Mine)

FairSpec == Spec /\ Fairness

-----------------------------------------------------------------------------
(* Properties *)

Receipt ==
    [block : Nat \ {0}, txIndex : Nat, ok : BOOLEAN, logIndex : Nat \cup {NoLog}]

\* Every row, receipt, worker and account of the facade has its type; a
\* spending never takes more than the sender holds.
TypeOK ==
    /\ pool \in Seq(Txs)
    /\ status \in [Txs -> Statuses]
    /\ receipts \in [Txs -> Receipt \cup {NoReceipt}]
    /\ latest \in Nat
    /\ work \in [Instances -> [Txs -> Labels]]
    /\ seen \in [Instances -> [Txs -> Nat]]
    /\ executed \subseteq Txs
    /\ balance \in [Accounts -> Nat]
    /\ spent \in [Accounts -> Nat]
    /\ late \subseteq Txs \X Nat
    /\ lost \in Nat /\ crashes \in Nat /\ credits \in Nat

\* A wallet is told of a success only if the transfer is on Canton: neither a
\* completed row nor a receipt of status 1 exists without it, whatever the
\* timeouts, crashes and retries of the submitters.
SuccessIsExecuted ==
    \A t \in Txs :
        \/ status[t] = "completed"
        \/ receipts[t] # NoReceipt /\ receipts[t].ok
        => t \in executed

\* The transaction indices of block b are 0, 1, ... and so are its log indices.
BlockWellFormed(rows, b) ==
    LET txs == {t \in Txs : rows[t].block = b}
        logged == {t \in txs : rows[t].ok} IN
    /\ txs # {}
    /\ {rows[t].txIndex : t \in txs} = 0 .. (Cardinality(txs) - 1)
    /\ {rows[t].logIndex : t \in logged} = 0 .. (Cardinality(logged) - 1)
    /\ \A t, u \in logged :
          rows[t].txIndex < rows[u].txIndex => rows[t].logIndex < rows[u].logIndex

\* Blocks are numbered without gaps and none is empty; the transaction indices
\* of a block are 0, 1, ... and so are its log indices, which follow the order
\* of the transactions and skip those that failed.
BlocksWellFormed == \A b \in 1 .. latest : BlockWellFormed(receipts, b)

\* An outcome is decided once: whatever two submitters that hold the same row
\* do, a completed row is never failed nor a failed one completed, a mined
\* row stays mined, and a receipt never changes.
DecidedOnce ==
    [][\A t \in Txs :
        /\ status[t] = "completed" => status'[t] \in {"completed", "mined"}
        /\ status[t] = "failed" => status'[t] \in {"failed", "mined"}
        /\ status[t] = "mined" => status'[t] = "mined"
        /\ receipts[t] # NoReceipt => receipts'[t] = receipts[t]]_vars

\* What a wallet can learn of a transaction: a mined one by its receipt.
OutcomeOf(t) ==
    CASE status[t] = "completed" -> "success"
      [] status[t] = "failed" -> "failure"
      [] status[t] = "mined" -> IF receipts[t].ok THEN "success" ELSE "failure"
      [] OTHER -> status[t]

Outcomes == INSTANCE TransactionOutcomes WITH
    outcome <- [t \in Txs |-> OutcomeOf(t)],
    published <- {t \in Txs : receipts[t] # NoReceipt}

\* Any number of instances, their timeouts and crashes implement the outcomes a
\* wallet is promised: a transfer takes effect only after it was accepted, its
\* outcome is decided once, and its receipt says what was decided
\* (SendRawTransaction, process, mine).
ImplementsOutcomes == Outcomes!OutcomesSpec

\* A transaction that eth_sendRawTransaction accepted gets a receipt.
EventuallyReceipt ==
    \A t \in Txs : status[t] = "pending" ~> receipts[t] # NoReceipt

\* "Failed transfers never executed on Canton" (mine): no receipt of status 0
\* is for a transfer that took place.
FailedNotExecuted ==
    \A t \in Txs : receipts[t] # NoReceipt /\ ~receipts[t].ok => t \notin executed
=============================================================================
