---------------------------- MODULE FacadeReads ----------------------------
(***************************************************************************)
(* The reads of the Ethereum JSON-RPC facade that a wallet follows its     *)
(* transactions with: eth_getTransactionReceipt and eth_getLogs of         *)
(* pkg/ethrpc/service over pkg/ethrpc/store, while the facade works.       *)
(*                                                                         *)
(* A call makes up to two queries, between which the miners may commit     *)
(* blocks.  One reader stands for all: a call changes nothing that another *)
(* call depends on.                                                        *)
(***************************************************************************)
EXTENDS EthRpc

CONSTANTS
    Buffer,     \* confirmationBufferBlocks
    MaxUptime,  \* bound: seconds since the start of an instance
    LogLimit    \* evmLogsQueryLimit

ASSUME ReadsAssumption == Buffer \in Nat /\ MaxUptime \in Nat /\ LogLimit \in Nat

VARIABLE reader     \* the call in progress (at "receipt" or "logs"), or the last answer

readVars == <<vars, reader>>

Idle == [at |-> "idle"]

\* What an instance that has been up for some time answers to eth_blockNumber.
BlockNumbers == {IF s > latest + Buffer THEN s ELSE latest + Buffer : s \in 0 .. MaxUptime}

----------------------------------------------------------------------------
(* Queries.                                                                *)
----------------------------------------------------------------------------

Mined(t) == receipts[t] # NoReceipt

\* GetEvmLogsByTxHash: the log of the transaction, if it has one.
LogsByTxHash(t) == {u \in {t} : Mined(u) /\ receipts[u].ok}

\* The order of GetEvmLogs.
Before(t, u) ==
    \/ receipts[t].block < receipts[u].block
    \/ receipts[t].block = receipts[u].block /\ receipts[t].txIndex < receipts[u].txIndex

\* GetEvmLogs: the first LogLimit logs of the blocks from .. to.
LogsBetween(from, to) ==
    LET logs == {t \in Txs : Mined(t) /\ receipts[t].ok /\ receipts[t].block \in from .. to}
    IN  {t \in logs : Cardinality({u \in logs : Before(u, t)}) < LogLimit}

----------------------------------------------------------------------------
(* Calls.                                                                  *)
----------------------------------------------------------------------------

Answered == reader.at \in {"idle", "receiptDone", "logsDone"}

\* GetTransactionReceipt reads the transaction, if it is mined, and then its log.
ReceiptRow(t) ==
    /\ Answered /\ Mined(t)
    /\ reader' = [at |-> "receipt", tx |-> t, row |-> receipts[t]]
    /\ UNCHANGED vars

ReceiptLogs ==
    /\ reader.at = "receipt"
    /\ reader' = [at |-> "receiptDone", tx |-> reader.tx, row |-> reader.row,
                  logs |-> LogsByTxHash(reader.tx)]
    /\ UNCHANGED vars

\* The number that eth_blockNumber would report.
DefaultToBlockNaive == BlockNumbers

\* GetLogs without a toBlock reads the latest block.
DefaultToBlock == {latest}

LogsLatest(from) ==
    /\ Answered
    /\ \E to \in DefaultToBlock : reader' = [at |-> "logs", from |-> from, to |-> to, final |-> to]
    /\ UNCHANGED vars

\* With a toBlock, here one that eth_blockNumber reported; the blocks that exist
\* when the call begins are final.
LogsUpTo(from) ==
    /\ Answered
    /\ \E to \in BlockNumbers :
        reader' = [at |-> "logs", from |-> from, to |-> to,
                   final |-> IF to < latest THEN to ELSE latest]
    /\ UNCHANGED vars

LogsQuery ==
    /\ reader.at = "logs"
    /\ reader' = [at |-> "logsDone", from |-> reader.from, to |-> reader.to,
                  final |-> reader.final, logs |-> LogsBetween(reader.from, reader.to)]
    /\ UNCHANGED vars

\* A query fails, and the call with it.
QueryFails ==
    /\ reader.at \in {"receipt", "logs"}
    /\ reader' = Idle
    /\ UNCHANGED vars

Read ==
    \/ \E t \in Txs : ReceiptRow(t)
    \/ ReceiptLogs
    \/ \E from \in 0 .. latest : LogsLatest(from) \/ LogsUpTo(from)
    \/ LogsQuery
    \/ QueryFails

ReadInit == Init /\ reader = Idle
ReadNext == (Next /\ UNCHANGED reader) \/ Read
ReadSpec == ReadInit /\ [][ReadNext]_readVars

\* Nobody has to read.
FairReadSpec == ReadSpec /\ Fairness

\* What the facade has answered stays true, whatever the submitters and miners do
\* during the call and after it: the receipt is the one it would give now, with
\* the log of the transfer if it succeeded; and the logs of a range are those it
\* would give now, as far as the range existed when the call began, which
\* is all of it for a call without toBlock (GetTransactionReceipt, GetLogs).
AnswersFinal ==
    /\ reader.at = "receiptDone" =>
        /\ reader.row = receipts[reader.tx]
        /\ reader.logs = IF reader.row.ok THEN {reader.tx} ELSE {}
    /\ reader.at = "logsDone" =>
        \A t \in Txs : receipts[t].block <= reader.final =>
            (t \in reader.logs <=> t \in LogsBetween(reader.from, reader.to))
=============================================================================
