---------------------------- MODULE FacadeProofs ----------------------------
(***************************************************************************)
(* Proofs about EthRpc and FacadeReads, for any number of transactions,    *)
(* accounts and API server instances, any batch, pool and block size, any  *)
(* limit on a query of logs, and any number of timeouts, crashes and       *)
(* faults: the outcome of a transaction, the answers of the reads, and the *)
(* shape of the blocks the miner writes.                                   *)
(***************************************************************************)
EXTENDS FacadeReads, TLAPS, FiniteSetTheorems

\* What the proofs need of the types.
Shape ==
    /\ status \in [Txs -> Statuses]
    /\ work \in [Instances -> [Txs -> Labels]]
    /\ receipts = [t \in Txs |-> receipts[t]]

\* A worker is about to complete a row only once the transfer is on Canton.
CompletingIsExecuted ==
    \A i \in Instances, t \in Txs : work[i][t] = "completing" => t \in executed

IInv == Shape /\ CompletingIsExecuted /\ SuccessIsExecuted

\* The first state has no rows, no workers and no receipts.
LEMMA InitInv == Init => IInv
  BY Zenon DEF Init, IInv, Shape, CompletingIsExecuted, SuccessIsExecuted, Statuses, Labels, NoReceipt

\* Moving one worker of one instance to another label.
LEMMA StepWork ==
    ASSUME Shape, NEW i \in Instances, NEW t \in Txs, NEW label \in Labels, Step(i, t, label)
    PROVE  /\ work' \in [Instances -> [Txs -> Labels]]
           /\ work'[i][t] = label
           /\ \A j \in Instances, u \in Txs :
                 (j # i \/ u # t) => work'[j][u] = work[j][u]
  BY Zenon DEF Shape, Step

\* A step of a worker: it completes a row only after the commit it waited for.
LEMMA WorkerKeeps ==
    ASSUME IInv, NEW i \in Instances, NEW t \in Txs, Worker(i, t)
    PROVE  IInv'
<1> USE DEF IInv, Labels
<1>1. CASE \/ Submit(i, t) \/ Unsupported(i, t) \/ InsufficientBalance(i, t)
           \/ LookupFails(i, t) \/ ReadFails(i, t)
  <2>1. PICK l \in Labels \ {"completing"} : Step(i, t, l)
    BY <1>1, Zenon DEF Submit, Unsupported, InsufficientBalance, LookupFails, ReadFails
  <2>2. UNCHANGED <<status, receipts, executed>>
    BY <1>1, Zenon DEF Submit, Unsupported, InsufficientBalance, LookupFails, ReadFails, Takes,
                storeVars, ledgerVars
  <2> QED  BY <2>1, <2>2, StepWork DEF Shape, CompletingIsExecuted, SuccessIsExecuted
<1>2. CASE Transferred(i, t)
  <2>1. /\ Step(i, t, "completing") /\ UNCHANGED <<status, receipts>>
        /\ executed' = executed \cup {t}
    BY <1>2, Zenon DEF Transferred, Commit, storeVars
  <2> QED  BY <2>1, StepWork DEF Shape, CompletingIsExecuted, SuccessIsExecuted
<1>3. CASE Rejected(i, t) \/ TimesOut(i, t)
  <2>1. Step(i, t, "none") /\ UNCHANGED <<status, receipts, executed>>
    BY <1>3, Zenon DEF Rejected, TimesOut, storeVars, ledgerVars
  <2> QED  BY <2>1, StepWork DEF Shape, CompletingIsExecuted, SuccessIsExecuted
<1>4. CASE CompleteEntry(i, t) \/ FailEntry(i, t)
  <2>1. Step(i, t, "none") /\ UNCHANGED <<receipts, executed>>
    BY <1>4, Zenon DEF CompleteEntry, FailEntry, ledgerVars
  <2>2. status' \in [Txs -> Statuses]
    BY <1>4, Zenon DEF CompleteEntry, FailEntry, Shape, Statuses
  <2>3. \A u \in Txs : status'[u] = "completed" => u \in executed
    BY <1>4, Zenon DEF CompleteEntry, FailEntry, Shape, CompletingIsExecuted, SuccessIsExecuted
  <2> QED  BY <2>1, <2>2, <2>3, StepWork DEF Shape, CompletingIsExecuted, SuccessIsExecuted
<1> QED  BY <1>1, <1>2, <1>3, <1>4, Zenon DEF Worker

\* A block gives status 1 to completed rows only.
LEMMA MineKeeps == IInv /\ Mine => IInv'
<1> SUFFICES ASSUME IInv, Mine PROVE IInv'
  BY Zenon
<1> DEFINE claimed == Rows({"completed", "failed"}, MaxTxsPerBlock)
           RowOf(t) == CHOOSE k \in claimed : pool[k] = t
<1>1. UNCHANGED <<work, executed>>
  BY Zenon DEF Mine, ledgerVars
<1>2. status' = [t \in Txs |->
          IF \E k \in claimed : pool[k] = t THEN "mined" ELSE status[t]]
  BY Zenon DEF Mine
<1>3. \A t \in Txs : \/ receipts'[t] = receipts[t]
                     \/ /\ pool[RowOf(t)] = t
                        /\ receipts'[t] = ReceiptAt(claimed, RowOf(t))
  BY Zenon DEF Mine
<1>4. receipts' = [t \in Txs |-> receipts'[t]]
  BY Zenon DEF Mine
<1>5. \A t \in Txs : pool[RowOf(t)] = t /\ ReceiptAt(claimed, RowOf(t)).ok => status[t] = "completed"
  BY Zenon DEF ReceiptAt
<1> HIDE DEF claimed, RowOf
<1>6. Shape' /\ CompletingIsExecuted'
  BY <1>1, <1>2, <1>4, Zenon DEF IInv, Shape, CompletingIsExecuted, Statuses
<1>7. \A t \in Txs : status'[t] = "completed" => t \in executed'
  BY <1>1, <1>2, Zenon DEF IInv, SuccessIsExecuted
<1>8. ASSUME NEW t \in Txs, receipts'[t] # NoReceipt, receipts'[t].ok
      PROVE  t \in executed'
  BY <1>1, <1>3, <1>5, <1>8, Zenon DEF IInv, SuccessIsExecuted
<1> QED  BY <1>6, <1>7, <1>8, Zenon DEF IInv, SuccessIsExecuted, NoReceipt

\* Every step of the system keeps the invariant.
LEMMA NextInv == IInv /\ [Next]_vars => IInv'
<1> SUFFICES ASSUME IInv, [Next]_vars PROVE IInv'
  BY Zenon
<1>1. ASSUME NEW t \in Txs, SendRawTransaction(t) PROVE IInv'
  BY <1>1, Zenon DEF SendRawTransaction, ledgerVars, IInv, Shape, CompletingIsExecuted,
              SuccessIsExecuted, Statuses
<1>2. ASSUME NEW i \in Instances, Drain(i) PROVE IInv'
  <2>1. UNCHANGED <<status, receipts, executed>>
    BY <1>2, Zenon DEF Drain, storeVars, ledgerVars
  <2>2. /\ work' \in [Instances -> [Txs -> Labels]]
        /\ \A j \in Instances, t \in Txs : work'[j][t] = "completing" => work[j][t] = "completing"
    BY <1>2, Zenon DEF Drain, IInv, Shape, Labels
  <2> QED  BY <2>1, <2>2, Zenon DEF IInv, Shape, CompletingIsExecuted, SuccessIsExecuted
<1>3. ASSUME NEW i \in Instances, Crash(i) PROVE IInv'
  <2>1. UNCHANGED <<status, receipts, executed>>
    BY <1>3, Zenon DEF Crash, storeVars, ledgerVars
  <2>2. /\ work' \in [Instances -> [Txs -> Labels]]
        /\ \A j \in Instances, t \in Txs : work'[j][t] = "completing" => work[j][t] = "completing"
    BY <1>3, Zenon DEF Crash, IInv, Shape, Labels
  <2> QED  BY <2>1, <2>2, Zenon DEF IInv, Shape, CompletingIsExecuted, SuccessIsExecuted
<1>4. CASE LateCommit
  BY <1>4, Zenon DEF LateCommit, Commit, storeVars, ledgerVars, IInv, Shape, CompletingIsExecuted,
              SuccessIsExecuted
<1>5. ASSUME NEW a \in Accounts, Credit(a) PROVE IInv'
  BY <1>5, Zenon DEF Credit, storeVars, IInv, Shape, CompletingIsExecuted, SuccessIsExecuted
<1>6. CASE UNCHANGED vars
  BY <1>6, Zenon DEF vars, IInv, Shape, CompletingIsExecuted, SuccessIsExecuted
<1> QED  BY <1>1, <1>2, <1>3, <1>4, <1>5, <1>6, WorkerKeeps, MineKeeps, Zenon DEF Next

\* SuccessIsExecuted: a wallet that is told of a success can rely on it, in
\* every run of any number of submitters (process, completeEntry, mine).
THEOREM SuccessIsReal == Spec => []SuccessIsExecuted
<1>1. IInv => SuccessIsExecuted
  BY Zenon DEF IInv
<1> QED  BY InitInv, NextInv, <1>1, PTL DEF Spec

\* One step never takes back an outcome.
LEMMA OutcomeStep ==
    ASSUME Shape, [Next]_vars
    PROVE  \A t \in Txs :
             /\ status[t] = "completed" => status'[t] \in {"completed", "mined"}
             /\ status[t] = "failed" => status'[t] \in {"failed", "mined"}
             /\ status[t] = "mined" => status'[t] = "mined"
             /\ receipts[t] # NoReceipt => receipts'[t] = receipts[t]
<1> USE DEF Shape
<1>1. ASSUME NEW u \in Txs, SendRawTransaction(u),
             NEW t \in Txs
      PROVE  (status[t] # "none" => status'[t] = status[t]) /\ receipts' = receipts
  BY <1>1, Zenon DEF SendRawTransaction
<1>2. ASSUME NEW i \in Instances, NEW u \in Txs, Worker(i, u),
             NEW t \in Txs
      PROVE  (status[t] # "pending" => status'[t] = status[t]) /\ receipts' = receipts
  <2>1. CASE CompleteEntry(i, u) \/ FailEntry(i, u)
    BY <2>1, Zenon DEF CompleteEntry, FailEntry
  <2>2. CASE \/ Submit(i, u) \/ Unsupported(i, u) \/ InsufficientBalance(i, u)
             \/ LookupFails(i, u) \/ ReadFails(i, u)
    BY <2>2, Zenon DEF Submit, Unsupported, InsufficientBalance, LookupFails, ReadFails, Takes, storeVars
  <2>3. CASE Transferred(i, u) \/ Rejected(i, u) \/ TimesOut(i, u)
    BY <2>3, Zenon DEF Transferred, Rejected, TimesOut, storeVars
  <2> QED  BY <1>2, <2>1, <2>2, <2>3, Zenon DEF Worker
<1>3. ASSUME Mine, NEW t \in Txs
      PROVE  /\ status'[t] \in {status[t], "mined"}
             /\ receipts[t] # NoReceipt => receipts'[t] = receipts[t]
  BY <1>3, Zenon DEF Mine
<1>4. ASSUME \/ \E i \in Instances : Drain(i) \/ Crash(i)
             \/ LateCommit
             \/ \E a \in Accounts : Credit(a)
             \/ UNCHANGED vars
      PROVE  UNCHANGED <<status, receipts>>
  BY <1>4, Zenon DEF Drain, Crash, LateCommit, Credit, storeVars, vars
<1> QED  BY <1>1, <1>2, <1>3, <1>4, Zenon DEF Next

\* DecidedOnce: rows and receipts are final however many submitters hold the
\* same row (CompleteMempoolEntry, FailMempoolEntry, ClaimMempoolEntries).
THEOREM OutcomesAreFinal == Spec => DecidedOnce
<1>1. IInv => Shape
  BY Zenon DEF IInv
<1> QED  BY InitInv, NextInv, OutcomeStep, <1>1, PTL DEF Spec, DecidedOnce

-----------------------------------------------------------------------------
(* The answers of the reads. *)

\* No receipt is of a block above the latest.
Sealed == latest \in Nat /\ \A t \in Txs : receipts[t].block \in 0 .. latest

\* A receipt in hand or given is the receipt of its transaction.
ReceiptKept ==
    /\ reader.tx \in Txs /\ Mined(reader.tx)
    /\ reader.row = receipts[reader.tx]

\* The range asked for; the part of it that is final exists.
RangeKept ==
    /\ reader.from \in Nat /\ reader.to \in Nat
    /\ reader.final \in 0 .. latest

ReadInv ==
    /\ Sealed
    /\ reader.at \in {"receipt", "receiptDone"} => ReceiptKept
    /\ reader.at \in {"logs", "logsDone"} => RangeKept
    /\ AnswersFinal

\* Receipts are only added, and in a new block.
Grows ==
    /\ latest' >= latest
    /\ \A t \in Txs :
        \/ receipts'[t] = receipts[t]
        \/ receipts[t] = NoReceipt /\ receipts'[t].block > latest

\* Nobody has read anything and nothing is mined at first.
LEMMA InitReadInv == ReadInit => ReadInv
  BY DEF ReadInit, Init, Idle, ReadInv, Sealed, AnswersFinal, NoReceipt

\* Only the miner writes receipts.
LEMMA NextGrows ==
    ASSUME Sealed, [Next]_vars PROVE Grows /\ Sealed'
<1>1. CASE Mine
  <2>1. latest' = latest + 1
    BY <1>1, Zenon DEF Mine
  <2>2. ASSUME NEW t \in Txs
        PROVE  \/ receipts'[t] = receipts[t]
               \/ receipts[t] = NoReceipt /\ receipts'[t].block = latest + 1
    BY <1>1, Zenon DEF Mine, ReceiptAt
  <2> QED  BY <2>1, <2>2 DEF Grows, Sealed
<1>2. CASE \E t \in Txs : SendRawTransaction(t)
  BY <1>2 DEF SendRawTransaction, Grows, Sealed
<1>3. CASE \E i \in Instances, t \in Txs : Worker(i, t)
  <2>1. UNCHANGED <<receipts, latest>>
    BY <1>3 DEF Worker, Submit, Unsupported, InsufficientBalance, LookupFails, ReadFails, Takes,
                Transferred, Rejected, TimesOut, CompleteEntry, FailEntry, storeVars
  <2> QED  BY <2>1 DEF Grows, Sealed
<1>4. CASE \/ \E i \in Instances : Drain(i) \/ Crash(i)
           \/ LateCommit
           \/ \E a \in Accounts : Credit(a)
           \/ UNCHANGED vars
  <2>1. UNCHANGED <<receipts, latest>>
    BY <1>4, Zenon DEF Drain, Crash, LateCommit, Credit, storeVars, vars
  <2> QED  BY <2>1 DEF Grows, Sealed
<1> QED  BY <1>1, <1>2, <1>3, <1>4, Zenon DEF Next

\* The part of an answer below a block that exists does not depend on what is
\* mined later: nothing that comes later is before it in the order of the logs.
LEMMA LogsStable ==
    ASSUME Sealed, Sealed', Grows, NEW from \in Nat, NEW to \in Nat, NEW final \in 0 .. latest,
           NEW t \in Txs, receipts'[t].block <= final
    PROVE  t \in LogsBetween(from, to)' <=> t \in LogsBetween(from, to)
<1> DEFINE logs == {u \in Txs : Mined(u) /\ receipts[u].ok /\ receipts[u].block \in from .. to}
<1> DEFINE before == {u \in logs : Before(u, t)}
<1>1. receipts'[t] = receipts[t]
  <2>1. ~ (receipts'[t].block > latest)
    BY DEF Sealed
  <2> QED  BY <2>1, Zenon DEF Grows
<1>2. receipts[t].block \in 0 .. final
  BY <1>1 DEF Sealed
<1>3. ASSUME NEW u \in Txs
      PROVE  (u \in logs' /\ Before(u, t)') <=> (u \in logs /\ Before(u, t))
  <2>1. CASE receipts'[u] = receipts[u]
    BY <1>1, <2>1, Zenon DEF Before, Mined
  <2>2. CASE receipts[u] = NoReceipt /\ receipts'[u].block > latest
    <3>1. u \notin logs
      BY <2>2, Zenon DEF Mined
    <3>2. ASSUME u \in logs' PROVE ~ Before(u, t)'
      <4>1. receipts'[u].block \in Nat
        BY <3>2
      <4> QED  BY <1>1, <1>2, <2>2, <4>1 DEF Before, Sealed
    <3> QED  BY <3>1, <3>2, Zenon
  <2> QED  BY <2>1, <2>2, Zenon DEF Grows
<1>4. before' = before
  BY <1>3, Zenon
<1>5. t \in logs' <=> t \in logs
  BY <1>1, Zenon DEF Mined
<1>6. LogsBetween(from, to) = {u \in logs : Cardinality({v \in logs : Before(v, u)}) < LogLimit}
  BY Zenon DEF LogsBetween
<1>7. LogsBetween(from, to)' =
        {u \in logs' : Cardinality({v \in logs' : Before(v, u)'}) < LogLimit}
  BY Zenon DEF LogsBetween, Mined, Before
<1> HIDE DEF logs
<1> QED  BY <1>4, <1>5, <1>6, <1>7, Zenon

\* The facade goes on while a call is in progress or after it.
LEMMA WorkKeeps ==
    ASSUME ReadInv, [Next]_vars, UNCHANGED reader PROVE ReadInv'
<1>1. Grows /\ Sealed'
  BY NextGrows, Zenon DEF ReadInv
<1>2. ASSUME reader.at \in {"receipt", "receiptDone"} PROVE ReceiptKept'
  BY <1>1, <1>2, Zenon DEF ReadInv, ReceiptKept, Mined, Grows
<1>3. ASSUME reader.at \in {"logs", "logsDone"} PROVE RangeKept'
  BY <1>1, <1>3 DEF ReadInv, RangeKept, Grows, Sealed
<1>4. ASSUME reader.at = "receiptDone" PROVE reader.row = receipts'[reader.tx]
  BY <1>2, <1>4, Zenon DEF ReceiptKept
<1>5. ASSUME reader.at = "logsDone", NEW t \in Txs, receipts'[t].block <= reader.final
      PROVE  t \in reader.logs <=> t \in LogsBetween(reader.from, reader.to)'
  <2>1. RangeKept
    BY <1>5, Zenon DEF ReadInv
  <2>2. t \in LogsBetween(reader.from, reader.to)' <=> t \in LogsBetween(reader.from, reader.to)
    BY <1>1, <1>5, <2>1, LogsStable, Zenon DEF ReadInv, RangeKept
  <2>3. receipts[t].block <= reader.final
    BY <1>1, <1>5, <2>1 DEF ReadInv, Sealed, Grows, RangeKept, NoReceipt
  <2> QED  BY <1>5, <2>2, <2>3, Zenon DEF ReadInv, AnswersFinal
<1>6. AnswersFinal'
  BY <1>4, <1>5, Zenon DEF AnswersFinal, ReadInv
<1> QED  BY <1>1, <1>2, <1>3, <1>6, Zenon DEF ReadInv

\* A call looks at the store once or twice, and writes nothing.
LEMMA ReadKeeps ==
    ASSUME ReadInv, Read PROVE ReadInv'
<1>1. UNCHANGED vars
  BY Zenon DEF Read, ReceiptRow, ReceiptLogs, LogsLatest, LogsUpTo, LogsQuery,
         QueryFails
<1>2. UNCHANGED <<receipts, latest>> /\ Sealed'
  BY <1>1, Zenon DEF vars, storeVars, ReadInv, Sealed
<1>3. CASE \E t \in Txs : ReceiptRow(t)
  BY <1>2, <1>3 DEF ReceiptRow, ReadInv, ReceiptKept, Mined, AnswersFinal
<1>4. CASE ReceiptLogs
  <2>1. ReceiptKept
    BY <1>4, Zenon DEF ReceiptLogs, ReadInv
  <2>2. LogsByTxHash(reader.tx) = IF reader.row.ok THEN {reader.tx} ELSE {}
    BY <2>1, Zenon DEF ReceiptKept, LogsByTxHash
  <2> QED  BY <1>2, <1>4, <2>1, <2>2, Zenon DEF ReceiptLogs, ReadInv, ReceiptKept, Mined, AnswersFinal
<1>5. CASE \E from \in 0 .. latest : LogsLatest(from) \/ LogsUpTo(from)
  <2>1. PICK from \in 0 .. latest : LogsLatest(from) \/ LogsUpTo(from)
    BY <1>5, Zenon
  <2>2. BlockNumbers \subseteq Nat
    BY ReadsAssumption DEF BlockNumbers, ReadInv, Sealed
  <2>3. PICK to \in Nat, final \in 0 .. latest :
          reader' = [at |-> "logs", from |-> from, to |-> to, final |-> final]
    <3>1. CASE LogsLatest(from)
      BY <3>1 DEF LogsLatest, DefaultToBlock, ReadInv, Sealed
    <3>2. CASE LogsUpTo(from)
      BY <2>2, <3>2 DEF LogsUpTo, ReadInv, Sealed
    <3> QED  BY <2>1, <3>1, <3>2, Zenon
  <2> QED  BY <1>2, <2>3 DEF ReadInv, Sealed, RangeKept, AnswersFinal
<1>6. CASE LogsQuery
  <2>1. RangeKept
    BY <1>6, Zenon DEF LogsQuery, ReadInv
  <2>2. reader'.logs = LogsBetween(reader.from, reader.to)'
    BY <1>2, <1>6, Zenon DEF LogsQuery, LogsBetween, Mined, Before
  <2> QED  BY <1>2, <1>6, <2>1, <2>2, Zenon DEF LogsQuery, ReadInv, RangeKept, AnswersFinal
<1>7. CASE QueryFails
  BY <1>2, <1>7, Zenon DEF QueryFails, Idle, ReadInv, AnswersFinal
<1> QED  BY <1>3, <1>4, <1>5, <1>6, <1>7, Zenon DEF Read

\* What eth_getTransactionReceipt and eth_getLogs have answered stays true,
\* whatever is submitted and mined between their queries and after them, and
\* wherever the limit of a query cuts the logs (GetTransactionReceipt, GetLogs).
THEOREM AnswersAreFinal == ReadSpec => []AnswersFinal
<1>1. ReadInv /\ [ReadNext]_readVars => ReadInv'
  <2> SUFFICES ASSUME ReadInv, [ReadNext]_readVars PROVE ReadInv'
    BY Zenon
  <2>1. CASE Next /\ UNCHANGED reader
    BY <2>1, WorkKeeps, Zenon
  <2>2. CASE Read
    BY <2>2, ReadKeeps, Zenon
  <2>3. CASE UNCHANGED readVars
    BY <2>3, WorkKeeps, Zenon DEF readVars
  <2> QED  BY <2>1, <2>2, <2>3, Zenon DEF ReadNext
<1>2. ReadInv => AnswersFinal
  BY Zenon DEF ReadInv
<1> QED  BY InitReadInv, <1>1, <1>2, PTL DEF ReadSpec

-----------------------------------------------------------------------------
(* Places in a set of row numbers. *)

\* A later row has a larger place.
LEMMA PlaceGrows ==
    ASSUME NEW S, NEW n \in Nat, S \subseteq 1 .. n, NEW a \in S, NEW b \in S, a < b
    PROVE  TxsBefore(S, a) < TxsBefore(S, b)
<1> DEFINE A == {j \in S : j < a}
           B == {j \in S : j < b}
<1>1. a \in Int /\ b \in Int /\ \A x \in S : x \in Int
  OBVIOUS
<1>2. A \subseteq B /\ a \in B /\ a \notin A /\ B \subseteq 1 .. n
  <2>1. \A x \in S : x < a => x < b
    BY <1>1
  <2>2. a < b /\ ~(a < a)
    BY <1>1
  <2> QED  BY <2>1, <2>2, Zenon
<1>3. IsFiniteSet(1 .. n)
  BY FS_Interval
<1> HIDE DEF A, B
<1>4. IsFiniteSet(B)
  BY <1>2, <1>3, FS_Subset, Zenon
<1>5. IsFiniteSet(A) /\ Cardinality(A) <= Cardinality(B) /\ (Cardinality(A) = Cardinality(B) => A = B)
  BY <1>2, <1>4, FS_Subset, Zenon
<1>6. Cardinality(A) \in Nat /\ Cardinality(B) \in Nat
  BY <1>4, <1>5, FS_CardinalityType, Zenon
<1>7. Cardinality(A) < Cardinality(B)
  BY <1>2, <1>5, <1>6
<1> QED  BY <1>7, Zenon DEF A, B, TxsBefore

LEMMA PlaceInSet ==
    ASSUME NEW S, NEW n \in Nat, S \subseteq 1 .. n, NEW a \in S
    PROVE  /\ IsFiniteSet(S) /\ Cardinality(S) \in Nat
           /\ TxsBefore(S, a) \in Nat
           /\ TxsBefore(S, a) < Cardinality(S)
<1> DEFINE A == {j \in S : j < a}
<1>1. IsFiniteSet(1 .. n)
  BY FS_Interval
<1>2. IsFiniteSet(S)
  BY <1>1, FS_Subset, Zenon
<1>3. ~(a < a)
  OBVIOUS
<1>4. A \subseteq S /\ A # S
  BY <1>3, Zenon
<1> HIDE DEF A
<1>5. IsFiniteSet(A) /\ Cardinality(A) <= Cardinality(S) /\ (Cardinality(A) = Cardinality(S) => A = S)
  BY <1>2, <1>4, FS_Subset, Zenon
<1>6. Cardinality(A) \in Nat /\ Cardinality(S) \in Nat
  BY <1>2, <1>5, FS_CardinalityType, Zenon
<1>7. Cardinality(A) < Cardinality(S)
  BY <1>4, <1>5, <1>6
<1> QED  BY <1>2, <1>6, <1>7, Zenon DEF A, TxsBefore

\* The places in a set of n rows are 0 .. n - 1.
LEMMA PlacesFill ==
    ASSUME NEW S, NEW n \in Nat, S \subseteq 1 .. n
    PROVE  /\ IsFiniteSet(S)
           /\ {TxsBefore(S, k) : k \in S} = 0 .. (Cardinality(S) - 1)
<1> DEFINE R(k) == TxsBefore(S, k)
           f == [k \in S |-> R(k)]
<1>0. IsFiniteSet(S)
  <2>1. IsFiniteSet(1 .. n)
    BY FS_Interval
  <2> QED  BY <2>1, FS_Subset, Zenon
<1>1. PICK m \in Nat : m = Cardinality(S)
  BY <1>0, FS_CardinalityType, Zenon
<1>2. \A k \in S : R(k) \in Nat /\ R(k) < m
  BY <1>1, PlaceInSet, Zenon
<1>3. \A a, b \in S : a < b => R(a) < R(b)
  BY PlaceGrows, Zenon
<1>4. \A k \in S : k \in Int
  OBVIOUS
<1> HIDE DEF R
<1>5. f \in [S -> 0 .. (m - 1)]
  BY <1>2
<1>6. \A a, b \in S : f[a] = f[b] => a = b
  BY <1>2, <1>3, <1>4
<1>7. f \in Injection(S, 0 .. (m - 1))
  <2> HIDE DEF f
  <2> QED  BY <1>5, <1>6, Zenon DEF Injection, IsInjective
<1>8. IsFiniteSet(0 .. (m - 1)) /\ Cardinality(0 .. (m - 1)) = m
  <2>1. PICK lo \in Int, hi \in Int : lo = 0 /\ hi = m - 1
    OBVIOUS
  <2>2. IsFiniteSet(lo .. hi) /\ Cardinality(lo .. hi) = IF lo > hi THEN 0 ELSE hi - lo + 1
    BY FS_Interval, Zenon
  <2>3. (IF lo > hi THEN 0 ELSE hi - lo + 1) = m
    BY <2>1
  <2> QED  BY <2>1, <2>2, <2>3, Zenon
<1>9. f \in Surjection(S, 0 .. (m - 1))
  <2> HIDE DEF f
  <2> QED  BY <1>1, <1>7, <1>8, FS_Injection, Zenon
<1>10. \A x \in 0 .. (m - 1) : \E k \in S : f[k] = x
  BY <1>9, Zenon DEF Surjection
<1>11. {R(k) : k \in S} = 0 .. (m - 1)
  BY <1>2, <1>5, <1>10, Zenon
<1> QED  BY <1>0, <1>1, <1>11, Zenon DEF R

\* The transactions of a set S of rows of a table p, numbered by the places of the
\* rows.
OneRowEach(S, p) == \A j, k \in S : p[j] = p[k] => j = k
TxsOf(S, p) == {p[k] : k \in S}
NumberedBy(S, p, idx) == \A k \in S : idx[p[k]] = TxsBefore(S, k)

\* The indices of the transactions are 0, 1, ...
Filled(T, idx) == {idx[t] : t \in T} = 0 .. (Cardinality(T) - 1)

LEMMA IndicesFill ==
    ASSUME NEW S, NEW n \in Nat, S \subseteq 1 .. n, NEW p, NEW idx, NEW T,
           OneRowEach(S, p), T = TxsOf(S, p), NumberedBy(S, p, idx)
    PROVE  Filled(T, idx)
<1> USE DEF OneRowEach, TxsOf, NumberedBy
<1> DEFINE R(k) == TxsBefore(S, k)
<1>1. IsFiniteSet(S) /\ {R(k) : k \in S} = 0 .. (Cardinality(S) - 1)
  BY PlacesFill, Zenon
<1>2. PICK f : f = [k \in S |-> p[k]]
  BY Zenon
<1>3. f \in Bijection(S, T)
  <2>1. f \in [S -> T] /\ DOMAIN f = S /\ \A k \in S : f[k] = p[k]
    BY <1>2, Zenon
  <2>2. f \in Injection(S, T)
    BY <2>1, Zenon DEF Injection, IsInjective
  <2>3. f \in Surjection(S, T)
    <3>1. \A t \in T : \E k \in S : f[k] = t
      BY <2>1
    <3> QED  BY <2>1, <3>1, Zenon DEF Surjection
  <2> QED  BY <2>2, <2>3, Zenon DEF Bijection
<1>4. Cardinality(T) = Cardinality(S)
  <2>1. ExistsBijection(S, T)
    BY <1>3, Zenon DEF ExistsBijection
  <2> QED  BY <1>1, <2>1, FS_Bijection, Zenon
<1>5. {idx[t] : t \in T} = {R(k) : k \in S}
  <2> HIDE DEF R
  <2>1. \A k \in S : idx[p[k]] = R(k)
    BY Zenon DEF R
  <2>2. \A t \in T : \E k \in S : idx[t] = R(k)
    BY <2>1, Zenon
  <2>3. \A k \in S : \E t \in T : idx[t] = R(k)
    BY <2>1, Zenon
  <2> QED  BY <2>2, <2>3
<1> QED  BY <1>1, <1>4, <1>5, Zenon DEF Filled

-----------------------------------------------------------------------------
(* The rows of the mempool. *)

\* A transaction has one row, and a receipt only when its row is mined.
Rowed ==
    /\ pool \in Seq(Txs)
    /\ \A j, k \in DOMAIN pool : pool[j] = pool[k] => j = k
    /\ \A k \in DOMAIN pool : status[pool[k]] # "none"
    /\ \A t \in Txs : status[t] # "mined" => receipts[t] = NoReceipt

BlockInv == TypeOK /\ Rowed /\ Sealed /\ BlocksWellFormed

\* Neither a row nor a receipt changes.
RowsKept ==
    \A t \in Txs :
        /\ status[t] # "none" => status'[t] # "none"
        /\ status'[t] # "mined" => status[t] # "mined"

LEMMA RowsStay ==
    ASSUME Rowed, Sealed, BlocksWellFormed, UNCHANGED <<pool, receipts, latest>>, RowsKept
    PROVE  Rowed' /\ Sealed' /\ BlocksWellFormed'
<1>1. Rowed'
  BY DEF Rowed, RowsKept
<1>2. Sealed' /\ BlocksWellFormed'
  BY Zenon DEF Sealed, BlocksWellFormed
<1> QED  BY <1>1, <1>2, Zenon

\* InsertMempoolEntry adds the row of a transaction that has none.
LEMMA SendKeepsRows ==
    ASSUME TypeOK, Rowed, Sealed, BlocksWellFormed, NEW t \in Txs, SendRawTransaction(t)
    PROVE  Rowed' /\ Sealed' /\ BlocksWellFormed'
<1>1. /\ status[t] = "none" /\ status' = [status EXCEPT ![t] = "pending"]
      /\ pool' = Append(pool, t) /\ UNCHANGED <<receipts, latest>>
  BY Zenon DEF SendRawTransaction
<1>2. Sealed' /\ BlocksWellFormed'
  BY <1>1, Zenon DEF Sealed, BlocksWellFormed
<1>3. PICK n \in Nat : n = Len(pool) /\ DOMAIN pool = 1 .. n
  BY DEF Rowed
<1>4. /\ pool' \in Seq(Txs) /\ DOMAIN pool' = 1 .. n + 1 /\ pool'[n + 1] = t
      /\ \A k \in 1 .. n : pool'[k] = pool[k] /\ pool[k] \in Txs
  BY <1>1, <1>3 DEF Rowed
<1>5. \A k \in 1 .. n : pool[k] # t
  BY <1>1, <1>3, Zenon DEF Rowed
<1>6. \A u \in Txs : /\ status'[u] = IF u = t THEN "pending" ELSE status[u]
  BY <1>1, Zenon DEF TypeOK
<1>7. \A k \in 1 .. n + 1 : k = n + 1 \/ k \in 1 .. n
  OBVIOUS
<1>8. \A j, k \in DOMAIN pool' : pool'[j] = pool'[k] => j = k
  BY <1>3, <1>4, <1>5, <1>7 DEF Rowed
<1>9. \A k \in DOMAIN pool' : status'[pool'[k]] # "none"
  BY <1>3, <1>4, <1>5, <1>6, <1>7 DEF Rowed
<1>10. \A u \in Txs : status'[u] # "mined" => receipts'[u] = NoReceipt
  BY <1>1, <1>6, Zenon DEF Rowed
<1> QED  BY <1>2, <1>4, <1>8, <1>9, <1>10, Zenon DEF Rowed

-----------------------------------------------------------------------------
(* The miner. *)

\* What mine writes: the transactions of the claimed rows get their receipts.
LEMMA MineWrites ==
    ASSUME TypeOK, Rowed, Mine, NEW C, C = Rows({"completed", "failed"}, MaxTxsPerBlock)
    PROVE  /\ C # {} /\ C \subseteq DOMAIN pool /\ latest' = latest + 1 /\ pool' = pool
           /\ \A k \in C : /\ pool[k] \in Txs
                           /\ status'[pool[k]] = "mined"
                           /\ receipts'[pool[k]] = ReceiptAt(C, k)
           /\ \A t \in Txs : (\A k \in C : pool[k] # t) => status'[t] = status[t] /\ receipts'[t] = receipts[t]
<1>1. /\ C # {} /\ latest' = latest + 1 /\ pool' = pool
      /\ status' = [t \in Txs |-> IF \E k \in C : pool[k] = t THEN "mined" ELSE status[t]]
      /\ receipts' = [t \in Txs |->
            IF receipts[t] = NoReceipt /\ \E k \in C : pool[k] = t
            THEN ReceiptAt(C, CHOOSE k \in C : pool[k] = t) ELSE receipts[t]]
  BY Zenon DEF Mine
<1>2. \A k \in C : k \in DOMAIN pool /\ status[pool[k]] \in {"completed", "failed"}
  BY Zenon DEF Rows
<1> HIDE DEF ReceiptAt
<1>3. ASSUME NEW k \in C
      PROVE  /\ pool[k] \in Txs /\ status'[pool[k]] = "mined"
             /\ receipts'[pool[k]] = ReceiptAt(C, k)
  <2>1. pool[k] \in Txs
    BY <1>2 DEF Rowed
  <2>2. receipts[pool[k]] = NoReceipt
    BY <1>2, <2>1, Zenon DEF Rowed
  <2>3. (CHOOSE j \in C : pool[j] = pool[k]) = k
    BY <1>2, Zenon DEF Rowed
  <2> QED  BY <1>1, <2>1, <2>2, <2>3, Zenon
<1>4. ASSUME NEW t \in Txs, \A k \in C : pool[k] # t
      PROVE  status'[t] = status[t] /\ receipts'[t] = receipts[t]
  BY <1>1, <1>4, Zenon
<1> QED  BY <1>1, <1>2, <1>3, <1>4, Zenon

\* The fields of a new receipt.
LEMMA ReceiptFields ==
    ASSUME NEW C, NEW k
    PROVE  /\ ReceiptAt(C, k).block = latest + 1
           /\ ReceiptAt(C, k).txIndex = TxsBefore(C, k)
           /\ ReceiptAt(C, k).ok <=> status[pool[k]] = "completed"
           /\ status[pool[k]] = "completed" =>
                ReceiptAt(C, k).logIndex = TxsBefore({i \in C : status[pool[i]] = "completed"}, k)
<1>1. /\ ReceiptAt(C, k).block = latest + 1
      /\ ReceiptAt(C, k).txIndex = TxsBefore(C, k)
      /\ ReceiptAt(C, k).ok <=> status[pool[k]] = "completed"
      /\ status[pool[k]] = "completed" => ReceiptAt(C, k).logIndex = LogsBefore(C, k)
  BY Zenon DEF ReceiptAt
<1>2. {j \in C : j < k /\ status[pool[j]] = "completed"}
        = {j \in {i \in C : status[pool[i]] = "completed"} : j < k}
  BY Zenon
<1> QED  BY <1>1, <1>2, Zenon DEF TxsBefore, LogsBefore

\* The receipts r of the rows C of block b, of which L have a log.
InBlock(C, p, r, b) ==
    /\ \A k \in C : p[k] \in Txs /\ r[p[k]].block = b
    /\ \A t \in Txs : r[t].block = b => \E k \in C : p[k] = t
Logged(C, L, p, r) == \A k \in C : r[p[k]].ok <=> k \in L
TxIndices(r) == [t \in Txs |-> r[t].txIndex]
LogIndices(r) == [t \in Txs |-> r[t].logIndex]

BlockOf(r, b) == {t \in Txs : r[t].block = b}
WithLog(txs, r) == {t \in txs : r[t].ok}

LEMMA BlockTxs ==
    ASSUME NEW n \in Nat, NEW C, C \subseteq 1 .. n, C # {}, NEW p, NEW r, NEW b,
           OneRowEach(C, p), InBlock(C, p, r, b), NumberedBy(C, p, TxIndices(r)),
           NEW txs, txs = BlockOf(r, b)
    PROVE  txs = TxsOf(C, p) /\ txs # {} /\ Filled(txs, TxIndices(r))
<1>1. txs = TxsOf(C, p) /\ txs # {}
  BY Zenon DEF InBlock, TxsOf, BlockOf
<1> QED  BY <1>1, IndicesFill, Zenon

LEMMA BlockLogs ==
    ASSUME NEW n \in Nat, NEW L, L \subseteq 1 .. n, NEW C, L \subseteq C, NEW p, NEW r,
           OneRowEach(C, p), Logged(C, L, p, r), NumberedBy(L, p, LogIndices(r))
    PROVE  WithLog(TxsOf(C, p), r) = TxsOf(L, p) /\ Filled(TxsOf(L, p), LogIndices(r))
<1>1. WithLog(TxsOf(C, p), r) = TxsOf(L, p)
  <2>1. \A t \in WithLog(TxsOf(C, p), r) : \E k \in L : t = p[k]
    BY Zenon DEF Logged, WithLog, TxsOf
  <2>2. \A k \in L : p[k] \in WithLog(TxsOf(C, p), r)
    BY Zenon DEF Logged, WithLog, TxsOf
  <2> QED  BY <2>1, <2>2, Zenon DEF TxsOf
<1>2. OneRowEach(L, p)
  BY Zenon DEF OneRowEach
<1> QED  BY <1>1, <1>2, IndicesFill, Zenon

\* The logs follow the order of the transactions.
LEMMA LogsFollow ==
    ASSUME NEW n \in Nat, NEW C, C \subseteq 1 .. n, NEW L, L \subseteq C, NEW j \in L, NEW k \in L,
           TxsBefore(C, j) < TxsBefore(C, k)
    PROVE  TxsBefore(L, j) < TxsBefore(L, k)
<1>1. j \in C /\ k \in C /\ L \subseteq 1 .. n
  BY Zenon
<1>2. j \in Int /\ k \in Int
  BY <1>1
<1>3. PICK a \in Nat, b \in Nat : a = TxsBefore(C, j) /\ b = TxsBefore(C, k)
  BY <1>1, PlaceInSet, Zenon
<1>4. a < b
  BY <1>3, Zenon
<1>5. ~(k < j)
  <2> SUFFICES ASSUME k < j PROVE FALSE
    BY Zenon
  <2>1. b < a
    BY <1>1, <1>3, PlaceGrows, Zenon
  <2> QED  BY <1>4, <2>1
<1>6. j # k
  BY <1>3, <1>4
<1>7. j < k
  BY <1>2, <1>5, <1>6
<1> QED  BY <1>1, <1>7, PlaceGrows, Zenon

\* The block that mine adds is well formed.
LEMMA NewBlockWellFormed ==
    ASSUME NEW n \in Nat, NEW C, C \subseteq 1 .. n, C # {}, NEW L, L \subseteq C, NEW p, NEW r, NEW b,
           OneRowEach(C, p), InBlock(C, p, r, b), Logged(C, L, p, r),
           NumberedBy(C, p, TxIndices(r)), NumberedBy(L, p, LogIndices(r))
    PROVE  BlockWellFormed(r, b)
<1>1. PICK txs : txs = BlockOf(r, b)
  BY Zenon
<1>2. PICK logged : logged = WithLog(txs, r)
  BY Zenon
<1>3. txs = TxsOf(C, p) /\ txs # {} /\ Filled(txs, TxIndices(r))
  BY <1>1, BlockTxs, Zenon
<1>4. txs \subseteq Txs /\ logged \subseteq txs
  BY <1>1, <1>2, Zenon DEF BlockOf, WithLog
<1>5. logged = TxsOf(L, p) /\ Filled(logged, LogIndices(r))
  <2>1. L \subseteq 1 .. n
    BY Zenon
  <2>2. WithLog(TxsOf(C, p), r) = TxsOf(L, p) /\ Filled(TxsOf(L, p), LogIndices(r))
    BY <2>1, BlockLogs, Zenon
  <2> QED  BY <1>2, <1>3, <2>2, Zenon
<1>6. ASSUME NEW t \in logged, NEW u \in logged, r[t].txIndex < r[u].txIndex
      PROVE  r[t].logIndex < r[u].logIndex
  <2>1. PICK j \in L, k \in L : t = p[j] /\ u = p[k]
    BY <1>5, Zenon DEF TxsOf
  <2>2. /\ TxIndices(r)[t] = r[t].txIndex /\ LogIndices(r)[t] = r[t].logIndex
        /\ TxIndices(r)[u] = r[u].txIndex /\ LogIndices(r)[u] = r[u].logIndex
    BY <1>4, Zenon DEF TxIndices, LogIndices
  <2>3. /\ r[t].txIndex = TxsBefore(C, j) /\ r[u].txIndex = TxsBefore(C, k)
        /\ r[t].logIndex = TxsBefore(L, j) /\ r[u].logIndex = TxsBefore(L, k)
    BY <2>1, <2>2, Zenon DEF NumberedBy
  <2>4. TxsBefore(C, j) < TxsBefore(C, k)
    BY <1>6, <2>3, Zenon
  <2>5. TxsBefore(L, j) < TxsBefore(L, k)
    BY <2>4, LogsFollow, Zenon
  <2> QED  BY <2>3, <2>5, Zenon
<1>7. /\ \A t \in txs : TxIndices(r)[t] = r[t].txIndex
      /\ \A t \in logged : LogIndices(r)[t] = r[t].logIndex
  BY <1>4, Zenon DEF TxIndices, LogIndices
<1>8. /\ {TxIndices(r)[t] : t \in txs} = {r[t].txIndex : t \in txs}
      /\ {LogIndices(r)[t] : t \in logged} = {r[t].logIndex : t \in logged}
  BY <1>7, Zenon
<1> QED  BY <1>1, <1>2, <1>3, <1>5, <1>6, <1>8, Zenon DEF BlockWellFormed, Filled, BlockOf, WithLog

\* A block below stays what it is.
SameIn(r, q, b) == \A t \in Txs : q[t] = r[t] \/ (r[t].block # b /\ q[t].block # b)

LEMMA OldBlockStays ==
    ASSUME NEW r, NEW q, NEW b, BlockWellFormed(r, b),
           SameIn(r, q, b)
    PROVE  BlockWellFormed(q, b)
<1> USE DEF SameIn
<1>1. \A t \in Txs : q[t].block = b <=> r[t].block = b
  BY Zenon
<1>2. \A t \in Txs : r[t].block = b => q[t] = r[t]
  BY Zenon
<1>3. {t \in Txs : q[t].block = b} = {t \in Txs : r[t].block = b}
  BY <1>1, Zenon
<1> DEFINE txs == {t \in Txs : r[t].block = b}
           logged == {t \in txs : r[t].ok}
<1>4. {t \in txs : q[t].ok} = logged
  BY <1>2, Zenon
<1>5. \A t \in txs : q[t] = r[t]
  BY <1>2, Zenon
<1>6. \A t \in logged : q[t] = r[t]
  BY <1>5, Zenon
<1>7. /\ txs # {} /\ {r[t].txIndex : t \in txs} = 0 .. (Cardinality(txs) - 1)
      /\ {r[t].logIndex : t \in logged} = 0 .. (Cardinality(logged) - 1)
      /\ \A t, u \in logged :
            r[t].txIndex < r[u].txIndex => r[t].logIndex < r[u].logIndex
  BY Zenon DEF BlockWellFormed
<1> HIDE DEF txs, logged
<1>8. {q[t].txIndex : t \in txs} = {r[t].txIndex : t \in txs}
  BY <1>5, Zenon
<1>9. {q[t].logIndex : t \in logged} = {r[t].logIndex : t \in logged}
  BY <1>6, Zenon
<1>10. \A t, u \in logged : q[t].txIndex < q[u].txIndex => q[t].logIndex < q[u].logIndex
  BY <1>6, <1>7, Zenon
<1>11. {t \in Txs : q[t].block = b} = txs /\ {t \in {x \in Txs : q[x].block = b} : q[t].ok} = logged
  BY <1>3, <1>4, Zenon DEF txs
<1> QED  BY <1>7, <1>8, <1>9, <1>10, <1>11, Zenon DEF BlockWellFormed

LEMMA MineKeepsBlocks ==
    ASSUME TypeOK, Rowed, Sealed, BlocksWellFormed, Mine
    PROVE  Rowed' /\ Sealed' /\ BlocksWellFormed'
<1>1. PICK C : C = Rows({"completed", "failed"}, MaxTxsPerBlock)
  BY Zenon
<1>2. /\ C # {} /\ C \subseteq DOMAIN pool /\ latest' = latest + 1 /\ pool' = pool
      /\ \A k \in C : /\ pool[k] \in Txs
                      /\ status'[pool[k]] = "mined"
                      /\ receipts'[pool[k]] = ReceiptAt(C, k)
      /\ \A t \in Txs : (\A k \in C : pool[k] # t) => status'[t] = status[t] /\ receipts'[t] = receipts[t]
  BY <1>1, MineWrites, Zenon
<1>3. PICK L : L = {i \in C : status[pool[i]] = "completed"}
  BY Zenon
<1>4. PICK n \in Nat : DOMAIN pool = 1 .. n
  BY DEF Rowed
<1>5. PICK r, p : r = receipts' /\ p = pool
  BY Zenon
<1>6. \A k \in C : /\ p[k] \in Txs /\ r[p[k]].block = latest + 1
                   /\ r[p[k]].txIndex = TxsBefore(C, k)
                   /\ r[p[k]].ok <=> k \in L
                   /\ k \in L => r[p[k]].logIndex = TxsBefore(L, k)
  <2> SUFFICES ASSUME NEW k \in C
               PROVE  /\ pool[k] \in Txs /\ receipts'[pool[k]].block = latest + 1
                      /\ receipts'[pool[k]].txIndex = TxsBefore(C, k)
                      /\ receipts'[pool[k]].ok <=> k \in L
                      /\ k \in L => receipts'[pool[k]].logIndex = TxsBefore(L, k)
    BY <1>5, Zenon
  <2>1. pool[k] \in Txs /\ receipts'[pool[k]] = ReceiptAt(C, k)
    BY <1>2, Zenon
  <2>2. /\ ReceiptAt(C, k).block = latest + 1
        /\ ReceiptAt(C, k).txIndex = TxsBefore(C, k)
        /\ ReceiptAt(C, k).ok <=> status[pool[k]] = "completed"
        /\ status[pool[k]] = "completed" => ReceiptAt(C, k).logIndex = TxsBefore(L, k)
    BY <1>3, ReceiptFields, Zenon
  <2>3. k \in L <=> status[pool[k]] = "completed"
    BY <1>3, Zenon
  <2> QED  BY <2>1, <2>2, <2>3, Zenon
<1>7. \A t \in Txs : (\A k \in C : p[k] # t) => r[t] = receipts[t]
  BY <1>2, <1>5, Zenon
<1>8. OneRowEach(C, p)
  BY <1>2, <1>5, Zenon DEF OneRowEach, Rowed
<1>9. \A t \in Txs : receipts[t].block # latest + 1 /\ receipts[t].block <= latest
  BY DEF Sealed
<1>10. InBlock(C, p, r, latest + 1)
  BY <1>6, <1>7, <1>9, Zenon DEF InBlock
<1>11. Logged(C, L, p, r)
  BY <1>6, Zenon DEF Logged
<1>12. NumberedBy(C, p, TxIndices(r)) /\ NumberedBy(L, p, LogIndices(r)) /\ L \subseteq C
  <2>1. L \subseteq C
    BY <1>3, Zenon
  <2>2. \A k \in C : TxIndices(r)[p[k]] = TxsBefore(C, k)
    BY <1>6, Zenon DEF TxIndices
  <2>3. \A k \in L : LogIndices(r)[p[k]] = TxsBefore(L, k)
    BY <1>6, <2>1, Zenon DEF LogIndices
  <2> QED  BY <2>1, <2>2, <2>3, Zenon DEF NumberedBy
<1>13. BlockWellFormed(r, latest + 1)
  <2>1. C \subseteq 1 .. n
    BY <1>2, <1>4, Zenon
  <2> QED  BY <1>2, <1>8, <1>10, <1>11, <1>12, <2>1, NewBlockWellFormed, Zenon
<1>14. ASSUME NEW b \in 1 .. latest PROVE BlockWellFormed(r, b)
  <2>1. BlockWellFormed(receipts, b)
    BY Zenon DEF BlocksWellFormed
  <2>2. SameIn(receipts, r, b)
    <3> SUFFICES ASSUME NEW t \in Txs, NEW k \in C, p[k] = t
                 PROVE  receipts[t].block # b /\ r[t].block # b
      BY <1>7, Zenon DEF SameIn
    <3>1. r[t].block = latest + 1
      BY <1>6, Zenon
    <3>2. status[t] \in {"completed", "failed"}
      BY <1>1, <1>5, Zenon DEF Rows
    <3>3. receipts[t] = NoReceipt
      BY <3>2, Zenon DEF Rowed
    <3>4. receipts[t].block = 0
      BY <3>3 DEF NoReceipt
    <3> QED  BY <3>1, <3>4 DEF Sealed
  <2> QED  BY <2>1, <2>2, OldBlockStays, Zenon
<1>15. BlocksWellFormed'
  <2>1. \A b \in 1 .. latest + 1 : b = latest + 1 \/ b \in 1 .. latest
    BY DEF Sealed
  <2>2. \A b \in 1 .. latest + 1 : BlockWellFormed(r, b)
    BY <1>13, <1>14, <2>1, Zenon
  <2> QED  BY <1>2, <1>5, <2>2, Zenon DEF BlocksWellFormed
<1>16. \A t \in Txs : r[t] = receipts[t] \/ r[t].block = latest + 1
  BY <1>6, <1>7, Zenon
<1>17. Sealed'
  <2>1. latest + 1 \in Nat
    BY DEF Sealed
  <2>2. \A t \in Txs : r[t].block \in 0 .. latest + 1
    BY <1>16 DEF Sealed
  <2> QED  BY <1>2, <1>5, <2>1, <2>2, Zenon DEF Sealed
<1>18. Rowed'
  <2>1. ASSUME NEW k \in DOMAIN pool PROVE status'[pool[k]] # "none"
    <3>1. pool[k] \in Txs /\ status[pool[k]] # "none"
      BY DEF Rowed
    <3> QED  BY <1>2, <3>1, Zenon
  <2>2. ASSUME NEW t \in Txs, status'[t] # "mined" PROVE receipts'[t] = NoReceipt
    <3>1. \A k \in C : pool[k] # t
      BY <1>2, <2>2, Zenon
    <3>2. status'[t] = status[t] /\ receipts'[t] = receipts[t]
      BY <1>2, <3>1, Zenon
    <3> QED  BY <2>2, <3>2, Zenon DEF Rowed
  <2> QED  BY <1>2, <2>1, <2>2, Zenon DEF Rowed
<1> QED  BY <1>15, <1>17, <1>18, Zenon

-----------------------------------------------------------------------------
(* Types. *)

StoreTypes ==
    /\ pool \in Seq(Txs) /\ status \in [Txs -> Statuses]
    /\ receipts \in [Txs -> Receipt \cup {NoReceipt}] /\ latest \in Nat
WorkTypes == work \in [Instances -> [Txs -> Labels]] /\ seen \in [Instances -> [Txs -> Nat]]
LedgerTypes ==
    executed \subseteq Txs /\ balance \in [Accounts -> Nat] /\ spent \in [Accounts -> Nat]
LateTypes == late \subseteq Txs \X Nat
CounterTypes == lost \in Nat /\ crashes \in Nat /\ credits \in Nat

LEMMA TypeParts == TypeOK <=> StoreTypes /\ WorkTypes /\ LedgerTypes /\ LateTypes /\ CounterTypes
  BY Zenon DEF TypeOK, StoreTypes, WorkTypes, LedgerTypes, LateTypes, CounterTypes

LEMMA TypePartsNext ==
    StoreTypes' /\ WorkTypes' /\ LedgerTypes' /\ LateTypes' /\ CounterTypes' => TypeOK'
  BY Zenon DEF TypeOK, StoreTypes, WorkTypes, LedgerTypes, LateTypes, CounterTypes

LEMMA SameStoreTypes == StoreTypes /\ UNCHANGED storeVars => StoreTypes'
  BY Zenon DEF StoreTypes, storeVars
LEMMA SameLedgerTypes == LedgerTypes /\ UNCHANGED ledgerVars => LedgerTypes'
  BY Zenon DEF LedgerTypes, ledgerVars
LEMMA SameLateTypes == LateTypes /\ UNCHANGED late => LateTypes'
  BY Zenon DEF LateTypes
LEMMA SameCounterTypes == CounterTypes /\ UNCHANGED counters => CounterTypes'
  BY Zenon DEF CounterTypes, counters

LEMMA StepTypes ==
    ASSUME WorkTypes, NEW i \in Instances, NEW t \in Txs, NEW label \in Labels, Step(i, t, label)
    PROVE  work' \in [Instances -> [Txs -> Labels]]
  BY Zenon DEF WorkTypes, Step

\* A commit takes no more than there is.
LEMMA CommitTypes ==
    ASSUME LedgerTypes, NEW t \in Txs, NEW n, Valid(t, n), Commit(t)
    PROVE  LedgerTypes'
<1>1. FromOf[t] \in Accounts /\ AmountOf[t] \in Nat
  BY EthRpcAssumption, Zenon
<1>2. balance[FromOf[t]] - AmountOf[t] \in Nat /\ spent[FromOf[t]] + 1 \in Nat
  BY <1>1 DEF LedgerTypes, Valid
<1>3. balance' \in [Accounts -> Nat] /\ spent' \in [Accounts -> Nat]
  BY <1>1, <1>2, Zenon DEF LedgerTypes, Commit
<1>4. executed' \subseteq Txs
  BY Zenon DEF LedgerTypes, Commit
<1> QED  BY <1>3, <1>4, Zenon DEF LedgerTypes

LEMMA TakesTypes ==
    ASSUME TypeOK, NEW i \in Instances, NEW t \in Txs, Takes(i, t),
           NEW label \in Labels, Step(i, t, label), seen' \in [Instances -> [Txs -> Nat]]
    PROVE  TypeOK'
<1>1. UNCHANGED storeVars /\ UNCHANGED ledgerVars /\ UNCHANGED late /\ UNCHANGED counters
  BY Zenon DEF Takes
<1>2. WorkTypes'
  BY TypeParts, StepTypes, Zenon DEF WorkTypes
<1> QED  BY <1>1, <1>2, TypeParts, TypePartsNext, SameStoreTypes, SameLedgerTypes, SameLateTypes, SameCounterTypes, Zenon

LEMMA WorkerTypes ==
    ASSUME TypeOK, NEW i \in Instances, NEW t \in Txs, Worker(i, t)
    PROVE  TypeOK'
<1>0. StoreTypes /\ WorkTypes /\ LedgerTypes /\ LateTypes /\ CounterTypes
  BY TypeParts, Zenon
<1>L. "none" \in Labels /\ "waiting" \in Labels /\ "completing" \in Labels /\ "failing" \in Labels
  BY Zenon DEF Labels
<1>1. CASE Submit(i, t)
  <2>1. spent[FromOf[t]] \in Nat
    BY <1>0, EthRpcAssumption, Zenon DEF LedgerTypes
  <2>2. seen' \in [Instances -> [Txs -> Nat]]
    BY <1>0, <1>1, <2>1, Zenon DEF Submit, WorkTypes
  <2> QED  BY <1>1, <1>L, <2>2, TakesTypes, Zenon DEF Submit
<1>2. CASE Unsupported(i, t) \/ InsufficientBalance(i, t) \/ LookupFails(i, t) \/ ReadFails(i, t)
  <2>1. Takes(i, t) /\ UNCHANGED seen /\ (Step(i, t, "failing") \/ Step(i, t, "none"))
    BY <1>2, Zenon DEF Unsupported, InsufficientBalance, LookupFails, ReadFails
  <2>2. seen' \in [Instances -> [Txs -> Nat]]
    BY <1>0, <2>1, Zenon DEF WorkTypes
  <2> QED  BY <1>L, <2>1, <2>2, TakesTypes, Zenon
<1>3. CASE Transferred(i, t)
  <2>1. /\ Valid(t, seen[i][t]) /\ Commit(t) /\ Step(i, t, "completing")
        /\ UNCHANGED storeVars /\ UNCHANGED seen /\ UNCHANGED late /\ UNCHANGED counters
    BY <1>3, Zenon DEF Transferred
  <2>2. WorkTypes'
    BY <1>0, <1>L, <2>1, StepTypes, Zenon DEF WorkTypes
  <2>3. LedgerTypes'
    BY <1>0, <2>1, CommitTypes, Zenon
  <2> QED  BY <1>0, <2>1, <2>2, <2>3, TypePartsNext, SameStoreTypes, SameLateTypes, SameCounterTypes, Zenon
<1>4. CASE Rejected(i, t)
  <2>1. /\ Step(i, t, "none") /\ UNCHANGED storeVars /\ UNCHANGED seen /\ UNCHANGED ledgerVars
        /\ UNCHANGED late /\ UNCHANGED counters
    BY <1>4, Zenon DEF Rejected
  <2>2. WorkTypes'
    BY <1>0, <1>L, <2>1, StepTypes, Zenon DEF WorkTypes
  <2> QED  BY <1>0, <2>1, <2>2, TypePartsNext, SameStoreTypes, SameLedgerTypes, SameLateTypes, SameCounterTypes, Zenon
<1>5. CASE TimesOut(i, t)
  <2>1. /\ Step(i, t, "none") /\ UNCHANGED storeVars /\ UNCHANGED seen /\ UNCHANGED ledgerVars
        /\ late' = late \cup {<<t, seen[i][t]>>}
        /\ lost' = lost + 1 /\ UNCHANGED <<crashes, credits>>
    BY <1>5, Zenon DEF TimesOut
  <2>2. WorkTypes'
    BY <1>0, <1>L, <2>1, StepTypes, Zenon DEF WorkTypes
  <2>3. seen[i][t] \in Nat
    BY <1>0, Zenon DEF WorkTypes
  <2>4. LateTypes'
    BY <1>0, <2>1, <2>3 DEF LateTypes
  <2>5. CounterTypes'
    BY <1>0, <2>1 DEF CounterTypes
  <2> QED  BY <1>0, <2>1, <2>2, <2>4, <2>5, TypePartsNext, SameStoreTypes, SameLedgerTypes, Zenon
<1>6. CASE CompleteEntry(i, t) \/ FailEntry(i, t)
  <2>1. /\ Step(i, t, "none") /\ UNCHANGED <<pool, receipts, latest>> /\ UNCHANGED seen
        /\ UNCHANGED ledgerVars /\ UNCHANGED late /\ UNCHANGED counters
    BY <1>6, Zenon DEF CompleteEntry, FailEntry
  <2>2. status' \in [Txs -> Statuses]
    BY <1>0, <1>6, Zenon DEF CompleteEntry, FailEntry, StoreTypes, Statuses
  <2>3. StoreTypes'
    BY <1>0, <2>1, <2>2, Zenon DEF StoreTypes
  <2>4. WorkTypes'
    BY <1>0, <1>L, <2>1, StepTypes, Zenon DEF WorkTypes
  <2> QED  BY <1>0, <2>1, <2>3, <2>4, TypePartsNext, SameLedgerTypes, SameLateTypes, SameCounterTypes, Zenon
<1> QED  BY <1>1, <1>2, <1>3, <1>4, <1>5, <1>6, Zenon DEF Worker

\* The indices of a new receipt count rows.
LEMMA MineTypes ==
    ASSUME TypeOK, Rowed, Mine
    PROVE  TypeOK'
<1>0. StoreTypes /\ WorkTypes /\ LedgerTypes /\ LateTypes /\ CounterTypes
  BY TypeParts, Zenon
<1>1. PICK C : C = Rows({"completed", "failed"}, MaxTxsPerBlock)
  BY Zenon
<1>2. /\ latest' = latest + 1 /\ pool' = pool
      /\ status' = [t \in Txs |-> IF \E k \in C : pool[k] = t THEN "mined" ELSE status[t]]
      /\ receipts' = [t \in Txs |->
            IF receipts[t] = NoReceipt /\ \E k \in C : pool[k] = t
            THEN ReceiptAt(C, CHOOSE k \in C : pool[k] = t) ELSE receipts[t]]
      /\ UNCHANGED work /\ UNCHANGED seen /\ UNCHANGED ledgerVars /\ UNCHANGED late /\ UNCHANGED counters
  BY <1>1, Zenon DEF Mine
<1>3. status' \in [Txs -> Statuses]
  BY <1>0, <1>2, Zenon DEF StoreTypes, Statuses
<1>4. ASSUME NEW k \in C PROVE ReceiptAt(C, k) \in Receipt
  <2>1. PICK n \in Nat : C \subseteq 1 .. n
    <3>1. C \subseteq DOMAIN pool
      BY <1>1, Zenon DEF Rows
    <3>2. PICK n \in Nat : DOMAIN pool = 1 .. n
      BY <1>0 DEF StoreTypes
    <3> QED  BY <3>1, <3>2, Zenon
  <2>2. TxsBefore(C, k) \in Nat
    BY <2>1, PlaceInSet, Zenon
  <2>3. LogsBefore(C, k) \in Nat
    <3>1. PICK S : S = {j \in C : j < k /\ status[pool[j]] = "completed"}
      BY Zenon
    <3>2. S \subseteq 1 .. n
      BY <2>1, <3>1, Zenon
    <3>3. IsFiniteSet(1 .. n)
      BY FS_Interval
    <3>4. IsFiniteSet(S)
      BY <3>2, <3>3, FS_Subset, Zenon
    <3> QED  BY <3>1, <3>4, FS_CardinalityType, Zenon DEF LogsBefore
  <2>4. latest + 1 \in Nat \ {0}
    BY <1>0 DEF StoreTypes
  <2> QED  BY <2>2, <2>3, <2>4, Zenon DEF ReceiptAt, Receipt, NoLog
<1> HIDE DEF ReceiptAt
<1>5. receipts' \in [Txs -> Receipt \cup {NoReceipt}]
  <2> SUFFICES ASSUME NEW t \in Txs
               PROVE  (IF receipts[t] = NoReceipt /\ \E k \in C : pool[k] = t
                       THEN ReceiptAt(C, CHOOSE k \in C : pool[k] = t) ELSE receipts[t])
                      \in Receipt \cup {NoReceipt}
    BY <1>2, Zenon
  <2>1. receipts[t] \in Receipt \cup {NoReceipt}
    BY <1>0, Zenon DEF StoreTypes
  <2>2. ASSUME \E k \in C : pool[k] = t PROVE (CHOOSE k \in C : pool[k] = t) \in C
    BY <2>2, Zenon
  <2> QED  BY <1>4, <2>1, <2>2, Zenon
<1>6. StoreTypes' /\ WorkTypes'
  BY <1>0, <1>2, <1>3, <1>5 DEF StoreTypes, WorkTypes
<1> QED  BY <1>0, <1>2, <1>6, TypePartsNext, SameLedgerTypes, SameLateTypes, SameCounterTypes, Zenon

LEMMA NextTypes ==
    ASSUME TypeOK, Rowed, [Next]_vars
    PROVE  TypeOK'
<1>0. StoreTypes /\ WorkTypes /\ LedgerTypes /\ LateTypes /\ CounterTypes
  BY TypeParts, Zenon
<1>1. ASSUME NEW t \in Txs, SendRawTransaction(t) PROVE TypeOK'
  <2>1. /\ status' = [status EXCEPT ![t] = "pending"] /\ pool' = Append(pool, t)
        /\ UNCHANGED <<receipts, latest>> /\ UNCHANGED <<work, seen>>
        /\ UNCHANGED ledgerVars /\ UNCHANGED late /\ UNCHANGED counters
    BY <1>1, Zenon DEF SendRawTransaction
  <2>2. status' \in [Txs -> Statuses] /\ pool' \in Seq(Txs)
    BY <1>0, <2>1 DEF StoreTypes, Statuses
  <2>3. StoreTypes' /\ WorkTypes'
    BY <1>0, <2>1, <2>2, Zenon DEF StoreTypes, WorkTypes
  <2> QED  BY <1>0, <2>1, <2>3, TypePartsNext, SameLedgerTypes, SameLateTypes, SameCounterTypes, Zenon
<1>2. ASSUME NEW i \in Instances, Drain(i) PROVE TypeOK'
  <2>1. /\ UNCHANGED storeVars /\ UNCHANGED seen /\ UNCHANGED ledgerVars /\ UNCHANGED late /\ UNCHANGED counters
        /\ \E batch : work' = [work EXCEPT ![i] =
              [t \in Txs |-> IF \E k \in batch : pool[k] = t THEN "queued" ELSE "none"]]
    BY <1>2, Zenon DEF Drain
  <2>2. WorkTypes'
    BY <1>0, <2>1, Zenon DEF WorkTypes, Labels
  <2> QED  BY <1>0, <2>1, <2>2, TypePartsNext, SameStoreTypes, SameLedgerTypes, SameLateTypes, SameCounterTypes, Zenon
<1>3. ASSUME NEW i \in Instances, Crash(i) PROVE TypeOK'
  <2>1. /\ UNCHANGED storeVars /\ UNCHANGED seen /\ UNCHANGED ledgerVars
        /\ crashes' = crashes + 1 /\ UNCHANGED <<lost, credits>>
        /\ work' = [work EXCEPT ![i] = [t \in Txs |-> "none"]]
        /\ late' = late \cup {<<t, seen[i][t]>> : t \in {u \in Txs : work[i][u] = "waiting"}}
    BY <1>3, Zenon DEF Crash
  <2>2. WorkTypes'
    BY <1>0, <2>1, Zenon DEF WorkTypes, Labels
  <2>3. \A t \in Txs : seen[i][t] \in Nat
    BY <1>0, Zenon DEF WorkTypes
  <2>4. LateTypes'
    BY <1>0, <2>1, <2>3 DEF LateTypes
  <2>5. CounterTypes'
    BY <1>0, <2>1 DEF CounterTypes
  <2> QED  BY <1>0, <2>1, <2>2, <2>4, <2>5, TypePartsNext, SameStoreTypes, SameLedgerTypes, Zenon
<1>4. CASE LateCommit
  <2>1. PICK c \in late :
          /\ late' = late \ {c}
          /\ (Valid(c[1], c[2]) /\ Commit(c[1])) \/ UNCHANGED ledgerVars
          /\ UNCHANGED storeVars /\ UNCHANGED <<work, seen>> /\ UNCHANGED counters
    BY <1>4, Zenon DEF LateCommit
  <2>2. c[1] \in Txs
    BY <1>0, Zenon DEF LateTypes
  <2>3. LedgerTypes'
    BY <1>0, <2>1, <2>2, CommitTypes, SameLedgerTypes, Zenon
  <2>4. LateTypes' /\ WorkTypes'
    BY <1>0, <2>1, Zenon DEF LateTypes, WorkTypes
  <2> QED  BY <1>0, <2>1, <2>3, <2>4, TypePartsNext, SameStoreTypes, SameCounterTypes, Zenon
<1>5. ASSUME NEW a \in Accounts, Credit(a) PROVE TypeOK'
  <2>1. /\ UNCHANGED storeVars /\ UNCHANGED <<work, seen>> /\ UNCHANGED <<executed, spent>> /\ UNCHANGED late
        /\ credits' = credits + 1 /\ UNCHANGED <<lost, crashes>>
        /\ balance' = [balance EXCEPT ![a] = @ + 1]
    BY <1>5, Zenon DEF Credit
  <2>2. LedgerTypes' /\ WorkTypes' /\ CounterTypes'
    BY <1>0, <2>1 DEF LedgerTypes, WorkTypes, CounterTypes
  <2> QED  BY <1>0, <2>1, <2>2, TypePartsNext, SameStoreTypes, SameLateTypes, Zenon
<1>6. CASE UNCHANGED vars
  BY <1>6, Zenon DEF vars, TypeOK
<1> QED  BY <1>1, <1>2, <1>3, <1>4, <1>5, <1>6, WorkerTypes, MineTypes, Zenon DEF Next

-----------------------------------------------------------------------------

LEMMA NextBlocks ==
    ASSUME TypeOK, Rowed, Sealed, BlocksWellFormed, [Next]_vars
    PROVE  Rowed' /\ Sealed' /\ BlocksWellFormed'
<1>1. ASSUME NEW i \in Instances, NEW t \in Txs, Worker(i, t)
      PROVE  Rowed' /\ Sealed' /\ BlocksWellFormed'
  <2>1. UNCHANGED <<pool, receipts, latest>>
    BY <1>1, Zenon DEF Worker, Submit, Unsupported, InsufficientBalance, LookupFails, ReadFails, Takes,
                Transferred, Rejected, TimesOut, CompleteEntry, FailEntry, storeVars
  <2>2. CASE CompleteEntry(i, t) \/ FailEntry(i, t)
    <3>1. \/ status' = [status EXCEPT ![t] = IF @ = "pending" THEN "completed" ELSE @]
          \/ status' = [status EXCEPT ![t] = IF @ = "pending" THEN "failed" ELSE @]
          \/ status' = status
      BY <2>2, Zenon DEF CompleteEntry, FailEntry
    <3>2. RowsKept
      BY <3>1, Zenon DEF TypeOK, RowsKept
    <3> QED  BY <2>1, <3>2, RowsStay, Zenon
  <2>3. CASE UNCHANGED status
    <3>1. RowsKept
      BY <2>3, ZenonT(30) DEF RowsKept
    <3> QED  BY <2>1, <3>1, RowsStay, Zenon
  <2>4. CompleteEntry(i, t) \/ FailEntry(i, t) \/ UNCHANGED status
    BY <1>1, Zenon DEF Worker, Submit, Unsupported, InsufficientBalance, LookupFails, ReadFails, Takes,
                Transferred, Rejected, TimesOut, storeVars
  <2> QED  BY <2>2, <2>3, <2>4, Zenon
<1>2. ASSUME \/ \E i \in Instances : Drain(i) \/ Crash(i)
             \/ LateCommit
             \/ \E a \in Accounts : Credit(a)
             \/ UNCHANGED vars
      PROVE  Rowed' /\ Sealed' /\ BlocksWellFormed'
  <2>1. UNCHANGED <<pool, receipts, latest>> /\ UNCHANGED status
    BY <1>2, Zenon DEF Drain, Crash, LateCommit, Credit, storeVars, vars
  <2>2. RowsKept
    BY <2>1, Zenon DEF RowsKept
  <2> QED  BY <2>1, <2>2, RowsStay, Zenon
<1> QED  BY <1>1, <1>2, SendKeepsRows, MineKeepsBlocks, Zenon DEF Next

LEMMA InitBlockInv == Init => BlockInv
<1> SUFFICES ASSUME Init PROVE BlockInv
  BY Zenon
<1>1. TypeOK
  BY EthRpcAssumption DEF Init, TypeOK, Statuses, Labels
<1>2. Rowed /\ Sealed /\ BlocksWellFormed
  BY DEF Init, Rowed, Sealed, BlocksWellFormed, NoReceipt
<1> QED  BY <1>1, <1>2, Zenon DEF BlockInv

LEMMA AlwaysBlockInv == Spec => []BlockInv
<1>1. BlockInv /\ [Next]_vars => BlockInv'
  BY NextTypes, NextBlocks, Zenon DEF BlockInv
<1> QED  BY InitBlockInv, <1>1, PTL DEF Spec

\* Every row, receipt, worker and account keeps its type, and no transfer takes more
\* than its sender holds, for any number of transactions and instances, whatever the
\* retries, timeouts and commits nobody waits for (TransferByPartyID, mine).
THEOREM FacadeTypes == Spec => []TypeOK
<1>1. BlockInv => TypeOK
  BY Zenon DEF BlockInv
<1> QED  BY <1>1, AlwaysBlockInv, PTL

\* Whatever rows a block claims, wherever its limit cuts them and whichever of them
\* failed, blocks are numbered without gaps, none is empty, and the transaction and
\* log indices of each count from 0 without gaps in the same order (mine,
\* ClaimMempoolEntries, Finalize).
THEOREM BlocksAreWellFormed == Spec => []BlocksWellFormed
<1>1. BlockInv => BlocksWellFormed
  BY Zenon DEF BlockInv
<1> QED  BY <1>1, AlwaysBlockInv, PTL

-----------------------------------------------------------------------------
(* The outcomes a wallet is promised. *)

\* Only an accepted transaction is worked on, waited for or under way, and a
\* mined row has a receipt.
Requested ==
    /\ \A i \in Instances, t \in Txs : work[i][t] # "none" => status[t] # "none"
    /\ \A c \in late : status[c[1]] # "none"
    /\ \A t \in Txs : status[t] = "mined" => receipts[t] # NoReceipt

OutcomeInv == IInv /\ BlockInv /\ Requested

LEMMA InitOutcomeInv == Init => OutcomeInv
<1>1. Init => Requested
  BY Zenon DEF Init, Requested
<1> QED  BY <1>1, InitInv, InitBlockInv, Zenon DEF OutcomeInv

\* No row disappears and none that is mined stays without its receipt.
RowsLast ==
    \A t \in Txs :
        /\ status[t] # "none" => status'[t] # "none"
        /\ status'[t] = "mined" /\ status[t] # "mined" => receipts'[t] # NoReceipt
        /\ receipts[t] # NoReceipt => receipts'[t] # NoReceipt

LEMMA RowsOutlast ==
    ASSUME Requested, RowsLast, late \subseteq Txs \X Nat,
           \A i \in Instances, t \in Txs :
              work'[i][t] # "none" => work[i][t] # "none" \/ status[t] # "none",
           \A c \in late' : c \in late \/ (c[1] \in Txs /\ status[c[1]] # "none")
    PROVE  Requested'
<1>1. \A c \in late : c[1] \in Txs
  OBVIOUS
<1> QED  BY <1>1, Zenon DEF Requested, RowsLast

\* A step that neither inserts nor mines.
LEMMA QuietRows ==
    ASSUME TypeOK, UNCHANGED receipts,
           \/ UNCHANGED status
           \/ \E t \in Txs, s \in {"completed", "failed"} :
                 status' = [status EXCEPT ![t] = IF @ = "pending" THEN s ELSE @]
    PROVE  RowsLast
  BY Zenon DEF TypeOK, RowsLast

\* A worker has a row in hand that was queued.
LEMMA WorkerRequested ==
    ASSUME TypeOK, Requested, NEW i \in Instances, NEW t \in Txs, Worker(i, t)
    PROVE  Requested'
<1>1. RowsLast
  <2>1. UNCHANGED receipts
    BY Zenon DEF Worker, Submit, Unsupported, InsufficientBalance, LookupFails, ReadFails, Takes,
                 Transferred, Rejected, TimesOut, CompleteEntry, FailEntry, storeVars
  <2>2. \/ UNCHANGED status
        \/ \E s \in {"completed", "failed"} :
              status' = [status EXCEPT ![t] = IF @ = "pending" THEN s ELSE @]
    BY Zenon DEF Worker, Submit, Unsupported, InsufficientBalance, LookupFails, ReadFails, Takes,
                 Transferred, Rejected, TimesOut, CompleteEntry, FailEntry, storeVars
  <2> QED  BY <2>1, <2>2, QuietRows, Zenon
<1>2. work[i][t] # "none"
  BY Zenon DEF Worker, Submit, Unsupported, InsufficientBalance, LookupFails, ReadFails, Takes,
               Transferred, Rejected, TimesOut, CompleteEntry, FailEntry
<1>3. PICK l \in Labels : Step(i, t, l)
  <2>1. \E l \in {"waiting", "failing", "none", "completing"} : Step(i, t, l)
    BY Zenon DEF Worker, Submit, Unsupported, InsufficientBalance, LookupFails, ReadFails,
                 Transferred, Rejected, TimesOut, CompleteEntry, FailEntry
  <2> QED  BY <2>1, Zenon DEF Labels
<1>4. \A j \in Instances, u \in Txs : (j # i \/ u # t) => work'[j][u] = work[j][u]
  BY <1>3, Zenon DEF Step, TypeOK
<1>5. late' = late \/ \E n : late' = late \cup {<<t, n>>}
  BY Zenon DEF Worker, Submit, Unsupported, InsufficientBalance, LookupFails, ReadFails, Takes,
               Transferred, Rejected, TimesOut, CompleteEntry, FailEntry
<1>6. status[t] # "none"
  BY <1>2, Zenon DEF Requested
<1>7. \A c \in late' : c \in late \/ (c[1] \in Txs /\ status[c[1]] # "none")
  <2>1. \A n : <<t, n>>[1] = t
    OBVIOUS
  <2> QED  BY <1>5, <1>6, <2>1
<1>8. \A j \in Instances, u \in Txs :
         work'[j][u] # "none" => work[j][u] # "none" \/ status[u] # "none"
  BY <1>4, <1>6, Zenon
<1> QED  BY <1>1, <1>7, <1>8, RowsOutlast, Zenon DEF TypeOK

\* drain takes rows; a crash leaves the commands of the workers under way.
LEMMA BatchRequested ==
    ASSUME TypeOK, Rowed, Requested, NEW i \in Instances, Drain(i) \/ Crash(i)
    PROVE  Requested'
<1>1. RowsLast
  <2>1. UNCHANGED <<status, receipts>>
    BY Zenon DEF Drain, Crash, storeVars
  <2> QED  BY <2>1, QuietRows, Zenon
<1>2. CASE Drain(i)
  <2>1. ASSUME NEW j \in Instances, NEW u \in Txs, work'[j][u] # "none", work[j][u] = "none"
        PROVE  status[u] # "none"
    <3>1. \E k \in Rows({"pending"}, BatchSize) : pool[k] = u
      BY <1>2, <2>1, Zenon DEF Drain, TypeOK
    <3>2. \A k \in Rows({"pending"}, BatchSize) : status[pool[k]] = "pending"
      BY Zenon DEF Rows
    <3> QED  BY <3>1, <3>2
  <2>2. late' = late
    BY <1>2, Zenon DEF Drain
  <2> QED  BY <1>1, <2>1, <2>2, RowsOutlast, Zenon DEF TypeOK
<1>3. CASE Crash(i)
  <2>1. \A j \in Instances, u \in Txs : work'[j][u] # "none" => work[j][u] # "none"
    BY <1>3, Zenon DEF Crash, TypeOK
  <2>2. \A c \in late' : c \in late \/ \E u \in Txs : work[i][u] = "waiting" /\ c = <<u, seen[i][u]>>
    BY <1>3, Zenon DEF Crash
  <2>3. \A u, n : <<u, n>>[1] = u
    OBVIOUS
  <2>4. \A u \in Txs : work[i][u] = "waiting" => status[u] # "none"
    <3>1. "waiting" # "none"
      OBVIOUS
    <3> QED  BY <3>1, Zenon DEF Requested
  <2>5. \A c \in late' : c \in late \/ (c[1] \in Txs /\ status[c[1]] # "none")
    BY <2>2, <2>3, <2>4
  <2> QED  BY <1>1, <2>1, <2>5, RowsOutlast, Zenon DEF TypeOK
<1> QED  BY <1>2, <1>3, Zenon

LEMMA NextRequested ==
    ASSUME TypeOK, Rowed, Requested, [Next]_vars
    PROVE  Requested'
<1>1. ASSUME NEW t \in Txs, SendRawTransaction(t) PROVE Requested'
  <2>1. /\ status' = [status EXCEPT ![t] = "pending"]
        /\ UNCHANGED <<receipts, work, late>>
    BY <1>1, Zenon DEF SendRawTransaction
  <2>2. RowsLast
    BY <2>1 DEF RowsLast, TypeOK
  <2> QED  BY <2>1, <2>2, RowsOutlast, Zenon DEF TypeOK
<1>2. ASSUME Mine PROVE Requested'
  <2>1. UNCHANGED <<work, late>>
    BY <1>2, Zenon DEF Mine
  <2> DEFINE C == Rows({"completed", "failed"}, MaxTxsPerBlock)
  <2> HIDE DEF C
  <2>2. /\ \A k \in C : pool[k] \in Txs /\ status'[pool[k]] = "mined"
                        /\ receipts'[pool[k]] = ReceiptAt(C, k)
        /\ \A t \in Txs : (\A k \in C : pool[k] # t) =>
                           status'[t] = status[t] /\ receipts'[t] = receipts[t]
    BY <1>2, MineWrites, Zenon DEF C
  <2>3. \A k \in C : ReceiptAt(C, k) # NoReceipt
    <3>1. ASSUME NEW k \in C PROVE ReceiptAt(C, k).block = latest + 1
      BY ReceiptFields, Zenon
    <3> QED  BY <3>1 DEF NoReceipt, TypeOK
  <2>4. "mined" # "none"
    OBVIOUS
  <2>5. RowsLast
    BY <2>2, <2>3, <2>4, Zenon DEF RowsLast
  <2> QED  BY <2>1, <2>5, RowsOutlast, Zenon DEF TypeOK
<1>3. ASSUME \/ LateCommit
             \/ \E a \in Accounts : Credit(a)
             \/ UNCHANGED vars
      PROVE  Requested'
  <2>1. UNCHANGED <<status, receipts, work>> /\ late' \subseteq late
    BY <1>3, Zenon DEF LateCommit, Credit, storeVars, vars
  <2> QED  BY <2>1, QuietRows, RowsOutlast, Zenon DEF TypeOK
<1> QED  BY <1>1, <1>2, <1>3, WorkerRequested, BatchRequested, Zenon DEF Next

LEMMA NextOutcomeInv == OutcomeInv /\ [Next]_vars => OutcomeInv'
<1>1. BlockInv /\ [Next]_vars => BlockInv'
  BY NextTypes, NextBlocks, Zenon DEF BlockInv
<1>2. OutcomeInv /\ [Next]_vars => Requested'
  BY NextRequested, Zenon DEF OutcomeInv, BlockInv
<1> QED  BY <1>1, <1>2, NextInv, Zenon DEF OutcomeInv

\* The state of the promise that a state of the facade stands for.
OutcomeMap == [t \in Txs |-> OutcomeOf(t)]
Published == {t \in Txs : receipts[t] # NoReceipt}

\* A step that changes neither a row nor a receipt.
LEMMA SameOutcomes ==
    ASSUME UNCHANGED <<status, receipts>>
    PROVE  UNCHANGED <<OutcomeMap, Published>>
  BY Zenon DEF OutcomeMap, Published, OutcomeOf

\* An accepted command commits.
LEMMA CommitExecutes ==
    ASSUME TypeOK, NEW t \in Txs, status[t] # "none", t \notin executed, Commit(t),
           UNCHANGED <<status, receipts>>
    PROVE  Outcomes!Execute(t)
<1>1. UNCHANGED <<OutcomeMap, Published>>
  BY SameOutcomes, Zenon
<1>2. OutcomeOf(t) # "none"
  BY DEF OutcomeOf
<1>3. executed' = executed \cup {t}
  BY Zenon DEF Commit
<1> QED  BY <1>1, <1>2, <1>3, Zenon DEF Outcomes!Execute, OutcomeMap, Published

\* One row changes: the outcome of its transaction only.
LEMMA RowOutcome ==
    ASSUME TypeOK, NEW t \in Txs, NEW s \in {"pending", "completed", "failed"},
           status' = [status EXCEPT ![t] = s], UNCHANGED receipts,
           NEW o, o = CASE s = "completed" -> "success" [] s = "failed" -> "failure" [] OTHER -> s
    PROVE  OutcomeMap' = [OutcomeMap EXCEPT ![t] = o] /\ UNCHANGED Published
<1>1. \A u \in Txs : status'[u] = IF u = t THEN s ELSE status[u]
  BY Zenon DEF TypeOK
<1>2. OutcomeOf(t)' = o
  BY <1>1 DEF OutcomeOf
<1>3. \A u \in Txs : u # t => OutcomeOf(u)' = OutcomeOf(u)
  BY <1>1, Zenon DEF OutcomeOf
<1>4. UNCHANGED Published
  BY Zenon DEF Published
<1>5. OutcomeMap' = [u \in Txs |-> OutcomeOf(u)']
  BY Zenon DEF OutcomeMap
<1>6. [OutcomeMap EXCEPT ![t] = o] = [u \in Txs |-> IF u = t THEN o ELSE OutcomeOf(u)]
  BY Zenon DEF OutcomeMap
<1> QED  BY <1>2, <1>3, <1>4, <1>5, <1>6, Zenon

\* A worker of the submitter executes, decides or changes nothing a wallet sees.
LEMMA WorkerOutcome ==
    ASSUME OutcomeInv, NEW i \in Instances, NEW t \in Txs, Worker(i, t)
    PROVE  \/ Outcomes!Execute(t) \/ Outcomes!Decide(t)
           \/ UNCHANGED <<OutcomeMap, executed, Published>>
<1>1. CASE Transferred(i, t)
  <2>1. work[i][t] = "waiting" /\ t \notin executed /\ Commit(t) /\ UNCHANGED <<status, receipts>>
    BY <1>1, Zenon DEF Transferred, Valid, storeVars
  <2>2. "waiting" # "none"
    OBVIOUS
  <2>3. status[t] # "none"
    BY <2>1, <2>2, Zenon DEF OutcomeInv, Requested
  <2> QED  BY <2>1, <2>3, CommitExecutes, Zenon DEF OutcomeInv, BlockInv
<1>2. CASE CompleteEntry(i, t) \/ FailEntry(i, t)
  <2>1. UNCHANGED <<receipts, executed>>
    BY <1>2, Zenon DEF CompleteEntry, FailEntry, ledgerVars
  <2>2. CASE UNCHANGED status
    BY <2>1, <2>2, SameOutcomes, Zenon
  <2>3. CASE status[t] # "pending"
    <3>1. \/ status' = [status EXCEPT ![t] = IF @ = "pending" THEN "completed" ELSE @]
          \/ status' = [status EXCEPT ![t] = IF @ = "pending" THEN "failed" ELSE @]
          \/ status' = status
      BY <1>2, Zenon DEF CompleteEntry, FailEntry
    <3>2. status' = status
      BY <2>3, <3>1 DEF OutcomeInv, BlockInv, TypeOK
    <3> QED  BY <2>1, <3>2, SameOutcomes, Zenon
  <2>4. CASE status[t] = "pending" /\ ~UNCHANGED status
    <3>1. OutcomeMap[t] = "pending"
      BY <2>4 DEF OutcomeMap, OutcomeOf
    <3>2. PICK s \in {"completed", "failed"} :
             status' = [status EXCEPT ![t] = s] /\ (s = "completed" => CompleteEntry(i, t))
      BY <1>2, <2>4, Zenon DEF CompleteEntry, FailEntry
    <3>3. s = "completed" => t \in executed
      BY <3>2, Zenon DEF CompleteEntry, OutcomeInv, IInv, CompletingIsExecuted
    <3>4. PICK o \in {"success", "failure"} :
            /\ o = CASE s = "completed" -> "success" [] s = "failed" -> "failure" [] OTHER -> s
            /\ o = "success" => s = "completed"
      OBVIOUS
    <3>5. s \in {"pending", "completed", "failed"}
      OBVIOUS
    <3>6. OutcomeMap' = [OutcomeMap EXCEPT ![t] = o] /\ UNCHANGED Published
      BY <2>1, <3>2, <3>4, <3>5, RowOutcome, Zenon DEF OutcomeInv, BlockInv
    <3> QED  BY <2>1, <3>1, <3>3, <3>4, <3>6, Zenon DEF Outcomes!Decide, OutcomeMap, Published
  <2> QED  BY <2>2, <2>3, <2>4, Zenon
<1>3. CASE \/ Submit(i, t) \/ Unsupported(i, t) \/ InsufficientBalance(i, t)
           \/ LookupFails(i, t) \/ ReadFails(i, t) \/ Rejected(i, t) \/ TimesOut(i, t)
  <2>1. UNCHANGED <<status, receipts, executed>>
    BY <1>3, Zenon DEF Submit, Unsupported, InsufficientBalance, LookupFails, ReadFails, Takes,
                       Rejected, TimesOut, storeVars, ledgerVars
  <2> QED  BY <2>1, SameOutcomes, Zenon
<1> QED  BY <1>1, <1>2, <1>3, Zenon DEF Worker

\* A block publishes the transactions of the rows it claims, with their outcome.
LEMMA MinePublishes ==
    ASSUME OutcomeInv, Mine
    PROVE  \E block \in SUBSET Txs : Outcomes!Publish(block)
<1> DEFINE C == Rows({"completed", "failed"}, MaxTxsPerBlock)
           block == {pool[k] : k \in C}
<1>1. \A k \in C : status[pool[k]] \in {"completed", "failed"}
  BY Zenon DEF Rows
<1>2. UNCHANGED executed
  BY Zenon DEF Mine, ledgerVars
<1> HIDE DEF C
<1>3. /\ C # {}
      /\ \A k \in C : pool[k] \in Txs /\ status'[pool[k]] = "mined"
                      /\ receipts'[pool[k]] = ReceiptAt(C, k)
      /\ \A t \in Txs : (\A k \in C : pool[k] # t) =>
                         status'[t] = status[t] /\ receipts'[t] = receipts[t]
  BY MineWrites, Zenon DEF C, OutcomeInv, BlockInv
<1>4. \A k \in C : /\ ReceiptAt(C, k) # NoReceipt
                   /\ ReceiptAt(C, k).ok <=> status[pool[k]] = "completed"
  <2>1. ASSUME NEW k \in C
        PROVE  ReceiptAt(C, k).block = latest + 1 /\ (ReceiptAt(C, k).ok <=> status[pool[k]] = "completed")
    BY ReceiptFields, Zenon
  <2> QED  BY <2>1 DEF NoReceipt, OutcomeInv, BlockInv, TypeOK
<1>5. block \in SUBSET Txs /\ block # {}
  BY <1>3, Zenon
<1>6. ASSUME NEW t \in block
      PROVE  /\ OutcomeOf(t) \in {"success", "failure"} /\ receipts[t] = NoReceipt
             /\ OutcomeOf(t)' = OutcomeOf(t) /\ receipts'[t] # NoReceipt
  <2>1. PICK k \in C : t = pool[k]
    BY Zenon
  <2>2. status[t] \in {"completed", "failed"} /\ status[t] # "mined"
    BY <1>1, <2>1
  <2>3. receipts[t] = NoReceipt
    BY <1>3, <2>1, <2>2, Zenon DEF OutcomeInv, BlockInv, Rowed
  <2>4. OutcomeOf(t) = IF status[t] = "completed" THEN "success" ELSE "failure"
    BY <2>2 DEF OutcomeOf
  <2>5. status'[t] = "mined" /\ receipts'[t] # NoReceipt /\ (receipts'[t].ok <=> status[t] = "completed")
    BY <1>3, <1>4, <2>1, Zenon
  <2>6. OutcomeOf(t)' = IF receipts'[t].ok THEN "success" ELSE "failure"
    BY <2>5 DEF OutcomeOf
  <2> QED  BY <2>3, <2>4, <2>5, <2>6, Zenon
<1>7. ASSUME NEW t \in Txs, t \notin block
      PROVE  OutcomeOf(t)' = OutcomeOf(t) /\ receipts'[t] = receipts[t]
  BY <1>3, <1>7, Zenon DEF OutcomeOf
<1>8. UNCHANGED OutcomeMap
  BY <1>6, <1>7, Zenon DEF OutcomeMap
<1>9. Published' = Published \cup block
  BY <1>5, <1>6, <1>7, Zenon DEF Published
<1>10. \A t \in block : t \in Txs /\ OutcomeMap[t] \in {"success", "failure"} /\ t \notin Published
  BY <1>5, <1>6, Zenon DEF OutcomeMap, Published
<1> HIDE DEF block
<1>11. PICK b \in SUBSET Txs : b = block
  BY <1>5, Zenon
<1>12. /\ b # {} /\ UNCHANGED OutcomeMap /\ Published' = Published \cup b
       /\ \A t \in b : t \in Txs /\ OutcomeMap[t] \in {"success", "failure"} /\ t \notin Published
  BY <1>5, <1>8, <1>9, <1>10, <1>11, Zenon
<1>13. Outcomes!Publish(b)
  BY <1>2, <1>12, Zenon DEF Outcomes!Publish, OutcomeMap, Published
<1> QED  BY <1>13

\* ImplementsOutcomes: every run of any number of submitters and miners, through
\* all their timeouts, crashes and faults, is a run of the outcomes a wallet is
\* promised (SendRawTransaction, process, mine).
THEOREM OutcomesAreImplemented == Spec => ImplementsOutcomes
<1>1. Init => Outcomes!OutcomesInit
  BY DEF Init, Outcomes!OutcomesInit, OutcomeOf
<1>2. OutcomeInv /\ [Next]_vars => [Outcomes!OutcomesNext]_<<OutcomeMap, executed, Published>>
  <2> SUFFICES ASSUME OutcomeInv, [Next]_vars
               PROVE  Outcomes!OutcomesNext \/ UNCHANGED <<OutcomeMap, executed, Published>>
    BY Zenon
  <2>1. ASSUME NEW t \in Txs, SendRawTransaction(t) PROVE Outcomes!Accept(t)
    <3>1. /\ status[t] = "none" /\ status' = [status EXCEPT ![t] = "pending"]
          /\ UNCHANGED <<receipts, executed>>
      BY <2>1, Zenon DEF SendRawTransaction, ledgerVars
    <3>2. OutcomeMap[t] = "none"
      BY <3>1 DEF OutcomeMap, OutcomeOf
    <3>3. PICK o : o = "pending" /\
            o = CASE "pending" = "completed" -> "success" [] "pending" = "failed" -> "failure" [] OTHER -> "pending"
      OBVIOUS
    <3>4. OutcomeMap' = [OutcomeMap EXCEPT ![t] = o] /\ UNCHANGED Published
      BY <3>1, <3>3, RowOutcome, Zenon DEF OutcomeInv, BlockInv
    <3> QED  BY <3>1, <3>2, <3>3, <3>4, Zenon DEF Outcomes!Accept, OutcomeMap, Published
  <2>2. CASE LateCommit
    <3>1. PICK c \in late : /\ (Valid(c[1], c[2]) /\ Commit(c[1])) \/ UNCHANGED executed
                            /\ UNCHANGED <<status, receipts>>
      BY <2>2, Zenon DEF LateCommit, storeVars, ledgerVars
    <3>2. c[1] \in Txs
      BY DEF OutcomeInv, BlockInv, TypeOK
    <3>3. CASE Valid(c[1], c[2]) /\ Commit(c[1])
      <4>1. Outcomes!Execute(c[1])
        BY <3>1, <3>2, <3>3, CommitExecutes, Zenon DEF Valid, OutcomeInv, BlockInv, Requested
      <4> QED  BY <3>2, <4>1, Zenon DEF Outcomes!OutcomesNext
    <3> QED  BY <3>1, <3>3, SameOutcomes, Zenon
  <2>3. ASSUME \/ \E i \in Instances : Drain(i) \/ Crash(i)
               \/ \E a \in Accounts : Credit(a)
               \/ UNCHANGED vars
        PROVE  UNCHANGED <<OutcomeMap, executed, Published>>
    <3>1. UNCHANGED <<status, receipts, executed>>
      BY <2>3, Zenon DEF Drain, Crash, Credit, storeVars, ledgerVars, vars
    <3> QED  BY <3>1, SameOutcomes, Zenon
  <2> QED  BY <2>1, <2>2, <2>3, WorkerOutcome, MinePublishes, Zenon DEF Next, Outcomes!OutcomesNext
<1> QED  BY <1>1, <1>2, InitOutcomeInv, NextOutcomeInv, PTL
         DEF Spec, ImplementsOutcomes, Outcomes!OutcomesSpec, Outcomes!outcomeVars, OutcomeMap, Published

-----------------------------------------------------------------------------
(* When a failed transaction did not take place. *)

\* One instance, whose calls answer in time and whose writes succeed, and that
\* does not crash.  The ledger may refuse or be away.
Alone ==
    /\ \A i, j \in Instances : i = j
    /\ ~DbFaults /\ MaxLost = 0 /\ MaxCrashes = 0

\* The row of a transfer that took place says so, or its worker is about to.
Accounted(t) ==
    \/ status[t] = "completed"
    \/ status[t] = "mined" /\ receipts[t].ok
    \/ \E i \in Instances : work[i][t] = "completing"

\* Then a row is pending as long as a worker has it, and nothing is under way
\* that nobody waits for.
InHand ==
    /\ late = {} /\ lost = 0 /\ crashes = 0
    /\ \A i \in Instances, t \in Txs : work[i][t] # "none" => status[t] = "pending"
    /\ \A t \in executed : Accounted(t)

LEMMA InitInHand == Init => InHand
<1> SUFFICES ASSUME Init PROVE InHand
  OBVIOUS
<1>1. late = {} /\ lost = 0 /\ crashes = 0 /\ executed = {}
  BY Zenon DEF Init
<1>2. ASSUME NEW i \in Instances, NEW t \in Txs PROVE work[i][t] = "none"
  BY Zenon DEF Init
<1> QED  BY <1>1, <1>2, Zenon DEF InHand

\* A worker that neither commits nor writes passes nothing on.
LEMMA QuietWorker ==
    ASSUME Shape, TypeOK, InHand, NEW i \in Instances, NEW t \in Txs, NEW l \in Labels, Step(i, t, l),
           work[i][t] \in {"queued", "waiting"},
           UNCHANGED <<status, receipts, executed, late, lost, crashes>>
    PROVE  InHand'
<1>1. /\ work'[i][t] = l
      /\ \A j \in Instances, u \in Txs : (j # i \/ u # t) => work'[j][u] = work[j][u]
  BY StepWork, Zenon
<1>2. work[i][t] # "none" /\ work[i][t] # "completing"
  OBVIOUS
<1>3. \A j \in Instances, u \in Txs : work'[j][u] # "none" => status'[u] = "pending"
  BY <1>1, <1>2, Zenon DEF InHand
<1>4. ASSUME NEW u \in executed PROVE Accounted(u)'
  <2>1. u \in Txs
    BY Zenon DEF TypeOK
  <2> QED  BY <1>1, <1>2, <2>1, Zenon DEF InHand, Accounted
<1> QED  BY <1>3, <1>4, Zenon DEF InHand

\* A worker writes what it saw, and the row it writes is pending.
LEMMA WorkerInHand ==
    ASSUME Alone, Shape, TypeOK, InHand, NEW i \in Instances, NEW t \in Txs, Worker(i, t)
    PROVE  InHand'
<1>1. executed \subseteq Txs /\ \A j \in Instances : j = i
  BY Zenon DEF TypeOK, Alone
<1>2. CASE \/ Submit(i, t) \/ Unsupported(i, t) \/ InsufficientBalance(i, t)
           \/ LookupFails(i, t) \/ ReadFails(i, t) \/ Rejected(i, t)
  <2>1. /\ work[i][t] \in {"queued", "waiting"}
        /\ UNCHANGED <<status, receipts, executed, late, lost, crashes>>
    BY <1>2, Zenon DEF Submit, Unsupported, InsufficientBalance, LookupFails, ReadFails, Takes,
                       Rejected, storeVars, ledgerVars, counters
  <2>2. \E l \in {"waiting", "failing", "none"} : Step(i, t, l)
    BY <1>2, Zenon DEF Submit, Unsupported, InsufficientBalance, LookupFails, ReadFails, Rejected
  <2>3. PICK l \in Labels : Step(i, t, l)
    BY <2>2, Zenon DEF Labels
  <2> QED  BY <2>1, <2>3, QuietWorker, Zenon
<1>3. CASE Transferred(i, t)
  <2>1. /\ work[i][t] = "waiting" /\ executed' = executed \cup {t} /\ Step(i, t, "completing")
        /\ UNCHANGED <<status, receipts, late, lost, crashes>>
    BY <1>3, Zenon DEF Transferred, Commit, storeVars, counters
  <2>2. "completing" \in Labels /\ "waiting" # "none"
    BY DEF Labels
  <2>3. /\ work'[i][t] = "completing"
        /\ \A j \in Instances, u \in Txs : (j # i \/ u # t) => work'[j][u] = work[j][u]
    BY <2>1, <2>2, StepWork, Zenon
  <2>4. \A j \in Instances, u \in Txs : work'[j][u] # "none" => status'[u] = "pending"
    BY <2>1, <2>2, <2>3, Zenon DEF InHand
  <2>5. ASSUME NEW u \in executed' PROVE Accounted(u)'
    BY <1>1, <2>1, <2>3, Zenon DEF InHand, Accounted
  <2> QED  BY <2>1, <2>4, <2>5, Zenon DEF InHand
<1>4. CASE CompleteEntry(i, t) \/ FailEntry(i, t)
  <2>1. /\ work[i][t] \in {"completing", "failing"} /\ Step(i, t, "none")
        /\ UNCHANGED <<receipts, executed, late, lost, crashes>>
    BY <1>4, Zenon DEF CompleteEntry, FailEntry, ledgerVars, counters
  <2>2. "none" \in Labels /\ work[i][t] # "none"
    BY <2>1 DEF Labels
  <2>3. status[t] = "pending"
    BY <2>2, Zenon DEF InHand
  <2>4. PICK s \in {"completed", "failed"} :
            /\ status' = [status EXCEPT ![t] = s]
            /\ s = "completed" \/ work[i][t] = "failing"
    BY <1>4, <2>3, Zenon DEF CompleteEntry, FailEntry, Alone
  <2>5. \A u \in Txs : status'[u] = IF u = t THEN s ELSE status[u]
    BY <2>4, Zenon DEF TypeOK
  <2>6. /\ work'[i][t] = "none"
        /\ \A j \in Instances, u \in Txs : (j # i \/ u # t) => work'[j][u] = work[j][u]
    BY <2>1, <2>2, StepWork, Zenon
  <2>7. \A j \in Instances, u \in Txs : work'[j][u] # "none" => status'[u] = "pending"
    BY <1>1, <2>5, <2>6, Zenon DEF InHand
  <2>8. s = "failed" => t \notin executed
    <3>1. status[t] # "completed" /\ status[t] # "mined"
      BY <2>3
    <3>2. s = "failed" => work[i][t] # "completing"
      BY <2>4
    <3> QED  BY <1>1, <3>1, <3>2, Zenon DEF InHand, Accounted
  <2>9. ASSUME NEW u \in executed PROVE Accounted(u)'
    <3>1. CASE u = t
      BY <1>1, <2>4, <2>5, <2>8, <3>1, Zenon DEF Accounted
    <3>2. CASE u # t
      <4>1. u \in Txs /\ status'[u] = status[u] /\ receipts'[u] = receipts[u]
        BY <1>1, <2>1, <2>5, <3>2, Zenon
      <4>2. \A j \in Instances : work'[j][u] = work[j][u]
        BY <2>6, <3>2, <4>1, Zenon
      <4> QED  BY <4>1, <4>2, Zenon DEF InHand, Accounted
    <3> QED  BY <3>1, <3>2, Zenon
  <2> QED  BY <2>1, <2>7, <2>9, Zenon DEF InHand
<1>5. ~TimesOut(i, t)
  <2>1. ~(lost < MaxLost)
    BY DEF InHand, Alone
  <2> QED  BY <2>1, Zenon DEF TimesOut
<1> QED  BY <1>2, <1>3, <1>4, <1>5, Zenon DEF Worker

\* Mining turns a completed row into a receipt of success.
LEMMA MineInHand ==
    ASSUME TypeOK, Rowed, InHand, Mine
    PROVE  InHand'
<1> DEFINE C == Rows({"completed", "failed"}, MaxTxsPerBlock)
<1>1. \A k \in C : status[pool[k]] \in {"completed", "failed"}
  BY Zenon DEF Rows
<1>2. UNCHANGED <<work, executed, late, lost, crashes>>
  BY Zenon DEF Mine, ledgerVars, counters
<1> HIDE DEF C
<1>3. /\ \A k \in C : pool[k] \in Txs /\ status'[pool[k]] = "mined"
                      /\ receipts'[pool[k]] = ReceiptAt(C, k)
      /\ \A t \in Txs : (\A k \in C : pool[k] # t) =>
                         status'[t] = status[t] /\ receipts'[t] = receipts[t]
  BY MineWrites, Zenon DEF C
<1>4. \A k \in C : ReceiptAt(C, k).ok <=> status[pool[k]] = "completed"
  BY ReceiptFields, Zenon
<1>5. \A j \in Instances, u \in Txs : work'[j][u] # "none" => status'[u] = "pending"
  <2>1. ASSUME NEW j \in Instances, NEW u \in Txs, work[j][u] # "none", NEW k \in C
        PROVE  pool[k] # u
    <3>1. status[u] = "pending"
      BY <2>1, Zenon DEF InHand
    <3> QED  BY <1>1, <3>1
  <2> QED  BY <1>2, <1>3, <2>1, Zenon DEF InHand
<1>6. ASSUME NEW u \in executed PROVE Accounted(u)'
  <2>1. u \in Txs
    BY Zenon DEF TypeOK
  <2>2. ASSUME NEW k \in C, pool[k] = u PROVE Accounted(u)'
    <3>1. status[u] \in {"completed", "failed"} /\ status[u] # "mined" /\ status[u] # "pending"
      BY <1>1, <2>2
    <3>2. "completing" # "none"
      OBVIOUS
    <3>3. status[u] = "completed"
      BY <2>1, <3>1, <3>2, Zenon DEF InHand, Accounted
    <3> QED  BY <1>3, <1>4, <2>2, <3>3, Zenon DEF Accounted
  <2>3. CASE \A k \in C : pool[k] # u
    BY <1>2, <1>3, <2>1, <2>3, Zenon DEF InHand, Accounted
  <2> QED  BY <2>2, <2>3, Zenon
<1> QED  BY <1>2, <1>5, <1>6, Zenon DEF InHand

\* A step that changes neither a row nor a worker.
LEMMA NextInHand ==
    ASSUME Alone, OutcomeInv, InHand, [Next]_vars
    PROVE  InHand'
<1>1. Shape /\ TypeOK /\ Rowed
  BY Zenon DEF OutcomeInv, IInv, BlockInv
<1>2. ASSUME NEW t \in Txs, SendRawTransaction(t) PROVE InHand'
  <2>1. /\ status[t] = "none" /\ status' = [status EXCEPT ![t] = "pending"]
        /\ UNCHANGED <<receipts, work, executed, late, lost, crashes>>
    BY <1>2, Zenon DEF SendRawTransaction, ledgerVars, counters
  <2>2. \A u \in Txs : status'[u] = IF u = t THEN "pending" ELSE status[u]
    BY <1>1, <2>1, Zenon DEF TypeOK
  <2>3. ASSUME NEW u \in executed PROVE Accounted(u)'
    <3>1. u \in Txs
      BY <1>1, Zenon DEF TypeOK
    <3>2. status[t] # "completed" /\ status[t] # "mined"
      BY <2>1
    <3> QED  BY <2>1, <2>2, <3>1, <3>2, Zenon DEF InHand, Accounted
  <2> QED  BY <2>1, <2>2, <2>3, Zenon DEF InHand
<1>3. ASSUME NEW i \in Instances, Drain(i) PROVE InHand'
  <2>1. /\ UNCHANGED <<status, receipts, executed, late, lost, crashes>>
        /\ \A t \in Txs : work[i][t] = "none"
        /\ \A j \in Instances : j = i
    BY <1>3, Zenon DEF Drain, storeVars, ledgerVars, counters, Alone
  <2>2. \A k \in Rows({"pending"}, BatchSize) : status[pool[k]] = "pending"
    BY Zenon DEF Rows
  <2>3. \A t \in Txs : work'[i][t] # "none" => \E k \in Rows({"pending"}, BatchSize) : pool[k] = t
    BY <1>1, <1>3, Zenon DEF Drain, TypeOK
  <2>4. ASSUME NEW j \in Instances, NEW u \in Txs, work'[j][u] # "none" PROVE status'[u] = "pending"
    <3>1. work'[i][u] # "none" /\ status' = status
      BY <2>1, <2>4, Zenon
    <3>2. PICK k \in Rows({"pending"}, BatchSize) : pool[k] = u
      BY <2>3, <3>1, Zenon
    <3> QED  BY <2>2, <3>1, <3>2, Zenon
  <2>5. "completing" # "none" /\ executed \subseteq Txs
    BY <1>1 DEF TypeOK
  <2>6. ASSUME NEW u \in executed PROVE Accounted(u)'
    BY <2>1, <2>5, Zenon DEF InHand, Accounted
  <2> QED  BY <2>1, <2>4, <2>6, Zenon DEF InHand
<1>4. ASSUME NEW i \in Instances PROVE ~Crash(i)
  <2>1. ~(crashes < MaxCrashes)
    BY DEF InHand, Alone
  <2> QED  BY <2>1, Zenon DEF Crash
<1>5. ~LateCommit
  BY Zenon DEF LateCommit, InHand
<1>6. ASSUME (\E a \in Accounts : Credit(a)) \/ UNCHANGED vars PROVE InHand'
  <2>1. UNCHANGED <<status, receipts, work, executed, late, lost, crashes>>
    BY <1>6, Zenon DEF Credit, storeVars, ledgerVars, counters, vars
  <2> QED  BY <2>1, Zenon DEF InHand, Accounted
<1> QED  BY <1>1, <1>2, <1>3, <1>4, <1>5, <1>6, WorkerInHand, MineInHand, Zenon DEF Next

\* FailedNotExecuted: with one instance, whose answers and writes are not lost,
\* the comment in mine holds: a transaction mined as failed did not take place,
\* for any number of transactions, workers and refusals of the ledger
\* (TransferFrom, process, mine).
THEOREM FailureIsReal == ASSUME Alone PROVE Spec => []FailedNotExecuted
<1>1. Init => OutcomeInv /\ InHand
  BY InitOutcomeInv, InitInHand, Zenon
<1>2. OutcomeInv /\ InHand /\ [Next]_vars => OutcomeInv' /\ InHand'
  BY NextOutcomeInv, NextInHand, Zenon
<1>3. OutcomeInv /\ InHand => FailedNotExecuted
  <2> SUFFICES ASSUME OutcomeInv, InHand, NEW t \in Txs, receipts[t] # NoReceipt, t \in executed
               PROVE  receipts[t].ok
    BY Zenon DEF FailedNotExecuted
  <2>1. status[t] = "mined"
    BY Zenon DEF OutcomeInv, BlockInv, Rowed
  <2>2. status[t] # "completed" /\ status[t] # "pending" /\ "completing" # "none"
    BY <2>1
  <2> QED  BY <2>2, Zenon DEF InHand, Accounted
<1> QED  BY <1>1, <1>2, <1>3, PTL DEF Spec
=============================================================================
