------------------------------ MODULE Relayer ------------------------------
(***************************************************************************)
(* The bridge relayer: pkg/relayer/engine over pkg/relayer/store.          *)
(*                                                                         *)
(* One process runs two processors (one per direction) and a reconciler.   *)
(* A processor takes the events of its source in order, inserts a transfer *)
(* row, submits the transfer to the destination and persists the source    *)
(* position.  The reconciler takes a snapshot of the pending rows and      *)
(* submits them again.  Rows and positions are in PostgreSQL and survive a *)
(* crash; everything else is lost with the process.                        *)
(*                                                                         *)
(* Each database statement and each remote call is one step, so the steps  *)
(* of the three threads and a crash interleave between them.               *)
(***************************************************************************)
EXTENDS SourceStream, Destinations

CONSTANTS
    DbFaults,     \* a database statement may fail
    CheckFaults,  \* IsDepositProcessed / IsWithdrawalProcessed may fail
    SlowSubmit,   \* a submission may outlast RetryDelay
    MaxCrashes    \* bound: crashes of the process

ASSUME FaultAssumption ==
    /\ DbFaults \in BOOLEAN
    /\ CheckFaults \in BOOLEAN
    /\ SlowSubmit \in BOOLEAN
    /\ MaxCrashes \in Nat

VARIABLES
    status,      \* [Events -> Statuses] transfers.status; "absent" is no row
    retries,     \* [Events -> Nat] transfers.retry_count
    stored,      \* [Dirs -> Nat or NoState] chain_state
    up,          \* the process runs
    crashes,
    pc,          \* [Threads -> Labels] where each thread is
    cur,         \* [Threads -> Events or NoEvent] the event it submits
    pos,         \* [Dirs -> Nat] the position it will persist
    lastSaved,   \* [Dirs -> Nat] Processor.lastSavedOffset; 0 is ""
    snap,        \* the reconciler's pending rows, <<event, retry count>>
    insertFailed,\* history: events whose CreateTransfer failed
    startedPast  \* history: events a start without stored position began after

rowVars == <<status, retries>>
procVars == <<up, crashes, pc, cur, pos, lastSaved, snap>>
history == <<insertFailed, startedPast>>
vars == <<head, cursor, upto, sent, queue,
          pendingDep, minted, evmSent, evmDone, released, closed,
          status, retries, stored, up, crashes, pc, cur, pos, lastSaved, snap,
          insertFailed, startedPast>>

Reconciler == "reconciler"
Threads == Dirs \cup {Reconciler}
Statuses == {"absent", "pending", "completed", "failed"}
Submitting == {"check", "create", "mint", "send", "ok", "skipped", "err"}
Labels == Submitting \cup {"idle", "hook", "persist", "select"}

Init ==
    /\ SourceInit
    /\ DestInit
    /\ status = [e \in Events |-> "absent"]
    /\ retries = [e \in Events |-> 0]
    /\ stored = [d \in Dirs |-> NoState]
    /\ up = FALSE
    /\ crashes = 0
    /\ pc = [t \in Threads |-> "idle"]
    /\ cur = [t \in Threads |-> NoEvent]
    /\ pos = [d \in Dirs |-> 0]
    /\ lastSaved = [d \in Dirs |-> 0]
    /\ snap = {}
    /\ insertFailed = {}
    /\ startedPast = {}

-----------------------------------------------------------------------------
(* Starting and stopping *)

\* Mutant: the lookback is not clamped to the beginning.
SafeOffset_Unclamped(d, end) == end - Lookback[d]

\* safeCantonOffset; BEGIN is 0.
SafeOffset(d, end) == IF end <= Lookback[d] THEN 0 ELSE end - Lookback[d]

\* loadEthereumOffset: the later of the stored and the configured block, or
\* the head minus the lookback when nothing is known (0 if it cannot be read).
EthereumOffsets ==
    LET d == EthToCanton IN
    IF stored[d] # NoState
    THEN {IF StartBlock[d] > stored[d] THEN StartBlock[d] ELSE stored[d]}
    ELSE IF StartBlock[d] > 0 THEN {StartBlock[d]}
    ELSE IF Lookback[d] = 0 THEN {0}
    ELSE {0, SafeOffset(d, head[d])}

\* loadCantonOffset: a stored offset ahead of the ledger end is moved back.
CantonOffsets ==
    LET d == CantonToEth
        back == IF Lookback[d] = 0 THEN 1 ELSE Lookback[d] IN
    IF stored[d] # NoState
    THEN {stored[d]} \cup
         (IF stored[d] <= head[d] THEN {} ELSE {IF head[d] <= back THEN 0 ELSE head[d] - back})
    ELSE IF StartBlock[d] > 0 THEN {StartBlock[d]}
    ELSE {0, IF Lookback[d] = 0 THEN head[d] ELSE SafeOffset(d, head[d])}

StartOffsets(d) == IF d = EthToCanton THEN EthereumOffsets ELSE CantonOffsets

\* Engine.Start.
Start ==
    /\ ~up
    /\ up' = TRUE
    /\ \E start \in [Dirs -> UNION {StartOffsets(d) : d \in Dirs}] :
          /\ \A d \in Dirs : start[d] \in StartOffsets(d)
          /\ StreamFrom(start)
          /\ stored' = [d \in Dirs |-> IF start[d] < stored[d] THEN start[d] ELSE stored[d]]
          /\ startedPast' = startedPast \cup
                {e \in Events : /\ status[e] = "absent"
                                /\ stored[DirOf[e]] < PosOf[e]
                                /\ PosOf[e] <= start[DirOf[e]]}
    /\ UNCHANGED <<head, destVars, rowVars, crashes, pc, cur, pos, lastSaved,
                   snap, insertFailed>>

\* The process dies, or Stop cancels every goroutine, between any two steps.
Crash ==
    /\ up
    /\ crashes < MaxCrashes
    /\ up' = FALSE
    /\ crashes' = crashes + 1
    /\ StreamFrom([d \in Dirs |-> 0])
    /\ pc' = [t \in Threads |-> "idle"]
    /\ cur' = [t \in Threads |-> NoEvent]
    /\ pos' = [d \in Dirs |-> 0]
    /\ lastSaved' = [d \in Dirs |-> 0]
    /\ snap' = {}
    /\ UNCHANGED <<head, destVars, rowVars, stored, history>>

-----------------------------------------------------------------------------
(* Store statements *)

\* UpdateTransferStatus has no condition on the old status; a failure is logged.
UpdateStatus(e, s) ==
    \/ status' = [status EXCEPT ![e] = s]
    \/ DbFaults /\ UNCHANGED status

\* Mutant: the count is not written.
IncrementRetryCount_Lost(e) == UNCHANGED retries

\* IncrementRetryCount; a failure is logged.
IncrementRetryCount(e) ==
    \/ retries' = [retries EXCEPT ![e] = @ + 1]
    \/ DbFaults /\ UNCHANGED retries

Goto(t, label) == pc' = [pc EXCEPT ![t] = label]

\* The thread is done with its event.
Release(t) == cur' = [cur EXCEPT ![t] = NoEvent]

-----------------------------------------------------------------------------
(* Processor.Start and processEvent, up to the submission *)

\* The processor of direction d receives the next item from its channel.
Receives(d) ==
    /\ up
    /\ pc[d] = "idle"
    /\ queue[d] # <<>>
    /\ queue' = [queue EXCEPT ![d] = Tail(@)]
    /\ UNCHANGED <<head, cursor, upto, sent, destVars, stored, up, crashes,
                   lastSaved, snap, startedPast>>

ReceiveCheckpoint(d) ==
    LET it == Head(queue[d]) IN
    /\ Receives(d)
    /\ it.ev = NoEvent
    /\ Goto(d, "persist")
    /\ pos' = [pos EXCEPT ![d] = it.pos]
    /\ UNCHANGED <<rowVars, cur, insertFailed>>

\* CreateTransfer inserts the row: the submission begins.
ReceiveNew(d) ==
    LET it == Head(queue[d]) IN
    /\ Receives(d)
    /\ it.ev # NoEvent
    /\ status[it.ev] = "absent"
    /\ status' = [status EXCEPT ![it.ev] = "pending"]
    /\ Goto(d, "check")
    /\ cur' = [cur EXCEPT ![d] = it.ev]
    /\ pos' = [pos EXCEPT ![d] = it.pos]
    /\ UNCHANGED <<retries, insertFailed>>

\* Mutant: an event whose row exists is submitted again.
ReceiveKnown_Resubmits(d) ==
    LET it == Head(queue[d]) IN
    /\ Receives(d)
    /\ it.ev # NoEvent
    /\ status[it.ev] # "absent"
    /\ Goto(d, "check")
    /\ cur' = [cur EXCEPT ![d] = it.ev]
    /\ pos' = [pos EXCEPT ![d] = it.pos]
    /\ UNCHANGED <<rowVars, insertFailed>>

\* CreateTransfer finds the row: only the position is persisted.
ReceiveKnown(d) ==
    LET it == Head(queue[d]) IN
    /\ Receives(d)
    /\ it.ev # NoEvent
    /\ status[it.ev] # "absent"
    /\ Goto(d, "persist")
    /\ pos' = [pos EXCEPT ![d] = it.pos]
    /\ UNCHANGED <<rowVars, cur, insertFailed>>

\* CreateTransfer fails, possibly after the insert: the loop logs and goes on.
ReceiveInsertFails(d) ==
    LET it == Head(queue[d]) IN
    /\ DbFaults
    /\ Receives(d)
    /\ it.ev # NoEvent
    /\ \/ status' = [status EXCEPT ![it.ev] = IF @ = "absent" THEN "pending" ELSE @]
       \/ UNCHANGED status
    /\ insertFailed' = insertFailed \cup {it.ev}
    /\ UNCHANGED <<retries, pc, cur, pos>>

-----------------------------------------------------------------------------
(* Destination.SubmitTransfer, called by a processor or by the reconciler *)

\* What every step of a submission leaves alone.
SubmitFrame ==
    UNCHANGED <<sourceVars, rowVars, stored, up, crashes, cur, pos, lastSaved,
                snap, history>>

\* The first call that changes the destination.
FirstCall(e) == IF DirOf[e] = EthToCanton THEN "create" ELSE "send"

\* A failing check is logged and the submission goes on.
CheckProcessed(t) ==
    LET e == cur[t] IN
    /\ up
    /\ pc[t] = "check"
    /\ \/ AlreadyProcessed(e) /\ Goto(t, "skipped")
       \/ (CheckFaults \/ ~AlreadyProcessed(e)) /\ Goto(t, FirstCall(e))
    /\ SubmitFrame
    /\ UNCHANGED destVars

\* A call commits and its answer arrives or is lost, or it does not commit.
Calls(t, call, next) ==
    \/ call /\ Goto(t, next)
    \/ call /\ Goto(t, "err")
    \/ UNCHANGED destVars /\ Goto(t, "err")

SubmitCreate(t) ==
    /\ up
    /\ pc[t] = "create"
    /\ Calls(t, CreatePendingDeposit(cur[t]), "mint")
    /\ SubmitFrame

SubmitMint(t) ==
    /\ up
    /\ pc[t] = "mint"
    /\ Calls(t, ProcessDepositAndMint(cur[t]), "ok")
    /\ SubmitFrame

SubmitSend(t) ==
    /\ up
    /\ pc[t] = "send"
    /\ Calls(t, WithdrawFromCanton(cur[t]), "ok")
    /\ SubmitFrame

-----------------------------------------------------------------------------
(* processEvent after the submission *)

ProcessorFrame ==
    UNCHANGED <<sourceVars, retries, up, crashes, snap, history>>

\* Mutant: a failed submission is treated like a successful one.
ProcessorFailed_AsDone(d) ==
    /\ up
    /\ pc[d] = "err"
    /\ UpdateStatus(cur[d], "completed")
    /\ Goto(d, "hook")
    /\ ProcessorFrame
    /\ UNCHANGED <<cur, destVars, stored, pos, lastSaved>>

\* The row stays pending and the position is not persisted.
ProcessorFailed(d) ==
    /\ up
    /\ pc[d] = "err"
    /\ UpdateStatus(cur[d], "pending")
    /\ Goto(d, "idle")
    /\ Release(d)
    /\ pos' = [pos EXCEPT ![d] = 0]
    /\ ProcessorFrame
    /\ UNCHANGED <<destVars, stored, lastSaved>>

ProcessorSkipped(d) ==
    /\ up
    /\ pc[d] = "skipped"
    /\ UpdateStatus(cur[d], "completed")
    /\ Goto(d, "persist")
    /\ Release(d)
    /\ ProcessorFrame
    /\ UNCHANGED <<destVars, stored, pos, lastSaved>>

\* Only the Canton processor has a post-submit hook.
ProcessorDone(d) ==
    /\ up
    /\ pc[d] = "ok"
    /\ UpdateStatus(cur[d], "completed")
    /\ \/ d = CantonToEth /\ Goto(d, "hook") /\ UNCHANGED cur
       \/ d = EthToCanton /\ Goto(d, "persist") /\ Release(d)
    /\ ProcessorFrame
    /\ UNCHANGED <<destVars, stored, pos, lastSaved>>

\* completeWithdrawal is best-effort: its error is logged.
PostSubmit(d) ==
    /\ up
    /\ pc[d] = "hook"
    /\ CompleteWithdrawal(cur[d]) \/ UNCHANGED destVars
    /\ Goto(d, "persist")
    /\ Release(d)
    /\ ProcessorFrame
    /\ UNCHANGED <<status, stored, pos, lastSaved>>

\* persistOffset and saveChainOffset.  lastSavedOffset is set before the write.
PersistOffset(d) ==
    /\ up
    /\ pc[d] = "persist"
    /\ \/ /\ pos[d] # lastSaved[d]
          /\ stored' = [stored EXCEPT ![d] = pos[d]]
       \/ /\ pos[d] = lastSaved[d] \/ DbFaults
          /\ UNCHANGED stored
    /\ lastSaved' = [lastSaved EXCEPT ![d] = pos[d]]
    /\ pos' = [pos EXCEPT ![d] = 0]
    /\ Goto(d, "idle")
    /\ ProcessorFrame
    /\ UNCHANGED <<destVars, status, cur>>

-----------------------------------------------------------------------------
(* runReconciliation *)

ReconcileFrame ==
    UNCHANGED <<sourceVars, stored, up, crashes, pos, lastSaved, history>>

\* The pending rows of direction d, with the retry counts they have now.
PendingTransfers(d) ==
    {<<e, retries[e]>> : e \in {f \in EventsOf(d) : status[f] = "pending"}}

\* GetPendingTransfers for the withdrawals, then for the deposits; if the second
\* query fails the tick ends.
SelectWithdrawals ==
    LET r == Reconciler IN
    /\ up
    /\ pc[r] = "idle"
    /\ snap = {}
    /\ snap' = PendingTransfers(CantonToEth)
    /\ Goto(r, "select")
    /\ ReconcileFrame
    /\ UNCHANGED <<destVars, rowVars, cur>>

SelectDeposits ==
    LET r == Reconciler IN
    /\ up
    /\ pc[r] = "select"
    /\ \/ snap' = snap \cup PendingTransfers(EthToCanton)
       \/ DbFaults /\ snap' = {}
    /\ Goto(r, "idle")
    /\ ReconcileFrame
    /\ UNCHANGED <<destVars, rowVars, cur>>

\* The reconciler turns to the row of e, read with retry count n.  The
\* withdrawals of the snapshot come first.
TurnsTo(e, n) ==
    /\ up
    /\ pc[Reconciler] = "idle"
    /\ <<e, n>> \in snap
    /\ (\E y \in snap : DirOf[y[1]] = CantonToEth) => DirOf[e] = CantonToEth
    /\ snap' = snap \ {<<e, n>>}
    /\ ReconcileFrame
    /\ UNCHANGED <<destVars, retries>>

Exhausted(n) == MaxRetries > 0 /\ n >= MaxRetries

\* The retry count is the snapshot's; the status is written whatever it is now.
GiveUp(e) ==
    \E n \in {x[2] : x \in snap} :
        /\ TurnsTo(e, n)
        /\ Exhausted(n)
        /\ UpdateStatus(e, "failed")
        /\ UNCHANGED <<pc, cur>>

\* UpdatedAt + RetryDelay has not passed.
NotYet(e) ==
    \E n \in {x[2] : x \in snap} :
        /\ TurnsTo(e, n)
        /\ ~Exhausted(n)
        /\ UNCHANGED <<status, pc, cur>>

\* A processor is still submitting the event.
InFlight(e) == \E d \in Dirs : cur[d] = e

\* retryStuckTransfer begins.
Retry(e) ==
    \E n \in {x[2] : x \in snap} :
        /\ TurnsTo(e, n)
        /\ ~Exhausted(n)
        /\ SlowSubmit \/ ~InFlight(e)
        /\ Goto(Reconciler, "check")
        /\ cur' = [cur EXCEPT ![Reconciler] = e]
        /\ UNCHANGED status

RetryFailed ==
    LET r == Reconciler IN
    /\ up
    /\ pc[r] = "err"
    /\ IncrementRetryCount(cur[r])
    /\ Goto(r, "idle")
    /\ Release(r)
    /\ ReconcileFrame
    /\ UNCHANGED <<destVars, status, snap>>

\* Skipped or submitted; CompleteWithdrawal is not called on this path.
RetryDone ==
    LET r == Reconciler IN
    /\ up
    /\ pc[r] \in {"ok", "skipped"}
    /\ UpdateStatus(cur[r], "completed")
    /\ Goto(r, "idle")
    /\ Release(r)
    /\ ReconcileFrame
    /\ UNCHANGED <<destVars, retries, snap>>

-----------------------------------------------------------------------------
ProcessorStep(d) ==
    \/ ReceiveCheckpoint(d)
    \/ ReceiveNew(d)
    \/ ReceiveKnown(d)
    \/ ReceiveInsertFails(d)
    \/ ProcessorFailed(d)
    \/ ProcessorSkipped(d)
    \/ ProcessorDone(d)
    \/ PostSubmit(d)
    \/ PersistOffset(d)

SubmitStep(t) ==
    \/ CheckProcessed(t)
    \/ SubmitCreate(t)
    \/ SubmitMint(t)
    \/ SubmitSend(t)

ReconcilerStep ==
    \/ SelectWithdrawals
    \/ SelectDeposits
    \/ \E e \in Events : GiveUp(e) \/ NotYet(e) \/ Retry(e)
    \/ RetryFailed
    \/ RetryDone

Environment ==
    \/ /\ \E d \in Dirs : ChainAdvances(d)
       /\ UNCHANGED <<destVars, rowVars, stored, procVars, history>>
    \/ /\ EvmStep
       /\ UNCHANGED <<sourceVars, rowVars, stored, procVars, history>>

SourceStep(d) ==
    /\ up
    /\ StreamStep(d)
    /\ UNCHANGED <<destVars, rowVars, stored, procVars, history>>

SourceFails ==
    /\ up
    /\ SliceFails
    /\ UNCHANGED <<destVars, rowVars, stored, procVars, history>>

Next ==
    \/ Start
    \/ Crash
    \/ Environment
    \/ SourceFails
    \/ \E d \in Dirs : SourceStep(d) \/ ProcessorStep(d)
    \/ \E t \in Threads : SubmitStep(t)
    \/ ReconcilerStep

Spec == Init /\ [][Next]_vars

\* Every goroutine keeps running and the process is started again after a
\* crash; a remote call returns; a row that stays pending is old enough at
\* some tick; the Ethereum node stops failing at some point.
Fairness ==
    /\ WF_vars(Start)
    /\ \A d \in Dirs : WF_vars(SourceStep(d)) /\ WF_vars(ProcessorStep(d))
    /\ \A t \in Threads : WF_vars(SubmitStep(t))
    /\ WF_vars(ReconcilerStep)
    /\ \A e \in Events : SF_vars(Retry(e))
    /\ <>[][~SourceFails]_vars

FairSpec == Spec /\ Fairness

-----------------------------------------------------------------------------
(* Properties *)

\* Every variable holds a value of its type.
TypeOK ==
    /\ SourceTypeOK
    /\ DestTypeOK
    /\ status \in [Events -> Statuses]
    /\ retries \in [Events -> Nat]
    /\ stored \in [Dirs -> Nat \cup {NoState}]
    /\ up \in BOOLEAN
    /\ crashes \in Nat
    /\ pc \in [Threads -> Labels]
    /\ cur \in [Threads -> Events \cup {NoEvent}]
    /\ pos \in [Dirs -> Nat]
    /\ lastSaved \in [Dirs -> Nat]
    /\ snap \subseteq Events \X Nat
    /\ insertFailed \subseteq Events
    /\ startedPast \subseteq Events

\* The persisted position has passed the event.
Passed(e) == PosOf[e] <= stored[DirOf[e]]

\* The persisted position passes an event that has no transfer row only if its
\* CreateTransfer failed, a start without stored position began after it, or
\* it shares its block with another event (Processor.Start, persistOffset,
\* WatchDepositEvents): no other order of slices, failures, re-deliveries and
\* crashes loses an event.
NoSilentLoss ==
    \A e \in Events :
        Passed(e) /\ status[e] = "absent" =>
            e \in insertFailed \/ e \in startedPast \/ ~Sole(e)

\* The destination holds something for a transfer that is marked completed: a
\* deposit with its transaction hash, or a withdrawal transaction that a node
\* accepted (processEvent and retryStuckTransfer, which also complete a row
\* whose submission was skipped).
CompletedHasTrace ==
    \A e \in Events : status[e] = "completed" =>
        IF DirOf[e] = EthToCanton THEN IsDepositProcessed(e) ELSE evmSent[e] > 0

\* A deposit is minted at most once, whatever retries and crashes happen, if
\* the check of SubmitTransfer answers and a submission ends within RetryDelay.
MintAtMostOnce == \A e \in Events : minted[e] <= 1

\* A withdrawal is closed on Canton only after a node accepted the transaction
\* that releases it (the post-submit hook of processEvent).
ClosedAfterSend == \A e \in closed : evmSent[e] > 0

Lifecycle == INSTANCE TransferLifecycle WITH
    effect <- [e \in Events |-> minted[e] + (IF e \in released THEN 1 ELSE 0)]

\* Under the same two assumptions the three threads implement the lifecycle:
\* no stale snapshot or late update takes a settled transfer back
\* (UpdateTransferStatus has no guard of its own), and no effect comes twice.
LifecycleSpec == Lifecycle!Spec

\* Every event that reaches the head of its chain gets a transfer row, however
\* often the process crashes and slices fail (WatchDepositEvents, persistOffset).
EventuallyRecorded ==
    \A e \in Events :
        head[DirOf[e]] >= PosOf[e] ~>
            (status[e] # "absent" \/ e \in insertFailed \/ e \in startedPast)

\* Every pending transfer is completed or given up (runReconciliation).
EventuallySettled ==
    \A e \in Events : status[e] = "pending" ~> status[e] \in {"completed", "failed"}

\* processor.go: "skipped=true means the transfer was already processed on the
\* destination chain": a completed deposit has been minted.
CompletedIsMinted ==
    \A e \in EventsOf(EthToCanton) : status[e] = "completed" => minted[e] > 0
=============================================================================
