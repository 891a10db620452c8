--------------------------- MODULE RelayerProofs ----------------------------
(***************************************************************************)
(* The relayer, for every set of events, every configuration and every     *)
(* combination of faults: types, what one step does to the destinations, to*)
(* a thread and to the rows; no event is lost silently, and what is        *)
(* completed has left a trace on its destination.  When checks answer and  *)
(* no submission outlasts RetryDelay, effects come once and rows are       *)
(* settled once: the three threads implement TransferLifecycle.            *)
(***************************************************************************)
EXTENDS Relayer, TLAPS

\* loadOffsets yields natural numbers (safeCantonOffset does not underflow).
LEMMA StartOffsetsNat ==
    ASSUME TypeOK
    PROVE  \A d \in Dirs : StartOffsets(d) \subseteq Nat
<1>0. ASSUME NEW d \in Dirs
      PROVE  /\ head[d] \in Nat
             /\ stored[d] = NoState \/ stored[d] \in Nat
             /\ StartBlock[d] \in Nat
             /\ Lookback[d] \in Nat
             /\ SafeOffset(d, head[d]) \in Nat
  BY ConfigAssumption DEF TypeOK, SourceTypeOK, SafeOffset
<1>1. EthToCanton \in Dirs /\ CantonToEth \in Dirs
  BY Zenon DEF Dirs
<1>2. EthereumOffsets \subseteq Nat
  BY <1>0, <1>1 DEF EthereumOffsets
<1>3. CantonOffsets \subseteq Nat
  BY <1>0, <1>1 DEF CantonOffsets
<1> QED
  BY <1>2, <1>3, Zenon DEF StartOffsets

\* The steps of the sources keep the types of their variables.
LEMMA StreamTyped ==
    ASSUME SourceTypeOK,
           \/ \E d \in Dirs : StreamStep(d) \/ ChainAdvances(d)
           \/ SliceFails
    PROVE  SourceTypeOK'
<1>1. CASE PollSlice
  <2>1. PICK latest \in (cursor[EthToCanton] + 1) .. head[EthToCanton] :
           upto' = [upto EXCEPT ![EthToCanton] = ChunkEnd(cursor[EthToCanton] + 1, latest)]
    BY Zenon, <1>1 DEF PollSlice
  <2>2. ChunkEnd(cursor[EthToCanton] + 1, latest) \in Nat
    <3>1. cursor[EthToCanton] \in Nat
      BY Zenon DEF SourceTypeOK, Dirs
    <3>2. MaxBlockRange \in Nat \ {0}
      BY ConfigAssumption, Zenon
    <3>3. latest \in Nat
      BY <3>1
    <3> HIDE DEF SourceTypeOK
    <3> QED
      BY <3>1, <3>2, <3>3 DEF ChunkEnd
  <2> QED
    BY Zenon, <1>1, <2>1, <2>2 DEF PollSlice, SourceTypeOK, streamVars
<1>2. CASE ReceiveTransaction
  BY <1>2, EventsAssumption, Zenon DEF ReceiveTransaction, SourceTypeOK, EventsOf
<1>3. ASSUME NEW d \in Dirs, EmitEvent(d)
      PROVE  SourceTypeOK'
  <2>1. PICK e \in Unsent(d) :
           /\ queue' = [queue EXCEPT ![d] = Append(@, [ev |-> e, pos |-> PosOf[e]])]
           /\ sent' = [sent EXCEPT ![d] = e]
    BY Zenon, <1>3 DEF EmitEvent
  <2>2. [ev |-> e, pos |-> PosOf[e]] \in Item /\ e \in Events
    BY EventsAssumption, Zenon DEF Unsent, EventsOf, Item
  <2> QED
    BY <1>3, <2>1, <2>2 DEF EmitEvent, SourceTypeOK
<1>4. CASE EmitCheckpoint
  <2>1. [ev |-> NoEvent, pos |-> upto[EthToCanton]] \in Item
    BY Zenon DEF Item, SourceTypeOK, Dirs
  <2> QED
    BY <1>4, <2>1 DEF EmitCheckpoint, SourceTypeOK, Dirs
<1>5. CASE TransactionDone
  BY <1>5, Zenon DEF TransactionDone, SourceTypeOK, Dirs
<1>6. CASE SliceFails
  BY <1>6, Zenon DEF SliceFails, SourceTypeOK, Dirs
<1>7. ASSUME NEW d \in Dirs, ChainAdvances(d)
      PROVE  SourceTypeOK'
  BY <1>7 DEF ChainAdvances, SourceTypeOK, streamVars
<1> QED
  BY <1>1, <1>2, <1>3, <1>4, <1>5, <1>6, <1>7, Zenon DEF StreamStep

\* A thread that is submitting, or running the hook, has an event.
Busy == \A t \in Threads : pc[t] \notin {"idle", "persist", "select"} => cur[t] \in Events

TypeInv == TypeOK /\ Busy

\* The head of a non-empty channel is an item.
LEMMA HeadItem ==
    ASSUME SourceTypeOK, NEW d \in Dirs, queue[d] # <<>>
    PROVE  /\ Head(queue[d]) \in Item
           /\ Head(queue[d]).ev \in Events \cup {NoEvent}
           /\ Head(queue[d]).pos \in Nat
           /\ Tail(queue[d]) \in Seq(Item)
<1>1. queue[d] \in Seq(Item)
  BY Zenon DEF SourceTypeOK
<1>2. Head(queue[d]) \in Item /\ Tail(queue[d]) \in Seq(Item)
  BY <1>1
<1> QED
  BY <1>2, Zenon DEF Item

\* The calls that change a destination keep the types of its variables.
LEMMA DestTyped ==
    ASSUME DestTypeOK, NEW e \in Events,
           \/ CreatePendingDeposit(e) \/ ProcessDepositAndMint(e)
           \/ WithdrawFromCanton(e) \/ CompleteWithdrawal(e)
           \/ EvmMine(e) \/ EvmDrop(e)
    PROVE  DestTypeOK'
<1>1. CASE CreatePendingDeposit(e)
  BY <1>1 DEF CreatePendingDeposit, DestTypeOK, evmVars
<1>2. CASE ProcessDepositAndMint(e)
  BY <1>2 DEF ProcessDepositAndMint, DestTypeOK, evmVars
<1>3. CASE WithdrawFromCanton(e)
  BY <1>3 DEF WithdrawFromCanton, DestTypeOK, cantonVars
<1>4. CASE CompleteWithdrawal(e)
  BY <1>4, Zenon DEF CompleteWithdrawal, DestTypeOK, cantonVars, evmVars
<1>5. CASE EvmMine(e)
  BY <1>5 DEF EvmMine, DestTypeOK, cantonVars
<1>6. CASE EvmDrop(e)
  BY <1>6 DEF EvmDrop, DestTypeOK, cantonVars
<1> QED
  BY <1>1, <1>2, <1>3, <1>4, <1>5, <1>6, Zenon

\* Type correctness of the initial states.
LEMMA InitTyped == Init => TypeInv
<1> SUFFICES ASSUME Init PROVE TypeInv
  BY Zenon
<1>1. SourceTypeOK
  BY DEF Init, SourceInit, SourceTypeOK
<1>2. DestTypeOK
  BY Zenon DEF Init, DestInit, DestTypeOK
<1> QED
  BY Zenon, <1>1, <1>2 DEF Init, TypeInv, TypeOK, Busy, Statuses, Labels, NoState

\* Every step keeps the variables typed and every working thread's event real.
LEMMA NextTyped == TypeInv /\ [Next]_vars => TypeInv'
<1> SUFFICES ASSUME TypeInv, [Next]_vars PROVE TypeInv'
  BY Zenon
<1> USE DEF TypeInv, Busy
<1>0. /\ \A d \in Dirs : d \in Threads
      /\ Reconciler \in Threads
      /\ \A d \in Dirs : d # Reconciler
      /\ NoEvent \notin Events
  BY EventsAssumption, Zenon DEF Threads, NoEvent, Dirs, EthToCanton, CantonToEth, Reconciler
<1>1. CASE Start
  <2>1. PICK start \in [Dirs -> UNION {StartOffsets(d) : d \in Dirs}] :
           /\ \A d \in Dirs : start[d] \in StartOffsets(d)
           /\ StreamFrom(start)
           /\ stored' = [d \in Dirs |-> IF start[d] < stored[d] THEN start[d] ELSE stored[d]]
    BY <1>1, Zenon DEF Start
  <2>2. start \in [Dirs -> Nat]
    BY <2>1, StartOffsetsNat, Zenon
  <2>3. SourceTypeOK'
    BY <1>1, <2>1, <2>2 DEF Start, StreamFrom, TypeOK, SourceTypeOK
  <2>4. stored' \in [Dirs -> Nat \cup {NoState}]
    BY <2>1, <2>2, Zenon DEF TypeOK
  <2>5. startedPast' \subseteq Events
    BY <1>1, Zenon DEF Start, TypeOK
  <2> QED
    BY <1>1, <2>3, <2>4, <2>5, Zenon DEF Start, TypeOK, DestTypeOK, destVars, rowVars
<1>2. CASE Crash
  <2>1. SourceTypeOK'
    BY <1>2 DEF Crash, StreamFrom, TypeOK, SourceTypeOK
  <2>2. DestTypeOK'
    BY <1>2, Zenon DEF Crash, TypeOK, DestTypeOK, destVars
  <2>3. crashes' \in Nat
    BY <1>2 DEF Crash, TypeOK
  <2>4. /\ pc' \in [Threads -> Labels] /\ cur' \in [Threads -> Events \cup {NoEvent}]
        /\ Busy'
    BY <1>2, Zenon DEF Crash, Labels
  <2> QED
    BY Zenon, <1>2, <2>1, <2>2, <2>3, <2>4 DEF Crash, TypeOK, rowVars, history
<1>3. CASE Environment
  <2>1. CASE \E d \in Dirs : ChainAdvances(d) /\ UNCHANGED <<destVars, rowVars, stored, procVars, history>>
    BY <2>1, StreamTyped, Zenon DEF TypeOK, DestTypeOK, destVars, rowVars, procVars, history
  <2>2. CASE EvmStep /\ UNCHANGED <<sourceVars, rowVars, stored, procVars, history>>
    <3>1. DestTypeOK'
      BY <2>2, DestTyped, Zenon DEF EvmStep, EventsOf, TypeOK
    <3> QED
      BY <2>2, <3>1, Zenon DEF TypeOK, SourceTypeOK, sourceVars, rowVars, procVars, history
  <2> QED
    BY <1>3, <2>1, <2>2, Zenon DEF Environment
<1>4. CASE SourceFails
  BY <1>4, StreamTyped, Zenon
     DEF SourceFails, TypeOK, DestTypeOK, destVars, rowVars, procVars, history
<1>5. ASSUME NEW d \in Dirs, SourceStep(d) PROVE TypeInv'
  BY <1>5, StreamTyped, Zenon
     DEF SourceStep, TypeOK, DestTypeOK, destVars, rowVars, procVars, history
<1>6. ASSUME NEW d \in Dirs, ProcessorStep(d) PROVE TypeInv'
  <2>1. ASSUME Receives(d),
               \/ ReceiveCheckpoint(d) \/ ReceiveNew(d)
               \/ ReceiveKnown(d) \/ ReceiveInsertFails(d)
        PROVE  TypeInv'
    <3>1. /\ Head(queue[d]).ev \in Events \cup {NoEvent}
          /\ Head(queue[d]).pos \in Nat
          /\ Tail(queue[d]) \in Seq(Item)
      BY <2>1, HeadItem, Zenon DEF Receives, TypeOK
    <3>2. SourceTypeOK' /\ DestTypeOK'
      BY Zenon, <2>1, <3>1 DEF Receives, TypeOK, SourceTypeOK, DestTypeOK, destVars
    <3>3. CASE ReceiveCheckpoint(d)
      BY <1>0, <2>1, <3>1, <3>2, <3>3, Zenon
         DEF Receives, ReceiveCheckpoint, Goto, TypeOK, Labels, rowVars
    <3>4. CASE ReceiveNew(d)
      BY <1>0, <2>1, <3>1, <3>2, <3>4, Zenon
         DEF Receives, ReceiveNew, Goto, TypeOK, Labels, Submitting, Statuses
    <3>5. CASE ReceiveKnown(d)
      BY <1>0, <2>1, <3>1, <3>2, <3>5, Zenon
         DEF Receives, ReceiveKnown, Goto, TypeOK, Labels, rowVars
    <3>6. CASE ReceiveInsertFails(d)
      BY Zenon, <1>0, <2>1, <3>1, <3>2, <3>6
         DEF Receives, ReceiveInsertFails, TypeOK, Statuses
    <3> QED
      BY <2>1, <3>3, <3>4, <3>5, <3>6, Zenon
  <2>2. CASE ProcessorFailed(d)
    BY Zenon, <1>0, <2>2 DEF ProcessorFailed, UpdateStatus, Goto, Release, ProcessorFrame,
       TypeOK, SourceTypeOK, DestTypeOK, sourceVars, destVars, history, Labels, Statuses
  <2>3. CASE ProcessorSkipped(d)
    BY Zenon, <1>0, <2>3 DEF ProcessorSkipped, UpdateStatus, Goto, Release, ProcessorFrame,
       TypeOK, SourceTypeOK, DestTypeOK, sourceVars, destVars, history, Labels, Statuses
  <2>4. CASE ProcessorDone(d)
    BY ZenonT(30), <1>0, <2>4 DEF ProcessorDone, UpdateStatus, Goto, Release, ProcessorFrame,
       TypeOK, SourceTypeOK, DestTypeOK, sourceVars, destVars, history, Labels, Statuses
  <2>5. CASE PostSubmit(d)
    <3>1. DestTypeOK'
      BY <1>0, <2>5, DestTyped, Zenon DEF PostSubmit, TypeOK, DestTypeOK, destVars
    <3> QED
      BY <1>0, <2>5, <3>1, Zenon DEF PostSubmit, Goto, Release, ProcessorFrame,
         TypeOK, SourceTypeOK, sourceVars, history, Labels
  <2>6. CASE PersistOffset(d)
    BY ZenonT(30), <1>0, <2>6 DEF PersistOffset, Goto, ProcessorFrame,
       TypeOK, SourceTypeOK, DestTypeOK, sourceVars, destVars, history, Labels
  <2> QED
    BY <1>6, <2>1, <2>2, <2>3, <2>4, <2>5, <2>6, Zenon
       DEF ProcessorStep, ReceiveCheckpoint, ReceiveNew, ReceiveKnown, ReceiveInsertFails
<1>7. ASSUME NEW t \in Threads, SubmitStep(t) PROVE TypeInv'
  <2>1. CASE CheckProcessed(t)
    BY Zenon, <2>1 DEF CheckProcessed, Goto, FirstCall, SubmitFrame, TypeOK, SourceTypeOK,
       DestTypeOK, sourceVars, destVars, rowVars, history, Labels, Submitting
  <2>2. ASSUME NEW call, Calls(t, call, "mint") \/ Calls(t, call, "ok"),
               call => DestTypeOK', SubmitFrame, cur[t] \in Events
        PROVE  TypeInv'
    <3>1. DestTypeOK'
      BY <2>2, Zenon DEF Calls, TypeOK, DestTypeOK, destVars
    <3> QED
      BY Zenon, <2>2, <3>1 DEF Calls, Goto, SubmitFrame, TypeOK, SourceTypeOK,
         sourceVars, rowVars, history, Labels, Submitting
  <2>3. CASE SubmitCreate(t)
    BY <2>2, <2>3, DestTyped DEF SubmitCreate, TypeOK
  <2>4. CASE SubmitMint(t)
    BY <2>2, <2>4, DestTyped DEF SubmitMint, TypeOK
  <2>5. CASE SubmitSend(t)
    BY <2>2, <2>5, DestTyped DEF SubmitSend, TypeOK
  <2> QED
    BY <1>7, <2>1, <2>3, <2>4, <2>5, Zenon DEF SubmitStep
<1>8. CASE ReconcilerStep
  <2>1. CASE SelectWithdrawals \/ SelectDeposits
    <3>1. \A d \in Dirs : PendingTransfers(d) \subseteq Events \X Nat
      BY DEF PendingTransfers, EventsOf, TypeOK
    <3>2. snap' \subseteq Events \X Nat
      BY <2>1, <3>1, Zenon DEF SelectWithdrawals, SelectDeposits, TypeOK, Dirs
    <3> QED
      BY Zenon, <1>0, <2>1, <3>2 DEF SelectWithdrawals, SelectDeposits, Goto, ReconcileFrame,
         TypeOK, SourceTypeOK, DestTypeOK, sourceVars, destVars, rowVars, history, Labels
  <2>2. ASSUME NEW e \in Events, GiveUp(e) PROVE TypeInv'
    BY Zenon, <2>2 DEF GiveUp, TurnsTo, UpdateStatus, ReconcileFrame, TypeOK, SourceTypeOK,
       DestTypeOK, sourceVars, destVars, history, Statuses
  <2>3. ASSUME NEW e \in Events, NotYet(e) PROVE TypeInv'
    BY ZenonT(30), <2>3 DEF NotYet, TurnsTo, ReconcileFrame, TypeOK, SourceTypeOK,
       DestTypeOK, sourceVars, destVars, history
  <2>4. ASSUME NEW e \in Events, Retry(e) PROVE TypeInv'
    BY ZenonT(30), <1>0, <2>4 DEF Retry, TurnsTo, Goto, ReconcileFrame, TypeOK, SourceTypeOK,
       DestTypeOK, sourceVars, destVars, history, Labels, Submitting
  <2>5. CASE RetryFailed
    <3>1. retries' \in [Events -> Nat]
      BY <1>0, <2>5 DEF RetryFailed, IncrementRetryCount, TypeOK
    <3> QED
      BY <1>0, <2>5, <3>1, Zenon DEF RetryFailed, Goto, Release, ReconcileFrame,
       TypeOK, SourceTypeOK, DestTypeOK, sourceVars, destVars, history, Labels
  <2>6. CASE RetryDone
    BY ZenonT(30), <1>0, <2>6 DEF RetryDone, UpdateStatus, Goto, Release, ReconcileFrame,
       TypeOK, SourceTypeOK, DestTypeOK, sourceVars, destVars, history, Labels, Statuses
  <2> QED
    BY <1>8, <2>1, <2>2, <2>3, <2>4, <2>5, <2>6, Zenon DEF ReconcilerStep
<1>9. CASE UNCHANGED vars
  BY <1>9, Zenon DEF vars, TypeOK, SourceTypeOK, DestTypeOK
<1> QED
  BY <1>1, <1>2, <1>3, <1>4, <1>5, <1>6, <1>7, <1>8, <1>9, Zenon DEF Next

\* Every reachable state is well typed: no interleaving, crash or fault makes
\* an offset negative (safeCantonOffset) or lets a thread work without event.
THEOREM TypeCorrect == Spec => []TypeOK
<1>1. TypeInv => TypeOK
  BY Zenon DEF TypeInv
<1> QED
  BY <1>1, InitTyped, NextTyped, PTL DEF Spec

-----------------------------------------------------------------------------
(* What one step does. *)

\* The calls of a submission, the hook, and what becomes of transactions.
DestSteps ==
    \/ UNCHANGED destVars
    \/ \E t \in Threads : pc[t] = "create" /\ pc'[t] # "create" /\ CreatePendingDeposit(cur[t])
    \/ \E t \in Threads : pc[t] = "mint" /\ ProcessDepositAndMint(cur[t])
    \/ \E t \in Threads : pc[t] = "send" /\ WithdrawFromCanton(cur[t])
    \/ \E t \in Threads : pc[t] = "hook" /\ CompleteWithdrawal(cur[t])
    \/ EvmStep

\* A thread that rests has no event.
Resting == {"idle", "persist", "select"}

Quiet == \A t \in Threads : pc[t] \in Resting => cur[t] = NoEvent

\* A processor begins with an event it has just recorded.
Takes(t) ==
    /\ t \in Dirs /\ Receives(t)
    /\ cur'[t] = Head(queue[t]).ev /\ cur'[t] # NoEvent
    /\ status[cur'[t]] = "absent"
    /\ status' = [status EXCEPT ![cur'[t]] = "pending"]

\* The reconciler begins with a row of its snapshot.
TakesUp(t) ==
    /\ t = Reconciler
    /\ \E n \in Nat : <<cur'[t], n>> \in snap /\ snap' = snap \ {<<cur'[t], n>>}
    /\ cur'[t] \in Events
    /\ SlowSubmit \/ ~InFlight(cur'[t])
    /\ UNCHANGED status

\* A step of a submission.
Submits(t) ==
    \/ /\ pc[t] = "check" /\ UNCHANGED destVars
       /\ \/ pc'[t] = "skipped" /\ AlreadyProcessed(cur[t])
          \/ pc'[t] = FirstCall(cur[t]) /\ (CheckFaults \/ ~AlreadyProcessed(cur[t]))
    \/ pc[t] = "create" /\ pc'[t] = "mint" /\ CreatePendingDeposit(cur[t])
    \/ pc[t] = "mint" /\ pc'[t] = "ok" /\ ProcessDepositAndMint(cur[t])
    \/ pc[t] = "send" /\ pc'[t] = "ok" /\ WithdrawFromCanton(cur[t])
    \/ pc[t] \in {"create", "mint", "send"} /\ pc'[t] = "err"

\* What a step may do to thread t.
Moves(t) ==
    \/ pc'[t] = pc[t] /\ cur'[t] = cur[t]
    \/ pc'[t] \in Resting /\ cur'[t] = NoEvent
    \/ /\ pc[t] = "idle" /\ pc'[t] = "check" /\ (Takes(t) \/ TakesUp(t))
       /\ \A u \in Threads \ {t} : cur'[u] = cur[u]
       /\ UNCHANGED <<destVars, retries>>
    \/ cur'[t] = cur[t] /\ Submits(t)
    \/ /\ t = CantonToEth /\ cur'[t] = cur[t]
       /\ pc[t] = "ok" /\ pc'[t] = "hook" /\ UNCHANGED destVars

\* The steps of SubmitTransfer move one thread and keep its event.
LEMMA SubmitMoves ==
    ASSUME TypeInv, NEW t \in Threads, SubmitStep(t)
    PROVE  Submits(t) /\ cur' = cur /\ \A u \in Threads \ {t} : pc'[u] = pc[u]
<1> USE DEF TypeInv, TypeOK
<1>1. CASE CheckProcessed(t)
  BY <1>1, Zenon DEF CheckProcessed, Submits, SubmitFrame, Goto
<1>2. CASE SubmitCreate(t)
  BY <1>2, Zenon DEF SubmitCreate, Calls, Submits, SubmitFrame, Goto
<1>3. CASE SubmitMint(t)
  BY <1>3, Zenon DEF SubmitMint, Calls, Submits, SubmitFrame, Goto
<1>4. CASE SubmitSend(t)
  BY <1>4, Zenon DEF SubmitSend, Calls, Submits, SubmitFrame, Goto
<1> QED  BY <1>1, <1>2, <1>3, <1>4, Zenon DEF SubmitStep

\* Every step of the relayer is one of these for the destinations.
LEMMA NextDest ==
    ASSUME TypeInv, [Next]_vars PROVE DestSteps
<1>1. CASE Start \/ Crash \/ Environment \/ SourceFails \/ UNCHANGED vars
  BY <1>1, Zenon DEF Start, Crash, Environment, SourceFails, vars, destVars, DestSteps
<1>2. ASSUME NEW d \in Dirs, SourceStep(d) \/ ProcessorStep(d) PROVE DestSteps
  <2>1. CASE PostSubmit(d)
    BY <2>1, Zenon DEF PostSubmit, DestSteps, Threads
  <2>2. CASE ~PostSubmit(d)
    BY Zenon, <1>2, <2>2 DEF SourceStep, ProcessorStep, ReceiveCheckpoint, ReceiveNew, ReceiveKnown,
       ReceiveInsertFails, Receives, ProcessorFailed, ProcessorSkipped, ProcessorDone,
       PersistOffset, DestSteps
  <2> QED  BY <2>1, <2>2, Zenon
<1>3. ASSUME NEW t \in Threads, SubmitStep(t) PROVE DestSteps
  <2>1. pc[t] = "create" => pc'[t] # "create"
    BY <1>3, SubmitMoves, Zenon DEF Submits
  <2> QED
    BY Zenon, <1>3, <2>1 DEF SubmitStep, CheckProcessed, SubmitCreate, SubmitMint, SubmitSend, Calls, DestSteps
<1>4. CASE ReconcilerStep
  BY Zenon, <1>4 DEF ReconcilerStep, SelectWithdrawals, SelectDeposits, GiveUp, NotYet, Retry, TurnsTo,
     RetryFailed, RetryDone, DestSteps
<1> QED  BY <1>1, <1>2, <1>3, <1>4, Zenon DEF Next

\* Every step of the relayer is one of these for each thread.
LEMMA NextMoves ==
    ASSUME TypeInv, Quiet, [Next]_vars, NEW t \in Threads PROVE Moves(t)
<1>0. /\ pc \in [Threads -> Labels] /\ cur \in [Threads -> Events \cup {NoEvent}]
      /\ Dirs \subseteq Threads /\ Reconciler \in Threads /\ NoEvent \notin Events
      /\ \A d \in Dirs : d # Reconciler
      /\ pc[t] \in Resting => cur[t] = NoEvent
  BY EventsAssumption, Zenon DEF TypeInv, TypeOK, Threads, NoEvent, Dirs, EthToCanton, CantonToEth,
     Reconciler, Quiet
<1>1. CASE Crash
  BY <1>1, Zenon DEF Crash, Moves, Resting
<1>2. CASE Start \/ Environment \/ SourceFails \/ UNCHANGED vars
  BY <1>2, Zenon DEF Start, Environment, SourceFails, procVars, vars, Moves
<1>3. ASSUME NEW d \in Dirs, SourceStep(d) PROVE Moves(t)
  BY <1>3, Zenon DEF SourceStep, procVars, Moves
<1>4. ASSUME NEW d \in Dirs, ProcessorStep(d) PROVE Moves(t)
  <2>1. CASE ReceiveCheckpoint(d) \/ ReceiveKnown(d) \/ ReceiveInsertFails(d)
    BY <1>0, <2>1, Zenon DEF ReceiveCheckpoint, ReceiveKnown, ReceiveInsertFails, Receives, Goto, Moves, Resting
  <2>2. CASE ReceiveNew(d)
    <3>1. /\ Receives(d) /\ Head(queue[d]).ev # NoEvent
          /\ pc[d] = "idle"
          /\ pc' = [pc EXCEPT ![d] = "check"] /\ cur' = [cur EXCEPT ![d] = Head(queue[d]).ev]
          /\ status[Head(queue[d]).ev] = "absent"
          /\ status' = [status EXCEPT ![Head(queue[d]).ev] = "pending"]
          /\ UNCHANGED <<destVars, retries>>
      BY <2>2, Zenon DEF ReceiveNew, Receives, Goto
    <3>2. CASE t = d
      BY <1>0, <3>1, <3>2, Zenon DEF Moves, Takes
    <3>3. CASE t # d
      BY <1>0, <3>1, <3>3, Zenon DEF Moves
    <3> QED  BY <3>2, <3>3, Zenon
  <2>3. CASE ProcessorFailed(d) \/ ProcessorSkipped(d) \/ PostSubmit(d)
    BY <1>0, <2>3, Zenon DEF ProcessorFailed, ProcessorSkipped, PostSubmit, Goto, Release, Moves, Resting
  <2>4. CASE ProcessorDone(d)
    BY <1>0, <2>4, Zenon DEF ProcessorDone, Goto, Release, Moves, Resting
  <2>5. CASE PersistOffset(d)
    BY <1>0, <2>5, Zenon DEF PersistOffset, Goto, Moves, Resting
  <2> QED  BY <1>4, <2>1, <2>2, <2>3, <2>4, <2>5, Zenon DEF ProcessorStep
<1>5. ASSUME NEW u \in Threads, SubmitStep(u) PROVE Moves(t)
  BY <1>5, SubmitMoves, Zenon DEF Moves
<1>6. CASE ReconcilerStep
  <2>1. CASE SelectWithdrawals \/ SelectDeposits
    BY <1>0, <2>1, Zenon DEF SelectWithdrawals, SelectDeposits, Goto, Moves, Resting
  <2>2. CASE \E e \in Events : GiveUp(e) \/ NotYet(e)
    BY <2>2, Zenon DEF GiveUp, NotYet, Moves
  <2>3. ASSUME NEW e \in Events, Retry(e) PROVE Moves(t)
    <3>1. PICK n \in {x[2] : x \in snap} :
            /\ <<e, n>> \in snap /\ snap' = snap \ {<<e, n>>}
            /\ pc[Reconciler] = "idle"
            /\ SlowSubmit \/ ~InFlight(e)
            /\ pc' = [pc EXCEPT ![Reconciler] = "check"]
            /\ cur' = [cur EXCEPT ![Reconciler] = e]
            /\ UNCHANGED <<status, destVars, retries>>
      BY Zenon, <2>3 DEF Retry, TurnsTo, Goto
    <3>2. n \in Nat
      BY <3>1, Zenon DEF TypeInv, TypeOK
    <3>3. CASE t = Reconciler
      BY <1>0, <3>1, <3>2, <3>3, Zenon DEF Moves, TakesUp
    <3>4. CASE t # Reconciler
      BY <1>0, <3>1, <3>4, Zenon DEF Moves
    <3> QED  BY <3>3, <3>4, Zenon
  <2>4. CASE RetryFailed \/ RetryDone
    BY <1>0, <2>4, Zenon DEF RetryFailed, RetryDone, Goto, Release, Moves, Resting
  <2> QED  BY <1>6, <2>1, <2>2, <2>3, <2>4, Zenon DEF ReconcilerStep
<1> QED  BY <1>1, <1>2, <1>3, <1>4, <1>5, <1>6, Zenon DEF Next

\* Who writes a row: the processor that records it, the thread that submitted
\* it, and the reconciler when it gives up.  Nobody does so in a step that
\* changes a destination.
RowSteps ==
    \/ UNCHANGED status
    \/ /\ UNCHANGED destVars
       /\ \/ \E e \in Events : /\ status[e] = "absent"
                               /\ status' = [status EXCEPT ![e] = "pending"]
          \/ \E t \in Threads : /\ pc[t] \in {"ok", "skipped"}
                                /\ pc'[t] = "hook" \/ cur'[t] = NoEvent
                                /\ status' = [status EXCEPT ![cur[t]] = "completed"]
          \/ \E d \in Dirs : /\ pc[d] = "err"
                             /\ status' = [status EXCEPT ![cur[d]] = "pending"]
          \/ \E x \in snap : /\ Exhausted(x[2]) /\ snap' = snap \ {x}
                             /\ status' = [status EXCEPT ![x[1]] = "failed"]

\* Every step of the relayer is one of these for the rows.
LEMMA NextRows ==
    ASSUME TypeInv, [Next]_vars PROVE RowSteps
<1>0. /\ Dirs \subseteq Threads /\ Reconciler \in Threads /\ status \in [Events -> Statuses]
      /\ pc \in [Threads -> Labels] /\ cur \in [Threads -> Events \cup {NoEvent}]
  BY Zenon DEF Threads, TypeInv, TypeOK
<1>1. CASE Start \/ Crash \/ Environment \/ SourceFails \/ UNCHANGED vars
  BY <1>1, Zenon DEF Start, Crash, Environment, SourceFails, vars, rowVars, RowSteps
<1>2. ASSUME NEW d \in Dirs, SourceStep(d) PROVE RowSteps
  BY <1>2, Zenon DEF SourceStep, rowVars, RowSteps
<1>3. ASSUME NEW d \in Dirs, ProcessorStep(d) PROVE RowSteps
  <2>1. CASE ReceiveCheckpoint(d) \/ ReceiveKnown(d) \/ PostSubmit(d) \/ PersistOffset(d)
    BY <2>1, Zenon DEF ReceiveCheckpoint, ReceiveKnown, PostSubmit, PersistOffset, rowVars, RowSteps
  <2>2. CASE ReceiveNew(d) \/ ReceiveInsertFails(d)
    <3>1. Receives(d) /\ Head(queue[d]).ev # NoEvent /\ UNCHANGED destVars
      BY <2>2, Zenon DEF ReceiveNew, ReceiveInsertFails, Receives
    <3>2. Head(queue[d]).ev \in Events
      BY <3>1, HeadItem, Zenon DEF Receives, TypeInv, TypeOK
    <3>3. CASE ReceiveNew(d)
      BY <3>1, <3>2, <3>3, Zenon DEF ReceiveNew, RowSteps
    <3>4. CASE ReceiveInsertFails(d)
      <4>1. CASE status[Head(queue[d]).ev] = "absent"
        BY <3>1, <3>2, <3>4, <4>1, Zenon DEF ReceiveInsertFails, RowSteps
      <4>2. CASE status[Head(queue[d]).ev] # "absent"
        <5>1. status' = status
          BY <1>0, <3>2, <3>4, <4>2, Zenon DEF ReceiveInsertFails
        <5> QED  BY <5>1, Zenon DEF RowSteps
      <4> QED  BY <4>1, <4>2, Zenon
    <3> QED  BY <2>2, <3>3, <3>4, Zenon
  <2>3. CASE ProcessorFailed(d)
    BY <2>3, Zenon DEF ProcessorFailed, UpdateStatus, RowSteps
  <2>4. CASE ProcessorSkipped(d) \/ ProcessorDone(d)
    BY <1>0, <2>4, Zenon DEF ProcessorSkipped, ProcessorDone, UpdateStatus, Goto, Release, RowSteps
  <2> QED  BY <1>3, <2>1, <2>2, <2>3, <2>4, Zenon DEF ProcessorStep
<1>4. ASSUME NEW t \in Threads, SubmitStep(t) PROVE RowSteps
  BY <1>4, Zenon DEF SubmitStep, CheckProcessed, SubmitCreate, SubmitMint, SubmitSend, SubmitFrame,
     rowVars, RowSteps
<1>5. CASE ReconcilerStep
  <2>1. CASE SelectWithdrawals \/ SelectDeposits \/ RetryFailed
    BY <2>1, Zenon DEF SelectWithdrawals, SelectDeposits, RetryFailed, rowVars, RowSteps
  <2>2. CASE \E e \in Events : NotYet(e) \/ Retry(e)
    BY <2>2, Zenon DEF NotYet, Retry, RowSteps
  <2>3. ASSUME NEW e \in Events, GiveUp(e) PROVE RowSteps
    <3>1. PICK n \in {x[2] : x \in snap} :
            TurnsTo(e, n) /\ Exhausted(n) /\ UpdateStatus(e, "failed")
      BY <2>3, Zenon DEF GiveUp
    <3> DEFINE x == <<e, n>>
    <3>2. /\ x \in snap /\ x[1] = e /\ x[2] = n /\ snap' = snap \ {x} /\ UNCHANGED destVars
      BY <3>1, Zenon DEF TurnsTo
    <3>3. UNCHANGED status \/ status' = [status EXCEPT ![x[1]] = "failed"]
      BY <3>1, <3>2, Zenon DEF UpdateStatus
    <3> QED  BY <3>1, <3>2, <3>3, Zenon DEF RowSteps
  <2>4. CASE RetryDone
    BY <1>0, <2>4, Zenon DEF RetryDone, UpdateStatus, Release, RowSteps
  <2> QED  BY <1>5, <2>1, <2>2, <2>3, <2>4, Zenon DEF ReconcilerStep
<1> QED  BY <1>1, <1>2, <1>3, <1>4, <1>5, Zenon DEF Next

\* Only the reconciler counts attempts and takes snapshots.
RetrySteps ==
    \/ UNCHANGED retries
    \/ pc[Reconciler] = "err" /\ retries' = [retries EXCEPT ![cur[Reconciler]] = @ + 1]

SnapSteps ==
    \/ snap' \subseteq snap /\ (pc'[Reconciler] = "select" => pc[Reconciler] = "select")
    \/ /\ pc[Reconciler] \in Resting /\ UNCHANGED <<status, retries, cur>>
       /\ \/ snap' = PendingTransfers(CantonToEth)
          \/ /\ pc[Reconciler] = "select" /\ pc'[Reconciler] = "idle"
             /\ snap' = snap \cup PendingTransfers(EthToCanton)

\* Every step of the relayer is one of these for counts and snapshot.
LEMMA NextRetries ==
    ASSUME TypeInv, [Next]_vars PROVE RetrySteps /\ SnapSteps
<1>0. /\ pc \in [Threads -> Labels] /\ Dirs \subseteq Threads /\ Reconciler \in Threads
      /\ \A d \in Dirs : d # Reconciler
  BY Zenon DEF TypeInv, TypeOK, Threads, Dirs, EthToCanton, CantonToEth, Reconciler
<1>1. CASE Start \/ Environment \/ SourceFails \/ UNCHANGED vars
  BY <1>1, Zenon DEF Start, Environment, SourceFails, procVars, rowVars, vars, RetrySteps, SnapSteps
<1>2. CASE Crash
  BY <1>0, <1>2, Zenon DEF Crash, rowVars, RetrySteps, SnapSteps
<1>3. ASSUME NEW d \in Dirs, SourceStep(d) PROVE RetrySteps /\ SnapSteps
  BY <1>3, Zenon DEF SourceStep, procVars, rowVars, RetrySteps, SnapSteps
<1>4. ASSUME NEW d \in Dirs, ProcessorStep(d) PROVE RetrySteps /\ SnapSteps
  <2>1. CASE ReceiveCheckpoint(d) \/ ReceiveNew(d) \/ ReceiveKnown(d) \/ ReceiveInsertFails(d)
    BY <1>0, <2>1, Zenon DEF ReceiveCheckpoint, ReceiveNew, ReceiveKnown, ReceiveInsertFails, Receives,
       Goto, rowVars, RetrySteps, SnapSteps
  <2>2. CASE \/ ProcessorFailed(d) \/ ProcessorSkipped(d) \/ ProcessorDone(d)
             \/ PostSubmit(d) \/ PersistOffset(d)
    BY <1>0, <2>2, Zenon DEF ProcessorFailed, ProcessorSkipped, ProcessorDone, PostSubmit, PersistOffset,
       ProcessorFrame, Goto, RetrySteps, SnapSteps
  <2> QED  BY <1>4, <2>1, <2>2, Zenon DEF ProcessorStep
<1>5. ASSUME NEW t \in Threads, SubmitStep(t) PROVE RetrySteps /\ SnapSteps
  <2>1. UNCHANGED <<retries, snap>>
    BY <1>5, Zenon DEF SubmitStep, CheckProcessed, SubmitCreate, SubmitMint, SubmitSend, SubmitFrame, rowVars
  <2>2. pc'[t] # "select" /\ \A u \in Threads \ {t} : pc'[u] = pc[u]
    BY <1>5, SubmitMoves, Zenon DEF Submits, FirstCall
  <2> QED  BY <1>0, <2>1, <2>2, Zenon DEF RetrySteps, SnapSteps
<1>6. CASE ReconcilerStep
  <2>1. CASE SelectWithdrawals
    BY <1>0, <2>1, Zenon DEF SelectWithdrawals, rowVars, RetrySteps, SnapSteps, Resting
  <2>2. CASE SelectDeposits
    BY <1>0, <2>2, Zenon DEF SelectDeposits, Goto, rowVars, RetrySteps, SnapSteps, Resting
  <2>3. ASSUME NEW e \in Events, GiveUp(e) \/ NotYet(e) \/ Retry(e)
        PROVE  RetrySteps /\ SnapSteps
    <3>1. UNCHANGED retries /\ snap' \subseteq snap
      BY Zenon, <2>3 DEF GiveUp, NotYet, Retry, TurnsTo
    <3>2. pc' = pc \/ pc' = [pc EXCEPT ![Reconciler] = "check"]
      BY Zenon, <2>3 DEF GiveUp, NotYet, Retry, Goto
    <3> QED  BY <1>0, <3>1, <3>2, Zenon DEF RetrySteps, SnapSteps
  <2>4. CASE RetryFailed
    BY <1>0, <2>4, Zenon DEF RetryFailed, IncrementRetryCount, Goto, RetrySteps, SnapSteps
  <2>5. CASE RetryDone
    BY <1>0, <2>5, Zenon DEF RetryDone, Goto, RetrySteps, SnapSteps
  <2> QED  BY <1>6, <2>1, <2>2, <2>3, <2>4, <2>5, Zenon DEF ReconcilerStep
<1> QED  BY <1>1, <1>2, <1>3, <1>4, <1>5, <1>6, Zenon DEF Next

\* Commands on Canton for the deposit e that took effect.
Total(e) == pendingDep[e] + minted[e]

\* What CompletedHasTrace asks of one event.
Traced(e) == IF DirOf[e] = EthToCanton THEN IsDepositProcessed(e) ELSE evmSent[e] > 0

\* Traces are not lost: a command on Canton replaces one contract by another,
\* and a transaction that a node accepted stays accepted.
LEMMA TracesStay ==
    ASSUME TypeInv, [Next]_vars
    PROVE  \A e \in Events :
             /\ Total(e) \in Nat /\ Total(e)' \in Nat /\ Total(e)' >= Total(e)
             /\ evmSent[e] \in Nat /\ evmSent'[e] \in Nat /\ evmSent'[e] >= evmSent[e]
             /\ Traced(e) => Traced(e)'
<1>0. TypeInv'
  BY NextTyped, Zenon
<1>1. ASSUME NEW e \in Events
      PROVE  /\ pendingDep[e] \in Nat /\ minted[e] \in Nat /\ evmSent[e] \in Nat
             /\ pendingDep'[e] \in Nat /\ minted'[e] \in Nat /\ evmSent'[e] \in Nat
  BY <1>0, Zenon DEF TypeInv, TypeOK, DestTypeOK
<1>2. ASSUME NEW e \in Events
      PROVE  pendingDep'[e] + minted'[e] >= pendingDep[e] + minted[e] /\ evmSent'[e] >= evmSent[e]
  <2>0. /\ pendingDep \in [Events -> Nat] /\ minted \in [Events -> Nat] /\ evmSent \in [Events -> Nat]
        /\ \A t \in Threads : pc[t] \notin Resting => cur[t] \in Events
    BY Zenon DEF TypeInv, TypeOK, DestTypeOK, Busy, Resting
  <2>1. CASE UNCHANGED destVars \/ EvmStep \/ \E t \in Threads : CompleteWithdrawal(cur[t])
    BY <1>1, <2>1 DEF destVars, EvmStep, EvmMine, EvmDrop, CompleteWithdrawal, cantonVars, evmVars
  <2>2. ASSUME NEW t \in Threads, pc[t] = "create", CreatePendingDeposit(cur[t])
        PROVE  pendingDep'[e] + minted'[e] >= pendingDep[e] + minted[e] /\ evmSent'[e] >= evmSent[e]
    BY <1>1, <2>0, <2>2 DEF CreatePendingDeposit, evmVars
  <2>3. ASSUME NEW t \in Threads, pc[t] = "mint", ProcessDepositAndMint(cur[t])
        PROVE  pendingDep'[e] + minted'[e] >= pendingDep[e] + minted[e] /\ evmSent'[e] >= evmSent[e]
    BY <1>1, <2>0, <2>3 DEF ProcessDepositAndMint, evmVars
  <2>4. ASSUME NEW t \in Threads, pc[t] = "send", WithdrawFromCanton(cur[t])
        PROVE  pendingDep'[e] + minted'[e] >= pendingDep[e] + minted[e] /\ evmSent'[e] >= evmSent[e]
    BY <1>1, <2>0, <2>4 DEF WithdrawFromCanton, cantonVars
  <2> QED  BY <2>1, <2>2, <2>3, <2>4, NextDest, Zenon DEF DestSteps
<1>3. ASSUME NEW e \in Events, IsDepositProcessed(e) PROVE IsDepositProcessed(e)'
  <2>1. PICK f \in EventsOf(EthToCanton) :
          TxOf[f] = TxOf[e] /\ (pendingDep[f] > 0 \/ minted[f] > 0)
    BY <1>3, Zenon DEF IsDepositProcessed
  <2>2. pendingDep'[f] > 0 \/ minted'[f] > 0
    BY <1>1, <1>2, <2>1 DEF EventsOf
  <2> QED  BY <2>1, <2>2, Zenon DEF IsDepositProcessed
<1>4. ASSUME NEW e \in Events, Traced(e) PROVE Traced(e)'
  <2>1. CASE DirOf[e] = EthToCanton
    BY <1>3, <1>4, <2>1, Zenon DEF Traced
  <2>2. CASE DirOf[e] # EthToCanton
    BY <1>1, <1>2, <1>4, <2>2 DEF Traced
  <2> QED  BY <2>1, <2>2, Zenon
<1> QED  BY <1>1, <1>2, <1>4 DEF Total

-----------------------------------------------------------------------------
(* What has to hold for no event to be lost silently. *)

\* The event has a row, or one of the named reasons why it has none applies.
Covered(e) ==
    status[e] # "absent" \/ e \in insertFailed \/ e \in startedPast \/ ~Sole(e)

\* The event is among the first n items of its channel.
Buffered(e, n) == \E i \in 1 .. n : queue[DirOf[e]][i].ev = e

Delivered(e) == Covered(e) \/ Buffered(e, Len(queue[DirOf[e]]))

\* What the channel of d holds are events of d, with their positions.
QueueItems ==
    \A d \in Dirs : \A i \in 1 .. Len(queue[d]) :
        queue[d][i].ev # NoEvent =>
            /\ queue[d][i].ev \in EventsOf(d)
            /\ queue[d][i].pos = PosOf[queue[d][i].ev]

\* An item of the channel comes after every event up to its position.
QueueOrder ==
    \A e \in Events : \A i \in 1 .. Len(queue[DirOf[e]]) :
        PosOf[e] <= queue[DirOf[e]][i].pos => Covered(e) \/ Buffered(e, i)

\* Everything up to the cursor, and what the open slice has sent, is delivered.
ScanProgress ==
    \A e \in Events :
        /\ PosOf[e] <= cursor[DirOf[e]] => Delivered(e)
        /\ PosOf[e] <= upto[DirOf[e]] /\ e <= sent[DirOf[e]] => Delivered(e)

\* Between slices nothing of a slice counts as sent.
SliceClosed == \A d \in Dirs : upto[d] = cursor[d] => sent[d] = NoEvent

\* The position a processor is about to persist passes no uncovered event.
PosCovered == \A e \in Events : PosOf[e] <= pos[DirOf[e]] => Covered(e)

StoredCovered == \A e \in Events : Passed(e) => Covered(e)

OffsetInv ==
    /\ TypeInv
    /\ QueueItems
    /\ QueueOrder
    /\ ScanProgress
    /\ SliceClosed
    /\ PosCovered
    /\ StoredCovered

\* A row never disappears and the reasons for a missing one are not forgotten.
LEMMA CoveredStable ==
    ASSUME TypeInv, [Next]_vars
    PROVE  \A e \in Events : Covered(e) => Covered(e)'
<1> SUFFICES ASSUME NEW e \in Events
             PROVE  /\ status[e] # "absent" => status'[e] # "absent"
                    /\ insertFailed \subseteq insertFailed'
                    /\ startedPast \subseteq startedPast'
  BY Zenon DEF Covered
<1> USE DEF TypeInv, TypeOK, rowVars, history
<1>1. CASE Start
  BY <1>1, Zenon DEF Start
<1>2. CASE Crash
  BY <1>2, Zenon DEF Crash
<1>3. CASE Environment
  BY <1>3, Zenon DEF Environment
<1>4. CASE SourceFails
  BY <1>4, Zenon DEF SourceFails
<1>5. ASSUME NEW d \in Dirs, SourceStep(d) \/ ProcessorStep(d)
      PROVE  /\ status[e] # "absent" => status'[e] # "absent"
             /\ insertFailed \subseteq insertFailed'
             /\ startedPast \subseteq startedPast'
  <2>1. CASE SourceStep(d)
    BY <2>1, Zenon DEF SourceStep
  <2>2. CASE ReceiveCheckpoint(d) \/ ReceiveNew(d) \/ ReceiveKnown(d)
    BY <2>2, Zenon DEF ReceiveCheckpoint, ReceiveNew, ReceiveKnown, Receives
  <2>3. CASE ReceiveInsertFails(d)
    BY <2>3, Zenon DEF ReceiveInsertFails, Receives
  <2>4. CASE ProcessorFailed(d) \/ ProcessorSkipped(d) \/ ProcessorDone(d)
    BY <2>4, Zenon DEF ProcessorFailed, ProcessorSkipped, ProcessorDone, UpdateStatus, ProcessorFrame
  <2>5. CASE PostSubmit(d) \/ PersistOffset(d)
    BY <2>5, Zenon DEF PostSubmit, PersistOffset, ProcessorFrame
  <2> QED
    BY <1>5, <2>1, <2>2, <2>3, <2>4, <2>5, Zenon DEF ProcessorStep
<1>6. CASE \E t \in Threads : SubmitStep(t)
  BY <1>6, Zenon DEF SubmitStep, CheckProcessed, SubmitCreate, SubmitMint, SubmitSend, SubmitFrame
<1>7. CASE ReconcilerStep
  <2>1. CASE SelectWithdrawals \/ SelectDeposits
    BY <2>1, Zenon DEF SelectWithdrawals, SelectDeposits, ReconcileFrame
  <2>2. CASE \E f \in Events : GiveUp(f) \/ NotYet(f) \/ Retry(f)
    BY Zenon, <2>2 DEF GiveUp, NotYet, Retry, TurnsTo, UpdateStatus, ReconcileFrame
  <2>3. CASE RetryFailed \/ RetryDone
    BY <2>3, Zenon DEF RetryFailed, RetryDone, UpdateStatus, ReconcileFrame
  <2> QED
    BY <1>7, <2>1, <2>2, <2>3, Zenon DEF ReconcilerStep
<1>8. CASE UNCHANGED vars
  BY <1>8, Zenon DEF vars
<1> QED
  BY <1>1, <1>2, <1>3, <1>4, <1>5, <1>6, <1>7, <1>8, Zenon DEF Next

\* Events and their positions are positive numbers.
LEMMA EventNumbers ==
    \A e \in Events : e \in Nat \ {0} /\ PosOf[e] \in Nat \ {0} /\ DirOf[e] \in Dirs
BY Zenon, EventsAssumption

\* So are the numbers the sources keep, but for 0.
LEMMA StreamNumbers ==
    ASSUME TypeInv, NEW d \in Dirs
    PROVE  cursor[d] \in Nat /\ upto[d] \in Nat /\ sent[d] \in Nat
<1>1. cursor[d] \in Nat /\ upto[d] \in Nat /\ sent[d] \in Events \cup {NoEvent}
  BY Zenon DEF TypeInv, TypeOK, SourceTypeOK
<1> QED
  BY <1>1, EventNumbers DEF NoEvent

\* A step that leaves the streams alone, and moves positions only as
\* persistOffset does, keeps the invariant.
LEMMA OffsetFrame ==
    ASSUME OffsetInv, TypeInv', \A e \in Events : Covered(e) => Covered(e)',
           UNCHANGED streamVars,
           \A d \in Dirs : pos'[d] \in {pos[d], 0},
           \A d \in Dirs : stored'[d] \in {stored[d], pos[d]}
    PROVE  OffsetInv'
<1>1. /\ UNCHANGED <<cursor, upto, sent, queue>>
      /\ \A e \in Events : Delivered(e) => Delivered(e)'
      /\ \A e \in Events, n \in Nat : Buffered(e, n) <=> Buffered(e, n)'
  BY Zenon DEF streamVars, Delivered, Buffered
<1>2. QueueItems' /\ SliceClosed'
  BY <1>1, Zenon DEF OffsetInv, QueueItems, SliceClosed
<1>3. QueueOrder'
  BY SMTT(30), <1>1 DEF OffsetInv, QueueOrder, Buffered
<1>4. ScanProgress'
  BY <1>1, Zenon DEF OffsetInv, ScanProgress
<1>5. ASSUME NEW e \in Events PROVE DirOf[e] \in Dirs /\ PosOf[e] \in Nat \ {0}
  BY EventsAssumption, Zenon
<1>6. PosCovered'
  BY <1>5 DEF OffsetInv, PosCovered
<1>7. StoredCovered'
  <2> SUFFICES ASSUME NEW e \in Events, Passed(e)' PROVE Covered(e)'
    BY Zenon DEF StoredCovered
  <2>1. PosOf[e] <= stored[DirOf[e]] \/ PosOf[e] <= pos[DirOf[e]]
    BY <1>5, Zenon DEF Passed
  <2> QED
    BY <2>1, Zenon DEF OffsetInv, StoredCovered, PosCovered, Passed
<1> QED
  BY <1>2, <1>3, <1>4, <1>6, <1>7, Zenon DEF OffsetInv

\* When every event of the slice is sent, everything up to its end is delivered.
LEMMA SliceDone ==
    ASSUME OffsetInv, NEW d \in Dirs, Unsent(d) = {},
           NEW e \in EventsOf(d), PosOf[e] <= upto[d]
    PROVE  Delivered(e)
<1>0. e \in Events /\ DirOf[e] = d
  BY Zenon DEF EventsOf
<1>1. /\ PosOf[e] \in Nat /\ e \in Nat
      /\ cursor[d] \in Nat /\ sent[d] \in Nat
  BY <1>0, EventNumbers, StreamNumbers, Zenon DEF OffsetInv
<1>2. PosOf[e] <= cursor[d] \/ e <= sent[d]
  BY <1>0, <1>1 DEF Unsent, EventsOf
<1> QED
  BY <1>0, <1>2, Zenon DEF OffsetInv, ScanProgress

\* Adding an item at the end of a channel loses nothing that is in it.
LEMMA AppendDelivers ==
    ASSUME TypeInv, \A e \in Events : Covered(e) => Covered(e)',
           NEW d \in Dirs, NEW it \in Item,
           queue' = [queue EXCEPT ![d] = Append(@, it)]
    PROVE  /\ Len(queue'[d]) = Len(queue[d]) + 1
           /\ queue'[d][Len(queue[d]) + 1] = it
           /\ \A i \in 1 .. Len(queue[d]) : queue'[d][i] = queue[d][i]
           /\ \A c \in Dirs : c # d => queue'[c] = queue[c]
           /\ \A e \in Events : Delivered(e) => Delivered(e)'
           /\ Len(queue[d]) \in Nat
<1>1. queue[d] \in Seq(Item) /\ queue'[d] = Append(queue[d], it)
  BY Zenon DEF TypeInv, TypeOK, SourceTypeOK
<1>2. /\ Len(queue'[d]) = Len(queue[d]) + 1
      /\ queue'[d][Len(queue[d]) + 1] = it
      /\ \A i \in 1 .. Len(queue[d]) : queue'[d][i] = queue[d][i]
      /\ Len(queue[d]) \in Nat
  BY <1>1
<1>3. \A c \in Dirs : c # d => queue'[c] = queue[c]
  BY Zenon DEF TypeInv, TypeOK, SourceTypeOK
<1>4. ASSUME NEW e \in Events, Delivered(e) PROVE Delivered(e)'
  <2>1. CASE Covered(e)
    BY <2>1, Zenon DEF Delivered
  <2>2. CASE Buffered(e, Len(queue[DirOf[e]]))
    <3>1. PICK i \in 1 .. Len(queue[DirOf[e]]) : queue[DirOf[e]][i].ev = e
      BY <2>2, Zenon DEF Buffered
    <3>2. /\ DirOf[e] \in Dirs
          /\ i \in 1 .. Len(queue'[DirOf[e]])
          /\ queue'[DirOf[e]][i] = queue[DirOf[e]][i]
      BY <1>2, <1>3, <3>1, EventsAssumption
    <3> QED
      BY <3>1, <3>2, Zenon DEF Delivered, Buffered
  <2> QED
    BY <1>4, <2>1, <2>2, Zenon DEF Delivered
<1> QED
  BY <1>2, <1>3, <1>4, Zenon


-----------------------------------------------------------------------------
(* No event is lost silently. *)

\* Opening a slice, by polling or by a transaction of the update stream.
LEMMA SliceOpens ==
    ASSUME NEW d \in Dirs, NEW u \in Nat,
           OffsetInv, TypeInv', \A e \in Events : Covered(e) => Covered(e)',
           UNCHANGED <<pos, stored>>,
           upto[d] = cursor[d], upto' = [upto EXCEPT ![d] = u],
           UNCHANGED <<cursor, sent, queue>>
    PROVE  OffsetInv'
<1> USE DEF OffsetInv
<1>a. TypeInv /\ EthToCanton \in Dirs /\ CantonToEth \in Dirs /\ EthToCanton # CantonToEth
  BY Zenon DEF Dirs, EthToCanton, CantonToEth
<1>b. PosCovered' /\ StoredCovered'
  BY Zenon DEF PosCovered, StoredCovered, Passed
<1>1. sent[d] = NoEvent /\ \A e \in Events : Delivered(e) => Delivered(e)'
  BY Zenon DEF SliceClosed, Delivered, Buffered
<1>2. \A c \in Dirs : c # d => upto'[c] = upto[c]
  BY <1>a, Zenon DEF TypeInv, TypeOK, SourceTypeOK
<1>3. QueueItems' /\ SliceClosed'
  BY <1>1, <1>2, Zenon DEF QueueItems, SliceClosed
<1>4. QueueOrder'
  BY Zenon DEF QueueOrder, Buffered
<1>5. ScanProgress'
  BY <1>1, <1>2, EventNumbers DEF ScanProgress, NoEvent
<1> QED
  BY <1>b, <1>3, <1>4, <1>5, Zenon

\* An event enters its queue after every event up to its position.
LEMMA EmitKeepsOrder ==
    ASSUME NEW d \in Dirs, OffsetInv, TypeInv', \A e \in Events : Covered(e) => Covered(e)',
           UNCHANGED <<pos, stored>>,
           EmitEvent(d)
    PROVE  OffsetInv'
<1> USE DEF OffsetInv
<1>a. TypeInv /\ EthToCanton \in Dirs /\ CantonToEth \in Dirs /\ EthToCanton # CantonToEth
  BY Zenon DEF Dirs, EthToCanton, CantonToEth
<1>b. PosCovered' /\ StoredCovered'
  BY Zenon DEF PosCovered, StoredCovered, Passed
<1>1. PICK x \in Unsent(d) :
         /\ \A f \in Unsent(d) : x <= f
         /\ queue' = [queue EXCEPT ![d] = Append(@, [ev |-> x, pos |-> PosOf[x]])]
         /\ sent' = [sent EXCEPT ![d] = x]
  BY Zenon DEF EmitEvent
<1>2. /\ x \in Events /\ DirOf[x] = d /\ x \in EventsOf(d)
      /\ cursor[d] < PosOf[x] /\ PosOf[x] <= upto[d] /\ sent[d] < x
      /\ PosOf[x] \in Nat /\ x \in Nat
  BY EventNumbers, Zenon DEF Unsent, EventsOf
<1> DEFINE it == [ev |-> x, pos |-> PosOf[x]]
<1>3. it \in Item /\ it.ev = x /\ it.pos = PosOf[x]
  BY <1>2, Zenon DEF Item
<1>4. /\ Len(queue'[d]) = Len(queue[d]) + 1
      /\ queue'[d][Len(queue[d]) + 1] = it
      /\ \A i \in 1 .. Len(queue[d]) : queue'[d][i] = queue[d][i]
      /\ \A c \in Dirs : c # d => queue'[c] = queue[c]
      /\ \A e \in Events : Delivered(e) => Delivered(e)'
      /\ Len(queue[d]) \in Nat
  BY Zenon, <1>a, <1>1, <1>3, AppendDelivers
<1>5. UNCHANGED <<cursor, upto>> /\ \A c \in Dirs : c # d => sent'[c] = sent[c]
  BY <1>1, Zenon DEF EmitEvent, TypeInv, TypeOK, SourceTypeOK
<1>6. sent'[d] = x
  BY <1>1, Zenon DEF TypeInv, TypeOK, SourceTypeOK
<1>7. /\ \A n \in Nat : n = Len(queue[d]) + 1 => Buffered(x, n)'
      /\ Delivered(x)'
  <2>1. /\ Len(queue'[d]) \in 1 .. Len(queue'[d])
        /\ queue'[d][Len(queue'[d])].ev = x
    BY <1>3, <1>4
  <2> QED
    BY Zenon, <1>2, <1>4, <2>1 DEF Buffered, Delivered
<1>8. ASSUME NEW e \in EventsOf(d), e # x, PosOf[e] <= PosOf[x] \/ e <= x,
             PosOf[e] <= upto[d]
      PROVE  Delivered(e) \/ Covered(e)
  <2>1. /\ e \in Events /\ DirOf[e] = d /\ e \in Nat /\ PosOf[e] \in Nat
        /\ cursor[d] \in Nat /\ sent[d] \in Nat
    BY <1>a, EventNumbers, StreamNumbers, Zenon DEF EventsOf
  <2>2. CASE PosOf[e] <= cursor[d] \/ e <= sent[d]
    BY <1>8, <2>1, <2>2, Zenon DEF ScanProgress
  <2>3. CASE ~(PosOf[e] <= cursor[d] \/ e <= sent[d])
    <3>1. e \in Unsent(d)
      BY SMTT(30), <1>8, <2>1, <2>3 DEF Unsent
    <3>2. x < e
      <4>1. x <= e
        BY <1>1, <3>1, Zenon
      <4> QED
        BY <1>2, <1>8, <2>1, <4>1
    <3>3. PosOf[x] <= PosOf[e]
      BY <1>2, <2>1, <3>2, EventsAssumption, Zenon
    <3>4. PosOf[x] = PosOf[e]
      BY <1>2, <1>8, <2>1, <3>2, <3>3
    <3> QED
      BY <1>2, <1>8, <2>1, <3>4, Zenon DEF Covered, Sole
  <2> QED
    BY <2>2, <2>3, Zenon
<1>9. QueueItems'
  <2> SUFFICES ASSUME NEW c \in Dirs, NEW i \in 1 .. Len(queue'[c]),
                      queue'[c][i].ev # NoEvent
               PROVE  /\ queue'[c][i].ev \in EventsOf(c)
                      /\ queue'[c][i].pos = PosOf[queue'[c][i].ev]
    BY Zenon DEF QueueItems
  <2>1. CASE c # d \/ i <= Len(queue[c])
    <3>1. i \in 1 .. Len(queue[c]) /\ queue'[c][i] = queue[c][i]
      BY <1>4, <2>1
    <3> QED
      BY <3>1, Zenon DEF QueueItems
  <2>2. CASE c = d /\ i = Len(queue[d]) + 1
    BY <1>2, <1>3, <1>4, <2>2, Zenon
  <2> QED
    BY <1>4, <2>1, <2>2
<1>10. QueueOrder'
  <2> SUFFICES ASSUME NEW e \in Events, NEW i \in 1 .. Len(queue'[DirOf[e]]),
                      PosOf[e] <= queue'[DirOf[e]][i].pos
               PROVE  Covered(e)' \/ Buffered(e, i)'
    BY Zenon DEF QueueOrder
  <2>1. DirOf[e] \in Dirs
    BY EventNumbers, Zenon
  <2>2. CASE DirOf[e] # d
    <3>1. queue'[DirOf[e]] = queue[DirOf[e]]
      BY <1>4, <2>1, <2>2, Zenon
    <3> QED
      BY <3>1, Zenon DEF QueueOrder, Buffered
  <2>3. CASE DirOf[e] = d /\ i <= Len(queue[d])
    <3>1. i \in 1 .. Len(queue[d]) /\ queue'[d][i] = queue[d][i]
      BY <1>4, <2>3
    <3>2. Covered(e) \/ Buffered(e, i)
      BY <2>3, <3>1, Zenon DEF QueueOrder
    <3>3. Buffered(e, i) => Buffered(e, i)'
      BY <1>4, <2>3, <3>1 DEF Buffered
    <3> QED
      BY <3>2, <3>3, Zenon
  <2>4. CASE DirOf[e] = d /\ i = Len(queue[d]) + 1
    <3>1. PosOf[e] <= PosOf[x] /\ PosOf[e] <= upto[d]
      <4>1. PosOf[e] <= PosOf[x]
        BY Zenon, <1>3, <1>4, <2>4
      <4>2. PosOf[e] \in Nat /\ upto[d] \in Nat
        BY Zenon, <1>a, EventNumbers, StreamNumbers
      <4> QED
        BY <1>2, <4>1, <4>2
    <3>2. CASE e = x
      BY <1>4, <1>7, <2>4, <3>2
    <3>3. CASE e # x
      <4>1. Delivered(e)' \/ Covered(e)'
        BY <1>4, <1>8, <2>4, <3>1, <3>3, Zenon DEF EventsOf
      <4> QED
        BY <1>4, <2>4, <4>1, Zenon DEF Delivered
    <3> QED
      BY <3>2, <3>3, Zenon
  <2>5. DirOf[e] = d => i <= Len(queue[d]) \/ i = Len(queue[d]) + 1
    BY <1>4
  <2> QED
    BY <2>2, <2>3, <2>4, <2>5, Zenon
<1>11. ScanProgress'
  <2> SUFFICES ASSUME NEW e \in Events
               PROVE  /\ PosOf[e] <= cursor[DirOf[e]] => Delivered(e)'
                      /\ PosOf[e] <= upto[DirOf[e]] /\ e <= sent'[DirOf[e]] => Delivered(e)'
    BY <1>5, Zenon DEF ScanProgress
  <2>1. DirOf[e] \in Dirs
    BY EventNumbers, Zenon
  <2>2. PosOf[e] <= cursor[DirOf[e]] => Delivered(e)'
    BY <1>4, Zenon DEF ScanProgress
  <2>3. CASE DirOf[e] # d
    BY Zenon, <1>4, <1>5, <2>1, <2>2, <2>3 DEF ScanProgress
  <2>4. CASE DirOf[e] = d
    BY Zenon, <1>4, <1>6, <1>7, <1>8, <2>2, <2>4 DEF EventsOf, Delivered
  <2> QED
    BY <2>3, <2>4, Zenon
<1>12. SliceClosed'
  BY <1>a, <1>2, <1>5, StreamNumbers DEF SliceClosed
<1> QED
  BY <1>b, <1>9, <1>10, <1>11, <1>12, Zenon

\* A checkpoint enters the queue after every event of its slice.
LEMMA CheckpointKeepsOrder ==
    ASSUME OffsetInv, TypeInv', \A e \in Events : Covered(e) => Covered(e)',
           UNCHANGED <<pos, stored>>,
           EmitCheckpoint
    PROVE  OffsetInv'
<1> USE DEF OffsetInv
<1>a. TypeInv /\ EthToCanton \in Dirs /\ CantonToEth \in Dirs /\ EthToCanton # CantonToEth
  BY Zenon DEF Dirs, EthToCanton, CantonToEth
<1>b. PosCovered' /\ StoredCovered'
  BY Zenon DEF PosCovered, StoredCovered, Passed
<1> DEFINE d == EthToCanton
           it == [ev |-> NoEvent, pos |-> upto[d]]
<1>1. it \in Item /\ it.ev = NoEvent /\ it.pos = upto[d]
  BY <1>a, StreamNumbers, Zenon DEF Item
<1>2. /\ Len(queue'[d]) = Len(queue[d]) + 1
      /\ queue'[d][Len(queue[d]) + 1] = it
      /\ \A i \in 1 .. Len(queue[d]) : queue'[d][i] = queue[d][i]
      /\ \A c \in Dirs : c # d => queue'[c] = queue[c]
      /\ \A e \in Events : Delivered(e) => Delivered(e)'
      /\ Len(queue[d]) \in Nat
  BY Zenon, <1>a, <1>1, AppendDelivers DEF EmitCheckpoint
<1>3. /\ cursor'[d] = upto[d] /\ sent'[d] = NoEvent /\ upto' = upto
      /\ \A c \in Dirs : c # d => cursor'[c] = cursor[c] /\ sent'[c] = sent[c]
  BY Zenon, <1>a DEF EmitCheckpoint, TypeInv, TypeOK, SourceTypeOK
<1>4. \A e \in EventsOf(d) : PosOf[e] <= upto[d] => Delivered(e)
  BY <1>a, SliceDone, Zenon DEF EmitCheckpoint
<1> HIDE DEF d, it
<1>5. d \in Dirs
  BY <1>a, Zenon DEF d
<1>6. QueueItems'
  <2> SUFFICES ASSUME NEW c \in Dirs, NEW i \in 1 .. Len(queue'[c]),
                      queue'[c][i].ev # NoEvent
               PROVE  /\ queue'[c][i].ev \in EventsOf(c)
                      /\ queue'[c][i].pos = PosOf[queue'[c][i].ev]
    BY Zenon DEF QueueItems
  <2>1. c # d \/ i <= Len(queue[c])
    BY <1>1, <1>2
  <2>2. i \in 1 .. Len(queue[c]) /\ queue'[c][i] = queue[c][i]
    BY <1>2, <2>1
  <2> QED
    BY Zenon, <2>2 DEF QueueItems
<1>7. QueueOrder'
  <2> SUFFICES ASSUME NEW e \in Events, NEW i \in 1 .. Len(queue'[DirOf[e]]),
                      PosOf[e] <= queue'[DirOf[e]][i].pos
               PROVE  Covered(e)' \/ Buffered(e, i)'
    BY Zenon DEF QueueOrder
  <2>1. DirOf[e] \in Dirs
    BY EventNumbers, Zenon
  <2>2. CASE DirOf[e] # d \/ i <= Len(queue[d])
    <3>1. /\ i \in 1 .. Len(queue[DirOf[e]])
          /\ \A j \in 1 .. i : queue'[DirOf[e]][j] = queue[DirOf[e]][j]
      BY <1>2, <2>1, <2>2
    <3>2. i \in 1 .. i
      OBVIOUS
    <3>3. Covered(e) \/ Buffered(e, i)
      BY <3>1, <3>2, Zenon DEF QueueOrder
    <3>4. Buffered(e, i) => Buffered(e, i)'
      BY <3>1, Zenon DEF Buffered
    <3> QED
      BY <3>3, <3>4, Zenon
  <2>3. CASE DirOf[e] = d /\ i = Len(queue[d]) + 1
    <3>1. Delivered(e)'
      BY <1>1, <1>2, <1>4, <2>3, Zenon DEF EventsOf
    <3> QED
      BY <1>2, <2>3, <3>1, Zenon DEF Delivered
  <2> QED
    BY <1>2, <2>2, <2>3
<1>8. ScanProgress'
  <2> SUFFICES ASSUME NEW e \in Events
               PROVE  /\ PosOf[e] <= cursor'[DirOf[e]] => Delivered(e)'
                      /\ PosOf[e] <= upto[DirOf[e]] /\ e <= sent'[DirOf[e]] => Delivered(e)'
    BY <1>3, Zenon DEF ScanProgress
  <2>1. CASE DirOf[e] = d
    BY <1>2, <1>3, <1>4, <2>1, Zenon DEF EventsOf
  <2>2. CASE DirOf[e] # d
    BY <1>2, <1>3, <2>2, EventNumbers, Zenon DEF ScanProgress
  <2> QED
    BY <2>1, <2>2, Zenon
<1>9. SliceClosed'
  BY <1>3, Zenon DEF SliceClosed
<1> QED
  BY <1>b, <1>6, <1>7, <1>8, <1>9, Zenon

\* A transaction of the update stream is left when all its events are buffered.
LEMMA DoneKeepsOrder ==
    ASSUME OffsetInv, TypeInv', \A e \in Events : Covered(e) => Covered(e)',
           UNCHANGED <<pos, stored>>,
           TransactionDone
    PROVE  OffsetInv'
<1> USE DEF OffsetInv
<1>a. TypeInv /\ EthToCanton \in Dirs /\ CantonToEth \in Dirs /\ EthToCanton # CantonToEth
  BY Zenon DEF Dirs, EthToCanton, CantonToEth
<1>b. PosCovered' /\ StoredCovered'
  BY Zenon DEF PosCovered, StoredCovered, Passed
<1>1. /\ UNCHANGED <<upto, queue>> /\ cursor'[CantonToEth] = upto[CantonToEth]
      /\ sent'[CantonToEth] = NoEvent
      /\ \A c \in Dirs : c # CantonToEth => cursor'[c] = cursor[c] /\ sent'[c] = sent[c]
  BY ZenonT(30), <1>a DEF TransactionDone, TypeInv, TypeOK, SourceTypeOK
<1>2. \A e \in Events : Delivered(e) => Delivered(e)'
  BY <1>1, Zenon DEF Delivered, Buffered
<1>3. \A e \in EventsOf(CantonToEth) : PosOf[e] <= upto[CantonToEth] => Delivered(e)
  BY Zenon, <1>a, SliceDone DEF TransactionDone
<1>4. ScanProgress'
  BY <1>1, <1>2, <1>3, EventNumbers, Zenon DEF ScanProgress, EventsOf
<1>5. QueueItems' /\ SliceClosed'
  BY <1>1, Zenon DEF QueueItems, SliceClosed
<1>6. QueueOrder'
  BY Zenon, <1>1 DEF QueueOrder, Buffered
<1> QED
  BY <1>b, <1>4, <1>5, <1>6, Zenon

\* A slice that fails is scanned again from its start.
LEMMA FailureKeepsOrder ==
    ASSUME OffsetInv, TypeInv', \A e \in Events : Covered(e) => Covered(e)',
           UNCHANGED <<pos, stored>>,
           SliceFails
    PROVE  OffsetInv'
<1> USE DEF OffsetInv
<1>a. TypeInv /\ EthToCanton \in Dirs /\ CantonToEth \in Dirs /\ EthToCanton # CantonToEth
  BY Zenon DEF Dirs, EthToCanton, CantonToEth
<1>b. PosCovered' /\ StoredCovered'
  BY Zenon DEF PosCovered, StoredCovered, Passed
<1>1. /\ UNCHANGED <<cursor, queue>> /\ sent'[EthToCanton] = NoEvent
      /\ \A c \in Dirs : c # EthToCanton => upto'[c] = upto[c] /\ sent'[c] = sent[c]
  BY Zenon, <1>a DEF SliceFails, TypeInv, TypeOK, SourceTypeOK
<1>2. \A e \in Events : Delivered(e) => Delivered(e)'
  BY <1>1, Zenon DEF Delivered, Buffered
<1>3. ScanProgress'
  BY <1>1, <1>2, EventNumbers DEF ScanProgress, NoEvent
<1>4. QueueItems' /\ SliceClosed'
  BY Zenon, <1>1 DEF QueueItems, SliceClosed
<1>5. QueueOrder'
  BY <1>1, Zenon DEF QueueOrder, Buffered
<1> QED
  BY <1>b, <1>3, <1>4, <1>5, Zenon

\* The steps of the sources keep the order the invariant states: an item comes
\* after every event up to its position.
LEMMA StreamKeepsOrder ==
    ASSUME OffsetInv, TypeInv', \A e \in Events : Covered(e) => Covered(e)',
           UNCHANGED <<pos, stored>>,
           (\E d \in Dirs : StreamStep(d)) \/ SliceFails
    PROVE  OffsetInv'
<1>1. TypeInv /\ EthToCanton \in Dirs /\ CantonToEth \in Dirs
  BY Zenon DEF OffsetInv, Dirs
<1>2. CASE PollSlice
  <2>1. upto'[EthToCanton] \in Nat
    BY <1>1, StreamNumbers, Zenon DEF TypeInv, TypeOK, SourceTypeOK
  <2> QED
    BY ZenonT(30), <1>1, <1>2, <2>1, SliceOpens DEF PollSlice, TypeInv, TypeOK, SourceTypeOK
<1>3. CASE ReceiveTransaction
  BY Zenon, <1>1, <1>3, SliceOpens, EventNumbers DEF ReceiveTransaction, EventsOf
<1> QED
  BY <1>2, <1>3, EmitKeepsOrder, CheckpointKeepsOrder, DoneKeepsOrder, FailureKeepsOrder, Zenon
     DEF StreamStep

\* Receiving an item keeps the order: the event it carries is covered by the
\* same step, and what was behind it moves up by one.
LEMMA ReceiveKeepsOrder ==
    ASSUME OffsetInv, TypeInv', \A e \in Events : Covered(e) => Covered(e)',
           NEW d \in Dirs, Receives(d),
           \A e \in Events : Head(queue[d]).ev = e => Covered(e)',
           \A c \in Dirs : pos'[c] = pos[c] \/ (c = d /\ pos'[c] = Head(queue[d]).pos)
    PROVE  OffsetInv'
<1> USE DEF OffsetInv
<1>1. /\ queue[d] \in Seq(Item) /\ queue[d] # <<>>
      /\ queue'[d] = Tail(queue[d])
      /\ \A c \in Dirs : c # d => queue'[c] = queue[c]
      /\ UNCHANGED <<cursor, upto, sent, stored>>
  BY Zenon DEF Receives, TypeInv, TypeOK, SourceTypeOK
<1>2. /\ Len(queue[d]) \in Nat \ {0}
      /\ Len(queue'[d]) = Len(queue[d]) - 1
      /\ \A i \in 1 .. Len(queue'[d]) : queue'[d][i] = queue[d][i + 1]
      /\ Head(queue[d]) = queue[d][1]
  BY <1>1
<1>3. ASSUME NEW e \in EventsOf(d), NEW n \in Nat, Buffered(e, n + 1)
      PROVE  Covered(e)' \/ \E i \in 1 .. n : queue[d][i + 1].ev = e
  <2>1. e \in Events /\ DirOf[e] = d
    BY Zenon DEF EventsOf
  <2>2. PICK j \in 1 .. (n + 1) : queue[d][j].ev = e
    BY <1>3, <2>1, Zenon DEF Buffered
  <2>3. CASE j = 1
    BY <1>2, <2>1, <2>2, <2>3, Zenon
  <2>4. CASE j # 1
    <3>1. j - 1 \in 1 .. n /\ (j - 1) + 1 = j
      BY <2>4
    <3> QED
      BY <2>2, <3>1, Zenon
  <2> QED
    BY <2>3, <2>4, Zenon
<1>4. ASSUME NEW e \in Events, Delivered(e) PROVE Delivered(e)'
  <2>1. DirOf[e] \in Dirs
    BY EventNumbers, Zenon
  <2>2. CASE DirOf[e] # d
    BY <1>1, <1>4, <2>1, <2>2, Zenon DEF Delivered, Buffered
  <2>3. CASE DirOf[e] = d /\ Buffered(e, Len(queue[d]))
    <3>1. Len(queue'[d]) \in Nat /\ Len(queue[d]) = Len(queue'[d]) + 1
      BY <1>2
    <3>2. Covered(e)' \/ \E i \in 1 .. Len(queue'[d]) : queue[d][i + 1].ev = e
      BY Zenon, <1>3, <2>3, <3>1 DEF EventsOf
    <3> QED
      BY ZenonT(30), <1>2, <2>3, <3>2 DEF Delivered, Buffered
  <2> QED
    BY <1>4, <2>2, <2>3, Zenon DEF Delivered
<1>5. QueueItems'
  <2> SUFFICES ASSUME NEW c \in Dirs, NEW i \in 1 .. Len(queue'[c]),
                      queue'[c][i].ev # NoEvent
               PROVE  /\ queue'[c][i].ev \in EventsOf(c)
                      /\ queue'[c][i].pos = PosOf[queue'[c][i].ev]
    BY Zenon DEF QueueItems
  <2>1. CASE c = d
    <3>1. i + 1 \in 1 .. Len(queue[d]) /\ queue'[d][i] = queue[d][i + 1]
      BY <1>2, <2>1
    <3> QED
      BY <2>1, <3>1, Zenon DEF QueueItems
  <2>2. CASE c # d
    BY <1>1, <2>2 DEF QueueItems
  <2> QED
    BY <2>1, <2>2, Zenon
<1>6. QueueOrder'
  <2> SUFFICES ASSUME NEW e \in Events, NEW i \in 1 .. Len(queue'[DirOf[e]]),
                      PosOf[e] <= queue'[DirOf[e]][i].pos
               PROVE  Covered(e)' \/ Buffered(e, i)'
    BY Zenon DEF QueueOrder
  <2>1. CASE DirOf[e] = d
    <3>1. /\ i + 1 \in 1 .. Len(queue[d]) /\ queue'[d][i] = queue[d][i + 1]
          /\ \A j \in 1 .. i : queue'[d][j] = queue[d][j + 1]
      BY <1>2, <2>1
    <3>2. Covered(e) \/ Buffered(e, i + 1)
      BY <2>1, <3>1, Zenon DEF QueueOrder
    <3>3. Covered(e)' \/ \E j \in 1 .. i : queue[d][j + 1].ev = e
      BY <1>3, <2>1, <3>2 DEF EventsOf
    <3> QED
      BY Zenon, <2>1, <3>1, <3>3 DEF Buffered
  <2>2. CASE DirOf[e] # d
    <3>1. queue'[DirOf[e]] = queue[DirOf[e]]
      BY <1>1, <2>2, EventNumbers, Zenon
    <3>2. Covered(e) \/ Buffered(e, i)
      BY <3>1, Zenon DEF QueueOrder
    <3>3. Covered(e) => Covered(e)'
      BY <1>1, <2>2, Zenon DEF Covered
    <3> QED
      BY <3>1, <3>2, <3>3, Zenon DEF Buffered
  <2> QED
    BY <2>1, <2>2, Zenon
<1>7. ScanProgress' /\ SliceClosed'
  BY <1>1, <1>4, Zenon DEF ScanProgress, SliceClosed
<1>8. PosCovered'
  <2> SUFFICES ASSUME NEW e \in Events, PosOf[e] <= pos'[DirOf[e]]
               PROVE  Covered(e)'
    BY Zenon DEF PosCovered
  <2>1. DirOf[e] \in Dirs
    BY EventNumbers, Zenon
  <2>2. CASE pos'[DirOf[e]] = pos[DirOf[e]]
    BY <2>2, Zenon DEF PosCovered
  <2>3. CASE DirOf[e] = d /\ pos'[d] = Head(queue[d]).pos
    <3>1. Covered(e) \/ Buffered(e, 1)
      BY <1>2, <2>3 DEF QueueOrder
    <3>2. Buffered(e, 1) => queue[d][1].ev = e
      BY <2>3 DEF Buffered
    <3> QED
      BY <1>2, <3>1, <3>2, Zenon
  <2> QED
    BY <2>1, <2>2, <2>3, Zenon
<1>9. StoredCovered'
  BY <1>1, Zenon DEF StoredCovered, Passed
<1> QED
  BY <1>5, <1>6, <1>7, <1>8, <1>9, Zenon

\* A stream that begins at positions whose events are covered keeps the invariant.
LEMMA RestartKeepsOrder ==
    ASSUME OffsetInv, TypeInv', \A e \in Events : Covered(e) => Covered(e)',
           NEW start \in [Dirs -> Nat], StreamFrom(start),
           \A e \in Events : PosOf[e] <= start[DirOf[e]] => Covered(e)',
           \A d \in Dirs : pos'[d] \in {pos[d], 0},
           \A d \in Dirs : stored'[d] <= stored[d]
    PROVE  OffsetInv'
<1> USE DEF OffsetInv
<1>1. \A d \in Dirs : /\ queue'[d] = <<>> /\ Len(queue'[d]) = 0
                      /\ cursor'[d] = start[d] /\ upto'[d] = start[d]
                      /\ sent'[d] = NoEvent
  BY Zenon DEF StreamFrom
<1>2. QueueItems' /\ QueueOrder'
  BY <1>1, EventNumbers DEF QueueItems, QueueOrder
<1>3. ScanProgress' /\ SliceClosed'
  BY <1>1, EventNumbers, Zenon DEF ScanProgress, SliceClosed, NoEvent, Delivered
<1>4. PosCovered'
  BY EventNumbers DEF PosCovered
<1>5. StoredCovered'
  <2> SUFFICES ASSUME NEW e \in Events, Passed(e)' PROVE Covered(e)'
    BY Zenon DEF StoredCovered
  <2>1. /\ stored[DirOf[e]] \in Int /\ stored'[DirOf[e]] \in Int
        /\ stored'[DirOf[e]] <= stored[DirOf[e]] /\ PosOf[e] \in Int
    BY EventNumbers DEF TypeInv, TypeOK, NoState
  <2>2. Passed(e)
    BY <2>1 DEF Passed
  <2> QED
    BY <2>2, Zenon DEF StoredCovered
<1> QED
  BY <1>2, <1>3, <1>4, <1>5, Zenon

LEMMA OffsetInit == Init => OffsetInv
<1> SUFFICES ASSUME Init PROVE OffsetInv
  BY Zenon
<1>1. TypeInv
  BY InitTyped, Zenon
<1>2. \A d \in Dirs : /\ queue[d] = <<>> /\ Len(queue[d]) = 0 /\ cursor[d] = 0
                      /\ sent[d] = NoEvent /\ pos[d] = 0 /\ stored[d] = NoState
  BY Zenon DEF Init, SourceInit
<1>3. QueueItems /\ QueueOrder
  BY <1>2, EventNumbers DEF QueueItems, QueueOrder
<1>4. ScanProgress /\ SliceClosed /\ PosCovered /\ StoredCovered
  BY <1>2, EventNumbers
     DEF ScanProgress, SliceClosed, PosCovered, StoredCovered, Passed, NoEvent, NoState
<1> QED
  BY <1>1, <1>3, <1>4, Zenon DEF OffsetInv

LEMMA OffsetNext == OffsetInv /\ [Next]_vars => OffsetInv'
<1> SUFFICES ASSUME OffsetInv, [Next]_vars PROVE OffsetInv'
  BY Zenon
<1>0. /\ TypeInv /\ TypeInv'
      /\ \A e \in Events : Covered(e) => Covered(e)'
  BY NextTyped, CoveredStable, Zenon DEF OffsetInv
<1>1. CASE Start
  <2>1. PICK start \in [Dirs -> UNION {StartOffsets(d) : d \in Dirs}] :
           /\ \A d \in Dirs : start[d] \in StartOffsets(d)
           /\ StreamFrom(start)
           /\ stored' = [d \in Dirs |-> IF start[d] < stored[d] THEN start[d] ELSE stored[d]]
           /\ startedPast' = startedPast \cup
                {e \in Events : /\ status[e] = "absent"
                                /\ stored[DirOf[e]] < PosOf[e]
                                /\ PosOf[e] <= start[DirOf[e]]}
    BY <1>1, Zenon DEF Start
  <2>2. start \in [Dirs -> Nat]
    BY <1>0, <2>1, StartOffsetsNat, Zenon DEF TypeInv
  <2>3. ASSUME NEW e \in Events, PosOf[e] <= start[DirOf[e]] PROVE Covered(e)'
    <3>1. CASE Passed(e) \/ status[e] # "absent"
      BY <1>0, <3>1, Zenon DEF OffsetInv, StoredCovered, Covered
    <3>2. CASE ~Passed(e) /\ status[e] = "absent"
      <4>1. stored[DirOf[e]] < PosOf[e]
        BY <1>0, <3>2, EventNumbers DEF Passed, TypeInv, TypeOK, NoState
      <4> QED
        BY <2>1, <2>3, <3>2, <4>1, Zenon DEF Covered
    <3> QED
      BY <3>1, <3>2, Zenon
  <2>4. \A d \in Dirs : stored'[d] <= stored[d]
    BY <1>0, <2>1, <2>2 DEF TypeInv, TypeOK, NoState
  <2> QED
    BY <1>0, <1>1, <2>1, <2>2, <2>3, <2>4, RestartKeepsOrder, Zenon DEF Start
<1>2. CASE Crash
  <2>1. /\ StreamFrom([d \in Dirs |-> 0]) /\ stored' = stored
        /\ \A d \in Dirs : pos'[d] \in {pos[d], 0}
    BY <1>2, Zenon DEF Crash
  <2>2. \A e \in Events : ~(PosOf[e] <= [d \in Dirs |-> 0][DirOf[e]])
    BY EventNumbers
  <2>3. \A d \in Dirs : stored'[d] <= stored[d]
    BY <1>0, <2>1 DEF TypeInv, TypeOK, NoState
  <2>4. [d \in Dirs |-> 0] \in [Dirs -> Nat]
    BY Zenon
  <2> QED
    BY <1>0, <2>1, <2>2, <2>3, <2>4, RestartKeepsOrder, Zenon
<1>3. CASE \/ Environment
           \/ \E t \in Threads : SubmitStep(t)
           \/ ReconcilerStep
           \/ UNCHANGED vars
  <2>1. UNCHANGED <<streamVars, pos, stored>>
    <3>1. CASE Environment
      BY <3>1, Zenon DEF Environment, ChainAdvances, streamVars, sourceVars, procVars
    <3>2. CASE \E t \in Threads : SubmitStep(t)
      BY <3>2, Zenon DEF SubmitStep, CheckProcessed, SubmitCreate, SubmitMint, SubmitSend,
                  SubmitFrame, streamVars, sourceVars
    <3>3. CASE ReconcilerStep
      BY Zenon, <3>3 DEF ReconcilerStep, SelectWithdrawals, SelectDeposits, GiveUp, NotYet, Retry, TurnsTo,
                  RetryFailed, RetryDone, ReconcileFrame, streamVars, sourceVars
    <3>4. CASE UNCHANGED vars
      BY <3>4, Zenon DEF vars, streamVars
    <3> QED
      BY <1>3, <3>1, <3>2, <3>3, <3>4, Zenon
  <2> QED
    BY <1>0, <2>1, OffsetFrame, Zenon
<1>4. CASE SourceFails \/ \E d \in Dirs : SourceStep(d)
  BY <1>0, <1>4, StreamKeepsOrder, Zenon DEF SourceFails, SourceStep, procVars
<1>5. ASSUME NEW d \in Dirs, ProcessorStep(d) PROVE OffsetInv'
  <2>1. CASE ReceiveCheckpoint(d) \/ ReceiveNew(d) \/ ReceiveKnown(d) \/ ReceiveInsertFails(d)
    <3>1. Receives(d)
      BY <2>1, Zenon DEF ReceiveCheckpoint, ReceiveNew, ReceiveKnown, ReceiveInsertFails
    <3>2. \A c \in Dirs : pos'[c] = pos[c] \/ (c = d /\ pos'[c] = Head(queue[d]).pos)
      <4>1. pos' = pos \/ pos' = [pos EXCEPT ![d] = Head(queue[d]).pos]
        BY <2>1, Zenon DEF ReceiveCheckpoint, ReceiveNew, ReceiveKnown, ReceiveInsertFails
      <4> QED
        BY <1>0, <4>1, Zenon DEF TypeInv, TypeOK
    <3>3. ASSUME NEW e \in Events, Head(queue[d]).ev = e PROVE Covered(e)'
      <4>1. e # NoEvent
        BY EventNumbers, Zenon DEF NoEvent
      <4>2. CASE ReceiveNew(d) \/ ReceiveKnown(d)
        BY <1>0, <3>3, <4>2, Zenon DEF ReceiveNew, ReceiveKnown, rowVars, Covered, TypeInv, TypeOK
      <4>3. CASE ReceiveInsertFails(d)
        BY <3>3, <4>3, Zenon DEF ReceiveInsertFails, Covered
      <4> QED
        BY <2>1, <3>3, <4>1, <4>2, <4>3, Zenon DEF ReceiveCheckpoint
    <3> QED
      BY <1>0, <3>1, <3>2, <3>3, ReceiveKeepsOrder, Zenon
  <2>2. CASE \/ ProcessorFailed(d) \/ ProcessorSkipped(d) \/ ProcessorDone(d)
             \/ PostSubmit(d) \/ PersistOffset(d)
    <3>1. UNCHANGED streamVars
      BY <2>2, Zenon DEF ProcessorFailed, ProcessorSkipped, ProcessorDone, PostSubmit,
                  PersistOffset, ProcessorFrame, sourceVars, streamVars
    <3>2. \A c \in Dirs : pos'[c] \in {pos[c], 0}
      BY <1>0, <2>2, Zenon DEF ProcessorFailed, ProcessorSkipped, ProcessorDone, PostSubmit,
                        PersistOffset, TypeInv, TypeOK
    <3>3. \A c \in Dirs : stored'[c] \in {stored[c], pos[c]}
      <4>1. CASE PersistOffset(d)
        <5>1. stored' = stored \/ stored' = [stored EXCEPT ![d] = pos[d]]
          BY <4>1, Zenon DEF PersistOffset
        <5> QED
          BY <1>0, <5>1, Zenon DEF TypeInv, TypeOK
      <4>2. CASE ~PersistOffset(d)
        BY <2>2, <4>2, Zenon DEF ProcessorFailed, ProcessorSkipped, ProcessorDone, PostSubmit
      <4> QED
        BY <4>1, <4>2, Zenon
    <3> QED
      BY <1>0, <3>1, <3>2, <3>3, OffsetFrame, ZenonT(30)
  <2> QED
    BY <1>5, <2>1, <2>2, Zenon DEF ProcessorStep
<1> QED
  BY <1>1, <1>2, <1>3, <1>4, <1>5, Zenon DEF Next

\* The persisted position passes an event without a row only for one of the
\* three named reasons, whatever the events, the block range, the channel size,
\* the start and lookback settings, the number of crashes and the faults.
THEOREM NothingLostSilently == Spec => []NoSilentLoss
<1>1. OffsetInv => NoSilentLoss
  BY Zenon DEF OffsetInv, StoredCovered, Covered, NoSilentLoss
<1> QED
  BY <1>1, OffsetInit, OffsetNext, PTL DEF Spec

-----------------------------------------------------------------------------
(* Completed transfers have a trace. *)

\* A processor works on events of its direction.
CurDirs == \A d \in Dirs : cur[d] # NoEvent => DirOf[cur[d]] = d

\* What a thread has reached in its submission is on the destination.
Reached ==
    \A t \in Threads :
        /\ pc[t] \in {"create", "mint"} => DirOf[cur[t]] = EthToCanton
        /\ pc[t] = "send" => DirOf[cur[t]] # EthToCanton
        /\ pc[t] = "mint" => Total(cur[t]) > 0
        /\ pc[t] \in {"ok", "skipped", "hook"} => Traced(cur[t])
        /\ pc[t] = "hook" => t = CantonToEth

ReleasedSent == \A e \in released : evmSent[e] > 0

TraceInv ==
    /\ OffsetInv
    /\ Quiet
    /\ CurDirs
    /\ Reached
    /\ ReleasedSent
    /\ CompletedHasTrace
    /\ ClosedAfterSend

\* Nothing is completed, sent or closed at first.
LEMMA TraceInit == Init => TraceInv
<1> SUFFICES ASSUME Init PROVE TraceInv
  BY Zenon
<1>1. OffsetInv
  BY OffsetInit, Zenon
<1>2. Quiet /\ CurDirs /\ Reached
  BY Zenon DEF Init, Quiet, CurDirs, Reached, Threads
<1>3. ReleasedSent /\ CompletedHasTrace /\ ClosedAfterSend
  BY Zenon DEF Init, DestInit, ReleasedSent, CompletedHasTrace, ClosedAfterSend
<1> QED  BY <1>1, <1>2, <1>3, Zenon DEF TraceInv

\* A thread gets on in a submission only by a call that leaves its trace.
LEMMA ReachedNext ==
    ASSUME TraceInv, [Next]_vars PROVE Reached'
<1> SUFFICES ASSUME NEW t \in Threads
             PROVE  /\ pc'[t] \in {"create", "mint"} => DirOf[cur'[t]] = EthToCanton
                    /\ pc'[t] = "send" => DirOf[cur'[t]] # EthToCanton
                    /\ pc'[t] = "mint" => Total(cur[t])' > 0
                    /\ pc'[t] \in {"ok", "skipped", "hook"} => Traced(cur[t])'
                    /\ pc'[t] = "hook" => t = CantonToEth
  BY Zenon DEF Reached
<1>0. /\ pc[t] \notin Resting => cur[t] \in Events
      /\ pc[t] \in {"create", "mint"} => DirOf[cur[t]] = EthToCanton
      /\ pc[t] = "send" => DirOf[cur[t]] # EthToCanton
      /\ pc[t] = "mint" => Total(cur[t]) > 0
      /\ pc[t] \in {"ok", "skipped", "hook"} => Traced(cur[t])
      /\ pc[t] = "hook" => t = CantonToEth
  BY Zenon DEF TraceInv, OffsetInv, TypeInv, Busy, Resting, Reached
<1>1. \A e \in Events :
        /\ Total(e) \in Nat /\ Total(e)' \in Nat /\ Total(e)' >= Total(e)
        /\ Traced(e) => Traced(e)'
        /\ pendingDep[e] \in Nat /\ minted[e] \in Nat /\ evmSent[e] \in Nat
  BY TracesStay, Zenon DEF TraceInv, OffsetInv, TypeInv, TypeOK, DestTypeOK
<1>2. ASSUME cur'[t] = cur[t], cur[t] \in Events
      PROVE  (Total(cur[t])' > 0 <=> pendingDep'[cur[t]] + minted'[cur[t]] > 0)
  BY <1>2, Zenon DEF Total
<1>3. ASSUME cur'[t] = cur[t], cur[t] \in Events,
             Traced(cur[t]) \/ \E e \in Events : e = cur[t] /\ Traced(e)'
      PROVE  Traced(cur[t])'
  BY <1>1, <1>3, Zenon DEF Traced, IsDepositProcessed
<1>4. ASSUME cur'[t] = cur[t], cur[t] \in Events, Total(cur[t]) > 0
      PROVE  Total(cur[t])' > 0
  <2>1. PICK e \in Events : e = cur[t]
    BY <1>4, Zenon
  <2>2. Total(e)' > 0
    BY <1>1, <1>4, <2>1
  <2> QED  BY <1>4, <2>1, <2>2, Zenon DEF Total
<1>5. CASE pc'[t] = pc[t] /\ cur'[t] = cur[t]
  BY <1>0, <1>3, <1>4, <1>5, Zenon DEF Resting
<1>6. CASE pc'[t] \in Resting \cup {"check", "err"}
  BY <1>6, Zenon DEF Resting
<1>7. CASE cur'[t] = cur[t] /\ pc[t] = "check" /\ pc'[t] = "skipped" /\ AlreadyProcessed(cur[t])
  <2>1. Traced(cur[t])
    BY <1>0, <1>7, Zenon DEF Resting, AlreadyProcessed, IsWithdrawalProcessed, Traced, TraceInv, ReleasedSent
  <2> QED  BY <1>0, <1>3, <1>7, <2>1, Zenon DEF Resting
<1>8. CASE cur'[t] = cur[t] /\ pc[t] = "check" /\ pc'[t] = FirstCall(cur[t])
  BY <1>8, Zenon DEF FirstCall
<1>9. CASE cur'[t] = cur[t] /\ pc[t] = "create" /\ pc'[t] = "mint" /\ CreatePendingDeposit(cur[t])
  <2>1. cur[t] \in Events /\ DirOf[cur[t]] = EthToCanton
    BY <1>0, <1>9, Zenon DEF Resting
  <2>2. pendingDep'[cur[t]] = pendingDep[cur[t]] + 1 /\ minted' = minted
    BY <1>9, <2>1, Zenon DEF CreatePendingDeposit, TraceInv, OffsetInv, TypeInv, TypeOK, DestTypeOK
  <2>3. Total(cur[t])' > 0
    BY <1>1, <1>2, <1>9, <2>1, <2>2
  <2> QED  BY <1>9, <2>1, <2>3, Zenon
<1>10. CASE cur'[t] = cur[t] /\ pc[t] = "mint" /\ pc'[t] = "ok" /\ ProcessDepositAndMint(cur[t])
  <2>1. cur[t] \in Events /\ DirOf[cur[t]] = EthToCanton
    BY <1>0, <1>10, Zenon DEF Resting
  <2>2. PICK e \in Events : e = cur[t]
    BY <2>1, Zenon
  <2>3. minted'[e] > 0
    BY <1>1, <1>10, <2>2 DEF ProcessDepositAndMint, TraceInv, OffsetInv, TypeInv, TypeOK, DestTypeOK
  <2>4. Traced(e)'
    BY <2>1, <2>2, <2>3, Zenon DEF Traced, IsDepositProcessed, EventsOf
  <2> QED  BY <1>3, <1>10, <2>1, <2>2, <2>4, Zenon
<1>11. CASE cur'[t] = cur[t] /\ pc[t] = "send" /\ pc'[t] = "ok" /\ WithdrawFromCanton(cur[t])
  <2>1. cur[t] \in Events /\ DirOf[cur[t]] # EthToCanton
    BY <1>0, <1>11, Zenon DEF Resting
  <2>2. PICK e \in Events : e = cur[t]
    BY <2>1, Zenon
  <2>3. evmSent'[e] > 0
    BY <1>1, <1>11, <2>2 DEF WithdrawFromCanton, TraceInv, OffsetInv, TypeInv, TypeOK, DestTypeOK
  <2>4. Traced(e)'
    BY <2>1, <2>2, <2>3, Zenon DEF Traced
  <2> QED  BY <1>3, <1>11, <2>1, <2>2, <2>4, Zenon
<1>12. CASE t = CantonToEth /\ cur'[t] = cur[t] /\ pc[t] = "ok" /\ pc'[t] = "hook"
  BY <1>0, <1>3, <1>12, Zenon DEF Resting
<1>13. Moves(t)
  BY NextMoves, Zenon DEF TraceInv, OffsetInv
<1> QED  BY <1>5, <1>6, <1>7, <1>8, <1>9, <1>10, <1>11, <1>12, <1>13, Zenon DEF Moves, Submits

\* Every step keeps the invariant behind the two theorems below.
LEMMA TraceNext == TraceInv /\ [Next]_vars => TraceInv'
<1> SUFFICES ASSUME TraceInv, [Next]_vars PROVE TraceInv'
  BY Zenon
<1>0. /\ OffsetInv' /\ TypeInv /\ TypeInv' /\ Reached'
      /\ \A t \in Threads : Moves(t)
      /\ \A e \in Events : /\ evmSent[e] \in Nat /\ evmSent'[e] \in Nat /\ evmSent'[e] >= evmSent[e]
                           /\ Traced(e) => Traced(e)'
  BY OffsetNext, NextMoves, TracesStay, ReachedNext, Zenon DEF TraceInv, OffsetInv
<1>a. ASSUME NEW e \in Events, evmSent[e] > 0 PROVE evmSent'[e] > 0
  BY <1>0, <1>a
<1>1. Quiet'
  <2> SUFFICES ASSUME NEW t \in Threads, pc'[t] \in Resting PROVE cur'[t] = NoEvent
    BY Zenon DEF Quiet
  <2>1. ~Submits(t)
    BY Zenon DEF Submits, Resting, FirstCall
  <2> QED  BY <1>0, <2>1, Zenon DEF Moves, Resting, TraceInv, Quiet
<1>2. CurDirs'
  <2> SUFFICES ASSUME NEW d \in Dirs, cur'[d] # NoEvent PROVE DirOf[cur'[d]] = d
    BY Zenon DEF CurDirs
  <2>1. d \in Threads /\ d # Reconciler
    BY Zenon DEF Threads, Dirs, EthToCanton, CantonToEth, Reconciler
  <2>2. CASE cur'[d] = cur[d]
    BY <2>2, Zenon DEF TraceInv, CurDirs
  <2>3. CASE Takes(d)
    <3>1. queue[d] \in Seq(Item) /\ queue[d] # <<>>
      BY <1>0, <2>3, Zenon DEF Takes, Receives, TypeInv, TypeOK, SourceTypeOK
    <3>2. 1 \in 1 .. Len(queue[d]) /\ Head(queue[d]) = queue[d][1]
      BY <3>1
    <3> QED  BY <2>3, <3>2 DEF Takes, TraceInv, OffsetInv, QueueItems, EventsOf
  <2> QED  BY <1>0, <2>1, <2>2, <2>3, Zenon DEF Moves, TakesUp
<1>3. ReleasedSent'
  <2>1. CASE EvmStep
    <3>1. PICK e \in Events : /\ evmDone[e] < evmSent[e] /\ evmDone[e] \in Nat
                              /\ released' \subseteq released \cup {e} /\ evmSent' = evmSent
      BY <1>0, <2>1, Zenon DEF EvmStep, EvmMine, EvmDrop, EventsOf, TypeInv, TypeOK, DestTypeOK
    <3> QED  BY <1>0, <3>1 DEF TraceInv, ReleasedSent
  <2>2. CASE ~EvmStep
    <3>1. released' = released
      BY <1>0, <2>2, NextDest, Zenon DEF DestSteps, destVars, CreatePendingDeposit, ProcessDepositAndMint,
         WithdrawFromCanton, CompleteWithdrawal, evmVars
    <3>2. released \subseteq Events
      BY <1>0, Zenon DEF TypeInv, TypeOK, DestTypeOK
    <3> QED  BY <1>a, <3>1, <3>2, Zenon DEF TraceInv, ReleasedSent
  <2> QED  BY <2>1, <2>2, Zenon
<1>4. CompletedHasTrace'
  <2> SUFFICES ASSUME NEW e \in Events, status'[e] = "completed" PROVE Traced(e)'
    BY Zenon DEF CompletedHasTrace, Traced
  <2>1. status[e] = "completed" \/ \E t \in Threads : pc[t] \in {"ok", "skipped"} /\ cur[t] = e
    BY <1>0, NextRows, Zenon DEF RowSteps, TypeInv, TypeOK
  <2>2. Traced(e)
    BY <2>1, Zenon DEF TraceInv, CompletedHasTrace, Traced, Reached
  <2> QED  BY <1>0, <2>2, Zenon
<1>5. ClosedAfterSend'
  <2> SUFFICES ASSUME NEW e \in closed' PROVE evmSent'[e] > 0
    BY Zenon DEF ClosedAfterSend
  <2>1. e \in Events
    BY <1>0, Zenon DEF TypeInv, TypeOK, DestTypeOK
  <2>2. e \in closed \/ \E t \in Threads : pc[t] = "hook" /\ cur[t] = e
    BY <1>0, NextDest, Zenon DEF DestSteps, destVars, CreatePendingDeposit, ProcessDepositAndMint,
         WithdrawFromCanton, CompleteWithdrawal, EvmStep, EvmMine, EvmDrop
  <2>3. ASSUME NEW t \in Threads, pc[t] = "hook", cur[t] = e PROVE evmSent[e] > 0
    <3>1. t = CantonToEth /\ Traced(e) /\ e # NoEvent
      BY <2>1, <2>3, EventNumbers, Zenon DEF TraceInv, Reached, NoEvent
    <3>2. DirOf[e] = CantonToEth
      BY <2>3, <3>1, Zenon DEF TraceInv, CurDirs, Dirs
    <3> QED  BY <3>1, <3>2, Zenon DEF Traced, CantonToEth, EthToCanton
  <2>4. evmSent[e] > 0
    BY <2>2, <2>3, Zenon DEF TraceInv, ClosedAfterSend
  <2> QED  BY <1>a, <2>1, <2>4, Zenon
<1> QED  BY <1>0, <1>1, <1>2, <1>3, <1>4, <1>5, Zenon DEF TraceInv

\* A transfer is marked completed only if the destination holds something for
\* it, however submissions overlap, whatever checks and calls fail, and whenever
\* the process crashes (processEvent, retryStuckTransfer).
THEOREM CompletedLeavesTrace == Spec => []CompletedHasTrace
<1>1. TraceInv => CompletedHasTrace
  BY Zenon DEF TraceInv
<1> QED  BY <1>1, TraceInit, TraceNext, PTL DEF Spec

\* A withdrawal is closed on Canton only after a node accepted its release, under
\* the same faults (completeWithdrawal after SubmitTransfer).
THEOREM ClosesAfterSending == Spec => []ClosedAfterSend
<1>1. TraceInv => ClosedAfterSend
  BY Zenon DEF TraceInv
<1> QED  BY <1>1, TraceInit, TraceNext, PTL DEF Spec

-----------------------------------------------------------------------------
(* Effects come once. *)

\* No two threads work on one event.
Exclusive == \A t, u \in Threads : cur[t] = cur[u] /\ cur[t] # NoEvent => t = u

\* An event without a row is in nobody's hands and has had no effect.
AbsentClean ==
    \A e \in Events : status[e] = "absent" =>
        /\ retries[e] = 0 /\ evmSent[e] = 0
        /\ \A t \in Threads : cur[t] # e
        /\ \A n \in Nat : <<e, n>> \notin snap

\* A processor has its event before any retry of it; the row is pending until
\* the processor itself settles it.
ProcessorRow ==
    \A d \in Dirs : cur[d] # NoEvent =>
        /\ retries[cur[d]] = 0
        /\ pc[d] # "hook" => status[cur[d]] = "pending"

\* The reconciler's event has left the snapshot, and nobody has given it up.
RetriedRow ==
    cur[Reconciler] # NoEvent =>
        /\ status[cur[Reconciler]] \in {"pending", "completed"}
        /\ \A n \in Nat : <<cur[Reconciler], n>> \notin snap

\* A row of the snapshot that was retried before is still pending.
SnapRows ==
    \A x \in snap :
        /\ x[2] <= retries[x[1]]
        /\ status[x[1]] \in {"pending", "completed"}
        /\ x[2] > 0 => status[x[1]] = "pending"
        /\ \A y \in snap : y[1] = x[1] => y = x
        /\ pc[Reconciler] = "select" => DirOf[x[1]] = CantonToEth

\* A deposit is created once, by a thread that found nothing of it.
CreatedOnce ==
    /\ \A e \in Events : Total(e) <= 1
    /\ \A e \in Events : DirOf[e] # EthToCanton => Total(e) = 0
    /\ \A e \in Events : DirOf[e] = EthToCanton => e \notin released
    /\ \A t \in Threads : pc[t] = "create" => Total(cur[t]) = 0

OnceInv ==
    /\ TraceInv
    /\ Exclusive
    /\ AbsentClean
    /\ ProcessorRow
    /\ RetriedRow
    /\ SnapRows
    /\ CreatedOnce

\* A thread keeps its event, lets go of it, or begins with one.
LEMMA CurSteps ==
    ASSUME TraceInv, [Next]_vars, NEW t \in Threads, cur'[t] # NoEvent
    PROVE  \/ cur'[t] = cur[t] /\ (pc'[t] = "hook" \/ pc[t] # "hook")
           \/ /\ Takes(t) \/ TakesUp(t)
              /\ pc'[t] = "check" /\ UNCHANGED <<destVars, retries>>
              /\ \A u \in Threads \ {t} : cur'[u] = cur[u]
<1>1. Moves(t)
  BY NextMoves, Zenon DEF TraceInv, OffsetInv
<1> QED  BY <1>1, Zenon DEF Moves, Submits

\* A processor begins with an event nobody has had, the reconciler with one that
\* no processor has.
LEMMA ExclusiveNext ==
    ASSUME OnceInv, [Next]_vars, ~SlowSubmit PROVE Exclusive'
<1> SUFFICES ASSUME NEW t \in Threads, NEW u \in Threads, t # u,
                    cur'[t] = cur'[u], cur'[t] # NoEvent
             PROVE  FALSE
  BY Zenon DEF Exclusive
<1>1. TraceInv
  BY Zenon DEF OnceInv
<1>2. ASSUME NEW v \in Threads, NEW w \in Threads, v # w, cur'[w] = cur[w], cur[w] = cur'[v],
             cur'[v] # NoEvent, Takes(v) \/ TakesUp(v)
      PROVE  FALSE
  <2>1. cur[w] \in Events
    BY <1>1, <1>2, Zenon DEF TraceInv, OffsetInv, TypeInv, TypeOK
  <2>2. CASE Takes(v)
    BY <1>2, <2>1, <2>2, Zenon DEF Takes, OnceInv, AbsentClean
  <2>3. CASE TakesUp(v)
    <3>1. w \in Dirs
      BY <1>2, <2>3, Zenon DEF TakesUp, Threads
    <3> QED  BY <1>2, <2>3, <3>1, Zenon DEF TakesUp, InFlight
  <2> QED  BY <1>2, <2>2, <2>3, Zenon
<1>3. CASE cur'[t] = cur[t] /\ cur'[u] = cur[u]
  BY <1>3, Zenon DEF OnceInv, Exclusive
<1>4. CASE ~(cur'[t] = cur[t] /\ cur'[u] = cur[u])
  BY <1>1, <1>2, <1>4, CurSteps, Zenon
<1> QED  BY <1>3, <1>4, Zenon

\* A row, once there, is never removed, and nothing begins without one.
LEMMA AbsentNext ==
    ASSUME OnceInv, [Next]_vars PROVE AbsentClean'
<1>0. /\ TraceInv /\ TypeInv /\ TypeInv' /\ status \in [Events -> Statuses]
      /\ retries \in [Events -> Nat] /\ evmSent \in [Events -> Nat]
  BY NextTyped, Zenon DEF OnceInv, TraceInv, OffsetInv, TypeInv, TypeOK, DestTypeOK
<1> SUFFICES ASSUME NEW e \in Events, status'[e] = "absent"
             PROVE  /\ retries'[e] = 0 /\ evmSent'[e] = 0
                    /\ \A t \in Threads : cur'[t] # e
                    /\ \A n \in Nat : <<e, n>> \notin snap'
  BY Zenon DEF AbsentClean
<1>1. status[e] = "absent"
  BY <1>0, NextRows, Zenon DEF RowSteps
<1>2. /\ retries[e] = 0 /\ evmSent[e] = 0
      /\ \A t \in Threads : cur[t] # e
      /\ \A n \in Nat : <<e, n>> \notin snap
  BY <1>1, Zenon DEF OnceInv, AbsentClean
<1>3. retries'[e] = 0
  BY <1>0, <1>2, NextRetries, Zenon DEF RetrySteps, Threads
<1>4. evmSent'[e] = 0
  BY <1>0, <1>2, NextDest, Zenon DEF DestSteps, destVars, CreatePendingDeposit, ProcessDepositAndMint,
     WithdrawFromCanton, CompleteWithdrawal, EvmStep, EvmMine, EvmDrop, evmVars
<1>5. ASSUME NEW t \in Threads, cur'[t] = e PROVE FALSE
  <2>1. e # NoEvent
    BY EventNumbers, Zenon DEF NoEvent
  <2>2. Takes(t) \/ TakesUp(t)
    BY <1>0, <1>2, <1>5, <2>1, CurSteps, Zenon
  <2>3. CASE Takes(t)
    BY <1>0, <1>5, <2>3, Zenon DEF Takes
  <2>4. CASE TakesUp(t)
    BY <1>2, <1>5, <2>4, Zenon DEF TakesUp
  <2> QED  BY <2>2, <2>3, <2>4, Zenon
<1>6. ASSUME NEW n \in Nat, <<e, n>> \in snap' PROVE FALSE
  BY SMTT(30), <1>0, <1>1, <1>2, <1>6, NextRetries DEF SnapSteps, PendingTransfers, EventsOf
<1> QED  BY <1>3, <1>4, <1>5, <1>6, Zenon

\* Who may write the row of an event that a thread has: that thread only.
LEMMA RowOfThread ==
    ASSUME OnceInv, [Next]_vars, NEW e \in Events, status[e] # "absent"
    PROVE  \/ status'[e] = status[e]
           \/ \E t \in Threads : /\ pc[t] \in {"ok", "skipped"} /\ cur[t] = e
                                 /\ pc'[t] = "hook" \/ cur'[t] = NoEvent
                                 /\ status'[e] = "completed"
           \/ \E d \in Dirs : cur[d] = e /\ pc[d] = "err" /\ status'[e] = "pending"
           \/ \E n \in Nat \ {0} : <<e, n>> \in snap /\ snap' = snap \ {<<e, n>>}
<1>0. TypeInv /\ status \in [Events -> Statuses] /\ snap \subseteq Events \X Nat
  BY Zenon DEF OnceInv, TraceInv, OffsetInv, TypeInv, TypeOK
<1>1. RowSteps
  BY <1>0, NextRows, Zenon
<1>2. ASSUME NEW x \in snap, Exhausted(x[2]), snap' = snap \ {x}, x[1] = e
      PROVE  \E n \in Nat \ {0} : <<e, n>> \in snap /\ snap' = snap \ {<<e, n>>}
  <2>1. x = <<e, x[2]>> /\ x[2] \in Nat
    BY <1>0, <1>2
  <2>2. x[2] # 0
    BY <1>2, <2>1, ConfigAssumption DEF Exhausted
  <2> QED  BY <1>2, <2>1, <2>2, Zenon
<1> QED  BY <1>0, <1>1, <1>2, Zenon DEF RowSteps

\* The reconciler gives up only rows it has retried, which no processor has.
LEMMA ProcessorRowNext ==
    ASSUME OnceInv, [Next]_vars PROVE ProcessorRow'
<1>0. /\ TraceInv /\ TypeInv /\ status \in [Events -> Statuses] /\ retries \in [Events -> Nat]
      /\ cur \in [Threads -> Events \cup {NoEvent}]
      /\ Dirs \subseteq Threads /\ Reconciler \in Threads /\ NoEvent \notin Events
      /\ \A d \in Dirs : d # Reconciler
  BY EventNumbers, Zenon DEF OnceInv, TraceInv, OffsetInv, TypeInv, TypeOK, Threads, Dirs, EthToCanton, CantonToEth,
     Reconciler, NoEvent
<1> SUFFICES ASSUME NEW d \in Dirs, cur'[d] # NoEvent
             PROVE  /\ retries'[cur'[d]] = 0
                    /\ pc'[d] # "hook" => status'[cur'[d]] = "pending"
  BY Zenon DEF ProcessorRow
<1>1. CASE cur'[d] = cur[d] /\ (pc'[d] = "hook" \/ pc[d] # "hook")
  <2>1. /\ retries[cur[d]] = 0 /\ cur[d] \in Events
        /\ pc[d] # "hook" => status[cur[d]] = "pending"
        /\ \A t \in Threads : cur[t] = cur[d] => t = d
    BY <1>0, <1>1, Zenon DEF OnceInv, ProcessorRow, Exclusive
  <2>2. retries'[cur[d]] = 0
    BY <1>0, <2>1, NextRetries, Zenon DEF RetrySteps
  <2>3. \A n \in Nat \ {0} : <<cur[d], n>> \notin snap
    <3>1. ASSUME NEW n \in Nat \ {0}, <<cur[d], n>> \in snap PROVE n <= retries[cur[d]]
      BY <3>1, Zenon DEF OnceInv, SnapRows
    <3> QED  BY <2>1, <3>1
  <2>4. ASSUME pc'[d] # "hook" PROVE status'[cur[d]] = "pending"
    BY <1>0, <1>1, <2>1, <2>3, <2>4, RowOfThread, ZenonT(30)
  <2> QED  BY <1>1, <2>2, <2>4, Zenon
<1>2. CASE (Takes(d) \/ TakesUp(d)) /\ UNCHANGED retries
  <2>1. Takes(d)
    BY <1>0, <1>2, Zenon DEF TakesUp
  <2>2. cur'[d] \in Events
    BY <1>0, <2>1, HeadItem, Zenon DEF Takes, Receives, TypeInv, TypeOK
  <2> QED  BY <1>0, <1>2, <2>1, <2>2, Zenon DEF Takes, OnceInv, AbsentClean
<1> QED  BY <1>0, <1>1, <1>2, CurSteps, Zenon

\* What the reconciler takes up has left the snapshot for good.
LEMMA RetriedRowNext ==
    ASSUME OnceInv, [Next]_vars PROVE RetriedRow'
<1>0. /\ TraceInv /\ TypeInv /\ status \in [Events -> Statuses] /\ snap \subseteq Events \X Nat
      /\ cur \in [Threads -> Events \cup {NoEvent}]
      /\ Reconciler \in Threads /\ Reconciler \notin Dirs
  BY Zenon DEF OnceInv, TraceInv, OffsetInv, TypeInv, TypeOK, Threads, Dirs, EthToCanton, CantonToEth,
     Reconciler
<1> DEFINE r == Reconciler
<1> SUFFICES ASSUME cur'[r] # NoEvent
             PROVE  /\ status'[cur'[r]] \in {"pending", "completed"}
                    /\ \A n \in Nat : <<cur'[r], n>> \notin snap'
  BY Zenon DEF RetriedRow
<1>1. CASE cur'[r] = cur[r]
  <2>1. /\ cur[r] \in Events /\ status[cur[r]] \in {"pending", "completed"}
        /\ \A n \in Nat : <<cur[r], n>> \notin snap
    BY <1>0, <1>1, Zenon DEF OnceInv, RetriedRow
  <2>2. status'[cur[r]] \in {"pending", "completed"}
    BY <1>0, <2>1, RowOfThread, Zenon
  <2>3. pc[r] \notin Resting
    BY <1>0, <1>1, Zenon DEF OnceInv, TraceInv, Quiet
  <2>4. snap' \subseteq snap
    BY <1>0, <2>3, NextRetries, Zenon DEF SnapSteps
  <2> QED  BY <1>1, <2>1, <2>2, <2>4, Zenon
<1>2. CASE TakesUp(r)
  <2>1. PICK n \in Nat : <<cur'[r], n>> \in snap /\ snap' = snap \ {<<cur'[r], n>>}
    BY <1>2, Zenon DEF TakesUp
  <2>2. /\ status[cur'[r]] \in {"pending", "completed"}
        /\ \A y \in snap : y[1] = cur'[r] => y = <<cur'[r], n>>
    BY <2>1, Zenon DEF OnceInv, SnapRows
  <2> QED  BY <1>2, <2>1, <2>2, Zenon DEF TakesUp
<1> QED  BY <1>0, <1>1, <1>2, CurSteps, Zenon DEF Takes

\* A row that was retried can only be settled by the reconciler, which takes it
\* out of the snapshot first.
LEMMA SnapRowsNext ==
    ASSUME OnceInv, [Next]_vars PROVE SnapRows'
<1>0. /\ TypeInv /\ status \in [Events -> Statuses] /\ retries \in [Events -> Nat]
      /\ snap \subseteq Events \X Nat
      /\ Dirs \subseteq Threads /\ Reconciler \in Threads
      /\ CantonToEth # EthToCanton
  BY Zenon DEF OnceInv, TraceInv, OffsetInv, TypeInv, TypeOK, Threads, EthToCanton, CantonToEth
<1>1. \A e \in Events : retries'[e] >= retries[e] /\ retries'[e] \in Nat
  BY <1>0, NextRetries DEF RetrySteps
<1>2. ASSUME NEW x \in snap', snap' \subseteq snap,
             pc'[Reconciler] = "select" => pc[Reconciler] = "select"
      PROVE  /\ x[2] <= retries'[x[1]]
             /\ status'[x[1]] \in {"pending", "completed"}
             /\ x[2] > 0 => status'[x[1]] = "pending"
             /\ \A y \in snap' : y[1] = x[1] => y = x
             /\ pc'[Reconciler] = "select" => DirOf[x[1]] = CantonToEth
  <2>1. /\ x \in snap /\ x[1] \in Events /\ x[2] \in Nat /\ x = <<x[1], x[2]>>
        /\ x[2] <= retries[x[1]]
        /\ status[x[1]] \in {"pending", "completed"}
        /\ x[2] > 0 => status[x[1]] = "pending"
        /\ \A y \in snap : y[1] = x[1] => y = x
        /\ pc[Reconciler] = "select" => DirOf[x[1]] = CantonToEth
    BY <1>0, <1>2 DEF OnceInv, SnapRows
  <2>2. x[1] # NoEvent
    BY <2>1, EventNumbers, Zenon DEF NoEvent
  <2>3. ASSUME NEW t \in Threads, cur[t] = x[1] PROVE t \in Dirs /\ x[2] = 0
    <3>1. t \in Dirs
      BY <2>1, <2>2, <2>3, Zenon DEF OnceInv, RetriedRow, Threads
    <3>2. retries[x[1]] = 0
      BY <2>2, <2>3, <3>1, Zenon DEF OnceInv, ProcessorRow
    <3> QED  BY <2>1, <3>1, <3>2
  <2>4. ASSUME NEW n \in Nat, <<x[1], n>> \in snap, snap' = snap \ {<<x[1], n>>} PROVE FALSE
    BY <1>2, <2>1, <2>4, Zenon
  <2>5. \/ status'[x[1]] = status[x[1]]
        \/ status'[x[1]] \in {"pending", "completed"} /\ x[2] = 0
    BY <1>0, <2>1, <2>3, <2>4, RowOfThread, Zenon
  <2>6. x[2] <= retries'[x[1]]
    BY <1>0, <1>1, <2>1
  <2> QED  BY <1>2, <2>1, <2>5, <2>6
<1>3. ASSUME NEW d \in Dirs, NEW x \in PendingTransfers(d)
      PROVE  /\ x[1] \in Events /\ DirOf[x[1]] = d /\ status[x[1]] = "pending"
             /\ x = <<x[1], retries[x[1]]>>
  BY DEF PendingTransfers, EventsOf
<1>4. CASE snap' = PendingTransfers(CantonToEth) /\ UNCHANGED <<status, retries>>
  BY <1>0, <1>3, <1>4 DEF SnapRows, Dirs
<1>5. CASE /\ UNCHANGED <<status, retries>>
           /\ pc[Reconciler] = "select" /\ pc'[Reconciler] = "idle"
           /\ snap' = snap \cup PendingTransfers(EthToCanton)
  <2>1. ASSUME NEW x \in snap' , x \in PendingTransfers(EthToCanton)
        PROVE  /\ x[2] <= retries[x[1]] /\ status[x[1]] = "pending"
               /\ DirOf[x[1]] = EthToCanton
               /\ \A y \in PendingTransfers(EthToCanton) : y[1] = x[1] => y = x
    BY <1>0, <1>3, <2>1 DEF Dirs
  <2>2. ASSUME NEW x \in snap
        PROVE  /\ x[2] <= retries[x[1]] /\ status[x[1]] \in {"pending", "completed"}
               /\ x[2] > 0 => status[x[1]] = "pending"
               /\ DirOf[x[1]] = CantonToEth
               /\ \A y \in snap : y[1] = x[1] => y = x
    BY <1>5, <2>2, Zenon DEF OnceInv, SnapRows
  <2>3. \A x, y \in snap' : y[1] = x[1] => y = x
    BY <1>0, <1>5, <2>1, <2>2
  <2> QED  BY <1>5, <2>1, <2>2, <2>3, Zenon DEF SnapRows
<1>6. CASE snap' \subseteq snap /\ (pc'[Reconciler] = "select" => pc[Reconciler] = "select")
  BY <1>2, <1>6, Zenon DEF SnapRows
<1> QED  BY <1>0, <1>4, <1>5, <1>6, NextRetries, Zenon DEF SnapSteps

\* A check that answers keeps a second deposit from being created.
LEMMA CreatedNext ==
    ASSUME OnceInv, [Next]_vars, ~CheckFaults PROVE CreatedOnce'
<1>0. /\ TraceInv /\ TypeInv /\ TypeInv'
      /\ pendingDep \in [Events -> Nat] /\ minted \in [Events -> Nat]
      /\ cur \in [Threads -> Events \cup {NoEvent}]
      /\ \A t \in Threads : pc[t] \notin Resting => cur[t] \in Events /\ cur[t] # NoEvent
  BY Zenon, NextTyped, EventNumbers
     DEF OnceInv, TraceInv, OffsetInv, TypeInv, TypeOK, DestTypeOK, Busy, Resting, NoEvent
<1>1. DestSteps
  BY <1>0, NextDest, Zenon
<1>2. ASSUME NEW e \in Events
      PROVE  /\ Total(e) \in Nat /\ Total(e) <= 1
             /\ DirOf[e] # EthToCanton => Total(e) = 0
             /\ DirOf[e] = EthToCanton => e \notin released
  BY <1>0 DEF Total, OnceInv, CreatedOnce
<1>3. ASSUME NEW e \in Events
      PROVE  \/ Total(e)' = Total(e)
             \/ /\ Total(e) = 0 /\ Total(e)' = 1 /\ DirOf[e] = EthToCanton
                /\ \E t \in Threads : pc[t] = "create" /\ pc'[t] # "create" /\ cur[t] = e
  <2>1. ASSUME NEW t \in Threads, pc[t] = "create", pc'[t] # "create", CreatePendingDeposit(cur[t])
        PROVE  \/ Total(e)' = Total(e)
               \/ /\ Total(e) = 0 /\ Total(e)' = 1 /\ DirOf[e] = EthToCanton
                  /\ \E u \in Threads : pc[u] = "create" /\ pc'[u] # "create" /\ cur[u] = e
    <3>1. Total(cur[t]) = 0 /\ DirOf[cur[t]] = EthToCanton /\ cur[t] \in Events
      BY <1>0, <2>1, Zenon DEF OnceInv, CreatedOnce, TraceInv, Reached, Resting
    <3>a. /\ pendingDep \in [Events -> Nat] /\ minted \in [Events -> Nat]
      BY <1>0, Zenon
    <3>b. /\ pendingDep' = [pendingDep EXCEPT ![cur[t]] = @ + 1] /\ minted' = minted
      BY <2>1, Zenon DEF CreatePendingDeposit
    <3>2. CASE cur[t] = e
      <4>1. pendingDep'[e] = pendingDep[e] + 1 /\ pendingDep[e] \in Nat /\ minted[e] \in Nat
        BY <3>a, <3>b, <3>2, Zenon
      <4>2. Total(e)' = Total(e) + 1
        BY <3>b, <4>1 DEF Total
      <4>3. Total(e) = 0 /\ DirOf[e] = EthToCanton
        BY <3>1, <3>2, Zenon
      <4> QED  BY <2>1, <3>2, <4>2, <4>3
    <3>3. CASE cur[t] # e
      <4>1. pendingDep'[e] = pendingDep[e]
        BY <3>a, <3>b, <3>3, Zenon
      <4> QED  BY <3>b, <4>1, Zenon DEF Total
    <3> QED  BY <3>2, <3>3, Zenon
  <2>2. ASSUME NEW t \in Threads, pc[t] = "mint", ProcessDepositAndMint(cur[t])
        PROVE  Total(e)' = Total(e)
    BY <1>0, <2>2 DEF ProcessDepositAndMint, Total, Resting
  <2>3. CASE UNCHANGED <<pendingDep, minted>>
    BY <2>3, Zenon DEF Total
  <2> QED
    BY <1>1, <2>1, <2>2, <2>3, Zenon DEF DestSteps, destVars, WithdrawFromCanton, CompleteWithdrawal,
       EvmStep, EvmMine, EvmDrop, cantonVars
<1>4. ASSUME NEW e \in Events, DirOf[e] = EthToCanton PROVE e \notin released'
  <2>1. e \notin released
    BY <1>2, <1>4, Zenon
  <2>2. CASE EvmStep
    BY <1>4, <2>1, <2>2, Zenon DEF EvmStep, EvmMine, EvmDrop, EventsOf, EthToCanton, CantonToEth
  <2>3. CASE ~EvmStep
    BY <1>1, <2>1, <2>3, Zenon DEF DestSteps, destVars, CreatePendingDeposit, ProcessDepositAndMint,
         WithdrawFromCanton, CompleteWithdrawal, evmVars
  <2> QED  BY <2>2, <2>3, Zenon
<1>5. ASSUME NEW t \in Threads, pc'[t] = "create" PROVE Total(cur[t])' = 0
  <2>1. cur'[t] = cur[t] /\ (pc[t] = "create" \/ (pc[t] = "check" /\ Submits(t)))
    <3>1. Moves(t)
      BY <1>0, NextMoves, Zenon DEF TraceInv
    <3> QED  BY <1>5, <3>1, Zenon DEF Moves, Submits, Resting
  <2>2. PICK e \in Events : e = cur[t] /\ e # NoEvent
    BY <1>0, <2>1, Zenon DEF Resting
  <2>3. CASE pc[t] = "create"
    <3>1. Total(e) = 0
      BY <2>2, <2>3, Zenon DEF OnceInv, CreatedOnce
    <3>2. \A u \in Threads : cur[u] = e => u = t
      BY <2>2, Zenon DEF OnceInv, Exclusive
    <3>3. Total(e)' = 0
      BY <1>3, <1>5, <3>1, <3>2, Zenon
    <3> QED  BY <2>1, <2>2, <3>3, Zenon DEF Total
  <2>4. CASE pc[t] = "check" /\ Submits(t)
    <3>1. /\ DirOf[e] = EthToCanton /\ ~IsDepositProcessed(e) /\ UNCHANGED destVars
      BY <1>5, <2>2, <2>4, Zenon DEF Submits, FirstCall, AlreadyProcessed
    <3>2. pendingDep[e] = 0 /\ minted[e] = 0
      BY <1>0, <3>1 DEF IsDepositProcessed, EventsOf
    <3> QED  BY <2>1, <2>2, <3>1, <3>2 DEF Total, destVars
  <2> QED  BY Zenon, <2>1, <2>3, <2>4
<1>6. \A e \in Events : /\ Total(e)' <= 1
                        /\ DirOf[e] # EthToCanton => Total(e)' = 0
  BY <1>2, <1>3
<1> QED  BY <1>4, <1>5, <1>6, Zenon DEF CreatedOnce

\* There are no rows, no effects and no work at first.
LEMMA OnceInit == Init => OnceInv
<1> SUFFICES ASSUME Init PROVE OnceInv
  BY Zenon
<1>1. TraceInv
  BY TraceInit, Zenon
<1>2. Exclusive /\ ProcessorRow /\ RetriedRow /\ SnapRows
  BY Zenon DEF Init, Exclusive, ProcessorRow, RetriedRow, SnapRows, Threads
<1>3. AbsentClean
  BY EventNumbers, Zenon DEF Init, DestInit, AbsentClean, NoEvent
<1>4. CreatedOnce
  BY DEF Init, DestInit, CreatedOnce, Total
<1> QED  BY <1>1, <1>2, <1>3, <1>4, Zenon DEF OnceInv

\* Every step keeps the invariant behind the two theorems below.
LEMMA OnceNext ==
    ASSUME ~CheckFaults, ~SlowSubmit PROVE OnceInv /\ [Next]_vars => OnceInv'
<1> SUFFICES ASSUME OnceInv, [Next]_vars PROVE OnceInv'
  BY Zenon
<1>1. TraceInv'
  BY TraceNext, Zenon DEF OnceInv
<1> QED
  BY <1>1, ExclusiveNext, AbsentNext, ProcessorRowNext, RetriedRowNext, SnapRowsNext, CreatedNext, Zenon
     DEF OnceInv

\* A deposit is minted at most once, for any number of retries, crashes and lost
\* answers, if checks answer and submissions end within RetryDelay
\* (SubmitTransfer, runReconciliation).
THEOREM MintsOnce ==
    ASSUME ~CheckFaults, ~SlowSubmit PROVE Spec => []MintAtMostOnce
<1>1. OnceInv => MintAtMostOnce
  <2> SUFFICES ASSUME OnceInv, NEW e \in Events PROVE minted[e] <= 1
    BY Zenon DEF MintAtMostOnce
  <2>1. pendingDep[e] \in Nat /\ minted[e] \in Nat
    BY Zenon DEF OnceInv, TraceInv, OffsetInv, TypeInv, TypeOK, DestTypeOK
  <2>2. pendingDep[e] + minted[e] <= 1
    BY Zenon DEF OnceInv, CreatedOnce, Total
  <2> QED  BY <2>1, <2>2
<1> QED  BY <1>1, OnceInit, OnceNext, PTL DEF Spec

\* The effect of an event on its destination, as TransferLifecycle counts it.
Effect == [e \in Events |-> minted[e] + (IF e \in released THEN 1 ELSE 0)]

\* Effect changes at one event.
LEMMA EffectAt ==
    ASSUME NEW e \in Events, Effect'[e] = 1, \A f \in Events \ {e} : Effect'[f] = Effect[f]
    PROVE  Effect' = [Effect EXCEPT ![e] = 1]
<1>1. /\ Effect = [f \in Events |-> Effect[f]]
      /\ Effect' = [f \in Events |-> Effect'[f]]
  BY Zenon DEF Effect
<1>2. [Effect EXCEPT ![e] = 1] = [f \in Events |-> IF f = e THEN 1 ELSE Effect[f]]
  BY <1>1, Zenon
<1> QED  BY <1>1, <1>2, Zenon

\* A step that writes no row is a mint, a release, or neither.
LEMMA EffectSteps ==
    ASSUME OnceInv, [Next]_vars, UNCHANGED status
    PROVE  \/ Effect' = Effect
           \/ \E e \in Events : /\ status[e] # "absent" /\ Effect[e] = 0
                                /\ Effect' = [Effect EXCEPT ![e] = 1]
<1>0. /\ TypeInv /\ minted \in [Events -> Nat] /\ pendingDep \in [Events -> Nat]
      /\ evmSent \in [Events -> Nat] /\ evmDone \in [Events -> Nat]
      /\ cur \in [Threads -> Events \cup {NoEvent}]
      /\ \A t \in Threads : pc[t] \notin Resting => cur[t] \in Events
  BY Zenon DEF OnceInv, TraceInv, OffsetInv, TypeInv, TypeOK, DestTypeOK, Busy, Resting
<1>1. CASE UNCHANGED <<minted, released>>
  BY <1>1, Zenon DEF Effect
<1>2. ASSUME NEW t \in Threads, pc[t] = "mint", ProcessDepositAndMint(cur[t])
      PROVE  \E e \in Events : /\ status[e] # "absent" /\ Effect[e] = 0
                               /\ Effect' = [Effect EXCEPT ![e] = 1]
  <2>1. PICK e \in Events : e = cur[t]
    BY <1>0, <1>2, Zenon DEF Resting
  <2>2. status[e] # "absent" /\ DirOf[e] = EthToCanton
    BY <1>2, <2>1, Zenon DEF OnceInv, AbsentClean, TraceInv, Reached
  <2>3. minted[e] = 0 /\ e \notin released
    <3>1. pendingDep[e] + minted[e] <= 1 /\ e \notin released
      BY <2>2, Zenon DEF OnceInv, CreatedOnce, Total
    <3>2. pendingDep[e] > 0 /\ pendingDep[e] \in Nat /\ minted[e] \in Nat
      BY <1>0, <1>2, <2>1, Zenon DEF ProcessDepositAndMint
    <3> QED  BY <3>1, <3>2
  <2>4. minted' = [minted EXCEPT ![e] = 1] /\ released' = released
    BY <1>0, <1>2, <2>1, <2>3 DEF ProcessDepositAndMint, evmVars
  <2>5. \A f \in Events : minted'[f] = (IF f = e THEN 1 ELSE minted[f])
    BY <1>0, <2>4, Zenon
  <2>6. Effect'[e] = 1 /\ Effect[e] = 0
    BY <2>3, <2>4, <2>5 DEF Effect
  <2>7. \A f \in Events \ {e} : Effect'[f] = Effect[f]
    BY <2>4, <2>5 DEF Effect
  <2> QED  BY <2>2, <2>6, <2>7, EffectAt, Zenon
<1>3. ASSUME NEW e \in EventsOf(CantonToEth), EvmMine(e), e \notin released
      PROVE  /\ status[e] # "absent" /\ Effect[e] = 0
             /\ Effect' = [Effect EXCEPT ![e] = 1]
  <2>1. e \in Events /\ DirOf[e] # EthToCanton
    BY Zenon DEF EventsOf, EthToCanton, CantonToEth
  <2>2. status[e] # "absent"
    BY <1>0, <1>3, <2>1 DEF EvmMine, OnceInv, AbsentClean
  <2>3. minted[e] = 0
    BY <1>0, <2>1 DEF OnceInv, CreatedOnce, Total
  <2>4. minted' = minted /\ released' = released \cup {e}
    BY <1>3, Zenon DEF EvmMine, cantonVars
  <2>5. Effect'[e] = 1 /\ Effect[e] = 0
    BY <1>3, <2>1, <2>3, <2>4 DEF Effect
  <2>6. \A f \in Events \ {e} : Effect'[f] = Effect[f]
    BY <2>4, Zenon DEF Effect
  <2> QED  BY <2>1, <2>2, <2>5, <2>6, EffectAt, Zenon
<1>4. CASE EvmStep
  <2>1. PICK e \in EventsOf(CantonToEth) : EvmMine(e) \/ EvmDrop(e)
    BY <1>4, Zenon DEF EvmStep
  <2>2. CASE EvmDrop(e) \/ e \in released
    <3>1. UNCHANGED <<minted, released>>
      BY <2>1, <2>2, Zenon DEF EvmMine, EvmDrop, cantonVars
    <3> QED  BY <1>1, <3>1, Zenon
  <2>3. CASE EvmMine(e) /\ e \notin released
    BY <1>3, <2>3, Zenon DEF EventsOf
  <2> QED  BY <2>1, <2>2, <2>3, Zenon
<1>5. CASE \E t \in Threads : pc[t] = "mint" /\ ProcessDepositAndMint(cur[t])
  BY <1>2, <1>5, Zenon
<1> QED
  BY <1>0, <1>1, <1>4, <1>5, NextDest, Zenon DEF DestSteps, destVars, CreatePendingDeposit,
     WithdrawFromCanton, CompleteWithdrawal, cantonVars, evmVars

\* A step that writes a row records or settles it, or writes what it holds.
LEMMA StatusSteps ==
    ASSUME OnceInv, [Next]_vars, status' # status
    PROVE  /\ Effect' = Effect
           /\ \E e \in Events :
                \/ status[e] = "absent" /\ status' = [status EXCEPT ![e] = "pending"]
                \/ /\ status[e] = "pending"
                   /\ \E s \in {"completed", "failed"} : status' = [status EXCEPT ![e] = s]
<1>0. /\ TypeInv /\ status \in [Events -> Statuses] /\ snap \subseteq Events \X Nat
      /\ \A t \in Threads : pc[t] \notin Resting => cur[t] \in Events /\ cur[t] # NoEvent
      /\ \A d \in Dirs : d \in Threads
  BY EventNumbers, Zenon DEF OnceInv, TraceInv, OffsetInv, TypeInv, TypeOK, Busy, Resting, NoEvent, Threads
<1>1. RowSteps
  BY <1>0, NextRows, Zenon
<1>2. Effect' = Effect
  BY <1>1, Zenon DEF RowSteps, destVars, Effect
<1>3. ASSUME NEW t \in Threads, pc[t] \in {"ok", "skipped"},
             status' = [status EXCEPT ![cur[t]] = "completed"]
      PROVE  cur[t] \in Events /\ status[cur[t]] = "pending"
  <2>1. cur[t] \in Events /\ cur[t] # NoEvent
    BY <1>0, <1>3, Zenon DEF Resting
  <2>2. status[cur[t]] \in {"pending", "completed"}
    BY <1>3, <2>1, Zenon DEF OnceInv, ProcessorRow, RetriedRow, Threads
  <2>3. status[cur[t]] # "completed"
    BY <1>0, <1>3, <2>1, Zenon
  <2> QED  BY <2>1, <2>2, <2>3, Zenon
<1>4. ASSUME NEW d \in Dirs, pc[d] = "err", status' = [status EXCEPT ![cur[d]] = "pending"]
      PROVE  FALSE
  <2>1. cur[d] \in Events /\ status[cur[d]] = "pending"
    BY <1>0, <1>4, Zenon DEF Resting, OnceInv, ProcessorRow
  <2> QED  BY <1>0, <1>4, <2>1, Zenon
<1>5. ASSUME NEW x \in snap, Exhausted(x[2])
      PROVE  x[1] \in Events /\ status[x[1]] = "pending"
  <2>1. x[1] \in Events /\ x[2] \in Nat
    BY <1>0, Zenon
  <2>2. x[2] > 0
    BY <1>5, <2>1, ConfigAssumption DEF Exhausted
  <2> QED  BY <2>1, <2>2, Zenon DEF OnceInv, SnapRows
<1> QED  BY <1>1, <1>2, <1>3, <1>4, <1>5, Zenon DEF RowSteps

\* The two processors and the reconciler implement the lifecycle of a transfer,
\* for any number of events, retries, crashes, database faults and lost answers,
\* if checks answer and submissions end within RetryDelay: no late update takes
\* a settled row back and no effect comes twice (UpdateTransferStatus).
THEOREM ImplementsLifecycle ==
    ASSUME ~CheckFaults, ~SlowSubmit PROVE Spec => LifecycleSpec
<1>1. Init => Lifecycle!Init
  BY DEF Init, DestInit, Lifecycle!Init
<1>2. OnceInv /\ [Next]_vars => [Lifecycle!Next]_<<status, Effect>>
  <2> SUFFICES ASSUME OnceInv, [Next]_vars PROVE [Lifecycle!Next]_<<status, Effect>>
    BY Zenon
  <2>1. CASE status' = status
    BY <2>1, EffectSteps, Zenon DEF Effect, Lifecycle!Next, Lifecycle!TakeEffect
  <2>2. CASE status' # status
    BY <2>2, StatusSteps, Zenon DEF Effect, Lifecycle!Next, Lifecycle!Record, Lifecycle!Settle
  <2> QED  BY <2>1, <2>2, Zenon
<1> QED  BY <1>1, <1>2, OnceInit, OnceNext, PTL DEF Spec, LifecycleSpec, Lifecycle!Spec, Effect
=============================================================================
