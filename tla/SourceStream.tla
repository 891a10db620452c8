---------------------------- MODULE SourceStream ----------------------------
(***************************************************************************)
(* The event sources of pkg/relayer/engine/source.go with the clients they *)
(* drive: the deposit poller of pkg/ethereum/client.go (blocks scanned in  *)
(* slices, each closed by a checkpoint) and the withdrawal stream of       *)
(* pkg/cantonsdk/bridge/client.go (one ledger transaction at a time, no    *)
(* checkpoints).  Both hand their events, in chain order, to a channel the *)
(* processor reads.                                                        *)
(*                                                                         *)
(* A slice is (cursor, upto].  The source is between slices when           *)
(* upto = cursor.  On Canton a slice ends at the next ledger transaction   *)
(* that holds withdrawals; lastOffset is only read between transactions    *)
(* (a stream error surfaces in Recv), so it advances once per slice here.  *)
(***************************************************************************)
EXTENDS BridgeTypes, Sequences

VARIABLES
    head,    \* [Dirs -> Nat] latest block / ledger end of the source chain
    cursor,  \* [Dirs -> Nat] currentBlock / currentOffset
    upto,    \* [Dirs -> Nat] end of the slice being delivered
    sent,    \* [Dirs -> Events or NoEvent] last event delivered from the slice
    queue    \* [Dirs -> Seq(Item)] the channel

sourceVars == <<head, cursor, upto, sent, queue>>
streamVars == <<cursor, upto, sent, queue>>

\* A relayer.Event: a transfer, or (ev = NoEvent) a Checkpoint.
Item == [ev : Events \cup {NoEvent}, pos : Nat]

SourceInit ==
    /\ head = [d \in Dirs |-> 0]
    /\ cursor = [d \in Dirs |-> 0]
    /\ upto = [d \in Dirs |-> 0]
    /\ sent = [d \in Dirs |-> NoEvent]
    /\ queue = [d \in Dirs |-> <<>>]

\* StreamEvents(offset) begins, or the process is gone and so are its channels.
StreamFrom(start) ==
    /\ cursor' = start
    /\ upto' = start
    /\ sent' = [d \in Dirs |-> NoEvent]
    /\ queue' = [d \in Dirs |-> <<>>]

\* The source chain produces a block, or its ledger end moves.
ChainAdvances(d) ==
    /\ head[d] < MaxPos[d]
    /\ head' = [head EXCEPT ![d] = @ + 1]
    /\ UNCHANGED streamVars

\* The end of the first range of chunkRange(cursor + 1, latest, MaxBlockRange).
ChunkEnd(start, latest) ==
    IF latest - start >= MaxBlockRange THEN start + MaxBlockRange - 1 ELSE latest

\* One range of a poll tick.  The head read at the start of the tick may lag.
PollSlice ==
    LET d == EthToCanton IN
    /\ upto[d] = cursor[d]
    /\ \E latest \in (cursor[d] + 1) .. head[d] :
          upto' = [upto EXCEPT ![d] = ChunkEnd(cursor[d] + 1, latest)]
    /\ UNCHANGED <<head, cursor, sent, queue>>

\* GetUpdates (BeginExclusive) yields the next transaction with withdrawals.
ReceiveTransaction ==
    LET d == CantonToEth
        ahead == {e \in EventsOf(d) : cursor[d] < PosOf[e] /\ PosOf[e] <= head[d]} IN
    /\ upto[d] = cursor[d]
    /\ \E e \in ahead :
          /\ \A f \in ahead : PosOf[e] <= PosOf[f]
          /\ upto' = [upto EXCEPT ![d] = PosOf[e]]
    /\ UNCHANGED <<head, cursor, sent, queue>>

\* Events of the open slice that the channel has not accepted yet.
Unsent(d) ==
    {e \in EventsOf(d) : cursor[d] < PosOf[e] /\ PosOf[e] <= upto[d] /\ sent[d] < e}

\* handler(depositEvent) and outCh <- we: the channel accepts the next event.
EmitEvent(d) ==
    /\ Len(queue[d]) < ChanCap
    /\ \E e \in Unsent(d) :
          /\ \A f \in Unsent(d) : e <= f
          /\ queue' = [queue EXCEPT ![d] = Append(@, [ev |-> e, pos |-> PosOf[e]])]
          /\ sent' = [sent EXCEPT ![d] = e]
    /\ UNCHANGED <<head, cursor, upto>>

\* Mutant: the checkpoint overtakes the events of its slice.
EmitCheckpoint_Early ==
    LET d == EthToCanton IN
    /\ cursor[d] < upto[d]
    /\ Len(queue[d]) < ChanCap
    /\ queue' = [queue EXCEPT ![d] = Append(@, [ev |-> NoEvent, pos |-> upto[d]])]
    /\ cursor' = [cursor EXCEPT ![d] = upto[d]]
    /\ sent' = [sent EXCEPT ![d] = NoEvent]
    /\ UNCHANGED <<head, upto>>

\* The slice is done.  The poller sends its checkpoint before it advances.
EmitCheckpoint ==
    LET d == EthToCanton IN
    /\ cursor[d] < upto[d]
    /\ Unsent(d) = {}
    /\ Len(queue[d]) < ChanCap
    /\ queue' = [queue EXCEPT ![d] = Append(@, [ev |-> NoEvent, pos |-> upto[d]])]
    /\ cursor' = [cursor EXCEPT ![d] = upto[d]]
    /\ sent' = [sent EXCEPT ![d] = NoEvent]
    /\ UNCHANGED <<head, upto>>

TransactionDone ==
    LET d == CantonToEth IN
    /\ cursor[d] < upto[d]
    /\ Unsent(d) = {}
    /\ cursor' = [cursor EXCEPT ![d] = upto[d]]
    /\ sent' = [sent EXCEPT ![d] = NoEvent]
    /\ UNCHANGED <<head, upto, queue>>

\* Mutant: a failing slice is skipped instead of scanned again.
SliceFails_Skips ==
    LET d == EthToCanton IN
    /\ cursor[d] < upto[d]
    /\ cursor' = [cursor EXCEPT ![d] = upto[d]]
    /\ sent' = [sent EXCEPT ![d] = NoEvent]
    /\ UNCHANGED <<head, upto, queue>>

\* A filter or iterator error: the slice is scanned again on the next tick.
SliceFails ==
    LET d == EthToCanton IN
    /\ cursor[d] < upto[d]
    /\ upto' = [upto EXCEPT ![d] = cursor[d]]
    /\ sent' = [sent EXCEPT ![d] = NoEvent]
    /\ UNCHANGED <<head, cursor, queue>>

\* Steps by which the source of direction d makes progress.
StreamStep(d) ==
    \/ d = EthToCanton /\ (PollSlice \/ EmitCheckpoint)
    \/ d = CantonToEth /\ (ReceiveTransaction \/ TransactionDone)
    \/ EmitEvent(d)

SourceTypeOK ==
    /\ head \in [Dirs -> Nat]
    /\ cursor \in [Dirs -> Nat]
    /\ upto \in [Dirs -> Nat]
    /\ sent \in [Dirs -> Events \cup {NoEvent}]
    /\ queue \in [Dirs -> Seq(Item)]
=============================================================================
