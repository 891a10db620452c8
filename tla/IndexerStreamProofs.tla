------------------------ MODULE IndexerStreamProofs -------------------------
(***************************************************************************)
(* The indexer, for every ledger, queue size and number of crashes: the    *)
(* batches are in sequence, the tables are the transactions applied in     *)
(* order, and each access token is given up in time.                       *)
(***************************************************************************)
EXTENDS Indexer, TLAPS

----------------------------------------------------------------------------
(* The batches are in sequence.                                            *)
----------------------------------------------------------------------------

StreamTypes ==
    /\ log \in Seq(Transactions)
    /\ offset \in Nat /\ last \in Nat /\ pos \in Nat /\ from \in Nat
    /\ queue \in Seq(Nat)
    /\ lostAcks \in 0 .. MaxLostAcks

\* The queue holds transactions 1 and up.
SeqInv == StreamTypes /\ InSequence /\ Len(queue) <= last

LEMMA InitSeqInv == Init => SeqInv
BY IndexerAssumption DEF Init, SeqInv, StreamTypes, InSequence

\* The ledger grows behind the stream.
LEMMA TransactKeeps ==
    ASSUME SeqInv, Transact PROVE SeqInv'
<1>1. PICK tx \in Transactions : log' = Append(log, tx)
  BY IndexerAssumption, Zenon DEF Transact
<1>2. StreamTypes'
  BY <1>1 DEF SeqInv, StreamTypes, Transact, stream, bounds
<1>3. Len(log') = Len(log) + 1
  BY <1>1 DEF SeqInv, StreamTypes
<1> QED
  BY <1>2, <1>3 DEF SeqInv, InSequence, StreamTypes, Transact, stream, bounds

\* A reconnection starts where the last transaction received ends.
LEMMA ConnectionKeeps ==
    ASSUME SeqInv, OpenStream \/ OpenRefused \/ Disconnect \/ Eof \/ ProcessorEnds
    PROVE  SeqInv'
BY Zenon DEF SeqInv, InSequence, StreamTypes, OpenStream, OpenRefused, Disconnect, Eof,
       ProcessorEnds, Resume, stream, bounds

LEMMA RecvKeeps ==
    ASSUME SeqInv, Recv PROVE SeqInv'
<1>1. /\ proc = "up" /\ conn = "open" /\ pos = last /\ pos < Len(log)
      /\ pos \in Nat /\ offset \in Nat /\ Len(log) \in Nat
      /\ queue \in Seq(Nat) /\ Len(queue) \in Nat
      /\ queue' = Append(queue, pos + 1) /\ last' = pos + 1 /\ pos' = pos + 1
      /\ UNCHANGED <<log, offset, proc, conn, from, lostAcks>>
  BY DEF SeqInv, InSequence, StreamTypes, Recv, bounds
<1>2. Len(queue') = Len(queue) + 1 /\ queue' # <<>> /\ queue' \in Seq(Nat)
  BY <1>1
<1>3. last' - Len(queue') = last - Len(queue)
  BY <1>1, <1>2
<1>4. ASSUME NEW k \in 1 .. Len(queue')
      PROVE  queue'[k] = last' - Len(queue') + k
  <2>1. CASE k = Len(queue')
    BY <2>1, <1>1, <1>2
  <2>2. CASE k # Len(queue')
    <3>1. k \in 1 .. Len(queue) /\ queue'[k] = queue[k]
      BY <2>2, <1>1, <1>2
    <3> QED
      BY <3>1, <1>1, <1>3, Zenon DEF SeqInv, InSequence
  <2> QED
    BY <2>1, <2>2
<1>5. StreamTypes'
  BY <1>1, <1>2 DEF SeqInv, StreamTypes
<1>6. last' \in 0 .. Len(log')
  BY <1>1
<1>7. offset' \in 0 .. Len(log')
  BY <1>1, Zenon DEF SeqInv, InSequence
<1>8. LET base == last' - Len(queue')
      IN  base = offset' \/ (base = offset' - 1 /\ queue' # <<>> /\ lostAcks' > 0)
  BY <1>1, <1>2, <1>3, Zenon DEF SeqInv, InSequence
<1>9. Len(queue') <= last'
  BY <1>1, <1>2 DEF SeqInv
<1> QED
  BY <1>1, <1>4, <1>5, <1>6, <1>7, <1>8, <1>9 DEF SeqInv, InSequence

LEMMA RestartKeeps ==
    ASSUME SeqInv, Start \/ Crash PROVE SeqInv'
<1>1. /\ queue' = <<>> /\ Len(queue') = 0 /\ pos' = 0
      /\ UNCHANGED <<log, offset, lostAcks>>
      /\ offset \in Nat /\ offset \in 0 .. Len(log) /\ Len(log) \in Nat
  BY DEF SeqInv, InSequence, StreamTypes, Start, Crash, bounds
<1>2. CASE Start
  <2>1. conn' = "idle" /\ from' = offset /\ last' = offset
    BY <1>2, Zenon DEF Start
  <2> QED
    BY <1>1, <2>1 DEF SeqInv, InSequence, StreamTypes
<1>3. CASE Crash
  <2>1. proc' = "down" /\ from' = 0 /\ last' = 0
    BY <1>3, Zenon DEF Crash
  <2> QED
    BY <1>1, <2>1 DEF SeqInv, InSequence, StreamTypes
<1> QED
  BY <1>2, <1>3, Zenon

\* The head of the queue is the transaction next to the stored offset, or the
\* one at it when the answer of its commit was lost.
LEMMA HeadOfQueue ==
    ASSUME SeqInv, proc = "up", queue # <<>>
    PROVE  /\ Head(queue) \in 1 .. Len(log)
           /\ Head(queue) = offset + 1 \/ (Head(queue) = offset /\ lostAcks > 0)
           /\ Head(queue) = last - Len(queue) + 1
<1>1. Len(queue) \in Nat \ {0} /\ Head(queue) = queue[1]
  BY DEF SeqInv, StreamTypes
<1>2. Head(queue) = last - Len(queue) + 1
  BY <1>1 DEF SeqInv, InSequence
<1>3. Head(queue) \in Nat
  BY <1>1 DEF SeqInv, StreamTypes
<1>4. last <= Len(log) /\ last \in Nat /\ offset \in Nat /\ Len(log) \in Nat
  BY DEF SeqInv, InSequence, StreamTypes
<1>5. last - Len(queue) = offset \/ (last - Len(queue) = offset - 1 /\ lostAcks > 0)
  BY Zenon DEF SeqInv, InSequence
<1>6. Len(queue) <= last
  BY Zenon DEF SeqInv
<1> QED
  BY <1>1, <1>2, <1>4, <1>5, <1>6

LEMMA ApplyKeeps ==
    ASSUME SeqInv, Apply PROVE SeqInv'
<1>1. /\ proc = "up" /\ queue # <<>> /\ queue \in Seq(Nat)
      /\ offset' = Head(queue) /\ queue' = Tail(queue)
      /\ UNCHANGED <<log, proc, conn, from, last, pos, lostAcks>>
  BY Zenon DEF SeqInv, StreamTypes, Apply, Commit, bounds
<1>2. /\ Len(queue') = Len(queue) - 1 /\ queue' \in Seq(Nat)
      /\ Len(queue) \in Nat \ {0} /\ last \in Nat
      /\ \A k \in 1 .. Len(queue') : queue'[k] = queue[k + 1]
  BY <1>1 DEF SeqInv, StreamTypes
<1>3. offset' \in 1 .. Len(log) /\ offset' = last - Len(queue) + 1
  BY <1>1, HeadOfQueue, Zenon
<1>4. \A k \in 1 .. Len(queue') : queue'[k] = last' - Len(queue') + k
  BY <1>1, <1>2 DEF SeqInv, InSequence
<1>5. StreamTypes'
  BY <1>1, <1>2, <1>3 DEF SeqInv, StreamTypes
<1>6. last' - Len(queue') = offset'
  BY <1>1, <1>2, <1>3
<1>7. Len(queue') <= last'
  BY <1>1, <1>2 DEF SeqInv
<1> QED
  BY <1>1, <1>3, <1>4, <1>5, <1>6, <1>7 DEF SeqInv, InSequence

LEMMA LostAckKeeps ==
    ASSUME SeqInv, ApplyLostAck PROVE SeqInv'
<1>1. /\ proc = "up" /\ queue # <<>> /\ offset' = Head(queue)
      /\ lostAcks' = lostAcks + 1 /\ lostAcks < MaxLostAcks
      /\ UNCHANGED <<log, proc, conn, from, last, pos, queue>>
  BY Zenon DEF ApplyLostAck, Commit, stream
<1>2. offset' \in 1 .. Len(log) /\ offset' = last - Len(queue) + 1
  BY <1>1, HeadOfQueue, Zenon
<1>3. lostAcks' \in 0 .. MaxLostAcks /\ lostAcks' > 0
  BY <1>1, IndexerAssumption DEF SeqInv, StreamTypes
<1>4. last' - Len(queue') = offset' - 1
  BY <1>1, <1>2 DEF SeqInv, StreamTypes
<1>5. StreamTypes'
  BY <1>1, <1>2, <1>3 DEF SeqInv, StreamTypes
<1> QED
  BY <1>1, <1>2, <1>3, <1>4, <1>5 DEF SeqInv, InSequence

LEMMA OthersKeep ==
    ASSUME SeqInv, Tick \/ Revoke \/ UNCHANGED vars PROVE SeqInv'
BY Zenon DEF SeqInv, InSequence, StreamTypes, Tick, Revoke, vars, stream, bounds

LEMMA NextKeepsSeqInv == SeqInv /\ [Next]_vars => SeqInv'
BY TransactKeeps, ConnectionKeeps, RecvKeeps, RestartKeeps, ApplyKeeps, LostAckKeeps,
   OthersKeep, Zenon DEF Next

LEMMA AlwaysSeqInv == Spec => []SeqInv
BY InitSeqInv, NextKeepsSeqInv, PTL DEF Spec

\* Whatever the order of receiving, disconnecting, crashing, restarting and
\* losing the answer of a commit, the batches on their way to the processor
\* follow the stored offset without a gap (Subscribe, Run, processBatch).
THEOREM BatchesInSequence == Spec => []InSequence
<1>1. SeqInv => InSequence
  BY Zenon DEF SeqInv
<1> QED
  BY <1>1, AlwaysSeqInv, PTL

----------------------------------------------------------------------------
(* The tables are the transactions applied in order.                       *)
----------------------------------------------------------------------------

LEMMA InitMaps == Init => Ledger!LedgerInit
BY Zenon DEF Init, Ledger!LedgerInit

LEMMA TransactMaps ==
    ASSUME SeqInv, Transact PROVE Ledger!Grow
<1>1. PICK tx \in Transactions : log' = Append(log, tx)
  BY IndexerAssumption, Zenon DEF Transact
<1>2. log \in Seq(Transactions)
  BY Zenon DEF SeqInv, StreamTypes
<1>3. Len(log') = Len(log) + 1 /\ \A n \in 1 .. Len(log) : log'[n] = log[n]
  BY <1>1, <1>2
<1> QED
  BY <1>3, Zenon DEF Ledger!Grow, Transact

\* A commit applies the next transaction, or the last one again.
LEMMA CommitMaps ==
    ASSUME SeqInv, Commit, UNCHANGED log
    PROVE  Ledger!Index(offset + 1) \/ (MaxLostAcks > 0 /\ Ledger!Index(offset))
<1>1. Ledger!Index(Head(queue))
  BY HeadOfQueue, Zenon DEF Commit, Ledger!Index
<1>2. Head(queue) = offset + 1 \/ (Head(queue) = offset /\ lostAcks > 0)
  BY HeadOfQueue, Zenon DEF Commit
<1>3. lostAcks > 0 => MaxLostAcks > 0
  BY IndexerAssumption DEF SeqInv, StreamTypes
<1> QED
  BY <1>1, <1>2, <1>3, Zenon

LEMMA StepMaps ==
    SeqInv /\ [Next]_vars => [Ledger!LedgerNext]_(Ledger!ledgerVars)
<1> SUFFICES ASSUME SeqInv, [Next]_vars
             PROVE  Ledger!LedgerNext \/ UNCHANGED Ledger!ledgerVars
  BY Zenon
<1>1. CASE Transact
  BY <1>1, TransactMaps, Zenon DEF Ledger!LedgerNext
<1>2. CASE Apply \/ ApplyLostAck
  <2>1. Commit /\ UNCHANGED log
    BY <1>2, Zenon DEF Apply, ApplyLostAck
  <2> QED
    BY <2>1, CommitMaps, Zenon DEF Ledger!LedgerNext
<1>3. CASE \/ Tick \/ Revoke \/ OpenStream \/ OpenRefused \/ Recv \/ Disconnect \/ Eof
           \/ Start \/ ProcessorEnds \/ Crash \/ UNCHANGED vars
  <2>1. UNCHANGED <<log, db, offset>>
    BY <1>3, Zenon DEF Tick, Revoke, OpenStream, OpenRefused, Recv, Disconnect, Eof, Start,
                ProcessorEnds, Crash, vars
  <2> QED
    BY <2>1, Zenon DEF Ledger!ledgerVars
<1> QED
  BY <1>1, <1>2, <1>3, Zenon DEF Next

\* The indexer implements IndexedLedger: every step leaves the tables alone,
\* applies the transaction next to the stored offset, or, only where the answer
\* of a commit can be lost, applies the last one again (processBatch, Run).
THEOREM AppliesInOrder == Spec => IndexedInOrder
BY InitMaps, StepMaps, AlwaysSeqInv, PTL DEF Spec, IndexedInOrder, Ledger!LedgerSpec

----------------------------------------------------------------------------
(* The access token.                                                       *)
----------------------------------------------------------------------------

TokenInv ==
    /\ token \in [cached : BOOLEAN, refresh : Nat, life : Nat, stated : BOOLEAN]
    /\ RefreshedInTime

\* A token of stated lifetime is given up before it expires, and none is kept
\* longer than it lives: the midpoint is earlier than the end.
LEMMA RefreshByBefore ==
    ASSUME NEW e \in Lifetimes
    PROVE  RefreshBy(e) \in Nat /\ RefreshBy(e) < e /\ RefreshBy(0) \in Nat
BY TokenAssumption DEF RefreshBy

LEMMA LoadedInv ==
    ASSUME TokenInv, NEW t \in Loaded(token)
    PROVE  /\ t \in [cached : BOOLEAN, refresh : Nat, life : Nat, stated : BOOLEAN]
           /\ t.stated /\ t.refresh > 0 => t.life > t.refresh
<1>1. CASE t \in Fetched
  <2>1. PICK e \in Lifetimes, s \in BOOLEAN :
            t = [cached |-> TRUE, refresh |-> RefreshBy(IF s THEN e ELSE 0),
                 life |-> e, stated |-> s]
    BY <1>1 DEF Fetched
  <2>2. e \in Nat
    BY TokenAssumption, Zenon
  <2>3. CASE s = TRUE
    <3>1. t = [cached |-> TRUE, refresh |-> RefreshBy(e), life |-> e, stated |-> TRUE]
      BY <2>1, <2>3, Zenon
    <3> QED
      BY <3>1, <2>2, RefreshByBefore, Zenon
  <2>4. CASE s = FALSE
    <3>1. t = [cached |-> TRUE, refresh |-> RefreshBy(0), life |-> e, stated |-> FALSE]
      BY <2>1, <2>4, Zenon
    <3> QED
      BY <3>1, <2>2, RefreshByBefore, Zenon
  <2> QED
    BY <2>3, <2>4, Zenon
<1>2. CASE t = [token EXCEPT !.cached = TRUE]
  BY <1>2, Zenon DEF TokenInv, RefreshedInTime
<1> QED
  BY <1>1, <1>2, Zenon DEF Loaded

LEMMA NextKeepsTokenInv == TokenInv /\ [Next]_vars => TokenInv'
<1> SUFFICES ASSUME TokenInv, [Next]_vars PROVE TokenInv'
  BY Zenon
<1>1. CASE Tick
  <2>1. /\ token' = [token EXCEPT !.refresh = CountDown(token.refresh),
                                 !.life = CountDown(token.life)]
        /\ token \in [cached : BOOLEAN, refresh : Nat, life : Nat, stated : BOOLEAN]
    BY <1>1, Zenon DEF Tick, Aged, TokenInv
  <2>2. /\ CountDown(token.refresh) \in Nat /\ CountDown(token.life) \in Nat
        /\ CountDown(token.refresh) > 0 =>
            token.refresh > 0
            /\ (token.life > token.refresh => CountDown(token.life) > CountDown(token.refresh))
    BY <2>1 DEF CountDown
  <2> QED
    BY <2>1, <2>2, Zenon DEF TokenInv, RefreshedInTime
<1>2. CASE Revoke
  BY <1>2, Zenon DEF Revoke, Revoked, TokenInv, RefreshedInTime
<1>3. CASE OpenStream
  BY <1>3, LoadedInv, Zenon DEF OpenStream, TokenInv, RefreshedInTime
<1>4. CASE OpenRefused
  BY <1>4, LoadedInv, Zenon DEF OpenRefused, Invalidate, TokenInv, RefreshedInTime
<1>5. CASE Disconnect
  BY <1>5, Zenon DEF Disconnect, Invalidate, TokenInv, RefreshedInTime
<1>6. CASE Crash
  <2>1. token' = NoToken
    BY <1>6, Zenon DEF Crash
  <2> QED
    BY <2>1, Zenon DEF NoToken, TokenInv, RefreshedInTime
<1>7. CASE \/ Transact \/ Recv \/ Eof \/ Start \/ Apply \/ ApplyLostAck \/ ProcessorEnds
           \/ UNCHANGED vars
  BY <1>7, Zenon DEF Transact, Recv, Eof, Start, Apply, ApplyLostAck, ProcessorEnds, vars,
              TokenInv, RefreshedInTime
<1> QED
  BY <1>1, <1>2, <1>3, <1>4, <1>5, <1>6, <1>7, Zenon DEF Next

\* For any lifetimes and any leeway, a token the caches would still send has not
\* outlived the lifetime the endpoint stated (computeRefreshBy, loadToken).
THEOREM TokenRefreshed == Spec => []RefreshedInTime
<1>1. Init => TokenInv
  BY DEF Init, NoToken, TokenInv, RefreshedInTime
<1>2. TokenInv => RefreshedInTime
  BY Zenon DEF TokenInv
<1> QED
  BY <1>1, <1>2, NextKeepsTokenInv, PTL DEF Spec
=============================================================================
