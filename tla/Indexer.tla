------------------------------ MODULE Indexer ------------------------------
(***************************************************************************)
(* The indexer process: the streaming client (Subscribe and runStream of   *)
(* pkg/cantonsdk/streaming/client.go, Stream.Subscribe of stream.go), the  *)
(* fetcher, the processor (Run and processBatchWithRetry of pkg/indexer/   *)
(* engine/processor.go) and its database, under the errgroup of            *)
(* pkg/app/indexer/server.go, fed by a ledger that grows.                  *)
(*                                                                         *)
(* A failed attempt that leaves every variable as it was (the ledger does  *)
(* not answer, a batch is rolled back) is a stuttering step.               *)
(***************************************************************************)
EXTENDS IndexerLedger, AccessToken

CONSTANTS
    Ops,            \* the operations the ledger performs
    MaxLog,         \* bound on the transactions of the ledger
    QueueCap,       \* batches in the two channels and in the hands between them
    MaxCrashes,     \* bound on crashes and shutdowns of the process
    MaxLostAcks,    \* bound on commits whose answer is lost
    MaxRevoked,     \* bound on tokens the ledger stops accepting
    TokensAge       \* FALSE: no token expires while the instance runs

ASSUME IndexerAssumption ==
    /\ Ops \subseteq Transactions
    /\ QueueCap \in Nat \ {0}
    /\ MaxLostAcks \in Nat

VARIABLES
    db,         \* the indexer's tables
    offset,     \* the stored ledger offset
    proc,       \* the process: "down", "up", or "ended" (serving, not indexing)
    conn,       \* the stream: "idle", "open", or "closed" (its channel closed)
    from,       \* FromOffset of the subscription
    last,       \* lastOffset
    pos,        \* the last transaction the open stream delivered (external)
    queue,      \* offsets of the batches received and not yet processed
    token,      \* the access token
    crashes, lostAcks, revoked

stream == <<conn, from, last, pos, queue>>
bounds == <<crashes, lostAcks, revoked>>
vars == <<log, db, offset, proc, stream, token, bounds>>

Init ==
    /\ log = <<>> /\ db = EmptyStore /\ offset = 0
    /\ proc = "down"
    /\ conn = "idle" /\ from = 0 /\ last = 0 /\ pos = 0 /\ queue = <<>>
    /\ token = NoToken
    /\ crashes = 0 /\ lostAcks = 0 /\ revoked = 0

----------------------------------------------------------------------------
(* The ledger (external) grows.                                            *)
----------------------------------------------------------------------------

Transact ==
    /\ Len(log) < MaxLog
    /\ \E tx \in Ops :
        /\ TokenOp(tx) \/ tx.op \in {"issue", "witness"} \/ OfferOp(tx) \/ SettleOp(tx)
        /\ log' = Append(log, tx)
    /\ UNCHANGED <<db, offset, proc, stream, token, bounds>>

\* Time passes.
Tick ==
    /\ TokensAge
    /\ token' = Aged(token)
    /\ UNCHANGED <<log, db, offset, proc, stream, bounds>>

Revoke ==
    /\ revoked < MaxRevoked /\ token.life > 0
    /\ token' = Revoked(token)
    /\ revoked' = revoked + 1
    /\ UNCHANGED <<log, db, offset, proc, stream, crashes, lostAcks>>

----------------------------------------------------------------------------
(* The stream.                                                             *)
----------------------------------------------------------------------------

\* runStream opens the stream with the token it loads, after from.
OpenStream ==
    /\ proc = "up" /\ conn = "idle"
    /\ \E t \in Loaded(token) :
        /\ Accepted(t)
        /\ token' = t
    /\ conn' = "open" /\ pos' = from
    /\ UNCHANGED <<log, db, offset, proc, from, last, queue, bounds>>

\* An attempt to reconnect starts after the last transaction received.
Resume == from' = last

\* The ledger refuses the token, or there is none: it is invalidated and
\* Subscribe waits and tries again.
OpenRefused ==
    /\ proc = "up" /\ conn = "idle"
    /\ \/ \E t \in Loaded(token) : ~Accepted(t) /\ token' = Invalidate(t)
       \/ LoadFails(token) /\ token' = Invalidate(token)
    /\ Resume
    /\ UNCHANGED <<log, db, offset, proc, conn, last, pos, queue, bounds>>

\* The next transaction arrives: lastOffset is set, the transaction decoded and
\* sent on; a full channel makes runStream wait.
Recv ==
    /\ proc = "up" /\ conn = "open"
    /\ Len(queue) < QueueCap
    /\ pos < Len(log)
    /\ pos' = pos + 1
    /\ last' = pos + 1
    /\ queue' = Append(queue, pos + 1)
    /\ UNCHANGED <<log, db, offset, proc, conn, from, token, bounds>>

\* The stream breaks; an authentication error, as when the ledger ends the
\* stream of a token it stopped accepting, invalidates the token.
Disconnect ==
    /\ proc = "up" /\ conn = "open"
    /\ conn' = "idle"
    /\ Resume
    /\ token' \in {token, Invalidate(token)}
    /\ UNCHANGED <<log, db, offset, proc, last, pos, queue, bounds>>

\* The ledger ends the stream in good order (io.EOF): Subscribe returns and the
\* channels are closed behind the batches they hold.
Eof ==
    /\ proc = "up" /\ conn = "open"
    /\ conn' = "closed"
    /\ UNCHANGED <<log, db, offset, proc, from, last, pos, queue, token, bounds>>

----------------------------------------------------------------------------
(* The processor.                                                          *)
----------------------------------------------------------------------------

StartNaive ==
    /\ proc = "down"
    /\ proc' = "up"
    /\ conn' = "idle" /\ from' = 0 /\ last' = 0 /\ pos' = 0 /\ queue' = <<>>
    /\ UNCHANGED <<log, db, offset, token, bounds>>

\* Run loads the stored offset and starts the fetcher there.
Start ==
    /\ proc = "down"
    /\ proc' = "up"
    /\ conn' = "idle" /\ from' = offset /\ last' = offset /\ pos' = 0 /\ queue' = <<>>
    /\ UNCHANGED <<log, db, offset, token, bounds>>

\* An error of an item does not roll the transaction back.
CommitNaive ==
    /\ proc = "up" /\ queue # <<>>
    /\ db' = ProcessBatch(db, Head(queue), log[Head(queue)])
    /\ offset' = Head(queue)

\* processBatch commits the tables and the offset together.
Commit ==
    /\ proc = "up" /\ queue # <<>>
    /\ Commits(db, Head(queue), log[Head(queue)])
    /\ db' = ProcessBatch(db, Head(queue), log[Head(queue)])
    /\ offset' = Head(queue)

Apply ==
    /\ Commit
    /\ queue' = Tail(queue)
    /\ UNCHANGED <<log, proc, conn, from, last, pos, token, bounds>>

\* The database commits but its answer is lost: processBatchWithRetry sees an
\* error and processes the batch again.
ApplyLostAck ==
    /\ lostAcks < MaxLostAcks
    /\ Commit
    /\ lostAcks' = lostAcks + 1
    /\ UNCHANGED <<log, proc, stream, token, crashes, revoked>>

\* Run finds the channel closed and returns nil.  That does not cancel the
\* errgroup: the HTTP server goes on and nothing is indexed any more.
ProcessorEnds ==
    /\ proc = "up" /\ conn = "closed" /\ queue = <<>>
    /\ proc' = "ended"
    /\ UNCHANGED <<log, db, offset, stream, token, bounds>>

\* The process stops, between any two steps; its memory is lost.
Crash ==
    /\ crashes < MaxCrashes /\ proc # "down"
    /\ proc' = "down"
    /\ conn' = "idle" /\ from' = 0 /\ last' = 0 /\ pos' = 0 /\ queue' = <<>>
    /\ token' = NoToken
    /\ crashes' = crashes + 1
    /\ UNCHANGED <<log, db, offset, lostAcks, revoked>>

Next ==
    \/ Transact \/ Tick \/ Revoke
    \/ OpenStream \/ OpenRefused \/ Recv \/ Disconnect \/ Eof
    \/ Start \/ Apply \/ ApplyLostAck \/ ProcessorEnds \/ Crash

Spec == Init /\ [][Next]_vars

(* Properties.                                                             *)

\* The batches on their way to the processor are the transactions next to the
\* stored offset, in order and without a gap; the first may be one that was
\* committed already only if the answer of a commit was lost.  A reconnection
\* starts where the last one received ends (Subscribe, Fetcher.Start).
InSequence ==
    LET base == last - Len(queue) IN
    /\ offset \in 0 .. Len(log) /\ last \in 0 .. Len(log)
    /\ proc = "up" =>
        /\ \A k \in 1 .. Len(queue) : queue[k] = base + k
        /\ base = offset \/ (base = offset - 1 /\ queue # <<>> /\ lostAcks > 0)
        /\ conn = "open" => pos = last
        /\ conn = "idle" => from = last
    /\ proc # "up" => queue = <<>>

\* The tables are the ledger's transactions applied in order as far as the stored
\* offset, each once, except that the last one may be applied again where the answer
\* of a commit can be lost (processBatch, RunInTx).
Ledger == INSTANCE IndexedLedger WITH Reapply <- MaxLostAcks > 0
IndexedInOrder == Ledger!LedgerSpec

\* The supply of a listed instrument is what was minted less what was burned,
\* a party's balance what it received less what it sent unless it received some
\* elsewhere, and the holder count the number of positive balances, however
\* often a batch is repeated (processTransferEvent, ApplyBalanceDelta).
TokensAgree ==
    /\ \A i \in Listed :
        /\ db.supply[i] = Sent(offset, NoParty, i) - Received(offset, NoParty, i)
        /\ db.holders[i] = Cardinality({p \in Parties : db.balances[<<p, i>>] > 0})
        /\ \A p \in Parties :
            Elsewhere[p] = 0 => db.balances[<<p, i>>] = SeenBalance(offset, p, i)
    /\ \A p \in Parties, i \in Unlisted : db.balances[<<p, i>>] = 0

\* A registry balance is the sum of the party's unlocked holdings that are active
\* on the ledger (processHoldingChange).
HoldingsMatch ==
    LET free == {ev \in ActiveAt(offset, "Holding") : ~ev.args.locked} IN
    \A p \in Parties :
        db.balances[<<p, Registry>>] =
            Total({<<ev.cid, ev.args.amount>> : ev \in {x \in free : x.args.owner = p}})

\* ... as long as the answer of every commit arrived.
HoldingsAgree == lostAcks = 0 => HoldingsMatch

\* The transfers on record are the offers and the direct transfers of listed
\* instruments, and an offer has the status of the choice that archived it, or
\* is pending, however often a batch is repeated (NewOfferDecoder,
\* InsertTransfer, FinalizeTransfer).  A rejected offer is "rejected", as
\* offerTerminalStatus and the store's tests have it; the comments on
\* FinalizeTransfer say "canceled" for it.
TransfersAgree ==
    LET done == [Accept |-> "completed", Withdraw |-> "canceled", Reject |-> "rejected",
                 Update |-> "completed"]
        statusOf(o) ==
            IF \E m \in 1 .. offset : log[m].op = "settle" /\ log[m].input = o
              THEN {done[log[m].choice] :
                    m \in {k \in 1 .. offset : log[k].op = "settle" /\ log[k].input = o}}
              ELSE {"pending"}
        offers == {m \in 1 .. offset : log[m].op = "offer"}
        direct == {m \in 1 .. offset :
                    /\ log[m].op = "token" /\ log[m].instrument \in Listed
                    /\ log[m].from # NoParty /\ log[m].to # NoParty}
    IN  /\ {t.cid : t \in db.transfers} = {<<m, 2>> : m \in offers} \cup {<<m, 1>> : m \in direct}
        /\ \A t \in db.transfers :
            IF t.kind = "offer" THEN {t.status} = statusOf(t.cid)
            ELSE t.status = "completed" /\ t.cid[1] \in direct

\* The next batch can never be committed.
Blocked == offset < Len(log) /\ ~Commits(db, offset + 1, log[offset + 1])

\* The only batch the processor cannot commit burns tokens of a party that
\* received some elsewhere; the sender of a transfer is excused from that, the
\* sender of a burn is not (processTransferEvent).
BlockedByBurn ==
    Blocked => LET tx == log[offset + 1] IN
               tx.op = "token" /\ tx.to = NoParty /\ Elsewhere[tx.from] > 0

\* A token whose lifetime the endpoint stated is given up before it expires, so
\* that only a revoked token is refused (computeRefreshBy).
RefreshedInTime == token.stated /\ token.refresh > 0 => token.life > token.refresh

----------------------------------------------------------------------------
(* Liveness.  Time passes, the process is restarted and its goroutines run; *)
(* an endpoint that can answer does in the end (a failed attempt changes    *)
(* nothing); a stream that opens again and again delivers in the end.       *)
----------------------------------------------------------------------------

Fairness ==
    /\ WF_vars(Tick) /\ WF_vars(Start)
    /\ WF_vars(OpenStream) /\ SF_vars(Recv)
    /\ WF_vars(Apply) /\ WF_vars(ProcessorEnds)

LiveSpec == Spec /\ Fairness

\* Every transaction of the ledger is indexed, or the processor has ended with
\* the stream, or it repeats a batch it can never commit (Run, Subscribe,
\* processBatchWithRetry).
EventuallyIndexed ==
    \A n \in 1 .. MaxLog :
        (n <= Len(log)) ~> (offset >= n \/ proc = "ended" \/ Blocked)
=============================================================================
