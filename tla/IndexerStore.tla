---------------------------- MODULE IndexerStore ----------------------------
(***************************************************************************)
(* The indexer's tables (pkg/indexer/store/pg.go) as a record, the methods *)
(* of the store as operators on it, and processBatch of                    *)
(* pkg/indexer/engine/processor.go, which applies a batch inside one       *)
(* database transaction.  The offset row is kept apart from the record.    *)
(* The field err is set in the working copy of a transaction that must be  *)
(* rolled back.                                                            *)
(***************************************************************************)
EXTENDS CantonLog

EmptyStore ==
    [events |-> {},                                        \* contract ids
     tokens |-> {},                                        \* instruments with a row
     supply |-> [i \in Instruments |-> 0],
     holders |-> [i \in Instruments |-> 0],
     balances |-> [k \in Parties \X Instruments |-> 0],    \* no row reads as zero
     holdings |-> {},                                      \* active unlocked holdings
     transfers |-> {},
     err |-> FALSE]

\* ApplySupplyDelta updates the token's row, if there is one.
ApplySupplyDelta(st, i, d) ==
    IF i \in st.tokens THEN [st EXCEPT !.supply[i] = @ + d] ELSE st

\* The number of holders changes when a balance crosses zero.
HolderDelta(old, new) ==
    CASE old = 0 /\ new # 0 -> 1
      [] old # 0 /\ new = 0 -> -1
      [] OTHER -> 0

\* ErrNegativeBalance
Underflows(st, p, i, d) == st.balances[<<p, i>>] + d < 0

ApplyBalanceDelta(st, p, i, d) ==
    LET old == st.balances[<<p, i>>] IN
    IF Underflows(st, p, i, d)
      THEN [st EXCEPT !.err = TRUE]
      ELSE [st EXCEPT !.balances[<<p, i>>] = old + d,
                      !.holders[i] = IF i \in st.tokens
                                       THEN @ + HolderDelta(old, old + d) ELSE @]

\* InsertTransfer: a row with that contract id stays as it is.
InsertTransfer(st, row) ==
    IF \E t \in st.transfers : t.cid = row.cid
      THEN st
      ELSE [st EXCEPT !.transfers = @ \cup {row}]

\* FinalizeTransfer: only a pending row takes the final status.
FinalizeTransfer(st, cid, status) ==
    [st EXCEPT !.transfers =
        {IF t.cid = cid /\ t.status = "pending" THEN [t EXCEPT !.status = status] ELSE t :
         t \in @}]

----------------------------------------------------------------------------
(* The processor.                                                          *)
----------------------------------------------------------------------------

\* supplyDeltaFromEvent
SupplyDelta(e) ==
    CASE e.kind = "MINT" -> e.amount
      [] e.kind = "BURN" -> -e.amount
      [] OTHER -> 0

\* No sender is excused.
DebitSenderNaive(st, e) ==
    IF e.from = NoParty THEN st ELSE ApplyBalanceDelta(st, e.from, e.instrument, -e.amount)

\* The debit of balanceUpdatesFromEvent.  The sender of a TRANSFER whose
\* balance is too small has history the participant never saw: it is skipped.
DebitSender(st, e) ==
    IF e.from = NoParty \/ (e.kind = "TRANSFER" /\ Underflows(st, e.from, e.instrument, -e.amount))
      THEN st
      ELSE ApplyBalanceDelta(st, e.from, e.instrument, -e.amount)

CreditReceiver(st, e) ==
    IF e.to = NoParty THEN st ELSE ApplyBalanceDelta(st, e.to, e.instrument, e.amount)

DirectTransfer(e) ==
    [cid |-> e.cid, kind |-> "direct", status |-> "completed", from |-> e.from, to |-> e.to]

\* The result of InsertEvent is not looked at.
ProcessTransferEventNaive(st, e) ==
    CreditReceiver(DebitSender(ApplySupplyDelta(
        [st EXCEPT !.events = @ \cup {e.cid}, !.tokens = @ \cup {e.instrument}],
        e.instrument, SupplyDelta(e)), e), e)

\* processTransferEvent: InsertEvent reports whether the event is new, and
\* nothing else happens if it is not.
ProcessTransferEvent(st, e) ==
    LET known == [st EXCEPT !.events = @ \cup {e.cid}, !.tokens = @ \cup {e.instrument}]
        supplied == ApplySupplyDelta(known, e.instrument, SupplyDelta(e))
        moved == CreditReceiver(DebitSender(supplied, e), e)
    IN  IF e.cid \in st.events THEN st
        ELSE IF e.kind = "TRANSFER" THEN InsertTransfer(moved, DirectTransfer(e))
        ELSE moved

\* The archive of a holding: TakeHolding removes the row, if there is one, and
\* its amount is taken from the owner's balance unless that would underflow.
TakeHolding(st, cid) ==
    LET rows == {h \in st.holdings : h.cid = cid} IN
    IF rows = {} THEN st
    ELSE LET h == CHOOSE h \in rows : TRUE
             taken == [st EXCEPT !.holdings = @ \ rows]
         IN  IF Underflows(taken, h.owner, Registry, -h.amount) THEN taken
             ELSE ApplyBalanceDelta(taken, h.owner, Registry, -h.amount)

\* The lock is ignored.
AddHoldingNaive(st, h) ==
    ApplyBalanceDelta(
        [st EXCEPT !.holdings = @ \cup {[cid |-> h.cid, owner |-> h.owner, amount |-> h.amount]}],
        h.owner, Registry, h.amount)

\* The creation of a holding: InsertHolding keeps an existing row; the balance
\* is credited in any case.  A locked holding is neither stored nor counted.
AddHolding(st, h) ==
    IF h.locked THEN st
    ELSE ApplyBalanceDelta(
            [st EXCEPT !.holdings =
                IF \E x \in @ : x.cid = h.cid THEN @
                ELSE @ \cup {[cid |-> h.cid, owner |-> h.owner, amount |-> h.amount]}],
            h.owner, Registry, h.amount)

ProcessItem(st, item) ==
    CASE item.type = "event" -> ProcessTransferEvent(st, item)
      [] item.type = "offer" /\ item.archived -> FinalizeTransfer(st, item.cid, item.status)
      [] item.type = "offer" /\ ~item.archived ->
            InsertTransfer(st, [cid |-> item.cid, kind |-> "offer", status |-> "pending",
                                from |-> item.from, to |-> item.to])
      [] item.type = "holding" /\ item.archived -> TakeHolding(st, item.cid)
      [] item.type = "holding" /\ ~item.archived -> AddHolding(st, item)

\* The next event: it is no item of the batch, an item failed before, or its
\* item is processed.
ProcessEvent(st, ev) ==
    IF st.err \/ ~Taken(ev) THEN st ELSE ProcessItem(st, Decode(ev))

\* The tables after processBatch: the items in order, up to the first error.
\* SaveOffset, at the end of the same database transaction, is with the actions
\* that commit it.
ProcessBatch(st, n, tx) ==
    LET evs == Events(n, tx)
        after[k \in 0 .. Len(evs)] == IF k = 0 THEN st ELSE ProcessEvent(after[k - 1], evs[k])
    IN  after[Len(evs)]

\* The transaction can commit.
Commits(st, n, tx) == ~ProcessBatch(st, n, tx).err
=============================================================================
