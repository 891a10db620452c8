--------------------------- MODULE IndexerProofs ----------------------------
(***************************************************************************)
(* The indexer, for every ledger, queue size and number of crashes: the    *)
(* token tables, the transfers and the holdings agree with the ledger.     *)
(***************************************************************************)
EXTENDS IndexerTableProofs, IndexerStreamProofs

----------------------------------------------------------------------------
(* The token tables agree with the ledger.                                 *)
----------------------------------------------------------------------------

\* The ledger is legal, and the token tables are those of the stored offset.
TokenLedger == \A m \in 1 .. Len(log) : TokenLegal(m)
TokenDb == db \in Store /\ ~db.err /\ TokenTables(db, offset)

\* The ledger stays legal while it stays.
LEMMA LedgerStable == ASSUME TokenLedger, UNCHANGED log PROVE TokenLedger'
<1>1. \A n, p, i : SeenBalance(n, p, i)' = SeenBalance(n, p, i)
  BY ZenonT(30) DEF SeenBalance, Received, Sent, TokenMoves
<1> QED  BY <1>1, Zenon DEF TokenLedger, TokenLegal

LEMMA InitTokenDb == Init => TokenLedger /\ TokenDb
<1> SUFFICES ASSUME Init PROVE TokenLedger /\ TokenDb
  BY Zenon
<1>1. log = <<>> /\ Len(log) = 0 /\ offset = 0 /\ db = EmptyStore
  BY Zenon DEF Init
<1>2. TokenLedger
  BY <1>1 DEF TokenLedger
<1>3. db \in Store /\ ~db.err
  BY <1>1 DEF EmptyStore, Store
<1>4. ASSUME NEW p, NEW i PROVE Received(offset, p, i) = 0 /\ Sent(offset, p, i) = 0
  <2>1. TokenMoves(offset, i) = {}
    BY <1>1 DEF TokenMoves
  <2>2. /\ {<<m, log[m].amount>> : m \in {k \in TokenMoves(offset, i) : log[k].to = p}} = {}
        /\ {<<m, log[m].amount>> : m \in {k \in TokenMoves(offset, i) : log[k].from = p}} = {}
    BY <2>1, Zenon
  <2> QED  BY <2>2, TotalEmpty, Zenon DEF Received, Sent
<1>5. HoldersRight(db)
  <2> SUFFICES ASSUME NEW i \in Listed
               PROVE  db.holders[i] = Cardinality({p \in Parties : db.balances[<<p, i>>] > 0})
    BY Zenon DEF HoldersRight
  <2>1. i \in Instruments
    BY Zenon DEF Instruments
  <2>2. {p \in Parties : db.balances[<<p, i>>] > 0} = {} /\ db.holders[i] = 0
    BY <1>1, <2>1 DEF EmptyStore
  <2> QED  BY <2>2, FS_EmptySet, Zenon
<1>6. db.events = {<<m, 1>> : m \in Recorded(offset)}
  BY <1>1 DEF EmptyStore, Recorded
<1>7. /\ \A i \in Instruments : db.supply[i] = 0
      /\ \A p \in Parties, i \in Instruments : db.balances[<<p, i>>] = 0
  BY <1>1, Zenon DEF EmptyStore
<1>8. Listed \subseteq Instruments /\ Unlisted \subseteq Instruments
  BY Zenon DEF Instruments
<1> QED  BY <1>2, <1>3, <1>4, <1>5, <1>6, <1>7, <1>8 DEF TokenDb, TokenTables, SeenBalance

LEMMA TransactKeepsTokens ==
    ASSUME SeqInv, TokenLedger, TokenDb, Transact
    PROVE  TokenLedger' /\ TokenDb'
<1>1. PICK tx \in Ops :
        /\ TokenOp(tx) \/ tx.op \in {"issue", "witness"} \/ OfferOp(tx) \/ SettleOp(tx)
        /\ log' = Append(log, tx)
  BY Zenon DEF Transact
<1>2. tx \in Transactions /\ log \in Seq(Transactions) /\ offset \in 0 .. Len(log)
  BY IndexerAssumption, Zenon DEF SeqInv, StreamTypes, InSequence
<1>3. Len(log') = Len(log) + 1 /\ log'[Len(log) + 1] = tx /\ Len(log) \in Nat
  BY <1>1, <1>2
<1>4. ASSUME NEW n \in 0 .. Len(log)
      PROVE  /\ \A m \in 1 .. n : log'[m] = log[m]
             /\ \A p, i : Received(n, p, i)' = Received(n, p, i) /\ Sent(n, p, i)' = Sent(n, p, i)
  BY <1>1, <1>2, PrefixStable, Zenon
<1>5. ASSUME NEW m \in 1 .. Len(log') PROVE TokenLegal(m)'
  <2>1. m - 1 \in 0 .. Len(log)
    BY <1>3
  <2>2. \A p, i : SeenBalance(m - 1, p, i)' = SeenBalance(m - 1, p, i)
    BY <1>4, <2>1, Zenon DEF SeenBalance
  <2>3. CASE m \in 1 .. Len(log)
    <3>1. log'[m] = log[m] /\ TokenLegal(m)
      BY <1>4, <2>3 DEF TokenLedger
    <3> QED  BY <2>2, <3>1, Zenon DEF TokenLegal
  <2>4. CASE m = Len(log) + 1
    <3>1. log'[m] = tx /\ m - 1 = Len(log)
      BY <1>3, <2>4
    <3>2. tx.op = "token" => TokenOp(tx)
      BY <1>1, Zenon DEF OfferOp, SettleOp
    <3> QED  BY <2>2, <3>1, <3>2, Zenon DEF TokenLegal, TokenOp
  <2> QED  BY <1>3, <2>3, <2>4
<1>6. UNCHANGED <<db, offset>>
  BY Zenon DEF Transact
<1>7. Recorded(offset)' = Recorded(offset)
  BY <1>2, <1>4, <1>6, Zenon DEF Recorded
<1>8. \A p, i : /\ Received(offset, p, i)' = Received(offset, p, i)
                /\ Sent(offset, p, i)' = Sent(offset, p, i)
  BY <1>2, <1>4, <1>6, Zenon
<1>9. TokenTables(db, offset)'
  <2>1. \A p, i : SeenBalance(offset, p, i)' = SeenBalance(offset, p, i)
    BY <1>8, Zenon DEF SeenBalance
  <2>2. HoldersRight(db)'
    BY <1>6, Zenon DEF TokenDb, TokenTables, HoldersRight
  <2> QED  BY <1>6, <1>7, <1>8, <2>1, <2>2, Zenon DEF TokenDb, TokenTables
<1> QED  BY <1>5, <1>6, <1>9, Zenon DEF TokenLedger, TokenDb

\* The next transaction is applied, or the last one again.
LEMMA CommitKeepsTokens ==
    ASSUME SeqInv, TokenLedger, TokenDb, Commit, UNCHANGED log
    PROVE  TokenLedger' /\ TokenDb'
<1> DEFINE n == Head(queue)
           t == ProcessBatch(db, n, log[n])
<1>1. n \in 1 .. Len(log) /\ (n = offset + 1 \/ n = offset)
  BY HeadOfQueue, Zenon DEF Commit
<1>2. log \in Seq(Transactions) /\ offset \in Nat
  BY Zenon DEF SeqInv, StreamTypes
<1>3. db' = t /\ offset' = n /\ ~t.err
  BY Zenon DEF Commit, Commits
<1>4. TokenLegal(n) /\ db \in Store /\ ~db.err /\ TokenTables(db, offset)
  BY <1>1, Zenon DEF TokenLedger, TokenDb
<1>5. t \in Store /\ TokenTables(t, n)
  <2>1. CASE n = offset + 1
    <3>1. offset = n - 1
      BY <1>2, <2>1
    <3>2. TokenTables(db, n - 1)
      BY <1>4, <3>1, Zenon
    <3> QED  BY <1>1, <1>2, <1>3, <1>4, <3>2, TokenAdvance, Zenon
  <2>2. CASE n = offset
    BY <1>1, <1>2, <1>4, <2>2, TokenRepeat, ZenonT(30)
  <2> QED  BY <1>1, <2>1, <2>2, Zenon
<1> HIDE DEF n, t
<1>6. TokenTables(db, offset)'
  <2>1. /\ Recorded(offset)' = Recorded(n)
        /\ \A p, i : Received(offset, p, i)' = Received(n, p, i) /\ Sent(offset, p, i)' = Sent(n, p, i)
    BY <1>3, Zenon DEF Recorded, Received, Sent, TokenMoves
  <2>2. \A p, i : SeenBalance(offset, p, i)' = SeenBalance(n, p, i)
    BY <2>1, Zenon DEF SeenBalance
  <2>3. HoldersRight(db)'
    BY <1>3, <1>5, Zenon DEF TokenTables, HoldersRight
  <2> QED  BY <1>3, <1>5, <2>1, <2>2, <2>3, Zenon DEF TokenTables
<1>7. TokenLedger'
  BY LedgerStable, Zenon
<1> QED  BY <1>3, <1>5, <1>6, <1>7, Zenon DEF TokenDb

LEMMA OtherSteps ==
    ASSUME [Next]_vars PROVE Transact \/ Apply \/ ApplyLostAck \/ UNCHANGED <<log, db, offset>>
BY Zenon DEF Next, Tick, Revoke, OpenStream, OpenRefused, Recv, Disconnect, Eof, Start,
       ProcessorEnds, Crash, vars

LEMMA NextKeepsTokens ==
    SeqInv /\ TokenLedger /\ TokenDb /\ [Next]_vars => TokenLedger' /\ TokenDb'
<1> SUFFICES ASSUME SeqInv, TokenLedger, TokenDb, [Next]_vars PROVE TokenLedger' /\ TokenDb'
  BY Zenon
<1>1. CASE Transact
  BY <1>1, TransactKeepsTokens, Zenon
<1>2. CASE Apply \/ ApplyLostAck
  <2>1. Commit /\ UNCHANGED log
    BY <1>2, Zenon DEF Apply, ApplyLostAck
  <2> QED
    BY <2>1, CommitKeepsTokens, Zenon
<1>3. CASE UNCHANGED <<log, db, offset>>
  <2>1. TokenLedger'
    BY <1>3, LedgerStable, Zenon
  <2>2. TokenTables(db, offset)'
    BY <1>3 DEF TokenDb, TokenTables, Recorded, Received, Sent, SeenBalance, TokenMoves, HoldersRight
  <2> QED
    BY <1>3, <2>1, <2>2, Zenon DEF TokenDb
<1> QED
  BY <1>1, <1>2, <1>3, OtherSteps, Zenon

LEMMA AlwaysTokens == Spec => [](SeqInv /\ TokenLedger /\ TokenDb)
BY InitSeqInv, NextKeepsSeqInv, InitTokenDb, NextKeepsTokens, PTL DEF Spec

\* For every ledger and however often a commit is repeated, the supply, the
\* holder count and the balances of each token are those of the transactions as
\* far as the stored offset (processTransferEvent, ApplyBalanceDelta,
\* ApplySupplyDelta).
THEOREM TokenTablesAgree == Spec => []TokensAgree
<1>1. TokenDb => TokensAgree
  BY Zenon DEF TokenDb, TokenTables, TokensAgree, HoldersRight
<1> QED
  BY <1>1, AlwaysTokens, PTL

\* For every ledger, the only batch that processBatch can never commit burns
\* tokens of a party that received some in transactions the indexer did not see
\* (processTransferEvent).
THEOREM OnlyBurnsBlock == Spec => []BlockedByBurn
<1>1. SeqInv /\ TokenLedger /\ TokenDb => BlockedByBurn
  <2> SUFFICES ASSUME SeqInv, TokenLedger, TokenDb, Blocked
               PROVE  LET tx == log[offset + 1] IN
                      tx.op = "token" /\ tx.to = NoParty /\ Elsewhere[tx.from] > 0
    BY Zenon DEF BlockedByBurn
  <2> DEFINE n == offset + 1
  <2>1. n \in 1 .. Len(log) /\ n - 1 = offset /\ log \in Seq(Transactions)
    BY DEF Blocked, SeqInv, StreamTypes
  <2>2. TokenLegal(n) /\ db \in Store /\ ~db.err /\ TokenTables(db, n - 1)
    BY <2>1, Zenon DEF TokenLedger, TokenDb
  <2>3. ProcessBatch(db, n, log[n]).err
    BY Zenon DEF Blocked, Commits
  <2> HIDE DEF n
  <2>4. log[n].op = "token" /\ log[n].to = NoParty /\ Elsewhere[log[n].from] > 0
    BY <2>1, <2>2, <2>3, TokenAdvance, Zenon
  <2> QED  BY <2>4, Zenon DEF n
<1> QED
  BY <1>1, AlwaysTokens, PTL

----------------------------------------------------------------------------
(* The transfers agree with the ledger.                                    *)
----------------------------------------------------------------------------

SettleLedger == \A m \in 1 .. Len(log) : SettleLegal(m)
TransferDb == TransferTables(db, offset)

LEMMA InitTransferDb == Init => SettleLedger /\ TransferDb
<1> SUFFICES ASSUME Init PROVE SettleLedger /\ TransferDb
  BY Zenon
<1>1. Len(log) = 0 /\ offset = 0 /\ db.transfers = {}
  BY Zenon DEF Init, EmptyStore
<1> QED  BY <1>1 DEF SettleLedger, TransferDb, TransferTables, Offers, Direct

LEMMA TransactKeepsTransfers ==
    ASSUME SeqInv, SettleLedger, TransferDb, Transact
    PROVE  SettleLedger' /\ TransferDb'
<1>1. PICK tx \in Ops :
        /\ TokenOp(tx) \/ tx.op \in {"issue", "witness"} \/ OfferOp(tx) \/ SettleOp(tx)
        /\ log' = Append(log, tx)
  BY Zenon DEF Transact
<1>2. tx \in Transactions /\ log \in Seq(Transactions) /\ offset \in 0 .. Len(log)
  BY IndexerAssumption, Zenon DEF SeqInv, StreamTypes, InSequence
<1>3. tx.op = "settle" => SettleOp(tx)
  BY <1>1, Zenon DEF TokenOp, OfferOp
<1>4. SettleLedger'
  BY <1>1, <1>2, <1>3, SettleLegalAppend, Zenon DEF SettleLedger
<1>5. /\ Offers(offset)' = Offers(offset) /\ Direct(offset)' = Direct(offset)
      /\ \A o : Settlements(offset, o)' = Settlements(offset, o)
      /\ \A m \in 1 .. offset : log'[m] = log[m]
      /\ UNCHANGED <<db, offset>>
  <2>1. UNCHANGED <<db, offset>>
    BY Zenon DEF Transact
  <2> QED  BY <1>1, <1>2, <2>1, PositionsStable, PrefixStable, Zenon
<1>6. TransferDb'
  <2>1. \A o : \A m \in Settlements(offset, o) : log'[m] = log[m]
    BY <1>5, Zenon DEF Settlements
  <2> QED  BY <1>5, <2>1 DEF TransferDb, TransferTables, OfferRowRight, DirectRowRight
<1> QED  BY <1>4, <1>6, Zenon

LEMMA CommitKeepsTransfers ==
    ASSUME SeqInv, TokenLedger, TokenDb, SettleLedger, TransferDb, Commit, UNCHANGED log
    PROVE  SettleLedger' /\ TransferDb'
<1> DEFINE n == Head(queue)
           t == ProcessBatch(db, n, log[n])
<1>1. n \in 1 .. Len(log) /\ (n = offset + 1 \/ n = offset)
  BY HeadOfQueue, Zenon DEF Commit
<1>2. log \in Seq(Transactions) /\ offset \in Nat
  BY Zenon DEF SeqInv, StreamTypes
<1>3. db' = t /\ offset' = n /\ ~t.err
  BY Zenon DEF Commit, Commits
<1>4. /\ TokenLegal(n) /\ db \in Store /\ ~db.err /\ TokenTables(db, offset)
      /\ \A m \in 1 .. n : SettleLegal(m)
      /\ TransferTables(db, offset)
  <2>1. \A m \in 1 .. n : m \in 1 .. Len(log)
    BY <1>1, <1>2
  <2> QED  BY <1>1, <2>1, Zenon DEF TokenLedger, TokenDb, SettleLedger, TransferDb
<1>5. TransferTables(t, n)
  <2>1. CASE n = offset + 1
    <3>1. offset = n - 1 /\ n \in 1 .. n /\ \A m \in 1 .. n - 1 : m \in 1 .. n
      BY <1>1, <1>2, <2>1
    <3>2. TokenTables(db, n - 1) /\ TransferTables(db, n - 1)
      BY <1>4, <3>1, Zenon
    <3>3. SettleLegal(n) /\ \A m \in 1 .. n - 1 : SettleLegal(m)
      BY <1>4, <3>1, Zenon
    <3> QED  BY <1>1, <1>2, <1>3, <1>4, <3>2, <3>3, TransferAdvance, Zenon
  <2>2. CASE n = offset
    <3>1. n \in 1 .. n
      BY <1>1
    <3>2. TokenTables(db, n) /\ TransferTables(db, n) /\ SettleLegal(n)
      BY <1>4, <2>2, <3>1, Zenon
    <3> QED  BY <1>1, <1>2, <1>4, <3>2, TransferRepeat, Zenon
  <2> QED  BY <1>1, <2>1, <2>2, Zenon
<1> HIDE DEF n, t
<1>6. TransferDb'
  <2>1. /\ Offers(offset)' = Offers(n) /\ Direct(offset)' = Direct(n)
        /\ \A o : Settlements(offset, o)' = Settlements(n, o)
    BY <1>3, Zenon DEF Offers, Direct, IsDirect, Settlements
  <2>2. \A x : /\ OfferRowRight(x, offset)' <=> OfferRowRight(x, n)
               /\ DirectRowRight(x, offset)' <=> DirectRowRight(x, n)
    BY <2>1, Zenon DEF OfferRowRight, DirectRowRight
  <2> QED  BY <1>3, <1>5, <2>1, <2>2, Zenon DEF TransferDb, TransferTables
<1>7. SettleLedger'
  BY Zenon DEF SettleLedger, SettleLegal, Offers, Settlements
<1> QED  BY <1>6, <1>7, Zenon

LEMMA NextKeepsTransfers ==
    SeqInv /\ TokenLedger /\ TokenDb /\ SettleLedger /\ TransferDb /\ [Next]_vars
        => SettleLedger' /\ TransferDb'
<1> SUFFICES ASSUME SeqInv, TokenLedger, TokenDb, SettleLedger, TransferDb, [Next]_vars
             PROVE  SettleLedger' /\ TransferDb'
  BY Zenon
<1>1. CASE Transact
  BY <1>1, TransactKeepsTransfers, Zenon
<1>2. CASE Apply \/ ApplyLostAck
  <2>1. Commit /\ UNCHANGED log
    BY <1>2, Zenon DEF Apply, ApplyLostAck
  <2> QED
    BY <2>1, CommitKeepsTransfers, Zenon
<1>3. CASE UNCHANGED <<log, db, offset>>
  BY <1>3 DEF SettleLedger, SettleLegal, TransferDb, TransferTables, OfferRowRight,
              DirectRowRight, Offers, Direct, IsDirect, Settlements
<1> QED
  BY <1>1, <1>2, <1>3, OtherSteps, Zenon

LEMMA AlwaysTransfers ==
    Spec => [](SeqInv /\ TokenLedger /\ TokenDb /\ SettleLedger /\ TransferDb)
BY InitSeqInv, NextKeepsSeqInv, InitTokenDb, NextKeepsTokens, InitTransferDb,
   NextKeepsTransfers, PTL DEF Spec

\* For every ledger and however often a commit is repeated, the transfers on
\* record are the offers and the direct transfers as far as the stored offset,
\* and each has the status its settlement gives it (NewOfferDecoder,
\* InsertTransfer, FinalizeTransfer).
THEOREM TransferTableAgrees == Spec => []TransfersAgree
<1>1. SeqInv /\ TransferDb => TransfersAgree
  <2> SUFFICES ASSUME SeqInv, TransferDb PROVE TransfersAgree
    BY Zenon
  <2> DEFINE done == [Accept |-> "completed", Withdraw |-> "canceled", Reject |-> "rejected",
                      Update |-> "completed"]
  <2>1. ASSUME NEW o, NEW m \in Settlements(offset, o)
        PROVE  done[log[m].choice] = OfferStatus(log[m].choice)
    <3>1. log[m] \in Transactions /\ log[m].op = "settle"
      BY DEF Settlements, SeqInv, StreamTypes, InSequence
    <3>2. log[m].choice \in OfferChoices
      BY <3>1, Zenon DEF Transactions
    <3> QED  BY <3>2 DEF OfferChoices, OfferStatus
  <2>2. {t.cid : t \in db.transfers}
            = {<<m, 2>> : m \in Offers(offset)} \cup {<<m, 1>> : m \in Direct(offset)}
    BY Zenon DEF TransferDb, TransferTables, OfferRowRight, DirectRowRight
  <2>3. ASSUME NEW t \in db.transfers, t.kind = "offer"
        PROVE  {t.status} = IF Settlements(offset, t.cid) # {}
                              THEN {done[log[m].choice] : m \in Settlements(offset, t.cid)}
                              ELSE {"pending"}
    <3>1. OfferRowRight(t, offset)
      BY <2>3, Zenon DEF TransferDb, TransferTables, DirectRowRight
    <3>2. \A m \in Settlements(offset, t.cid) : done[log[m].choice] = t.status
      BY <2>1, <3>1, Zenon DEF OfferRowRight
    <3> HIDE DEF done
    <3> QED  BY <3>1, <3>2, Zenon DEF OfferRowRight
  <2>4. ASSUME NEW t \in db.transfers, t.kind # "offer"
        PROVE  t.status = "completed" /\ t.cid[1] \in Direct(offset)
    BY <2>4 DEF TransferDb, TransferTables, OfferRowRight, DirectRowRight
  <2> QED  BY <2>2, <2>3, <2>4, Zenon
           DEF TransfersAgree, Offers, Direct, IsDirect, Settlements
<1> QED
  BY <1>1, AlwaysTransfers, PTL

----------------------------------------------------------------------------
(* The holdings agree with the ledger.                                     *)
----------------------------------------------------------------------------

OffersLegal == \A m \in 1 .. Len(log) : OfferLegal(m)

\* A lost answer may count a holding twice: up to then the holdings are right.
HoldingDb == lostAcks = 0 => HoldingTables(db, offset)

LEMMA InitHoldingDb == Init => OffersLegal /\ HoldingDb
<1> SUFFICES ASSUME Init PROVE OffersLegal /\ HoldingDb
  BY Zenon
<1>1. Len(log) = 0 /\ offset = 0 /\ db = EmptyStore
  BY Zenon DEF Init
<1>2. OffersLegal
  BY <1>1 DEF OffersLegal
<1>3. FreeRows(offset) = {}
  BY <1>1 DEF FreeRows
<1>4. ASSUME NEW p PROVE SumOf({}, p) = 0
  <2>1. {<<r.cid, r.amount>> : r \in {x \in {} : x.owner = p}} = {}
    BY Zenon
  <2> QED  BY <2>1, TotalEmpty, Zenon DEF SumOf
<1>5. db.holdings = {} /\ \A p \in Parties : db.balances[<<p, Registry>>] = 0
  BY <1>1, Zenon DEF EmptyStore, Instruments
<1>6. HoldingTables(db, offset)
  BY <1>3, <1>4, <1>5, Zenon DEF HoldingTables, Balanced
<1> QED  BY <1>2, <1>6, Zenon DEF HoldingDb

LEMMA TransactKeepsHoldings ==
    ASSUME SeqInv, OffersLegal, HoldingDb, Transact
    PROVE  OffersLegal' /\ HoldingDb'
<1>1. PICK tx \in Ops :
        /\ TokenOp(tx) \/ tx.op \in {"issue", "witness"} \/ OfferOp(tx) \/ SettleOp(tx)
        /\ log' = Append(log, tx)
  BY Zenon DEF Transact
<1>2. tx \in Transactions /\ log \in Seq(Transactions) /\ offset \in 0 .. Len(log)
  BY IndexerAssumption, Zenon DEF SeqInv, StreamTypes, InSequence
<1>3. tx.op = "offer" => OfferOp(tx)
  BY <1>1, Zenon DEF TokenOp, SettleOp
<1>4. OffersLegal'
  BY <1>1, <1>2, <1>3, OfferLegalAppend, Zenon DEF OffersLegal
<1>5. UNCHANGED <<db, offset, lostAcks>>
  BY Zenon DEF Transact, bounds
<1>6. FreeRows(offset)' = FreeRows(offset)
  BY <1>1, <1>2, <1>5, RowsStable, Zenon
<1>7. HoldingDb'
  BY <1>5, <1>6, Zenon DEF HoldingDb, HoldingTables, Balanced, SumOf
<1> QED  BY <1>4, <1>7, Zenon

LEMMA LogStays ==
    ASSUME UNCHANGED log
    PROVE  /\ OffersLegal => OffersLegal'
           /\ \A n : FreeRows(n)' = FreeRows(n)
<1>1. \A n : FreeRows(n)' = FreeRows(n)
  BY Zenon DEF FreeRows, Given, Spent, Offers
<1> QED  BY <1>1, Zenon DEF OffersLegal, OfferLegal

\* As long as every answer arrived, a commit applies the next transaction.
LEMMA CommitKeepsHoldings ==
    ASSUME SeqInv, TokenLedger, TokenDb, SettleLedger, OffersLegal, HoldingDb, Commit,
           UNCHANGED log, lostAcks' = 0 => lostAcks = 0
    PROVE  OffersLegal' /\ HoldingDb'
<1> DEFINE n == Head(queue)
           t == ProcessBatch(db, n, log[n])
<1>1. OffersLegal' /\ \A k : FreeRows(k)' = FreeRows(k)
  BY LogStays, Zenon
<1>2. SUFFICES ASSUME lostAcks = 0 PROVE HoldingTables(t, n)
  <2>1. db' = t /\ offset' = n
    BY Zenon DEF Commit
  <2> HIDE DEF t, n
  <2> QED  BY <1>1, <2>1, Zenon DEF HoldingDb, HoldingTables, Balanced, SumOf
<1>3. n \in 1 .. Len(log) /\ n = offset + 1
  BY <1>2, HeadOfQueue DEF Commit
<1>4. log \in Seq(Transactions) /\ offset \in Nat /\ offset = n - 1
  BY <1>3 DEF SeqInv, StreamTypes
<1>5. ~t.err
  BY Zenon DEF Commit, Commits
<1>6. /\ TokenLegal(n) /\ db \in Store /\ ~db.err /\ TokenTables(db, n - 1)
      /\ SettleLegal(n) /\ HoldingTables(db, n - 1)
      /\ \A m \in 1 .. n : OfferLegal(m)
  <2>1. \A m \in 1 .. n : m \in 1 .. Len(log)
    BY <1>3, <1>4
  <2> QED  BY <1>2, <1>3, <1>4, <2>1, Zenon DEF TokenLedger, TokenDb, SettleLedger, OffersLegal, HoldingDb
<1> HIDE DEF n
<1> QED  BY <1>3, <1>4, <1>5, <1>6, HoldingAdvance, Zenon

HoldingInv == SeqInv /\ TokenLedger /\ TokenDb /\ SettleLedger /\ OffersLegal /\ HoldingDb

LEMMA NextKeepsHoldings == HoldingInv /\ [Next]_vars => OffersLegal' /\ HoldingDb'
<1> SUFFICES ASSUME HoldingInv, [Next]_vars PROVE OffersLegal' /\ HoldingDb'
  BY Zenon
<1> USE DEF HoldingInv
<1>1. CASE Transact
  BY <1>1, TransactKeepsHoldings, Zenon
<1>2. CASE Apply
  <2>1. Commit /\ UNCHANGED <<log, lostAcks>>
    BY <1>2, Zenon DEF Apply, bounds
  <2> QED
    BY <2>1, CommitKeepsHoldings, Zenon
<1>3. CASE ApplyLostAck
  <2>1. Commit /\ UNCHANGED log /\ lostAcks' = lostAcks + 1
    BY <1>3, Zenon DEF ApplyLostAck
  <2>2. lostAcks \in Nat
    BY IndexerAssumption DEF SeqInv, StreamTypes
  <2> QED
    BY <2>1, <2>2, CommitKeepsHoldings
<1>4. CASE UNCHANGED <<log, db, offset>> /\ UNCHANGED lostAcks
  <2>1. OffersLegal' /\ \A k : FreeRows(k)' = FreeRows(k)
    BY <1>4, LogStays, Zenon
  <2> QED
    BY <1>4, <2>1, Zenon DEF HoldingDb, HoldingTables, Balanced, SumOf
<1>5. Transact \/ Apply \/ ApplyLostAck \/ (UNCHANGED <<log, db, offset>> /\ UNCHANGED lostAcks)
  BY Zenon DEF Next, Tick, Revoke, OpenStream, OpenRefused, Recv, Disconnect, Eof, Start,
         ProcessorEnds, Crash, vars, bounds
<1> QED
  BY <1>1, <1>2, <1>3, <1>4, <1>5, Zenon

\* For every ledger, as long as the answer of every commit arrived, a registry
\* balance is the sum of the party's active unlocked holdings
\* (processHoldingChange, TakeHolding, InsertHolding).
THEOREM HoldingTableAgrees == Spec => []HoldingsAgree
<1>1. Init => HoldingInv
  BY InitSeqInv, InitTokenDb, InitTransferDb, InitHoldingDb, Zenon DEF HoldingInv
<1>2. HoldingInv => HoldingsAgree
  <2> SUFFICES ASSUME HoldingInv, lostAcks = 0 PROVE HoldingsMatch
    BY Zenon DEF HoldingsAgree
  <2>1. log \in Seq(Transactions) /\ offset \in 0 .. Len(log) /\ \A m \in 1 .. offset : SettleLegal(m)
    BY DEF HoldingInv, SeqInv, StreamTypes, InSequence, SettleLedger
  <2>2. \A p \in Parties : db.balances[<<p, Registry>>] = SumOf(FreeRows(offset), p)
    BY Zenon DEF HoldingInv, HoldingDb, HoldingTables, Balanced
  <2> QED  BY <2>1, <2>2, ActiveSum, Zenon DEF HoldingsMatch
<1>3. HoldingInv /\ TransferDb /\ [Next]_vars => HoldingInv'
  BY NextKeepsSeqInv, NextKeepsTokens, NextKeepsTransfers, NextKeepsHoldings, Zenon DEF HoldingInv
<1> QED
  BY <1>1, <1>2, <1>3, AlwaysTransfers, PTL DEF Spec
=============================================================================
