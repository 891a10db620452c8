--------------------------- MODULE IndexerLedger ----------------------------
(***************************************************************************)
(* The ledger behind the indexer's stream (external): its transactions in  *)
(* offset order, what they amount to, and which transactions it lets       *)
(* happen.  Its state is what its log says.                                *)
(***************************************************************************)
EXTENDS IndexerStore, FiniteSets

CONSTANTS
    Elsewhere       \* [Parties -> Nat]: tokens received in transactions of other
                    \* participants, which the stream never carries

ASSUME LedgerAssumption ==
    /\ IsFiniteSet(Parties) /\ NoParty \notin Parties
    /\ Listed \cap Unlisted = {} /\ Registry \notin Listed \cup Unlisted
    /\ Amounts \subseteq Nat
    /\ Elsewhere \in [Parties -> Nat]

VARIABLE
    log         \* the transactions of the ledger, in offset order (external)

\* Every created and every consumed event among the first n transactions.
EventsOf(m) == LET evs == Events(m, log[m]) IN {evs[k] : k \in DOMAIN evs}
EventsUpTo(n) == UNION {EventsOf(m) : m \in 1 .. n}

ActiveAt(n, tmpl) ==
    LET evs == {ev \in EventsUpTo(n) : ev.tmpl = tmpl /\ ev.acsDelta}
    IN  {ev \in evs : ev.created /\ ~\E x \in evs : ~x.created /\ x.cid = ev.cid}

\* The sum of the amounts of the pairs <<key, amount>>, counted unit by unit.
Total(pairs) == Cardinality(UNION {{x[1]} \X (1 .. x[2]) : x \in pairs})

\* What party p received and sent of instrument i in the first n transactions;
\* a mint is sent, and a burn received, by NoParty.
TokenMoves(n, i) == {m \in 1 .. n : log[m].op = "token" /\ log[m].instrument = i}
Received(n, p, i) ==
    Total({<<m, log[m].amount>> : m \in {k \in TokenMoves(n, i) : log[k].to = p}})
Sent(n, p, i) ==
    Total({<<m, log[m].amount>> : m \in {k \in TokenMoves(n, i) : log[k].from = p}})
SeenBalance(n, p, i) == Received(n, p, i) - Sent(n, p, i)

\* A party spends no more than it has, here and elsewhere.
TokenOp(tx) ==
    /\ tx.op = "token"
    /\ tx.from # NoParty \/ tx.to # NoParty
    /\ tx.from # NoParty =>
        Elsewhere[tx.from] + SeenBalance(Len(log), tx.from, tx.instrument) >= tx.amount

OfferOp(tx) ==
    /\ tx.op = "offer"
    /\ tx.from # tx.to
    /\ \E h \in ActiveAt(Len(log), "Holding") :
        /\ h.cid = tx.input /\ h.args.owner = tx.from /\ ~h.args.locked
        /\ h.args.amount = tx.amount + tx.change

\* The receiver obtains the holding by accepting; anything else returns it.
SettleOp(tx) ==
    /\ tx.op = "settle"
    /\ \E o \in ActiveAt(Len(log), "TransferOffer") :
        /\ o.cid = tx.input /\ o.args.amount = tx.amount
        /\ tx.to = IF tx.choice = "Accept" THEN o.args.to ELSE o.args.from
=============================================================================
