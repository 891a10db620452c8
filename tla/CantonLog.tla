----------------------------- MODULE CantonLog -----------------------------
(***************************************************************************)
(* What the indexer's ledger stream carries, and how it is decoded.  A     *)
(* transaction is kept as what it does; Events expands it into the created *)
(* and exercised events that Canton reports of it (external); Decoded is   *)
(* decodeLedgerEvent of pkg/cantonsdk/streaming/client.go followed by the  *)
(* decoders of pkg/indexer/engine/decoder.go.                              *)
(*                                                                         *)
(* Offsets count the transactions of the stream, so that transaction n     *)
(* creates the contracts <<n, 1>>, <<n, 2>>.                               *)
(***************************************************************************)
EXTENDS Integers, Sequences

CONSTANTS
    Parties,    \* parties hosted on the participant
    NoParty,    \* an absent fromParty or toParty
    Amounts,    \* amounts of one transfer, mint, burn or holding
    Listed,     \* CIP-56 instruments the whitelist admits
    Unlisted    \* CIP-56 instruments it does not

Registry == "registry"                       \* the Utility.Registry instrument
Instruments == Listed \cup Unlisted \cup {Registry}

ContractIds == Nat \X {1, 2, 3}
OfferChoices == {"Accept", "Withdraw", "Reject", "Update"}    \* of a TransferOffer

\* What a transaction does: a token transfer event (a mint without a sender, a
\* burn without a receiver); the issue of a holding; an offer, which locks part
\* of a holding and returns the change; the settlement of an offer, which hands
\* the locked holding to one of its two parties; a transaction of another
\* participant that the stream only witnesses.
Transactions ==
    [op : {"token"}, instrument : Listed \cup Unlisted, from : Parties \cup {NoParty},
     to : Parties \cup {NoParty}, amount : Amounts]
    \cup [op : {"issue", "witness"}, to : Parties, amount : Amounts]
    \cup [op : {"offer"}, input : ContractIds, from : Parties, to : Parties,
          amount : Amounts, change : Amounts \cup {0}]
    \cup [op : {"settle"}, input : ContractIds, choice : OfferChoices, to : Parties, amount : Amounts]

----------------------------------------------------------------------------
(* The events of a transaction (external).  acsDelta marks the events that *)
(* change the active contracts some party of the stream is a stakeholder   *)
(* of.                                                                     *)
----------------------------------------------------------------------------

Created(tmpl, cid, args) ==
    [tmpl |-> tmpl, cid |-> cid, created |-> TRUE, acsDelta |-> TRUE, args |-> args]

Consumed(tmpl, cid, choice) ==
    [tmpl |-> tmpl, cid |-> cid, created |-> FALSE, consuming |-> TRUE,
     acsDelta |-> TRUE, choice |-> choice]

Witnessed(ev) == [ev EXCEPT !.acsDelta = FALSE]

HoldingArgs(owner, amount, locked) ==
    [owner |-> owner, amount |-> amount, locked |-> locked]

Events(n, tx) ==
    CASE tx.op = "token" ->
            <<Created("TokenTransferEvent", <<n, 1>>,
                      [instrument |-> tx.instrument, from |-> tx.from,
                       to |-> tx.to, amount |-> tx.amount])>>
      [] tx.op = "issue" ->
            <<Created("Holding", <<n, 1>>, HoldingArgs(tx.to, tx.amount, FALSE))>>
      [] tx.op = "offer" ->
            LET lock == Consumed("Holding", tx.input, "Lock")
                held == Created("Holding", <<n, 1>>, HoldingArgs(tx.from, tx.amount, TRUE))
                offer == Created("TransferOffer", <<n, 2>>,
                                 [from |-> tx.from, to |-> tx.to, amount |-> tx.amount])
                change == Created("Holding", <<n, 3>>, HoldingArgs(tx.from, tx.change, FALSE))
            IN  IF tx.change = 0 THEN <<lock, held, offer>> ELSE <<lock, held, offer, change>>
      [] tx.op = "settle" ->
            <<Consumed("TransferOffer", tx.input, tx.choice),
              Consumed("Holding", <<tx.input[1], 1>>, "Unlock"),
              Created("Holding", <<n, 1>>, HoldingArgs(tx.to, tx.amount, FALSE))>>
      [] tx.op = "witness" ->
            <<Witnessed(Created("Holding", <<n, 1>>, HoldingArgs(tx.to, tx.amount, FALSE))),
              [Witnessed(Consumed("Holding", <<n, 1>>, "Fetch")) EXCEPT !.consuming = FALSE],
              Witnessed(Consumed("Holding", <<n, 1>>, "Archive"))>>

----------------------------------------------------------------------------
(* Decoding.                                                               *)
----------------------------------------------------------------------------

\* decodeLedgerEvent keeps an event: it changes the active contracts.
Kept(ev) == ev.acsDelta /\ (ev.created \/ ev.consuming)

\* The item of NewTokenTransferDecoder, by the parties present.
TransferEvent(ev) ==
    [type |-> "event", cid |-> ev.cid, instrument |-> ev.args.instrument,
     from |-> ev.args.from, to |-> ev.args.to, amount |-> ev.args.amount,
     kind |-> CASE ev.args.from = NoParty -> "MINT"
                [] ev.args.to = NoParty -> "BURN"
                [] OTHER -> "TRANSFER"]

\* Every archive settles, as before choice names were known.
OfferStatusNaive(choice) == "completed"

\* offerTerminalStatus
OfferStatus(choice) ==
    CASE choice = "Accept" -> "completed"
      [] choice = "Withdraw" -> "canceled"
      [] choice = "Reject" -> "rejected"
      [] OTHER -> "completed"

\* The item of NewOfferDecoder.
OfferChange(ev) ==
    IF ev.created
      THEN [type |-> "offer", cid |-> ev.cid, archived |-> FALSE, status |-> "pending",
            from |-> ev.args.from, to |-> ev.args.to]
      ELSE [type |-> "offer", cid |-> ev.cid, archived |-> TRUE,
            status |-> OfferStatus(ev.choice)]

\* The item of NewHoldingDecoder.
HoldingChange(ev) ==
    IF ev.created
      THEN [type |-> "holding", cid |-> ev.cid, archived |-> FALSE,
            owner |-> ev.args.owner, amount |-> ev.args.amount, locked |-> ev.args.locked]
      ELSE [type |-> "holding", cid |-> ev.cid, archived |-> TRUE]

\* NewMultiDecoder: what the decoders take, and the item they make of it.
Decodes(ev) ==
    ev.tmpl = "TokenTransferEvent" =>
        /\ ev.created
        /\ ev.args.instrument \in Listed
        /\ ev.args.from # NoParty \/ ev.args.to # NoParty

Decode(ev) ==
    CASE ev.tmpl = "TokenTransferEvent" -> TransferEvent(ev)
      [] ev.tmpl = "TransferOffer" -> OfferChange(ev)
      [] ev.tmpl = "Holding" -> HoldingChange(ev)

\* The event becomes an item of its transaction's batch.
Taken(ev) == Kept(ev) /\ Decodes(ev)
=============================================================================
