---------------------------- MODULE OfferLedger ----------------------------
(***************************************************************************)
(* The holdings and transfer offers of a registry instrument on the Canton *)
(* ledger (external), and the indexer's view of the offers, which follows  *)
(* the ledger with a delay (the pending transfers of pkg/indexer/store).   *)
(***************************************************************************)
EXTENDS Integers, Sequences, FiniteSetsExt

CONSTANTS
    InitHoldings,   \* the holdings at the start
    InitOffers,     \* the offers at the start
    MaxOffers       \* bound on the number of offers

ASSUME LedgerAssumption ==
    /\ InitOffers \in Seq({InitOffers[o] : o \in DOMAIN InitOffers})
    /\ \A o \in DOMAIN InitOffers :
        {"from", "state", "late"} \subseteq DOMAIN InitOffers[o] /\ InitOffers[o].state = "active"

VARIABLES
    holdings,   \* active holdings: [id, owner, amount, locked]
    offers,     \* offers in order of creation: [from, to, lock, supported, state, late]
    view,       \* the indexer's status of the offers it has seen
    lag         \* changes of offers the indexer has not applied yet, in order

ledger == <<holdings, offers, view, lag>>

LedgerInit ==
    /\ holdings = InitHoldings
    /\ offers = InitOffers
    /\ view = <<>>
    /\ lag = [o \in DOMAIN InitOffers |-> [offer |-> o, status |-> "pending"]]

\* A state in which the offer can be exercised; only accepting it is bound to
\* its executeBefore time.
Active(o) == o \in DOMAIN offers /\ offers[o].state = "active"
Acceptable(o) == Active(o) /\ ~offers[o].late

Worth(hs) == FoldSet(LAMBDA h, sum : h.amount + sum, 0, hs)

\* The factory locks the amount, returns the change and creates the offer.
CreateOffer(inputs, from, to, amount, supported) ==
    LET o == Len(offers) + 1
        rest == Worth(inputs) - amount
        lock == [id |-> <<o, 1>>, owner |-> from, amount |-> amount, locked |-> TRUE]
        change == [id |-> <<o, 2>>, owner |-> from, amount |-> rest, locked |-> FALSE]
    IN  /\ holdings' = (holdings \ inputs) \cup {lock} \cup (IF rest > 0 THEN {change} ELSE {})
        /\ offers' = Append(offers, [from |-> from, to |-> to, lock |-> lock,
                                     supported |-> supported, state |-> "active", late |-> FALSE])
        /\ lag' = Append(lag, [offer |-> o, status |-> "pending"])
        /\ UNCHANGED view

\* A choice archives the offer and frees the locked holding to one party.
SettleOffer(o, state) ==
    LET lock == offers[o].lock
        owner == IF state = "completed" THEN offers[o].to ELSE offers[o].from
    IN  /\ holdings' = (holdings \ {lock}) \cup
                       {[lock EXCEPT !.id = <<o, 3>>, !.owner = owner, !.locked = FALSE]}
        /\ offers' = [offers EXCEPT ![o].state = state]
        /\ lag' = Append(lag, [offer |-> o, status |-> state])
        /\ UNCHANGED view

\* The executeBefore time of an offer passes.
OfferLapses ==
    /\ \E o \in DOMAIN offers :
        /\ Acceptable(o)
        /\ offers' = [offers EXCEPT ![o].late = TRUE]
    /\ UNCHANGED <<holdings, view, lag>>

\* The indexer applies the next change.
IndexerSees ==
    /\ lag # <<>>
    /\ LET c == Head(lag) IN
       view' = IF c.offer > Len(view) THEN Append(view, c.status)
               ELSE [view EXCEPT ![c.offer] = c.status]
    /\ lag' = Tail(lag)
    /\ UNCHANGED <<holdings, offers>>

----------------------------------------------------------------------------
(* What the indexer answers.                                               *)
----------------------------------------------------------------------------

\* ListPendingTransfers: the pending offers that have not expired.
PendingOffers == {o \in DOMAIN view : view[o] = "pending" /\ ~offers[o].late}

\* The place of an offer in the list, which has the oldest first.
PlaceOf(o) == Cardinality({x \in PendingOffers : x <= o})

PageOf(page, limit) ==
    {o \in PendingOffers : PlaceOf(o) > (page - 1) * limit /\ PlaceOf(o) <= page * limit}

\* Only what the list of pending transfers shows can be claimed back.
ClaimableNaive(p, o) == o \in PendingOffers /\ offers[o].from = p

\* What claimableTransfer finds: an offer of the party, pending or expired.
Claimable(p, o) ==
    o \in DOMAIN view /\ offers[o].from = p /\ view[o] = "pending"
=============================================================================
