----------------------------- MODULE MCIndexer -----------------------------
(***************************************************************************)
(* Small instances of Indexer: two parties, one listed and one unlisted    *)
(* instrument.                                                             *)
(***************************************************************************)
EXTENDS Indexer, TLC

CONSTANTS alice, bob, demo, rogue

MCParties == {alice, bob}
MCElsewhere == alice :> 0 @@ bob :> 1

Token(i, f, t, a) == [op |-> "token", instrument |-> i, from |-> f, to |-> t, amount |-> a]
Issue(t, a) == [op |-> "issue", to |-> t, amount |-> a]

\* Offers of a holding that transaction n issued or returned, and settlements
\* of the offer of transaction n.
Offer(n, k, f, t, a, c) ==
    [op |-> "offer", input |-> <<n, k>>, from |-> f, to |-> t, amount |-> a, change |-> c]
Settle(n, ch, t, a) ==
    [op |-> "settle", input |-> <<n, 2>>, choice |-> ch, to |-> t, amount |-> a]

TokenOps ==
    {Token(demo, NoParty, alice, 2), Token(demo, alice, bob, 1), Token(demo, bob, alice, 2),
     Token(demo, alice, NoParty, 1), Token(demo, bob, NoParty, 1), Token(rogue, NoParty, bob, 1)}

HoldingOps ==
    {Issue(alice, 2), [op |-> "witness", to |-> bob, amount |-> 1],
     Offer(1, 1, alice, bob, 1, 1), Offer(2, 3, alice, bob, 1, 0)}
    \cup {Settle(2, ch, IF ch = "Accept" THEN bob ELSE alice, 1) : ch \in OfferChoices}

MCOps == TokenOps \cup HoldingOps
MCFewOps == {Token(demo, NoParty, alice, 2), Token(demo, bob, NoParty, 1), Issue(alice, 2)}
MCOneOp == {Issue(alice, 2)}
=============================================================================
