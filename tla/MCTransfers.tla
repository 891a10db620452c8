---------------------------- MODULE MCTransfers ----------------------------
(* Small instances of Transfers for TLC. *)
EXTENDS Transfers

CONSTANTS alice, bob, dave, c1, c2

Coin(n, p, a) == [id |-> <<0, n>>, owner |-> p, amount |-> a, locked |-> FALSE]
Lock(n, p, a) == [Coin(n, p, a) EXCEPT !.locked = TRUE]
Offer(from, to, lock, supported) ==
    [from |-> from, to |-> to, lock |-> lock, supported |-> supported,
     state |-> "active", late |-> FALSE]

\* alice signs for themself.  bob, a native party, registers later; their offer to
\* dave, who is no user, heads the list of pending transfers as long as nobody
\* settles it.
MCHoldings == {Lock(1, bob, 1), Coin(2, alice, 1)}
MCOffers == <<Offer(bob, dave, Lock(1, bob, 1), TRUE)>>
=============================================================================
