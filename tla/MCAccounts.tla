----------------------------- MODULE MCAccounts -----------------------------
(* A small instance of Accounts for TLC. *)
EXTENDS Accounts, TLC

CONSTANTS a1, a2, key, partner, r1, r2

\* Both addresses begin with the same characters.
SameHint == [a \in Addresses |-> "user"]

Symmetry == Permutations(Requests)

OwnNamespace == [p \in Natives |-> p]
=============================================================================
