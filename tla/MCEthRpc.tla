------------------------------ MODULE MCEthRpc ------------------------------
(***************************************************************************)
(* Instances of EthRpc for TLC.                                            *)
(***************************************************************************)
EXTENDS EthRpc, TLC

\* Transactions 1 and 2 spend from account 1, which cannot pay for both;
\* transaction 3 spends from account 2.
ThreeFrom == <<1, 1, 2>>
ThreeAmount == <<2, 1, 1>>
Two == <<1, 1>>
TwoAmount == <<1, 2>>
\* Account 1 can pay for one of its transactions, but not for both.
Scarce == <<2, 1>>
OneScarce == <<2>>

\* The instances differ in nothing but their names.
Symmetry == Permutations(Instances)
=============================================================================
