----------------------------- MODULE MCRelayer -----------------------------
(***************************************************************************)
(* Small instances of Relayer.                                             *)
(***************************************************************************)
EXTENDS Relayer

\* One event, two events of one direction, one event of each direction.
OneDeposit == [e \in {1} |-> EthToCanton]
TwoDeposits == [e \in {1, 2} |-> EthToCanton]
OneOfEach == [e \in {1, 2} |-> IF e = 1 THEN EthToCanton ELSE CantonToEth]

\* Positions: one event per block or offset, both in the first one.
OwnBlock == [e \in Events |-> e]
FirstBlock == [e \in Events |-> 1]

\* Source transactions: one per event, one for all.
OwnTx == [e \in Events |-> e]
OneTx == [e \in Events |-> 1]

\* How far the chains grow.
EthereumTo1 == [d \in Dirs |-> IF d = EthToCanton THEN 1 ELSE 0]
EthereumTo2 == [d \in Dirs |-> IF d = EthToCanton THEN 2 ELSE 0]
BothTo1 == [d \in Dirs |-> 1]

\* Start blocks and lookbacks.
Zero == [d \in Dirs |-> 0]
One == [d \in Dirs |-> 1]
=============================================================================
