---------------------------- MODULE BridgeTypes ----------------------------
(***************************************************************************)
(* What the two directions of the bridge share: the events the source      *)
(* chains hold and the relayer's configuration (pkg/relayer/types.go,      *)
(* pkg/relayer/config.go).                                                 *)
(*                                                                         *)
(* An event is a natural number: its ordinal in the order its chain lists  *)
(* it.  PosOf gives the position that is persisted once it is processed (a *)
(* block number on Ethereum, a ledger offset on Canton); several events    *)
(* may share one.  TxOf is the transaction hash a deposit carries.         *)
(***************************************************************************)
EXTENDS Integers

CONSTANTS
    Events,         \* the deposit and withdrawal events of both chains
    DirOf,          \* [Events -> Dirs]
    PosOf,          \* [Events -> positions]
    TxOf,           \* [Events -> source transaction hashes]
    StartBlock,     \* [Dirs -> Nat]: eth_start_block, canton_start_block
    Lookback,       \* [Dirs -> Nat]: eth_lookback_blocks, canton_lookback_blocks
    MaxBlockRange,  \* blocks per eth_getLogs request
    ChanCap,        \* events a source may hold for its processor
    MaxRetries,     \* max_retries; 0 means no limit
    MaxPos,         \* bound: [Dirs -> Nat], how far each source chain grows
    DupBound        \* bound: destination calls accepted for one event

\* DirectionEthereumToCanton and DirectionCantonToEthereum.
EthToCanton == "ethereum_to_canton"
CantonToEth == "canton_to_ethereum"
Dirs == {EthToCanton, CantonToEth}

NoEvent == 0
NoState == -1   \* GetChainState found no row

EventsOf(d) == {e \in Events : DirOf[e] = d}

\* The event is the only one at its position.
Sole(e) == \A f \in EventsOf(DirOf[e]) : PosOf[f] = PosOf[e] => f = e

ASSUME EventsAssumption ==
    /\ Events \subseteq Nat \ {0}
    /\ DirOf \in [Events -> Dirs]
    /\ PosOf \in [Events -> Nat \ {0}]
    /\ \A e, f \in Events : DirOf[e] = DirOf[f] /\ e < f => PosOf[e] <= PosOf[f]

ASSUME ConfigAssumption ==
    /\ StartBlock \in [Dirs -> Nat]
    /\ Lookback \in [Dirs -> Nat]
    /\ MaxBlockRange \in Nat \ {0}
    /\ ChanCap \in Nat \ {0}
    /\ MaxRetries \in Nat
    /\ MaxPos \in [Dirs -> Nat]
    /\ DupBound \in Nat
=============================================================================
