---------------------------- MODULE Destinations ----------------------------
(***************************************************************************)
(* The two destinations of pkg/relayer/engine/destination.go and the       *)
(* ledger clients behind them.  On Canton a deposit is two commands: one   *)
(* creates a PendingDeposit, the next consumes it and mints.  On Ethereum  *)
(* a withdrawal is one transaction that the node accepts and a block       *)
(* includes later, if ever.  A command whose call returns an error may     *)
(* have been committed all the same.                                       *)
(*                                                                         *)
(* The Daml templates and the Solidity contract are outside src/: their    *)
(* effect is taken from how the clients use them.                          *)
(***************************************************************************)
EXTENDS BridgeTypes

VARIABLES
    pendingDep,  \* [Events -> Nat] active PendingDeposit contracts
    minted,      \* [Events -> Nat] ProcessDepositAndMint commits (DepositReceipts)
    evmSent,     \* [Events -> Nat] withdrawFromCanton txs a node accepted
    evmDone,     \* [Events -> Nat] of those, the ones mined or dropped
    released,    \* SUBSET Events: processedCantonTxs of the EVM contract
    closed       \* SUBSET Events: WithdrawalEvents completed on Canton

cantonVars == <<pendingDep, minted>>
evmVars == <<evmSent, evmDone, released>>
destVars == <<pendingDep, minted, evmSent, evmDone, released, closed>>

DestInit ==
    /\ pendingDep = [e \in Events |-> 0]
    /\ minted = [e \in Events |-> 0]
    /\ evmSent = [e \in Events |-> 0]
    /\ evmDone = [e \in Events |-> 0]
    /\ released = {}
    /\ closed = {}

\* Mutant: the DepositReceipts are not queried.
IsDepositProcessed_PendingOnly(e) ==
    \E f \in EventsOf(EthToCanton) : TxOf[f] = TxOf[e] /\ pendingDep[f] > 0

\* An active PendingDeposit or DepositReceipt carries the transaction hash.
IsDepositProcessed(e) ==
    \E f \in EventsOf(EthToCanton) :
        TxOf[f] = TxOf[e] /\ (pendingDep[f] > 0 \/ minted[f] > 0)

IsWithdrawalProcessed(e) == e \in released

AlreadyProcessed(e) ==
    IF DirOf[e] = EthToCanton THEN IsDepositProcessed(e) ELSE IsWithdrawalProcessed(e)

CreatePendingDeposit(e) ==
    /\ pendingDep[e] + minted[e] < DupBound
    /\ pendingDep' = [pendingDep EXCEPT ![e] = @ + 1]
    /\ UNCHANGED <<minted, evmVars, closed>>

\* Archives the PendingDeposit the caller created.
ProcessDepositAndMint(e) ==
    /\ pendingDep[e] > 0
    /\ pendingDep' = [pendingDep EXCEPT ![e] = @ - 1]
    /\ minted' = [minted EXCEPT ![e] = @ + 1]
    /\ UNCHANGED <<evmVars, closed>>

WithdrawFromCanton(e) ==
    /\ evmSent[e] < DupBound
    /\ evmSent' = [evmSent EXCEPT ![e] = @ + 1]
    /\ UNCHANGED <<cantonVars, evmDone, released, closed>>

CompleteWithdrawal(e) ==
    /\ closed' = closed \cup {e}
    /\ UNCHANGED <<cantonVars, evmVars>>

\* A withdrawal transaction is included; a second one for the same
\* WithdrawalEvent finds processedCantonTxs set and changes nothing.
EvmMine(e) ==
    /\ evmDone[e] < evmSent[e]
    /\ evmDone' = [evmDone EXCEPT ![e] = @ + 1]
    /\ released' = released \cup {e}
    /\ UNCHANGED <<cantonVars, evmSent, closed>>

\* It reverts, is replaced (two callers read one pending nonce) or evicted.
EvmDrop(e) ==
    /\ evmDone[e] < evmSent[e]
    /\ evmDone' = [evmDone EXCEPT ![e] = @ + 1]
    /\ UNCHANGED <<cantonVars, evmSent, released, closed>>

EvmStep == \E e \in EventsOf(CantonToEth) : EvmMine(e) \/ EvmDrop(e)

DestTypeOK ==
    /\ pendingDep \in [Events -> Nat]
    /\ minted \in [Events -> Nat]
    /\ evmSent \in [Events -> Nat]
    /\ evmDone \in [Events -> Nat]
    /\ released \in SUBSET Events
    /\ closed \in SUBSET Events
=============================================================================
