------------------------ MODULE TransactionOutcomes ------------------------
(***************************************************************************)
(* What the Ethereum facade promises a wallet of every transaction it      *)
(* accepts, without rows, instances, timeouts or retries: the transfer     *)
(* takes effect only when accepted, its outcome is decided once, as a      *)
(* success only if it took effect, and a receipt publishes the outcome for *)
(* good.  A failure promises less: the effect may still follow.            *)
(***************************************************************************)

CONSTANT Txs

VARIABLES
    outcome,    \* [Txs -> {"none", "pending", "success", "failure"}]
    executed,   \* SUBSET Txs: the transfers that took effect
    published   \* SUBSET Txs: the transactions that have a receipt

outcomeVars == <<outcome, executed, published>>

OutcomesInit ==
    /\ outcome = [t \in Txs |-> "none"]
    /\ executed = {}
    /\ published = {}

Accept(t) ==
    /\ outcome[t] = "none"
    /\ outcome' = [outcome EXCEPT ![t] = "pending"]
    /\ UNCHANGED <<executed, published>>

Execute(t) ==
    /\ outcome[t] # "none"
    /\ t \notin executed
    /\ executed' = executed \cup {t}
    /\ UNCHANGED <<outcome, published>>

Decide(t) ==
    /\ outcome[t] = "pending"
    /\ \E o \in {"success", "failure"} :
          /\ o = "success" => t \in executed
          /\ outcome' = [outcome EXCEPT ![t] = o]
    /\ UNCHANGED <<executed, published>>

\* A block publishes a number of decided transactions at once.
Publish(block) ==
    /\ block # {}
    /\ \A t \in block : outcome[t] \in {"success", "failure"} /\ t \notin published
    /\ published' = published \cup block
    /\ UNCHANGED <<outcome, executed>>

OutcomesNext ==
    \/ \E t \in Txs : Accept(t) \/ Execute(t) \/ Decide(t)
    \/ \E block \in SUBSET Txs : Publish(block)

OutcomesSpec == OutcomesInit /\ [][OutcomesNext]_outcomeVars
=============================================================================
