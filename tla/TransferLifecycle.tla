------------------------- MODULE TransferLifecycle -------------------------
(***************************************************************************)
(* What the relayer promises of every transfer, without processes, chains  *)
(* or retries: it is recorded, it takes effect on the destination at most  *)
(* once and only after it was recorded, and it is settled once and for     *)
(* all.                                                                    *)
(***************************************************************************)
EXTENDS Integers

CONSTANT Events

VARIABLES
    status,   \* [Events -> {"absent", "pending", "completed", "failed"}]
    effect    \* [Events -> Nat] mints or releases the event caused

Init ==
    /\ status = [e \in Events |-> "absent"]
    /\ effect = [e \in Events |-> 0]

Record(e) ==
    /\ status[e] = "absent"
    /\ status' = [status EXCEPT ![e] = "pending"]
    /\ UNCHANGED effect

Settle(e) ==
    /\ status[e] = "pending"
    /\ \E s \in {"completed", "failed"} : status' = [status EXCEPT ![e] = s]
    /\ UNCHANGED effect

TakeEffect(e) ==
    /\ status[e] # "absent"
    /\ effect[e] = 0
    /\ effect' = [effect EXCEPT ![e] = 1]
    /\ UNCHANGED status

Next == \E e \in Events : Record(e) \/ Settle(e) \/ TakeEffect(e)

Spec == Init /\ [][Next]_<<status, effect>>
=============================================================================
