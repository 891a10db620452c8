---------------------------- MODULE SignInNonces ----------------------------
(***************************************************************************)
(* What the nonce provider promises the login service, without maps,       *)
(* sweeps or a limit on addresses: an address has at most one nonce, which *)
(* nobody had before, and the nonce admits one login while its time lasts. *)
(***************************************************************************)
EXTENDS Integers

CONSTANTS
    Addresses,
    TTL,         \* the time a nonce has
    MaxNonces    \* bound on nonces

VARIABLES
    live,    \* [address, nonce, left]: the nonces a login may use, left > 0
    issued,  \* nonces handed out so far
    uses     \* nonce -> number of logins it admitted

nonceVars == <<live, issued, uses>>

NoncesInit ==
    /\ live = {}
    /\ issued = 0
    /\ uses = [n \in 1 .. MaxNonces |-> 0]

Issue(a) ==
    /\ issued < MaxNonces
    /\ \A e \in live : e.address # a
    /\ live' = live \cup {[address |-> a, nonce |-> issued + 1, left |-> TTL]}
    /\ issued' = issued + 1
    /\ UNCHANGED uses

Use(e) ==
    /\ uses[e.nonce] = 0
    /\ live' = live \ {e}
    /\ uses' = [uses EXCEPT ![e.nonce] = 1]
    /\ UNCHANGED issued

Expired == {e \in live : e.left = 1}

Age ==
    /\ live' = {[e EXCEPT !.left = @ - 1] : e \in live \ Expired}
    /\ UNCHANGED <<issued, uses>>

\* The process that keeps the nonces starts again.
Forget ==
    /\ live' = {}
    /\ UNCHANGED <<issued, uses>>

NoncesNext == (\E a \in Addresses : Issue(a)) \/ (\E e \in live : Use(e)) \/ Age \/ Forget

NoncesSpec == NoncesInit /\ [][NoncesNext]_nonceVars
=============================================================================
