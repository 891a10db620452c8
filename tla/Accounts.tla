------------------------------ MODULE Accounts ------------------------------
(***************************************************************************)
(* The api-server's registration and sign-in: the registration service,    *)
(* and the login service (pkg/auth/service/login.go) with its nonce store, *)
(* in one process that can be restarted.  Users and the ledger survive a   *)
(* restart; requests, prepared topologies and nonces do not.               *)
(***************************************************************************)
EXTENDS Registration, NonceStore

CONSTANT MaxNonces  \* bound on nonces

ASSUME AccountsAssumption == MaxNonces \in Nat

VARIABLES
    nonces,     \* the nonce store
    sweepIn,    \* ticks until nextSweep has passed
    fresh,      \* nonces generated so far
    uses        \* nonce -> number of logins it satisfied

loginVars == <<nonces, sweepIn, fresh, uses>>
accountsVars == <<registrationVars, loginVars>>

AccountsInit ==
    /\ RegistrationInit
    /\ nonces = NewInMemory /\ sweepIn = 0 /\ fresh = 0
    /\ uses = [n \in 1 .. MaxNonces |-> 0]

RegistrationStep == RegistrationNext /\ UNCHANGED loginVars

Swept == IF sweepIn = 0 THEN Purged(nonces) ELSE nonces

\* GET /auth/nonce for any address.
Nonce ==
    /\ fresh < MaxNonces
    /\ \E a \in Addresses : nonces' = Issued(Swept, a, fresh + 1)
    /\ fresh' = IF fresh + 1 \in DOMAIN nonces'.byNonce THEN fresh + 1 ELSE fresh
    /\ sweepIn' = IF sweepIn = 0 THEN NonceTTL + 1 ELSE sweepIn
    /\ UNCHANGED <<registrationVars, uses>>

\* A sign-in message with a nonce and a valid signature; the look-up of the user
\* and the session token that follow change nothing here.
Login ==
    /\ \E n \in 1 .. fresh :
        /\ nonces' = Consumed(nonces, n)
        /\ uses' = IF Consumable(nonces, n) THEN [uses EXCEPT ![n] = @ + 1] ELSE uses
    /\ UNCHANGED <<registrationVars, sweepIn, fresh>>

Tick ==
    /\ nonces' = Older(nonces)
    /\ sweepIn' = IF sweepIn > 0 THEN sweepIn - 1 ELSE 0
    /\ UNCHANGED <<registrationVars, fresh, uses>>

Restart ==
    /\ RegistrationLost
    /\ nonces' = NewInMemory /\ sweepIn' = 0
    /\ UNCHANGED <<fresh, uses>>

AccountsNext == RegistrationStep \/ Nonce \/ Login \/ Tick \/ Restart

AccountsSpec == AccountsInit /\ [][AccountsNext]_accountsVars

(* Properties.                                                             *)

\* The person behind a row, an address or a native party, has one request in
\* progress at a time.
OneAtATime(u) == u.evm \notin Overlapping /\ u.party \notin Overlapping

\* Whatever failed and was tried again before, the fingerprint of a registered
\* user resolves to the party of the user's row, so that deposits and transfers
\* reach a party whose key is known (RegisterWeb3User, registerExternalWeb3User,
\* GetFingerprintMapping).  Requests of other people may overlap, but not the
\* user's own, and the namespaces of native parties differ: the code checks
\* neither, and the last of two overlapping requests to create its mapping need
\* not be the one that creates the row.
Resolves == \A u \in users : OneAtATime(u) => Resolve(u.fingerprint) = {u.party}

\* No two users share a party, though party hints and client keys may be shared,
\* requests of one address overlap and requests fail at any point
\* (AllocateExternalPartyWithSignature, RegisterCantonNativeUser).  The exception
\* is a native party whose own requests overlap: both can pass the look-up and
\* both insert a row, since canton_party_id is not unique in the table.
PartyOnce == \A u, v \in users : u.party = v.party => u = v \/ u.party \in Overlapping

\* The two maps of the nonce store are inverse to each other through expiry,
\* replacement, sweeps and consumption, so neither leaks entries (Issue, Consume,
\* purgeExpired).
IndexesAgree ==
    /\ \A a \in DOMAIN nonces.byAddr :
        /\ nonces.byAddr[a].nonce \in DOMAIN nonces.byNonce
        /\ nonces.byNonce[nonces.byAddr[a].nonce] = a
    /\ \A n \in DOMAIN nonces.byNonce :
        /\ nonces.byNonce[n] \in DOMAIN nonces.byAddr
        /\ nonces.byAddr[nonces.byNonce[n]].nonce = n

\* A nonce satisfies at most one login (Consume).
UsedOnce == \A n \in 1 .. MaxNonces : uses[n] <= 1

\* A live nonce leaves the store by its own use, by time or by a restart, never
\* because others ask for nonces while the store is full (Issue).
KeepsLive ==
    \A a \in Addresses :
        Live(nonces, a) =>
            \/ a \in DOMAIN nonces'.byAddr /\ nonces'.byAddr[a].nonce = nonces.byAddr[a].nonce
            \/ uses'[nonces.byAddr[a].nonce] = uses[nonces.byAddr[a].nonce] + 1

LiveNoncesKept == [][Restart \/ KeepsLive]_accountsVars

\* The nonces a login may use.
LiveNonces ==
    {[address |-> a, nonce |-> nonces.byAddr[a].nonce, left |-> nonces.byAddr[a].left] :
        a \in {x \in DOMAIN nonces.byAddr : Live(nonces, x)}}

SignIn == INSTANCE SignInNonces WITH
    TTL <- NonceTTL, live <- LiveNonces, issued <- fresh

\* The store is exact though it is lazy: removing expired nonces on a sweep, on a
\* full store or never cannot be observed, and no nonce admits a login after its
\* time or after another login (Issue, Consume, purgeExpired).
ImplementsSignIn == SignIn!NoncesSpec
=============================================================================
