---------------------------- MODULE AccessToken ----------------------------
(***************************************************************************)
(* The OAuth access token of the ledger client: the cache of the client    *)
(* (loadToken and InvalidateToken of pkg/cantonsdk/ledger/client.go) over  *)
(* the cache of OAuthClientCredentialsProvider (pkg/cantonsdk/ledger/      *)
(* auth.go).  Both hold the same token until the same refresh-by time.     *)
(*                                                                         *)
(* Times are the units left, counted down by Tick.                         *)
(***************************************************************************)
EXTENDS Integers

CONSTANTS
    Lifetimes,      \* lifetimes the token endpoint gives its tokens
    Leeway,         \* ExpiryLeeway
    FallbackTTL     \* fallbackTokenTTL

ASSUME TokenAssumption ==
    /\ Lifetimes \subseteq Nat \ {0}
    /\ Leeway \in Nat \ {0}
    /\ FallbackTTL \in Nat \ {0}

\* cached: the client holds the token of the provider;
\* refresh: until the caches let go of it; life: until the ledger refuses it;
\* stated: the endpoint said how long it lives.
NoToken == [cached |-> FALSE, refresh |-> 0, life |-> 0, stated |-> FALSE]

\* The leeway is forgotten.
RefreshByNaive(e) == IF e = 0 THEN FallbackTTL ELSE e

\* computeRefreshBy, for an expires_in of e (0: not stated).
RefreshBy(e) ==
    CASE e = 0 -> FallbackTTL
      [] e # 0 /\ e >= Leeway -> e - Leeway
      [] e # 0 /\ e < Leeway -> e \div 2

\* fetchToken: a token of lifetime e, which the answer states or does not.
Fetched ==
    {[cached |-> TRUE, refresh |-> RefreshBy(IF s THEN e ELSE 0),
      life |-> e, stated |-> s] : e \in Lifetimes, s \in BOOLEAN}

\* The provider does not look at the refresh-by time.
LoadedNaive(t) == IF t # NoToken THEN {[t EXCEPT !.cached = TRUE]} ELSE Fetched

\* loadToken: what the caches may hold after it.  A token that is not to be
\* refreshed is returned, by the provider if the client dropped its copy.
Loaded(t) == IF t.refresh > 0 THEN {[t EXCEPT !.cached = TRUE]} ELSE Fetched

\* The token endpoint fails: the caches stay, and no token is sent.
LoadFails(t) == t.refresh = 0

\* InvalidateToken drops the copy of the client, not the one of the provider.
Invalidate(t) == [t EXCEPT !.cached = FALSE]

\* The ledger accepts the token.
Accepted(t) == t.life > 0

CountDown(n) == IF n = 0 THEN 0 ELSE n - 1

Aged(t) == [t EXCEPT !.refresh = CountDown(@), !.life = CountDown(@)]

\* The ledger no longer accepts a token it issued (external).
Revoked(t) == [t EXCEPT !.life = 0, !.stated = FALSE]
=============================================================================
