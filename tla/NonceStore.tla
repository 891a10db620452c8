----------------------------- MODULE NonceStore -----------------------------
(***************************************************************************)
(* The in-memory store of login nonces                                     *)
(* (pkg/auth/service/nonce_provider/in_memory.go).  A store st has two     *)
(* maps: st.byAddr takes an address to its nonce and the time it has left, *)
(* st.byNonce a nonce back to its address.  Every operation holds the      *)
(* mutex, so it is one step from a store to the next.                      *)
(***************************************************************************)
EXTENDS Integers, FiniteSets, Functions

CONSTANTS
    NonceTTL,       \* ttl, in ticks
    MaxAddresses    \* maxAddresses

ASSUME NonceAssumption == NonceTTL \in Nat \ {0} /\ MaxAddresses \in Nat \ {0}

Store(byAddr, byNonce) == [byAddr |-> byAddr, byNonce |-> byNonce]

EmptyMap == [x \in {} |-> x]
NewInMemory == Store(EmptyMap, EmptyMap)

\* The map with one more key, or another value for it.
With(f, k, v) == [x \in DOMAIN f \cup {k} |-> IF x = k THEN v ELSE f[x]]

Live(st, a) == a \in DOMAIN st.byAddr /\ st.byAddr[a].left > 0

\* purgeExpired removes what is not live from both maps.
Purged(st) ==
    LET alive == {a \in DOMAIN st.byAddr : Live(st, a)}
        dead == {st.byAddr[a].nonce : a \in DOMAIN st.byAddr \ alive}
    IN  Store(Restrict(st.byAddr, alive), Restrict(st.byNonce, DOMAIN st.byNonce \ dead))

HasRoom(st, a) == a \in DOMAIN st.byAddr \/ Cardinality(DOMAIN st.byAddr) < MaxAddresses

\* Somebody's entry makes room.
WithRoomNaive(st, a) ==
    IF HasRoom(st, a) THEN st
    ELSE LET victim == CHOOSE x \in DOMAIN st.byAddr : TRUE IN
         Store(Restrict(st.byAddr, DOMAIN st.byAddr \ {victim}),
               Restrict(st.byNonce, DOMAIN st.byNonce \ {st.byAddr[victim].nonce}))

\* A store that is full for the address is purged.
WithRoom(st, a) == IF HasRoom(st, a) THEN st ELSE Purged(st)

\* The reverse index keeps the old nonce of the address.
EnteredNaive(st, a, n) ==
    Store(With(st.byAddr, a, [nonce |-> n, left |-> NonceTTL]), With(st.byNonce, n, a))

\* The address gets the nonce n; its stale nonce leaves the reverse index.
Entered(st, a, n) ==
    LET stale == {st.byAddr[x].nonce : x \in DOMAIN st.byAddr \cap {a}}
    IN  Store(With(st.byAddr, a, [nonce |-> n, left |-> NonceTTL]),
              With(Restrict(st.byNonce, DOMAIN st.byNonce \ stale), n, a))

\* Issue, after its sweep: the store it leaves when n is the next fresh nonce.
\* A live nonce is handed out again; a store that stays full refuses.
Issued(st, a, n) ==
    LET room == WithRoom(st, a) IN
    IF Live(st, a) THEN st ELSE IF HasRoom(room, a) THEN Entered(room, a, n) ELSE room

\* The nonce is looked up and left in place.
ConsumedNaive(st, n) == st

\* Consume removes a nonce it knows, whether it is live or not.
Consumed(st, n) ==
    IF n \notin DOMAIN st.byNonce THEN st
    ELSE Store(Restrict(st.byAddr, DOMAIN st.byAddr \ {st.byNonce[n]}),
               Restrict(st.byNonce, DOMAIN st.byNonce \ {n}))

\* The expiry is not looked at.
ConsumableNaive(st, n) == n \in DOMAIN st.byNonce

\* What Consume answers.
Consumable(st, n) == n \in DOMAIN st.byNonce /\ Live(st, st.byNonce[n])

\* A tick of the clock.
Older(st) ==
    Store([a \in DOMAIN st.byAddr |->
              [nonce |-> st.byAddr[a].nonce,
               left |-> IF st.byAddr[a].left > 0 THEN st.byAddr[a].left - 1 ELSE 0]],
          st.byNonce)
=============================================================================
