---------------------------- MODULE AccountProofs ----------------------------
(***************************************************************************)
(* Proofs about the login nonces and the registration of users, for any    *)
(* people, keys, party hints, native parties and requests, any capacity    *)
(* and lifetime, and any interleaving of requests, failures, ticks and     *)
(* restarts.                                                               *)
(***************************************************************************)
EXTENDS Accounts, TLAPS

-----------------------------------------------------------------------------
(* The nonces. *)

\* IndexesAgree, for any store.
Agree(st) ==
    /\ \A a \in DOMAIN st.byAddr :
        /\ st.byAddr[a].nonce \in DOMAIN st.byNonce
        /\ st.byNonce[st.byAddr[a].nonce] = a
    /\ \A n \in DOMAIN st.byNonce :
        /\ st.byNonce[n] \in DOMAIN st.byAddr
        /\ st.byAddr[st.byNonce[n]].nonce = n

\* Every live entry of one store is an entry of the other.
Keeps(st, next) ==
    \A a : Live(st, a) => a \in DOMAIN next.byAddr /\ next.byAddr[a] = st.byAddr[a]

\* The nonces in the store were generated and have not been used; no nonce was
\* used twice, and none before it was generated.
NonceInv ==
    /\ Agree(nonces)
    /\ fresh \in Nat
    /\ uses \in [1 .. MaxNonces -> Nat]
    /\ \A n \in DOMAIN nonces.byNonce : n \in 1 .. fresh /\ n \in 1 .. MaxNonces /\ uses[n] = 0
    /\ \A n \in 1 .. MaxNonces : uses[n] <= 1 /\ (n > fresh => uses[n] = 0)

\* The maps of a store that is put together.
LEMMA StoreMaps ==
    ASSUME NEW f, NEW g
    PROVE  Store(f, g).byAddr = f /\ Store(f, g).byNonce = g
  BY Zenon DEF Store

\* A purge removes pairs that are not live.
LEMMA PurgedAgrees ==
    ASSUME NEW st, Agree(st)
    PROVE  /\ Agree(Purged(st))
           /\ DOMAIN Purged(st).byNonce \subseteq DOMAIN st.byNonce
           /\ Keeps(st, Purged(st))
<1> DEFINE alive == {a \in DOMAIN st.byAddr : Live(st, a)}
           dead == {st.byAddr[a].nonce : a \in DOMAIN st.byAddr \ alive}
           f == Restrict(st.byAddr, alive)
           g == Restrict(st.byNonce, DOMAIN st.byNonce \ dead)
<1>1. Purged(st).byAddr = f /\ Purged(st).byNonce = g
  BY StoreMaps, Zenon DEF Purged
<1>2. DOMAIN f = alive /\ \A a \in alive : f[a] = st.byAddr[a]
  BY Zenon DEF Restrict
<1>3. DOMAIN g = DOMAIN st.byNonce \ dead /\ \A n \in DOMAIN g : g[n] = st.byNonce[n]
  BY Zenon DEF Restrict
<1> HIDE DEF f, g
<1>4. \A a \in alive : st.byAddr[a].nonce \notin dead
  BY Zenon DEF Agree
<1>5. \A n \in DOMAIN st.byNonce \ dead : st.byNonce[n] \in alive
  BY Zenon DEF Agree
<1>6. Agree(Purged(st))
  BY <1>1, <1>2, <1>3, <1>4, <1>5 DEF Agree
<1>7. Keeps(st, Purged(st))
  BY <1>1, <1>2, Zenon DEF Keeps, Live
<1> QED
  BY <1>1, <1>3, <1>6, <1>7, Zenon

\* A new nonce replaces the pair of the address.
LEMMA EnteredAgrees ==
    ASSUME NEW st, Agree(st), NEW a, NEW n, n \notin DOMAIN st.byNonce
    PROVE  /\ Agree(Entered(st, a, n))
           /\ DOMAIN Entered(st, a, n).byNonce \subseteq DOMAIN st.byNonce \cup {n}
           /\ n \in DOMAIN Entered(st, a, n).byNonce
           /\ \A b \in DOMAIN st.byAddr : b # a =>
                b \in DOMAIN Entered(st, a, n).byAddr /\ Entered(st, a, n).byAddr[b] = st.byAddr[b]
<1> DEFINE stale == {st.byAddr[x].nonce : x \in DOMAIN st.byAddr \cap {a}}
           e == [nonce |-> n, left |-> NonceTTL]
           f == With(st.byAddr, a, e)
           h == Restrict(st.byNonce, DOMAIN st.byNonce \ stale)
           g == With(h, n, a)
<1>1. Entered(st, a, n).byAddr = f /\ Entered(st, a, n).byNonce = g
  BY StoreMaps, Zenon DEF Entered
<1>2. e.nonce = n
  BY Zenon
<1> HIDE DEF e
<1>3. /\ DOMAIN f = DOMAIN st.byAddr \cup {a} /\ f[a] = e
      /\ \A b \in DOMAIN st.byAddr : b # a => f[b] = st.byAddr[b]
  BY Zenon DEF With
<1>4. DOMAIN h = DOMAIN st.byNonce \ stale /\ \A x \in DOMAIN h : h[x] = st.byNonce[x]
  BY Zenon DEF Restrict
<1> HIDE DEF h
<1>5. DOMAIN g = DOMAIN h \cup {n} /\ g[n] = a /\ \A x \in DOMAIN h : x # n => g[x] = h[x]
  BY Zenon DEF With
<1> HIDE DEF f, g
<1>6. \A b \in DOMAIN st.byAddr : b # a => st.byAddr[b].nonce \in DOMAIN h
  BY <1>4 DEF Agree
<1>7. \A x \in DOMAIN h : st.byNonce[x] \in DOMAIN st.byAddr /\ st.byNonce[x] # a
  BY <1>4 DEF Agree
<1>8. \A b \in DOMAIN f : f[b].nonce \in DOMAIN g /\ g[f[b].nonce] = b
  BY <1>2, <1>3, <1>4, <1>5, <1>6 DEF Agree
<1>9. \A x \in DOMAIN g : g[x] \in DOMAIN f /\ f[g[x]].nonce = x
  BY <1>2, <1>3, <1>4, <1>5, <1>7 DEF Agree
<1>10. Agree(Entered(st, a, n))
  BY <1>1, <1>8, <1>9, Zenon DEF Agree
<1> QED
  BY <1>1, <1>3, <1>4, <1>5, <1>10, Zenon

\* Issue keeps the maps inverse and every live nonce in place.
LEMMA IssuedAgrees ==
    ASSUME NEW st, Agree(st), NEW a, NEW n, n \notin DOMAIN st.byNonce
    PROVE  /\ Agree(Issued(st, a, n))
           /\ DOMAIN Issued(st, a, n).byNonce \subseteq DOMAIN st.byNonce \cup {n}
           /\ Keeps(st, Issued(st, a, n))
<1> DEFINE room == WithRoom(st, a)
<1>1. /\ Agree(room) /\ DOMAIN room.byNonce \subseteq DOMAIN st.byNonce
      /\ Keeps(st, room)
  <2>1. CASE HasRoom(st, a)
    BY <2>1, Zenon DEF WithRoom, Keeps, Live
  <2>2. CASE ~HasRoom(st, a)
    BY <2>2, PurgedAgrees, Zenon DEF WithRoom
  <2> QED
    BY <2>1, <2>2, Zenon
<1> HIDE DEF room
<1>2. CASE Live(st, a)
  BY <1>2, Zenon DEF Issued, Keeps, Live
<1>3. CASE ~Live(st, a) /\ HasRoom(room, a)
  <2>1. Issued(st, a, n) = Entered(room, a, n)
    BY <1>3, Zenon DEF Issued, room
  <2>2. n \notin DOMAIN room.byNonce
    BY <1>1, Zenon
  <2>3. \A b : Live(st, b) => b # a
    BY <1>3, Zenon
  <2> QED
    BY <1>1, <2>1, <2>2, <2>3, EnteredAgrees DEF Keeps
<1>4. CASE ~Live(st, a) /\ ~HasRoom(room, a)
  BY <1>1, <1>4, Zenon DEF Issued, room
<1> QED
  BY <1>2, <1>3, <1>4, Zenon

\* Consume removes one pair.
LEMMA ConsumedAgrees ==
    ASSUME NEW st, Agree(st), NEW n
    PROVE  /\ Agree(Consumed(st, n))
           /\ DOMAIN Consumed(st, n).byNonce = DOMAIN st.byNonce \ {n}
           /\ \A a \in DOMAIN st.byAddr :
                \/ a \in DOMAIN Consumed(st, n).byAddr
                   /\ Consumed(st, n).byAddr[a] = st.byAddr[a]
                \/ n \in DOMAIN st.byNonce /\ st.byAddr[a].nonce = n
<1>1. CASE n \notin DOMAIN st.byNonce
  BY <1>1, Zenon DEF Consumed
<1>2. CASE n \in DOMAIN st.byNonce
  <2> DEFINE a == st.byNonce[n]
             f == Restrict(st.byAddr, DOMAIN st.byAddr \ {a})
             g == Restrict(st.byNonce, DOMAIN st.byNonce \ {n})
  <2>1. Consumed(st, n).byAddr = f /\ Consumed(st, n).byNonce = g
    BY <1>2, StoreMaps, Zenon DEF Consumed
  <2>2. DOMAIN f = DOMAIN st.byAddr \ {a} /\ \A x \in DOMAIN f : f[x] = st.byAddr[x]
    BY Zenon DEF Restrict
  <2>3. DOMAIN g = DOMAIN st.byNonce \ {n} /\ \A x \in DOMAIN g : g[x] = st.byNonce[x]
    BY Zenon DEF Restrict
  <2> HIDE DEF f, g
  <2>4. st.byAddr[a].nonce = n
    BY <1>2, Zenon DEF Agree
  <2>5. \A x \in DOMAIN f : f[x].nonce \in DOMAIN g /\ g[f[x].nonce] = x
    BY <1>2, <2>2, <2>3 DEF Agree
  <2>6. \A x \in DOMAIN g : g[x] \in DOMAIN f /\ f[g[x]].nonce = x
    BY <1>2, <2>2, <2>3 DEF Agree
  <2>7. Agree(Consumed(st, n))
    BY <2>1, <2>5, <2>6, Zenon DEF Agree
  <2> QED
    BY <1>2, <2>1, <2>2, <2>3, <2>4, <2>7, Zenon
<1> QED
  BY <1>1, <1>2, Zenon

-----------------------------------------------------------------------------

\* The sweep and the issue together.
LEMMA NonceKeeps ==
    ASSUME NonceInv, Nonce
    PROVE  NonceInv' /\ KeepsLive
<1>1. PICK a \in Addresses : nonces' = Issued(Swept, a, fresh + 1)
  BY Zenon DEF Nonce
<1>2. Agree(Swept) /\ DOMAIN Swept.byNonce \subseteq DOMAIN nonces.byNonce /\ Keeps(nonces, Swept)
  <2>1. CASE sweepIn = 0
    BY <2>1, PurgedAgrees, Zenon DEF Swept, NonceInv
  <2>2. CASE sweepIn # 0
    BY <2>2, Zenon DEF Swept, NonceInv, Keeps, Live
  <2> QED
    BY <2>1, <2>2, Zenon
<1>3. fresh + 1 \notin DOMAIN Swept.byNonce
  BY <1>2 DEF NonceInv
<1>4. /\ Agree(nonces') /\ DOMAIN nonces'.byNonce \subseteq DOMAIN nonces.byNonce \cup {fresh + 1}
      /\ Keeps(Swept, nonces')
  BY <1>1, <1>2, <1>3, IssuedAgrees, Zenon
<1>5. /\ uses' = uses /\ fresh < MaxNonces
      /\ fresh' = IF fresh + 1 \in DOMAIN nonces'.byNonce THEN fresh + 1 ELSE fresh
  BY Zenon DEF Nonce
<1>6. KeepsLive
  BY <1>2, <1>4, Zenon DEF Keeps, Live, KeepsLive
<1>7. Agree(nonces)'
  BY <1>4, Zenon DEF Agree
<1>8. fresh + 1 \in 1 .. MaxNonces /\ uses[fresh + 1] = 0
  BY <1>5, AccountsAssumption DEF NonceInv
<1>9. NonceInv'
  BY <1>4, <1>5, <1>7, <1>8, AccountsAssumption DEF NonceInv
<1> QED
  BY <1>6, <1>9, Zenon

\* Consume answers true only for a nonce that is in the store, and removes it.
LEMMA LoginKeeps ==
    ASSUME NonceInv, Login
    PROVE  NonceInv' /\ KeepsLive
<1>1. PICK n \in 1 .. fresh :
        /\ nonces' = Consumed(nonces, n)
        /\ uses' = IF Consumable(nonces, n) THEN [uses EXCEPT ![n] = @ + 1] ELSE uses
  BY Zenon DEF Login
<1>2. /\ Agree(nonces') /\ DOMAIN nonces'.byNonce = DOMAIN nonces.byNonce \ {n}
      /\ \A a \in DOMAIN nonces.byAddr :
            \/ a \in DOMAIN nonces'.byAddr /\ nonces'.byAddr[a] = nonces.byAddr[a]
            \/ n \in DOMAIN nonces.byNonce /\ nonces.byAddr[a].nonce = n
  BY <1>1, ConsumedAgrees DEF NonceInv
<1>3. Consumable(nonces, n) => n \in DOMAIN nonces.byNonce
  BY Zenon DEF Consumable
<1>4. fresh' = fresh
  BY Zenon DEF Login
<1>5. Agree(nonces)'
  BY <1>2, Zenon DEF Agree
<1>6. NonceInv'
  BY <1>1, <1>2, <1>3, <1>4, <1>5 DEF NonceInv
<1>7. ASSUME NEW a, Live(nonces, a), n \in DOMAIN nonces.byNonce, nonces.byAddr[a].nonce = n
      PROVE  uses'[n] = uses[n] + 1
  <2>1. nonces.byNonce[n] = a
    BY <1>7, Zenon DEF NonceInv, Agree, Live
  <2>2. Consumable(nonces, n)
    BY <1>7, <2>1, Zenon DEF Consumable
  <2> QED
    BY <1>1, <1>7, <2>2, Zenon DEF NonceInv
<1>8. KeepsLive
  BY <1>2, <1>7, Zenon DEF KeepsLive, Live
<1> QED
  BY <1>6, <1>8, Zenon

\* Time changes neither the addresses nor their nonces.
LEMMA TickKeeps ==
    ASSUME NonceInv, Tick
    PROVE  NonceInv' /\ KeepsLive
<1> DEFINE f == [a \in DOMAIN nonces.byAddr |->
                    [nonce |-> nonces.byAddr[a].nonce,
                     left |-> IF nonces.byAddr[a].left > 0 THEN nonces.byAddr[a].left - 1 ELSE 0]]
<1>1. nonces'.byAddr = f /\ nonces'.byNonce = nonces.byNonce
  BY StoreMaps, Zenon DEF Tick, Older
<1>2. DOMAIN f = DOMAIN nonces.byAddr /\ \A a \in DOMAIN f : f[a].nonce = nonces.byAddr[a].nonce
  BY Zenon
<1> HIDE DEF f
<1>3. uses' = uses /\ fresh' = fresh
  BY Zenon DEF Tick
<1>4. Agree(nonces)'
  BY <1>1, <1>2 DEF NonceInv, Agree
<1> QED
  BY <1>1, <1>2, <1>3, <1>4, Zenon DEF NonceInv, KeepsLive, Live

\* An empty store has nothing to disagree about.
LEMMA EmptyAgrees ==
    /\ DOMAIN NewInMemory.byAddr = {} /\ DOMAIN NewInMemory.byNonce = {}
    /\ Agree(NewInMemory)
<1>1. NewInMemory.byAddr = EmptyMap /\ NewInMemory.byNonce = EmptyMap
  BY StoreMaps, Zenon DEF NewInMemory
<1>2. DOMAIN EmptyMap = {}
  BY Zenon DEF EmptyMap
<1> QED
  BY <1>1, <1>2, Zenon DEF Agree

LEMMA RestartKeeps ==
    ASSUME NonceInv, Restart
    PROVE  NonceInv'
<1>1. nonces' = NewInMemory /\ fresh' = fresh /\ uses' = uses
  BY Zenon DEF Restart
<1>2. Agree(nonces)' /\ DOMAIN nonces'.byNonce = {}
  BY <1>1, EmptyAgrees, Zenon DEF Agree
<1> QED
  BY <1>1, <1>2, Zenon DEF NonceInv

LEMMA InitNonceInv == AccountsInit => NonceInv
<1> SUFFICES ASSUME AccountsInit PROVE NonceInv
  BY Zenon
<1>1. nonces = NewInMemory /\ fresh = 0 /\ uses = [n \in 1 .. MaxNonces |-> 0]
  BY Zenon DEF AccountsInit
<1> QED
  BY <1>1, EmptyAgrees DEF NonceInv

\* A step of a registration request leaves the nonces alone.
LEMMA NoncesOthersKeep ==
    ASSUME NonceInv, UNCHANGED loginVars
    PROVE  NonceInv' /\ KeepsLive
<1>1. nonces' = nonces /\ fresh' = fresh /\ uses' = uses
  BY Zenon DEF loginVars
<1> QED
  BY <1>1, Zenon DEF NonceInv, KeepsLive, Agree, Live

LEMMA NoncesNextKeep ==
    ASSUME NonceInv, [AccountsNext]_accountsVars
    PROVE  NonceInv' /\ (Restart \/ KeepsLive)
<1>1. CASE RegistrationStep
  BY <1>1, NoncesOthersKeep, Zenon DEF RegistrationStep
<1>2. CASE UNCHANGED accountsVars
  BY <1>2, NoncesOthersKeep, Zenon DEF accountsVars
<1> QED
  BY <1>1, <1>2, NonceKeeps, LoginKeeps, TickKeeps, RestartKeeps, Zenon DEF AccountsNext

LEMMA AlwaysNonceInv == AccountsSpec => []NonceInv
  BY InitNonceInv, NoncesNextKeep, PTL DEF AccountsSpec

\* The two maps of the nonce store stay inverse to each other (Issue, Consume,
\* purgeExpired).
THEOREM MapsStayInverse == AccountsSpec => []IndexesAgree
<1>1. NonceInv => IndexesAgree
  BY Zenon DEF NonceInv, Agree, IndexesAgree
<1> QED
  BY <1>1, AlwaysNonceInv, PTL

\* However many logins race with it, a nonce satisfies at most one (Consume).
THEOREM NonceUsedOnce == AccountsSpec => []UsedOnce
<1>1. NonceInv => UsedOnce
  BY Zenon DEF NonceInv, UsedOnce
<1> QED
  BY <1>1, AlwaysNonceInv, PTL

\* A full store never drops a live nonce to issue another one (Issue).
THEOREM LiveNonceStays == AccountsSpec => LiveNoncesKept
<1>1. NonceInv /\ [AccountsNext]_accountsVars => [Restart \/ KeepsLive]_accountsVars
  BY NoncesNextKeep, Zenon
<1> QED
  BY <1>1, AlwaysNonceInv, PTL DEF AccountsSpec, LiveNoncesKept

-----------------------------------------------------------------------------
(* The nonces a login may use, as the store promises them. *)

Entry(st, a) == [address |-> a, nonce |-> st.byAddr[a].nonce, left |-> st.byAddr[a].left]
LiveIn(st) == {a \in DOMAIN st.byAddr : Live(st, a)}
Entries(st) == {Entry(st, a) : a \in LiveIn(st)}

\* The time an entry has left is a number.
Timed(st) == \A a \in DOMAIN st.byAddr : st.byAddr[a].left \in Nat

LEMMA EntryFields ==
    ASSUME NEW st, NEW a
    PROVE  /\ Entry(st, a).address = a
           /\ Entry(st, a).nonce = st.byAddr[a].nonce
           /\ Entry(st, a).left = st.byAddr[a].left
  BY Zenon DEF Entry

\* Stores with the same live entries.
LEMMA SameEntries ==
    ASSUME NEW st, NEW next,
           \A a : Live(next, a) <=> Live(st, a),
           \A a : Live(st, a) => next.byAddr[a] = st.byAddr[a]
    PROVE  Entries(next) = Entries(st)
<1>1. LiveIn(next) = LiveIn(st)
  BY Zenon DEF LiveIn, Live
<1>2. \A a \in LiveIn(st) : Entry(next, a) = Entry(st, a)
  BY Zenon DEF LiveIn, Entry
<1> QED  BY <1>1, <1>2, Zenon DEF Entries

\* Expired entries count for nothing, so nobody can tell when a sweep removes them.
LEMMA PurgedEntries ==
    ASSUME NEW st, Timed(st)
    PROVE  /\ Entries(Purged(st)) = Entries(st) /\ Timed(Purged(st))
           /\ \A a : Live(Purged(st), a) <=> Live(st, a)
<1> DEFINE alive == {a \in DOMAIN st.byAddr : Live(st, a)}
           f == Restrict(st.byAddr, alive)
<1>1. Purged(st).byAddr = f
  BY StoreMaps, Zenon DEF Purged
<1>2. DOMAIN f = alive /\ \A a \in alive : f[a] = st.byAddr[a]
  BY Zenon DEF Restrict
<1> HIDE DEF f
<1>3. \A a : Live(Purged(st), a) <=> Live(st, a)
  BY <1>1, <1>2, Zenon DEF Live
<1>4. \A a : Live(st, a) => Purged(st).byAddr[a] = st.byAddr[a]
  BY <1>1, <1>2, Zenon DEF Live
<1>5. Timed(Purged(st))
  BY <1>1, <1>2, Zenon DEF Timed
<1> QED  BY <1>3, <1>4, <1>5, SameEntries, Zenon

\* A nonce for an address that has none.
LEMMA EnteredEntries ==
    ASSUME NEW st, Timed(st), NEW a, ~Live(st, a), NEW n
    PROVE  /\ Entries(Entered(st, a, n)) =
                Entries(st) \cup {[address |-> a, nonce |-> n, left |-> NonceTTL]}
           /\ Timed(Entered(st, a, n))
<1> DEFINE e == [nonce |-> n, left |-> NonceTTL]
           f == With(st.byAddr, a, e)
           next == Entered(st, a, n)
<1>1. next.byAddr = f
  BY StoreMaps, Zenon DEF Entered
<1>2. e.nonce = n /\ e.left = NonceTTL
  BY Zenon
<1> HIDE DEF e, next
<1>3. /\ DOMAIN f = DOMAIN st.byAddr \cup {a} /\ f[a] = e
      /\ \A b \in DOMAIN st.byAddr : b # a => f[b] = st.byAddr[b]
  BY Zenon DEF With
<1> HIDE DEF f
<1>4. NonceTTL \in Nat /\ NonceTTL > 0
  BY NonceAssumption
<1>5. Timed(next)
  BY <1>1, <1>2, <1>3, <1>4, Zenon DEF Timed
<1>6. LiveIn(next) = LiveIn(st) \cup {a} /\ a \notin LiveIn(st)
  BY <1>1, <1>2, <1>3, <1>4, Zenon DEF LiveIn, Live
<1>7. \A b \in LiveIn(st) : Entry(next, b) = Entry(st, b)
  BY <1>1, <1>3, <1>6, Zenon DEF LiveIn, Entry
<1>8. Entry(next, a) = [address |-> a, nonce |-> n, left |-> NonceTTL]
  BY <1>1, <1>2, <1>3, Zenon DEF Entry
<1>9. Entries(next) = Entries(st) \cup {Entry(next, a)}
  BY <1>6, <1>7, Zenon DEF Entries
<1> QED  BY <1>5, <1>8, <1>9, Zenon DEF next

\* Consume of a live nonce removes its entry, and that of another nonce none.
LEMMA ConsumedEntries ==
    ASSUME NEW st, Agree(st), Timed(st), NEW n
    PROVE  /\ Timed(Consumed(st, n))
           /\ Consumable(st, n) => /\ Entry(st, st.byNonce[n]) \in Entries(st)
                                   /\ Entry(st, st.byNonce[n]).nonce = n
                                   /\ Entries(Consumed(st, n)) = Entries(st) \ {Entry(st, st.byNonce[n])}
           /\ ~Consumable(st, n) => Entries(Consumed(st, n)) = Entries(st)
<1>1. CASE n \notin DOMAIN st.byNonce
  BY <1>1, Zenon DEF Consumed, Consumable
<1>2. CASE n \in DOMAIN st.byNonce
  <2> DEFINE a == st.byNonce[n]
             f == Restrict(st.byAddr, DOMAIN st.byAddr \ {a})
             next == Consumed(st, n)
  <2>1. next.byAddr = f
    BY <1>2, StoreMaps, Zenon DEF Consumed
  <2>2. DOMAIN f = DOMAIN st.byAddr \ {a} /\ \A x \in DOMAIN f : f[x] = st.byAddr[x]
    BY Zenon DEF Restrict
  <2> HIDE DEF f, next
  <2>3. Timed(next)
    BY <2>1, <2>2, Zenon DEF Timed
  <2>4. a \in DOMAIN st.byAddr /\ st.byAddr[a].nonce = n
    BY <1>2, Zenon DEF Agree
  <2> HIDE DEF a
  <2>5. LiveIn(next) = LiveIn(st) \ {a}
    BY <2>1, <2>2, Zenon DEF LiveIn, Live
  <2>6. \A b \in LiveIn(next) : Entry(next, b) = Entry(st, b)
    BY <2>1, <2>2, Zenon DEF LiveIn, Entry
  <2>7. \A b, c : Entry(st, b) = Entry(st, c) => b = c
    <3>1. ASSUME NEW b PROVE Entry(st, b).address = b
      BY EntryFields, Zenon
    <3> QED  BY <3>1
  <2>8. Entries(next) = Entries(st) \ {Entry(st, a)}
    <3>1. \A e \in Entries(next) : e \in Entries(st) /\ e # Entry(st, a)
      BY <2>5, <2>6, <2>7, Zenon DEF Entries
    <3>2. \A e \in Entries(st) : e # Entry(st, a) => e \in Entries(next)
      BY <2>5, <2>6, Zenon DEF Entries
    <3> QED  BY <3>1, <3>2, Zenon
  <2>9. Consumable(st, n) <=> a \in LiveIn(st)
    BY <1>2, <2>4, Zenon DEF Consumable, LiveIn, a
  <2>10. Entry(st, a) \in Entries(st) <=> a \in LiveIn(st)
    BY <2>7, Zenon DEF Entries
  <2>11. Entry(st, a).nonce = n
    BY <2>4, EntryFields, Zenon
  <2> QED  BY <2>3, <2>8, <2>9, <2>10, <2>11, Zenon DEF next, a
<1> QED  BY <1>1, <1>2, Zenon

Left(e) == [e EXCEPT !.left = @ - 1]
AgedSet(E) == {Left(e) : e \in E \ {x \in E : x.left = 1}}

\* A tick takes the time of every entry, and the last of it the entry.
LEMMA OlderEntries ==
    ASSUME NEW st, Timed(st)
    PROVE  Entries(Older(st)) = AgedSet(Entries(st)) /\ Timed(Older(st))
<1> DEFINE f == [a \in DOMAIN st.byAddr |->
                    [nonce |-> st.byAddr[a].nonce,
                     left |-> IF st.byAddr[a].left > 0 THEN st.byAddr[a].left - 1 ELSE 0]]
           next == Older(st)
<1>1. next.byAddr = f
  BY StoreMaps, Zenon DEF Older
<1> HIDE DEF next
<1>2. /\ DOMAIN f = DOMAIN st.byAddr
      /\ \A a \in DOMAIN f :
            /\ f[a].nonce = st.byAddr[a].nonce
            /\ f[a].left = IF st.byAddr[a].left > 0 THEN st.byAddr[a].left - 1 ELSE 0
  BY Zenon
<1> HIDE DEF f
<1>3. ASSUME NEW n \in Nat
      PROVE  /\ (IF n > 0 THEN n - 1 ELSE 0) \in Nat
             /\ ((IF n > 0 THEN n - 1 ELSE 0) > 0) <=> (n > 0 /\ n # 1)
             /\ n > 0 => (IF n > 0 THEN n - 1 ELSE 0) = n - 1
  OBVIOUS
<1>4. Timed(next)
  BY <1>1, <1>2, <1>3, Zenon DEF Timed
<1>5. \A a : a \in LiveIn(next) <=> a \in LiveIn(st) /\ st.byAddr[a].left # 1
  BY <1>1, <1>2, <1>3, Zenon DEF LiveIn, Live, Timed
<1>6. \A a \in LiveIn(st) : Entry(next, a) = Left(Entry(st, a))
  <2>1. ASSUME NEW a \in LiveIn(st)
        PROVE  f[a].nonce = st.byAddr[a].nonce /\ f[a].left = st.byAddr[a].left - 1
    BY <1>2, <1>3, Zenon DEF LiveIn, Live, Timed
  <2>2. \A a : Left(Entry(st, a)) =
                 [address |-> a, nonce |-> st.byAddr[a].nonce, left |-> st.byAddr[a].left - 1]
    BY DEF Left, Entry
  <2> QED  BY <1>1, <2>1, <2>2, Zenon DEF Entry
<1>7. Entries(next) = AgedSet(Entries(st))
  <2>1. \A a : Entry(st, a).left = st.byAddr[a].left
    BY EntryFields, Zenon
  <2> QED  BY <1>5, <1>6, <2>1, Zenon DEF Entries, AgedSet
<1> QED  BY <1>4, <1>7, Zenon DEF next

-----------------------------------------------------------------------------

SignInInv == NonceInv /\ Timed(nonces)

LEMMA LiveNoncesAre == LiveNonces = Entries(nonces)
  BY Zenon DEF LiveNonces, Entries, Entry, LiveIn

\* Issue, after its sweep: nothing a login can see, or one more nonce.
LEMMA NonceIssues ==
    ASSUME SignInInv, Nonce
    PROVE  /\ Timed(nonces)'
           /\ (\E a \in Addresses : SignIn!Issue(a)) \/ UNCHANGED <<LiveNonces, fresh, uses>>
<1> DEFINE n == fresh + 1
<1>1. /\ fresh < MaxNonces /\ uses' = uses
      /\ fresh' = IF n \in DOMAIN nonces'.byNonce THEN n ELSE fresh
  BY Zenon DEF Nonce
<1>2. PICK a \in Addresses : nonces' = Issued(Swept, a, n)
  BY Zenon DEF Nonce
<1>3. n \notin DOMAIN nonces.byNonce
  BY DEF SignInInv, NonceInv
<1> HIDE DEF n
<1>4. /\ Agree(Swept) /\ DOMAIN Swept.byNonce \subseteq DOMAIN nonces.byNonce
      /\ Timed(Swept) /\ Entries(Swept) = Entries(nonces)
  BY PurgedAgrees, PurgedEntries, Zenon DEF Swept, SignInInv, NonceInv
<1> DEFINE room == WithRoom(Swept, a)
<1>5. /\ Agree(room) /\ DOMAIN room.byNonce \subseteq DOMAIN nonces.byNonce
      /\ Timed(room) /\ Entries(room) = Entries(nonces)
  BY <1>4, PurgedAgrees, PurgedEntries, Zenon DEF WithRoom
<1> HIDE DEF room
<1>6. CASE Live(Swept, a) \/ ~HasRoom(room, a)
  <2>1. nonces' = Swept \/ nonces' = room
    BY <1>2, <1>6, Zenon DEF Issued, room
  <2>2. n \notin DOMAIN nonces'.byNonce /\ Timed(nonces') /\ Entries(nonces') = Entries(nonces)
    BY <1>3, <1>4, <1>5, <2>1, Zenon
  <2>3. Timed(nonces)' /\ LiveNonces' = LiveNonces
    BY <2>2, LiveNoncesAre, Zenon DEF Timed, LiveNonces, Entries, Entry, LiveIn, Live
  <2> QED  BY <1>1, <2>2, <2>3, Zenon
<1>7. CASE ~Live(Swept, a) /\ HasRoom(room, a)
  <2>1. nonces' = Entered(room, a, n)
    BY <1>2, <1>7, Zenon DEF Issued, room
  <2>2. ~Live(room, a)
    BY <1>4, <1>7, PurgedEntries, Zenon DEF room, WithRoom
  <2>3. n \in DOMAIN nonces'.byNonce
    BY <1>3, <1>5, <2>1, EnteredAgrees, Zenon
  <2>4. /\ Timed(nonces')
        /\ Entries(nonces') = Entries(nonces) \cup {[address |-> a, nonce |-> n, left |-> NonceTTL]}
    BY <1>5, <2>1, <2>2, EnteredEntries, Zenon
  <2>5. \A e \in Entries(nonces) : e.address # a
    <3>1. \A e \in Entries(room) : e.address \in LiveIn(room)
      <4>1. \A b : Entry(room, b).address = b
        BY EntryFields, Zenon
      <4> QED  BY <4>1, Zenon DEF Entries
    <3> QED  BY <1>5, <2>2, <3>1, Zenon DEF LiveIn
  <2>6. Timed(nonces)' /\ LiveNonces' = LiveNonces \cup {[address |-> a, nonce |-> n, left |-> NonceTTL]}
    BY <2>4, LiveNoncesAre, Zenon DEF Timed, LiveNonces, Entries, Entry, LiveIn, Live
  <2>7. \A e \in LiveNonces : e.address # a
    BY <2>5, LiveNoncesAre, Zenon
  <2>8. SignIn!Issue(a)
    BY <1>1, <2>3, <2>6, <2>7, Zenon DEF SignIn!Issue, n
  <2> QED  BY <2>6, <2>8, Zenon
<1> QED  BY <1>6, <1>7, Zenon

\* Consume: a login uses a nonce that is live, or changes nothing it can see.
LEMMA LoginUses ==
    ASSUME SignInInv, Login
    PROVE  /\ Timed(nonces)'
           /\ (\E e \in LiveNonces : SignIn!Use(e)) \/ UNCHANGED <<LiveNonces, fresh, uses>>
<1>1. PICK n \in 1 .. fresh :
        /\ nonces' = Consumed(nonces, n)
        /\ uses' = IF Consumable(nonces, n) THEN [uses EXCEPT ![n] = @ + 1] ELSE uses
  BY Zenon DEF Login
<1>2. fresh' = fresh
  BY Zenon DEF Login
<1> DEFINE e == Entry(nonces, nonces.byNonce[n])
<1>3. /\ Timed(nonces')
      /\ Consumable(nonces, n) => /\ e \in Entries(nonces) /\ e.nonce = n
                                  /\ Entries(nonces') = Entries(nonces) \ {e}
      /\ ~Consumable(nonces, n) => Entries(nonces') = Entries(nonces)
  BY <1>1, ConsumedEntries, Zenon DEF SignInInv, NonceInv
<1> HIDE DEF e
<1>4. Timed(nonces)' /\ LiveNonces' = Entries(nonces')
  BY <1>3, Zenon DEF Timed, LiveNonces, Entries, Entry, LiveIn, Live
<1>5. CASE Consumable(nonces, n)
  <2>1. n \in DOMAIN nonces.byNonce
    BY <1>5, Zenon DEF Consumable
  <2>2. uses[n] = 0 /\ n \in 1 .. MaxNonces
    BY <2>1, Zenon DEF SignInInv, NonceInv
  <2>3. uses' = [uses EXCEPT ![n] = 1]
    BY <1>1, <1>5, <2>2 DEF SignInInv, NonceInv
  <2>4. e \in LiveNonces /\ e.nonce = n /\ LiveNonces' = LiveNonces \ {e}
    BY <1>3, <1>4, <1>5, LiveNoncesAre, Zenon
  <2>5. SignIn!Use(e)
    BY <1>2, <2>2, <2>3, <2>4, Zenon DEF SignIn!Use
  <2> QED  BY <1>4, <2>4, <2>5, Zenon
<1>6. CASE ~Consumable(nonces, n)
  BY <1>1, <1>2, <1>3, <1>4, <1>6, LiveNoncesAre, Zenon
<1> QED  BY <1>5, <1>6, Zenon

LEMMA TickAges ==
    ASSUME SignInInv, Tick
    PROVE  Timed(nonces)' /\ SignIn!Age
<1>1. nonces' = Older(nonces) /\ fresh' = fresh /\ uses' = uses
  BY Zenon DEF Tick
<1>2. Timed(nonces') /\ Entries(nonces') = AgedSet(Entries(nonces))
  BY <1>1, OlderEntries, Zenon DEF SignInInv
<1>3. Timed(nonces)' /\ LiveNonces' = AgedSet(LiveNonces)
  BY <1>2, LiveNoncesAre, Zenon DEF Timed, LiveNonces, Entries, Entry, LiveIn, Live
<1> QED  BY <1>1, <1>3, Zenon DEF SignIn!Age, SignIn!Expired, AgedSet, Left

\* A new store has no nonces.
LEMMA NewForgets ==
    Timed(NewInMemory) /\ Entries(NewInMemory) = {}
  BY EmptyAgrees, Zenon DEF Timed, Entries, LiveIn

\* ImplementsSignIn: for any lifetime, capacity and addresses, the two maps and
\* their lazy removal of expired nonces behave as a store that holds the live
\* nonces only, and a login succeeds with a live nonce that none used before
\* (Issue, Consume, purgeExpired).
THEOREM SignInIsImplemented == AccountsSpec => ImplementsSignIn
<1>1. AccountsInit => SignInInv /\ SignIn!NoncesInit
  <2> SUFFICES ASSUME AccountsInit PROVE SignInInv /\ SignIn!NoncesInit
    BY Zenon
  <2>1. nonces = NewInMemory /\ fresh = 0 /\ uses = [n \in 1 .. MaxNonces |-> 0]
    BY Zenon DEF AccountsInit
  <2>2. SignInInv
    BY <2>1, InitNonceInv, NewForgets, Zenon DEF SignInInv
  <2>3. LiveNonces = {}
    BY <2>1, NewForgets, LiveNoncesAre, Zenon
  <2> QED  BY <2>1, <2>2, <2>3, Zenon DEF SignIn!NoncesInit
<1>2. SignInInv /\ [AccountsNext]_accountsVars =>
        SignInInv' /\ [SignIn!NoncesNext]_<<LiveNonces, fresh, uses>>
  <2> SUFFICES ASSUME SignInInv, [AccountsNext]_accountsVars
               PROVE  /\ Timed(nonces)'
                      /\ SignIn!NoncesNext \/ UNCHANGED <<LiveNonces, fresh, uses>>
    BY NoncesNextKeep, Zenon DEF SignInInv
  <2>1. CASE Nonce
    BY <2>1, NonceIssues, Zenon DEF SignIn!NoncesNext
  <2>2. CASE Login
    BY <2>2, LoginUses, Zenon DEF SignIn!NoncesNext
  <2>3. CASE Tick
    BY <2>3, TickAges, Zenon DEF SignIn!NoncesNext
  <2>4. CASE Restart
    <3>1. nonces' = NewInMemory /\ fresh' = fresh /\ uses' = uses
      BY <2>4, Zenon DEF Restart
    <3>2. Timed(nonces)' /\ LiveNonces' = {}
      BY <3>1, NewForgets, Zenon DEF Timed, LiveNonces, Entries, Entry, LiveIn, Live
    <3> QED  BY <3>1, <3>2, Zenon DEF SignIn!NoncesNext, SignIn!Forget
  <2>5. CASE RegistrationStep \/ UNCHANGED accountsVars
    <3>1. nonces' = nonces /\ fresh' = fresh /\ uses' = uses
      BY <2>5, Zenon DEF RegistrationStep, accountsVars, loginVars
    <3> QED  BY <3>1, Zenon DEF SignInInv, Timed, LiveNonces, Live
  <2> QED  BY <2>1, <2>2, <2>3, <2>4, <2>5, Zenon DEF AccountsNext
<1> QED  BY <1>1, <1>2, PTL
         DEF AccountsSpec, ImplementsSignIn, SignIn!NoncesSpec, SignIn!nonceVars

-----------------------------------------------------------------------------
(* Registration. *)

\* Every fingerprint and every party that a request can name.
Prints == Addresses \cup {Namespace[p] : p \in Natives}
PartyIds == {<<Hint[a], k>> : a \in Addresses, k \in ClientKeys \cup 1 .. MaxKeys}
Mapping == [fingerprint : Prints, party : PartyIds \cup Natives]

Request ==
    [at : {"none", "put", "take", "allocate", "map", "save"},
     kind : {"none", "custodial", "prepare", "external", "native"},
     who : Addresses \cup Natives \cup {0}, key : ClientKeys \cup {0},
     party : PartyIds \cup {<<>>}]

Busy(q) == q.at # "none"
\* The request has a party that it allocated.
Holds(q) == q.at \in {"map", "save"} /\ q.kind # "native"

\* What the fields of a request that is not idle are.
WellFormed(q) ==
    /\ Busy(q) => IF q.kind = "native" THEN q.who \in Natives ELSE q.who \in Addresses
    /\ Busy(q) => q.kind # "none"
    /\ q.kind \in {"prepare", "external"} => q.key \in ClientKeys
    /\ q.at = "put" => q.kind = "prepare"
    /\ q.at = "take" => q.kind = "external"
    /\ q.at = "allocate" => q.kind \in {"custodial", "external"}
    /\ q.at = "allocate" /\ q.kind = "external" => q.party \in PartyIds /\ q.party[2] \in ClientKeys
    /\ Holds(q) => q.party \in allocated

\* A user is known by an address, or is a native party.
UserOK(u) ==
    \/ u.evm \in Addresses /\ u.fingerprint = u.evm /\ u.party \in allocated
    \/ u.evm \notin Addresses /\ u.party \in Natives /\ u.fingerprint = Namespace[u.party]

RegistrationTypes ==
    /\ requests \in [Requests -> Request]
    /\ mappings \in Seq(Mapping)
    /\ generated \in 0 .. MaxKeys
    /\ allocated \subseteq PartyIds
    /\ \A p \in allocated : p[2] \in ClientKeys \cup 1 .. generated
    /\ \A t \in topologies : t.party \in PartyIds /\ t.party[2] \in ClientKeys
    /\ \A r \in Requests : WellFormed(requests[r])
    /\ \A u \in users : UserOK(u)

\* One request at a time for a person who has no overlapping ones, and who is not
\* registered meanwhile; a party that was allocated is held by one request or one
\* user.
Separate ==
    /\ \A r, s \in Requests :
        /\ Busy(requests[r]) /\ Busy(requests[s]) /\ requests[r].who = requests[s].who =>
            r = s \/ requests[r].who \in Overlapping
        /\ Holds(requests[r]) /\ Holds(requests[s]) /\ requests[r].party = requests[s].party => r = s
    /\ \A r \in Requests :
        Busy(requests[r]) /\ requests[r].who \notin Overlapping => ~Registered(requests[r])
    /\ \A r \in Requests, u \in users : Holds(requests[r]) => u.party # requests[r].party

\* The last mapping of a person that is about to be saved is that of the request.
Mapped ==
    \A r \in Requests :
        requests[r].at = "save" /\ requests[r].who \notin Overlapping =>
            Resolve(Fingerprint(requests[r])) = {PartyOf(requests[r])}

RegInv == RegistrationTypes /\ Separate /\ Mapped /\ Resolves /\ PartyOnce

\* An allocated party is not a native one.
LEMMA NotNative == \A p \in PartyIds : p \notin Natives
  BY RegistrationAssumption DEF PartyIds

\* A new mapping is the one its fingerprint resolves to; the others stay.
LEMMA ResolveLast ==
    ASSUME mappings \in Seq(Mapping), NEW m \in Mapping, mappings' = Append(mappings, m)
    PROVE  /\ Resolve(m.fingerprint)' = {m.party}
           /\ \A f : f # m.fingerprint => Resolve(f)' = Resolve(f)
<1> DEFINE n == Len(mappings)
<1>1. /\ n \in Nat /\ DOMAIN mappings = 1 .. n /\ DOMAIN mappings' = 1 .. n + 1
      /\ mappings'[n + 1] = m /\ \A k \in 1 .. n : mappings'[k] = mappings[k]
  OBVIOUS
<1> HIDE DEF n
<1>2. \A f : f # m.fingerprint => Matches(f)' = Matches(f)
  BY <1>1 DEF Matches
<1>3. \A f : f # m.fingerprint => Resolve(f)' = Resolve(f)
  <2> SUFFICES ASSUME NEW f, f # m.fingerprint PROVE Resolve(f)' = Resolve(f)
    BY Zenon
  <2>1. Matches(f)' = Matches(f) /\ \A k \in Matches(f) : mappings'[k] = mappings[k]
    BY <1>1, <1>2, Zenon DEF Matches
  <2> QED  BY <2>1, Zenon DEF Resolve
<1>4. n + 1 \in Matches(m.fingerprint)' /\ \A k \in Matches(m.fingerprint)' : k \in 1 .. n + 1
  BY <1>1 DEF Matches
<1>5. {x \in Matches(m.fingerprint)' : \A j \in Matches(m.fingerprint)' : j <= x} = {n + 1}
  BY <1>1, <1>4
<1>6. Resolve(m.fingerprint)' = {m.party}
  BY <1>1, <1>5, Zenon DEF Resolve
<1> QED  BY <1>3, <1>6, Zenon

\* Two people have different fingerprints.
LEMMA PrintsDiffer ==
    ASSUME NEW q \in Request, NEW x \in Request, WellFormed(q), WellFormed(x), Busy(q), Busy(x),
           Fingerprint(q) = Fingerprint(x)
    PROVE  q.who = x.who /\ (q.kind = "native" <=> x.kind = "native")
  BY RegistrationAssumption, Zenon DEF WellFormed, Fingerprint

\* The fingerprint of a user is that of a request for the same person only.
LEMMA PrintOfUser ==
    ASSUME NEW q \in Request, WellFormed(q), Busy(q), NEW u, UserOK(u), allocated \subseteq PartyIds,
           u.fingerprint = Fingerprint(q)
    PROVE  IF q.kind = "native" THEN u.party = q.who ELSE u.evm = q.who
<1>1. CASE q.kind = "native"
  <2>1. u.party \in Natives /\ Namespace[u.party] = Namespace[q.who] /\ q.who \in Natives
    BY <1>1, RegistrationAssumption, Zenon DEF WellFormed, Fingerprint, UserOK
  <2>2. u.party = q.who
    BY <2>1, RegistrationAssumption, Zenon
  <2> QED  BY <1>1, <2>2, Zenon
<1>2. CASE q.kind # "native"
  <2>1. u.fingerprint = q.who /\ q.who \in Addresses
    BY <1>2, Zenon DEF WellFormed, Fingerprint
  <2>2. u.evm = q.who
    BY <2>1, RegistrationAssumption, Zenon DEF UserOK
  <2> QED  BY <1>2, <2>2, Zenon
<1> QED  BY <1>1, <1>2, Zenon

\* The tables beside the requests: keys, parties and topologies are only added.
TablesGrow ==
    /\ generated' \in 0 .. MaxKeys
    /\ allocated \subseteq allocated' /\ allocated' \subseteq PartyIds
    /\ \A p \in allocated' : p[2] \in ClientKeys \cup 1 .. generated'
    /\ \A t \in topologies' : t.party \in PartyIds /\ t.party[2] \in ClientKeys

\* A request moves on and users and mappings stay.
LEMMA Moves ==
    ASSUME RegInv, NEW r \in Requests, NEW q \in Request,
           requests' = [requests EXCEPT ![r] = q], UNCHANGED <<users, mappings>>, TablesGrow,
           WellFormed(q)',
           \A s \in Requests \ {r} :
               /\ Busy(q) /\ Busy(requests[s]) => q.who # requests[s].who \/ q.who \in Overlapping
               /\ Holds(q) /\ Holds(requests[s]) => q.party # requests[s].party,
           Busy(q) /\ q.who \notin Overlapping => ~Registered(q),
           \A u \in users : Holds(q) => u.party # q.party,
           q.at = "save" /\ q.who \notin Overlapping => Resolve(Fingerprint(q)) = {PartyOf(q)}
    PROVE  RegInv'
<1>1. /\ requests' \in [Requests -> Request] /\ requests'[r] = q
      /\ \A s \in Requests \ {r} : requests'[s] = requests[s]
  BY Zenon DEF RegInv, RegistrationTypes
<1>2. RegistrationTypes'
  <2>1. \A s \in Requests : WellFormed(requests[s])'
    BY <1>1 DEF RegInv, RegistrationTypes, TablesGrow, WellFormed
  <2>2. \A u \in users' : UserOK(u)'
    BY Zenon DEF RegInv, RegistrationTypes, TablesGrow, UserOK
  <2> QED  BY <1>1, <2>1, <2>2, Zenon DEF RegInv, RegistrationTypes, TablesGrow
<1>3. Separate'
  <2>1. ASSUME NEW s \in Requests, Busy(requests'[s]), requests'[s].who \notin Overlapping
        PROVE  ~Registered(requests[s])'
    <3>1. Registered(requests[s])' => Registered(requests'[s])
      BY Zenon DEF Registered
    <3> QED  BY <1>1, <2>1, <3>1, Zenon DEF RegInv, Separate
  <2>2. \A s \in Requests, u \in users : Holds(requests'[s]) => u.party # requests'[s].party
    BY <1>1, Zenon DEF RegInv, Separate
  <2>3. \A x, s \in Requests :
        /\ Busy(requests'[x]) /\ Busy(requests'[s]) /\ requests'[x].who = requests'[s].who =>
            x = s \/ requests'[x].who \in Overlapping
        /\ Holds(requests'[x]) /\ Holds(requests'[s]) /\ requests'[x].party = requests'[s].party => x = s
    BY <1>1, Zenon DEF RegInv, Separate
  <2> QED  BY <2>1, <2>2, <2>3, Zenon DEF Separate, Busy, Holds
<1>4. \A f : Resolve(f)' = Resolve(f)
  BY Zenon DEF Resolve, Matches
<1>5. Mapped'
  BY <1>1, <1>4, Zenon DEF RegInv, Mapped, Fingerprint, PartyOf
<1>6. Resolves' /\ PartyOnce'
  BY <1>4, Zenon DEF RegInv, Resolves, OneAtATime, PartyOnce
<1> QED  BY <1>2, <1>3, <1>5, <1>6, Zenon DEF RegInv

LEMMA IdleRequest ==
    /\ NoRequest \in Request /\ ~Busy(NoRequest) /\ ~Holds(NoRequest)
    /\ WellFormed(NoRequest) /\ WellFormed(NoRequest)' /\ NoRequest.at # "save"
  BY Zenon DEF NoRequest, Request, Busy, Holds, WellFormed

LEMMA EndsKeeps ==
    ASSUME RegInv, NEW r \in Requests, Ends(r), UNCHANGED <<users, mappings>>, TablesGrow
    PROVE  RegInv'
  BY Moves, IdleRequest, Zenon DEF Ends

\* The request with another label, and another party.
LEMMA GotoIs ==
    ASSUME RegInv, NEW r \in Requests, NEW l \in {"put", "take", "allocate", "map", "save"},
           Goto(r, l)
    PROVE  \E q \in Request :
             /\ q.at = l /\ q.kind = requests[r].kind /\ q.who = requests[r].who
             /\ q.key = requests[r].key /\ q.party = requests[r].party
             /\ requests' = [requests EXCEPT ![r] = q]
<1> DEFINE q == [requests[r] EXCEPT !.at = l]
<1>1. requests[r] \in Request
  BY Zenon DEF RegInv, RegistrationTypes
<1>2. /\ q \in Request /\ q.at = l /\ q.kind = requests[r].kind /\ q.who = requests[r].who
      /\ q.key = requests[r].key /\ q.party = requests[r].party
  BY <1>1, Zenon DEF Request
<1>3. requests' = [requests EXCEPT ![r] = q]
  BY Zenon DEF Goto
<1> QED  BY <1>2, <1>3, Zenon

WithParty(r, l, p) == requests' = [requests EXCEPT ![r].at = l, ![r].party = p]

LEMMA AllocatedIs ==
    ASSUME RegInv, NEW r \in Requests, NEW l \in {"allocate", "map"}, NEW p \in PartyIds,
           WithParty(r, l, p)
    PROVE  \E q \in Request :
             /\ q.at = l /\ q.kind = requests[r].kind /\ q.who = requests[r].who
             /\ q.key = requests[r].key /\ q.party = p
             /\ requests' = [requests EXCEPT ![r] = q]
<1> DEFINE q == [requests[r] EXCEPT !.at = l, !.party = p]
<1>1. requests[r] \in Request
  BY Zenon DEF RegInv, RegistrationTypes
<1>2. /\ q \in Request /\ q.at = l /\ q.kind = requests[r].kind /\ q.who = requests[r].who
      /\ q.key = requests[r].key /\ q.party = p
  BY <1>1, Zenon DEF Request
<1>3. requests' = [requests EXCEPT ![r] = q]
  BY <1>1, Zenon DEF RegInv, RegistrationTypes, Request, WithParty
<1> QED  BY <1>2, <1>3, Zenon

\* The tables do not change.
LEMMA TablesStay ==
    ASSUME RegInv, UNCHANGED <<allocated, generated>>, topologies' \subseteq topologies
    PROVE  TablesGrow
  BY Zenon DEF RegInv, RegistrationTypes, TablesGrow

\* A request begins for a person who is not registered and, unless theirs overlap,
\* has none in progress.
LEMMA BeginKeeps ==
    ASSUME RegInv, NEW r \in Requests,
           BeginWeb3(r) \/ BeginPrepare(r) \/ BeginExternal(r) \/ BeginNative(r)
    PROVE  RegInv'
<1>1. PICK kind \in {"custodial", "prepare", "external", "native"}, who \in Addresses \cup Natives,
           key \in ClientKeys \cup {0} :
        /\ Begin(r, kind, who, key)
        /\ IF kind = "native" THEN who \in Natives ELSE who \in Addresses
        /\ kind \in {"prepare", "external"} => key \in ClientKeys
  <2>1. CASE BeginWeb3(r)
    BY <2>1, Zenon DEF BeginWeb3
  <2>2. CASE BeginPrepare(r)
    BY <2>2, Zenon DEF BeginPrepare
  <2>3. CASE BeginExternal(r)
    BY <2>3, Zenon DEF BeginExternal
  <2>4. CASE BeginNative(r)
    BY <2>4, Zenon DEF BeginNative
  <2> QED  BY <2>1, <2>2, <2>3, <2>4, Zenon
<1> DEFINE q == [at |-> FirstCall(kind), kind |-> kind, who |-> who, key |-> key, party |-> <<>>]
<1>2. /\ requests' = [requests EXCEPT ![r] = q] /\ ~Registered(q)
      /\ who \in Overlapping \/ \A s \in Requests : requests[s].who # who
      /\ UNCHANGED <<users, mappings, allocated, topologies, generated>>
  BY <1>1, Zenon DEF Begin
<1>3. TablesGrow
  BY <1>2, TablesStay, Zenon
<1>4. q.at = FirstCall(kind) /\ q.kind = kind /\ q.who = who /\ q.key = key
  BY Zenon
<1>5. \/ kind = "custodial" /\ FirstCall(kind) = "allocate"
      \/ kind = "prepare" /\ FirstCall(kind) = "put"
      \/ kind = "external" /\ FirstCall(kind) = "take"
      \/ kind = "native" /\ FirstCall(kind) = "map"
  BY DEF FirstCall
<1>6. q \in Request
  BY <1>5, Zenon DEF Request
<1> HIDE DEF q
<1>7. ~Holds(q) /\ q.at # "save"
  BY <1>4, <1>5, Zenon DEF Holds
<1>8. WellFormed(q)'
  BY <1>1, <1>4, <1>5, <1>7, Zenon DEF WellFormed
<1> QED  BY <1>2, <1>3, <1>4, <1>6, <1>7, <1>8, Moves, Zenon

\* A party id made of a key.
LEMMA PartyId ==
    ASSUME NEW a \in Addresses, NEW k \in ClientKeys \cup 1 .. MaxKeys
    PROVE  <<Hint[a], k>> \in PartyIds /\ <<Hint[a], k>>[2] = k
  BY DEF PartyIds

LEMMA RequestOf ==
    ASSUME RegInv, NEW r \in Requests
    PROVE  requests[r] \in Request /\ WellFormed(requests[r])
  BY Zenon DEF RegInv, RegistrationTypes

\* Preparing an external registration adds a topology for the client's key.
LEMMA PutTopologyKeeps ==
    ASSUME RegInv, NEW r \in Requests, PutTopology(r)
    PROVE  RegInv'
<1>1. requests[r].who \in Addresses /\ requests[r].key \in ClientKeys
  BY RequestOf, Zenon DEF PutTopology, At, WellFormed, Busy
<1>2. PICK p \in PartyIds : p = <<Hint[requests[r].who], requests[r].key>> /\ p[2] \in ClientKeys
  BY <1>1, PartyId, Zenon
<1>3. PICK t : t = [token |-> tokens + 1, key |-> requests[r].key, party |-> p]
  BY Zenon
<1>4. t.party = p
  BY <1>3, Zenon
<1>5. /\ topologies' = topologies \cup {t} /\ Ends(r)
      /\ UNCHANGED <<users, mappings, allocated, generated>>
  BY <1>2, <1>3, Zenon DEF PutTopology
<1>6. TablesGrow
  BY <1>2, <1>4, <1>5, Zenon DEF TablesGrow, RegInv, RegistrationTypes
<1> QED  BY <1>5, <1>6, EndsKeeps, Zenon

\* A request takes the topology, and the party in it.
LEMMA TakeTopologyKeeps ==
    ASSUME RegInv, NEW r \in Requests, TakeTopology(r)
    PROVE  RegInv'
<1>1. requests[r].at = "take" /\ requests[r] \in Request /\ WellFormed(requests[r])
  BY RequestOf, Zenon DEF TakeTopology, At
<1>2. PICK t \in topologies :
        /\ topologies' = topologies \ {t}
        /\ IF t.key = requests[r].key
           THEN requests' = [requests EXCEPT ![r].at = "allocate", ![r].party = t.party]
           ELSE Ends(r)
  BY Zenon DEF TakeTopology
<1>3. UNCHANGED <<users, mappings, allocated, generated>> /\ TablesGrow
  BY <1>2, TablesStay, Zenon DEF TakeTopology
<1>4. CASE Ends(r)
  BY <1>3, <1>4, EndsKeeps, Zenon
<1>5. CASE WithParty(r, "allocate", t.party)
  <2>1. t.party \in PartyIds /\ t.party[2] \in ClientKeys
    BY <1>2, Zenon DEF RegInv, RegistrationTypes
  <2>2. PICK q \in Request :
            /\ q.at = "allocate" /\ q.kind = requests[r].kind /\ q.who = requests[r].who
            /\ q.key = requests[r].key /\ q.party = t.party
            /\ requests' = [requests EXCEPT ![r] = q]
    BY <1>5, <2>1, AllocatedIs
  <2>3. \A s \in Requests \ {r} :
            Busy(requests[s]) => q.who # requests[s].who \/ q.who \in Overlapping
    BY <1>1, <2>2, Zenon DEF RegInv, Separate, Busy
  <2>4. q.who \notin Overlapping => ~Registered(q)
    <3>1. requests[r].who \notin Overlapping => ~Registered(requests[r])
      BY <1>1, Zenon DEF RegInv, Separate, Busy
    <3> QED  BY <2>2, <3>1, Zenon DEF Registered
  <2>5. ~Holds(q) /\ q.at # "save"
    BY <2>2, Zenon DEF Holds
  <2>6. WellFormed(q)'
    BY <1>1, <2>1, <2>2, <2>5, Zenon DEF WellFormed, Busy
  <2> QED  BY <1>3, <2>2, <2>3, <2>4, <2>5, <2>6, Moves, Zenon
<1> QED  BY <1>2, <1>4, <1>5, Zenon DEF WithParty

\* A request that has its party goes on to the mapping.
LEMMA AllocateKeeps ==
    ASSUME RegInv, NEW r \in Requests, requests[r].at = "allocate", NEW p \in PartyIds,
           p \notin allocated, allocated' = allocated \cup {p},
           NEW q \in Request, q.at = "map", q.kind = requests[r].kind, q.who = requests[r].who,
           q.key = requests[r].key, q.party = p, requests' = [requests EXCEPT ![r] = q],
           UNCHANGED <<users, mappings>>, TablesGrow
    PROVE  RegInv'
<1>1. requests[r] \in Request /\ WellFormed(requests[r]) /\ requests[r].kind # "native"
  BY RequestOf, Zenon DEF WellFormed
<1>2. \A s \in Requests \ {r} :
          Busy(requests[s]) => q.who # requests[s].who \/ q.who \in Overlapping
  BY Zenon DEF RegInv, Separate, Busy
<1>3. q.who \notin Overlapping => ~Registered(q)
  <2>1. requests[r].who \notin Overlapping => ~Registered(requests[r])
    BY Zenon DEF RegInv, Separate, Busy
  <2> QED  BY <2>1, Zenon DEF Registered
<1>4. \A s \in Requests : Holds(requests[s]) => requests[s].party # p
  BY Zenon DEF RegInv, RegistrationTypes, WellFormed
<1>5. \A u \in users : u.party # p
  BY NotNative, Zenon DEF RegInv, RegistrationTypes, UserOK
<1>6. WellFormed(q)'
  BY <1>1, Zenon DEF WellFormed, Busy, Holds
<1> QED  BY <1>2, <1>3, <1>4, <1>5, <1>6, Moves, Zenon

LEMMA AllocateCustodialKeeps ==
    ASSUME RegInv, NEW r \in Requests, AllocateCustodial(r)
    PROVE  RegInv'
<1>1. requests[r].at = "allocate" /\ requests[r].who \in Addresses
  BY RequestOf, Zenon DEF AllocateCustodial, At, WellFormed, Busy
<1>2. generated \in Nat /\ generated + 1 \in 1 .. MaxKeys /\ generated' = generated + 1
  BY RegistrationAssumption DEF AllocateCustodial, RegInv, RegistrationTypes
<1>3. PICK p \in PartyIds : p = <<Hint[requests[r].who], generated + 1>> /\ p[2] = generated + 1
  BY <1>1, <1>2, PartyId, Zenon
<1>4. p \notin allocated
  BY <1>2, <1>3, RegistrationAssumption DEF RegInv, RegistrationTypes
<1>5. /\ allocated' = allocated \cup {p}
      /\ WithParty(r, "map", p)
      /\ UNCHANGED <<users, mappings, topologies>>
  BY <1>3, Zenon DEF AllocateCustodial, WithParty
<1>6. TablesGrow
  BY <1>2, <1>3, <1>5 DEF TablesGrow, RegInv, RegistrationTypes
<1>7. PICK q \in Request :
          /\ q.at = "map" /\ q.kind = requests[r].kind /\ q.who = requests[r].who
          /\ q.key = requests[r].key /\ q.party = p
          /\ requests' = [requests EXCEPT ![r] = q]
  BY <1>5, AllocatedIs
<1> QED  BY <1>1, <1>4, <1>5, <1>6, <1>7, AllocateKeeps, Zenon

LEMMA AllocateExternalKeeps ==
    ASSUME RegInv, NEW r \in Requests, AllocateExternal(r)
    PROVE  RegInv'
<1>1. PICK p \in PartyIds : p = requests[r].party /\ p[2] \in ClientKeys
  BY RequestOf, Zenon DEF AllocateExternal, At, WellFormed
<1>2. /\ requests[r].at = "allocate" /\ allocated' = allocated \cup {p}
      /\ UNCHANGED <<users, mappings, topologies, generated>>
      /\ IF p \in allocated THEN Ends(r) ELSE Goto(r, "map")
  BY <1>1, Zenon DEF AllocateExternal, At
<1>3. TablesGrow
  BY <1>1, <1>2, Zenon DEF TablesGrow, RegInv, RegistrationTypes
<1>4. CASE p \in allocated
  BY <1>2, <1>3, <1>4, EndsKeeps, Zenon
<1>5. CASE p \notin allocated
  <2>1. PICK q \in Request :
            /\ q.at = "map" /\ q.kind = requests[r].kind /\ q.who = requests[r].who
            /\ q.key = requests[r].key /\ q.party = requests[r].party
            /\ requests' = [requests EXCEPT ![r] = q]
    BY <1>2, <1>5, GotoIs, Zenon
  <2> QED  BY <1>1, <1>2, <1>3, <1>5, <2>1, AllocateKeeps, Zenon
<1> QED  BY <1>4, <1>5, Zenon

\* A new mapping changes what the fingerprint of this person resolves to only, and
\* the person is no user yet unless their requests overlap.
LEMMA CreateMappingKeeps ==
    ASSUME RegInv, NEW r \in Requests, CreateMapping(r)
    PROVE  RegInv'
<1>1. /\ requests[r].at = "map" /\ requests[r] \in Request /\ WellFormed(requests[r])
      /\ Busy(requests[r]) /\ (requests[r].who \notin Overlapping => ~Registered(requests[r]))
  BY RequestOf, Zenon DEF CreateMapping, At, RegInv, Separate, Busy
<1>2. PICK f, p : f = Fingerprint(requests[r]) /\ p = PartyOf(requests[r])
  BY Zenon
<1>3. f \in Prints /\ p \in PartyIds \cup Natives
  BY <1>1, <1>2, Zenon DEF Fingerprint, PartyOf, WellFormed, Busy, Holds, Prints, RegInv, RegistrationTypes
<1>4. PICK m \in Mapping : m = [fingerprint |-> f, party |-> p]
  BY <1>3, Zenon DEF Mapping
<1>5. m.fingerprint = f /\ m.party = p
  BY <1>4, Zenon
<1>6. /\ mappings' = Append(mappings, m) /\ Goto(r, "save")
      /\ UNCHANGED <<users, allocated, topologies, generated>>
  BY <1>2, <1>4, Zenon DEF CreateMapping
<1>7. PICK q \in Request :
          /\ q.at = "save" /\ q.kind = requests[r].kind /\ q.who = requests[r].who
          /\ q.key = requests[r].key /\ q.party = requests[r].party
          /\ requests' = [requests EXCEPT ![r] = q]
  BY <1>6, GotoIs, Zenon
<1>8. /\ requests' \in [Requests -> Request] /\ requests'[r] = q
      /\ \A s \in Requests \ {r} : requests'[s] = requests[s]
  BY <1>7, Zenon DEF RegInv, RegistrationTypes
<1>9. /\ Fingerprint(q) = f /\ PartyOf(q) = p /\ Busy(q) /\ WellFormed(q)
      /\ q.who \notin Overlapping => ~Registered(q)
      /\ (Holds(q) <=> Holds(requests[r]))
  BY <1>1, <1>2, <1>7, Zenon DEF Fingerprint, PartyOf, Busy, WellFormed, Registered, Holds
<1>10. mappings \in Seq(Mapping) /\ mappings' \in Seq(Mapping)
  BY <1>6 DEF RegInv, RegistrationTypes
<1>11. Resolve(f)' = {p} /\ \A g : g # f => Resolve(g)' = Resolve(g)
  BY <1>5, <1>6, <1>10, ResolveLast, Zenon
<1>12. RegistrationTypes'
  <2>1. \A s \in Requests : WellFormed(requests[s])'
    BY <1>6, <1>8, <1>9, Zenon DEF RegInv, RegistrationTypes, WellFormed
  <2>2. \A u \in users' : UserOK(u)'
    BY <1>6, Zenon DEF RegInv, RegistrationTypes, UserOK
  <2> QED  BY <1>6, <1>8, <1>10, <2>1, <2>2, Zenon DEF RegInv, RegistrationTypes
<1>13. Separate'
  <2>1. ASSUME NEW s \in Requests, Busy(requests'[s]), requests'[s].who \notin Overlapping
        PROVE  ~Registered(requests[s])'
    <3>1. Registered(requests[s])' => Registered(requests'[s])
      BY <1>6, Zenon DEF Registered
    <3> QED  BY <1>8, <1>9, <2>1, <3>1, Zenon DEF RegInv, Separate
  <2>2. \A s \in Requests : /\ Busy(requests'[s]) => Busy(requests[s])
                            /\ Holds(requests'[s]) => Holds(requests[s])
                            /\ requests'[s].who = requests[s].who
                            /\ requests'[s].party = requests[s].party
    BY <1>1, <1>7, <1>8, <1>9, Zenon
  <2> QED  BY <1>6, <2>1, <2>2 DEF RegInv, Separate, Busy, Holds
<1>14. Mapped'
  <2> SUFFICES ASSUME NEW s \in Requests, requests'[s].at = "save", requests'[s].who \notin Overlapping
               PROVE  Resolve(Fingerprint(requests[s]))' = {PartyOf(requests'[s])}
    BY Zenon DEF Mapped, PartyOf
  <2>1. CASE s = r
    <3>1. Fingerprint(requests[s])' = f /\ PartyOf(requests'[s]) = p
      BY <1>8, <1>9, <2>1, Zenon DEF Fingerprint
    <3> QED  BY <1>11, <3>1, Zenon DEF Resolve, Matches
  <2>2. CASE s # r
    <3>1. /\ requests'[s] = requests[s] /\ requests[s] \in Request /\ WellFormed(requests[s])
          /\ Busy(requests[s]) /\ requests[s].who # requests[r].who
      BY <1>1, <1>8, <2>2, Zenon DEF RegInv, Separate, RegistrationTypes, Busy
    <3>2. PICK g : g = Fingerprint(requests[s])
      BY Zenon
    <3>3. g # f
      BY <1>1, <1>2, <3>1, <3>2, PrintsDiffer, Zenon
    <3>4. Resolve(g) = {PartyOf(requests[s])} /\ Resolve(g)' = Resolve(g)
      BY <1>11, <3>1, <3>2, <3>3, Zenon DEF RegInv, Mapped
    <3>5. Fingerprint(requests[s])' = g
      BY <3>1, <3>2, Zenon DEF Fingerprint
    <3> QED  BY <3>1, <3>4, <3>5, Zenon DEF Resolve, Matches
  <2> QED  BY <2>1, <2>2, Zenon
<1>15. Resolves'
  <2> SUFFICES ASSUME NEW u \in users, OneAtATime(u) PROVE Resolve(u.fingerprint)' = {u.party}
    BY <1>6, Zenon DEF Resolves, OneAtATime
  <2>1. u.fingerprint # f
    <3> SUFFICES ASSUME u.fingerprint = f PROVE FALSE
      BY Zenon
    <3>1. IF requests[r].kind = "native" THEN u.party = requests[r].who ELSE u.evm = requests[r].who
      BY <1>1, <1>2, PrintOfUser, Zenon DEF RegInv, RegistrationTypes
    <3>2. requests[r].who \notin Overlapping
      BY <3>1, Zenon DEF OneAtATime
    <3> QED  BY <1>1, <3>1, <3>2, Zenon DEF Registered
  <2> QED  BY <1>11, <2>1, Zenon DEF RegInv, Resolves
<1>16. PartyOnce'
  BY <1>6, Zenon DEF RegInv, PartyOnce
<1> QED  BY <1>12, <1>13, <1>14, <1>15, <1>16, Zenon DEF RegInv

\* The row of a person joins the table, with the party that the request held.
LEMMA SaveKeeps ==
    ASSUME RegInv, NEW r \in Requests, Save(r)
    PROVE  RegInv'
<1> DEFINE q == requests[r]
<1>1. /\ q.at = "save" /\ q \in Request /\ WellFormed(q) /\ Busy(q)
      /\ q.who \notin Overlapping => ~Registered(q) /\ Resolve(Fingerprint(q)) = {PartyOf(q)}
  BY RequestOf, Zenon DEF Save, At, RegInv, Separate, Mapped, Busy
<1>2. PICK evm : evm = IF q.kind = "native" THEN <<"evm", generated + 1>> ELSE q.who
  BY Zenon
<1>3. PICK f, p, row :
        /\ f = Fingerprint(q) /\ p = PartyOf(q)
        /\ row = [evm |-> evm, party |-> p, fingerprint |-> f,
                  keyMode |-> IF q.kind = "external" THEN "external" ELSE "custodial"]
  BY Zenon
<1>4. row.evm = evm /\ row.party = p /\ row.fingerprint = f
  BY <1>3, Zenon
<1>5. /\ q.kind = "native" => generated < MaxKeys
      /\ generated' = IF q.kind = "native" THEN generated + 1 ELSE generated
      /\ users' = users \/ users' = users \cup {row}
      /\ UNCHANGED <<allocated, mappings, topologies>>
      /\ requests' = [requests EXCEPT ![r] = NoRequest]
  BY <1>2, <1>3, Zenon DEF Save, Ends
<1>6. generated \in Nat /\ generated' \in 0 .. MaxKeys /\ generated' >= generated
  <2>1. generated \in 0 .. MaxKeys
    BY Zenon DEF RegInv, RegistrationTypes
  <2>2. MaxKeys \in Nat
    BY RegistrationAssumption, Zenon
  <2>3. generated' = generated \/ (generated' = generated + 1 /\ generated < MaxKeys)
    BY <1>5, Zenon
  <2> QED  BY <2>1, <2>2, <2>3
<1>7. /\ requests' \in [Requests -> Request] /\ requests'[r] = NoRequest
      /\ \A s \in Requests \ {r} : requests'[s] = requests[s]
  BY <1>5, IdleRequest, Zenon DEF RegInv, RegistrationTypes
<1>8. UserOK(row)
  <2>1. CASE q.kind = "native"
    <3>1. p = q.who /\ q.who \in Natives /\ f = Namespace[q.who]
      BY <1>1, <1>3, <2>1, Zenon DEF PartyOf, Fingerprint, WellFormed
    <3>2. generated + 1 \in 1 .. MaxKeys
      BY <1>5, <1>6, <2>1, RegistrationAssumption
    <3>3. evm \notin Addresses
      BY <1>2, <2>1, <3>2, RegistrationAssumption, Zenon
    <3> QED  BY <1>4, <3>1, <3>3, Zenon DEF UserOK
  <2>2. CASE q.kind # "native"
    <3>1. p = q.party /\ q.who \in Addresses /\ f = q.who /\ evm = q.who /\ p \in allocated
      BY <1>1, <1>2, <1>3, <2>2, Zenon DEF PartyOf, Fingerprint, WellFormed, Holds
    <3> QED  BY <1>4, <3>1, Zenon DEF UserOK
  <2> QED  BY <2>1, <2>2, Zenon
<1>9. p \in Overlapping \/ \A u \in users : u.party # p
  <2>1. CASE q.kind = "native"
    BY <1>1, <1>3, <2>1, Zenon DEF PartyOf, Registered
  <2>2. CASE q.kind # "native"
    BY <1>1, <1>3, <2>2, Zenon DEF PartyOf, RegInv, Separate, Holds
  <2> QED  BY <2>1, <2>2, Zenon
<1>10. \A s \in Requests \ {r} : Holds(requests[s]) => requests[s].party # p
  <2>1. CASE q.kind = "native"
    BY <1>1, <1>3, <2>1, NotNative, Zenon DEF PartyOf, WellFormed, RegInv, RegistrationTypes
  <2>2. CASE q.kind # "native"
    BY <1>1, <1>3, <2>2, Zenon DEF PartyOf, RegInv, Separate, Holds
  <2> QED  BY <2>1, <2>2, Zenon
<1>11. ASSUME NEW s \in Requests \ {r}, Busy(requests[s]), requests[s].who \notin Overlapping
       PROVE  ~(IF requests[s].kind = "native" THEN row.party = requests[s].who
                ELSE row.evm = requests[s].who)
  <2>1. /\ requests[s] \in Request /\ WellFormed(requests[s]) /\ Busy(requests[s])
        /\ requests[s].who # q.who
    BY <1>1, <1>11, RequestOf, Zenon DEF RegInv, Separate
  <2>2. CASE requests[s].kind = "native"
    <3>1. requests[s].who \in Natives
      BY <2>1, <2>2, Zenon DEF WellFormed
    <3>2. p = q.who \/ p \notin Natives
      BY <1>1, <1>3, NotNative, Zenon DEF PartyOf, WellFormed, Holds, RegInv, RegistrationTypes
    <3> QED  BY <1>4, <2>1, <2>2, <3>1, <3>2, Zenon
  <2>3. CASE requests[s].kind # "native"
    <3>1. requests[s].who \in Addresses
      BY <2>1, <2>3, Zenon DEF WellFormed
    <3>2. evm = q.who \/ evm \notin Addresses
      BY <1>2, <1>5, <1>6, RegistrationAssumption
    <3> QED  BY <1>4, <2>1, <2>3, <3>1, <3>2, Zenon
  <2> QED  BY <2>2, <2>3, Zenon
<1> HIDE DEF q
<1>12. RegistrationTypes'
  <2>1. \A s \in Requests : WellFormed(requests[s])'
    BY <1>5, <1>7, IdleRequest, Zenon DEF RegInv, RegistrationTypes, WellFormed
  <2>2. \A u \in users' : UserOK(u)'
    BY <1>5, <1>8, Zenon DEF RegInv, RegistrationTypes, UserOK
  <2>3. \A x \in allocated' : x[2] \in ClientKeys \cup 1 .. generated'
    <3>1. allocated' = allocated /\ \A x \in allocated : x[2] \in ClientKeys \cup 1 .. generated
      BY <1>5, Zenon DEF RegInv, RegistrationTypes
    <3>2. 1 .. generated \subseteq 1 .. generated'
      BY <1>6
    <3> QED  BY <3>1, <3>2, Zenon
  <2> QED  BY <1>5, <1>6, <1>7, <2>1, <2>2, <2>3, Zenon DEF RegInv, RegistrationTypes
<1>13. Separate'
  <2>1. ASSUME NEW s \in Requests, Busy(requests'[s]), requests'[s].who \notin Overlapping
        PROVE  ~Registered(requests[s])'
    <3>1. s # r /\ requests'[s] = requests[s]
      BY <1>7, <2>1, IdleRequest, Zenon
    <3>2. ~Registered(requests[s])
      BY <2>1, <3>1, Zenon DEF RegInv, Separate
    <3>3. ASSUME NEW u \in users'
          PROVE  ~(IF requests[s].kind = "native" THEN u.party = requests[s].who
                   ELSE u.evm = requests[s].who)
      BY <1>5, <1>11, <2>1, <3>1, <3>2, Zenon DEF Registered
    <3> QED  BY <3>1, <3>3, Zenon DEF Registered
  <2>2. \A s \in Requests : Busy(requests'[s]) => s # r /\ requests'[s] = requests[s]
    BY <1>7, IdleRequest, Zenon
  <2>3. \A s \in Requests : Holds(requests'[s]) => s # r /\ requests'[s] = requests[s]
    BY <1>7, IdleRequest, Zenon
  <2>4. \A s \in Requests, u \in users' : Holds(requests'[s]) => u.party # requests'[s].party
    BY <1>4, <1>5, <1>10, <2>3, Zenon DEF RegInv, Separate
  <2> QED  BY <2>1, <2>2, <2>3, <2>4 DEF RegInv, Separate, Busy, Holds
<1>14. \A g : Resolve(g)' = Resolve(g)
  BY <1>5, Zenon DEF Resolve, Matches
<1>15. Mapped'
  BY <1>7, <1>14, IdleRequest, Zenon DEF RegInv, Mapped, Fingerprint, PartyOf
<1>16. Resolves'
  <2>1. OneAtATime(row) => q.who \notin Overlapping
    BY <1>2, <1>3, <1>4, Zenon DEF OneAtATime, PartyOf
  <2>2. OneAtATime(row) => Resolve(row.fingerprint) = {row.party}
    BY <1>1, <1>3, <1>4, <2>1, Zenon
  <2> QED  BY <1>5, <1>14, <2>2, Zenon DEF RegInv, Resolves, OneAtATime
<1>17. PartyOnce'
  BY <1>4, <1>5, <1>9, Zenon DEF RegInv, PartyOnce
<1> QED  BY <1>12, <1>13, <1>15, <1>16, <1>17, Zenon DEF RegInv

\* All requests are lost.
LEMMA LostKeeps ==
    ASSUME RegInv, RegistrationLost
    PROVE  RegInv'
<1>1. requests' \in [Requests -> Request] /\ \A s \in Requests : requests'[s] = NoRequest
  BY IdleRequest, Zenon DEF RegistrationLost
<1>2. /\ UNCHANGED <<users, allocated, mappings, generated>> /\ topologies' = {}
  BY Zenon DEF RegistrationLost
<1>3. RegistrationTypes'
  <2>1. \A s \in Requests : WellFormed(requests[s])'
    BY <1>1, <1>2, IdleRequest, Zenon DEF WellFormed
  <2> QED  BY <1>1, <1>2, <2>1, Zenon DEF RegInv, RegistrationTypes, UserOK
<1>4. Separate'
  BY <1>1, IdleRequest, Zenon DEF Separate, Busy, Holds
<1>5. \A g : Resolve(g)' = Resolve(g)
  BY <1>2, Zenon DEF Resolve, Matches
<1>6. Mapped'
  BY <1>1, IdleRequest, Zenon DEF Mapped
<1> QED  BY <1>2, <1>3, <1>4, <1>5, <1>6, Zenon DEF RegInv, Resolves, OneAtATime, PartyOnce

\* Topologies leave the cache, or nothing changes.
LEMMA FewerTopologies ==
    ASSUME RegInv, UNCHANGED <<users, allocated, mappings, generated, requests>>,
           topologies' \subseteq topologies
    PROVE  RegInv'
<1>1. RegistrationTypes'
  BY Zenon DEF RegInv, RegistrationTypes, WellFormed, UserOK
<1>2. Separate'
  BY Zenon DEF RegInv, Separate, Registered
<1>3. \A g : Resolve(g)' = Resolve(g)
  BY Zenon DEF Resolve, Matches
<1>4. Mapped' /\ Resolves' /\ PartyOnce'
  BY <1>3, Zenon DEF RegInv, Mapped, Fingerprint, PartyOf, Resolves, OneAtATime, PartyOnce
<1> QED  BY <1>1, <1>2, <1>4, Zenon DEF RegInv

LEMMA StayKeeps ==
    ASSUME RegInv, UNCHANGED registrationVars
    PROVE  RegInv'
<1>1. UNCHANGED <<users, allocated, mappings, generated, requests>> /\ topologies' \subseteq topologies
  BY Zenon DEF registrationVars
<1> QED  BY <1>1, FewerTopologies, Zenon

LEMMA InitRegInv == AccountsInit => RegInv
<1> SUFFICES ASSUME AccountsInit PROVE RegInv
  BY Zenon
<1>1. /\ users = {} /\ allocated = {} /\ mappings = <<>> /\ topologies = {} /\ generated = 0
      /\ requests = [r \in Requests |-> NoRequest]
  BY Zenon DEF AccountsInit, RegistrationInit
<1>2. requests \in [Requests -> Request] /\ \A s \in Requests : requests[s] = NoRequest
  BY <1>1, IdleRequest, Zenon
<1>3. RegistrationTypes
  <2>1. \A s \in Requests : WellFormed(requests[s])
    BY <1>2, IdleRequest, Zenon
  <2> QED  BY <1>1, <1>2, <2>1, RegistrationAssumption DEF RegistrationTypes
<1>4. Separate /\ Mapped
  BY <1>1, <1>2, IdleRequest, Zenon DEF Separate, Mapped
<1> QED  BY <1>1, <1>3, <1>4, Zenon DEF RegInv, Resolves, PartyOnce

LEMMA RegistrationKeeps ==
    ASSUME RegInv, [AccountsNext]_accountsVars
    PROVE  RegInv'
<1>1. CASE UNCHANGED registrationVars
  BY <1>1, StayKeeps, Zenon
<1>2. CASE RegistrationLost
  BY <1>2, LostKeeps, Zenon
<1>3. CASE TopologyExpires
  BY <1>3, FewerTopologies, Zenon DEF TopologyExpires
<1>4. ASSUME NEW r \in Requests, Abort(r) PROVE RegInv'
  <2>1. Ends(r) /\ UNCHANGED <<users, mappings>> /\ TablesGrow
    BY <1>4, TablesStay, Zenon DEF Abort
  <2> QED  BY <2>1, EndsKeeps, Zenon
<1>5. UNCHANGED registrationVars \/ RegistrationLost \/ RegistrationNext
  BY Zenon DEF AccountsNext, accountsVars, RegistrationStep, Nonce, Login, Tick, Restart
<1> QED
  BY <1>1, <1>2, <1>3, <1>4, <1>5, BeginKeeps, PutTopologyKeeps, TakeTopologyKeeps,
     AllocateCustodialKeeps, AllocateExternalKeeps, CreateMappingKeeps, SaveKeeps, Zenon
     DEF RegistrationNext

LEMMA AlwaysRegInv == AccountsSpec => []RegInv
  BY InitRegInv, RegistrationKeeps, PTL DEF AccountsSpec

\* Whatever fails and is tried again, wherever the process is restarted, and
\* whoever else has overlapping requests, the fingerprint of a registered user who
\* has one request at a time resolves to the party of the user's row
\* (RegisterWeb3User, RegisterCantonNativeUser, registerExternalWeb3User,
\* GetFingerprintMapping).
THEOREM UsersResolve == AccountsSpec => []Resolves
<1>1. RegInv => Resolves
  BY Zenon DEF RegInv
<1> QED  BY <1>1, AlwaysRegInv, PTL

\* No two users share a party, whatever hints and keys they share and whoever has
\* overlapping requests, unless it is a native party whose own requests overlap
\* (RegisterCantonNativeUser, AllocateExternalPartyWithSignature).
THEOREM UsersDiffer == AccountsSpec => []PartyOnce
<1>1. RegInv => PartyOnce
  BY Zenon DEF RegInv
<1> QED  BY <1>1, AlwaysRegInv, PTL
=============================================================================
