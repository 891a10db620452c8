--------------------------- MODULE TransferProofs ---------------------------
(***************************************************************************)
(* Proofs about the cache of prepared transfers, the Execute requests that *)
(* race for its entries, the offers a sender can claim back, and the pages *)
(* of the accept worker, for any number of clients, parties, offers and    *)
(* entries and any sizes.                                                  *)
(***************************************************************************)
EXTENDS Transfers, TLAPS, FiniteSetTheorems

-----------------------------------------------------------------------------
(* What is executed: once, and in time. *)

\* An entry has an id that was handed out, and a mark whether it has expired.
Entry(pt) ==
    /\ "id" \in DOMAIN pt /\ "old" \in DOMAIN pt
    /\ pt.id \in 1 .. prepared

\* A prepared transfer is in one place only: in the cache, in the hands of one
\* request, or with the ledger.
InOnePlace ==
    /\ prepared \in Nat
    /\ running = [c \in Clients |-> running[c]]
    /\ \A pt \in cache : Entry(pt)
    /\ \A x, y \in cache : x.id = y.id => x = y
    /\ \A c \in Clients : \A pt \in running[c] :
        /\ Entry(pt) /\ ~pt.old
        /\ \A x \in cache : x.id # pt.id
        /\ \A d \in Clients : \A x \in running[d] : x.id = pt.id => c = d /\ x = pt
        /\ \A x \in submitted : x.id # pt.id
    /\ \A x \in submitted :
        /\ x.id \in 1 .. prepared /\ ~x.old
        /\ \A pt \in cache : pt.id # x.id
    /\ \A x, y \in submitted : x.id = y.id => x = y

\* At the start nothing is prepared.
LEMMA InitInOnePlace == TransfersInit => InOnePlace
  BY DEF TransfersInit, InOnePlace

\* A new entry has an id that none had before.
LEMMA PutKeeps ==
    ASSUME InOnePlace, NEW kind, NEW p, NEW inputs, NEW offer, NEW to, NEW amount,
           PutPrepared(kind, p, inputs, offer, to, amount)
    PROVE  InOnePlace'
<1> DEFINE pt == [id |-> prepared + 1, kind |-> kind, party |-> p, inputs |-> inputs,
                  offer |-> offer, to |-> to, amount |-> amount, old |-> FALSE]
<1>1. /\ cache' = cache \cup {pt} /\ prepared' = prepared + 1
      /\ running' = running /\ submitted' = submitted
  BY Zenon DEF PutPrepared, Put
<1>2. pt.id = prepared + 1 /\ "id" \in DOMAIN pt /\ "old" \in DOMAIN pt
  BY Zenon
<1> HIDE DEF pt
<1> QED
  BY <1>1, <1>2 DEF InOnePlace, Entry

\* The entry that is taken leaves the cache in the same step.
LEMMA TakeKeeps ==
    ASSUME InOnePlace, ExecuteTake
    PROVE  InOnePlace'
<1>1. PICK c \in Clients, id \in 1 .. prepared :
        /\ running[c] = {}
        /\ cache' = AfterTake(cache, id)
        /\ \E pts \in {{}, Taken(cache, id)} : running' = [running EXCEPT ![c] = pts]
        /\ prepared' = prepared /\ submitted' = submitted
  BY Zenon DEF ExecuteTake
<1>2. PICK pts \in {{}, Taken(cache, id)} : running' = [running EXCEPT ![c] = pts]
  BY <1>1, Zenon
<1>3. \A pt \in pts : pt \in cache /\ pt.id = id /\ ~pt.old
  BY <1>2, Zenon DEF Taken, Cached
<1>4. cache' = {pt \in cache : pt.id # id}
  BY <1>1, Zenon DEF AfterTake, Cached
<1>5. /\ running' = [d \in Clients |-> running'[d]]
      /\ running'[c] = pts
      /\ \A d \in Clients : d # c => running'[d] = running[d]
  BY <1>2, Zenon DEF InOnePlace
<1> QED
  BY <1>1, <1>3, <1>4, <1>5 DEF InOnePlace, Entry

\* A submission ends the request that had the transfer in hand.
LEMMA SubmitKeeps ==
    ASSUME InOnePlace, ExecuteSubmit
    PROVE  InOnePlace'
<1>0. PICK c \in Clients : \E pt \in running[c] :
        /\ running' = [running EXCEPT ![c] = {}]
        /\ submitted' = submitted \cup {[id |-> pt.id, by |-> c, old |-> pt.old]}
        /\ prepared' = prepared /\ cache' = cache
  BY Zenon DEF ExecuteSubmit
<1>1. PICK pt \in running[c] :
        /\ running' = [running EXCEPT ![c] = {}]
        /\ submitted' = submitted \cup {[id |-> pt.id, by |-> c, old |-> pt.old]}
        /\ prepared' = prepared /\ cache' = cache
  BY <1>0, Zenon
<1>2. /\ running' = [d \in Clients |-> running'[d]]
      /\ running'[c] = {}
      /\ \A d \in Clients : d # c => running'[d] = running[d]
  BY <1>1, Zenon DEF InOnePlace
<1> DEFINE s == [id |-> pt.id, by |-> c, old |-> pt.old]
<1>3. s.id = pt.id /\ s.old = pt.old
  BY Zenon
<1> HIDE DEF s
<1>4. submitted' = submitted \cup {s}
  BY <1>1, Zenon DEF s
<1> QED
  BY <1>1, <1>2, <1>3, <1>4 DEF InOnePlace, Entry

\* Entries that expire keep their ids, and cleanup only removes entries.
LEMMA CacheKeeps ==
    ASSUME InOnePlace, CacheAges \/ Cleanup
    PROVE  InOnePlace'
<1>1. /\ prepared' = prepared /\ running' = running /\ submitted' = submitted
  BY Zenon DEF CacheAges, Cleanup
<1>2. CASE Cleanup
  <2>1. cache' \subseteq cache
    BY <1>2, Zenon DEF Cleanup, Cleaned
  <2> QED
    BY <1>1, <2>1 DEF InOnePlace, Entry
<1>3. CASE CacheAges
  <2> DEFINE First(pt) == ~pt.old /\ \A x \in cache : ~x.old => x.id >= pt.id
             F(pt) == IF First(pt) THEN [pt EXCEPT !.old = TRUE] ELSE pt
  <2>1. cache' = {F(pt) : pt \in cache}
    BY <1>3, Zenon DEF CacheAges, Aged
  <2>2. \A pt \in cache : F(pt).id = pt.id /\ "id" \in DOMAIN F(pt) /\ "old" \in DOMAIN F(pt)
    BY Zenon DEF InOnePlace, Entry
  <2> HIDE DEF F
  <2>3. \A x \in cache' : \E pt \in cache : x = F(pt)
    BY <2>1, Zenon
  <2> QED
    BY <1>1, <2>2, <2>3 DEF InOnePlace, Entry
<1> QED
  BY <1>2, <1>3, Zenon

\* The other actions change nothing of the service.
LEMMA InOnePlaceOthers ==
    ASSUME InOnePlace, UNCHANGED service
    PROVE  InOnePlace'
  BY DEF service, InOnePlace, Entry

LEMMA InOnePlaceNext ==
    ASSUME InOnePlace, [TransfersNext]_transfersVars
    PROVE  InOnePlace'
<1>1. CASE Prepare
  BY <1>1, PutKeeps, Zenon DEF Prepare
<1>2. CASE PrepareAccept
  BY <1>2, PutKeeps, Zenon DEF PrepareAccept
<1>3. CASE PrepareWithdraw
  BY <1>3, PutKeeps, Zenon DEF PrepareWithdraw
<1>4. CASE \/ SendCustodial \/ WithdrawCustodial \/ StrangerOffers \/ StrangerSettles
           \/ Register \/ LedgerSteps \/ WorkerTick \/ WorkerFetch \/ WorkerFetchFails
           \/ WorkerAccepts \/ WorkerSkips \/ WorkerPageEnds
  <2>1. UNCHANGED service
    BY <1>4, Zenon DEF SendCustodial, WithdrawCustodial, StrangerOffers, StrangerSettles, Register,
       LedgerSteps, WorkerTick, WorkerFetch, WorkerFetchFails, WorkerAccepts, WorkerSkips,
       WorkerPageEnds
  <2> QED
    BY <2>1, InOnePlaceOthers, Zenon
<1>5. CASE UNCHANGED transfersVars
  <2>1. UNCHANGED service
    BY <1>5, Zenon DEF transfersVars
  <2> QED
    BY <2>1, InOnePlaceOthers, Zenon
<1> QED
  BY <1>1, <1>2, <1>3, <1>4, <1>5, TakeKeeps, SubmitKeeps, CacheKeeps, Zenon DEF TransfersNext

LEMMA AlwaysInOnePlace == TransfersSpec => []InOnePlace
  BY InitInOnePlace, InOnePlaceNext, PTL DEF TransfersSpec

\* Whatever the number of concurrent Execute requests for a TransferID, the
\* prepared transaction is handed to the ledger at most once (Execute,
\* GetAndDelete).
THEOREM ExecutesOnce == TransfersSpec => []SubmittedOnce
<1>1. InOnePlace => SubmittedOnce
  BY Zenon DEF InOnePlace, SubmittedOnce
<1> QED
  BY <1>1, AlwaysInOnePlace, PTL

\* No transaction that had expired when Execute took it is handed to the ledger
\* (GetAndDelete).
THEOREM ExecutesInTime == TransfersSpec => []SubmittedInTime
<1>1. InOnePlace => SubmittedInTime
  BY Zenon DEF InOnePlace, SubmittedInTime
<1> QED
  BY <1>1, AlwaysInOnePlace, PTL

-----------------------------------------------------------------------------
(* What a sender can claim back. *)

IsSequence(s) == \E S : s \in Seq(S)

LEMMA SequenceLength ==
    ASSUME NEW s, IsSequence(s)
    PROVE  Len(s) \in Nat /\ DOMAIN s = 1 .. Len(s)
<1>1. PICK S : s \in Seq(S)
  BY Zenon DEF IsSequence
<1> QED  BY <1>1

LEMMA AppendedSequence ==
    ASSUME NEW s, IsSequence(s), NEW x
    PROVE  /\ IsSequence(Append(s, x)) /\ Len(s) \in Nat /\ Len(Append(s, x)) = Len(s) + 1
           /\ \A k \in 1 .. Len(s) : Append(s, x)[k] = s[k]
           /\ Append(s, x)[Len(s) + 1] = x
<1>1. PICK S : s \in Seq(S)
  BY Zenon DEF IsSequence
<1>2. s \in Seq(S \cup {x})
  BY <1>1
<1>3. Append(s, x) \in Seq(S \cup {x})
  BY <1>2
<1>4. IsSequence(Append(s, x))
  BY <1>3, Zenon DEF IsSequence
<1> QED  BY <1>2, <1>4

LEMMA TailOfSequence ==
    ASSUME NEW s, IsSequence(s), s # <<>>
    PROVE  /\ IsSequence(Tail(s)) /\ Len(s) \in Nat \ {0} /\ Len(Tail(s)) = Len(s) - 1
           /\ \A k \in 1 .. Len(s) - 1 : Tail(s)[k] = s[k + 1]
           /\ Head(s) = s[1]
<1>1. PICK S : s \in Seq(S)
  BY Zenon DEF IsSequence
<1>2. IsSequence(Tail(s))
  BY <1>1 DEF IsSequence
<1> QED  BY <1>1, <1>2

\* s with x in place o.
Replaced(s, o, x) == [s EXCEPT ![o] = x]

LEMMA ReplacedInSequence ==
    ASSUME NEW s, NEW o, NEW x, IsSequence(s), o \in 1 .. Len(s)
    PROVE  /\ IsSequence(Replaced(s, o, x)) /\ Len(Replaced(s, o, x)) = Len(s)
           /\ \A k \in 1 .. Len(s) : k # o => Replaced(s, o, x)[k] = s[k]
           /\ Replaced(s, o, x)[o] = x
<1>1. PICK S : s \in Seq(S)
  BY Zenon DEF IsSequence
<1>2. Replaced(s, o, x) \in Seq(S \cup {x}) /\ Len(Replaced(s, o, x)) = Len(s)
  BY <1>1 DEF Replaced
<1>3. IsSequence(Replaced(s, o, x))
  BY <1>2, Zenon DEF IsSequence
<1>4. /\ \A k \in 1 .. Len(s) : k # o => Replaced(s, o, x)[k] = s[k]
      /\ Replaced(s, o, x)[o] = x
  BY <1>1 DEF Replaced
<1> QED  BY <1>2, <1>3, <1>4, Zenon

\* The indexer learns of the offers in the order of their creation, and of each.
InOrder ==
    /\ IsSequence(offers) /\ IsSequence(view) /\ IsSequence(lag)
    /\ \A o \in 1 .. Len(offers) : "state" \in DOMAIN offers[o]
    /\ \A k \in 1 .. Len(lag) :
        /\ lag[k].offer \in 1 .. Len(offers)
        /\ lag[k].offer <= Len(view) + 1 \/ \E j \in 1 .. k - 1 : lag[j].offer = lag[k].offer - 1
    /\ Len(view) <= Len(offers)
    /\ \A o \in 1 .. Len(offers) : o <= Len(view) \/ \E j \in 1 .. Len(lag) : lag[j].offer = o

\* The last the indexer hears of an offer, or has heard, is what became of it.
Truthful ==
    /\ \A k \in 1 .. Len(lag) :
        (\A j \in k + 1 .. Len(lag) : lag[j].offer # lag[k].offer) =>
            (lag[k].status = "pending" <=> offers[lag[k].offer].state = "active")
    /\ \A o \in 1 .. Len(view) :
        (\A j \in 1 .. Len(lag) : lag[j].offer # o) =>
            (view[o] = "pending" <=> offers[o].state = "active")

Followed == InOrder /\ Truthful

LEMMA FollowedLengths ==
    ASSUME Followed
    PROVE  /\ Len(offers) \in Nat /\ DOMAIN offers = 1 .. Len(offers)
           /\ Len(lag) \in Nat /\ Len(view) \in Nat
<1>1. IsSequence(offers) /\ IsSequence(view) /\ IsSequence(lag)
  BY Zenon DEF Followed, InOrder
<1> QED  BY <1>1, SequenceLength, Zenon

LEMMA InitFollowed == TransfersInit => Followed
<1> SUFFICES ASSUME TransfersInit PROVE Followed
  BY Zenon
<1>1. /\ offers = InitOffers /\ view = <<>>
      /\ lag = [o \in DOMAIN InitOffers |-> [offer |-> o, status |-> "pending"]]
  BY Zenon DEF TransfersInit, LedgerInit
<1>0. PICK S : InitOffers \in Seq(S)
  BY LedgerAssumption, Zenon
<1>2. PICK n \in Nat : n = Len(InitOffers) /\ DOMAIN InitOffers = 1 .. n
  BY <1>0
<1>3. \A o \in 1 .. n : "state" \in DOMAIN InitOffers[o] /\ InitOffers[o].state = "active"
  BY <1>2, LedgerAssumption, Zenon
<1>4. PICK T : lag \in [1 .. n -> T]
  <2> DEFINE T == {lag[o] : o \in 1 .. n}
  <2>1. lag \in [1 .. n -> T]
    BY <1>1, <1>2, Zenon
  <2> QED  BY <2>1, Zenon
<1>5. lag \in Seq(T) /\ Len(lag) = n
  BY <1>4
<1>6. \A k \in 1 .. n : lag[k].offer = k /\ lag[k].status = "pending"
  BY <1>1, <1>2, Zenon
<1>7. view \in Seq({}) /\ Len(view) = 0
  BY <1>1
<1>8. IsSequence(offers) /\ IsSequence(view) /\ IsSequence(lag)
  BY <1>0, <1>1, <1>5, <1>7, Zenon DEF IsSequence
<1>9. InOrder
  BY <1>1, <1>2, <1>3, <1>5, <1>6, <1>7, <1>8 DEF InOrder
<1>10. Truthful
  BY <1>1, <1>2, <1>3, <1>5, <1>6, <1>7 DEF Truthful
<1> QED  BY <1>9, <1>10, Zenon DEF Followed

\* A new offer is told last.
LEMMA CreateFollowed ==
    ASSUME Followed, NEW inputs, NEW from, NEW to, NEW amount, NEW supported,
           CreateOffer(inputs, from, to, amount, supported)
    PROVE  Followed'
<1>0. PICK lock : /\ offers' = Append(offers, [from |-> from, to |-> to, lock |-> lock,
                            supported |-> supported, state |-> "active", late |-> FALSE])
                  /\ lag' = Append(lag, [offer |-> Len(offers) + 1, status |-> "pending"])
                  /\ view' = view
  BY Zenon DEF CreateOffer
<1> DEFINE x == [from |-> from, to |-> to, lock |-> lock,
                 supported |-> supported, state |-> "active", late |-> FALSE]
           c == [offer |-> Len(offers) + 1, status |-> "pending"]
<1>1. /\ offers' = Append(offers, x) /\ lag' = Append(lag, c) /\ view' = view
      /\ "state" \in DOMAIN x /\ x.state = "active"
      /\ c.offer = Len(offers) + 1 /\ c.status = "pending"
  BY <1>0, Zenon
<1> HIDE DEF x, c
<1>2. PICK n \in Nat, l \in Nat, m \in Nat : n = Len(offers) /\ l = Len(lag) /\ m = Len(view)
  BY FollowedLengths, Zenon
<1>3. /\ IsSequence(offers') /\ Len(offers') = n + 1 /\ offers'[n + 1] = x
      /\ \A k \in 1 .. n : offers'[k] = offers[k]
  BY <1>1, <1>2, AppendedSequence DEF Followed, InOrder
<1>4. /\ IsSequence(lag') /\ Len(lag') = l + 1 /\ lag'[l + 1] = c
      /\ \A k \in 1 .. l : lag'[k] = lag[k]
  BY <1>1, <1>2, AppendedSequence DEF Followed, InOrder
<1>5. InOrder'
  <2>1. \A o \in 1 .. n + 1 : "state" \in DOMAIN offers'[o]
    BY <1>1, <1>2, <1>3 DEF Followed, InOrder
  <2>2. ASSUME NEW k \in 1 .. l
        PROVE  /\ lag'[k].offer \in 1 .. n + 1
               /\ lag'[k].offer <= m + 1 \/ \E j \in 1 .. k - 1 : lag'[j].offer = lag'[k].offer - 1
    <3>1. /\ lag[k].offer \in 1 .. n
          /\ lag[k].offer <= m + 1 \/ \E j \in 1 .. k - 1 : lag[j].offer = lag[k].offer - 1
      BY <1>2, Zenon DEF Followed, InOrder
    <3>2. lag[k].offer \in 1 .. n + 1 /\ \A j \in 1 .. k - 1 : j \in 1 .. l
      BY <1>2, <3>1
    <3> QED  BY <1>4, <3>1, <3>2, Zenon
  <2>3. n + 1 <= m + 1 \/ \E j \in 1 .. l : lag'[j].offer = (n + 1) - 1
    <3>1. n <= m \/ n = 0 \/ \E j \in 1 .. l : lag[j].offer = n
      BY <1>2 DEF Followed, InOrder
    <3> QED  BY <1>2, <1>4, <3>1
  <2>4. \A k \in 1 .. l + 1 :
          /\ lag'[k].offer \in 1 .. n + 1
          /\ lag'[k].offer <= m + 1 \/ \E j \in 1 .. k - 1 : lag'[j].offer = lag'[k].offer - 1
    <3>1. \A k \in 1 .. l + 1 : k \in 1 .. l \/ (k = l + 1 /\ k - 1 = l)
      BY <1>2
    <3>2. lag'[l + 1].offer = n + 1 /\ n + 1 \in 1 .. n + 1
      BY <1>1, <1>2, <1>4
    <3> QED  BY <2>2, <2>3, <3>1, <3>2, Zenon
  <2>5. \A o \in 1 .. n + 1 : o <= m \/ \E j \in 1 .. l + 1 : lag'[j].offer = o
    <3>1. /\ l + 1 \in 1 .. l + 1 /\ \A j \in 1 .. l : j \in 1 .. l + 1
          /\ \A o \in 1 .. n + 1 : o \in 1 .. n \/ o = n + 1
      BY <1>2
    <3>2. \A o \in 1 .. n : o <= m \/ \E j \in 1 .. l : lag[j].offer = o
      BY <1>2, Zenon DEF Followed, InOrder
    <3>3. lag'[l + 1].offer = n + 1
      BY <1>1, <1>2, <1>4, Zenon
    <3> QED  BY <1>4, <3>1, <3>2, <3>3, Zenon
  <2>6. m <= n + 1
    BY <1>2 DEF Followed, InOrder
  <2> QED  BY <1>1, <1>2, <1>3, <1>4, <2>1, <2>4, <2>5, <2>6, Zenon DEF Followed, InOrder
<1>6. Truthful'
  <2>1. ASSUME NEW k \in 1 .. l, \A j \in k + 1 .. l + 1 : lag'[j].offer # lag'[k].offer
        PROVE  lag'[k].status = "pending" <=> offers'[lag'[k].offer].state = "active"
    <3>1. \A j \in k + 1 .. l : j \in k + 1 .. l + 1 /\ j \in 1 .. l
      BY <1>2
    <3>2. \A j \in k + 1 .. l : lag[j].offer # lag[k].offer
      BY <1>4, <2>1, <3>1, Zenon
    <3>3. lag[k].status = "pending" <=> offers[lag[k].offer].state = "active"
      BY <1>2, <3>2, Zenon DEF Followed, Truthful
    <3>4. lag'[k] = lag[k] /\ offers'[lag[k].offer] = offers[lag[k].offer]
      BY <1>2, <1>3, <1>4, Zenon DEF Followed, InOrder
    <3> QED  BY <3>3, <3>4, Zenon
  <2>2. lag'[l + 1].status = "pending" <=> offers'[lag'[l + 1].offer].state = "active"
    BY <1>1, <1>2, <1>3, <1>4, Zenon
  <2>3. ASSUME NEW o \in 1 .. m, \A j \in 1 .. l + 1 : lag'[j].offer # o
        PROVE  view[o] = "pending" <=> offers'[o].state = "active"
    <3>1. \A j \in 1 .. l : j \in 1 .. l + 1
      BY <1>2
    <3>2. \A j \in 1 .. l : lag[j].offer # o
      BY <1>4, <2>3, <3>1, Zenon
    <3>3. o \in 1 .. n
      BY <1>2 DEF Followed, InOrder
    <3> QED  BY <1>2, <1>3, <3>2, <3>3, Zenon DEF Followed, Truthful
  <2>4. \A k \in 1 .. l + 1 : k \in 1 .. l \/ k = l + 1
    BY <1>2
  <2>5. \A k \in 1 .. l + 1 : (\A j \in k + 1 .. l + 1 : lag'[j].offer # lag'[k].offer) =>
            (lag'[k].status = "pending" <=> offers'[lag'[k].offer].state = "active")
    BY <2>1, <2>2, <2>4, Zenon
  <2>6. Len(lag') = l + 1 /\ Len(view') = m /\ view' = view
    BY <1>1, <1>2, <1>4, Zenon
  <2> QED  BY <2>3, <2>5, <2>6, Zenon DEF Truthful
<1> QED  BY <1>5, <1>6, Zenon DEF Followed

\* So is what became of an offer.
LEMMA SettleFollowed ==
    ASSUME Followed, NEW o \in DOMAIN offers, NEW state, state \notin {"pending", "active"},
           SettleOffer(o, state)
    PROVE  Followed'
<1>1. PICK n \in Nat, l \in Nat, m \in Nat :
        n = Len(offers) /\ l = Len(lag) /\ m = Len(view) /\ DOMAIN offers = 1 .. n
  BY FollowedLengths, Zenon
<1> DEFINE c == [offer |-> o, status |-> state]
           x == [offers[o] EXCEPT !.state = state]
<1>2. lag' = Append(lag, c) /\ view' = view /\ c.offer = o /\ c.status = state
  BY Zenon DEF SettleOffer
<1>3. offers' = Replaced(offers, o, x) /\ "state" \in DOMAIN x /\ x.state = state
  <2>1. "state" \in DOMAIN offers[o]
    BY <1>1, Zenon DEF Followed, InOrder
  <2> QED  BY <2>1, Zenon DEF SettleOffer, Replaced
<1> HIDE DEF c, x
<1>4. /\ IsSequence(offers') /\ Len(offers') = n /\ offers'[o] = x
      /\ \A k \in 1 .. n : k # o => offers'[k] = offers[k]
  <2>1. IsSequence(offers) /\ o \in 1 .. Len(offers)
    BY <1>1, Zenon DEF Followed, InOrder
  <2>2. /\ IsSequence(Replaced(offers, o, x)) /\ Len(Replaced(offers, o, x)) = Len(offers)
        /\ \A k \in 1 .. Len(offers) : k # o => Replaced(offers, o, x)[k] = offers[k]
        /\ Replaced(offers, o, x)[o] = x
    BY <2>1, ReplacedInSequence
  <2> QED  BY <1>1, <1>3, <2>2, Zenon
<1>5. /\ IsSequence(lag') /\ Len(lag') = l + 1 /\ lag'[l + 1] = c
      /\ \A k \in 1 .. l : lag'[k] = lag[k]
  BY <1>1, <1>2, AppendedSequence DEF Followed, InOrder
<1>6. InOrder'
  <2>1. \A k \in 1 .. n : "state" \in DOMAIN offers'[k]
    BY <1>1, <1>3, <1>4, Zenon DEF Followed, InOrder
  <2>2. ASSUME NEW k \in 1 .. l
        PROVE  /\ lag'[k].offer \in 1 .. n
               /\ lag'[k].offer <= m + 1 \/ \E j \in 1 .. k - 1 : lag'[j].offer = lag'[k].offer - 1
    <3>1. /\ lag[k].offer \in 1 .. n
          /\ lag[k].offer <= m + 1 \/ \E j \in 1 .. k - 1 : lag[j].offer = lag[k].offer - 1
      BY <1>1, Zenon DEF Followed, InOrder
    <3>2. \A j \in 1 .. k - 1 : j \in 1 .. l
      BY <1>1
    <3> QED  BY <1>5, <3>1, <3>2, Zenon
  <2>3. o <= m + 1 \/ \E j \in 1 .. l : lag'[j].offer = o - 1
    <3>1. CASE o <= m
      BY <1>1, <3>1
    <3>2. CASE \E k \in 1 .. l : lag[k].offer = o
      <4>1. PICK k \in 1 .. l : lag[k].offer = o
        BY <3>2
      <4>2. lag'[k].offer = o
        BY <1>5, <4>1, Zenon
      <4>3. \A j \in 1 .. k - 1 : j \in 1 .. l
        BY <1>1
      <4> QED  BY <2>2, <4>2, <4>3, Zenon
    <3> QED  BY <1>1, <3>1, <3>2, Zenon DEF Followed, InOrder
  <2>4. \A k \in 1 .. l + 1 : k \in 1 .. l \/ (k = l + 1 /\ k - 1 = l)
    BY <1>1
  <2>5. \A k \in 1 .. l + 1 :
          /\ lag'[k].offer \in 1 .. n
          /\ lag'[k].offer <= m + 1 \/ \E j \in 1 .. k - 1 : lag'[j].offer = lag'[k].offer - 1
    BY <1>1, <1>2, <1>5, <2>2, <2>3, <2>4, Zenon
  <2>6. \A i \in 1 .. n : i <= m \/ \E j \in 1 .. l + 1 : lag'[j].offer = i
    <3>1. \A j \in 1 .. l : j \in 1 .. l + 1
      BY <1>1
    <3>2. \A i \in 1 .. n : i <= m \/ \E j \in 1 .. l : lag[j].offer = i
      BY <1>1, Zenon DEF Followed, InOrder
    <3> QED  BY <1>5, <3>1, <3>2, Zenon
  <2> QED  BY <1>1, <1>2, <1>4, <1>5, <2>1, <2>5, <2>6, Zenon DEF Followed, InOrder
<1>7. Truthful'
  <2>1. ASSUME NEW k \in 1 .. l, \A j \in k + 1 .. l + 1 : lag'[j].offer # lag'[k].offer
        PROVE  lag'[k].status = "pending" <=> offers'[lag'[k].offer].state = "active"
    <3>1. lag'[k] = lag[k] /\ lag[k].offer \in 1 .. n
      BY <1>1, <1>5, Zenon DEF Followed, InOrder
    <3>2. l + 1 \in k + 1 .. l + 1 /\ \A j \in k + 1 .. l : j \in k + 1 .. l + 1 /\ j \in 1 .. l
      BY <1>1
    <3>3. lag[k].offer # o
      BY <1>2, <1>5, <2>1, <3>1, <3>2, Zenon
    <3>4. \A j \in k + 1 .. l : lag[j].offer # lag[k].offer
      BY <1>5, <2>1, <3>1, <3>2, Zenon
    <3>5. lag[k].status = "pending" <=> offers[lag[k].offer].state = "active"
      BY <1>1, <3>4, Zenon DEF Followed, Truthful
    <3> QED  BY <1>4, <3>1, <3>3, <3>5, Zenon
  <2>2. lag'[l + 1].status = "pending" <=> offers'[lag'[l + 1].offer].state = "active"
    BY <1>2, <1>3, <1>4, <1>5, Zenon
  <2>3. ASSUME NEW i \in 1 .. m, \A j \in 1 .. l + 1 : lag'[j].offer # i
        PROVE  view[i] = "pending" <=> offers'[i].state = "active"
    <3>1. l + 1 \in 1 .. l + 1 /\ \A j \in 1 .. l : j \in 1 .. l + 1
      BY <1>1
    <3>2. i # o /\ \A j \in 1 .. l : lag[j].offer # i
      BY <1>2, <1>5, <2>3, <3>1, Zenon
    <3>3. i \in 1 .. n
      BY <1>1 DEF Followed, InOrder
    <3> QED  BY <1>1, <1>4, <3>2, <3>3, Zenon DEF Followed, Truthful
  <2>4. \A k \in 1 .. l + 1 : k \in 1 .. l \/ k = l + 1
    BY <1>1
  <2>5. \A k \in 1 .. l + 1 : (\A j \in k + 1 .. l + 1 : lag'[j].offer # lag'[k].offer) =>
            (lag'[k].status = "pending" <=> offers'[lag'[k].offer].state = "active")
    BY <2>1, <2>2, <2>4, Zenon
  <2>6. Len(lag') = l + 1 /\ Len(view') = m /\ view' = view
    BY <1>1, <1>2, <1>5, Zenon
  <2> QED  BY <2>3, <2>5, <2>6, Zenon DEF Truthful
<1> QED  BY <1>6, <1>7, Zenon DEF Followed

\* Time changes no state of an offer.
LEMMA LapseFollowed ==
    ASSUME Followed, OfferLapses
    PROVE  Followed'
<1>1. PICK o \in DOMAIN offers : offers' = [offers EXCEPT ![o] = [offers[o] EXCEPT !.late = TRUE]]
  BY Zenon DEF OfferLapses
<1>2. view' = view /\ lag' = lag
  BY Zenon DEF OfferLapses
<1>3. PICK n \in Nat : n = Len(offers) /\ DOMAIN offers = 1 .. n
  BY FollowedLengths, Zenon
<1> DEFINE x == [offers[o] EXCEPT !.late = TRUE]
<1>4. offers' = Replaced(offers, o, x) /\ "state" \in DOMAIN x /\ x.state = offers[o].state
  <2>1. "state" \in DOMAIN offers[o]
    BY <1>3, Zenon DEF Followed, InOrder
  <2> QED  BY <1>1, <2>1, Zenon DEF Replaced
<1> HIDE DEF x
<1>5. /\ IsSequence(offers') /\ Len(offers') = n /\ offers'[o] = x
      /\ \A k \in 1 .. n : k # o => offers'[k] = offers[k]
  <2>1. IsSequence(offers) /\ o \in 1 .. Len(offers)
    BY <1>3, Zenon DEF Followed, InOrder
  <2>2. /\ IsSequence(Replaced(offers, o, x)) /\ Len(Replaced(offers, o, x)) = Len(offers)
        /\ \A k \in 1 .. Len(offers) : k # o => Replaced(offers, o, x)[k] = offers[k]
        /\ Replaced(offers, o, x)[o] = x
    BY <2>1, ReplacedInSequence
  <2> QED  BY <1>3, <1>4, <2>2, Zenon
<1>6. \A k \in 1 .. n : "state" \in DOMAIN offers'[k] /\ offers'[k].state = offers[k].state
  BY <1>3, <1>4, <1>5, Zenon DEF Followed, InOrder
<1>7. InOrder'
  BY <1>2, <1>3, <1>5, <1>6, Zenon DEF Followed, InOrder
<1>8. \A k \in 1 .. Len(lag) : lag[k].offer \in 1 .. n
  BY <1>3, Zenon DEF Followed, InOrder
<1>9. \A k \in 1 .. Len(view) : k \in 1 .. n
  BY <1>3 DEF Followed, InOrder, IsSequence
<1>10. Truthful'
  BY <1>2, <1>6, <1>8, <1>9, Zenon DEF Followed, Truthful
<1> QED  BY <1>7, <1>10, Zenon DEF Followed

\* What the indexer applies moves from what it will hear to what it has heard.
LEMMA SeesFollowed ==
    ASSUME Followed, IndexerSees
    PROVE  Followed'
<1>1. /\ lag # <<>> /\ lag' = Tail(lag) /\ offers' = offers
      /\ view' = IF Head(lag).offer > Len(view) THEN Append(view, Head(lag).status)
                 ELSE [view EXCEPT ![Head(lag).offer] = Head(lag).status]
  BY Zenon DEF IndexerSees
<1>2. PICK n \in Nat, l \in Nat \ {0}, m \in Nat : n = Len(offers) /\ l = Len(lag) /\ m = Len(view)
  BY <1>1 DEF Followed, InOrder, IsSequence
<1>3. /\ IsSequence(lag') /\ Len(lag') = l - 1 /\ Head(lag) = lag[1]
      /\ \A k \in 1 .. l - 1 : lag'[k] = lag[k + 1]
  BY <1>1, <1>2, TailOfSequence, Zenon DEF Followed, InOrder
<1>31. \A i \in 2 .. l : lag'[i - 1] = lag[i]
  <2> SUFFICES ASSUME NEW i \in 2 .. l PROVE lag'[i - 1] = lag[i]
    BY Zenon
  <2>1. i - 1 \in 1 .. l - 1 /\ (i - 1) + 1 = i
    BY <1>2
  <2> QED  BY <1>3, <2>1, Zenon
<1>4. PICK h, st : h = lag[1].offer /\ st = lag[1].status
  BY Zenon
<1>5. h \in 1 .. n /\ h <= m + 1
  BY <1>2, <1>4 DEF Followed, InOrder
<1>6. PICK v \in Nat :
        /\ IsSequence(view') /\ Len(view') = v /\ view'[h] = st
        /\ \A k \in 1 .. m : k # h => view'[k] = view[k]
        /\ v = IF h > m THEN m + 1 ELSE m
  <2>1. CASE h > m
    <3>1. h = m + 1
      BY <1>2, <1>5, <2>1
    <3>2. view' = Append(view, st)
      BY <1>1, <1>2, <1>3, <1>4, <2>1, Zenon
    <3>3. /\ IsSequence(view') /\ Len(view') = m + 1 /\ view'[m + 1] = st
          /\ \A k \in 1 .. m : view'[k] = view[k]
      BY <1>2, <3>2, AppendedSequence DEF Followed, InOrder
    <3> QED  BY <2>1, <3>1, <3>3
  <2>2. CASE ~(h > m)
    <3>1. h \in 1 .. Len(view)
      BY <1>2, <1>5, <2>2
    <3>2. view' = Replaced(view, h, st)
      BY <1>1, <1>2, <1>3, <1>4, <2>2, Zenon DEF Replaced
    <3>3. IsSequence(view)
      BY Zenon DEF Followed, InOrder
    <3>4. /\ IsSequence(Replaced(view, h, st)) /\ Len(Replaced(view, h, st)) = Len(view)
          /\ \A k \in 1 .. Len(view) : k # h => Replaced(view, h, st)[k] = view[k]
          /\ Replaced(view, h, st)[h] = st
      BY <3>1, <3>3, ReplacedInSequence
    <3>5. /\ IsSequence(view') /\ Len(view') = m /\ view'[h] = st
          /\ \A k \in 1 .. m : k # h => view'[k] = view[k]
      BY <1>2, <3>2, <3>4, Zenon
    <3> QED  BY <2>2, <3>5
  <2> QED  BY <2>1, <2>2, Zenon
<1>7. h <= v /\ m <= v /\ v <= n /\ \A k \in 1 .. v : k = h \/ k \in 1 .. m
  BY <1>2, <1>5, <1>6 DEF Followed, InOrder
<1>8. InOrder'
  <2>1. ASSUME NEW k \in 1 .. l - 1
        PROVE  /\ lag'[k].offer \in 1 .. n
               /\ lag'[k].offer <= v + 1 \/ \E j \in 1 .. k - 1 : lag'[j].offer = lag'[k].offer - 1
    <3>1. k + 1 \in 1 .. l /\ lag'[k] = lag[k + 1] /\ (k + 1) - 1 = k
      BY <1>2, <1>3
    <3>2. PICK g \in 1 .. n : g = lag[k + 1].offer /\ (g <= m + 1 \/ \E j \in 1 .. k : lag[j].offer = g - 1)
      <4>1. /\ lag[k + 1].offer \in 1 .. n
            /\ \/ lag[k + 1].offer <= m + 1
               \/ \E j \in 1 .. (k + 1) - 1 : lag[j].offer = lag[k + 1].offer - 1
        BY <1>2, <3>1, Zenon DEF Followed, InOrder
      <4> QED  BY <3>1, <4>1, Zenon
    <3>3. CASE g <= m + 1
      <4>1. g <= v + 1
        BY <1>7, <3>3
      <4> QED  BY <3>1, <3>2, <4>1, Zenon
    <3>4. CASE \E j \in 1 .. k : lag[j].offer = g - 1
      <4>1. PICK j \in 1 .. k : lag[j].offer = g - 1
        BY <3>4
      <4>2. CASE j = 1
        <5>1. h = g - 1 /\ h <= v /\ lag'[k].offer = g
          BY <1>4, <1>7, <3>1, <3>2, <4>1, <4>2, Zenon
        <5>2. g <= v + 1
          BY <5>1
        <5> QED  BY <5>1, <5>2, Zenon
      <4>3. CASE j # 1
        <5>0. j - 1 \in 1 .. k - 1 /\ j \in 2 .. l
          BY <1>2, <4>3
        <5>1. j - 1 \in 1 .. k - 1 /\ lag'[j - 1] = lag[j]
          BY <1>31, <5>0, Zenon
        <5>2. lag'[j - 1].offer = g - 1 /\ lag'[k].offer = g
          BY <3>1, <3>2, <4>1, <5>1, Zenon
        <5> QED  BY <5>1, <5>2, Zenon
      <4> QED  BY <4>2, <4>3, Zenon
    <3> QED  BY <3>2, <3>3, <3>4, Zenon
  <2>2. ASSUME NEW o \in 1 .. n
        PROVE  o <= v \/ \E j \in 1 .. l - 1 : lag'[j].offer = o
    <3>1. o <= m \/ \E j \in 1 .. l : lag[j].offer = o
      BY <1>2, Zenon DEF Followed, InOrder
    <3>2. CASE o <= m
      BY <1>2, <1>6, <1>7, <3>2
    <3>3. CASE \E j \in 1 .. l : lag[j].offer = o
      <4>1. PICK j \in 1 .. l : lag[j].offer = o
        BY <3>3
      <4>2. CASE j = 1
        BY <1>4, <1>7, <4>1, <4>2
      <4>3. CASE j # 1
        <5>0. j - 1 \in 1 .. l - 1 /\ j \in 2 .. l
          BY <1>2, <4>3
        <5>1. j - 1 \in 1 .. l - 1 /\ lag'[j - 1] = lag[j]
          BY <1>31, <5>0, Zenon
        <5> QED  BY <4>1, <5>1, Zenon
      <4> QED  BY <4>2, <4>3, Zenon
    <3> QED  BY <3>1, <3>2, <3>3, Zenon
  <2> QED  BY <1>1, <1>2, <1>3, <1>6, <1>7, <2>1, <2>2, Zenon DEF Followed, InOrder
<1>9. Truthful'
  <2>1. ASSUME NEW k \in 1 .. l - 1, \A j \in k + 1 .. l - 1 : lag'[j].offer # lag'[k].offer
        PROVE  lag'[k].status = "pending" <=> offers[lag'[k].offer].state = "active"
    <3>1. k + 1 \in 1 .. l /\ lag'[k] = lag[k + 1]
      BY <1>2, <1>3
    <3>2. \A j \in (k + 1) + 1 .. l : lag[j].offer # lag[k + 1].offer
      <4> SUFFICES ASSUME NEW j \in (k + 1) + 1 .. l PROVE lag[j].offer # lag[k + 1].offer
        BY Zenon
      <4>0. j - 1 \in k + 1 .. l - 1 /\ j \in 2 .. l
        BY <1>2
      <4>1. j - 1 \in k + 1 .. l - 1 /\ lag'[j - 1] = lag[j]
        BY <1>31, <4>0, Zenon
      <4> QED  BY <2>1, <3>1, <4>1, Zenon
    <3>3. lag[k + 1].status = "pending" <=> offers[lag[k + 1].offer].state = "active"
      BY <1>2, <3>1, <3>2, Zenon DEF Followed, Truthful
    <3> QED  BY <3>1, <3>3, Zenon
  <2>2. ASSUME NEW o \in 1 .. v, \A j \in 1 .. l - 1 : lag'[j].offer # o
        PROVE  view'[o] = "pending" <=> offers[o].state = "active"
    <3>1. \A j \in 2 .. l : lag[j].offer # o
      <4> SUFFICES ASSUME NEW j \in 2 .. l PROVE lag[j].offer # o
        BY Zenon
      <4>0. j - 1 \in 1 .. l - 1
        BY <1>2
      <4>1. j - 1 \in 1 .. l - 1 /\ lag'[j - 1] = lag[j]
        BY <1>31, <4>0, Zenon
      <4> QED  BY <2>2, <4>1, Zenon
    <3>2. CASE o = h
      <4>1. 1 \in 1 .. l /\ 1 + 1 = 2
        BY <1>2
      <4>2. \A j \in 1 + 1 .. l : lag[j].offer # lag[1].offer
        BY <1>4, <3>1, <3>2, <4>1, Zenon
      <4>3. lag[1].status = "pending" <=> offers[lag[1].offer].state = "active"
        BY <1>2, <4>1, <4>2, Zenon DEF Followed, Truthful
      <4> QED  BY <1>4, <1>6, <3>2, <4>3, Zenon
    <3>3. CASE o # h
      <4>1. o \in 1 .. m /\ view'[o] = view[o]
        BY <1>6, <1>7, <3>3, Zenon
      <4>2. \A j \in 1 .. l : j = 1 \/ j \in 2 .. l
        BY <1>2
      <4>3. \A j \in 1 .. l : lag[j].offer # o
        BY <1>4, <3>1, <3>3, <4>2, Zenon
      <4> QED  BY <1>2, <4>1, <4>3, Zenon DEF Followed, Truthful
    <3> QED  BY <3>2, <3>3, Zenon
  <2>3. Len(lag') = l - 1 /\ Len(view') = v /\ offers' = offers
    BY <1>1, <1>3, <1>6, Zenon
  <2>4. \A k \in 1 .. l - 1 :
          (\A j \in k + 1 .. l - 1 : lag'[j].offer # lag'[k].offer) =>
              (lag'[k].status = "pending" <=> offers[lag'[k].offer].state = "active")
    BY <2>1, Zenon
  <2>5. \A o \in 1 .. v :
          (\A j \in 1 .. l - 1 : lag'[j].offer # o) =>
              (view'[o] = "pending" <=> offers[o].state = "active")
    BY <2>2, Zenon
  <2> QED  BY <2>3, <2>4, <2>5, Zenon DEF Truthful
<1> QED  BY <1>8, <1>9, Zenon DEF Followed

LEMMA NextFollowed ==
    ASSUME Followed, [TransfersNext]_transfersVars
    PROVE  Followed'
<1>1. CASE UNCHANGED ledger
  BY <1>1, Zenon DEF ledger, Followed, InOrder, Truthful
<1>2. CASE LedgerSteps
  BY <1>2, LapseFollowed, SeesFollowed, Zenon DEF LedgerSteps
<1>3. CASE SendCustodial \/ StrangerOffers
  BY <1>3, CreateFollowed, Zenon DEF SendCustodial, StrangerOffers
<1>4. \A state \in {"completed", "canceled", "rejected"} : state \notin {"pending", "active"}
  OBVIOUS
<1>5. CASE WithdrawCustodial \/ StrangerSettles \/ WorkerAccepts
  <2>1. \E o \in DOMAIN offers, state \in {"completed", "canceled", "rejected"} : SettleOffer(o, state)
    BY <1>5, Zenon DEF WithdrawCustodial, StrangerSettles, WorkerAccepts, Acceptable, Active
  <2> QED  BY <1>4, <2>1, SettleFollowed, Zenon
<1>6. CASE ExecuteSubmit
  <2>1. PICK c \in Clients : \E pt \in running[c] : (Executable(pt) /\ Execution(pt)) \/ UNCHANGED ledger
    BY <1>6, Zenon DEF ExecuteSubmit
  <2>2. PICK pt \in running[c] : (Executable(pt) /\ Execution(pt)) \/ UNCHANGED ledger
    BY <2>1, Zenon
  <2>3. CASE pt.kind = "transfer" /\ CreateOffer(pt.inputs, pt.party, pt.to, pt.amount, TRUE)
    BY <2>3, CreateFollowed, Zenon
  <2>4. CASE pt.kind = "accept" /\ Executable(pt) /\ SettleOffer(pt.offer, "completed")
    <3>1. pt.offer \in DOMAIN offers
      BY <2>4 DEF Executable, Acceptable, Active
    <3> QED  BY <1>4, <2>4, <3>1, SettleFollowed, Zenon
  <2>5. CASE pt.kind = "withdraw" /\ Executable(pt) /\ SettleOffer(pt.offer, "canceled")
    <3>1. pt.offer \in DOMAIN offers
      BY <2>5 DEF Executable, Active
    <3> QED  BY <1>4, <2>5, <3>1, SettleFollowed, Zenon
  <2> QED  BY <1>1, <2>2, <2>3, <2>4, <2>5, Zenon DEF Execution
<1>7. \/ UNCHANGED ledger \/ LedgerSteps \/ SendCustodial \/ StrangerOffers \/ WithdrawCustodial
      \/ StrangerSettles \/ WorkerAccepts \/ ExecuteSubmit
  BY Zenon DEF TransfersNext, transfersVars, Prepare, PrepareAccept, PrepareWithdraw, PutPrepared,
     ExecuteTake, CacheAges, Cleanup, Register, WorkerTick, WorkerFetch, WorkerFetchFails,
     WorkerSkips, WorkerPageEnds
<1> QED  BY <1>1, <1>2, <1>3, <1>5, <1>6, <1>7, Zenon

\* However far the indexer lags behind and whatever is sent, settled or lapses
\* meanwhile, once it has applied all that happened to an offer the sender can claim
\* the amount back exactly as long as the ledger holds the offer (claimableTransfer).
THEOREM ClaimsMatchLedger == TransfersSpec => []ClaimableWhileActive
<1>1. Followed => ClaimableWhileActive
  <2> SUFFICES ASSUME Followed, NEW o \in DOMAIN offers, \A k \in DOMAIN lag : lag[k].offer # o
               PROVE  Claimable(offers[o].from, o) <=> Active(o)
    BY Zenon DEF ClaimableWhileActive
  <2>1. /\ DOMAIN offers = 1 .. Len(offers) /\ DOMAIN lag = 1 .. Len(lag)
        /\ DOMAIN view = 1 .. Len(view) /\ Len(view) \in Nat /\ Len(offers) \in Nat
    BY DEF Followed, InOrder, IsSequence
  <2>2. o <= Len(view)
    BY <2>1, Zenon DEF Followed, InOrder
  <2>3. o \in 1 .. Len(view)
    BY <2>1, <2>2
  <2>4. view[o] = "pending" <=> offers[o].state = "active"
    BY <2>1, <2>3, Zenon DEF Followed, Truthful
  <2> QED  BY <2>1, <2>3, <2>4, Zenon DEF Claimable, Active
<1> QED  BY <1>1, InitFollowed, NextFollowed, PTL DEF TransfersSpec

-----------------------------------------------------------------------------
(* The bound of the cache and the page of the accept worker. *)

CacheBounded == IsFiniteSet(cache) /\ (MaxSize > 0 => Cardinality(cache) <= MaxSize)

\* One entry fits in a cache that is not full.
LEMMA PutBounded ==
    ASSUME CacheBounded, CanPut(cache), NEW pt, cache' = cache \cup {pt}
    PROVE  CacheBounded'
<1>1. Cardinality(cache) \in Nat /\ (MaxSize > 0 => Cardinality(cache) < MaxSize)
  BY FS_CardinalityType, Zenon DEF CacheBounded, CanPut
<1>2. IsFiniteSet(cache') /\ Cardinality(cache') <= Cardinality(cache) + 1 /\ Cardinality(cache') \in Int
  BY <1>1, FS_AddElement DEF CacheBounded
<1> QED  BY <1>1, <1>2, CacheAssumption DEF CacheBounded

LEMMA FewerBounded ==
    ASSUME CacheBounded, cache' \subseteq cache PROVE CacheBounded'
<1>1. IsFiniteSet(cache') /\ Cardinality(cache') <= Cardinality(cache)
  BY FS_Subset, Zenon DEF CacheBounded
<1>2. Cardinality(cache') \in Nat /\ Cardinality(cache) \in Nat
  BY <1>1, FS_CardinalityType, Zenon DEF CacheBounded
<1> QED  BY <1>1, <1>2, CacheAssumption DEF CacheBounded

\* Expiry changes entries one by one.
LEMMA AgesBounded ==
    ASSUME CacheBounded, CacheAges PROVE CacheBounded'
<1> DEFINE F(pt) == IF ~pt.old /\ \A x \in cache : ~x.old => x.id >= pt.id
                    THEN [pt EXCEPT !.old = TRUE] ELSE pt
           f == [pt \in cache |-> F(pt)]
<1>1. cache' = {F(pt) : pt \in cache}
  BY Zenon DEF CacheAges, Aged
<1> HIDE DEF F
<1>2. f \in Surjection(cache, cache')
  BY <1>1, Zenon DEF Surjection
<1>3. IsFiniteSet(cache') /\ Cardinality(cache') <= Cardinality(cache)
  BY <1>2, FS_Surjection, Zenon DEF CacheBounded
<1>4. Cardinality(cache') \in Nat /\ Cardinality(cache) \in Nat
  BY <1>3, FS_CardinalityType, Zenon DEF CacheBounded
<1> QED  BY <1>3, <1>4, CacheAssumption DEF CacheBounded

\* The places of the offers of a page are different.
LEMMA PlacesDiffer ==
    ASSUME NEW P, NEW n \in Nat, P \subseteq 1 .. n, NEW a \in P, NEW b \in P, a < b
    PROVE  /\ Cardinality({x \in P : x <= a}) \in Nat
           /\ Cardinality({x \in P : x <= a}) # Cardinality({x \in P : x <= b})
<1> DEFINE A == {x \in P : x <= a}
           B == {x \in P : x <= b}
<1>1. \A x \in P : x \in Int
  OBVIOUS
<1>2. A \subseteq B /\ b \in B /\ b \notin A /\ B \subseteq 1 .. n
  <2>1. a \in Int /\ b \in Int
    BY <1>1, Zenon
  <2>2. \A x \in P : x <= a => x <= b
    BY <1>1, <2>1
  <2>3. b <= b /\ ~(b <= a)
    BY <2>1
  <2> QED  BY <2>2, <2>3, Zenon
<1>3. IsFiniteSet(1 .. n)
  BY FS_Interval
<1> HIDE DEF A, B
<1>4. IsFiniteSet(B)
  BY <1>2, <1>3, FS_Subset, Zenon
<1>5. IsFiniteSet(A) /\ (Cardinality(A) = Cardinality(B) => A = B)
  BY <1>2, <1>4, FS_Subset, Zenon
<1>6. Cardinality(A) \in Nat /\ Cardinality(A) # Cardinality(B)
  BY <1>2, <1>5, FS_CardinalityType, Zenon
<1> QED  BY <1>6, Zenon DEF A, B

\* A set of offers whose places lie in a window is no larger than the window.
LEMMA WindowBounds ==
    ASSUME NEW P, NEW n \in Nat, P \subseteq 1 .. n, NEW items, items \subseteq P,
           NEW low \in Nat, NEW size \in Nat \ {0},
           \A o \in items : /\ Cardinality({x \in P : x <= o}) > low
                            /\ Cardinality({x \in P : x <= o}) <= low + size
    PROVE  IsFiniteSet(items) /\ Cardinality(items) <= size
<1> DEFINE R(o) == Cardinality({x \in P : x <= o})
           f == [o \in items |-> R(o)]
<1>1. \A a, b \in items : a < b => R(a) # R(b)
  BY PlacesDiffer, Zenon
<1>2. \A o \in items : R(o) \in Nat
  <2> SUFFICES ASSUME NEW o \in items PROVE R(o) \in Nat
    BY Zenon
  <2>1. {x \in P : x <= o} \subseteq 1 .. n
    BY Zenon
  <2>2. IsFiniteSet({x \in P : x <= o})
    BY <2>1, FS_Interval, FS_Subset
  <2> QED  BY <2>2, FS_CardinalityType, Zenon
<1>3. \A o \in items : R(o) > low /\ R(o) <= low + size
  BY Zenon
<1>4. \A o \in items : o \in Int
  OBVIOUS
<1> HIDE DEF R
<1>5. f \in [items -> low + 1 .. low + size]
  BY <1>2, <1>3
<1>6. \A a, b \in items : f[a] = f[b] => a = b
  BY <1>1, <1>4
<1> HIDE DEF f
<1>7. f \in Injection(items, low + 1 .. low + size)
  BY <1>5, <1>6, Zenon DEF Injection, IsInjective
<1>8. IsFiniteSet(low + 1 .. low + size) /\ Cardinality(low + 1 .. low + size) = size
  <2>1. PICK lo \in Int, hi \in Int : lo = low + 1 /\ hi = low + size
    OBVIOUS
  <2>2. IsFiniteSet(lo .. hi) /\ Cardinality(lo .. hi) = IF lo > hi THEN 0 ELSE hi - lo + 1
    BY FS_Interval, Zenon
  <2>3. ~(lo > hi) /\ hi - lo + 1 = size
    BY <2>1
  <2> QED  BY <2>1, <2>2, <2>3, Zenon
<1>9. IsFiniteSet(items)
  <2>1. IsFiniteSet(1 .. n)
    BY FS_Interval
  <2>2. items \subseteq 1 .. n
    BY Zenon
  <2> QED  BY <2>1, <2>2, FS_Subset, Zenon
<1>10. Cardinality(items) <= Cardinality(low + 1 .. low + size)
  BY <1>7, <1>8, <1>9, FS_Injection, Zenon
<1> QED  BY <1>8, <1>9, <1>10, Zenon

LEMMA PageBounded ==
    ASSUME NEW n \in Nat, DOMAIN view = 1 .. n, NEW page \in Nat \ {0}
    PROVE  /\ PageOf(page, PageLimit) \subseteq DOMAIN view
           /\ IsFiniteSet(PageOf(page, PageLimit))
           /\ Cardinality(PageOf(page, PageLimit)) <= PageLimit
<1>1. PendingOffers \subseteq 1 .. n /\ PageOf(page, PageLimit) \subseteq PendingOffers
  BY Zenon DEF PendingOffers, PageOf
<1>2. PICK low \in Nat : low = (page - 1) * PageLimit /\ low + PageLimit = page * PageLimit
  BY TransfersAssumption
<1>3. \A o \in PageOf(page, PageLimit) :
         /\ Cardinality({x \in PendingOffers : x <= o}) > low
         /\ Cardinality({x \in PendingOffers : x <= o}) <= low + PageLimit
  BY <1>2, Zenon DEF PageOf, PlaceOf
<1> HIDE DEF PageOf, PendingOffers
<1>4. PICK items, P : items = PageOf(page, PageLimit) /\ P = PendingOffers
  BY Zenon
<1>5. /\ P \subseteq 1 .. n /\ items \subseteq P
      /\ \A o \in items : /\ Cardinality({x \in P : x <= o}) > low
                          /\ Cardinality({x \in P : x <= o}) <= low + PageLimit
  BY <1>1, <1>3, <1>4, Zenon
<1>6. IsFiniteSet(items) /\ Cardinality(items) <= PageLimit
  BY <1>5, WindowBounds, TransfersAssumption, Zenon
<1> QED  BY <1>1, <1>4, <1>6, Zenon

-----------------------------------------------------------------------------

\* The indexer numbers the offers it has seen from 1 on.
ViewIsSequence == \E S : view \in Seq(S)

LEMMA SeesKeepsSequence ==
    ASSUME ViewIsSequence, IndexerSees
    PROVE  ViewIsSequence' /\ DOMAIN view \subseteq DOMAIN view'
<1>1. PICK S : view \in Seq(S)
  BY Zenon DEF ViewIsSequence
<1>2. PICK s, o : view' = Append(view, s) \/ view' = [view EXCEPT ![o] = s]
  BY Zenon DEF IndexerSees
<1>3. PICK n \in Nat : n = Len(view) /\ DOMAIN view = 1 .. n /\ view \in [1 .. n -> S]
  BY <1>1
<1>4. CASE view' = Append(view, s)
  <2>1. view \in Seq(S \cup {s})
    BY <1>1
  <2>2. view' \in Seq(S \cup {s}) /\ DOMAIN view' = 1 .. n + 1
    BY <1>3, <1>4, <2>1
  <2>3. DOMAIN view \subseteq DOMAIN view'
    BY <1>3, <2>2
  <2> QED  BY <2>2, <2>3, Zenon DEF ViewIsSequence
<1>5. CASE view' = [view EXCEPT ![o] = s]
  <2>1. view' \in [1 .. n -> S \cup {s}] /\ DOMAIN view' = DOMAIN view
    BY <1>3, <1>5, Zenon
  <2>2. view' \in Seq(S \cup {s})
    BY <2>1
  <2> QED  BY <2>1, <2>2, Zenon DEF ViewIsSequence
<1> QED  BY <1>2, <1>4, <1>5, Zenon

\* The page the worker has in hand is one of offers the indexer has seen.
PageHeld ==
    /\ ViewIsSequence
    /\ DOMAIN worker = {"phase", "users", "page", "items", "total"}
    /\ worker.phase # "idle" => worker.page \in Nat \ {0}
    /\ worker.items \subseteq DOMAIN view
    /\ IsFiniteSet(worker.items) /\ Cardinality(worker.items) <= PageLimit

LEMMA IdleHolds ==
    ASSUME ViewIsSequence', worker' = IdleWorker
    PROVE  PageHeld'
<1>1. /\ DOMAIN IdleWorker = {"phase", "users", "page", "items", "total"}
      /\ IdleWorker.phase = "idle" /\ IdleWorker.items = {}
  BY Zenon DEF IdleWorker
<1>2. IsFiniteSet({}) /\ Cardinality({}) <= PageLimit
  BY FS_EmptySet, TransfersAssumption
<1> QED  BY <1>1, <1>2, Zenon DEF PageHeld

LEMMA SeesKeepsPage ==
    ASSUME PageHeld, IndexerSees, UNCHANGED worker
    PROVE  PageHeld'
<1>1. ViewIsSequence' /\ DOMAIN view \subseteq DOMAIN view'
  BY SeesKeepsSequence, Zenon DEF PageHeld
<1> QED  BY <1>1, Zenon DEF PageHeld

\* The items left are fewer.
LEMMA NextItemKeepsPage ==
    ASSUME PageHeld, NEW o \in worker.items, NextItem(o), UNCHANGED view
    PROVE  PageHeld'
<1>1. /\ DOMAIN worker' = DOMAIN worker /\ worker'.phase = worker.phase
      /\ worker'.page = worker.page /\ worker'.items = worker.items \ {o}
  <2>1. DOMAIN worker = {"phase", "users", "page", "items", "total"}
    BY Zenon DEF PageHeld
  <2> QED  BY <2>1, Zenon DEF NextItem
<1>2. IsFiniteSet(worker'.items) /\ Cardinality(worker'.items) = Cardinality(worker.items) - 1
  BY <1>1, FS_RemoveElement DEF PageHeld
<1>3. Cardinality(worker'.items) <= PageLimit
  BY <1>2, FS_CardinalityType, TransfersAssumption DEF PageHeld
<1> QED  BY <1>1, <1>2, <1>3, Zenon DEF PageHeld, ViewIsSequence

\* ListPendingTransfers answers with a page at most.
LEMMA FetchKeepsPage ==
    ASSUME PageHeld, WorkerFetch
    PROVE  PageHeld'
<1>1. /\ DOMAIN worker' = DOMAIN worker /\ worker'.page = worker.page
      /\ worker'.items = PageOf(worker.page, PageLimit)
      /\ view' = view /\ worker.phase = "fetch"
  BY Zenon DEF WorkerFetch, PageHeld, ledger
<1>2. PICK n \in Nat : DOMAIN view = 1 .. n
  BY DEF PageHeld, ViewIsSequence
<1>3. worker.page \in Nat \ {0}
  BY <1>1, Zenon DEF PageHeld
<1>4. /\ PageOf(worker.page, PageLimit) \subseteq DOMAIN view
      /\ IsFiniteSet(PageOf(worker.page, PageLimit))
      /\ Cardinality(PageOf(worker.page, PageLimit)) <= PageLimit
  BY <1>2, <1>3, PageBounded, Zenon
<1>5. ViewIsSequence'
  BY <1>1, Zenon DEF PageHeld, ViewIsSequence
<1> QED  BY <1>1, <1>3, <1>4, <1>5, Zenon DEF PageHeld

LEMMA TickKeepsPage ==
    ASSUME PageHeld, WorkerTick
    PROVE  PageHeld'
<1>1. /\ DOMAIN worker' = {"phase", "users", "page", "items", "total"}
      /\ worker'.page = 1 /\ worker'.items = {} /\ view' = view
  BY Zenon DEF WorkerTick, IdleWorker, ledger
<1>2. IsFiniteSet({}) /\ Cardinality({}) <= PageLimit
  BY FS_EmptySet, TransfersAssumption
<1> QED  BY <1>1, <1>2 DEF PageHeld, ViewIsSequence

LEMMA PageEndsKeepsPage ==
    ASSUME PageHeld, WorkerPageEnds
    PROVE  PageHeld'
<1>1. view' = view /\ worker.phase = "page" /\ worker.page \in Nat \ {0} /\ ViewIsSequence'
  BY Zenon DEF WorkerPageEnds, PageHeld, ledger, ViewIsSequence
<1>2. CASE worker' = IdleWorker
  BY <1>1, <1>2, IdleHolds, Zenon
<1>3. CASE worker' = [worker EXCEPT !.phase = "fetch", !.page = @ + 1]
  <2>1. /\ DOMAIN worker' = DOMAIN worker /\ worker'.items = worker.items
        /\ worker'.page = worker.page + 1
    BY <1>3, Zenon DEF PageHeld
  <2> QED  BY <1>1, <2>1 DEF PageHeld
<1> QED  BY <1>2, <1>3, Zenon DEF WorkerPageEnds, NextPage

LEMMA CacheStaysBounded ==
    ASSUME CacheBounded, [TransfersNext]_transfersVars
    PROVE  CacheBounded'
<1>1. CASE Prepare \/ PrepareAccept \/ PrepareWithdraw
  <2>1. CanPut(cache) /\ \E pt : cache' = cache \cup {pt}
    BY <1>1, Zenon DEF Prepare, PrepareAccept, PrepareWithdraw, PutPrepared, Put
  <2> QED  BY <2>1, PutBounded, Zenon
<1>2. CASE ExecuteTake
  BY <1>2, FewerBounded, Zenon DEF ExecuteTake, AfterTake
<1>3. CASE Cleanup
  BY <1>3, FewerBounded, Zenon DEF Cleanup, Cleaned
<1>4. CASE UNCHANGED cache
  BY <1>4, FewerBounded, Zenon
<1>5. UNCHANGED cache \/ Prepare \/ PrepareAccept \/ PrepareWithdraw \/ ExecuteTake \/ CacheAges \/ Cleanup
  BY Zenon DEF TransfersNext, transfersVars, service, ExecuteSubmit, SendCustodial, WithdrawCustodial,
     StrangerOffers, StrangerSettles, Register, LedgerSteps, WorkerTick, WorkerFetch,
     WorkerFetchFails, WorkerAccepts, WorkerSkips, WorkerPageEnds
<1> QED  BY <1>1, <1>2, <1>3, <1>4, <1>5, AgesBounded, Zenon

LEMMA PageStaysHeld ==
    ASSUME PageHeld, [TransfersNext]_transfersVars
    PROVE  PageHeld'
<1>1. CASE UNCHANGED <<view, worker>>
  BY <1>1, Zenon DEF PageHeld, ViewIsSequence
<1>2. CASE WorkerAccepts \/ WorkerSkips
  <2>1. UNCHANGED view /\ \E o \in worker.items : NextItem(o)
    BY <1>2, Zenon DEF WorkerAccepts, WorkerSkips, SettleOffer, ledger
  <2> QED  BY <2>1, NextItemKeepsPage, Zenon
<1>3. CASE WorkerFetchFails
  <2>1. worker' = IdleWorker /\ view' = view
    BY <1>3, Zenon DEF WorkerFetchFails, ledger
  <2> QED  BY <2>1, IdleHolds, Zenon DEF PageHeld, ViewIsSequence
<1>4. CASE LedgerSteps
  <2>1. UNCHANGED worker /\ (UNCHANGED view \/ IndexerSees)
    BY <1>4, Zenon DEF LedgerSteps, OfferLapses
  <2> QED  BY <1>1, <2>1, SeesKeepsPage, Zenon
<1>5. \/ UNCHANGED <<view, worker>> \/ LedgerSteps \/ WorkerTick \/ WorkerFetch
      \/ WorkerFetchFails \/ WorkerAccepts \/ WorkerSkips \/ WorkerPageEnds
  <2>1. CASE ExecuteSubmit
    <3>1. PICK c \in Clients : \E pt \in running[c] :
            ((Executable(pt) /\ Execution(pt)) \/ UNCHANGED ledger) /\ worker' = worker
      BY <2>1, Zenon DEF ExecuteSubmit
    <3>2. view' = view
      BY <3>1, Zenon DEF Execution, CreateOffer, SettleOffer, ledger
    <3> QED  BY <3>1, <3>2, Zenon
  <2> QED
    BY <2>1, Zenon DEF TransfersNext, transfersVars, service, ledger, Prepare, PrepareAccept, PrepareWithdraw,
       PutPrepared, ExecuteTake, CacheAges, Cleanup, SendCustodial, WithdrawCustodial,
       StrangerOffers, StrangerSettles, Register, CreateOffer, SettleOffer
<1> QED  BY <1>1, <1>2, <1>3, <1>4, <1>5, TickKeepsPage, FetchKeepsPage, PageEndsKeepsPage, Zenon

\* The cache never holds more than maxSize entries, if that is not 0, and never two with one id, and
\* the page of the accept worker is never longer than acceptWorkerPageLimit and never
\* names an offer the indexer has not seen, whatever the sizes are (Put, acceptPending).
THEOREM CacheAndPageBounded == TransfersSpec => []TransfersTypeOK
<1>1. TransfersInit => CacheBounded /\ PageHeld
  <2> SUFFICES ASSUME TransfersInit PROVE CacheBounded /\ PageHeld
    BY Zenon
  <2>1. /\ DOMAIN IdleWorker = {"phase", "users", "page", "items", "total"}
        /\ IdleWorker.phase = "idle" /\ IdleWorker.items = {}
    BY Zenon DEF IdleWorker
  <2>2. IsFiniteSet({}) /\ Cardinality({}) <= PageLimit /\ Cardinality({}) <= MaxSize
    BY FS_EmptySet, TransfersAssumption, CacheAssumption
  <2>3. worker = IdleWorker /\ cache = {} /\ view = <<>>
    BY Zenon DEF TransfersInit, LedgerInit
  <2>4. ViewIsSequence
    BY <2>3 DEF ViewIsSequence
  <2> QED  BY <2>1, <2>2, <2>3, <2>4, Zenon DEF CacheBounded, PageHeld
<1>2. CacheBounded /\ PageHeld /\ InOnePlace => TransfersTypeOK
  BY Zenon DEF CacheBounded, PageHeld, InOnePlace, TransfersTypeOK
<1> QED
  BY <1>1, <1>2, CacheStaysBounded, PageStaysHeld, InitInOnePlace, InOnePlaceNext, PTL DEF TransfersSpec
=============================================================================
