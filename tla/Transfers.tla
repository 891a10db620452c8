----------------------------- MODULE Transfers -----------------------------
(***************************************************************************)
(* The transfer service (pkg/transfer/service.go), the token client calls  *)
(* it makes (pkg/cantonsdk/token/client.go) and the custodial accept       *)
(* worker (pkg/custodial/accept_worker.go), over a ledger of holdings and  *)
(* offers and an indexer that lags behind it.                              *)
(*                                                                         *)
(* A request that is turned down before it changes anything (unknown user, *)
(* wrong key mode, unsupported token, a transfer to self, a dependency     *)
(* that fails) is a stuttering step.                                       *)
(***************************************************************************)
EXTENDS OfferLedger, PreparedCache

CONSTANTS
    Custodial,      \* parties of users with key_mode custodial
    External,       \* parties of users with key_mode external
    Joining,        \* custodial parties that may register later
    Strangers,      \* parties that are not users
    Amounts,        \* amounts of a transfer
    Clients,        \* concurrent Execute requests
    PageLimit,      \* acceptWorkerPageLimit
    MaxPrepared     \* bound on prepared transfers

ASSUME TransfersAssumption == PageLimit \in Nat \ {0}

Parties == Custodial \cup External \cup Joining \cup Strangers

VARIABLES
    custodial,  \* the custodial users in the user store
    cache,      \* prepared transfers
    prepared,   \* number of transfers prepared so far (the next TransferID)
    running,    \* client -> the transfers its Execute request has in hand, {} or one
    submitted,  \* transfers handed to the ledger, one record per submission
    worker      \* the accept worker: [phase, users, page, items, total]

service == <<cache, prepared, running, submitted>>
transfersVars == <<ledger, custodial, service, worker>>

IdleWorker == [phase |-> "idle", users |-> {}, page |-> 0, items |-> {}, total |-> 0]

TransfersInit ==
    /\ LedgerInit
    /\ custodial = Custodial
    /\ cache = {} /\ prepared = 0
    /\ running = [c \in Clients |-> {}]
    /\ submitted = {}
    /\ worker = IdleWorker

----------------------------------------------------------------------------
(* Preparing a transaction for the sender to sign.                         *)
----------------------------------------------------------------------------

\* selectHoldingsForTransfer adds up unlocked holdings, in whatever order the
\* ledger lists them, until they cover the amount.
Selections(p, amount) ==
    {hs \in SUBSET {h \in holdings : h.owner = p /\ ~h.locked} :
        Worth(hs) >= amount /\ \E h \in hs : Worth(hs \ {h}) < amount}

\* The transaction is put in the cache under a new id.
PutPrepared(kind, p, inputs, offer, to, amount) ==
    /\ prepared < MaxPrepared
    /\ CanPut(cache)
    /\ prepared' = prepared + 1
    /\ cache' = Put(cache, [id |-> prepared + 1, kind |-> kind, party |-> p, inputs |-> inputs,
                            offer |-> offer, to |-> to, amount |-> amount, old |-> FALSE])
    /\ UNCHANGED <<ledger, custodial, running, submitted, worker>>

Prepare ==
    \E p \in External, to \in Parties, amount \in Amounts : \E inputs \in Selections(p, amount) :
        /\ to # p
        /\ PutPrepared("transfer", p, inputs, 0, to, amount)

PrepareAccept ==
    \E p \in External, o \in DOMAIN offers :
        /\ offers[o].to = p /\ offers[o].supported /\ Acceptable(o)
        /\ PutPrepared("accept", p, {}, o, p, 0)

PrepareWithdraw ==
    \E p \in External, o \in DOMAIN offers :
        /\ Claimable(p, o)
        /\ offers[o].supported /\ Active(o)
        /\ PutPrepared("withdraw", p, {}, o, p, 0)

----------------------------------------------------------------------------
(* Executing it with the signature.                                        *)
----------------------------------------------------------------------------

\* GetAndDelete; a signature that is not hexadecimal ends the request after it.
ExecuteTake ==
    \E c \in Clients, id \in 1 .. prepared :
        /\ running[c] = {}
        /\ Cached(cache, id) # {}
        /\ cache' = AfterTake(cache, id)
        /\ \E pts \in {{}, Taken(cache, id)} : running' = [running EXCEPT ![c] = pts]
        /\ UNCHANGED <<ledger, custodial, prepared, submitted, worker>>

\* The ledger can execute the transaction (external).
Executable(pt) ==
    CASE pt.kind = "transfer" -> pt.inputs \subseteq holdings /\ Len(offers) < MaxOffers
                                 /\ \A h \in pt.inputs : ~h.locked
      [] pt.kind = "accept" -> Acceptable(pt.offer)
      [] pt.kind = "withdraw" -> Active(pt.offer)

Execution(pt) ==
    \/ pt.kind = "transfer" /\ CreateOffer(pt.inputs, pt.party, pt.to, pt.amount, TRUE)
    \/ pt.kind = "accept" /\ SettleOffer(pt.offer, "completed")
    \/ pt.kind = "withdraw" /\ SettleOffer(pt.offer, "canceled")

\* ExecuteTransfer: the ledger executes the transaction, whether or not its
\* answer arrives, or refuses it.
ExecuteSubmit ==
    \E c \in Clients : \E pt \in running[c] :
        /\ running' = [running EXCEPT ![c] = {}]
        /\ submitted' = submitted \cup {[id |-> pt.id, by |-> c, old |-> pt.old]}
        /\ \/ Executable(pt) /\ Execution(pt)
           \/ UNCHANGED ledger
        /\ UNCHANGED <<custodial, cache, prepared, worker>>

\* Time passes for the cache, and its background goroutine ticks.
CacheAges ==
    /\ Aged(cache) # cache
    /\ cache' = Aged(cache)
    /\ UNCHANGED <<ledger, custodial, prepared, running, submitted, worker>>

Cleanup ==
    /\ cache' = Cleaned(cache)
    /\ UNCHANGED <<ledger, custodial, prepared, running, submitted, worker>>

----------------------------------------------------------------------------
(* Custodial users, whose keys the middleware holds, and other parties.    *)
----------------------------------------------------------------------------

\* A holding that was spent since it was selected makes the ledger refuse.
SendCustodial ==
    /\ Len(offers) < MaxOffers
    /\ \E p \in custodial, to \in Parties, amount \in Amounts : \E inputs \in Selections(p, amount) :
        to # p /\ CreateOffer(inputs, p, to, amount, TRUE)
    /\ UNCHANGED <<custodial, service, worker>>

WithdrawCustodial ==
    /\ \E p \in custodial, o \in DOMAIN offers :
        Claimable(p, o) /\ offers[o].supported /\ Active(o) /\ SettleOffer(o, "canceled")
    /\ UNCHANGED <<custodial, service, worker>>

\* A party that uses another service offers a holding, of an issuer the
\* configuration knows or not, or settles an offer (external).
StrangerOffers ==
    /\ Len(offers) < MaxOffers
    /\ \E p \in Strangers, to \in Parties \ Strangers, supported \in BOOLEAN :
        \E h \in {x \in holdings : x.owner = p /\ ~x.locked} :
            CreateOffer({h}, p, to, h.amount, supported)
    /\ UNCHANGED <<custodial, service, worker>>

StrangerSettles ==
    /\ \E o \in DOMAIN offers :
        \/ offers[o].from \in Strangers /\ Active(o) /\ SettleOffer(o, "canceled")
        \/ offers[o].to \in Strangers /\ Acceptable(o) /\ SettleOffer(o, "completed")
        \/ offers[o].to \in Strangers /\ Active(o) /\ SettleOffer(o, "rejected")
    /\ UNCHANGED <<custodial, service, worker>>

Register ==
    /\ \E p \in Joining \ custodial : custodial' = custodial \cup {p}
    /\ UNCHANGED <<ledger, service, worker>>

LedgerSteps ==
    /\ OfferLapses \/ IndexerSees
    /\ UNCHANGED <<custodial, service, worker>>

----------------------------------------------------------------------------
(* The accept worker: acceptPending, on every tick.                        *)
----------------------------------------------------------------------------

\* The custodial users are listed once per cycle; without any it ends.
WorkerTick ==
    /\ worker.phase = "idle" /\ custodial # {}
    /\ worker' = [IdleWorker EXCEPT !.phase = "fetch", !.users = custodial, !.page = 1]
    /\ UNCHANGED <<ledger, custodial, service>>

\* A page of the pending transfers, and their number.
WorkerFetch ==
    /\ worker.phase = "fetch"
    /\ worker' = [worker EXCEPT !.phase = "page", !.total = Cardinality(PendingOffers),
                                !.items = PageOf(worker.page, PageLimit)]
    /\ UNCHANGED <<ledger, custodial, service>>

WorkerFetchFails ==
    /\ worker.phase = "fetch"
    /\ worker' = IdleWorker
    /\ UNCHANGED <<ledger, custodial, service>>

\* The items of the page are taken oldest first.
IsNext(o) == o \in worker.items /\ \A x \in worker.items : o <= x
NextItem(o) == worker' = [worker EXCEPT !.items = @ \ {o}]

\* AcceptTransferInstruction exercises the choice.
WorkerAccepts ==
    /\ worker.phase = "page"
    /\ \E o \in worker.items :
        /\ IsNext(o)
        /\ offers[o].to \in worker.users
        /\ offers[o].supported /\ Acceptable(o)
        /\ SettleOffer(o, "completed")
        /\ NextItem(o)
    /\ UNCHANGED <<custodial, service>>

\* The offer is not for a custodial user, or accepting it fails: the next one.
WorkerSkips ==
    /\ worker.phase = "page"
    /\ \E o \in worker.items : IsNext(o) /\ NextItem(o)
    /\ UNCHANGED <<ledger, custodial, service>>

\* The cycle ends after the first page.
NextPageNaive == worker' = IdleWorker

\* The cycle ends when the pages cover the total that was reported.
NextPage ==
    worker' = IF worker.page * PageLimit >= worker.total THEN IdleWorker
              ELSE [worker EXCEPT !.phase = "fetch", !.page = @ + 1]

WorkerPageEnds ==
    /\ worker.phase = "page" /\ worker.items = {}
    /\ NextPage
    /\ UNCHANGED <<ledger, custodial, service>>

TransfersNext ==
    \/ Prepare \/ PrepareAccept \/ PrepareWithdraw
    \/ ExecuteTake \/ ExecuteSubmit \/ CacheAges \/ Cleanup
    \/ SendCustodial \/ WithdrawCustodial
    \/ StrangerOffers \/ StrangerSettles \/ Register \/ LedgerSteps
    \/ WorkerTick \/ WorkerFetch \/ WorkerFetchFails \/ WorkerAccepts \/ WorkerSkips
    \/ WorkerPageEnds

TransfersSpec == TransfersInit /\ [][TransfersNext]_transfersVars

(* Properties.                                                             *)

\* However many Execute requests name it, a prepared transaction is handed to
\* the ledger at most once (GetAndDelete under its mutex).
SubmittedOnce ==
    \A x, y \in submitted : x.id = y.id => x = y

\* No transaction is handed to the ledger that had expired when it was taken
\* from the cache (GetAndDelete, Put).
SubmittedInTime == \A x \in submitted : ~x.old

\* The amount of an offer is neither stuck nor claimed twice: once the indexer has
\* applied all that happened to the offer, its sender can claim it back exactly as
\* long as the ledger holds it, also when it has lapsed, which nobody can accept and
\* no list of pending transfers shows (claimableTransfer, GetTransfer).
ClaimableWhileActive ==
    \A o \in DOMAIN offers :
        (\A k \in DOMAIN lag : lag[k].offer # o) => (Claimable(offers[o].from, o) <=> Active(o))

\* What the cache and the worker hold is well formed: an id names one entry, the
\* cache respects its bound (Put), the worker's page is a page of offers the
\* indexer has seen (acceptPending).
TransfersTypeOK ==
    /\ MaxSize > 0 => Cardinality(cache) <= MaxSize
    /\ \A x, y \in cache : x.id = y.id => x = y
    /\ Cardinality(worker.items) <= PageLimit /\ worker.items \subseteq DOMAIN view

----------------------------------------------------------------------------
(* Liveness.  The ticker of the worker and of the cache tick and their       *)
(* goroutines run; the indexer catches up; the fetch of a page or the        *)
(* acceptance of an offer that is tried again and again succeeds.  Nobody    *)
(* has to send, withdraw or settle anything.                                 *)
----------------------------------------------------------------------------

TransfersFairness ==
    /\ WF_transfersVars(LedgerSteps /\ IndexerSees)
    /\ WF_transfersVars(WorkerTick)
    /\ \A n \in 1 .. MaxOffers :
        /\ SF_transfersVars(worker.page = n /\ WorkerFetch)
        /\ SF_transfersVars(IsNext(n) /\ WorkerAccepts)
    /\ WF_transfersVars(WorkerSkips) /\ WF_transfersVars(WorkerPageEnds)
    /\ WF_transfersVars(CacheAges) /\ WF_transfersVars(Cleanup)

TransfersLiveSpec == TransfersSpec /\ TransfersFairness

Waiting(o) == Acceptable(o) /\ offers[o].to \in custodial /\ offers[o].supported

\* Every offer to a custodial user of a supported issuer is accepted unless it is
\* settled otherwise or lapses, also when other offers that the worker can never
\* accept fill the first pages, when the user registers after the cycle began,
\* and when the list shrinks while it is paged (acceptPending).
EventuallyAccepted ==
    \A o \in 1 .. MaxOffers : Waiting(o) ~> ~Waiting(o)

\* A cache that is full has room again, though nobody executes what it holds
\* (cleanup).
EventuallyRoom == (~CanPut(cache)) ~> CanPut(cache)
=============================================================================
