--------------------------- MODULE PreparedCache ---------------------------
(***************************************************************************)
(* The in-memory cache of prepared transfers that await the signature of   *)
(* their sender (pkg/transfer/cache.go): entries [id, old, ...], where old *)
(* says that ExpiresAt has passed.                                         *)
(***************************************************************************)
EXTENDS Integers, FiniteSets

CONSTANT MaxSize    \* maxSize, 0 for a cache without a bound

ASSUME CacheAssumption == MaxSize \in Nat

\* One entry more than maxSize fits.
CanPutNaive(cache) == MaxSize > 0 => Cardinality(cache) <= MaxSize

\* Put refuses an entry when the cache is full, expired entries included.
CanPut(cache) == MaxSize > 0 => Cardinality(cache) < MaxSize

Put(cache, pt) == cache \cup {pt}

Cached(cache, id) == {pt \in cache : pt.id = id}

\* What GetAndDelete returns: nothing if the entry is missing or expired.
TakenNaive(cache, id) == Cached(cache, id)

Taken(cache, id) == {pt \in Cached(cache, id) : ~pt.old}

\* What GetAndDelete leaves: the entry is removed, expired or not.
AfterTakeNaive(cache, id) == cache

AfterTake(cache, id) == cache \ Cached(cache, id)

\* The tick of Start: cleanup removes the expired entries.
CleanedNaive(cache) == cache

Cleaned(cache) == {pt \in cache : ~pt.old}

\* All entries live equally long: the first put expires first.
Aged(cache) ==
    {IF ~pt.old /\ \A x \in cache : ~x.old => x.id >= pt.id THEN [pt EXCEPT !.old = TRUE] ELSE pt :
     pt \in cache}
=============================================================================
