------------------------- MODULE IndexerTableProofs -------------------------
(***************************************************************************)
(* Sums and counts: how a sum over the ledger grows by one transaction,    *)
(* that a balance that moves keeps the holder count of its token right, and*)
(* that the batch of the next transaction brings the tables to what they   *)
(* must hold then.                                                         *)
(***************************************************************************)
EXTENDS IndexerStoreProofs, FiniteSetTheorems

----------------------------------------------------------------------------
(* Sums over the ledger, counted unit by unit.                             *)
----------------------------------------------------------------------------

\* The units that Total counts.
Units(pairs) == UNION {{x[1]} \X (1 .. x[2]) : x \in pairs}

LEMMA InUnits ==
    ASSUME NEW S, NEW u
    PROVE  u \in Units(S) <=> \E x \in S : u \in {x[1]} \X (1 .. x[2])
  BY Zenon DEF Units

LEMMA UnitsFinite ==
    ASSUME NEW S, IsFiniteSet(S), \A x \in S : x[2] \in Nat
    PROVE  IsFiniteSet(Units(S)) /\ Total(S) \in Nat
<1> DEFINE f == [x \in S |-> {x[1]} \X (1 .. x[2])]
           T == {{x[1]} \X (1 .. x[2]) : x \in S}
<1>1. f \in Surjection(S, T)
  BY Zenon DEF Surjection
<1>2. IsFiniteSet(T)
  BY <1>1, FS_Surjection, Zenon
<1>3. ASSUME NEW x \in S PROVE IsFiniteSet({x[1]} \X (1 .. x[2]))
  <2>1. IsFiniteSet({x[1]})
    BY FS_Singleton, Zenon
  <2>2. IsFiniteSet(1 .. x[2])
    BY FS_Interval
  <2> QED  BY <2>1, <2>2, FS_Product, Zenon
<1>4. IsFiniteSet(UNION T)
  BY <1>2, <1>3, FS_UNION, Zenon
<1> QED  BY <1>4, FS_CardinalityType, Zenon DEF Units, Total

\* A pair with a new key adds its amount.
LEMMA TotalAdd ==
    ASSUME NEW S, IsFiniteSet(S), \A x \in S : x[2] \in Nat,
           NEW k, NEW a \in Nat, \A x \in S : x[1] # k
    PROVE  Total(S \cup {<<k, a>>}) = Total(S) + a
<1> DEFINE U == {k} \X (1 .. a)
<1>1. Units(S \cup {<<k, a>>}) = Units(S) \cup U
  <2>1. <<k, a>>[1] = k /\ <<k, a>>[2] = a
    BY Zenon
  <2>2. ASSUME NEW u PROVE u \in Units(S \cup {<<k, a>>}) <=> u \in Units(S) \cup U
    BY <2>1, Zenon DEF Units
  <2> QED  BY <2>2, Zenon
<1>2. IsFiniteSet(U) /\ Cardinality(U) = a
  <2>1. IsFiniteSet({k}) /\ Cardinality({k}) = 1
    BY FS_Singleton, Zenon
  <2>2. IsFiniteSet(1 .. a) /\ Cardinality(1 .. a) = a
    BY FS_Interval
  <2>3. IsFiniteSet(U) /\ Cardinality(U) = Cardinality({k}) * Cardinality(1 .. a)
    BY <2>1, <2>2, FS_Product, Zenon
  <2> QED  BY <2>1, <2>2, <2>3
<1>3. Units(S) \cap U = {}
  <2> SUFFICES ASSUME NEW u \in Units(S), u \in U PROVE FALSE
    BY Zenon
  <2>1. PICK x \in S : u \in {x[1]} \X (1 .. x[2])
    BY InUnits, Zenon
  <2> QED  BY <2>1, Zenon
<1>4. IsFiniteSet(Units(S))
  BY UnitsFinite, Zenon
<1> HIDE DEF U
<1>5. Cardinality(Units(S) \cup U) = Cardinality(Units(S)) + a
  <2>1. Cardinality(Units(S) \cup U) = Cardinality(Units(S)) + Cardinality(U) - Cardinality(Units(S) \cap U)
    BY <1>2, <1>4, FS_Union, Zenon
  <2>2. Cardinality({}) = 0 /\ Cardinality(Units(S)) \in Nat
    BY FS_EmptySet, <1>4, FS_CardinalityType, Zenon
  <2>3. Cardinality(Units(S) \cap U) = 0
    BY <1>3, <2>2, Zenon
  <2> QED  BY <1>2, <2>1, <2>2, <2>3
<1> QED  BY <1>1, <1>5, Zenon DEF Total, Units

LEMMA TotalEmpty == Total({}) = 0
<1>1. UNION {{x[1]} \X (1 .. x[2]) : x \in {}} = {}
  BY Zenon
<1> QED  BY <1>1, FS_EmptySet, Zenon DEF Total

\* The pairs that the transactions in a set of positions contribute.
PairsOf(M) == {<<m, log[m].amount>> : m \in M}

LEMMA PairsFinite ==
    ASSUME log \in Seq(Transactions), NEW n \in 0 .. Len(log), NEW M \in SUBSET (1 .. n)
    PROVE  /\ IsFiniteSet(PairsOf(M)) /\ \A x \in PairsOf(M) : x[2] \in Nat /\ x[1] \in M
           /\ Total(PairsOf(M)) \in Nat
<1> DEFINE f == [m \in M |-> <<m, log[m].amount>>]
<1>1. IsFiniteSet(M)
  <2>1. IsFiniteSet(1 .. n)
    BY FS_Interval
  <2> QED  BY <2>1, FS_Subset, Zenon
<1>2. f \in Surjection(M, PairsOf(M))
  BY Zenon DEF Surjection, PairsOf
<1>3. IsFiniteSet(PairsOf(M))
  BY <1>1, <1>2, FS_Surjection, Zenon
<1>4. ASSUME NEW x \in PairsOf(M) PROVE x[2] \in Nat /\ x[1] \in M
  <2>1. PICK m \in M : x = <<m, log[m].amount>>
    BY Zenon DEF PairsOf
  <2>2. log[m] \in Transactions
    OBVIOUS
  <2> QED  BY <2>1, <2>2, AmountsNat, Zenon
<1> QED  BY <1>3, <1>4, UnitsFinite, Zenon

LEMMA PairsAdd ==
    ASSUME log \in Seq(Transactions), NEW n \in 1 .. Len(log), NEW M \in SUBSET (1 .. n - 1)
    PROVE  Total(PairsOf(M \cup {n})) = Total(PairsOf(M)) + log[n].amount
<1>1. PairsOf(M \cup {n}) = PairsOf(M) \cup {<<n, log[n].amount>>}
  BY Zenon DEF PairsOf
<1>2. n - 1 \in 0 .. Len(log) /\ n \notin M
  OBVIOUS
<1>3. /\ IsFiniteSet(PairsOf(M)) /\ \A x \in PairsOf(M) : x[2] \in Nat /\ x[1] # n
  BY <1>2, PairsFinite, Zenon
<1>4. log[n].amount \in Nat
  BY AmountsNat
<1>5. Total(PairsOf(M) \cup {<<n, log[n].amount>>}) = Total(PairsOf(M)) + log[n].amount
  BY <1>3, <1>4, TotalAdd, Zenon
<1> QED  BY <1>1, <1>5, Zenon

\* A transaction moves what it says from its sender to its receiver.
LEMMA NextMove ==
    ASSUME log \in Seq(Transactions), NEW n \in 1 .. Len(log),
           NEW p, NEW i
    PROVE  LET moves == log[n].op = "token" /\ log[n].instrument = i IN
           /\ Received(n, p, i) = Received(n - 1, p, i)
                + (IF moves /\ log[n].to = p THEN log[n].amount ELSE 0)
           /\ Sent(n, p, i) = Sent(n - 1, p, i)
                + (IF moves /\ log[n].from = p THEN log[n].amount ELSE 0)
           /\ Received(n - 1, p, i) \in Nat /\ Sent(n - 1, p, i) \in Nat
<1> DEFINE moves == log[n].op = "token" /\ log[n].instrument = i
           R(m) == {k \in TokenMoves(m, i) : log[k].to = p}
           S(m) == {k \in TokenMoves(m, i) : log[k].from = p}
<1>1. /\ Received(n, p, i) = Total(PairsOf(R(n))) /\ Sent(n, p, i) = Total(PairsOf(S(n)))
      /\ Received(n - 1, p, i) = Total(PairsOf(R(n - 1)))
      /\ Sent(n - 1, p, i) = Total(PairsOf(S(n - 1)))
  BY Zenon DEF Received, Sent, PairsOf
<1>2. R(n - 1) \in SUBSET (1 .. n - 1) /\ S(n - 1) \in SUBSET (1 .. n - 1)
  BY Zenon DEF TokenMoves
<1>3. Total(PairsOf(R(n - 1))) \in Nat /\ Total(PairsOf(S(n - 1))) \in Nat
  <2>1. n - 1 \in 0 .. Len(log)
    OBVIOUS
  <2> HIDE DEF R, S
  <2> QED  BY <1>2, <2>1, PairsFinite, Zenon
<1>4. R(n) = IF moves /\ log[n].to = p THEN R(n - 1) \cup {n} ELSE R(n - 1)
  BY DEF TokenMoves
<1>5. S(n) = IF moves /\ log[n].from = p THEN S(n - 1) \cup {n} ELSE S(n - 1)
  BY DEF TokenMoves
<1> HIDE DEF R, S
<1>6. Total(PairsOf(R(n))) = Total(PairsOf(R(n - 1)))
        + (IF moves /\ log[n].to = p THEN log[n].amount ELSE 0)
  BY <1>2, <1>3, <1>4, PairsAdd
<1>7. Total(PairsOf(S(n))) = Total(PairsOf(S(n - 1)))
        + (IF moves /\ log[n].from = p THEN log[n].amount ELSE 0)
  BY <1>2, <1>3, <1>5, PairsAdd
<1> QED  BY <1>1, <1>3, <1>6, <1>7, Zenon

----------------------------------------------------------------------------
(* Holder counts.                                                          *)
----------------------------------------------------------------------------

\* A balance that crosses zero makes or unmakes one holder.
LEMMA MovedHolders ==
    ASSUME NEW s \in Store, NEW t, NEW p \in Parties, NEW i \in Listed, NEW d \in Int,
           Moved(s, t, p, i, d), i \in s.tokens, HoldersRight(s)
    PROVE  HoldersRight(t)
<1> SUFFICES ASSUME NEW j \in Listed
             PROVE  t.holders[j] = Cardinality({q \in Parties : t.balances[<<q, j>>] > 0})
  BY Zenon DEF HoldersRight
<1> DEFINE S == {q \in Parties : s.balances[<<q, j>>] > 0}
           T == {q \in Parties : t.balances[<<q, j>>] > 0}
           old == s.balances[<<p, i>>]
<1>1. /\ s.balances \in [Parties \X Instruments -> Nat] /\ t \in Store
      /\ t.balances = [s.balances EXCEPT ![<<p, i>>] = old + d]
      /\ t.holders = [s.holders EXCEPT ![i] = s.holders[i] + HolderDelta(old, old + d)]
  BY Zenon DEF Store, Moved
<1>2. j \in Instruments /\ i \in Instruments /\ s.holders \in [Instruments -> Int]
      /\ t.balances \in [Parties \X Instruments -> Nat]
  BY <1>1, Zenon DEF Instruments, Store
<1>3. s.holders[j] = Cardinality(S)
  BY Zenon DEF HoldersRight
<1>4. IsFiniteSet(S) /\ Cardinality(S) \in Nat
  <2>1. IsFiniteSet(Parties) /\ S \subseteq Parties
    BY LedgerAssumption, Zenon
  <2> QED  BY <2>1, FS_Subset, FS_CardinalityType, Zenon
<1>5. CASE j # i
  <2>1. T = S
    BY <1>1, <1>2, <1>5, Zenon
  <2>2. t.holders[j] = s.holders[j]
    BY <1>1, <1>2, <1>5, Zenon
  <2> QED  BY <1>3, <2>1, <2>2, Zenon
<1>6. CASE j = i
  <2>1. t.holders[j] = Cardinality(S) + HolderDelta(old, old + d)
    BY <1>1, <1>2, <1>3, <1>6, Zenon
  <2>2. old \in Nat /\ old + d \in Nat /\ t.balances[<<p, j>>] = old + d /\ s.balances[<<p, j>>] = old
    <3>1. t.balances[<<p, i>>] \in Nat /\ t.balances[<<p, i>>] = old + d
      BY <1>1, <1>2, Zenon
    <3> QED  BY <1>1, <1>2, <1>6, <3>1, Zenon
  <2>3. \A q \in Parties : q # p => t.balances[<<q, j>>] = s.balances[<<q, j>>]
    BY <1>1, <1>2, <1>6, Zenon
  <2>4. CASE old = 0 /\ old + d # 0
    <3>1. T = S \cup {p} /\ p \notin S
      BY <2>2, <2>3, <2>4
    <3>2. Cardinality(T) = Cardinality(S) + 1
      BY <1>4, <3>1, FS_AddElement, Zenon
    <3> QED  BY <2>1, <2>4, <3>2, Zenon DEF HolderDelta
  <2>5. CASE old # 0 /\ old + d = 0
    <3>1. p \notin T /\ p \in S
      BY <2>2, <2>5
    <3>2. \A q \in Parties : q # p => (q \in T <=> q \in S)
      BY <2>3, Zenon
    <3>3. T = S \ {p}
      BY <3>1, <3>2, Zenon
    <3>4. Cardinality(T) = Cardinality(S) - 1
      BY <1>4, <3>1, <3>3, FS_RemoveElement, Zenon
    <3> HIDE DEF S, T
    <3> QED  BY <1>4, <2>1, <2>5, <3>4, Zenon DEF HolderDelta, S, T
  <2>6. CASE (old = 0 /\ old + d = 0) \/ (old # 0 /\ old + d # 0)
    <3>1. p \in T <=> p \in S
      <4>1. (p \in T <=> old + d > 0) /\ (p \in S <=> old > 0)
        BY <2>2, Zenon
      <4> HIDE DEF S, T, old
      <4> QED  BY <2>2, <2>6, <4>1
    <3>2. \A q \in Parties : q # p => (q \in T <=> q \in S)
      BY <2>3, Zenon
    <3>3. T = S
      BY <3>1, <3>2, Zenon
    <3>4. HolderDelta(old, old + d) = 0
      BY <2>6, Zenon DEF HolderDelta
    <3> HIDE DEF S, T
    <3>5. t.holders[j] = Cardinality(S)
      BY <1>4, <2>1, <3>4
    <3> QED  BY <3>3, <3>5, Zenon DEF T
  <2> QED  BY <2>4, <2>5, <2>6, Zenon
<1> QED  BY <1>5, <1>6, Zenon

----------------------------------------------------------------------------
(* A token transfer event, statement by statement.                         *)
----------------------------------------------------------------------------

\* The sender's recorded balance covers the amount.
Covered(s, e) == e.from # NoParty => s.balances[<<e.from, e.instrument>>] >= e.amount

\* What is taken from the sender's balance, unless the event fails.
DebitOf(s, e) == IF Covered(s, e) THEN e.amount ELSE 0

\* What a new event does to the tables, if it commits.
EventApplied(s, t, e) ==
    /\ t \in Store /\ ~t.err /\ HoldersRight(t) /\ SameHoldings(s, t)
    /\ t.events = s.events \cup {e.cid}
    /\ \A j \in Listed :
        t.supply[j] = s.supply[j] + (IF j = e.instrument THEN SupplyDelta(e) ELSE 0)
    /\ \A q \in Parties, j \in Listed \cup Unlisted :
        t.balances[<<q, j>>] =
            s.balances[<<q, j>>]
            + (IF j = e.instrument /\ q = e.to THEN e.amount ELSE 0)
            - (IF j = e.instrument /\ q = e.from THEN DebitOf(s, e) ELSE 0)
    /\ t.transfers = IF e.kind # "TRANSFER" \/ (\E x \in s.transfers : x.cid = e.cid)
                       THEN s.transfers ELSE s.transfers \cup {DirectTransfer(e)}

\* A debit that was not excused, or a credit, changes one balance.
LEMMA MovedToken ==
    ASSUME NEW e \in TokenItems, NEW a \in Store, ~a.err,
           HoldersRight(a), e.instrument \in a.tokens, NEW p \in Parties, NEW d \in Int,
           a.balances[<<p, e.instrument>>] + d >= 0
    PROVE  LET b == ApplyBalanceDelta(a, p, e.instrument, d) IN
           /\ b \in Store /\ ~b.err /\ HoldersRight(b) /\ SameHoldings(a, b)
           /\ SameEvents(a, b) /\ SameTransfers(a, b) /\ b.supply = a.supply
           /\ \A q \in Parties, j \in Listed \cup Unlisted :
                b.balances[<<q, j>>] = a.balances[<<q, j>>]
                    + (IF q = p /\ j = e.instrument THEN d ELSE 0)
<1> DEFINE b == ApplyBalanceDelta(a, p, e.instrument, d)
           i == e.instrument
<1>1. i \in Listed /\ i \in Instruments /\ i # Registry
  BY LedgerAssumption, Zenon DEF TokenItems, Instruments
<1>2. ~Underflows(a, p, i, d)
  <2>1. a.balances[<<p, i>>] \in Nat
    BY <1>1, Zenon DEF Store
  <2> QED  BY <2>1 DEF Underflows
<1>3. Moved(a, b, p, i, d)
  BY <1>1, <1>2, BalanceDelta, Zenon
<1>4. HoldersRight(b)
  BY <1>1, <1>3, MovedHolders, Zenon
<1> HIDE DEF b, i
<1>5. a.balances \in [Parties \X Instruments -> Nat]
  BY Zenon DEF Store
<1>6. ASSUME NEW q \in Parties, NEW j \in Listed \cup Unlisted
      PROVE  b.balances[<<q, j>>] = a.balances[<<q, j>>] + (IF q = p /\ j = i THEN d ELSE 0)
  <2>1. j \in Instruments
    BY Zenon DEF Instruments
  <2> QED  BY <1>1, <1>3, <1>5, <2>1 DEF Moved
<1>7. ASSUME NEW q \in Parties PROVE b.balances[<<q, Registry>>] = a.balances[<<q, Registry>>]
  <2>1. Registry \in Instruments
    BY Zenon DEF Instruments
  <2> QED  BY <1>1, <1>3, <1>5, <2>1, Zenon DEF Moved
<1>8. /\ b \in Store /\ ~b.err /\ SameEvents(a, b) /\ SameTransfers(a, b)
      /\ b.supply = a.supply /\ b.holdings = a.holdings
  BY <1>3, Zenon DEF Moved
<1> QED  BY <1>4, <1>6, <1>7, <1>8, Zenon DEF SameHoldings, b, i

\* The tables after the debit, and after the credit.
Debited(s, t, e) ==
    /\ t \in Store /\ ~t.err /\ HoldersRight(t) /\ e.instrument \in t.tokens
    /\ SameHoldings(s, t) /\ SameTransfers(s, t)
    /\ t.events = s.events \cup {e.cid}
    /\ \A j \in Listed :
        t.supply[j] = s.supply[j] + (IF j = e.instrument THEN SupplyDelta(e) ELSE 0)
    /\ \A q \in Parties, j \in Listed \cup Unlisted :
        t.balances[<<q, j>>] = s.balances[<<q, j>>]
            - (IF j = e.instrument /\ q = e.from THEN DebitOf(s, e) ELSE 0)

LEMMA DebitStep ==
    ASSUME NEW s \in Store, NEW e \in TokenItems, NEW a, EventKnown(s, a, e)
    PROVE  IF e.kind = "BURN" /\ ~Covered(s, e) THEN DebitSender(a, e).err
           ELSE Debited(s, DebitSender(a, e), e)
<1> DEFINE i == e.instrument
           b == DebitSender(a, e)
<1>1. /\ e.from \in Parties \cup {NoParty} /\ e.amount \in Nat /\ i \in Listed
      /\ e.from = NoParty <=> e.kind = "MINT"
      /\ e.kind \in {"MINT", "BURN", "TRANSFER"}
  BY Zenon DEF TokenItems
<1>2. /\ a \in Store /\ ~a.err /\ HoldersRight(a) /\ i \in a.tokens
      /\ a.balances = s.balances
  BY Zenon DEF EventKnown
<1>3. \A q \in Parties, j \in Listed \cup Unlisted : s.balances[<<q, j>>] \in Nat
  BY Zenon DEF Store, Instruments
<1>4. SameHoldings(s, a)
  BY Zenon DEF EventKnown, SameHoldings
<1>5. CASE e.from = NoParty
  <2>1. b = a
    BY <1>5, Zenon DEF DebitSender
  <2>2. \A q \in Parties : q # e.from
    BY <1>5, LedgerAssumption, Zenon
  <2>3. e.kind # "BURN"
    BY <1>1, <1>5, Zenon
  <2>4. ASSUME NEW q \in Parties, NEW j \in Listed \cup Unlisted
        PROVE  a.balances[<<q, j>>] = s.balances[<<q, j>>]
            - (IF j = i /\ q = e.from THEN DebitOf(s, e) ELSE 0)
    BY <1>2, <1>3, <2>2
  <2> QED  BY <1>4, <2>1, <2>3, <2>4 DEF EventKnown, Debited
<1>6. CASE e.from # NoParty /\ Covered(s, e)
  <2>1. e.from \in Parties /\ s.balances[<<e.from, i>>] >= e.amount /\ s.balances[<<e.from, i>>] \in Nat
    BY <1>1, <1>3, <1>6, Zenon DEF Covered
  <2>2. a.balances[<<e.from, i>>] + (-e.amount) >= 0
    BY <1>1, <1>2, <2>1
  <2>3. b = ApplyBalanceDelta(a, e.from, i, -e.amount)
    BY <1>1, <1>2, <1>6, <2>1 DEF DebitSender, Underflows
  <2>4. -e.amount \in Int
    BY <1>1
  <2>5. /\ b \in Store /\ ~b.err /\ HoldersRight(b) /\ SameHoldings(a, b)
        /\ SameEvents(a, b) /\ SameTransfers(a, b) /\ b.supply = a.supply
        /\ \A q \in Parties, j \in Listed \cup Unlisted :
             b.balances[<<q, j>>] = a.balances[<<q, j>>]
                 + (IF q = e.from /\ j = i THEN -e.amount ELSE 0)
    BY <1>2, <2>1, <2>2, <2>3, <2>4, MovedToken
  <2> HIDE DEF b, i
  <2>6. ASSUME NEW q \in Parties, NEW j \in Listed \cup Unlisted
        PROVE  b.balances[<<q, j>>] = s.balances[<<q, j>>]
            - (IF j = i /\ q = e.from THEN DebitOf(s, e) ELSE 0)
    <3>1. DebitOf(s, e) = e.amount
      BY <1>6, Zenon DEF DebitOf
    <3> QED  BY <1>1, <1>2, <1>3, <2>5, <3>1
  <2> QED
    BY <1>4, <1>6, <2>5, <2>6 DEF EventKnown, Debited, SameHoldings, SameEvents, SameTransfers, b, i
<1>7. CASE e.from # NoParty /\ ~Covered(s, e)
  <2>1. Underflows(a, e.from, i, -e.amount)
    <3>1. e.from \in Parties /\ s.balances[<<e.from, i>>] \in Nat
      BY <1>1, <1>3, <1>7, Zenon
    <3> QED  BY <1>1, <1>2, <1>7, <3>1 DEF Covered, Underflows
  <2>2. CASE e.kind = "TRANSFER"
    <3>1. b = a
      BY <2>1, <2>2, Zenon DEF DebitSender
    <3>2. ASSUME NEW q \in Parties, NEW j \in Listed \cup Unlisted
        PROVE  a.balances[<<q, j>>] = s.balances[<<q, j>>]
            - (IF j = i /\ q = e.from THEN DebitOf(s, e) ELSE 0)
      <4>1. DebitOf(s, e) = 0
        BY <1>7, Zenon DEF DebitOf
      <4> QED  BY <1>2, <1>3, <4>1
    <3> QED  BY <1>4, <2>2, <3>1, <3>2 DEF EventKnown, Debited
  <2>3. CASE e.kind = "BURN"
    <3>1. b = [a EXCEPT !.err = TRUE]
      BY <1>7, <2>1, <2>3, Zenon DEF DebitSender, ApplyBalanceDelta
    <3>2. b.err
      BY <1>2, <3>1, Zenon DEF Store
    <3> QED  BY <1>7, <2>3, <3>2, Zenon
  <2> QED  BY <1>1, <1>7, <2>2, <2>3, Zenon
<1> QED  BY <1>5, <1>6, <1>7, Zenon

----------------------------------------------------------------------------
(* A token transfer event as a whole.                                      *)
----------------------------------------------------------------------------

LEMMA NewEvent ==
    ASSUME NEW s \in Store, ~s.err, HoldersRight(s), NEW e \in TokenItems, e.cid \notin s.events
    PROVE  LET t == ProcessTransferEvent(s, e) IN
           IF e.kind = "BURN" /\ ~Covered(s, e) THEN t.err ELSE EventApplied(s, t, e)
<1> DEFINE i == e.instrument
           a == Supplied(s, e)
           b == DebitSender(a, e)
           c == CreditReceiver(b, e)
           t == ProcessTransferEvent(s, e)
<1>1. t = IF e.kind = "TRANSFER" THEN InsertTransfer(c, DirectTransfer(e)) ELSE c
  BY Zenon DEF ProcessTransferEvent, Supplied
<1>2. EventKnown(s, a, e)
  BY SuppliedStep, Zenon
<1> HIDE DEF a, t
<1>3. IF e.kind = "BURN" /\ ~Covered(s, e) THEN b.err ELSE Debited(s, b, e)
  BY <1>2, DebitStep, Zenon
<1>4. /\ e.to \in Parties \cup {NoParty} /\ e.from \in Parties \cup {NoParty}
      /\ e.amount \in Nat /\ i \in Listed
      /\ e.to = NoParty <=> e.kind = "BURN"
      /\ e.from = NoParty <=> e.kind = "MINT"
      /\ e.kind \in {"MINT", "BURN", "TRANSFER"} /\ e.cid \in ContractIds
  BY Zenon DEF TokenItems
<1>5. CASE e.kind = "BURN" /\ ~Covered(s, e)
  <2>1. c = b
    BY <1>4, <1>5, Zenon DEF CreditReceiver
  <2> HIDE DEF c, b
  <2>2. t.err
    BY <1>1, <1>3, <1>5, <2>1, Zenon
  <2> QED  BY <1>5, <2>2, Zenon DEF t
<1>6. CASE ~(e.kind = "BURN" /\ ~Covered(s, e))
  <2>1. Debited(s, b, e)
    BY <1>3, <1>6, Zenon
  <2> HIDE DEF b
  <2>2. \A q \in Parties, j \in Listed \cup Unlisted : b.balances[<<q, j>>] \in Nat
    BY Zenon, <2>1 DEF Debited, Store, Instruments
  <2>3. /\ c \in Store /\ ~c.err /\ HoldersRight(c) /\ SameHoldings(b, c)
        /\ SameEvents(b, c) /\ SameTransfers(b, c) /\ c.supply = b.supply
        /\ \A q \in Parties, j \in Listed \cup Unlisted :
             c.balances[<<q, j>>] = b.balances[<<q, j>>]
                 + (IF q = e.to /\ j = i THEN e.amount ELSE 0)
    <3>1. CASE e.to = NoParty
      <4>1. c = b
        BY <3>1, Zenon DEF CreditReceiver
      <4>2. ASSUME NEW q \in Parties, NEW j \in Listed \cup Unlisted
            PROVE  b.balances[<<q, j>>] = b.balances[<<q, j>>]
                     + (IF q = e.to /\ j = i THEN e.amount ELSE 0)
        <5>1. q # e.to
          BY <3>1, LedgerAssumption, Zenon
        <5> QED  BY <2>2, <5>1
      <4> QED  BY <2>1, <4>1, <4>2 DEF Debited, SameHoldings, SameEvents, SameTransfers
    <3>2. CASE e.to # NoParty
      <4>1. e.to \in Parties
        BY <1>4, <3>2, Zenon
      <4>2. c = ApplyBalanceDelta(b, e.to, i, e.amount)
        BY <3>2, Zenon DEF CreditReceiver
      <4>3. b.balances[<<e.to, i>>] + e.amount >= 0
        BY <1>4, <2>2, <4>1
      <4>4. b \in Store /\ ~b.err /\ HoldersRight(b) /\ i \in b.tokens /\ e.amount \in Int
        BY <1>4, <2>1 DEF Debited
      <4> QED  BY <4>1, <4>2, <4>3, <4>4, MovedToken
    <3> QED  BY <3>1, <3>2, Zenon
  <2> HIDE DEF c, i
  <2>4. ASSUME NEW q \in Parties, NEW j \in Listed \cup Unlisted
        PROVE  c.balances[<<q, j>>] = s.balances[<<q, j>>]
                 + (IF j = i /\ q = e.to THEN e.amount ELSE 0)
                 - (IF j = i /\ q = e.from THEN DebitOf(s, e) ELSE 0)
    <3>1. s.balances[<<q, j>>] \in Nat /\ DebitOf(s, e) \in Nat
      BY <1>4, Zenon DEF Store, Instruments, DebitOf
    <3>2. b.balances[<<q, j>>] = s.balances[<<q, j>>]
            - (IF j = i /\ q = e.from THEN DebitOf(s, e) ELSE 0)
      BY <2>1, Zenon DEF Debited, i
    <3>3. c.balances[<<q, j>>] = b.balances[<<q, j>>]
            + (IF q = e.to /\ j = i THEN e.amount ELSE 0)
      BY <2>3, Zenon
    <3> QED  BY <1>4, <3>1, <3>2, <3>3
  <2>5. /\ c.transfers = s.transfers /\ SameHoldings(s, c) /\ c.events = s.events \cup {e.cid}
        /\ c.supply = b.supply
    BY <2>1, <2>3, Zenon DEF Debited, SameHoldings, SameEvents, SameTransfers
  <2>6. CASE e.kind # "TRANSFER"
    <3>1. t = c
      BY <1>1, <2>6, Zenon
    <3>2. t.transfers = IF e.kind # "TRANSFER" \/ (\E x \in s.transfers : x.cid = e.cid)
                          THEN s.transfers ELSE s.transfers \cup {DirectTransfer(e)}
      BY <2>5, <2>6, <3>1, Zenon
    <3>3. ASSUME NEW j \in Listed
          PROVE  t.supply[j] = s.supply[j] + (IF j = e.instrument THEN SupplyDelta(e) ELSE 0)
      BY <2>1, <2>5, <3>1, Zenon DEF Debited
    <3>4. ASSUME NEW q \in Parties, NEW j \in Listed \cup Unlisted
          PROVE  t.balances[<<q, j>>] = s.balances[<<q, j>>]
                   + (IF j = e.instrument /\ q = e.to THEN e.amount ELSE 0)
                   - (IF j = e.instrument /\ q = e.from THEN DebitOf(s, e) ELSE 0)
      BY <2>4, <3>1, Zenon DEF i
    <3>5. t \in Store /\ ~t.err /\ HoldersRight(t)
      BY <2>3, <3>1, Zenon
    <3>6. SameHoldings(s, t) /\ t.events = s.events \cup {e.cid}
      BY <2>5, <3>1, Zenon
    <3>7. EventApplied(s, t, e)
      BY <3>2, <3>3, <3>4, <3>5, <3>6, Zenon DEF EventApplied
    <3> QED  BY <1>6, <3>7, Zenon DEF t
  <2>7. CASE e.kind = "TRANSFER"
    <3>1. t = InsertTransfer(c, DirectTransfer(e))
      BY <1>1, <2>7, Zenon
    <3>2. DirectTransfer(e) \in TransferRows /\ DirectTransfer(e).cid = e.cid
      BY <1>4, <2>7, Zenon DEF DirectTransfer, TransferRows
    <3>3. /\ t \in Store /\ SameTokens(c, t) /\ SameHoldings(c, t) /\ t.err = c.err
          /\ t.transfers = IF \E x \in c.transfers : x.cid = e.cid THEN c.transfers
                           ELSE c.transfers \cup {DirectTransfer(e)}
      <4>1. TransferInserted(c, t, DirectTransfer(e))
        BY <2>3, <3>1, <3>2, InsertTransferStep, Zenon
      <4> QED  BY <3>2, <4>1, Zenon DEF TransferInserted
    <3>4. HoldersRight(t)
      <4>1. ASSUME NEW j \in Listed
            PROVE  /\ {p \in Parties : t.balances[<<p, j>>] > 0}
                        = {p \in Parties : c.balances[<<p, j>>] > 0}
                   /\ t.holders[j] = c.holders[j]
        BY <3>3, Zenon DEF SameTokens
      <4> QED  BY <2>3, <4>1, Zenon DEF HoldersRight
    <3>5. SameHoldings(s, t) /\ t.events = s.events \cup {e.cid} /\ t.supply = b.supply
      BY <2>5, <3>3, Zenon DEF SameHoldings, SameTokens, SameEvents
    <3>6. ASSUME NEW q \in Parties, NEW j \in Listed \cup Unlisted
          PROVE  t.balances[<<q, j>>] = c.balances[<<q, j>>]
      BY <3>3, Zenon DEF SameTokens
    <3>7. t.transfers = IF e.kind # "TRANSFER" \/ (\E x \in s.transfers : x.cid = e.cid)
                          THEN s.transfers ELSE s.transfers \cup {DirectTransfer(e)}
      BY <2>5, <2>7, <3>3, Zenon
    <3>8. ~t.err /\ t \in Store
      BY <2>3, <3>3, Zenon
    <3>9. ASSUME NEW j \in Listed
          PROVE  t.supply[j] = s.supply[j] + (IF j = e.instrument THEN SupplyDelta(e) ELSE 0)
      BY <2>1, <3>5, Zenon DEF Debited
    <3>10. ASSUME NEW q \in Parties, NEW j \in Listed \cup Unlisted
           PROVE  t.balances[<<q, j>>] = s.balances[<<q, j>>]
                    + (IF j = e.instrument /\ q = e.to THEN e.amount ELSE 0)
                    - (IF j = e.instrument /\ q = e.from THEN DebitOf(s, e) ELSE 0)
      <4>1. c.balances[<<q, j>>] = s.balances[<<q, j>>]
                + (IF j = e.instrument /\ q = e.to THEN e.amount ELSE 0)
                - (IF j = e.instrument /\ q = e.from THEN DebitOf(s, e) ELSE 0)
        BY <2>4, Zenon DEF i
      <4> QED  BY <3>6, <4>1, Zenon
    <3>11. EventApplied(s, t, e)
      BY <3>4, <3>5, <3>7, <3>8, <3>9, <3>10, Zenon DEF EventApplied
    <3> QED  BY <1>6, <3>11, Zenon DEF t
  <2> QED  BY <2>6, <2>7, Zenon
<1> QED  BY <1>5, <1>6, Zenon

----------------------------------------------------------------------------
(* The token tables.                                                       *)
----------------------------------------------------------------------------

\* A transaction that is no event of a listed token leaves the tables right.
LEMMA NoMove ==
    ASSUME log \in Seq(Transactions), NEW n \in 1 .. Len(log),
           ~(log[n].op = "token" /\ log[n].instrument \in Listed), NEW s, TokenTables(s, n - 1)
    PROVE  TokenTables(s, n)
<1>1. Recorded(n) = Recorded(n - 1)
  BY DEF Recorded
<1>2. ASSUME NEW i \in Listed, NEW p
      PROVE  Received(n, p, i) = Received(n - 1, p, i) /\ Sent(n, p, i) = Sent(n - 1, p, i)
  <2>1. ~(log[n].op = "token" /\ log[n].instrument = i)
    BY Zenon
  <2>2. LET moves == log[n].op = "token" /\ log[n].instrument = i IN
        /\ Received(n, p, i) = Received(n - 1, p, i)
             + (IF moves /\ log[n].to = p THEN log[n].amount ELSE 0)
        /\ Sent(n, p, i) = Sent(n - 1, p, i)
             + (IF moves /\ log[n].from = p THEN log[n].amount ELSE 0)
        /\ Received(n - 1, p, i) \in Nat /\ Sent(n - 1, p, i) \in Nat
    BY NextMove, Zenon
  <2> QED  BY <2>1, <2>2
<1> QED  BY <1>1, <1>2, Zenon DEF TokenTables, SeenBalance

----------------------------------------------------------------------------
(* The token tables: one more transaction.                                 *)
----------------------------------------------------------------------------

\* The next transaction is applied to the token tables; only a burn of a party
\* that received tokens elsewhere fails.
LEMMA TokenAdvance ==
    ASSUME log \in Seq(Transactions), NEW n \in 1 .. Len(log), TokenLegal(n),
           NEW s \in Store, ~s.err, TokenTables(s, n - 1)
    PROVE  LET t == ProcessBatch(s, n, log[n]) IN
           IF t.err THEN log[n].op = "token" /\ log[n].to = NoParty /\ Elsewhere[log[n].from] > 0
           ELSE t \in Store /\ TokenTables(t, n)
<1> DEFINE tx == log[n]
           t == ProcessBatch(s, n, tx)
           e == TokenItem(n, tx)
           i == tx.instrument
<1>1. tx \in Transactions /\ n \in Nat /\ n - 1 \in Nat
  OBVIOUS
<1>2. CASE tx.op # "token"
  <2>1. t \in Store /\ ~t.err /\ SameTokens(s, t)
    BY <1>1, <1>2, OtherBatch, Zenon
  <2>2. TokenTables(t, n - 1)
    BY <2>1, SameTokensTables, Zenon
  <2> HIDE DEF t
  <2>3. TokenTables(t, n)
    BY <1>2, <2>2, NoMove, Zenon
  <2> QED  BY <2>1, <2>3, Zenon DEF t
<1>3. CASE tx.op = "token" /\ i \notin Listed
  <2>1. t = s
    BY <1>1, <1>3, TokenBatch, Zenon DEF TokenLegal
  <2>2. TokenTables(s, n)
    BY <1>3, NoMove, Zenon
  <2> QED  BY <2>1, <2>2, Zenon
<1>4. CASE tx.op = "token" /\ i \in Listed
  <2>1. /\ t = ProcessTransferEvent(s, e) /\ e \in TokenItems /\ e.cid = <<n, 1>>
        /\ e.instrument = i /\ e.from = tx.from /\ e.to = tx.to /\ e.amount = tx.amount
    BY <1>1, <1>4, TokenBatch DEF TokenLegal
  <2>2. e.cid \notin s.events
    <3>1. \A m \in 1 .. n - 1 : <<m, 1>> # <<n, 1>>
      OBVIOUS
    <3>2. s.events = {<<m, 1>> : m \in Recorded(n - 1)}
      BY Zenon DEF TokenTables
    <3>3. Recorded(n - 1) \subseteq 1 .. n - 1
      BY Zenon DEF Recorded
    <3> HIDE DEF e
    <3> QED  BY <2>1, <3>1, <3>2, <3>3, Zenon
  <2>3. IF e.kind = "BURN" /\ ~Covered(s, e) THEN t.err ELSE EventApplied(s, t, e)
    BY <2>1, <2>2, NewEvent, Zenon DEF TokenTables
  <2> HIDE DEF e, t
  <2>4. /\ e.amount \in Nat /\ e.from \in Parties \cup {NoParty} /\ e.to \in Parties \cup {NoParty}
        /\ e.kind = "BURN" <=> e.to = NoParty
        /\ e.kind = "MINT" <=> e.from = NoParty
        /\ e.kind \in {"MINT", "BURN", "TRANSFER"}
    BY <2>1, Zenon DEF TokenItems
  <2>5. ASSUME e.from # NoParty, Elsewhere[e.from] = 0 PROVE Covered(s, e)
    <3>1. e.from \in Parties
      BY <2>4, <2>5, Zenon
    <3>2. s.balances[<<e.from, i>>] = SeenBalance(n - 1, e.from, i)
      BY <1>4, <2>5, <3>1, Zenon DEF TokenTables
    <3>3. Received(n - 1, e.from, i) \in Nat /\ Sent(n - 1, e.from, i) \in Nat
      BY NextMove, Zenon
    <3>4. 0 + SeenBalance(n - 1, e.from, i) >= e.amount
      BY <1>4, <2>1, <2>5, Zenon DEF TokenLegal
    <3> QED  BY <2>1, <2>4, <3>2, <3>3, <3>4 DEF Covered, SeenBalance
  <2>6. CASE e.kind = "BURN" /\ ~Covered(s, e)
    <3>1. e.from \in Parties /\ e.to = NoParty
      BY <2>4, <2>6, Zenon DEF Covered
    <3>2. Elsewhere[e.from] \in Nat
      BY <3>1, LedgerAssumption, Zenon
    <3>3. Elsewhere[e.from] # 0
      BY <2>5, <2>6, <3>1, LedgerAssumption, Zenon
    <3> QED  BY <1>4, <2>1, <2>3, <2>6, <3>1, <3>2, <3>3 DEF t
  <2>7. CASE ~(e.kind = "BURN" /\ ~Covered(s, e))
    <3>1. EventApplied(s, t, e)
      BY <2>3, <2>7, Zenon
    <3>2. ASSUME NEW p, NEW j \in Listed
          PROVE  /\ Received(n, p, j) = Received(n - 1, p, j)
                      + (IF j = i /\ e.to = p THEN e.amount ELSE 0)
                 /\ Sent(n, p, j) = Sent(n - 1, p, j)
                      + (IF j = i /\ e.from = p THEN e.amount ELSE 0)
                 /\ Received(n - 1, p, j) \in Nat /\ Sent(n - 1, p, j) \in Nat
      <4>1. LET moves == log[n].op = "token" /\ log[n].instrument = j IN
            /\ Received(n, p, j) = Received(n - 1, p, j)
                 + (IF moves /\ log[n].to = p THEN log[n].amount ELSE 0)
            /\ Sent(n, p, j) = Sent(n - 1, p, j)
                 + (IF moves /\ log[n].from = p THEN log[n].amount ELSE 0)
            /\ Received(n - 1, p, j) \in Nat /\ Sent(n - 1, p, j) \in Nat
        BY NextMove, Zenon
      <4> QED  BY <1>4, <2>1, <4>1, Zenon
    <3>3. t.events = {<<m, 1>> : m \in Recorded(n)}
      <4>1. Recorded(n) = Recorded(n - 1) \cup {n}
        BY <1>4 DEF Recorded
      <4>2. t.events = {<<m, 1>> : m \in Recorded(n - 1)} \cup {<<n, 1>>}
        BY <2>1, <3>1, Zenon DEF EventApplied, TokenTables
      <4> QED  BY <4>1, <4>2, Zenon
    <3>4. ASSUME NEW j \in Listed
          PROVE  t.supply[j] = Sent(n, NoParty, j) - Received(n, NoParty, j)
      <4>1. s.supply[j] = Sent(n - 1, NoParty, j) - Received(n - 1, NoParty, j)
        BY Zenon DEF TokenTables
      <4>2. t.supply[j] = s.supply[j] + (IF j = i THEN SupplyDelta(e) ELSE 0)
        BY <2>1, <3>1, Zenon DEF EventApplied
      <4>3. SupplyDelta(e) = (IF e.from = NoParty THEN e.amount ELSE 0)
                              - (IF e.to = NoParty THEN e.amount ELSE 0)
        <5>1. ~(e.from = NoParty /\ e.to = NoParty)
          BY <2>4, Zenon
        <5> QED  BY <2>4, <5>1 DEF SupplyDelta
      <4> HIDE DEF i
      <4> QED  BY <2>4, <3>2, <4>1, <4>2, <4>3
    <3>5. ASSUME NEW j \in Listed, NEW p \in Parties, Elsewhere[p] = 0
          PROVE  t.balances[<<p, j>>] = SeenBalance(n, p, j)
      <4>1. s.balances[<<p, j>>] = SeenBalance(n - 1, p, j)
        BY <3>5, Zenon DEF TokenTables
      <4>2. t.balances[<<p, j>>] = s.balances[<<p, j>>]
              + (IF j = i /\ p = e.to THEN e.amount ELSE 0)
              - (IF j = i /\ p = e.from THEN DebitOf(s, e) ELSE 0)
        BY <2>1, <3>1 DEF EventApplied
      <4>3. p = e.from => DebitOf(s, e) = e.amount
        BY <2>5, <3>5, LedgerAssumption, Zenon DEF DebitOf
      <4> HIDE DEF i
      <4> QED  BY <2>4, <3>2, <4>1, <4>2, <4>3 DEF SeenBalance
    <3>6. ASSUME NEW p \in Parties, NEW j \in Unlisted PROVE t.balances[<<p, j>>] = 0
      <4>1. j # i
        BY <1>4, LedgerAssumption, Zenon
      <4>2. t.balances[<<p, j>>] = s.balances[<<p, j>>]
              + (IF j = i /\ p = e.to THEN e.amount ELSE 0)
              - (IF j = i /\ p = e.from THEN DebitOf(s, e) ELSE 0)
        BY <2>1, <3>1 DEF EventApplied
      <4>3. s.balances[<<p, j>>] = 0
        BY Zenon DEF TokenTables
      <4> QED  BY <4>1, <4>2, <4>3
    <3>7. t \in Store /\ ~t.err /\ HoldersRight(t)
      BY <3>1, Zenon DEF EventApplied
    <3>8. TokenTables(t, n)
      BY <3>3, <3>4, <3>5, <3>6, <3>7, Zenon DEF TokenTables
    <3> QED  BY <3>7, <3>8, Zenon DEF t
  <2> QED  BY <2>6, <2>7, Zenon
<1> QED  BY <1>2, <1>3, <1>4, Zenon

----------------------------------------------------------------------------
(* The transfers: one more transaction.                                    *)
----------------------------------------------------------------------------

LEMMA TransferAdvance ==
    ASSUME log \in Seq(Transactions), NEW n \in 1 .. Len(log), TokenLegal(n), SettleLegal(n),
           \A m \in 1 .. n - 1 : SettleLegal(m),
           NEW s \in Store, ~s.err, TokenTables(s, n - 1), TransferTables(s, n - 1)
    PROVE  LET t == ProcessBatch(s, n, log[n]) IN ~t.err => TransferTables(t, n)
<1> DEFINE tx == log[n]
           t == ProcessBatch(s, n, tx)
           e == TokenItem(n, tx)
<1>1. tx \in Transactions /\ n \in Nat \ {0}
  OBVIOUS
<1>2. ASSUME NEW o, Settlements(n - 1, o) # {} PROVE o # <<n, 2>>
  <2>1. PICK m \in 1 .. n - 1 : log[m].op = "settle" /\ log[m].input = o
    BY <1>2, Zenon DEF Settlements
  <2>2. PICK k \in 1 .. m - 1 : o = <<k, 2>>
    BY <2>1, SettleInput, Zenon
  <2> QED  BY <2>2
<1>3. CASE tx.op \in {"issue", "witness"}
  <2>1. t.transfers = s.transfers
    BY <1>1, <1>3, IssueTransfers, Zenon
  <2> QED  BY <1>1, <1>3, <2>1, NoTransfer, Zenon DEF IsDirect
<1>4. CASE tx.op = "token" /\ tx.instrument \notin Listed
  <2>1. t = s
    BY <1>1, <1>4, TokenBatch, Zenon DEF TokenLegal
  <2> QED  BY <1>1, <1>4, <2>1, NoTransfer, Zenon DEF IsDirect
<1>5. CASE tx.op = "token" /\ tx.instrument \in Listed
  <2>1. /\ t = ProcessTransferEvent(s, e) /\ e \in TokenItems /\ e.cid = <<n, 1>>
        /\ e.from = tx.from /\ e.to = tx.to
    BY <1>1, <1>5, TokenBatch DEF TokenLegal
  <2>2. e.cid \notin s.events /\ HoldersRight(s)
    BY <2>1 DEF TokenTables, Recorded
  <2>3. t.err \/ EventApplied(s, t, e)
    BY <2>1, <2>2, NewEvent, Zenon
  <2>4. e.kind = "TRANSFER" <=> IsDirect(tx)
    BY <1>5, <2>1, Zenon DEF IsDirect, TokenItems
  <2> HIDE DEF e, t
  <2>5. CASE t.err
    BY <2>5, Zenon DEF t
  <2>6. CASE EventApplied(s, t, e) /\ ~IsDirect(tx)
    <3>1. t.transfers = s.transfers
      BY <2>4, <2>6, Zenon DEF EventApplied
    <3>2. TransferTables(t, n)
      BY <1>1, <1>5, <2>6, <3>1, NoTransfer, Zenon
    <3> QED  BY <3>2, Zenon DEF t
  <2>7. CASE EventApplied(s, t, e) /\ IsDirect(tx)
    <3>1. Offers(n) = Offers(n - 1) /\ Direct(n) = Direct(n - 1) \cup {n}
      BY <1>1, <1>5, <2>7, NextPosition, Zenon
    <3>2. \A o : Settlements(n, o) = Settlements(n - 1, o)
      BY <1>1, <1>5, NextPosition, Zenon
    <3>3. \A x : /\ OfferRowRight(x, n - 1) => OfferRowRight(x, n)
                 /\ DirectRowRight(x, n - 1) => DirectRowRight(x, n)
      BY <3>1, <3>2, Zenon DEF OfferRowRight, DirectRowRight
    <3>4. t.transfers = IF \E x \in s.transfers : x.cid = <<n, 1>> THEN s.transfers
                        ELSE s.transfers \cup {DirectTransfer(e)}
      BY <2>1, <2>4, <2>7 DEF EventApplied
    <3>5. DirectRowRight(DirectTransfer(e), n) /\ DirectTransfer(e).cid = <<n, 1>>
      BY <2>1, <3>1, Zenon DEF DirectRowRight, DirectTransfer
    <3>6. TransferTables(t, n)
      BY <3>1, <3>3, <3>4, <3>5, Zenon DEF TransferTables
    <3> QED  BY <3>6, Zenon DEF t
  <2> QED  BY <2>3, <2>5, <2>6, <2>7, Zenon
<1>6. CASE tx.op = "offer"
  <2>1. RowInserted(s, t, OfferRow(<<n, 2>>, tx))
    BY <1>1, <1>6, OfferTransfers, Zenon
  <2> HIDE DEF t
  <2>2. ~IsDirect(tx) /\ Offers(n) = Offers(n - 1) \cup {n} /\ Direct(n) = Direct(n - 1)
    BY <1>1, <1>6, NextPosition, Zenon DEF IsDirect
  <2>3. \A o : Settlements(n, o) = Settlements(n - 1, o)
    BY <1>1, <1>6, NextPosition, Zenon
  <2>4. \A x : /\ OfferRowRight(x, n - 1) => OfferRowRight(x, n)
               /\ DirectRowRight(x, n - 1) => DirectRowRight(x, n)
    BY <2>2, <2>3, Zenon DEF OfferRowRight, DirectRowRight
  <2>5. OfferRowRight(OfferRow(<<n, 2>>, tx), n) /\ OfferRow(<<n, 2>>, tx).cid = <<n, 2>>
    <3>1. Settlements(n, <<n, 2>>) = {}
      BY <1>2, <2>3, Zenon
    <3> QED  BY <2>2, <3>1, Zenon DEF OfferRowRight, OfferRow
  <2>6. TransferTables(t, n)
    BY <2>1, <2>2, <2>4, <2>5, Zenon DEF TransferTables, RowInserted
  <2> QED  BY <2>6, Zenon DEF t
<1>7. CASE tx.op = "settle"
  <2> DEFINE f == OfferStatus(tx.choice)
             o == tx.input
  <2>1. RowFinal(s, t, o, f)
    BY <1>1, <1>7, SettleTransfers, Zenon
  <2> HIDE DEF t
  <2>2. ~IsDirect(tx) /\ Offers(n) = Offers(n - 1) /\ Direct(n) = Direct(n - 1)
    BY <1>1, <1>7, NextPosition, Zenon DEF IsDirect
  <2>3. /\ \A c : c # o => Settlements(n, c) = Settlements(n - 1, c)
        /\ Settlements(n, o) = {n}
    BY <1>1, <1>7, NextPosition, Zenon DEF SettleLegal
  <2>4. ASSUME NEW x \in s.transfers
        PROVE  LET y == Finalized(x, o, f) IN
               y.cid = x.cid /\ (OfferRowRight(y, n) \/ DirectRowRight(y, n))
    <3>1. x \in TransferRows
      BY Zenon DEF Store
    <3>2. CASE OfferRowRight(x, n - 1) /\ x.cid = o
      <4>1. x.status = "pending" /\ x.kind = "offer"
        BY <1>7, <3>2, Zenon DEF OfferRowRight, SettleLegal
      <4>2. Finalized(x, o, f) = [x EXCEPT !.status = f]
        BY <3>2, <4>1, Zenon DEF Finalized
      <4> DEFINE y == [x EXCEPT !.status = f]
      <4>3. y.status = f /\ y.cid = o /\ y.kind = "offer"
        BY <3>1, <3>2, <4>1, Zenon DEF TransferRows
      <4> HIDE DEF y
      <4>4. OfferRowRight(y, n)
        BY <2>2, <2>3, <3>2, <4>3, Zenon DEF OfferRowRight
      <4> QED  BY <3>2, <4>2, <4>3, <4>4, Zenon DEF y
    <3>3. CASE OfferRowRight(x, n - 1) /\ x.cid # o
      <4>1. Finalized(x, o, f) = x
        BY <3>3, Zenon DEF Finalized
      <4>2. OfferRowRight(x, n)
        BY <2>2, <2>3, <3>3, Zenon DEF OfferRowRight
      <4> QED  BY <4>1, <4>2, Zenon
    <3>4. CASE DirectRowRight(x, n - 1)
      <4>1. Finalized(x, o, f) = x
        BY <3>4, Zenon DEF Finalized, DirectRowRight
      <4>2. DirectRowRight(x, n)
        BY <2>2, <3>4, Zenon DEF DirectRowRight
      <4> QED  BY <4>1, <4>2, Zenon
    <3> QED  BY <3>2, <3>3, <3>4, Zenon DEF TransferTables
  <2>5. \A c : (\E x \in s.transfers : x.cid = c) => \E y \in t.transfers : y.cid = c
    BY <2>1, <2>4, Zenon DEF RowFinal
  <2>6. \A y \in t.transfers : OfferRowRight(y, n) \/ DirectRowRight(y, n)
    BY <2>1, <2>4, Zenon DEF RowFinal
  <2>7. TransferTables(t, n)
    BY <2>2, <2>5, <2>6, Zenon DEF TransferTables
  <2> QED  BY <2>7, Zenon DEF t
<1>8. tx.op \in {"token", "issue", "witness", "offer", "settle"}
  BY <1>1, Zenon DEF Transactions
<1> QED  BY <1>3, <1>4, <1>5, <1>6, <1>7, <1>8, Zenon

----------------------------------------------------------------------------
(* The holdings.                                                           *)
----------------------------------------------------------------------------

\* A party's part of the rows.
SumOf(rows, p) == Total({<<r.cid, r.amount>> : r \in {x \in rows : x.owner = p}})

\* The tables hold the rows, and the balances are their sums.
Balanced(s, rows) ==
    s.holdings = rows /\ \A p \in Parties : s.balances[<<p, Registry>>] = SumOf(rows, p)
HoldingTables(s, n) == Balanced(s, FreeRows(n))

LEMMA GivenRows ==
    ASSUME NEW m \in Nat, log[m] \in Transactions
    PROVE  /\ Given(m) \subseteq HoldingRows /\ IsFiniteSet(Given(m))
           /\ \A r \in Given(m) : r.cid[1] = m /\ r.cid[2] # 2
           /\ \A r \in Given(m) : r.cid[2] = 1 => log[m].op # "offer"
           /\ \A r, x \in Given(m) : x = r
<1> DEFINE tx == log[m]
<1>1. tx.op \in {"token", "issue", "witness", "offer", "settle"}
  BY Zenon DEF Transactions
<1>2. CASE Given(m) = {}
  BY <1>2, FS_EmptySet, Zenon
<1>3. CASE tx.op \in {"issue", "settle"}
  <2> DEFINE r == [cid |-> <<m, 1>>, owner |-> tx.to, amount |-> tx.amount]
  <2>1. tx.to \in Parties /\ tx.amount \in Nat
    BY <1>3, AmountsNat, Zenon DEF Transactions
  <2>2. r \in HoldingRows /\ r.cid[1] = m /\ r.cid[2] = 1
    BY <2>1, Zenon DEF HoldingRows, ContractIds
  <2>3. Given(m) = {r}
    BY <1>3, GivenBy, Zenon
  <2>4. tx.op # "offer"
    BY <1>3, Zenon
  <2>5. r.cid[2] # 2
    BY <2>2
  <2> HIDE DEF r
  <2> QED  BY <2>2, <2>3, <2>4, <2>5, FS_Singleton, Zenon
<1>4. CASE tx.op = "offer" /\ tx.change # 0
  <2> DEFINE r == [cid |-> <<m, 3>>, owner |-> tx.from, amount |-> tx.change]
  <2>1. tx.from \in Parties /\ tx.change \in Nat
    BY <1>4, ChangeNat, Zenon
  <2>2. r \in HoldingRows /\ r.cid[1] = m /\ r.cid[2] # 1 /\ r.cid[2] # 2
    BY <2>1 DEF HoldingRows, ContractIds
  <2>3. Given(m) = {r}
    BY <1>4, GivenBy, Zenon
  <2> HIDE DEF r
  <2> QED  BY <2>2, <2>3, FS_Singleton, Zenon
<1> QED  BY <1>1, <1>2, <1>3, <1>4, GivenBy, Zenon

\* The rows left are finitely many, of transactions so far, one per contract.
LEMMA FreeRowsAre ==
    ASSUME log \in Seq(Transactions), NEW n \in 0 .. Len(log)
    PROVE  /\ IsFiniteSet(FreeRows(n)) /\ FreeRows(n) \subseteq HoldingRows
           /\ \A r \in FreeRows(n) : r.cid[1] \in 1 .. n /\ r.cid \notin Spent(n)
           /\ \A r, x \in FreeRows(n) : x.cid = r.cid => x = r
<1> DEFINE T == {Given(m) : m \in 1 .. n}
           f == [m \in 1 .. n |-> Given(m)]
<1>1. \A m \in 1 .. n : m \in Nat /\ log[m] \in Transactions
  OBVIOUS
<1>2. f \in Surjection(1 .. n, T)
  BY Zenon DEF Surjection
<1>3. IsFiniteSet(1 .. n)
  BY FS_Interval
<1>4. IsFiniteSet(T)
  <2> HIDE DEF f, T
  <2> QED  BY <1>2, <1>3, FS_Surjection, Zenon
<1>5. ASSUME NEW S \in T PROVE IsFiniteSet(S)
  <2>1. PICK m \in 1 .. n : S = Given(m)
    BY Zenon
  <2> QED  BY <1>1, <2>1, GivenRows, Zenon
<1> HIDE DEF T
<1>6. IsFiniteSet(UNION T)
  BY <1>4, <1>5, FS_UNION, Zenon
<1>7. FreeRows(n) \subseteq UNION T
  BY Zenon DEF FreeRows, T
<1>8. IsFiniteSet(FreeRows(n))
  BY <1>6, <1>7, FS_Subset, Zenon
<1>9. ASSUME NEW r \in FreeRows(n)
      PROVE  /\ r \in HoldingRows /\ r.cid[1] \in 1 .. n /\ r.cid \notin Spent(n)
             /\ r \in Given(r.cid[1])
  <2>1. PICK m \in 1 .. n : r \in Given(m)
    BY Zenon DEF FreeRows
  <2>2. r \in HoldingRows /\ r.cid[1] = m
    BY <1>1, <2>1, GivenRows, Zenon
  <2> QED  BY <2>1, <2>2, Zenon DEF FreeRows
<1>10. ASSUME NEW r \in FreeRows(n), NEW x \in FreeRows(n), x.cid = r.cid PROVE x = r
  BY <1>1, <1>9, <1>10, GivenRows
<1> QED  BY <1>8, <1>9, <1>10, Zenon

----------------------------------------------------------------------------
(* A row more, a row less.                                                 *)
----------------------------------------------------------------------------

\* The sum grows by the amount of a row that is new.
LEMMA SumAdd ==
    ASSUME NEW H \in SUBSET HoldingRows, IsFiniteSet(H), NEW r \in HoldingRows,
           \A x \in H : x.cid # r.cid, NEW p
    PROVE  /\ SumOf(H, p) \in Nat
           /\ SumOf(H \cup {r}, p) = SumOf(H, p) + (IF r.owner = p THEN r.amount ELSE 0)
<1> DEFINE M == {x \in H : x.owner = p}
           S == {<<x.cid, x.amount>> : x \in M}
           f == [x \in M |-> <<x.cid, x.amount>>]
<1>1. IsFiniteSet(M)
  BY FS_Subset, Zenon
<1>2. f \in Surjection(M, S)
  BY Zenon DEF Surjection
<1>3. IsFiniteSet(S)
  <2> HIDE DEF f, S, M
  <2> QED  BY <1>1, <1>2, FS_Surjection, Zenon
<1>4. \A x \in S : x[2] \in Nat /\ x[1] # r.cid
  BY DEF HoldingRows
<1>5. r.amount \in Nat
  BY Zenon DEF HoldingRows
<1>6. Total(S) \in Nat
  <2> HIDE DEF S
  <2> QED  BY <1>3, <1>4, UnitsFinite, Zenon
<1>7. SumOf(H, p) = Total(S)
  BY Zenon DEF SumOf
<1>8. CASE r.owner = p
  <2>1. {<<x.cid, x.amount>> : x \in {y \in H \cup {r} : y.owner = p}} = S \cup {<<r.cid, r.amount>>}
    BY <1>8, Zenon
  <2>2. Total(S \cup {<<r.cid, r.amount>>}) = Total(S) + r.amount
    <3> HIDE DEF S
    <3> QED  BY <1>3, <1>4, <1>5, TotalAdd, Zenon
  <2>3. SumOf(H \cup {r}, p) = Total(S \cup {<<r.cid, r.amount>>})
    <3> HIDE DEF S
    <3> QED  BY <2>1, Zenon DEF SumOf
  <2> HIDE DEF S
  <2> QED  BY <1>6, <1>7, <1>8, <2>2, <2>3, Zenon
<1>9. CASE r.owner # p
  <2>1. {y \in H \cup {r} : y.owner = p} = M
    BY <1>9, Zenon
  <2>2. SumOf(H \cup {r}, p) = Total(S)
    BY <2>1, Zenon DEF SumOf
  <2> HIDE DEF S
  <2> QED  BY <1>6, <1>7, <1>9, <2>2
<1> QED  BY <1>8, <1>9, Zenon

\* A row is added, or taken, with its amount.
LEMMA RowAdded ==
    ASSUME NEW H \in SUBSET HoldingRows, IsFiniteSet(H), NEW s \in Store, Balanced(s, H),
           NEW t, NEW cid, NEW owner \in Parties, NEW amount, \A x \in H : x.cid # cid,
           [cid |-> cid, owner |-> owner, amount |-> amount] \in HoldingRows,
           HoldingAdded(s, t, cid, owner, amount)
    PROVE  Balanced(t, H \cup {[cid |-> cid, owner |-> owner, amount |-> amount]})
<1> DEFINE r == [cid |-> cid, owner |-> owner, amount |-> amount]
<1>1. t.holdings = H \cup {r}
  BY Zenon DEF HoldingAdded, Balanced
<1>2. r.cid = cid /\ r.owner = owner /\ r.amount = amount /\ r \in HoldingRows
  BY Zenon
<1> HIDE DEF r
<1>3. ASSUME NEW p \in Parties PROVE t.balances[<<p, Registry>>] = SumOf(H \cup {r}, p)
  <2>1. /\ SumOf(H, p) \in Nat
        /\ SumOf(H \cup {r}, p) = SumOf(H, p) + (IF r.owner = p THEN r.amount ELSE 0)
    BY <1>2, SumAdd
  <2>2. t.balances[<<p, Registry>>] = SumOf(H, p) + (IF p = owner THEN amount ELSE 0)
    BY Zenon DEF HoldingAdded, Balanced
  <2> QED  BY <1>2, <2>1, <2>2, Zenon
<1> QED  BY <1>1, <1>3, Zenon DEF Balanced, r

LEMMA RowTaken ==
    ASSUME NEW H \in SUBSET HoldingRows, IsFiniteSet(H), NEW s \in Store, Balanced(s, H),
           NEW t, NEW r \in H, \A x \in H : x.cid = r.cid => x = r, HoldingTaken(s, t, r.cid),
           NEW L, L = {x \in H : x.cid # r.cid}
    PROVE  Balanced(t, L)
<1>1. t.holdings = L
  BY Zenon DEF HoldingTaken, Balanced
<1>2. H = L \cup {r} /\ L \in SUBSET HoldingRows /\ r \in HoldingRows /\ \A x \in L : x.cid # r.cid
  BY Zenon
<1>3. IsFiniteSet(L)
  BY FS_Subset, Zenon
<1>4. r.amount \in Nat /\ r.owner \in Parties
  BY <1>2, Zenon DEF HoldingRows
<1>5. ASSUME NEW p \in Parties
      PROVE  /\ SumOf(L, p) \in Nat
             /\ s.balances[<<p, Registry>>] = SumOf(L, p) + (IF r.owner = p THEN r.amount ELSE 0)
  <2>1. /\ SumOf(L, p) \in Nat
        /\ SumOf(L \cup {r}, p) = SumOf(L, p) + (IF r.owner = p THEN r.amount ELSE 0)
    BY <1>2, <1>3, SumAdd, Zenon
  <2>2. s.balances[<<p, Registry>>] = SumOf(L \cup {r}, p)
    BY <1>2, Zenon DEF Balanced
  <2> QED  BY <2>1, <2>2, Zenon
<1>6. r.amount <= s.balances[<<r.owner, Registry>>]
  BY <1>4, <1>5
<1>7. ASSUME NEW q \in Parties
      PROVE  t.balances[<<q, Registry>>]
               = s.balances[<<q, Registry>>] - (IF q = r.owner THEN r.amount ELSE 0)
  BY <1>6, Zenon DEF HoldingTaken, HoldingDebited, Balanced
<1>8. ASSUME NEW q \in Parties PROVE t.balances[<<q, Registry>>] = SumOf(L, q)
  <2>1. /\ SumOf(L, q) \in Nat
        /\ s.balances[<<q, Registry>>] = SumOf(L, q) + (IF r.owner = q THEN r.amount ELSE 0)
        /\ t.balances[<<q, Registry>>]
             = s.balances[<<q, Registry>>] - (IF q = r.owner THEN r.amount ELSE 0)
    BY <1>5, <1>7, Zenon
  <2> QED  BY <1>4, <2>1
<1> QED  BY <1>1, <1>8, Zenon DEF Balanced

----------------------------------------------------------------------------
(* The holdings: one more transaction.                                     *)
----------------------------------------------------------------------------

\* An offer uses up a row of an earlier transaction.
LEMMA SpentBefore ==
    ASSUME log \in Seq(Transactions), NEW n \in 0 .. Len(log), \A m \in 1 .. n : OfferLegal(m),
           NEW c \in Spent(n)
    PROVE  c[1] \in 1 .. n - 1
<1>1. PICK m \in 1 .. n : log[m].op = "offer" /\ log[m].input = c
  BY Zenon DEF Spent, Offers
<1>2. m - 1 \in 0 .. Len(log)
  OBVIOUS
<1>3. PICK r \in FreeRows(m - 1) : r.cid = c
  BY <1>1, Zenon DEF OfferLegal
<1>4. c[1] \in 1 .. m - 1
  BY <1>2, <1>3, FreeRowsAre, Zenon
<1> QED  BY <1>4

LEMMA UnionAdd == ASSUME NEW A, NEW G PROVE UNION (A \cup {G}) = (UNION A) \cup G
<1>1. ASSUME NEW x PROVE x \in UNION (A \cup {G}) <=> x \in (UNION A) \cup G
  BY Zenon
<1> QED  BY <1>1, Zenon

\* The rows left after one more transaction.
LEMMA NextRows ==
    ASSUME log \in Seq(Transactions), NEW n \in 1 .. Len(log), \A m \in 1 .. n : OfferLegal(m)
    PROVE  FreeRows(n) = {x \in FreeRows(n - 1) : ~(log[n].op = "offer" /\ x.cid = log[n].input)}
                         \cup Given(n)
<1>1. n \in Nat \ {0} /\ log[n] \in Transactions /\ 1 .. n = (1 .. n - 1) \cup {n}
  OBVIOUS
<1>2. UNION {Given(m) : m \in 1 .. n} = (UNION {Given(m) : m \in 1 .. n - 1}) \cup Given(n)
  <2> DEFINE A == {Given(m) : m \in 1 .. n - 1}
  <2>1. {Given(m) : m \in 1 .. n} = A \cup {Given(n)}
    BY <1>1, Zenon
  <2> HIDE DEF A
  <2>2. UNION (A \cup {Given(n)}) = (UNION A) \cup Given(n)
    BY UnionAdd, Zenon
  <2> QED  BY <2>1, <2>2, Zenon DEF A
<1>3. Spent(n) = Spent(n - 1) \cup {c \in {log[n].input} : log[n].op = "offer"}
  BY <1>1, NextPosition DEF Spent
<1>4. ASSUME NEW r \in Given(n) PROVE r.cid \notin Spent(n)
  <2>1. r.cid[1] = n
    BY <1>1, GivenRows, Zenon
  <2> QED  BY <2>1, SpentBefore
<1> QED  BY <1>2, <1>3, <1>4, Zenon DEF FreeRows

\* The holding that an offer locks has no row.
LEMMA LockedNotFree ==
    ASSUME log \in Seq(Transactions), NEW m \in 1 .. Len(log), log[m].op = "settle",
           SettleLegal(m), NEW n \in 0 .. Len(log), NEW x \in FreeRows(n)
    PROVE  x.cid # <<log[m].input[1], 1>>
<1>1. PICK k \in Offers(m - 1) : log[m].input = <<k, 2>>
  BY Zenon DEF SettleLegal
<1>2. log[k].op = "offer" /\ log[m].input[1] = k
  BY <1>1 DEF Offers
<1>3. PICK j \in 1 .. n : x \in Given(j)
  BY Zenon DEF FreeRows
<1>4. x.cid[1] = j /\ (x.cid[2] = 1 => log[j].op # "offer")
  BY <1>3, GivenRows
<1> QED  BY <1>2, <1>4

LEMMA HoldingAdvance ==
    ASSUME log \in Seq(Transactions), NEW n \in 1 .. Len(log), TokenLegal(n), SettleLegal(n),
           \A m \in 1 .. n : OfferLegal(m),
           NEW s \in Store, ~s.err, TokenTables(s, n - 1), HoldingTables(s, n - 1)
    PROVE  LET t == ProcessBatch(s, n, log[n]) IN ~t.err => HoldingTables(t, n)
<1> DEFINE tx == log[n]
           t == ProcessBatch(s, n, tx)
           e == TokenItem(n, tx)
           H == FreeRows(n - 1)
           R(c, p, a) == [cid |-> c, owner |-> p, amount |-> a]
<1>1. tx \in Transactions /\ n \in Nat \ {0} /\ n - 1 \in 0 .. Len(log)
  OBVIOUS
<1>2. /\ IsFiniteSet(H) /\ H \in SUBSET HoldingRows
      /\ \A r \in H : r.cid[1] \in 1 .. n - 1
      /\ \A r, x \in H : x.cid = r.cid => x = r
  BY <1>1, FreeRowsAre, Zenon
<1>3. Balanced(s, H)
  BY Zenon DEF HoldingTables
<1>4. FreeRows(n) = {x \in H : ~(tx.op = "offer" /\ x.cid = tx.input)} \cup Given(n)
  BY NextRows, Zenon
<1>5. \A k : \A x \in H : x.cid # <<n, k>>
  BY <1>1, <1>2
<1> HIDE DEF H
<1>6. ASSUME tx.op # "offer" PROVE FreeRows(n) = H \cup Given(n)
  BY <1>4, <1>6, Zenon
<1>7. ASSUME tx.op \in {"token", "witness"}, SameHoldings(s, t) PROVE HoldingTables(t, n)
  <2>1. FreeRows(n) = H
    BY <1>1, <1>6, <1>7, GivenBy, Zenon
  <2> QED  BY <1>3, <1>7, <2>1, Zenon DEF SameHoldings, HoldingTables, Balanced
<1>8. CASE tx.op = "witness"
  <2>1. t = s
    BY <1>1, <1>8, WitnessBatch, Zenon
  <2> QED  BY <1>7, <1>8, <2>1, Zenon DEF SameHoldings
<1>9. CASE tx.op = "token"
  <2>1. CASE tx.instrument \notin Listed
    <3>1. t = s
      BY <1>1, <1>9, <2>1, TokenBatch, Zenon DEF TokenLegal
    <3> QED  BY <1>7, <1>9, <3>1, Zenon DEF SameHoldings
  <2>2. CASE tx.instrument \in Listed
    <3>1. t = ProcessTransferEvent(s, e) /\ e \in TokenItems /\ e.cid = <<n, 1>>
      BY <1>1, <1>9, <2>2, TokenBatch DEF TokenLegal
    <3>2. e.cid \notin s.events /\ HoldersRight(s)
      <4>1. \A m \in 1 .. n - 1 : <<m, 1>> # <<n, 1>>
        BY <1>1
      <4>2. s.events = {<<m, 1>> : m \in Recorded(n - 1)} /\ HoldersRight(s)
        BY Zenon DEF TokenTables
      <4>3. Recorded(n - 1) \subseteq 1 .. n - 1
        BY Zenon DEF Recorded
      <4> HIDE DEF e
      <4> QED  BY <3>1, <4>1, <4>2, <4>3, Zenon
    <3>3. t.err \/ EventApplied(s, t, e)
      BY <3>1, <3>2, NewEvent, Zenon
    <3> QED  BY <1>7, <1>9, <3>3, Zenon DEF EventApplied
  <2> QED  BY <2>1, <2>2, Zenon
<1>10. CASE tx.op = "issue"
  <2>1. tx.to \in Parties /\ tx.amount \in Nat /\ R(<<n, 1>>, tx.to, tx.amount) \in HoldingRows
    BY <1>1, <1>10, AmountsNat, Zenon DEF Transactions, HoldingRows, ContractIds
  <2>2. HoldingAdded(s, t, <<n, 1>>, tx.to, tx.amount)
    BY <1>1, <1>10, IssueBatch, Zenon
  <2>3. Balanced(t, H \cup {R(<<n, 1>>, tx.to, tx.amount)})
    BY <1>2, <1>3, <1>5, <2>1, <2>2, RowAdded, Zenon
  <2>4. FreeRows(n) = H \cup {R(<<n, 1>>, tx.to, tx.amount)}
    BY <1>1, <1>6, <1>10, GivenBy, Zenon
  <2> QED  BY <2>3, <2>4, Zenon DEF HoldingTables
<1>11. CASE tx.op = "settle"
  <2>1. tx.to \in Parties /\ tx.amount \in Nat /\ R(<<n, 1>>, tx.to, tx.amount) \in HoldingRows
    BY <1>1, <1>11, AmountsNat, Zenon DEF Transactions, HoldingRows, ContractIds
  <2>2. PICK a, b \in Store :
              /\ TransferFinal(s, a, tx.input, OfferStatus(tx.choice))
              /\ HoldingTaken(a, b, <<tx.input[1], 1>>)
              /\ HoldingAdded(b, t, <<n, 1>>, tx.to, tx.amount)
    BY <1>1, <1>11, SettleBatch, Zenon
  <2> HIDE DEF t
  <2>3. Balanced(a, H)
    BY <1>3, <2>2, Zenon DEF TransferFinal, SameHoldings, Balanced
  <2>4. \A x \in H : x.cid # <<tx.input[1], 1>>
    BY <1>1, <1>11, LockedNotFree, Zenon DEF H
  <2>5. Balanced(b, H)
    <3>1. a.holdings = H
      BY <2>3, Zenon DEF Balanced
    <3>2. b.holdings = H
      BY <2>2, <2>4, <3>1, Zenon DEF HoldingTaken
    <3>3. \A q \in Parties : b.balances[<<q, Registry>>] = a.balances[<<q, Registry>>]
      BY <2>2, <2>4, <3>1, Zenon DEF HoldingTaken, HoldingDebited
    <3> QED  BY <2>3, <3>2, <3>3, Zenon DEF Balanced
  <2>6. Balanced(t, H \cup {R(<<n, 1>>, tx.to, tx.amount)})
    BY <1>2, <1>5, <2>1, <2>2, <2>5, RowAdded, Zenon
  <2>7. FreeRows(n) = H \cup {R(<<n, 1>>, tx.to, tx.amount)}
    BY <1>1, <1>6, <1>11, GivenBy, Zenon
  <2> QED  BY <2>6, <2>7, Zenon DEF HoldingTables, t
<1>12. CASE tx.op = "offer"
  <2>1. tx.from \in Parties /\ tx.change \in Nat /\ R(<<n, 3>>, tx.from, tx.change) \in HoldingRows
    BY <1>1, <1>12, ChangeNat, Zenon DEF HoldingRows, ContractIds
  <2>2. PICK a, b \in Store :
              /\ HoldingTaken(s, a, tx.input) /\ TransferInserted(a, b, OfferRow(<<n, 2>>, tx))
              /\ tx.change = 0 => t = b
              /\ tx.change # 0 => HoldingAdded(b, t, <<n, 3>>, tx.from, tx.change)
    BY <1>1, <1>12, OfferBatch, Zenon
  <2> HIDE DEF t
  <2>3. PICK r \in H : r.cid = tx.input
    <3>1. n \in 1 .. n
      BY <1>1
    <3> QED  BY <1>12, <3>1, Zenon DEF OfferLegal, H
  <2> DEFINE L == {x \in H : x.cid # tx.input}
  <2>4. Balanced(a, L)
    <3>1. HoldingTaken(s, a, r.cid) /\ L = {x \in H : x.cid # r.cid}
      BY <2>2, <2>3, Zenon
    <3>2. \A x \in H : x.cid = r.cid => x = r
      BY <1>2, Zenon
    <3> HIDE DEF L
    <3> QED  BY <1>2, <1>3, <3>1, <3>2, RowTaken, Zenon
  <2>5. L \in SUBSET HoldingRows /\ IsFiniteSet(L) /\ \A x \in L : x.cid # <<n, 3>>
    BY <1>2, <1>5, FS_Subset, Zenon
  <2>6. FreeRows(n) = L \cup Given(n)
    BY <1>4, <1>12, Zenon
  <2> HIDE DEF L
  <2>7. Balanced(b, L)
    BY <2>2, <2>4, Zenon DEF TransferInserted, SameHoldings, Balanced
  <2>8. CASE tx.change = 0
    <3>1. FreeRows(n) = L
      BY <1>1, <1>12, <2>6, <2>8, GivenBy, Zenon
    <3> QED  BY <2>2, <2>7, <2>8, <3>1, Zenon DEF HoldingTables, t
  <2>9. CASE tx.change # 0
    <3>1. Balanced(t, L \cup {R(<<n, 3>>, tx.from, tx.change)})
      BY <2>1, <2>2, <2>5, <2>7, <2>9, RowAdded, Zenon
    <3>2. FreeRows(n) = L \cup {R(<<n, 3>>, tx.from, tx.change)}
      BY <1>1, <1>12, <2>6, <2>9, GivenBy, Zenon
    <3> QED  BY <3>1, <3>2, Zenon DEF HoldingTables, t
  <2> QED  BY <2>8, <2>9, Zenon
<1>13. tx.op \in {"token", "issue", "witness", "offer", "settle"}
  BY <1>1, Zenon DEF Transactions
<1> QED  BY <1>8, <1>9, <1>10, <1>11, <1>12, <1>13, Zenon

----------------------------------------------------------------------------
(* The active holdings of the ledger are these rows.                       *)
----------------------------------------------------------------------------

LEMMA FreeIsActive ==
    ASSUME log \in Seq(Transactions), NEW n \in 0 .. Len(log),
           \A m \in 1 .. n : SettleLegal(m), NEW r \in FreeRows(n)
    PROVE  CreationOf(r) \in ActiveAt(n, "Holding") /\ ~CreationOf(r).args.locked
<1> DEFINE ev == CreationOf(r)
<1>1. PICK m \in 1 .. n : r \in Given(m)
  BY Zenon DEF FreeRows
<1>2. ev \in EventsOf(m)
  BY <1>1, GivenCreated
<1>3. ev.tmpl = "Holding" /\ ev.acsDelta /\ ev.created /\ ev.cid = r.cid /\ ~ev.args.locked
  BY FreeFields DEF CreationOf
<1> HIDE DEF ev
<1>4. ASSUME NEW k \in 1 .. n, NEW x \in EventsOf(k), x.tmpl = "Holding", x.acsDelta, ~x.created
      PROVE  x.cid # r.cid
  <2>1. log[k] \in Transactions
    OBVIOUS
  <2>2. \/ log[k].op = "offer" /\ x.cid = log[k].input
        \/ log[k].op = "settle" /\ x.cid = <<log[k].input[1], 1>>
    BY <1>4, <2>1, ConsumedBy, Zenon
  <2>3. CASE log[k].op = "offer" /\ x.cid = log[k].input
    BY <2>3, Zenon DEF FreeRows, Spent, Offers
  <2>4. CASE log[k].op = "settle" /\ x.cid = <<log[k].input[1], 1>>
    <3>1. SettleLegal(k) /\ k \in 1 .. Len(log)
      OBVIOUS
    <3> QED  BY <2>4, <3>1, LockedNotFree, Zenon
  <2> QED  BY <2>2, <2>3, <2>4, Zenon
<1>5. ev \in ActiveAt(n, "Holding")
  BY <1>1, <1>2, <1>3, <1>4, Zenon DEF ActiveAt, EventsUpTo
<1> QED  BY <1>3, <1>5, Zenon DEF ev

----------------------------------------------------------------------------
(* What the ledger lets an offer use up.                                   *)
----------------------------------------------------------------------------

\* A party's active free holdings amount to the sum of its rows.
LEMMA ActiveSum ==
    ASSUME log \in Seq(Transactions), NEW n \in 0 .. Len(log),
           \A m \in 1 .. n : SettleLegal(m), NEW p
    PROVE  LET free == {ev \in ActiveAt(n, "Holding") : ~ev.args.locked} IN
           Total({<<ev.cid, ev.args.amount>> : ev \in {x \in free : x.args.owner = p}})
             = SumOf(FreeRows(n), p)
<1> DEFINE free == {ev \in ActiveAt(n, "Holding") : ~ev.args.locked}
           A == {<<ev.cid, ev.args.amount>> : ev \in {x \in free : x.args.owner = p}}
           B == {<<r.cid, r.amount>> : r \in {x \in FreeRows(n) : x.owner = p}}
<1>1. ASSUME NEW r PROVE LET ev == CreationOf(r) IN
                         ev.cid = r.cid /\ ev.args.amount = r.amount /\ ev.args.owner = r.owner
  BY FreeFields DEF CreationOf
<1>2. ASSUME NEW a \in A PROVE a \in B
  <2>1. PICK ev \in free : ev.args.owner = p /\ a = <<ev.cid, ev.args.amount>>
    BY Zenon
  <2>2. PICK r \in FreeRows(n) : ev = CreationOf(r)
    BY <2>1, ActiveIsFree, Zenon
  <2> QED  BY <1>1, <2>1, <2>2, Zenon
<1>3. ASSUME NEW b \in B PROVE b \in A
  <2>1. PICK r \in FreeRows(n) : r.owner = p /\ b = <<r.cid, r.amount>>
    BY Zenon
  <2>2. CreationOf(r) \in free
    BY <2>1, FreeIsActive, Zenon
  <2> QED  BY <1>1, <2>1, <2>2, Zenon
<1>4. A = B
  <2> HIDE DEF A, B
  <2> QED  BY <1>2, <1>3, Zenon
<1> QED  BY <1>4, Zenon DEF SumOf
=============================================================================
