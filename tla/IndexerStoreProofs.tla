------------------------- MODULE IndexerStoreProofs -------------------------
(***************************************************************************)
(* The indexer's tables, statement by statement: what a method of the      *)
(* store, an item and the batch of a transaction change, and what they     *)
(* leave alone; which events a transaction has; and what the tables hold   *)
(* after the first n transactions of the ledger.                           *)
(***************************************************************************)
EXTENDS IndexerLedger, TLAPS

----------------------------------------------------------------------------
(* A batch, item by item.                                                  *)
----------------------------------------------------------------------------

\* What a batch of one, three or four events does.
LEMMA BatchOfOne ==
    ASSUME NEW st, NEW n, NEW tx, NEW a, Events(n, tx) = <<a>>
    PROVE  ProcessBatch(st, n, tx) = ProcessEvent(st, a)
<1> DEFINE D(f) == [k \in 0 .. Len(<<a>>) |->
                      IF k = 0 THEN st ELSE ProcessEvent(f[k - 1], <<a>>[k])]
           w == [k \in 0 .. Len(<<a>>) |-> IF k = 0 THEN st ELSE ProcessEvent(st, a)]
           c == CHOOSE f : f = D(f)
<1>1. w = D(w)
  OBVIOUS
<1>2. c = D(c)
  BY <1>1, Zenon
<1>3. ProcessBatch(st, n, tx) = c[Len(<<a>>)]
  BY DEF ProcessBatch
<1> HIDE DEF c, w
<1>4. Len(<<a>>) = 1
  BY Zenon
<1>5. c[0] = st
  BY <1>2, <1>4
<1>6. c[1] = ProcessEvent(c[0], a)
  BY <1>2, <1>4
<1> QED  BY <1>3, <1>4, <1>5, <1>6, Zenon

LEMMA BatchOfThree ==
    ASSUME NEW st, NEW n, NEW tx, NEW a, NEW b, NEW d, Events(n, tx) = <<a, b, d>>
    PROVE  ProcessBatch(st, n, tx) = ProcessEvent(ProcessEvent(ProcessEvent(st, a), b), d)
<1> DEFINE s == <<a, b, d>>
           D(f) == [k \in 0 .. Len(s) |-> IF k = 0 THEN st ELSE ProcessEvent(f[k - 1], s[k])]
           one == ProcessEvent(st, a)
           two == ProcessEvent(one, b)
           w == [k \in 0 .. Len(s) |-> CASE k = 0 -> st [] k = 1 -> one [] k = 2 -> two
                                         [] OTHER -> ProcessEvent(two, d)]
           c == CHOOSE f : f = D(f)
<1>1. w = D(w)
  <2> HIDE DEF one, two
  <2>1. one = ProcessEvent(st, a) /\ two = ProcessEvent(one, b)
    BY Zenon DEF one, two
  <2> QED  BY <2>1
<1>2. c = D(c)
  BY <1>1, Zenon
<1>3. ProcessBatch(st, n, tx) = c[Len(s)]
  BY DEF ProcessBatch
<1> HIDE DEF c, w
<1>4. Len(s) = 3 /\ s[1] = a /\ s[2] = b /\ s[3] = d
  BY Zenon
<1> HIDE DEF s
<1>5. c[0] = st
  BY <1>2, <1>4
<1>6. c[1] = ProcessEvent(c[0], a) /\ c[2] = ProcessEvent(c[1], b) /\ c[3] = ProcessEvent(c[2], d)
  BY <1>2, <1>4
<1> QED  BY <1>3, <1>4, <1>5, <1>6, Zenon

LEMMA BatchOfFour ==
    ASSUME NEW st, NEW n, NEW tx, NEW a, NEW b, NEW d, NEW e, Events(n, tx) = <<a, b, d, e>>
    PROVE  ProcessBatch(st, n, tx)
             = ProcessEvent(ProcessEvent(ProcessEvent(ProcessEvent(st, a), b), d), e)
<1> DEFINE s == <<a, b, d, e>>
           D(f) == [k \in 0 .. Len(s) |-> IF k = 0 THEN st ELSE ProcessEvent(f[k - 1], s[k])]
           one == ProcessEvent(st, a)
           two == ProcessEvent(one, b)
           three == ProcessEvent(two, d)
           w == [k \in 0 .. Len(s) |-> CASE k = 0 -> st [] k = 1 -> one [] k = 2 -> two
                                         [] k = 3 -> three
                                         [] OTHER -> ProcessEvent(three, e)]
           c == CHOOSE f : f = D(f)
<1>1. w = D(w)
  <2> HIDE DEF one, two, three
  <2>1. one = ProcessEvent(st, a) /\ two = ProcessEvent(one, b) /\ three = ProcessEvent(two, d)
    BY Zenon DEF one, two, three
  <2> QED  BY <2>1
<1>2. c = D(c)
  BY <1>1, Zenon
<1>3. ProcessBatch(st, n, tx) = c[Len(s)]
  BY DEF ProcessBatch
<1> HIDE DEF c, w
<1>4. Len(s) = 4 /\ s[1] = a /\ s[2] = b /\ s[3] = d /\ s[4] = e
  BY Zenon
<1> HIDE DEF s
<1>5. c[0] = st
  BY <1>2, <1>4
<1>6. c[1] = ProcessEvent(c[0], a) /\ c[2] = ProcessEvent(c[1], b) /\ c[3] = ProcessEvent(c[2], d)
  BY <1>2, <1>4
<1>7. c[4] = ProcessEvent(c[3], e)
  BY <1>2, <1>4
<1> QED  BY <1>3, <1>4, <1>5, <1>6, <1>7, Zenon

----------------------------------------------------------------------------
(* The methods of the store.                                               *)
----------------------------------------------------------------------------

HoldingRows == [cid : ContractIds, owner : Parties, amount : Nat]
TransferRows ==
    [cid : ContractIds, kind : {"offer", "direct"}, from : Parties, to : Parties,
     status : {"pending", "completed", "canceled", "rejected"}]
Store ==
    [events : SUBSET ContractIds, tokens : SUBSET Listed,
     supply : [Instruments -> Int], holders : [Instruments -> Int],
     balances : [Parties \X Instruments -> Nat],
     holdings : SUBSET HoldingRows, transfers : SUBSET TransferRows, err : BOOLEAN]

\* What a step on the tables leaves alone.
SameEvents(s, t) == t.events = s.events /\ t.tokens = s.tokens
SameTransfers(s, t) == t.transfers = s.transfers
SameTokens(s, t) ==
    /\ SameEvents(s, t) /\ t.supply = s.supply /\ t.holders = s.holders
    /\ \A p \in Parties, i \in Listed \cup Unlisted : t.balances[<<p, i>>] = s.balances[<<p, i>>]
SameHoldings(s, t) ==
    /\ t.holdings = s.holdings
    /\ \A p \in Parties : t.balances[<<p, Registry>>] = s.balances[<<p, Registry>>]

\* t is s with one balance moved by d, and the holder count of a known token.
Moved(s, t, p, i, d) ==
    /\ t \in Store
    /\ SameEvents(s, t) /\ SameTransfers(s, t)
    /\ t.supply = s.supply /\ t.holdings = s.holdings /\ t.err = s.err
    /\ t.balances = [s.balances EXCEPT ![<<p, i>>] = s.balances[<<p, i>>] + d]
    /\ t.holders = IF i \in s.tokens
         THEN [s.holders EXCEPT ![i] = s.holders[i]
                 + HolderDelta(s.balances[<<p, i>>], s.balances[<<p, i>>] + d)]
         ELSE s.holders

LEMMA BalanceDelta ==
    ASSUME NEW s \in Store, NEW p \in Parties, NEW i \in Instruments, NEW d \in Int,
           ~Underflows(s, p, i, d)
    PROVE  Moved(s, ApplyBalanceDelta(s, p, i, d), p, i, d)
<1> DEFINE old == s.balances[<<p, i>>]
           b == [s.balances EXCEPT ![<<p, i>>] = old + d]
           h == [s.holders EXCEPT ![i] = IF i \in s.tokens
                    THEN s.holders[i] + HolderDelta(old, old + d) ELSE s.holders[i]]
           t == [s EXCEPT !.balances = b, !.holders = h]
<1>1. ApplyBalanceDelta(s, p, i, d) = t
  BY Zenon DEF ApplyBalanceDelta, Store
<1>2. old \in Nat /\ old + d \in Nat
  BY DEF Store, Underflows
<1>3. b \in [Parties \X Instruments -> Nat]
  BY <1>2, Zenon DEF Store
<1>4. HolderDelta(old, old + d) \in Int
  BY <1>2 DEF HolderDelta
<1>5. h \in [Instruments -> Int]
  BY <1>4 DEF Store
<1>6. i \notin s.tokens => h = s.holders
  BY Zenon DEF Store
<1> HIDE DEF b, h
<1>7. t \in Store /\ t.balances = b /\ t.holders = h /\ t.err = s.err
  BY <1>3, <1>5, Zenon DEF Store
<1>8. SameEvents(s, t) /\ SameTransfers(s, t) /\ t.supply = s.supply /\ t.holdings = s.holdings
  BY Zenon DEF Store, SameEvents, SameTransfers
<1>9. i \in s.tokens => h = [s.holders EXCEPT ![i] = s.holders[i] + HolderDelta(old, old + d)]
  BY Zenon DEF h
<1> QED  BY <1>1, <1>6, <1>7, <1>8, <1>9, Zenon DEF b, Moved

\* A registry balance is no token balance.
RegistryMoved(s, t, p, d) ==
    /\ t \in Store /\ SameTokens(s, t) /\ SameTransfers(s, t)
    /\ t.holdings = s.holdings /\ t.err = s.err
    /\ \A q \in Parties : t.balances[<<q, Registry>>]
         = s.balances[<<q, Registry>>] + (IF q = p THEN d ELSE 0)

LEMMA RegistryDelta ==
    ASSUME NEW s \in Store, NEW p \in Parties, NEW d \in Int, ~Underflows(s, p, Registry, d)
    PROVE  RegistryMoved(s, ApplyBalanceDelta(s, p, Registry, d), p, d)
<1> DEFINE t == ApplyBalanceDelta(s, p, Registry, d)
<1>1. Registry \in Instruments
  BY Zenon DEF Instruments
<1>2. Moved(s, t, p, Registry, d)
  BY <1>1, BalanceDelta, Zenon
<1> HIDE DEF t
<1>3. Registry \notin s.tokens /\ s.balances \in [Parties \X Instruments -> Nat]
  BY LedgerAssumption, Zenon DEF Store
<1>4. ASSUME NEW q \in Parties, NEW i \in Listed \cup Unlisted
      PROVE  t.balances[<<q, i>>] = s.balances[<<q, i>>]
  <2>1. i # Registry /\ i \in Instruments
    BY LedgerAssumption, Zenon DEF Instruments
  <2> QED  BY <1>1, <1>2, <1>3, <2>1, Zenon DEF Moved
<1>5. ASSUME NEW q \in Parties
      PROVE  t.balances[<<q, Registry>>] = s.balances[<<q, Registry>>] + (IF q = p THEN d ELSE 0)
  BY <1>1, <1>2, <1>3 DEF Moved
<1> QED  BY <1>2, <1>3, <1>4, <1>5, Zenon DEF SameTokens, t, Moved, RegistryMoved

\* What the archive of a holding takes from the balances, if the row is there
\* once and the owner's balance covers it.
HoldingDebited(s, t, cid) ==
    /\ (\A x \in s.holdings : x.cid # cid) =>
         \A q \in Parties : t.balances[<<q, Registry>>] = s.balances[<<q, Registry>>]
    /\ \A r \in s.holdings :
         /\ r.cid = cid /\ \A x \in s.holdings : x.cid = cid => x = r
         /\ r.amount <= s.balances[<<r.owner, Registry>>]
         => \A q \in Parties : t.balances[<<q, Registry>>]
              = s.balances[<<q, Registry>>] - (IF q = r.owner THEN r.amount ELSE 0)
HoldingTaken(s, t, cid) ==
    /\ t \in Store /\ SameTokens(s, t) /\ SameTransfers(s, t) /\ t.err = s.err
    /\ t.holdings = {h \in s.holdings : h.cid # cid}
    /\ HoldingDebited(s, t, cid)

LEMMA TakeHoldingStep ==
    ASSUME NEW s \in Store, NEW cid
    PROVE  HoldingTaken(s, TakeHolding(s, cid), cid)
<1> DEFINE rows == {h \in s.holdings : h.cid = cid}
           h == CHOOSE h \in rows : TRUE
           taken == [s EXCEPT !.holdings = @ \ rows]
           t == TakeHolding(s, cid)
<1>1. CASE rows = {}
  <2>1. t = s
    BY <1>1, Zenon DEF TakeHolding
  <2>2. s.holdings = {x \in s.holdings : x.cid # cid}
    BY <1>1, Zenon
  <2>3. HoldingDebited(s, s, cid)
    BY <1>1, Zenon DEF HoldingDebited
  <2> QED  BY <2>1, <2>2, <2>3, Zenon DEF SameTokens, SameTransfers, SameEvents, HoldingTaken
<1>2. CASE rows # {}
  <2>1. h \in s.holdings /\ s.holdings \in SUBSET HoldingRows
    BY <1>2, Zenon DEF Store
  <2>2. h.owner \in Parties /\ -h.amount \in Int
    BY <2>1 DEF HoldingRows
  <2>3. taken \in Store /\ taken.holdings = {x \in s.holdings : x.cid # cid}
        /\ SameTokens(s, taken) /\ SameTransfers(s, taken) /\ taken.err = s.err
        /\ taken.balances = s.balances
    BY Zenon DEF Store, SameTokens, SameTransfers, SameEvents
  <2>4. t = IF Underflows(taken, h.owner, Registry, -h.amount) THEN taken
            ELSE ApplyBalanceDelta(taken, h.owner, Registry, -h.amount)
    BY <1>2, Zenon DEF TakeHolding
  <2>5. ASSUME NEW r \in s.holdings, r.cid = cid, \A x \in s.holdings : x.cid = cid => x = r,
               r.amount <= s.balances[<<r.owner, Registry>>]
        PROVE  h = r /\ ~Underflows(taken, h.owner, Registry, -h.amount)
    <3>1. h = r
      BY <1>2, <2>5, Zenon
    <3>2. s.balances[<<r.owner, Registry>>] \in Nat /\ r.amount \in Nat
      BY <2>5, Zenon DEF Store, HoldingRows, Instruments
    <3> HIDE DEF h, taken
    <3> QED  BY <2>3, <2>5, <3>1, <3>2 DEF Underflows
  <2> HIDE DEF taken, h, t
  <2>6. CASE Underflows(taken, h.owner, Registry, -h.amount)
    <3>1. HoldingDebited(s, taken, cid)
      BY <2>3, <2>6, <2>5, Zenon DEF HoldingDebited
    <3> QED  BY <2>3, <2>4, <2>6, <3>1, Zenon DEF t, HoldingTaken
  <2>7. CASE ~Underflows(taken, h.owner, Registry, -h.amount)
    <3>1. RegistryMoved(taken, t, h.owner, -h.amount)
      BY <2>2, <2>3, <2>4, <2>7, RegistryDelta, Zenon
    <3>2. HoldingDebited(s, t, cid)
      <4>1. ASSUME NEW r \in s.holdings, h = r, NEW q \in Parties
            PROVE  t.balances[<<q, Registry>>]
                     = s.balances[<<q, Registry>>] - (IF q = r.owner THEN r.amount ELSE 0)
        <5>1. s.balances[<<q, Registry>>] \in Nat /\ r.amount \in Nat
          BY Zenon DEF Store, HoldingRows, Instruments
        <5> QED  BY <2>3, <3>1, <4>1, <5>1 DEF RegistryMoved
      <4>2. ~\A x \in s.holdings : x.cid # cid
        BY <1>2, Zenon
      <4> QED  BY <2>5, <4>1, <4>2, Zenon DEF HoldingDebited
    <3> QED  BY <2>3, <3>1, <3>2
             DEF t, SameTokens, SameTransfers, SameEvents, RegistryMoved, HoldingTaken
  <2> QED  BY <2>6, <2>7, Zenon
<1> QED  BY <1>1, <1>2, Zenon

HoldingAdded(s, t, cid, owner, amount) ==
    /\ t \in Store /\ SameTokens(s, t) /\ SameTransfers(s, t) /\ t.err = s.err
    /\ t.holdings = IF \E x \in s.holdings : x.cid = cid THEN s.holdings
                    ELSE s.holdings \cup {[cid |-> cid, owner |-> owner, amount |-> amount]}
    /\ \A q \in Parties : t.balances[<<q, Registry>>]
         = s.balances[<<q, Registry>>] + (IF q = owner THEN amount ELSE 0)

LEMMA AddHoldingStep ==
    ASSUME NEW s \in Store, NEW h, ~h.locked,
           h.cid \in ContractIds, h.owner \in Parties, h.amount \in Nat
    PROVE  HoldingAdded(s, AddHolding(s, h), h.cid, h.owner, h.amount)
<1> DEFINE row == [cid |-> h.cid, owner |-> h.owner, amount |-> h.amount]
           held == IF \E x \in s.holdings : x.cid = h.cid THEN s.holdings ELSE s.holdings \cup {row}
           added == [s EXCEPT !.holdings = held]
           t == AddHolding(s, h)
<1>1. t = ApplyBalanceDelta(added, h.owner, Registry, h.amount)
  BY Zenon DEF AddHolding
<1>2. held \in SUBSET HoldingRows
  BY DEF Store, HoldingRows
<1> HIDE DEF held, t
<1>3. added \in Store /\ SameTokens(s, added) /\ SameTransfers(s, added) /\ added.err = s.err
      /\ added.holdings = held /\ added.balances = s.balances
  BY <1>2, Zenon DEF Store, SameTokens, SameTransfers, SameEvents
<1> HIDE DEF added
<1>4. ~Underflows(added, h.owner, Registry, h.amount)
  BY <1>3 DEF Underflows, Store, Instruments
<1>5. RegistryMoved(added, t, h.owner, h.amount)
  BY <1>1, <1>3, <1>4, RegistryDelta
<1>6. t \in Store /\ SameTokens(s, t) /\ SameTransfers(s, t) /\ t.err = s.err /\ t.holdings = held
  BY <1>3, <1>5 DEF SameTokens, SameTransfers, SameEvents, RegistryMoved
<1>7. \A q \in Parties : t.balances[<<q, Registry>>]
         = s.balances[<<q, Registry>>] + (IF q = h.owner THEN h.amount ELSE 0)
  BY <1>3, <1>5, Zenon DEF RegistryMoved
<1> QED  BY <1>6, <1>7, Zenon DEF HoldingAdded, held, t

TransferInserted(s, t, row) ==
    /\ t \in Store /\ SameTokens(s, t) /\ SameHoldings(s, t) /\ t.err = s.err
    /\ t.transfers = IF \E x \in s.transfers : x.cid = row.cid THEN s.transfers
                     ELSE s.transfers \cup {row}

LEMMA InsertTransferStep ==
    ASSUME NEW s \in Store, NEW row \in TransferRows
    PROVE  TransferInserted(s, InsertTransfer(s, row), row)
BY Zenon DEF TransferInserted, InsertTransfer, Store, SameTokens, SameHoldings, SameEvents

\* The row that FinalizeTransfer makes of a row.
Finalized(t, cid, status) ==
    IF t.cid = cid /\ t.status = "pending" THEN [t EXCEPT !.status = status] ELSE t
TransferFinal(s, t, cid, status) ==
    /\ t \in Store /\ SameTokens(s, t) /\ SameHoldings(s, t) /\ t.err = s.err
    /\ t.transfers = {Finalized(x, cid, status) : x \in s.transfers}

LEMMA FinalizeTransferStep ==
    ASSUME NEW s \in Store, NEW cid, NEW status \in {"completed", "canceled", "rejected"}
    PROVE  TransferFinal(s, FinalizeTransfer(s, cid, status), cid, status)
<1> DEFINE rows == {Finalized(x, cid, status) : x \in s.transfers}
<1>1. ASSUME NEW x \in s.transfers PROVE Finalized(x, cid, status) \in TransferRows
  BY DEF Store, TransferRows, Finalized
<1>2. rows \in SUBSET TransferRows
  BY <1>1, Zenon
<1>3. FinalizeTransfer(s, cid, status) = [s EXCEPT !.transfers = rows]
  BY Zenon DEF FinalizeTransfer, Finalized
<1> HIDE DEF rows
<1> QED  BY <1>2, <1>3, Zenon DEF rows, TransferFinal, Store, SameTokens, SameHoldings, SameEvents

----------------------------------------------------------------------------
(* The batch of each kind of transaction.                                  *)
----------------------------------------------------------------------------

\* The item of the creation of a holding, unlocked.
Put(s, cid, owner, amount) ==
    AddHolding(s, [type |-> "holding", cid |-> cid, archived |-> FALSE,
                   owner |-> owner, amount |-> amount, locked |-> FALSE])

LEMMA PutStep ==
    ASSUME NEW s \in Store, NEW cid \in ContractIds, NEW owner \in Parties, NEW amount \in Nat
    PROVE  HoldingAdded(s, Put(s, cid, owner, amount), cid, owner, amount)
<1> DEFINE h == [type |-> "holding", cid |-> cid, archived |-> FALSE,
                 owner |-> owner, amount |-> amount, locked |-> FALSE]
<1>1. ~h.locked /\ h.cid = cid /\ h.owner = owner /\ h.amount = amount
  BY Zenon
<1> HIDE DEF h
<1>2. HoldingAdded(s, AddHolding(s, h), h.cid, h.owner, h.amount)
  BY <1>1, AddHoldingStep, Zenon
<1> QED  BY <1>1, <1>2, Zenon DEF Put, h

\* The creations of a holding, free or locked.
Free(cid, owner, amount) == Created("Holding", cid, HoldingArgs(owner, amount, FALSE))
Locked(cid, owner, amount) == Created("Holding", cid, HoldingArgs(owner, amount, TRUE))

LEMMA HoldingCreated ==
    ASSUME NEW s, ~s.err, NEW cid, NEW owner, NEW amount
    PROVE  /\ ProcessEvent(s, Free(cid, owner, amount)) = Put(s, cid, owner, amount)
           /\ ProcessEvent(s, Locked(cid, owner, amount)) = s
<1> DEFINE a == Free(cid, owner, amount)
           b == Locked(cid, owner, amount)
           h == HoldingChange(b)
<1>1. /\ a.tmpl = "Holding" /\ a.created /\ a.acsDelta /\ a.cid = cid
      /\ a.args = [owner |-> owner, amount |-> amount, locked |-> FALSE]
  BY Zenon DEF Free, Created, HoldingArgs
<1>2. /\ b.tmpl = "Holding" /\ b.created /\ b.acsDelta /\ b.args.locked
  BY Zenon DEF Locked, Created, HoldingArgs
<1> HIDE DEF a, b
<1>3. Taken(a) /\ Decode(a) = HoldingChange(a) /\ Taken(b) /\ Decode(b) = h
  BY <1>1, <1>2, Zenon DEF Taken, Kept, Decodes, Decode
<1>4. HoldingChange(a) = [type |-> "holding", cid |-> cid, archived |-> FALSE,
                          owner |-> owner, amount |-> amount, locked |-> FALSE]
  BY <1>1 DEF HoldingChange
<1>5. ProcessEvent(s, a) = ProcessItem(s, HoldingChange(a)) /\ ProcessEvent(s, b) = ProcessItem(s, h)
  BY <1>3, Zenon DEF ProcessEvent
<1>6. ProcessItem(s, HoldingChange(a)) = Put(s, cid, owner, amount)
  BY <1>4 DEF ProcessItem, Put
<1>7. h.type = "holding" /\ ~h.archived /\ h.locked
  BY <1>2, Zenon DEF HoldingChange
<1> HIDE DEF h
<1>8. ProcessItem(s, h) = s
  BY <1>7, Zenon DEF ProcessItem, AddHolding
<1> QED  BY <1>5, <1>6, <1>8, Zenon DEF a, b

LEMMA HoldingConsumed ==
    ASSUME NEW s, ~s.err, NEW cid, NEW choice
    PROVE  ProcessEvent(s, Consumed("Holding", cid, choice)) = TakeHolding(s, cid)
<1> DEFINE a == Consumed("Holding", cid, choice)
           h == HoldingChange(a)
<1>1. a.tmpl = "Holding" /\ ~a.created /\ a.consuming /\ a.acsDelta /\ a.cid = cid
  BY Zenon DEF Consumed
<1> HIDE DEF a
<1>2. Taken(a) /\ Decode(a) = h
  BY <1>1, Zenon DEF Taken, Kept, Decodes, Decode
<1>3. h.type = "holding" /\ h.archived /\ h.cid = cid
  BY <1>1, Zenon DEF HoldingChange
<1> HIDE DEF h
<1>4. ProcessItem(s, h) = TakeHolding(s, cid)
  BY <1>3, Zenon DEF ProcessItem
<1> QED  BY <1>2, <1>4, Zenon DEF ProcessEvent, a

LEMMA OfferCreated ==
    ASSUME NEW s, ~s.err, NEW cid, NEW f, NEW t, NEW a
    PROVE  ProcessEvent(s, Created("TransferOffer", cid, [from |-> f, to |-> t, amount |-> a]))
             = InsertTransfer(s, [cid |-> cid, kind |-> "offer", status |-> "pending",
                                  from |-> f, to |-> t])
<1> DEFINE e == Created("TransferOffer", cid, [from |-> f, to |-> t, amount |-> a])
           o == OfferChange(e)
<1>1. /\ e.tmpl = "TransferOffer" /\ e.created /\ e.acsDelta /\ e.cid = cid
      /\ e.args = [from |-> f, to |-> t, amount |-> a]
  BY Zenon DEF Created
<1> HIDE DEF e
<1>2. Taken(e) /\ Decode(e) = o
  BY <1>1, Zenon DEF Taken, Kept, Decodes, Decode
<1>3. o.type = "offer" /\ ~o.archived /\ o.cid = cid /\ o.from = f /\ o.to = t
  BY <1>1 DEF OfferChange
<1> HIDE DEF o
<1>4. ProcessItem(s, o) = InsertTransfer(s, [cid |-> cid, kind |-> "offer", status |-> "pending",
                                             from |-> f, to |-> t])
  BY <1>3, Zenon DEF ProcessItem
<1> QED  BY <1>2, <1>4, Zenon DEF ProcessEvent, e

LEMMA OfferConsumed ==
    ASSUME NEW s, ~s.err, NEW cid, NEW choice
    PROVE  ProcessEvent(s, Consumed("TransferOffer", cid, choice))
             = FinalizeTransfer(s, cid, OfferStatus(choice))
<1> DEFINE a == Consumed("TransferOffer", cid, choice)
           o == OfferChange(a)
<1>1. /\ a.tmpl = "TransferOffer" /\ ~a.created /\ a.consuming /\ a.acsDelta /\ a.cid = cid
      /\ a.choice = choice
  BY Zenon DEF Consumed
<1> HIDE DEF a
<1>2. Taken(a) /\ Decode(a) = o
  BY <1>1, Zenon DEF Taken, Kept, Decodes, Decode
<1>3. o.type = "offer" /\ o.archived /\ o.cid = cid /\ o.status = OfferStatus(choice)
  BY <1>1, Zenon DEF OfferChange
<1> HIDE DEF o
<1>4. ProcessItem(s, o) = FinalizeTransfer(s, cid, OfferStatus(choice))
  BY <1>3, Zenon DEF ProcessItem
<1> QED  BY <1>2, <1>4, Zenon DEF ProcessEvent, a

LEMMA AmountsInNat == Amounts \subseteq Nat
BY LedgerAssumption, Zenon

LEMMA AmountsNat == ASSUME NEW tx \in Transactions PROVE tx.amount \in Nat
BY AmountsInNat, Zenon DEF Transactions

LEMMA IssueBatch ==
    ASSUME NEW s \in Store, ~s.err, NEW n \in Nat, NEW tx \in Transactions, tx.op = "issue"
    PROVE  HoldingAdded(s, ProcessBatch(s, n, tx), <<n, 1>>, tx.to, tx.amount)
<1>1. Events(n, tx) = <<Free(<<n, 1>>, tx.to, tx.amount)>>
  BY Zenon DEF Events, Free
<1>2. ProcessBatch(s, n, tx) = ProcessEvent(s, Free(<<n, 1>>, tx.to, tx.amount))
  BY <1>1, BatchOfOne, Zenon
<1>3. ProcessBatch(s, n, tx) = Put(s, <<n, 1>>, tx.to, tx.amount)
  BY <1>2, HoldingCreated
<1>4. tx.to \in Parties /\ tx.amount \in Nat /\ <<n, 1>> \in ContractIds
  BY AmountsNat, Zenon DEF Transactions, ContractIds
<1> QED  BY <1>3, <1>4, PutStep, Zenon

\* A transaction that the stream only witnesses leaves no item.
LEMMA WitnessBatch ==
    ASSUME NEW s, NEW n, NEW tx, tx.op = "witness"
    PROVE  ProcessBatch(s, n, tx) = s
<1> DEFINE a == Witnessed(Created("Holding", <<n, 1>>, HoldingArgs(tx.to, tx.amount, FALSE)))
           b == [Witnessed(Consumed("Holding", <<n, 1>>, "Fetch")) EXCEPT !.consuming = FALSE]
           d == Witnessed(Consumed("Holding", <<n, 1>>, "Archive"))
<1>1. Events(n, tx) = <<a, b, d>>
  BY Zenon DEF Events
<1>2. ~a.acsDelta /\ ~b.acsDelta /\ ~d.acsDelta
  BY Zenon DEF Witnessed, Created, Consumed
<1> HIDE DEF a, b, d
<1>3. ProcessEvent(s, a) = s /\ ProcessEvent(s, b) = s /\ ProcessEvent(s, d) = s
  BY <1>2, Zenon DEF ProcessEvent, Taken, Kept
<1> QED  BY <1>1, <1>3, BatchOfThree

OfferRow(cid, tx) ==
    [cid |-> cid, kind |-> "offer", status |-> "pending", from |-> tx.from, to |-> tx.to]

\* An offer: the holding is taken, the transfer put on record, the change added.
LEMMA OfferBatch ==
    ASSUME NEW s \in Store, ~s.err, NEW n \in Nat, NEW tx \in Transactions, tx.op = "offer"
    PROVE  LET t == ProcessBatch(s, n, tx) IN
           \E a, b \in Store :
              /\ HoldingTaken(s, a, tx.input) /\ TransferInserted(a, b, OfferRow(<<n, 2>>, tx))
              /\ tx.change = 0 => t = b
              /\ tx.change # 0 => HoldingAdded(b, t, <<n, 3>>, tx.from, tx.change)
<1> DEFINE x == Consumed("Holding", tx.input, "Lock")
           y == Locked(<<n, 1>>, tx.from, tx.amount)
           z == Created("TransferOffer", <<n, 2>>,
                        [from |-> tx.from, to |-> tx.to, amount |-> tx.amount])
           w == Free(<<n, 3>>, tx.from, tx.change)
           a == TakeHolding(s, tx.input)
           b == InsertTransfer(a, OfferRow(<<n, 2>>, tx))
           t == ProcessBatch(s, n, tx)
<1>1. tx \in [op : {"offer"}, input : ContractIds, from : Parties, to : Parties,
              amount : Amounts, change : Amounts \cup {0}]
  BY Zenon DEF Transactions
<1>2. tx.from \in Parties /\ tx.to \in Parties /\ tx.change \in Amounts \cup {0}
  BY <1>1, Zenon
<1>3. tx.change \in Nat
  <2>1. 0 \in Nat
    BY Zenon
  <2> QED  BY <1>2, <2>1, AmountsInNat, Zenon
<1>4. OfferRow(<<n, 2>>, tx) \in TransferRows /\ <<n, 3>> \in ContractIds
  BY <1>2, Zenon DEF OfferRow, TransferRows, ContractIds
<1>5. HoldingTaken(s, a, tx.input)
  BY TakeHoldingStep, Zenon
<1>6. a \in Store /\ ~a.err
  BY <1>5, Zenon DEF HoldingTaken
<1>7. ProcessEvent(s, x) = a
  BY HoldingConsumed, Zenon
<1> HIDE DEF a
<1>8. TransferInserted(a, b, OfferRow(<<n, 2>>, tx))
  BY <1>4, <1>6, InsertTransferStep, Zenon
<1>9. b \in Store /\ ~b.err
  BY <1>6, <1>8, Zenon DEF TransferInserted
<1>10. ProcessEvent(a, y) = a
  BY <1>6, HoldingCreated
<1>11. ProcessEvent(a, z) = b
  BY <1>6, OfferCreated, Zenon DEF OfferRow
<1> HIDE DEF b
<1>12. ProcessEvent(b, w) = Put(b, <<n, 3>>, tx.from, tx.change)
  BY <1>9, HoldingCreated
<1>13. Events(n, tx) = IF tx.change = 0 THEN <<x, y, z>> ELSE <<x, y, z, w>>
  BY Zenon DEF Events, Free, Locked
<1> HIDE DEF x, y, z, w
<1>14. CASE tx.change = 0
  <2>1. t = b
    BY <1>7, <1>10, <1>11, <1>13, <1>14, BatchOfThree
  <2> QED  BY <1>5, <1>6, <1>8, <1>9, <1>14, <2>1, Zenon
<1>15. CASE tx.change # 0
  <2>1. t = Put(b, <<n, 3>>, tx.from, tx.change)
    BY <1>7, <1>10, <1>11, <1>12, <1>13, <1>15, BatchOfFour
  <2>2. HoldingAdded(b, t, <<n, 3>>, tx.from, tx.change)
    BY <1>2, <1>3, <1>4, <1>9, <2>1, PutStep, Zenon
  <2> QED  BY <1>5, <1>6, <1>8, <1>9, <1>15, <2>2, Zenon
<1> QED  BY <1>14, <1>15, Zenon

\* A settlement: the transfer becomes final, the locked holding is taken, the
\* holding returned or handed over is added.
LEMMA SettleBatch ==
    ASSUME NEW s \in Store, ~s.err, NEW n \in Nat, NEW tx \in Transactions, tx.op = "settle"
    PROVE  LET t == ProcessBatch(s, n, tx) IN
           \E a, b \in Store :
              /\ TransferFinal(s, a, tx.input, OfferStatus(tx.choice))
              /\ HoldingTaken(a, b, <<tx.input[1], 1>>)
              /\ HoldingAdded(b, t, <<n, 1>>, tx.to, tx.amount)
<1> DEFINE x == Consumed("TransferOffer", tx.input, tx.choice)
           y == Consumed("Holding", <<tx.input[1], 1>>, "Unlock")
           z == Free(<<n, 1>>, tx.to, tx.amount)
           a == FinalizeTransfer(s, tx.input, OfferStatus(tx.choice))
           b == TakeHolding(a, <<tx.input[1], 1>>)
           t == ProcessBatch(s, n, tx)
<1>1. tx.to \in Parties /\ tx.amount \in Nat /\ <<n, 1>> \in ContractIds
  BY AmountsNat, Zenon DEF Transactions, ContractIds
<1>2. OfferStatus(tx.choice) \in {"completed", "canceled", "rejected"}
  BY Zenon DEF OfferStatus
<1>3. TransferFinal(s, a, tx.input, OfferStatus(tx.choice))
  BY <1>2, FinalizeTransferStep, Zenon
<1>4. a \in Store /\ ~a.err
  BY <1>3, Zenon DEF TransferFinal
<1>5. ProcessEvent(s, x) = a
  BY OfferConsumed, Zenon
<1> HIDE DEF a
<1>6. HoldingTaken(a, b, <<tx.input[1], 1>>)
  BY <1>4, TakeHoldingStep, Zenon
<1>7. b \in Store /\ ~b.err
  BY <1>4, <1>6, Zenon DEF HoldingTaken
<1>8. ProcessEvent(a, y) = b
  BY <1>4, HoldingConsumed, Zenon
<1> HIDE DEF b
<1>9. ProcessEvent(b, z) = Put(b, <<n, 1>>, tx.to, tx.amount)
  BY <1>7, HoldingCreated
<1>10. Events(n, tx) = <<x, y, z>>
  BY Zenon DEF Events, Free
<1> HIDE DEF x, y, z
<1>11. t = Put(b, <<n, 1>>, tx.to, tx.amount)
  BY <1>5, <1>8, <1>9, <1>10, BatchOfThree
<1>12. HoldingAdded(b, t, <<n, 1>>, tx.to, tx.amount)
  BY <1>1, <1>7, <1>11, PutStep, Zenon
<1> QED  BY <1>3, <1>4, <1>6, <1>7, <1>12, Zenon

----------------------------------------------------------------------------
(* Holder counts, and the batch of a token transfer event.                 *)
----------------------------------------------------------------------------

\* The holder counts of the listed instruments are right.
HoldersRight(s) ==
    \A i \in Listed : s.holders[i] = Cardinality({p \in Parties : s.balances[<<p, i>>] > 0})

\* The item of a token transfer event.
TokenItems ==
    {e \in [type : {"event"}, cid : ContractIds, instrument : Listed,
            from : Parties \cup {NoParty}, to : Parties \cup {NoParty}, amount : Nat,
            kind : {"MINT", "BURN", "TRANSFER"}] :
        /\ e.from # NoParty \/ e.to # NoParty
        /\ e.kind = "MINT" <=> e.from = NoParty
        /\ e.kind = "BURN" <=> e.to = NoParty}
TokenItem(n, tx) ==
    TransferEvent(Created("TokenTransferEvent", <<n, 1>>,
                          [instrument |-> tx.instrument, from |-> tx.from,
                           to |-> tx.to, amount |-> tx.amount]))

LEMMA TokenBatch ==
    ASSUME NEW s, ~s.err, NEW n \in Nat, NEW tx \in Transactions, tx.op = "token",
           tx.from # NoParty \/ tx.to # NoParty
    PROVE  /\ tx.instrument \in Listed =>
                /\ ProcessBatch(s, n, tx) = ProcessTransferEvent(s, TokenItem(n, tx))
                /\ TokenItem(n, tx) \in TokenItems
           /\ tx.instrument \notin Listed => ProcessBatch(s, n, tx) = s
           /\ TokenItem(n, tx).cid = <<n, 1>> /\ TokenItem(n, tx).instrument = tx.instrument
           /\ TokenItem(n, tx).from = tx.from /\ TokenItem(n, tx).to = tx.to
           /\ TokenItem(n, tx).amount = tx.amount
<1> DEFINE a == Created("TokenTransferEvent", <<n, 1>>,
                        [instrument |-> tx.instrument, from |-> tx.from,
                         to |-> tx.to, amount |-> tx.amount])
           e == TokenItem(n, tx)
<1>1. tx \in [op : {"token"}, instrument : Listed \cup Unlisted, from : Parties \cup {NoParty},
              to : Parties \cup {NoParty}, amount : Amounts]
  BY Zenon DEF Transactions
<1>2. /\ tx.from \in Parties \cup {NoParty} /\ tx.to \in Parties \cup {NoParty}
      /\ tx.amount \in Nat
  BY <1>1, AmountsInNat, Zenon
<1>3. /\ a.tmpl = "TokenTransferEvent" /\ a.created /\ a.acsDelta /\ a.cid = <<n, 1>>
      /\ a.args.instrument = tx.instrument /\ a.args.from = tx.from
      /\ a.args.to = tx.to /\ a.args.amount = tx.amount
  BY Zenon DEF Created
<1>4. Events(n, tx) = <<a>>
  BY Zenon DEF Events
<1>5. e = TransferEvent(a)
  BY Zenon DEF TokenItem
<1> HIDE DEF a, e
<1>6. ProcessBatch(s, n, tx) = ProcessEvent(s, a)
  BY <1>4, BatchOfOne, Zenon
<1>7. Taken(a) <=> tx.instrument \in Listed
  BY <1>3, Zenon DEF Taken, Kept, Decodes
<1>8. Decode(a) = e
  BY <1>3, <1>5, Zenon DEF Decode
<1>9. /\ e.type = "event" /\ e.cid = <<n, 1>> /\ e.instrument = tx.instrument
      /\ e.from = tx.from /\ e.to = tx.to /\ e.amount = tx.amount
  BY <1>3, <1>5, Zenon DEF TransferEvent
<1>10. tx.instrument \in Listed => e \in TokenItems
  <2>1. <<n, 1>> \in ContractIds
    BY Zenon DEF ContractIds
  <2> QED  BY <1>2, <1>3, <1>5, <2>1, Zenon DEF TransferEvent, TokenItems
<1>11. ProcessItem(s, e) = ProcessTransferEvent(s, e)
  BY <1>9, Zenon DEF ProcessItem
<1> QED  BY <1>6, <1>7, <1>8, <1>9, <1>10, <1>11, Zenon DEF ProcessEvent, e

----------------------------------------------------------------------------
(* A token transfer event, statement by statement.                         *)
----------------------------------------------------------------------------

\* What a new event does to the tables before the balances move.
EventKnown(s, t, e) ==
    /\ t \in Store /\ ~t.err /\ HoldersRight(t) /\ e.instrument \in t.tokens
    /\ t.holdings = s.holdings /\ t.balances = s.balances /\ SameTransfers(s, t)
    /\ t.events = s.events \cup {e.cid}
    /\ \A j \in Listed :
        t.supply[j] = s.supply[j] + (IF j = e.instrument THEN SupplyDelta(e) ELSE 0)
Supplied(s, e) ==
    ApplySupplyDelta([s EXCEPT !.events = @ \cup {e.cid}, !.tokens = @ \cup {e.instrument}],
                     e.instrument, SupplyDelta(e))

LEMMA SuppliedStep ==
    ASSUME NEW s \in Store, ~s.err, HoldersRight(s), NEW e \in TokenItems
    PROVE  EventKnown(s, Supplied(s, e), e)
<1> DEFINE k == [s EXCEPT !.events = @ \cup {e.cid}, !.tokens = @ \cup {e.instrument}]
           i == e.instrument
           d == SupplyDelta(e)
           t == Supplied(s, e)
<1>1. i \in Listed /\ i \in Instruments /\ e.cid \in ContractIds /\ d \in Int
  BY DEF TokenItems, Instruments, SupplyDelta
<1>2. /\ k \in Store /\ k.err = s.err /\ k.holders = s.holders /\ k.supply = s.supply
      /\ k.balances = s.balances /\ k.holdings = s.holdings /\ k.transfers = s.transfers
      /\ i \in k.tokens /\ k.events = s.events \cup {e.cid}
  BY <1>1, Zenon DEF Store
<1>3. t = [k EXCEPT !.supply[i] = @ + d]
  BY <1>2, Zenon DEF Supplied, ApplySupplyDelta
<1> HIDE DEF k, d, t
<1>4. k.supply \in [Instruments -> Int] /\ [k.supply EXCEPT ![i] = @ + d] \in [Instruments -> Int]
  BY <1>1, <1>2 DEF Store
<1>5. /\ t \in Store /\ t.supply = [k.supply EXCEPT ![i] = @ + d]
      /\ t.err = s.err /\ t.holders = s.holders
      /\ t.balances = s.balances /\ t.holdings = s.holdings /\ t.transfers = s.transfers
      /\ i \in t.tokens /\ t.events = s.events \cup {e.cid}
  BY <1>2, <1>3, <1>4, Zenon DEF Store
<1>6. ASSUME NEW j \in Listed PROVE t.supply[j] = s.supply[j] + (IF j = i THEN d ELSE 0)
  BY <1>1, <1>2, <1>4, <1>5 DEF Instruments
<1>7. HoldersRight(t)
  BY Zenon, <1>5 DEF HoldersRight
<1> QED  BY <1>5, <1>6, <1>7, Zenon DEF EventKnown, SameTransfers, t, d

----------------------------------------------------------------------------
(* A token transfer event as a whole.                                      *)
----------------------------------------------------------------------------

\* An event that is on record changes nothing.
LEMMA KnownEvent ==
    ASSUME NEW s, NEW e, e.cid \in s.events
    PROVE  ProcessTransferEvent(s, e) = s
BY Zenon DEF ProcessTransferEvent

----------------------------------------------------------------------------
(* The token tables.                                                       *)
----------------------------------------------------------------------------

\* The token tables are those of the first n transactions.
Recorded(n) == {m \in 1 .. n : log[m].op = "token" /\ log[m].instrument \in Listed}
TokenTables(s, n) ==
    /\ s.events = {<<m, 1>> : m \in Recorded(n)}
    /\ HoldersRight(s)
    /\ \A i \in Listed : s.supply[i] = Sent(n, NoParty, i) - Received(n, NoParty, i)
    /\ \A i \in Listed, p \in Parties :
        Elsewhere[p] = 0 => s.balances[<<p, i>>] = SeenBalance(n, p, i)
    /\ \A p \in Parties, i \in Unlisted : s.balances[<<p, i>>] = 0

\* The ledger let transaction m spend no more than its sender had.
TokenLegal(m) ==
    log[m].op = "token" =>
        /\ log[m].from # NoParty \/ log[m].to # NoParty
        /\ log[m].from # NoParty =>
            Elsewhere[log[m].from] + SeenBalance(m - 1, log[m].from, log[m].instrument)
                >= log[m].amount

\* Holdings and offers leave the token tables alone, and never fail.
LEMMA OtherBatch ==
    ASSUME NEW s \in Store, ~s.err, NEW n \in Nat, NEW tx \in Transactions, tx.op # "token"
    PROVE  LET t == ProcessBatch(s, n, tx) IN t \in Store /\ ~t.err /\ SameTokens(s, t)
<1> DEFINE t == ProcessBatch(s, n, tx)
<1>1. tx.op \in {"issue", "witness", "offer", "settle"}
  BY Zenon DEF Transactions
<1>2. CASE tx.op = "issue"
  <2>1. HoldingAdded(s, t, <<n, 1>>, tx.to, tx.amount)
    BY <1>2, IssueBatch, Zenon
  <2> QED  BY <2>1, Zenon DEF HoldingAdded
<1>3. CASE tx.op = "witness"
  <2>1. t = s
    BY <1>3, WitnessBatch, Zenon
  <2> QED  BY <2>1, Zenon DEF SameTokens, SameEvents
<1>4. CASE tx.op = "offer"
  <2>1. PICK a, b \in Store :
              /\ HoldingTaken(s, a, tx.input) /\ TransferInserted(a, b, OfferRow(<<n, 2>>, tx))
              /\ tx.change = 0 => t = b
              /\ tx.change # 0 => HoldingAdded(b, t, <<n, 3>>, tx.from, tx.change)
    BY <1>4, OfferBatch, Zenon
  <2> HIDE DEF t
  <2>2. SameTokens(s, a) /\ SameTokens(a, b) /\ ~b.err
    BY <2>1, Zenon DEF HoldingTaken, TransferInserted
  <2>3. SameTokens(b, t) /\ t \in Store /\ ~t.err
    BY <2>1, <2>2, Zenon DEF HoldingAdded, SameTokens, SameEvents
  <2> QED  BY <2>2, <2>3, Zenon DEF SameTokens, SameEvents, t
<1>5. CASE tx.op = "settle"
  <2>1. PICK a, b \in Store :
              /\ TransferFinal(s, a, tx.input, OfferStatus(tx.choice))
              /\ HoldingTaken(a, b, <<tx.input[1], 1>>)
              /\ HoldingAdded(b, t, <<n, 1>>, tx.to, tx.amount)
    BY <1>5, SettleBatch, Zenon
  <2> HIDE DEF t
  <2>2. SameTokens(s, a) /\ SameTokens(a, b) /\ SameTokens(b, t) /\ t \in Store /\ ~t.err
    BY <2>1, Zenon DEF TransferFinal, HoldingTaken, HoldingAdded
  <2> QED  BY <2>2, Zenon DEF SameTokens, SameEvents, t
<1> QED  BY <1>1, <1>2, <1>3, <1>4, <1>5, Zenon

LEMMA SameTokensTables ==
    ASSUME NEW s, NEW t, SameTokens(s, t), NEW n, TokenTables(s, n)
    PROVE  TokenTables(t, n)
<1>1. ASSUME NEW j \in Listed
      PROVE  /\ {p \in Parties : t.balances[<<p, j>>] > 0}
                  = {p \in Parties : s.balances[<<p, j>>] > 0}
             /\ t.holders[j] = s.holders[j]
  BY Zenon DEF SameTokens
<1>2. HoldersRight(t)
  BY <1>1, Zenon DEF HoldersRight, TokenTables
<1> QED  BY <1>2, Zenon DEF TokenTables, SameTokens, SameEvents

----------------------------------------------------------------------------
(* The token tables: the last transaction again.                           *)
----------------------------------------------------------------------------

\* Applying the last transaction again changes no token table.
LEMMA TokenRepeat ==
    ASSUME log \in Seq(Transactions), NEW n \in 1 .. Len(log), TokenLegal(n),
           NEW s \in Store, ~s.err, TokenTables(s, n)
    PROVE  LET t == ProcessBatch(s, n, log[n]) IN t \in Store /\ ~t.err /\ TokenTables(t, n)
<1> DEFINE tx == log[n]
           t == ProcessBatch(s, n, tx)
           e == TokenItem(n, tx)
<1>1. tx \in Transactions /\ n \in Nat
  OBVIOUS
<1>2. CASE tx.op # "token"
  BY <1>1, <1>2, OtherBatch, SameTokensTables, Zenon
<1>3. CASE tx.op = "token" /\ tx.instrument \notin Listed
  <2>1. t = s
    BY <1>1, <1>3, TokenBatch, Zenon DEF TokenLegal
  <2> QED  BY <2>1, Zenon
<1>4. CASE tx.op = "token" /\ tx.instrument \in Listed
  <2>1. t = ProcessTransferEvent(s, e) /\ e.cid = <<n, 1>>
    BY <1>1, <1>4, TokenBatch, Zenon DEF TokenLegal
  <2>2. e.cid \in s.events
    BY <1>4, <2>1 DEF TokenTables, Recorded
  <2>3. t = s
    BY <2>1, <2>2, KnownEvent, Zenon
  <2> QED  BY <2>3, Zenon
<1> QED  BY <1>2, <1>3, <1>4, Zenon

\* What the ledger's first n transactions say does not change when it grows.
LEMMA PrefixStable ==
    ASSUME log \in Seq(Transactions), NEW tx \in Transactions, log' = Append(log, tx),
           NEW n \in 0 .. Len(log)
    PROVE  /\ \A m \in 1 .. n : log'[m] = log[m]
           /\ \A p, i : Received(n, p, i)' = Received(n, p, i) /\ Sent(n, p, i)' = Sent(n, p, i)
<1>1. \A m \in 1 .. n : log'[m] = log[m]
  OBVIOUS
<1>2. ASSUME NEW p, NEW i PROVE Received(n, p, i)' = Received(n, p, i)
  <2>1. {k \in TokenMoves(n, i) : log[k].to = p}' = {k \in TokenMoves(n, i) : log[k].to = p}
    BY <1>1, Zenon DEF TokenMoves
  <2>2. \A m \in {k \in TokenMoves(n, i) : log[k].to = p} : log'[m] = log[m]
    BY <1>1, Zenon DEF TokenMoves
  <2> QED  BY <2>1, <2>2, Zenon DEF Received
<1>3. ASSUME NEW p, NEW i PROVE Sent(n, p, i)' = Sent(n, p, i)
  <2>1. {k \in TokenMoves(n, i) : log[k].from = p}' = {k \in TokenMoves(n, i) : log[k].from = p}
    BY <1>1, Zenon DEF TokenMoves
  <2>2. \A m \in {k \in TokenMoves(n, i) : log[k].from = p} : log'[m] = log[m]
    BY <1>1, Zenon DEF TokenMoves
  <2> QED  BY <2>1, <2>2, Zenon DEF Sent
<1> QED  BY <1>1, <1>2, <1>3, Zenon

----------------------------------------------------------------------------
(* The events of a transaction.                                            *)
----------------------------------------------------------------------------

\* The offer that transaction m creates.
Offered(m, tx) ==
    Created("TransferOffer", <<m, 2>>, [from |-> tx.from, to |-> tx.to, amount |-> tx.amount])

\* The fields of the events.
TokenEvent(m, tx) ==
    Created("TokenTransferEvent", <<m, 1>>,
            [instrument |-> tx.instrument, from |-> tx.from, to |-> tx.to, amount |-> tx.amount])

LEMMA TokenEventFields ==
    ASSUME NEW m, NEW tx PROVE TokenEvent(m, tx).tmpl = "TokenTransferEvent"
BY Zenon DEF TokenEvent, Created

LEMMA FreeFields ==
    ASSUME NEW c, NEW p, NEW a
    PROVE  LET ev == Free(c, p, a) IN
           /\ ev.tmpl = "Holding" /\ ev.created /\ ev.acsDelta /\ ev.cid = c
           /\ ev.args.owner = p /\ ev.args.amount = a /\ ~ev.args.locked
BY Zenon DEF Free, Created, HoldingArgs

LEMMA LockedFields ==
    ASSUME NEW c, NEW p, NEW a
    PROVE  LET ev == Locked(c, p, a) IN
           /\ ev.tmpl = "Holding" /\ ev.created /\ ev.acsDelta /\ ev.cid = c
           /\ ev.args.owner = p /\ ev.args.amount = a /\ ev.args.locked
BY Zenon DEF Locked, Created, HoldingArgs

LEMMA OfferedFields ==
    ASSUME NEW m, NEW tx
    PROVE  LET ev == Offered(m, tx) IN
           /\ ev.tmpl = "TransferOffer" /\ ev.created /\ ev.acsDelta
           /\ ev.cid = <<m, 2>> /\ ev.args.to = tx.to /\ ev.args.from = tx.from
           /\ ev.args.amount = tx.amount
BY Zenon DEF Offered, Created

LEMMA ConsumedFields ==
    ASSUME NEW tmpl, NEW c, NEW choice
    PROVE  LET ev == Consumed(tmpl, c, choice) IN
           /\ ev.tmpl = tmpl /\ ~ev.created /\ ev.acsDelta /\ ev.cid = c
BY Zenon DEF Consumed

LEMMA ElementsOf ==
    ASSUME NEW m, NEW a, NEW b, NEW d, NEW e
    PROVE  /\ Events(m, log[m]) = <<a>> => EventsOf(m) = {a}
           /\ Events(m, log[m]) = <<a, b, d>> => EventsOf(m) = {a, b, d}
           /\ Events(m, log[m]) = <<a, b, d, e>> => EventsOf(m) = {a, b, d, e}
<1>1. ASSUME Events(m, log[m]) = <<a>> PROVE EventsOf(m) = {a}
  BY <1>1 DEF EventsOf
<1>2. ASSUME Events(m, log[m]) = <<a, b, d>> PROVE EventsOf(m) = {a, b, d}
  BY <1>2 DEF EventsOf
<1>3. ASSUME Events(m, log[m]) = <<a, b, d, e>> PROVE EventsOf(m) = {a, b, d, e}
  BY <1>3 DEF EventsOf
<1> QED  BY <1>1, <1>2, <1>3, Zenon

\* The events of a transaction, by what it does.
LEMMA EventsOfOp ==
    ASSUME NEW m
    PROVE  LET tx == log[m] IN
           /\ tx.op = "token" => EventsOf(m) = {TokenEvent(m, tx)}
           /\ tx.op = "issue" => EventsOf(m) = {Free(<<m, 1>>, tx.to, tx.amount)}
           /\ tx.op = "offer" => EventsOf(m) =
                {Consumed("Holding", tx.input, "Lock"), Locked(<<m, 1>>, tx.from, tx.amount),
                 Offered(m, tx)}
                \cup (IF tx.change = 0 THEN {} ELSE {Free(<<m, 3>>, tx.from, tx.change)})
           /\ tx.op = "settle" => EventsOf(m) =
                {Consumed("TransferOffer", tx.input, tx.choice),
                 Consumed("Holding", <<tx.input[1], 1>>, "Unlock"),
                 Free(<<m, 1>>, tx.to, tx.amount)}
           /\ tx.op = "witness" => \A ev \in EventsOf(m) : ~ev.acsDelta
<1> DEFINE tx == log[m]
<1>1. CASE tx.op = "token"
  <2> DEFINE a == TokenEvent(m, tx)
  <2>1. Events(m, tx) = <<a>>
    BY <1>1, Zenon DEF Events, TokenEvent
  <2> HIDE DEF a
  <2>2. EventsOf(m) = {a}
    BY <2>1, ElementsOf, Zenon
  <2> QED  BY <1>1, <2>2, Zenon DEF a
<1>2. CASE tx.op = "issue"
  <2> DEFINE a == Free(<<m, 1>>, tx.to, tx.amount)
  <2>1. Events(m, tx) = <<a>>
    BY <1>2, Zenon DEF Events, Free
  <2> HIDE DEF a
  <2>2. EventsOf(m) = {a}
    BY <2>1, ElementsOf, Zenon
  <2> QED  BY <1>2, <2>2, Zenon DEF a
<1>3. CASE tx.op = "offer"
  <2> DEFINE a == Consumed("Holding", tx.input, "Lock")
             b == Locked(<<m, 1>>, tx.from, tx.amount)
             d == Offered(m, tx)
             e == Free(<<m, 3>>, tx.from, tx.change)
  <2>1. Events(m, tx) = IF tx.change = 0 THEN <<a, b, d>> ELSE <<a, b, d, e>>
    BY <1>3, Zenon DEF Events, Free, Locked, Offered
  <2> HIDE DEF a, b, d, e
  <2>2. CASE tx.change = 0
    <3>1. Events(m, tx) = <<a, b, d>>
      BY <2>1, <2>2, Zenon
    <3>2. EventsOf(m) = {a, b, d}
      BY <3>1, ElementsOf
    <3> QED  BY <1>3, <2>2, <3>2, Zenon DEF a, b, d
  <2>3. CASE tx.change # 0
    <3>1. Events(m, tx) = <<a, b, d, e>>
      BY <2>1, <2>3, Zenon
    <3>2. EventsOf(m) = {a, b, d, e}
      BY <3>1, ElementsOf
    <3> QED  BY <1>3, <2>3, <3>2, Zenon DEF a, b, d, e
  <2> QED  BY <2>2, <2>3, Zenon
<1>4. CASE tx.op = "settle"
  <2> DEFINE a == Consumed("TransferOffer", tx.input, tx.choice)
             b == Consumed("Holding", <<tx.input[1], 1>>, "Unlock")
             d == Free(<<m, 1>>, tx.to, tx.amount)
  <2>1. Events(m, tx) = <<a, b, d>>
    BY <1>4, Zenon DEF Events, Free
  <2> HIDE DEF a, b, d
  <2>2. EventsOf(m) = {a, b, d}
    BY <2>1, ElementsOf
  <2> QED  BY <1>4, <2>2, Zenon DEF a, b, d
<1>5. CASE tx.op = "witness"
  <2> DEFINE a == Witnessed(Created("Holding", <<m, 1>>, HoldingArgs(tx.to, tx.amount, FALSE)))
             b == [Witnessed(Consumed("Holding", <<m, 1>>, "Fetch")) EXCEPT !.consuming = FALSE]
             d == Witnessed(Consumed("Holding", <<m, 1>>, "Archive"))
  <2>1. Events(m, tx) = <<a, b, d>>
    BY <1>5, Zenon DEF Events
  <2>2. ~a.acsDelta /\ ~b.acsDelta /\ ~d.acsDelta
    BY Zenon DEF Witnessed, Created, Consumed
  <2> HIDE DEF a, b, d
  <2>3. EventsOf(m) = {a, b, d}
    BY <2>1, ElementsOf
  <2> QED  BY <1>5, <2>2, <2>3, Zenon
<1> QED  BY <1>1, <1>2, <1>3, <1>4, <1>5, Zenon

\* The contracts a transaction creates ...
LEMMA CreatedBy ==
    ASSUME NEW m, log[m] \in Transactions, NEW ev \in EventsOf(m), ev.acsDelta, ev.created
    PROVE  LET tx == log[m] IN
           /\ ev.tmpl = "TransferOffer" => tx.op = "offer" /\ ev = Offered(m, tx)
           /\ ev.tmpl = "Holding" =>
                \/ tx.op \in {"issue", "settle"} /\ ev = Free(<<m, 1>>, tx.to, tx.amount)
                \/ tx.op = "offer" /\ ev = Locked(<<m, 1>>, tx.from, tx.amount)
                \/ tx.op = "offer" /\ tx.change # 0 /\ ev = Free(<<m, 3>>, tx.from, tx.change)
<1> DEFINE tx == log[m]
<1>1. CASE tx.op = "token"
  <2>1. ev = TokenEvent(m, tx)
    BY <1>1, EventsOfOp, Zenon
  <2> QED  BY <2>1, TokenEventFields, Zenon
<1>2. CASE tx.op = "issue"
  <2>1. ev = Free(<<m, 1>>, tx.to, tx.amount)
    BY <1>2, EventsOfOp, Zenon
  <2> QED  BY <1>2, <2>1, FreeFields
<1>3. CASE tx.op = "offer"
  <2>1. \/ ev = Consumed("Holding", tx.input, "Lock")
        \/ ev = Locked(<<m, 1>>, tx.from, tx.amount)
        \/ ev = Offered(m, tx)
        \/ tx.change # 0 /\ ev = Free(<<m, 3>>, tx.from, tx.change)
    BY <1>3, EventsOfOp, Zenon
  <2> QED  BY <1>3, <2>1, ConsumedFields, LockedFields, OfferedFields, FreeFields
<1>4. CASE tx.op = "settle"
  <2>1. \/ ev = Consumed("TransferOffer", tx.input, tx.choice)
        \/ ev = Consumed("Holding", <<tx.input[1], 1>>, "Unlock")
        \/ ev = Free(<<m, 1>>, tx.to, tx.amount)
    BY <1>4, EventsOfOp, Zenon
  <2> QED  BY <1>4, <2>1, ConsumedFields, FreeFields
<1>5. CASE tx.op = "witness"
  BY <1>5, EventsOfOp, Zenon
<1> QED  BY <1>1, <1>2, <1>3, <1>4, <1>5, Zenon DEF Transactions

\* ... and consumes.
LEMMA ConsumedBy ==
    ASSUME NEW m, log[m] \in Transactions, NEW ev \in EventsOf(m), ev.acsDelta, ~ev.created,
           ev.tmpl = "Holding"
    PROVE  LET tx == log[m] IN
           \/ tx.op = "offer" /\ ev.cid = tx.input
           \/ tx.op = "settle" /\ ev.cid = <<tx.input[1], 1>>
<1> DEFINE tx == log[m]
<1>1. CASE tx.op = "token"
  <2>1. ev = TokenEvent(m, tx)
    BY <1>1, EventsOfOp, Zenon
  <2> QED  BY <2>1, TokenEventFields, Zenon
<1>2. CASE tx.op = "issue"
  <2>1. ev = Free(<<m, 1>>, tx.to, tx.amount)
    BY <1>2, EventsOfOp, Zenon
  <2> QED  BY <1>2, <2>1, FreeFields, Zenon
<1>3. CASE tx.op = "offer"
  <2>1. \/ ev = Consumed("Holding", tx.input, "Lock")
        \/ ev = Locked(<<m, 1>>, tx.from, tx.amount)
        \/ ev = Offered(m, tx)
        \/ ev = Free(<<m, 3>>, tx.from, tx.change)
    BY <1>3, EventsOfOp, Zenon
  <2> QED  BY <1>3, <2>1, ConsumedFields, LockedFields, OfferedFields, FreeFields
<1>4. CASE tx.op = "settle"
  <2>1. \/ ev = Consumed("TransferOffer", tx.input, tx.choice)
        \/ ev = Consumed("Holding", <<tx.input[1], 1>>, "Unlock")
        \/ ev = Free(<<m, 1>>, tx.to, tx.amount)
    BY <1>4, EventsOfOp, Zenon
  <2> QED  BY <1>4, <2>1, ConsumedFields, FreeFields
<1>5. CASE tx.op = "witness"
  BY <1>5, EventsOfOp, Zenon
<1> QED  BY <1>1, <1>2, <1>3, <1>4, <1>5, Zenon DEF Transactions

----------------------------------------------------------------------------
(* The transfers.                                                          *)
----------------------------------------------------------------------------

Offers(n) == {m \in 1 .. n : log[m].op = "offer"}
IsDirect(tx) ==
    /\ tx.op = "token" /\ tx.instrument \in Listed
    /\ tx.from # NoParty /\ tx.to # NoParty
Direct(n) == {m \in 1 .. n : IsDirect(log[m])}
Settlements(n, o) == {m \in 1 .. n : log[m].op = "settle" /\ log[m].input = o}

\* The row of an offer, and of a direct transfer, after n transactions.
OfferRowRight(t, n) ==
    /\ t.kind = "offer" /\ \E m \in Offers(n) : t.cid = <<m, 2>>
    /\ Settlements(n, t.cid) = {} => t.status = "pending"
    /\ \A m \in Settlements(n, t.cid) : t.status = OfferStatus(log[m].choice)
DirectRowRight(t, n) ==
    t.kind = "direct" /\ t.status = "completed" /\ \E m \in Direct(n) : t.cid = <<m, 1>>
TransferTables(s, n) ==
    /\ \A t \in s.transfers : OfferRowRight(t, n) \/ DirectRowRight(t, n)
    /\ \A m \in Offers(n) : \E t \in s.transfers : t.cid = <<m, 2>>
    /\ \A m \in Direct(n) : \E t \in s.transfers : t.cid = <<m, 1>>

\* The ledger settles an offer that was made, once.
SettleLegal(m) ==
    log[m].op = "settle" =>
        /\ \E k \in Offers(m - 1) : log[m].input = <<k, 2>>
        /\ Settlements(m - 1, log[m].input) = {}

LEMMA SettleInput ==
    ASSUME NEW m, SettleLegal(m), log[m].op = "settle"
    PROVE  \E k \in 1 .. m - 1 : log[m].input = <<k, 2>>
BY Zenon DEF SettleLegal, Offers

\* What a batch does to the transfers.
RowInserted(s, t, row) ==
    t.transfers = IF \E x \in s.transfers : x.cid = row.cid THEN s.transfers
                  ELSE s.transfers \cup {row}
RowFinal(s, t, cid, status) == t.transfers = {Finalized(x, cid, status) : x \in s.transfers}

LEMMA IssueTransfers ==
    ASSUME NEW s \in Store, ~s.err, NEW n \in Nat, NEW tx \in Transactions,
           tx.op \in {"issue", "witness"}
    PROVE  ProcessBatch(s, n, tx).transfers = s.transfers
<1>1. CASE tx.op = "issue"
  <2>1. HoldingAdded(s, ProcessBatch(s, n, tx), <<n, 1>>, tx.to, tx.amount)
    BY <1>1, IssueBatch, Zenon
  <2> QED  BY <1>1, <2>1, Zenon DEF HoldingAdded, SameTransfers
<1>2. CASE tx.op = "witness"
  BY <1>2, WitnessBatch, Zenon
<1> QED  BY <1>1, <1>2, Zenon

LEMMA OfferTransfers ==
    ASSUME NEW s \in Store, ~s.err, NEW n \in Nat, NEW tx \in Transactions, tx.op = "offer"
    PROVE  RowInserted(s, ProcessBatch(s, n, tx), OfferRow(<<n, 2>>, tx))
<1> DEFINE t == ProcessBatch(s, n, tx)
<1>1. PICK a, b \in Store :
              /\ HoldingTaken(s, a, tx.input) /\ TransferInserted(a, b, OfferRow(<<n, 2>>, tx))
              /\ tx.change = 0 => t = b
              /\ tx.change # 0 => HoldingAdded(b, t, <<n, 3>>, tx.from, tx.change)
  BY OfferBatch, Zenon
<1> HIDE DEF t
<1>2. a.transfers = s.transfers /\ t.transfers = b.transfers
  BY <1>1, Zenon DEF HoldingTaken, HoldingAdded, SameTransfers
<1> QED  BY <1>1, <1>2, Zenon DEF TransferInserted, RowInserted, t

LEMMA SettleTransfers ==
    ASSUME NEW s \in Store, ~s.err, NEW n \in Nat, NEW tx \in Transactions, tx.op = "settle"
    PROVE  RowFinal(s, ProcessBatch(s, n, tx), tx.input, OfferStatus(tx.choice))
<1> DEFINE t == ProcessBatch(s, n, tx)
<1>1. PICK a, b \in Store :
              /\ TransferFinal(s, a, tx.input, OfferStatus(tx.choice))
              /\ HoldingTaken(a, b, <<tx.input[1], 1>>)
              /\ HoldingAdded(b, t, <<n, 1>>, tx.to, tx.amount)
  BY SettleBatch, Zenon
<1> HIDE DEF t
<1>2. t.transfers = a.transfers
  BY <1>1, Zenon DEF HoldingTaken, HoldingAdded, SameTransfers
<1> QED  BY <1>1, <1>2, Zenon DEF TransferFinal, RowFinal, t

\* The sets of positions grow by the last one.
LEMMA NextPosition ==
    ASSUME NEW n \in Nat \ {0}
    PROVE  /\ log[n].op = "offer" => Offers(n) = Offers(n - 1) \cup {n}
           /\ log[n].op # "offer" => Offers(n) = Offers(n - 1)
           /\ IsDirect(log[n]) => Direct(n) = Direct(n - 1) \cup {n}
           /\ ~IsDirect(log[n]) => Direct(n) = Direct(n - 1)
           /\ log[n].op = "settle" =>
                Settlements(n, log[n].input) = Settlements(n - 1, log[n].input) \cup {n}
           /\ \A o : log[n].op # "settle" \/ log[n].input # o =>
                Settlements(n, o) = Settlements(n - 1, o)
<1>1. 1 .. n = (1 .. n - 1) \cup {n} /\ n \notin 1 .. n - 1
  OBVIOUS
<1>2. /\ log[n].op = "offer" => Offers(n) = Offers(n - 1) \cup {n}
      /\ log[n].op # "offer" => Offers(n) = Offers(n - 1)
  BY <1>1, Zenon DEF Offers
<1>3. /\ IsDirect(log[n]) => Direct(n) = Direct(n - 1) \cup {n}
      /\ ~IsDirect(log[n]) => Direct(n) = Direct(n - 1)
  BY <1>1, Zenon DEF Direct
<1>4. log[n].op = "settle" =>
        Settlements(n, log[n].input) = Settlements(n - 1, log[n].input) \cup {n}
  BY <1>1, Zenon DEF Settlements
<1>5. ASSUME NEW o, log[n].op # "settle" \/ log[n].input # o
      PROVE  Settlements(n, o) = Settlements(n - 1, o)
  BY <1>1, <1>5, Zenon DEF Settlements
<1> QED  BY <1>2, <1>3, <1>4, <1>5, Zenon

\* Nothing that the transfers are about happened.
LEMMA NoTransfer ==
    ASSUME NEW n \in Nat \ {0}, log[n].op \notin {"offer", "settle"}, ~IsDirect(log[n]),
           NEW s, NEW t, t.transfers = s.transfers, TransferTables(s, n - 1)
    PROVE  TransferTables(t, n)
<1>1. Offers(n) = Offers(n - 1) /\ Direct(n) = Direct(n - 1)
  BY NextPosition, Zenon
<1>2. \A o : Settlements(n, o) = Settlements(n - 1, o)
  BY NextPosition, Zenon
<1>3. \A x : /\ OfferRowRight(x, n - 1) => OfferRowRight(x, n)
             /\ DirectRowRight(x, n - 1) => DirectRowRight(x, n)
  BY <1>1, <1>2, Zenon DEF OfferRowRight, DirectRowRight
<1> QED  BY <1>1, <1>3, Zenon DEF TransferTables

\* The last transaction applied again leaves the transfers as they are.
LEMMA TransferRepeat ==
    ASSUME log \in Seq(Transactions), NEW n \in 1 .. Len(log), TokenLegal(n), SettleLegal(n),
           NEW s \in Store, ~s.err, TokenTables(s, n), TransferTables(s, n)
    PROVE  LET t == ProcessBatch(s, n, log[n]) IN TransferTables(t, n)
<1> DEFINE tx == log[n]
           t == ProcessBatch(s, n, tx)
           e == TokenItem(n, tx)
<1>1. tx \in Transactions /\ n \in Nat \ {0}
  OBVIOUS
<1>2. SUFFICES t.transfers = s.transfers
  BY Zenon DEF TransferTables
<1>3. CASE tx.op \in {"issue", "witness"}
  BY <1>1, <1>3, IssueTransfers, Zenon
<1>4. CASE tx.op = "token" /\ tx.instrument \notin Listed
  BY <1>1, <1>4, TokenBatch, Zenon DEF TokenLegal
<1>5. CASE tx.op = "token" /\ tx.instrument \in Listed
  <2>1. t = ProcessTransferEvent(s, e) /\ e.cid = <<n, 1>>
    BY <1>1, <1>5, TokenBatch DEF TokenLegal
  <2>2. e.cid \in s.events
    BY <1>5, <2>1 DEF TokenTables, Recorded
  <2> QED  BY <2>1, <2>2, KnownEvent, Zenon
<1>6. CASE tx.op = "offer"
  <2>1. n \in Offers(n)
    BY <1>6 DEF Offers
  <2>2. \E x \in s.transfers : x.cid = <<n, 2>>
    BY <2>1, Zenon DEF TransferTables
  <2>3. RowInserted(s, t, OfferRow(<<n, 2>>, tx)) /\ OfferRow(<<n, 2>>, tx).cid = <<n, 2>>
    BY <1>1, <1>6, OfferTransfers, Zenon DEF OfferRow
  <2> HIDE DEF t
  <2>4. t.transfers = s.transfers
    BY <2>2, <2>3, Zenon DEF RowInserted
  <2> QED  BY <2>4, Zenon DEF t
<1>7. CASE tx.op = "settle"
  <2> DEFINE f == OfferStatus(tx.choice)
  <2>1. RowFinal(s, t, tx.input, f)
    BY <1>1, <1>7, SettleTransfers, Zenon
  <2>2. n \in Settlements(n, tx.input) /\ f # "pending"
    BY <1>7 DEF Settlements, OfferStatus
  <2>3. ASSUME NEW x \in s.transfers PROVE Finalized(x, tx.input, f) = x
    BY <2>2, Zenon DEF TransferTables, OfferRowRight, DirectRowRight, Finalized
  <2> QED  BY <2>1, <2>3 DEF RowFinal
<1>8. tx.op \in {"token", "issue", "witness", "offer", "settle"}
  BY <1>1, Zenon DEF Transactions
<1> QED  BY <1>3, <1>4, <1>5, <1>6, <1>7, <1>8, Zenon

----------------------------------------------------------------------------
(* What the ledger lets happen to offers.                                  *)
----------------------------------------------------------------------------

\* An active offer was made and is not settled.
LEMMA ActiveOffer ==
    ASSUME log \in Seq(Transactions), NEW n \in 0 .. Len(log),
           NEW o \in ActiveAt(n, "TransferOffer")
    PROVE  (\E k \in Offers(n) : o.cid = <<k, 2>>) /\ Settlements(n, o.cid) = {}
<1>1. PICK m \in 1 .. n : o \in EventsOf(m)
  BY Zenon DEF ActiveAt, EventsUpTo
<1>2. o.tmpl = "TransferOffer" /\ o.acsDelta /\ o.created
  BY Zenon DEF ActiveAt
<1>3. log[m] \in Transactions
  OBVIOUS
<1>4. log[m].op = "offer" /\ o.cid = <<m, 2>>
  <2>1. log[m].op = "offer" /\ o = Offered(m, log[m])
    BY <1>1, <1>2, <1>3, CreatedBy, Zenon
  <2> QED  BY <2>1, OfferedFields, Zenon
<1>5. ASSUME NEW k \in Settlements(n, o.cid) PROVE FALSE
  <2> DEFINE x == Consumed("TransferOffer", log[k].input, log[k].choice)
  <2>1. k \in 1 .. n /\ log[k].op = "settle" /\ log[k].input = o.cid
    BY Zenon DEF Settlements
  <2>2. x \in EventsOf(k)
    BY <2>1, EventsOfOp, Zenon
  <2>3. x.tmpl = "TransferOffer" /\ x.acsDelta /\ ~x.created /\ x.cid = o.cid
    BY <2>1, ConsumedFields
  <2> QED  BY <2>1, <2>2, <2>3, Zenon DEF ActiveAt, EventsUpTo
<1> QED  BY <1>1, <1>4, <1>5, Zenon DEF Offers

\* What was offered and settled does not change when the ledger grows.
LEMMA PositionsStable ==
    ASSUME log \in Seq(Transactions), NEW tx \in Transactions, log' = Append(log, tx),
           NEW n \in 0 .. Len(log)
    PROVE  /\ Offers(n)' = Offers(n) /\ Direct(n)' = Direct(n)
           /\ \A o : Settlements(n, o)' = Settlements(n, o)
<1>1. \A m \in 1 .. n : log'[m] = log[m]
  BY PrefixStable, Zenon
<1> QED  BY <1>1, Zenon DEF Offers, Direct, IsDirect, Settlements

LEMMA SettleLegalAppend ==
    ASSUME log \in Seq(Transactions), NEW tx \in Transactions, log' = Append(log, tx),
           \A m \in 1 .. Len(log) : SettleLegal(m), tx.op = "settle" => SettleOp(tx)
    PROVE  \A m \in 1 .. Len(log') : SettleLegal(m)'
<1> SUFFICES ASSUME NEW m \in 1 .. Len(log') PROVE SettleLegal(m)'
  BY Zenon
<1>1. Len(log') = Len(log) + 1 /\ Len(log) \in Nat /\ m - 1 \in 0 .. Len(log)
  OBVIOUS
<1>2. Offers(m - 1)' = Offers(m - 1) /\ \A o : Settlements(m - 1, o)' = Settlements(m - 1, o)
  BY <1>1, PositionsStable, Zenon
<1>3. CASE m \in 1 .. Len(log)
  <2>1. log'[m] = log[m] /\ SettleLegal(m)
    BY <1>3
  <2> QED  BY <1>2, <2>1, Zenon DEF SettleLegal
<1>4. CASE m = Len(log) + 1
  <2>1. log'[m] = tx /\ m - 1 = Len(log)
    BY <1>4
  <2>2. ASSUME tx.op = "settle"
        PROVE  /\ \E k \in Offers(m - 1) : tx.input = <<k, 2>>
               /\ Settlements(m - 1, tx.input) = {}
    <3>1. PICK o \in ActiveAt(Len(log), "TransferOffer") : o.cid = tx.input
      BY <2>2, Zenon DEF SettleOp
    <3> QED  BY <1>1, <2>1, <3>1, ActiveOffer, Zenon
  <2> QED  BY <1>2, <2>1, <2>2, Zenon DEF SettleLegal
<1> QED  BY <1>1, <1>3, <1>4

----------------------------------------------------------------------------
(* The holdings.                                                           *)
----------------------------------------------------------------------------

\* The rows of the free holdings that transaction m creates.
Given(m) ==
    LET tx == log[m] IN
    CASE tx.op \in {"issue", "settle"} ->
            {[cid |-> <<m, 1>>, owner |-> tx.to, amount |-> tx.amount]}
      [] tx.op = "offer" /\ tx.change # 0 ->
            {[cid |-> <<m, 3>>, owner |-> tx.from, amount |-> tx.change]}
      [] OTHER -> {}

\* The holdings that offers used up, and the rows left.
Spent(n) == {log[m].input : m \in Offers(n)}
FreeRows(n) == {r \in UNION {Given(m) : m \in 1 .. n} : r.cid \notin Spent(n)}

\* The ledger lets an offer use up a free holding of the sender, whole.
OfferLegal(m) ==
    log[m].op = "offer" =>
        \E r \in FreeRows(m - 1) :
            /\ r.cid = log[m].input /\ r.owner = log[m].from
            /\ r.amount = log[m].amount + log[m].change

\* The parts of a transaction that say what it does to holdings.
LEMMA ChangeNat ==
    ASSUME NEW tx \in Transactions, tx.op = "offer"
    PROVE  tx.change \in Nat /\ tx.from \in Parties
<1>1. tx.from \in Parties /\ tx.change \in Amounts \cup {0}
  BY Zenon DEF Transactions
<1>2. 0 \in Nat
  BY Zenon
<1> QED  BY <1>1, <1>2, AmountsInNat, Zenon

LEMMA GivenBy ==
    ASSUME NEW m \in Nat, log[m] \in Transactions
    PROVE  LET tx == log[m] IN
           /\ tx.op \in {"issue", "settle"} =>
                Given(m) = {[cid |-> <<m, 1>>, owner |-> tx.to, amount |-> tx.amount]}
           /\ tx.op = "offer" /\ tx.change # 0 =>
                Given(m) = {[cid |-> <<m, 3>>, owner |-> tx.from, amount |-> tx.change]}
           /\ (tx.op = "offer" /\ tx.change = 0) \/ tx.op \in {"token", "witness"} => Given(m) = {}
BY Zenon DEF Given

----------------------------------------------------------------------------
(* The active holdings of the ledger are these rows.                       *)
----------------------------------------------------------------------------

\* The event that creates the holding of a row.
CreationOf(r) == Free(r.cid, r.owner, r.amount)

LEMMA GivenCreated ==
    ASSUME NEW m \in Nat, log[m] \in Transactions, NEW r \in Given(m)
    PROVE  CreationOf(r) \in EventsOf(m)
<1> DEFINE tx == log[m]
<1>1. CASE tx.op \in {"issue", "settle"}
  <2>1. r.cid = <<m, 1>> /\ r.owner = tx.to /\ r.amount = tx.amount
    BY <1>1, GivenBy
  <2>2. Free(<<m, 1>>, tx.to, tx.amount) \in EventsOf(m)
    BY <1>1, EventsOfOp, Zenon
  <2> QED  BY <2>1, <2>2, Zenon DEF CreationOf
<1>2. CASE tx.op = "offer" /\ tx.change # 0
  <2>1. r.cid = <<m, 3>> /\ r.owner = tx.from /\ r.amount = tx.change
    BY <1>2, GivenBy
  <2>2. Free(<<m, 3>>, tx.from, tx.change) \in EventsOf(m)
    BY <1>2, EventsOfOp, Zenon
  <2> QED  BY <2>1, <2>2, Zenon DEF CreationOf
<1> QED  BY <1>1, <1>2, Zenon DEF Given

LEMMA CreatedGiven ==
    ASSUME NEW m \in Nat, log[m] \in Transactions, NEW ev \in EventsOf(m),
           ev.acsDelta, ev.created, ev.tmpl = "Holding", ~ev.args.locked
    PROVE  \E r \in Given(m) : ev = CreationOf(r)
<1> DEFINE tx == log[m]
<1>1. \/ tx.op \in {"issue", "settle"} /\ ev = Free(<<m, 1>>, tx.to, tx.amount)
      \/ tx.op = "offer" /\ ev = Locked(<<m, 1>>, tx.from, tx.amount)
      \/ tx.op = "offer" /\ tx.change # 0 /\ ev = Free(<<m, 3>>, tx.from, tx.change)
  BY CreatedBy, Zenon
<1>2. CASE tx.op \in {"issue", "settle"} /\ ev = Free(<<m, 1>>, tx.to, tx.amount)
  <2> DEFINE r == [cid |-> <<m, 1>>, owner |-> tx.to, amount |-> tx.amount]
  <2>1. r \in Given(m)
    BY <1>2, GivenBy, Zenon
  <2>2. ev = CreationOf(r)
    BY <1>2, Zenon DEF CreationOf
  <2> QED  BY <2>1, <2>2, Zenon
<1>3. CASE ev = Locked(<<m, 1>>, tx.from, tx.amount)
  BY <1>3, LockedFields, Zenon
<1>4. CASE tx.op = "offer" /\ tx.change # 0 /\ ev = Free(<<m, 3>>, tx.from, tx.change)
  <2> DEFINE r == [cid |-> <<m, 3>>, owner |-> tx.from, amount |-> tx.change]
  <2>1. r \in Given(m)
    BY <1>4, GivenBy, Zenon
  <2>2. ev = CreationOf(r)
    BY <1>4, Zenon DEF CreationOf
  <2> QED  BY <2>1, <2>2, Zenon
<1> QED  BY <1>1, <1>2, <1>3, <1>4, Zenon

\* The free holdings active on the ledger are the rows left.
LEMMA ActiveIsFree ==
    ASSUME log \in Seq(Transactions), NEW n \in 0 .. Len(log),
           NEW ev \in ActiveAt(n, "Holding"), ~ev.args.locked
    PROVE  \E r \in FreeRows(n) : ev = CreationOf(r)
<1>1. PICK m \in 1 .. n : ev \in EventsOf(m)
  BY Zenon DEF ActiveAt, EventsUpTo
<1>2. ev.tmpl = "Holding" /\ ev.acsDelta /\ ev.created
  BY Zenon DEF ActiveAt
<1>3. m \in Nat /\ log[m] \in Transactions
  OBVIOUS
<1>4. PICK r \in Given(m) : ev = CreationOf(r)
  BY <1>1, <1>2, <1>3, CreatedGiven, Zenon
<1>5. ev.cid = r.cid
  BY <1>4, FreeFields DEF CreationOf
<1>6. ASSUME r.cid \in Spent(n) PROVE FALSE
  <2>1. PICK k \in 1 .. n : log[k].op = "offer" /\ log[k].input = r.cid
    BY <1>6, Zenon DEF Spent, Offers
  <2> DEFINE x == Consumed("Holding", log[k].input, "Lock")
  <2>2. x \in EventsOf(k)
    BY <2>1, EventsOfOp, Zenon
  <2>3. x.tmpl = "Holding" /\ x.acsDelta /\ ~x.created /\ x.cid = ev.cid
    BY <1>5, <2>1, ConsumedFields
  <2> HIDE DEF x
  <2> QED  BY <2>1, <2>2, <2>3, Zenon DEF ActiveAt, EventsUpTo
<1> QED  BY <1>1, <1>4, <1>6, Zenon DEF FreeRows

----------------------------------------------------------------------------
(* What the ledger lets an offer use up.                                   *)
----------------------------------------------------------------------------

\* The rows left after n transactions stay when the ledger grows.
LEMMA RowsStable ==
    ASSUME log \in Seq(Transactions), NEW tx \in Transactions, log' = Append(log, tx),
           NEW n \in 0 .. Len(log)
    PROVE  FreeRows(n)' = FreeRows(n)
<1>1. \A m \in 1 .. n : log'[m] = log[m]
  BY PrefixStable, Zenon
<1>2. Offers(n)' = Offers(n)
  BY PositionsStable, Zenon
<1>3. Spent(n)' = Spent(n)
  <2>1. \A m \in Offers(n) : log'[m] = log[m]
    BY <1>1, Zenon DEF Offers
  <2> QED  BY <1>2, <2>1, Zenon DEF Spent
<1>4. {Given(m) : m \in 1 .. n}' = {Given(m) : m \in 1 .. n}
  BY <1>1, Zenon DEF Given
<1> QED  BY <1>3, <1>4, Zenon DEF FreeRows

LEMMA OfferLegalAppend ==
    ASSUME log \in Seq(Transactions), NEW tx \in Transactions, log' = Append(log, tx),
           \A m \in 1 .. Len(log) : OfferLegal(m), tx.op = "offer" => OfferOp(tx)
    PROVE  \A m \in 1 .. Len(log') : OfferLegal(m)'
<1> SUFFICES ASSUME NEW m \in 1 .. Len(log') PROVE OfferLegal(m)'
  BY Zenon
<1>1. Len(log') = Len(log) + 1 /\ Len(log) \in Nat /\ m - 1 \in 0 .. Len(log)
  OBVIOUS
<1>2. FreeRows(m - 1)' = FreeRows(m - 1)
  BY <1>1, RowsStable, Zenon
<1>3. CASE m \in 1 .. Len(log)
  <2>1. log'[m] = log[m] /\ OfferLegal(m)
    BY <1>3
  <2> QED  BY <1>2, <2>1, Zenon DEF OfferLegal
<1>4. CASE m = Len(log) + 1
  <2>1. log'[m] = tx /\ m - 1 = Len(log)
    BY <1>4
  <2>2. ASSUME tx.op = "offer"
        PROVE  \E r \in FreeRows(m - 1) :
                   r.cid = tx.input /\ r.owner = tx.from /\ r.amount = tx.amount + tx.change
    <3>1. PICK h \in ActiveAt(Len(log), "Holding") :
              /\ h.cid = tx.input /\ h.args.owner = tx.from /\ ~h.args.locked
              /\ h.args.amount = tx.amount + tx.change
      BY <2>2, Zenon DEF OfferOp
    <3>2. PICK r \in FreeRows(Len(log)) : h = CreationOf(r)
      BY <1>1, <3>1, ActiveIsFree
    <3>3. h.cid = r.cid /\ h.args.owner = r.owner /\ h.args.amount = r.amount
      BY <3>2, FreeFields DEF CreationOf
    <3> QED  BY <2>1, <3>1, <3>2, <3>3, Zenon
  <2> QED  BY <1>2, <2>1, <2>2, Zenon DEF OfferLegal
<1> QED  BY <1>1, <1>3, <1>4
=============================================================================
