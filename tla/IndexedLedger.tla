--------------------------- MODULE IndexedLedger ---------------------------
(***************************************************************************)
(* What the indexer promises: its tables are those obtained by applying    *)
(* the ledger's transactions one after the other, each of them once, and   *)
(* the stored offset says how many have been applied.                      *)
(*                                                                         *)
(* When the answer of a commit can be lost the last transaction may be     *)
(* applied again.                                                          *)
(***************************************************************************)
EXTENDS Integers, Sequences

CONSTANTS
    EmptyStore,             \* the tables before the first transaction
    ProcessBatch(_, _, _),  \* the tables after a transaction
    Commits(_, _, _),       \* the transaction can be applied to the tables
    Reapply                 \* the answer of a commit can be lost

VARIABLES log, db, offset

ledgerVars == <<log, db, offset>>

LedgerInit == log = <<>> /\ db = EmptyStore /\ offset = 0

\* The ledger grows by one transaction.
Grow ==
    /\ Len(log') = Len(log) + 1
    /\ \A n \in 1 .. Len(log) : log'[n] = log[n]
    /\ UNCHANGED <<db, offset>>

\* Transaction n takes effect in the tables.
Index(n) ==
    /\ n \in 1 .. Len(log)
    /\ Commits(db, n, log[n])
    /\ db' = ProcessBatch(db, n, log[n])
    /\ offset' = n
    /\ UNCHANGED log

LedgerNext == Grow \/ Index(offset + 1) \/ (Reapply /\ Index(offset))

LedgerSpec == LedgerInit /\ [][LedgerNext]_ledgerVars
=============================================================================
