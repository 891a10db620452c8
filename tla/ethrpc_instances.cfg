SPECIFICATION Spec
CONSTANTS
    Txs = {1, 2}
    FromOf <- Two
    AmountOf <- TwoAmount
    Supply <- OneScarce
    Accepted = {1, 2}
    Instances = {i1, i2}
    BatchSize = 0
    Concurrency = 2
    MaxTxsPerBlock = 2
    Retired = {2}
    DbFaults = TRUE
    LedgerFaults = TRUE
    MaxLost = 1
    MaxCrashes = 1
    MaxCredits = 1
SYMMETRY Symmetry
CHECK_DEADLOCK FALSE
INVARIANT TypeOK
INVARIANT SuccessIsExecuted
INVARIANT BlocksWellFormed
PROPERTY DecidedOnce
PROPERTY ImplementsOutcomes
