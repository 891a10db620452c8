SPECIFICATION Spec
CONSTANTS
    Txs = {1, 2}
    FromOf <- Two
    AmountOf <- TwoAmount
    Supply <- OneScarce
    Accepted = {1, 2}
    Instances = {1}
    BatchSize = 0
    Concurrency = 2
    MaxTxsPerBlock = 2
    Retired = {}
    DbFaults = FALSE
    LedgerFaults = FALSE
    MaxLost = 1
    MaxCrashes = 0
    MaxCredits = 0
CHECK_DEADLOCK FALSE
INVARIANT FailedNotExecuted
