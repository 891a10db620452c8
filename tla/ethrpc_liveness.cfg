SPECIFICATION FairReadSpec
CONSTANTS
    Txs = {1, 2, 3}
    FromOf <- ThreeFrom
    AmountOf <- ThreeAmount
    Supply <- Scarce
    Accepted = {1, 2, 3}
    Instances = {1}
    BatchSize = 2
    Concurrency = 2
    MaxTxsPerBlock = 2
    Retired = {}
    DbFaults = FALSE
    LedgerFaults = FALSE
    MaxLost = 0
    MaxCrashes = 0
    MaxCredits = 1
    Buffer = 1
    MaxUptime = 3
    LogLimit = 1
CHECK_DEADLOCK FALSE
INVARIANT AnswersFinal
INVARIANT FailedNotExecuted
PROPERTY EventuallyReceipt
