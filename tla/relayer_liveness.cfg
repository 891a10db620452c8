SPECIFICATION FairSpec
CONSTANTS
    Events = {1, 2}
    DirOf <- TwoDeposits
    PosOf <- OwnBlock
    TxOf <- OwnTx
    StartBlock <- Zero
    Lookback <- Zero
    MaxBlockRange = 1
    ChanCap = 1
    MaxRetries = 1
    MaxPos <- EthereumTo2
    DupBound = 1
    DbFaults = FALSE
    CheckFaults = TRUE
    SlowSubmit = TRUE
    MaxCrashes = 1
INVARIANTS
    NoSilentLoss
    CompletedHasTrace
PROPERTIES
    EventuallyRecorded
    EventuallySettled
