SPECIFICATION Spec
CONSTANTS
    Events = {1, 2}
    DirOf <- TwoDeposits
    PosOf <- FirstBlock
    TxOf <- OneTx
    StartBlock <- Zero
    Lookback <- Zero
    MaxBlockRange = 2
    ChanCap = 1
    MaxRetries = 1
    MaxPos <- EthereumTo1
    DupBound = 2
    DbFaults = TRUE
    CheckFaults = FALSE
    SlowSubmit = FALSE
    MaxCrashes = 1
INVARIANTS
    MintAtMostOnce
PROPERTIES
    LifecycleSpec
