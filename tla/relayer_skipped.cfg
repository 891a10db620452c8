SPECIFICATION Spec
CONSTANTS
    Events = {1}
    DirOf <- OneDeposit
    PosOf <- OwnBlock
    TxOf <- OwnTx
    StartBlock <- Zero
    Lookback <- Zero
    MaxBlockRange = 2
    ChanCap = 1
    MaxRetries = 1
    MaxPos <- EthereumTo1
    DupBound = 1
    DbFaults = FALSE
    CheckFaults = FALSE
    SlowSubmit = FALSE
    MaxCrashes = 0
INVARIANTS
    CompletedIsMinted
