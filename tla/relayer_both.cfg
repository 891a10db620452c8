SPECIFICATION Spec
CONSTANTS
    Events = {1, 2}
    DirOf <- OneOfEach
    PosOf <- FirstBlock
    TxOf <- OwnTx
    StartBlock <- Zero
    Lookback <- One
    MaxBlockRange = 2
    ChanCap = 1
    MaxRetries = 1
    MaxPos <- BothTo1
    DupBound = 2
    DbFaults = FALSE
    CheckFaults = FALSE
    SlowSubmit = FALSE
    MaxCrashes = 1
INVARIANTS
    TypeOK
    ClosedAfterSend
PROPERTIES
    LifecycleSpec
