SPECIFICATION LiveSpec
CONSTANTS
    alice = alice
    bob = bob
    demo = demo
    rogue = rogue
    NoParty = NoParty
    Parties <- MCParties
    Listed = {demo}
    Unlisted = {rogue}
    Amounts = {1, 2}
    Elsewhere <- MCElsewhere
    Ops <- MCFewOps
    MaxLog = 2
    QueueCap = 2
    MaxCrashes = 1
    MaxLostAcks = 1
    MaxRevoked = 1
    Lifetimes = {1, 3}
    TokensAge = TRUE
    Leeway = 2
    FallbackTTL = 2
CHECK_DEADLOCK FALSE
INVARIANT
    RefreshedInTime
PROPERTY
    EventuallyIndexed
