SPECIFICATION Spec
CONSTANTS
    alice = alice
    bob = bob
    demo = demo
    rogue = rogue
    NoParty = NoParty
    Parties <- MCParties
    Listed = {demo}
    Unlisted = {rogue}
    Amounts = {1, 2}
    Elsewhere <- MCElsewhere
    Ops <- MCOneOp
    MaxLog = 2
    QueueCap = 2
    MaxCrashes = 1
    MaxLostAcks = 1
    MaxRevoked = 0
    Lifetimes = {2}
    TokensAge = FALSE
    Leeway = 1
    FallbackTTL = 1
CHECK_DEADLOCK FALSE
INVARIANT
    HoldingsMatch
