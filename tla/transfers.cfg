SPECIFICATION TransfersLiveSpec
CONSTANTS
    alice = alice
    bob = bob
    dave = dave
    c1 = c1
    c2 = c2
    External = {alice}
    Custodial = {}
    Joining = {bob}
    Strangers = {dave}
    InitHoldings <- MCHoldings
    InitOffers <- MCOffers
    MaxOffers = 2
    Amounts = {1}
    Clients = {c1, c2}
    PageLimit = 1
    MaxSize = 1
    MaxPrepared = 2
INVARIANTS
    TransfersTypeOK
    SubmittedOnce
    SubmittedInTime
    ClaimableWhileActive
PROPERTIES
    EventuallyAccepted
    EventuallyRoom
CHECK_DEADLOCK FALSE
