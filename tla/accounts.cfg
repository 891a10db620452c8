SPECIFICATION AccountsSpec
CONSTANTS
    a1 = a1
    a2 = a2
    key = key
    partner = partner
    r1 = r1
    r2 = r2
    Addresses = {a1, a2}
    Hint <- SameHint
    ClientKeys = {key}
    Natives = {partner}
    Namespace <- OwnNamespace
    Requests = {r1, r2}
    Overlapping = {a1}
    MaxKeys = 2
    MaxTopologies = 2
    MaxMappings = 2
    NonceTTL = 1
    MaxAddresses = 1
    MaxNonces = 2
INVARIANTS
    Resolves
    PartyOnce
    IndexesAgree
    UsedOnce
PROPERTIES
    LiveNoncesKept
    ImplementsSignIn
SYMMETRY Symmetry
CHECK_DEADLOCK FALSE
