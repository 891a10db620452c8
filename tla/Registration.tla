---------------------------- MODULE Registration ----------------------------
(***************************************************************************)
(* User registration (pkg/user/service): the user store, the cache of      *)
(* prepared topologies, and the parties and fingerprint mappings on the    *)
(* Canton ledger.  A request is a sequence of calls of which any can fail, *)
(* and the service undoes nothing.  A call whose effect takes place though *)
(* its answer is lost is the call followed by Abort.  A call that the      *)
(* ledger still executes after its request was given up keeps the request  *)
(* in progress: with a retry, the person has two of them.                  *)
(***************************************************************************)
EXTENDS Integers, Sequences, FiniteSets

CONSTANTS
    Addresses,      \* whitelisted EVM addresses (others are turned down at once)
    Hint,           \* address -> party hint, the first characters of the address
    ClientKeys,     \* Canton keys held by clients
    Natives,        \* parties that exist already on Canton
    Namespace,      \* native party -> the fingerprint in its id
    Requests,       \* concurrent requests
    Overlapping,    \* people who may have several requests in progress at once
    MaxKeys,        \* bound on keys the service generates
    MaxTopologies,  \* bound on topologies prepared
    MaxMappings     \* bound on mappings created

\* Keys the service generates are 1, 2, ...: no client has one of them.  A party
\* id or an address that is made of such a key is none of the given ones, and
\* the namespaces of native parties differ from each other and from the
\* fingerprints of addresses.
ASSUME RegistrationAssumption ==
    /\ MaxKeys \in Nat
    /\ Addresses \cap Natives = {}
    /\ \A k \in ClientKeys : k \notin Nat
    /\ \A a \in Addresses, k \in ClientKeys \cup 1 .. MaxKeys : <<Hint[a], k>> \notin Natives
    /\ \A k \in 1 .. MaxKeys : <<"evm", k>> \notin Addresses
    /\ \A p, q \in Natives : Namespace[p] = Namespace[q] => p = q
    /\ \A p \in Natives : Namespace[p] \notin Addresses

VARIABLES
    users,          \* rows: [evm, party, fingerprint, keyMode]
    allocated,      \* external parties allocated: <<hint, key>>
    mappings,       \* active FingerprintMappings in order: [fingerprint, party]
    topologies,     \* the topology cache: [token, key, party]
    generated,      \* keys generated so far
    tokens,         \* registration tokens handed out so far
    requests        \* request -> where it is: [at, kind, who, key, party]

registrationVars == <<users, allocated, mappings, topologies, generated, tokens, requests>>

NoRequest == [at |-> "none", kind |-> "none", who |-> 0, key |-> 0, party |-> <<>>]

RegistrationInit ==
    /\ users = {} /\ allocated = {} /\ mappings = <<>> /\ topologies = {}
    /\ generated = 0 /\ tokens = 0
    /\ requests = [r \in Requests |-> NoRequest]

At(r, label) == requests[r].at = label
Goto(r, label) == requests' = [requests EXCEPT ![r].at = label]
Ends(r) == requests' = [requests EXCEPT ![r] = NoRequest]

\* The fingerprint of an address is its hash; that of a party is part of its id.
Fingerprint(q) == IF q.kind = "native" THEN Namespace[q.who] ELSE q.who

\* The mappings of a fingerprint, by their place in the order of creation.
Matches(f) == {k \in DOMAIN mappings : mappings[k].fingerprint = f}

\* GetFingerprintMapping: the first match.
ResolveNaive(f) ==
    {mappings[k].party : k \in {x \in Matches(f) : \A j \in Matches(f) : x <= j}}

\* GetFingerprintMapping: the last match.
Resolve(f) ==
    {mappings[k].party : k \in {x \in Matches(f) : \A j \in Matches(f) : j <= x}}

-----------------------------------------------------------------------------

\* No request is turned down.
RegisteredNaive(q) == FALSE

\* UserExists, or GetUserByCantonPartyID for a native party.
Registered(q) ==
    \E u \in users : IF q.kind = "native" THEN u.party = q.who ELSE u.evm = q.who

FirstCall(kind) ==
    CASE kind = "custodial" -> "allocate"
      [] kind = "prepare" -> "put"
      [] kind = "external" -> "take"
      [] kind = "native" -> "map"

\* A request begins with the look-up of the user, and ends with it if there is one.
Begin(r, kind, who, key) ==
    LET q == [at |-> FirstCall(kind), kind |-> kind, who |-> who, key |-> key, party |-> <<>>] IN
    /\ At(r, "none")
    /\ who \in Overlapping \/ \A o \in Requests : requests[o].who # who
    /\ ~Registered(q)
    /\ requests' = [requests EXCEPT ![r] = q]
    /\ UNCHANGED <<users, allocated, mappings, topologies, generated, tokens>>

BeginWeb3(r) == \E a \in Addresses : Begin(r, "custodial", a, 0)
BeginPrepare(r) == \E a \in Addresses, k \in ClientKeys : Begin(r, "prepare", a, k)
BeginExternal(r) == \E a \in Addresses, k \in ClientKeys : Begin(r, "external", a, k)
BeginNative(r) == \E p \in Natives : Begin(r, "native", p, 0)

\* PrepareExternalRegistration: the topology for the client's key is cached
\* under a new token.
PutTopology(r) ==
    /\ At(r, "put") /\ tokens < MaxTopologies
    /\ tokens' = tokens + 1
    /\ LET q == requests[r] IN
       topologies' = topologies \cup
           {[token |-> tokens + 1, key |-> q.key, party |-> <<Hint[q.who], q.key>>]}
    /\ Ends(r)
    /\ UNCHANGED <<users, allocated, mappings, generated>>

\* GetAndDelete; the key must be the one of the topology.
TakeTopology(r) ==
    /\ At(r, "take")
    /\ \E t \in topologies :
        /\ topologies' = topologies \ {t}
        /\ IF t.key = requests[r].key
           THEN requests' = [requests EXCEPT ![r].at = "allocate", ![r].party = t.party]
           ELSE Ends(r)
    /\ UNCHANGED <<users, allocated, mappings, generated, tokens>>

\* An expired topology is as good as removed, by GetAndDelete or cleanup.
TopologyExpires ==
    /\ \E t \in topologies : topologies' = topologies \ {t}
    /\ UNCHANGED <<users, allocated, mappings, generated, tokens, requests>>

\* AllocateExternalParty, with a key of its own for every custodial user.
AllocateCustodial(r) ==
    /\ At(r, "allocate") /\ requests[r].kind = "custodial" /\ generated < MaxKeys
    /\ LET party == <<Hint[requests[r].who], generated + 1>> IN
        /\ allocated' = allocated \cup {party}
        /\ requests' = [requests EXCEPT ![r].at = "map", ![r].party = party]
    /\ generated' = generated + 1
    /\ UNCHANGED <<users, mappings, topologies, tokens>>

\* AllocateExternalPartyWithSignature refuses a party that exists.
AllocateExternal(r) ==
    /\ At(r, "allocate") /\ requests[r].kind = "external"
    /\ allocated' = allocated \cup {requests[r].party}
    /\ IF requests[r].party \in allocated THEN Ends(r) ELSE Goto(r, "map")
    /\ UNCHANGED <<users, mappings, topologies, generated, tokens>>

PartyOf(q) == IF q.kind = "native" THEN q.who ELSE q.party

\* CreateFingerprintMapping.
CreateMapping(r) ==
    /\ At(r, "map") /\ Len(mappings) < MaxMappings
    /\ LET q == requests[r] IN
       mappings' = Append(mappings, [fingerprint |-> Fingerprint(q), party |-> PartyOf(q)])
    /\ Goto(r, "save")
    /\ UNCHANGED <<users, allocated, topologies, generated, tokens>>

\* CreateUser: the address is unique in the table.  The address of a native user
\* belongs to a key the service has just generated.
Save(r) ==
    /\ At(r, "save")
    /\ LET q == requests[r]
           native == q.kind = "native"
           evm == IF native THEN <<"evm", generated + 1>> ELSE q.who
           row == [evm |-> evm, party |-> PartyOf(q), fingerprint |-> Fingerprint(q),
                   keyMode |-> IF q.kind = "external" THEN "external" ELSE "custodial"]
       IN  /\ native => generated < MaxKeys
           /\ generated' = IF native THEN generated + 1 ELSE generated
           /\ users' = IF \E u \in users : u.evm = evm THEN users ELSE users \cup {row}
    /\ Ends(r)
    /\ UNCHANGED <<allocated, mappings, topologies, tokens>>

\* A call fails, the client gives up or the process ends.
Abort(r) ==
    /\ ~At(r, "none")
    /\ Ends(r)
    /\ UNCHANGED <<users, allocated, mappings, topologies, generated, tokens>>

\* A restart loses the requests and the cache.
RegistrationLost ==
    /\ requests' = [r \in Requests |-> NoRequest]
    /\ topologies' = {}
    /\ UNCHANGED <<users, allocated, mappings, generated, tokens>>

RegistrationNext ==
    \/ TopologyExpires
    \/ \E r \in Requests :
        \/ BeginWeb3(r) \/ BeginPrepare(r) \/ BeginExternal(r) \/ BeginNative(r)
        \/ PutTopology(r) \/ TakeTopology(r)
        \/ AllocateCustodial(r) \/ AllocateExternal(r)
        \/ CreateMapping(r) \/ Save(r) \/ Abort(r)
=============================================================================
