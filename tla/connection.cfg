\* A rule's start, its connections and their peers.
SPECIFICATION Spec
CONSTANTS
    c1 = c1
    c2 = c2
    b1 = b1
    Conn = {c1, c2}
    Client = {1, 2, 3}
    AddrBits = 2
    Backend = {b1}
    NoBackend = NoBackend
    MaxBucket = 6
    Limit = 1
    NoLimit = NoLimit
    Slack = 1
    NumAcceptors = 1
    Rules <- ThreeRules
    Silent = {1}
INVARIANTS
    TypeOK
    ClientShares
    ClientsApart
    ExcludedGetNothing
    SocketsCounted
    MetricsAddUp
    BackendReadsHeader
PROPERTIES
    SlotsReturned
    KeepsAccepting
CHECK_DEADLOCK FALSE
