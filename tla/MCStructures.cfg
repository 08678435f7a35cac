SPECIFICATION StructuresSpec
CONSTANTS
    Half = 2
    IntLimit = 6
    Keep = 3
    MaxNonce = 11
    FirstBase = {0, 5}
    CounterMod = 2
    Keys = {k1, k2, k3, k4}
    Values = {v1, v2}
    HandleMod = 8
    MaxPuts = 6
    Alloc = {r, x, y, z}
    root = r
    Job = {j, k}
    Kinds = {"sync", "async"}
    MaxAdoptions = 2
    self = self
    n1 = n1
    n2 = n2
    n3 = n3
    Node = {n1, n2, n3}
    Self = self
    Order <- MCOrder
    LinkLabels <- MCLabels
    Distance <- MCDistance
    Bucket <- MCBucket
    BucketSize = 1
    MaxHops = 2
    MinCost = 1
    MaxCost = 4
    LatencyWindow = 2
    NodeCapacity = 2
    MaxCycles = 8
    NULL = NULL
    LabelBits = 24
    maxMessageSize = 4
    Messages <- MCMessages
    MaxSent = 3
    ka = ka
    kb = kb
    a4 = a4
    b4 = b4
    c4 = c4
    d4 = d4
    a6 = a6
    b6 = b6
    m6 = m6
    PublicKeys = {ka, kb}
    Ip4 = {a4, b4, c4, d4}
    Ip6 = {a6, b6, m6}
    Mesh = {m6}
    Issues <- MCIssues
    Offers <- MCOffers
    MaxMade = 4
    Numbers = {0, 2, 7, 8, 32, 33, 256}
INVARIANTS
    AtMostOnce
    RecentAdmitted
    LostExact
    FoundByHandle
    RoutesExact
    HeldNotFreed
    FreedWhenDone
    PathsSound
    FramesExact
    TunnelsExact
PROPERTIES
    HandlesFresh
CHECK_DEADLOCK FALSE
