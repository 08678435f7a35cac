SPECIFICATION Spec
SYMMETRY LabelSymmetry
CONSTANTS
    n1 = n1
    n2 = n2
    m1 = m1
    Ips = {n1, n2}
    Unknown = {n2}
    Labels = {l1, l2, l3}
    l1 = l1
    l2 = l2
    l3 = l3
    PATH_COUNT = 2
    Msgs = {m1}
    Kinds = {"user", "dht"}
    Metrics = {5, 9}
    SM_INCOMING = 6
    SM_SEND = 7
    NO_INFO = 8
    sessionTimeout = 1
    sessionSearchAfter = 1
    bufferTimeout = 1
    maxBufferedMessages = 1
    MaxTime = 2
INVARIANTS
    BestFirst
PROPERTIES
    HeldPacketsPursued
    UserTrafficAfterSetup
