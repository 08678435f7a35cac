SPECIFICATION FairSpec
CONSTANTS
    x = x
    y = y
    Addrs = {x, y}
    Mute = {y}
    MaxPeers = 3
    PingAfter = 1
    UnresponsiveAfter = 2
    ForgetAfter = 3
    PingSkip = 2
    Redial = FALSE
INVARIANTS
    TypeOK
    DownWhenUnresponsive
PROPERTIES
    ToldOfLivePeers
    SilenceNoticed
