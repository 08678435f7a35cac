SPECIFICATION Spec
CONSTANTS
    x = x
    y = y
    Addrs = {x}
    Mute = {}
    MaxPeers = 3
    PingAfter = 1
    UnresponsiveAfter = 2
    ForgetAfter = 3
    PingSkip = 1
    Redial = TRUE
INVARIANT ClosesWhatIsMapped
